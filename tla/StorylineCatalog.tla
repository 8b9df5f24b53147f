-------------------------- MODULE StorylineCatalog --------------------------
(* Storylines and the domains they belong to, in two copies that share no   *)
(* table: geopolitical and macroeconomic.  A catalogue is reconciled with    *)
(* what is stored under table locks, single rows are written under row locks, *)
(* and a cutover moves the one domain of a storyline into a table of links.   *)
EXTENDS Integers, Sequences, FiniteSets, SequencesExt

CONSTANTS
    DomainCodes, DomainLabels,     \* the codes a catalogue has to contain
    DomainIds, DomainId,           \* ids, and the one derived from a code
    StoryNames, StoryIds, StoryId, \* likewise, derived from a name
    StoryTexts,
    StoryCount,                    \* storylines that a catalogue has to contain
    AskedDomains,                  \* the sets of domains that calls give
    StorylineFiles,                \* the catalogues that may be published
    FirstStorylines,               \* what is stored before the cutover
    StoryCalls,
    MaxStoryWrites                 \* bound of the calls and old writes

NoDomain == [code |-> "none", name |-> "none", updated |-> -1]
NoStory == [name |-> "none", text |-> "none", updated |-> -1]
NoDomainId == "none"

ASSUME StorylineConstants ==
    /\ DomainId \in [DomainCodes -> DomainIds] /\ StoryId \in [StoryNames -> StoryIds]
    /\ \A j, k \in DomainCodes : DomainId[j] = DomainId[k] => j = k
    /\ \A j, k \in StoryNames : StoryId[j] = StoryId[k] => j = k
    /\ NoDomainId \notin DomainIds /\ AskedDomains \subseteq (SUBSET DomainIds) \ {{}}
    /\ StoryCount \in Nat /\ MaxStoryWrites \in Nat /\ IsFiniteSet(DomainCodes)

DomainRow == [code : DomainCodes, name : DomainLabels, updated : Nat]
StoryRow == [name : StoryNames, text : StoryTexts, updated : Nat]

\* Lists of items with the fields that are checked before a catalogue is read;
\* codes may be wrong.
ASSUME StorylineFileFields ==
    \A file \in StorylineFiles :
        /\ DOMAIN file.domains = 1 .. Len(file.domains)
        /\ \A n \in DOMAIN file.domains : file.domains[n].name \in DomainLabels
        /\ \A n \in DOMAIN file.storylines :
             file.storylines[n].name \in StoryNames /\ file.storylines[n].text \in StoryTexts

\* What the last release has stored: derived identities have their own code,
\* names and codes are unique, and every storyline has a domain that is there.
ASSUME FirstStorylinesAreReadable ==
    /\ NoDomain.name \notin DomainLabels /\ NoStory.name \notin StoryNames
    /\ \A first \in FirstStorylines :
         /\ first.domain \in [DomainIds -> DomainRow \cup {NoDomain}]
         /\ first.storyline \in [StoryIds -> StoryRow \cup {NoStory}]
         /\ first.legacy \in [StoryIds -> DomainIds \cup {NoDomainId}]
         /\ \A k \in DomainCodes : first.domain[DomainId[k]] # NoDomain => first.domain[DomainId[k]].code = k
         /\ \A d, e \in DomainIds : d # e /\ first.domain[d] # NoDomain /\ first.domain[e] # NoDomain =>
              first.domain[d].name # first.domain[e].name /\ first.domain[d].code # first.domain[e].code
         /\ \A s \in StoryIds : first.storyline[s] # NoStory =>
              /\ first.legacy[s] \in DomainIds /\ first.domain[first.legacy[s]] # NoDomain
              /\ \A t \in StoryIds \ {s} : first.storyline[t].name # first.storyline[s].name

VARIABLES
    storyKind,     \* which of the two copies a behaviour is about
    schema,        \* 92 has the column, and 93 only the links
    legacy,        \* the domain in the column of each storyline
    domain,        \* the row of each domain id
    storyline,     \* the row of each storyline id
    membership,    \* pairs of a storyline and a domain
    storyCall,
    storyWrites    \* calls so far, the clock of the rows as well

storyTables == <<schema, legacy, domain, storyline, membership>>
storyVars == <<storyKind, storyTables, storyCall, storyWrites>>

Domains == {d \in DomainIds : domain[d] # NoDomain}
Stories == {s \in StoryIds : storyline[s] # NoStory}
MembersOf(s) == {p[2] : p \in {q \in membership : q[1] = s}}
Pairs(s, domains) == {<<s, d>> : d \in domains}

IdleStoryCall == [pc |-> "idle", order |-> [kind |-> "none"], holds |-> {}, rest |-> <<>>,
                  id |-> "none", drop |-> {}, out |-> "none"]
StoryStep(c, call) == storyCall' = [storyCall EXCEPT ![c] = call]
StoryEnds(c, out) ==
    StoryStep(c, [IdleStoryCall EXCEPT !.pc = "done", !.id = storyCall[c].id, !.out = out])
InStep(c, pc, kind) == storyCall[c].pc = pc /\ storyCall[c].order.kind = kind
Asked(c) == storyCall[c].order

-----------------------------------------------------------------------------
(* Catalogues.  The older version of each kind names one domain, the newer   *)
(* one a set of domains.                                                     *)

MacroeconomicVersions == [scalar |-> 1, list |-> 2]
GeopoliticVersions == [scalar |-> 2, list |-> 3]
Versions == IF storyKind = "macroeconomic" THEN MacroeconomicVersions ELSE GeopoliticVersions

\* domainCodes: the legacy shape is a set of one.
ItemDomains(item) == IF item.codes # {} THEN item.codes ELSE {item.code}

\* What both kinds ask of a file: the declared domains, each once and with a
\* name of its own, so many storylines, and memberships in those domains.
ValidMacroeconomic(file) ==
    LET D == file.domains
        S == file.storylines
    IN  /\ file.version \in {Versions.scalar, Versions.list}
        /\ {D[n].code : n \in DOMAIN D} = DomainCodes /\ Len(D) = Cardinality(DomainCodes)
        /\ \A n, m \in DOMAIN D : D[n].name = D[m].name => n = m
        /\ Len(S) = StoryCount
        /\ \A n, m \in DOMAIN S : S[n].name = S[m].name => n = m
        /\ \A n \in DOMAIN S :
             /\ file.version = Versions.scalar => S[n].codes = {} /\ S[n].code # NoDomainId
             /\ file.version = Versions.list => S[n].codes # {} /\ S[n].code = NoDomainId
             /\ ItemDomains(S[n]) \subseteq DomainCodes

\* The geopolitical copy differs in its versions and its numbers only.
ValidGeopolitic(file) == ValidMacroeconomic(file)

ValidFile(file) ==
    IF storyKind = "macroeconomic" THEN ValidMacroeconomic(file) ELSE ValidGeopolitic(file)

\* rejectUnexpectedIdentities: rows that no item of the file stands for.
UnexpectedIdentities(file) ==
    \/ \E d \in Domains : \A n \in DOMAIN file.domains : d # DomainId[file.domains[n].code]
    \/ \E s \in Stories : \A n \in DOMAIN file.storylines : s # StoryId[file.storylines[n].name]

\* The domains are written in the order of the file and names are unique after
\* each statement: a name that a later item still has is a conflict.
DomainNameTaken(file) ==
    LET D == file.domains IN
    \E n, m \in DOMAIN D : n < m /\ domain[DomainId[D[m].code]].name = D[n].name

UpsertedDomains(file) ==
    [d \in DomainIds |->
       LET items == {i \in Range(file.domains) : DomainId[i.code] = d}
       IN  IF items = {} THEN domain[d]
           ELSE LET i == CHOOSE i \in items : TRUE
                IN  IF domain[d].name = i.name THEN domain[d]
                    ELSE [code |-> i.code, name |-> i.name, updated |-> storyWrites]]

\* ON CONFLICT (name) ... WHERE id = excluded.id: a name with another id, or an
\* id with another name.
StoryIdentityTaken(file) ==
    \E i \in Range(file.storylines), s \in Stories :
        (storyline[s].name = i.name) # (s = StoryId[i.name])

\* Content or memberships that change set the time.
UpsertedStorylines(file) ==
    [s \in StoryIds |->
       LET items == {i \in Range(file.storylines) : StoryId[i.name] = s}
       IN  IF items = {} THEN storyline[s]
           ELSE LET i == CHOOSE i \in items : TRUE
                    domains == {DomainId[k] : k \in ItemDomains(i)}
                IN  IF storyline[s].text = i.text /\ MembersOf(s) = domains THEN storyline[s]
                    ELSE [name |-> i.name, text |-> i.text, updated |-> storyWrites]]

\* replaceDomainLinks: the set of the file takes the place of the stored one.
ReplacedMemberships(file) ==
    UNION {Pairs(StoryId[i.name], {DomainId[k] : k \in ItemDomains(i)}) :
              i \in Range(file.storylines)}

-----------------------------------------------------------------------------
(* Calls and their locks.                                                    *)

PublicationLocks == <<"domain", "storyline", "links", "advisory">>

Publishes(c) == Asked(c).kind = "publish"

\* Rows are written under a lock that publications exclude, not each other.
TableOpen(c, table) ==
    \A d \in StoryCalls \ {c} :
        table \in storyCall[d].holds => ~Publishes(c) /\ ~Publishes(d)

\* Identities that the stores may make up.
NewDomains == DomainIds \ (Domains \cup Range(DomainId))
NewStories == StoryIds \ (Stories \cup Range(StoryId))

\* Bound: rows are only created while an identity is left for them.
IdentityLeft(order) ==
    LET others == {c \in StoryCalls : Asked(c).kind = order.kind} IN
    /\ order.kind = "create domain" => Cardinality(others) < Cardinality(NewDomains)
    /\ order.kind = "create" => Cardinality(others) < Cardinality(NewStories)

BeginStoryCall(c, order) ==
    /\ schema = 93 /\ storyCall[c].pc \in {"idle", "done"} /\ IdentityLeft(order)
    /\ storyWrites < MaxStoryWrites /\ storyWrites' = storyWrites + 1
    /\ LET begun == [IdleStoryCall EXCEPT !.order = order]
       IN  CASE order.kind = "publish" /\ ~ValidFile(order.file) ->
                  StoryStep(c, [begun EXCEPT !.pc = "done", !.out = "invalid"])
             [] order.kind = "publish" /\ ValidFile(order.file) ->
                  StoryStep(c, [begun EXCEPT !.pc = "locking", !.rest = PublicationLocks])
             [] OTHER -> StoryStep(c, [begun EXCEPT !.pc = "row"])
    /\ UNCHANGED <<storyKind, storyTables>>

LockCatalog(c) ==
    /\ storyCall[c].pc = "locking" /\ TableOpen(c, Head(storyCall[c].rest))
    /\ LET rest == Tail(storyCall[c].rest)
       IN  StoryStep(c, [storyCall[c] EXCEPT !.holds = @ \cup {Head(storyCall[c].rest)},
                                             !.rest = rest,
                                             !.pc = IF rest = <<>> THEN "working" ELSE @])
    /\ UNCHANGED <<storyKind, storyTables, storyWrites>>

\* The transaction of a catalogue, all of it or nothing.
PublishCatalog(c) ==
    /\ InStep(c, "working", "publish")
    /\ LET file == Asked(c).file
       IN  IF UnexpectedIdentities(file) \/ DomainNameTaken(file) \/ StoryIdentityTaken(file)
           THEN StoryEnds(c, "conflict") /\ UNCHANGED <<domain, storyline, membership>>
           ELSE /\ StoryEnds(c, "done")
                /\ domain' = UpsertedDomains(file)
                /\ storyline' = UpsertedStorylines(file)
                /\ membership' = ReplacedMemberships(file)
    /\ UNCHANGED <<storyKind, schema, legacy, storyWrites>>

-----------------------------------------------------------------------------
(* Single rows.                                                              *)

\* A domain is written by one statement.  Its name is a key: changing it waits
\* for the transactions that have just referred to the domain.
DomainReferred(c, d) ==
    \E other \in StoryCalls \ {c} :
        storyCall[other].pc = "commit" /\ d \in Asked(other).domains

\* A call that has locked the row of a domain, and one that changes its name.
WritesDomain(c, d) == storyCall[c].pc = "domain" /\ Asked(c).id = d
RenamesDomain(c, d) == WritesDomain(c, d) /\ domain[d].name # Asked(c).name

\* A name that another call may be giving up is undecided.
DomainNameUndecided(c, name) ==
    {e \in StoryCalls \ {c} : storyCall[e].pc = "domain" /\ domain[Asked(e).id].name = name}

CreateDomain(c) ==
    /\ InStep(c, "row", "create domain") /\ TableOpen(c, "domain")
    /\ DomainNameUndecided(c, Asked(c).name) = {}
    /\ IF \E d \in Domains : domain[d].code = Asked(c).code \/ domain[d].name = Asked(c).name
       THEN StoryEnds(c, "conflict") /\ UNCHANGED domain
       ELSE \E d \in NewDomains :
              /\ domain' = [domain EXCEPT ![d] = [code |-> Asked(c).code, name |-> Asked(c).name,
                                                  updated |-> storyWrites]]
              /\ StoryEnds(c, "done")
    /\ UNCHANGED <<storyKind, schema, legacy, storyline, membership, storyWrites>>

\* UPDATE ... WHERE id = $1 locks the row ...
LockDomain(c) ==
    LET d == Asked(c).id IN
    /\ InStep(c, "row", "update domain") /\ TableOpen(c, "domain")
    /\ IF domain[d] = NoDomain THEN StoryEnds(c, "not found")
       ELSE /\ \A e \in StoryCalls \ {c} : ~WritesDomain(e, d)
            /\ domain[d].name # Asked(c).name => ~DomainReferred(c, d)
            /\ StoryStep(c, [storyCall[c] EXCEPT !.pc = "domain", !.holds = {"domain"}])
    /\ UNCHANGED <<storyKind, storyTables, storyWrites>>

\* ... and waits for a call that may be giving up the name it writes.
UpdateDomain(c) ==
    LET d == Asked(c).id IN
    /\ storyCall[c].pc = "domain"
    /\ RenamesDomain(c, d) => DomainNameUndecided(c, Asked(c).name) = {}
    /\ IF \E e \in Domains \ {d} : domain[e].name = Asked(c).name
       THEN StoryEnds(c, "conflict") /\ UNCHANGED domain
       ELSE /\ domain' = [domain EXCEPT ![d].name = Asked(c).name, ![d].updated = storyWrites]
            /\ StoryEnds(c, "done")
    /\ UNCHANGED <<storyKind, schema, legacy, storyline, membership, storyWrites>>

\* Mutant: the memberships are replaced without the lock of the row.
RowIsFree_Any(c, s) == TRUE

\* The row of a storyline that another transaction has written is locked.
RowIsFree(c, s) ==
    \A d \in StoryCalls \ {c} : storyCall[d].pc \in {"name", "links", "commit"} => storyCall[d].id # s

\* The first statement of a storyline's transaction writes the row ...
WriteRow(c) ==
    /\ storyCall[c].pc = "row" /\ Asked(c).kind \in {"create", "update"}
    /\ TableOpen(c, "storyline")
    /\ LET held(id) == [storyCall[c] EXCEPT !.pc = "name", !.holds = {"storyline"}, !.id = id]
       IN  IF Asked(c).kind = "create"
           THEN \E s \in NewStories :
                  RowIsFree(c, s) /\ StoryStep(c, held(s))
           ELSE IF storyline[Asked(c).id] = NoStory THEN StoryEnds(c, "not found")
           ELSE RowIsFree(c, Asked(c).id) /\ StoryStep(c, held(Asked(c).id))
    /\ UNCHANGED <<storyKind, storyTables, storyWrites>>

\* ... and waits for the one that gives, or takes away, the same name.
NameUndecided(c, name) ==
    {d \in StoryCalls \ {c} :
        \/ storyCall[d].pc \in {"links", "commit"} /\ Asked(d).name = name
        \/ storyCall[d].pc \in {"name", "links", "commit"} /\ storyline[storyCall[d].id].name = name}

WriteName(c) ==
    LET name == Asked(c).name
        own == storyCall[c].id
    IN  /\ storyCall[c].pc = "name"
        /\ storyline[own].name # name => NameUndecided(c, name) = {}
        /\ IF \E s \in Stories \ {own} : storyline[s].name = name
           THEN StoryEnds(c, "conflict")
           ELSE StoryStep(c, [storyCall[c] EXCEPT !.pc = "links"])
        /\ UNCHANGED <<storyKind, storyTables, storyWrites>>

\* The statements on the links see what was committed before them, and wait for a
\* domain that is being renamed.
WriteLinks(c) ==
    /\ storyCall[c].pc = "links" /\ TableOpen(c, "links")
    /\ \A e \in StoryCalls \ {c}, d \in Asked(c).domains : ~RenamesDomain(e, d)
    /\ IF Asked(c).domains \subseteq Domains
       THEN StoryStep(c, [storyCall[c] EXCEPT !.pc = "commit", !.holds = @ \cup {"links"},
                !.drop = {p \in membership : p[1] = storyCall[c].id /\ p[2] \notin Asked(c).domains}])
       ELSE StoryEnds(c, "invalid")
    /\ UNCHANGED <<storyKind, storyTables, storyWrites>>

CommitStoryline(c) ==
    LET s == storyCall[c].id IN
    /\ storyCall[c].pc = "commit" /\ StoryEnds(c, "done")
    /\ storyline' = [storyline EXCEPT ![s] = [name |-> Asked(c).name, text |-> Asked(c).text,
                                              updated |-> storyWrites]]
    /\ membership' = (membership \ storyCall[c].drop) \cup Pairs(s, Asked(c).domains)
    /\ UNCHANGED <<storyKind, schema, legacy, domain, storyWrites>>

\* Who waits for whom: a name, a row, or a table.
WaitsForCall(c, d) ==
    CASE storyCall[c].pc = "name" -> storyline[storyCall[c].id].name # Asked(c).name
                                       /\ d \in NameUndecided(c, Asked(c).name)
      [] storyCall[c].pc = "links" ->
           \/ Publishes(d) /\ "links" \in storyCall[d].holds
           \/ \E k \in Asked(c).domains : RenamesDomain(d, k)
      [] storyCall[c].pc = "domain" -> RenamesDomain(c, Asked(c).id)
                                         /\ d \in DomainNameUndecided(c, Asked(c).name)
      [] storyCall[c].pc = "locking" -> Head(storyCall[c].rest) \in storyCall[d].holds
      [] OTHER -> FALSE

StoryDeadlock(c) == {d \in StoryCalls \ {c} : WaitsForCall(c, d) /\ WaitsForCall(d, c)}

BreakStoryDeadlock(c) ==
    /\ StoryDeadlock(c) # {} /\ StoryEnds(c, "failed")
    /\ UNCHANGED <<storyKind, storyTables, storyWrites>>

-----------------------------------------------------------------------------
(* What is read, and the cutover.                                            *)

\* List with a filter: a storyline without a domain fails it as a whole.
ListStorylines(filter) ==
    LET wanted == {s \in Stories : filter = {} \/ MembersOf(s) \cap filter # {}}
    IN  [ok |-> \A s \in wanted : MembersOf(s) # {}, found |-> wanted]

\* Before the cutover the last release writes the column.
OldWrite(s, d) ==
    /\ schema = 92 /\ s \in Stories /\ d \in Domains
    /\ storyWrites < MaxStoryWrites /\ storyWrites' = storyWrites + 1
    /\ legacy' = [legacy EXCEPT ![s] = d]
    /\ UNCHANGED <<storyKind, schema, domain, storyline, membership, storyCall>>

\* The maintenance command copies the column into the links.
BackfillDomainLinks ==
    /\ schema = 92 /\ membership' = membership \cup {<<s, legacy[s]>> : s \in Stories}
    /\ UNCHANGED <<storyKind, schema, legacy, domain, storyline, storyCall, storyWrites>>

\* Migration 93 refuses to lose one.
RemoveColumn ==
    /\ schema = 92 /\ \A s \in Stories : <<s, legacy[s]>> \in membership
    /\ schema' = 93 /\ legacy' = [s \in StoryIds |-> NoDomainId]
    /\ UNCHANGED <<storyKind, domain, storyline, membership, storyCall, storyWrites>>

-----------------------------------------------------------------------------
(* The two copies.                                                           *)

StoryOrders ==
    [kind : {"publish"}, file : StorylineFiles]
    \cup [kind : {"create domain"}, code : DomainCodes, name : DomainLabels]
    \cup [kind : {"update domain"}, id : DomainIds, name : DomainLabels]
    \cup [kind : {"create"}, name : StoryNames, text : StoryTexts, domains : AskedDomains]
    \cup [kind : {"update"}, id : StoryIds, name : StoryNames, text : StoryTexts,
          domains : AskedDomains]

WriteStoryline(c) == WriteRow(c) \/ WriteName(c) \/ WriteLinks(c) \/ CommitStoryline(c)

DomainWrite(c) == CreateDomain(c) \/ LockDomain(c) \/ UpdateDomain(c)

MacroeconomicStep(c) ==
    storyKind = "macroeconomic" /\ (LockCatalog(c) \/ PublishCatalog(c))
MacroeconomicWrite(c) == storyKind = "macroeconomic" /\ WriteStoryline(c)
MacroeconomicDomainWrite(c) == storyKind = "macroeconomic" /\ DomainWrite(c)
MacroeconomicBackfill == storyKind = "macroeconomic" /\ BackfillDomainLinks

GeopoliticStep(c) == storyKind = "geopolitic" /\ (LockCatalog(c) \/ PublishCatalog(c))
GeopoliticWrite(c) == storyKind = "geopolitic" /\ WriteStoryline(c)
GeopoliticDomainWrite(c) == storyKind = "geopolitic" /\ DomainWrite(c)
GeopoliticBackfill == storyKind = "geopolitic" /\ BackfillDomainLinks

StoryInit ==
    /\ storyKind \in {"macroeconomic", "geopolitic"} /\ schema = 92
    /\ \E first \in FirstStorylines :
         domain = first.domain /\ storyline = first.storyline /\ legacy = first.legacy
    /\ membership = {} /\ storyWrites = 0
    /\ storyCall = [c \in StoryCalls |-> IdleStoryCall]

StoryCallStep(c) ==
    \/ MacroeconomicStep(c) \/ MacroeconomicWrite(c) \/ MacroeconomicDomainWrite(c)
    \/ GeopoliticStep(c) \/ GeopoliticWrite(c) \/ GeopoliticDomainWrite(c)

StoryNext ==
    \/ \E c \in StoryCalls, order \in StoryOrders : BeginStoryCall(c, order)
    \/ \E c \in StoryCalls : StoryCallStep(c) \/ BreakStoryDeadlock(c)
    \/ \E s \in StoryIds, d \in DomainIds : OldWrite(s, d)
    \/ MacroeconomicBackfill \/ GeopoliticBackfill \/ RemoveColumn

\* Locks are granted in turn, and deadlocks are broken.
StorySpec ==
    /\ StoryInit /\ [][StoryNext]_storyVars
    /\ \A c \in StoryCalls : SF_storyVars(StoryCallStep(c)) /\ WF_storyVars(BreakStoryDeadlock(c))

-----------------------------------------------------------------------------
(* Properties.                                                               *)

StoryTypeOK ==
    /\ schema \in {92, 93} /\ legacy \in [StoryIds -> DomainIds \cup {NoDomainId}]
    /\ \A d \in Domains : domain[d].code \in DomainCodes /\ domain[d].name \in DomainLabels
    /\ \A s \in Stories : storyline[s].name \in StoryNames /\ storyline[s].text \in StoryTexts
    /\ membership \subseteq StoryIds \X DomainIds
    /\ storyWrites \in 0 .. MaxStoryWrites

\* From the cutover on every storyline belongs to stored domains, to one at
\* least, so that no listing fails, and names and codes are unique.
StorylinesStayReadable ==
    /\ \A p \in membership : p[1] \in Stories /\ p[2] \in Domains
    /\ schema = 93 => \A filter \in {{}} \cup {{d} : d \in Domains} : ListStorylines(filter).ok
    /\ \A s, t \in Stories : storyline[s].name = storyline[t].name => s = t
    /\ \A d, e \in Domains :
         domain[d].name = domain[e].name \/ domain[d].code = domain[e].code => d = e

\* A catalogue that says what is stored changes nothing when it is published
\* again, the times of the rows included.
ReplayChangesNothing ==
    \A file \in StorylineFiles :
        /\ ValidFile(file) /\ ReplacedMemberships(file) = membership
        /\ {[code |-> i.code, name |-> i.name] : i \in Range(file.domains)}
             = {[code |-> domain[d].code, name |-> domain[d].name] : d \in Domains}
        /\ {<<StoryId[i.name], i.name, i.text>> : i \in Range(file.storylines)}
             = {<<s, storyline[s].name, storyline[s].text>> : s \in Stories}
        /\ ~UnexpectedIdentities(file)
        => /\ ~DomainNameTaken(file) /\ ~StoryIdentityTaken(file)
           /\ UpsertedDomains(file) = domain /\ UpsertedStorylines(file) = storyline

\* Deadlocks are between two renames, of storylines or of domains, that each wait
\* for the name the other one gives up: neither a publication nor a creation is
\* ever a victim, and no rename of a domain waits in a circle with storylines.
OnlyRenamesDeadlock ==
    \A c \in StoryCalls : \A d \in StoryDeadlock(c) :
        /\ Asked(c).kind \in {"update", "update domain"}
        /\ Asked(d).kind = Asked(c).kind

\* A storyline that was written has the domains of that call and no others, and
\* a catalogue that was published is all that is stored.
WrittenWhole(c) ==
    CASE storyCall[c].pc = "commit" -> MembersOf(storyCall[c].id)' = Asked(c).domains
      [] Publishes(c) ->
           LET file == Asked(c).file IN
           /\ {<<domain'[d].code, domain'[d].name>> : d \in Domains'}
                = {<<i.code, i.name>> : i \in Range(file.domains)}
           /\ {<<storyline'[s].name, storyline'[s].text,
                 {domain'[d].code : d \in MembersOf(s)'}>> : s \in Stories'}
                = {<<i.name, i.text, ItemDomains(i)>> : i \in Range(file.storylines)}
      [] OTHER -> TRUE

\* A call that is done has written all it was asked to, whatever calls were
\* under way.
StorylineWritesAreWhole ==
    [][\A c \in StoryCalls :
         storyCall[c].pc # "done" /\ storyCall'[c].pc = "done" /\ storyCall'[c].out = "done" =>
           WrittenWhole(c)]_storyVars
=============================================================================
