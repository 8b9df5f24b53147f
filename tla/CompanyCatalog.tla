--------------------------- MODULE CompanyCatalog ---------------------------
(* Companies and their formal industry links: a catalogue that replaces all *)
(* companies, edits of single companies, and the projection that another    *)
(* system reads page by page and that has to be one snapshot.  PostgreSQL    *)
(* locks the tables of a statement one after the other: the catalogue locks  *)
(* the industries first, other calls on companies the companies, and one that *)
(* creates another object the table of that object.                          *)
EXTENDS Integers, Sequences, FiniteSets

CONSTANTS
    CompanyCodes, CodeRank,  \* the codes and their order; 0 is in front of the first
    CompanyIds, DerivedId,   \* the ids, and the one derived from each code
    CompanyTexts,            \* the other facts of a company
    UnknownCountry,          \* one with a country that is not there
    LinkedIndustries,        \* the industries there are
    UnknownIndustry,
    FirstCompanies,          \* what may be stored at first: the row of each code
    CompanyOrders,           \* the calls that may be asked
    CompanyCalls,
    MaxCompanyWrites         \* bound of the calls that are asked

NoCompany == [id |-> "none", text |-> "none", created |-> -1, updated |-> -1]
NoDigest == <<>>
NoId == "none"

\* What may be asked.
Order ==
    [kind : {"publish"}, catalog : {o.catalog : o \in {p \in CompanyOrders : p.kind = "publish"}}]
    \cup [kind : {"create", "update"}, code : CompanyCodes, text : CompanyTexts]
    \cup [kind : {"replace"}, code : CompanyCodes,
          industries : SUBSET (LinkedIndustries \cup {UnknownIndustry})]
    \cup [kind : {"page"}, size : 1 .. 100]
    \cup [kind : {"object"}]

ASSUME CompanyConstants ==
    /\ IsFiniteSet(CompanyCodes) /\ CodeRank \in [CompanyCodes -> Nat \ {0}]
    /\ DerivedId \in [CompanyCodes -> CompanyIds]
    /\ \A i, j \in CompanyCodes : CodeRank[i] = CodeRank[j] \/ DerivedId[i] = DerivedId[j] => i = j
    /\ NoId \notin CompanyIds /\ UnknownCountry \in CompanyTexts
    /\ CompanyOrders \subseteq Order /\ MaxCompanyWrites \in Nat

\* The ids of the stored rows are unique, and a catalogue is a file that was decoded.
ASSUME CompanyInputs ==
    /\ \A rows \in FirstCompanies :
         /\ rows \in [CompanyCodes -> [id : CompanyIds, text : CompanyTexts, created : {0}, updated : {0}]
                                       \cup {NoCompany}]
         /\ \A j, k \in CompanyCodes : rows[j].id = rows[k].id => rows[j] = NoCompany \/ j = k
    /\ \A o \in CompanyOrders : o.kind = "publish" =>
         o.catalog \in [version : Nat, expected : Int, digest : Seq(CompanyCodes),
                        items : Seq([code : CompanyCodes, id : CompanyIds \cup {NoId},
                                     text : CompanyTexts])]

VARIABLES
    company,        \* the committed row of each code
    industryLink,   \* the committed links
    companyCall,
    companyWrites,  \* calls asked so far, the clock of the rows as well
    projection      \* the client that reads the projection

companyVars == <<company, industryLink, companyCall, companyWrites, projection>>

Snapshot == [company |-> company, links |-> industryLink]
NoSnapshot == [company |-> <<>>, links |-> {}]

IdleCompanyCall == [pc |-> "idle", order |-> [kind |-> "none"], rest |-> <<>>, holds |-> {},
                    snap |-> NoSnapshot, out |-> "none"]
NoProjection == [pc |-> "idle", snap |-> NoSnapshot, after |-> 0, shown |-> <<>>]

CompanyRows == {[id |-> i, text |-> t, created |-> s, updated |-> u] :
                   i \in CompanyIds, t \in CompanyTexts,
                   s \in 0 .. MaxCompanyWrites, u \in 0 .. MaxCompanyWrites}

KnownIds == {company[k].id : k \in CompanyCodes} \ {NoId}

-----------------------------------------------------------------------------
(* Catalogue files.                                                         *)

ItemId(catalog, item) == IF catalog.version = 2 THEN DerivedId[item.code] ELSE item.id

Codes(catalog) == [n \in DOMAIN catalog.items |-> catalog.items[n].code]

\* validateCatalog: a complete list in the order of the codes.  The second
\* version derives the ids, and states what codes it has to contain.
ValidCatalog(catalog) ==
    LET items == catalog.items IN
    /\ catalog.version \in {1, 2}
    /\ catalog.expected = Len(items) /\ catalog.expected > 0
    /\ catalog.digest = IF catalog.version = 2 THEN Codes(catalog) ELSE NoDigest
    /\ \A n \in DOMAIN items : (items[n].id = NoId) = (catalog.version = 2)
    /\ \A n, m \in DOMAIN items : n < m =>
         /\ CodeRank[items[n].code] < CodeRank[items[m].code]
         /\ ItemId(catalog, items[n]) # ItemId(catalog, items[m])

-----------------------------------------------------------------------------
(* Table locks.                                                             *)

Exclusive(c) == companyCall[c].order.kind = "publish"

\* Only a catalogue locks exclusively, and there is one of them at a time.
TableIsFree(c, table) ==
    \A d \in CompanyCalls \ {c} :
        table \in companyCall[d].holds => ~Exclusive(c) /\ ~Exclusive(d)

\* The advisory lock of catalogues, and the tables of LOCK TABLE.  The temporary table
\* reads the company table before, with a lock that only a catalogue would wait for.
\* "concept" stands for the three tables of concepts, chain nodes and chains.
PublishTables == <<"advisory", "industry", "concept", "company", "company_industry_links">>

\* The tables of a statement on companies, as its text names them.
CompanyTables == <<"company", "company_industry_links", "industry">>

\* The trigger of a new row looks for its id in the tables of the other objects: a
\* company's in that of the concepts, and a concept's in those of industries and companies.
CreateTables == <<"company", "company_industry_links", "industry", "concept">>
ObjectTables == <<"concept", "industry", "company">>

\* ReplaceIndustries is four statements of one transaction.
ReplaceTables == <<"company", "industry", "company_industry_links">>

OrderTables(kind) ==
    CASE kind = "publish" -> PublishTables
      [] kind = "replace" -> ReplaceTables
      [] kind = "create" -> CreateTables
      [] kind = "object" -> ObjectTables
      [] OTHER -> CompanyTables

CallStep(c, call) == companyCall' = [companyCall EXCEPT ![c] = call]

\* The call is answered; its transaction ends and gives up its locks.
CallEnds(c, out) ==
    CallStep(c, [IdleCompanyCall EXCEPT !.pc = "done", !.out = out])

Begun(order) == [IdleCompanyCall EXCEPT !.pc = "locking", !.order = order,
                                        !.rest = OrderTables(order.kind), !.snap = Snapshot]

\* Bound: companies are only created while an id is left for them.
IdLeft(order) ==
    order.kind = "create" =>
        Cardinality({c \in CompanyCalls : companyCall[c].order.kind = "create"})
          < Cardinality(CompanyIds \ (KnownIds \cup {DerivedId[k] : k \in CompanyCodes}))

\* A call starts.  The snapshot of a reading transaction is taken here, before
\* the first lock.
BeginCompanyCall(c, order) ==
    /\ companyCall[c].pc \in {"idle", "done"} /\ IdLeft(order)
    /\ companyWrites < MaxCompanyWrites /\ companyWrites' = companyWrites + 1
    /\ IF order.kind = "publish" /\ ~ValidCatalog(order.catalog)
       THEN CallEnds(c, "invalid")
       ELSE CallStep(c, Begun(order))
    /\ UNCHANGED <<company, industryLink, projection>>

LockTable(c) ==
    /\ companyCall[c].pc = "locking" /\ TableIsFree(c, Head(companyCall[c].rest))
    /\ LET rest == Tail(companyCall[c].rest)
       IN  CallStep(c, [companyCall[c] EXCEPT !.holds = @ \cup {Head(companyCall[c].rest)},
                                              !.rest = rest,
                                              !.pc = IF rest = <<>> THEN "working" ELSE @])
    /\ UNCHANGED <<company, industryLink, companyWrites, projection>>

\* Two calls that each hold a table the other one asks for.
AsksFor(c, d) ==
    /\ companyCall[c].pc = "locking" /\ Head(companyCall[c].rest) \in companyCall[d].holds
    /\ Exclusive(c) \/ Exclusive(d)

DeadlockedWith(c) == {d \in CompanyCalls \ {c} : AsksFor(c, d) /\ AsksFor(d, c)}

\* PostgreSQL ends one of the two; a reading client gives up.
BreakTableDeadlock(c) ==
    /\ DeadlockedWith(c) # {}
    /\ CallEnds(c, "unavailable")
    /\ projection' = IF companyCall[c].order.kind = "page" THEN NoProjection ELSE projection
    /\ UNCHANGED <<company, industryLink, companyWrites>>

-----------------------------------------------------------------------------
(* Publishing a catalogue.                                                  *)

Staged(catalog) == {[code |-> item.code, id |-> ItemId(catalog, item), text |-> item.text] :
                       item \in {catalog.items[n] : n \in DOMAIN catalog.items}}

\* DELETE ... WHERE NOT EXISTS: the companies with their id and code.
Kept(catalog) == {k \in CompanyCodes : \E s \in Staged(catalog) :
                     s.code = k /\ s.id = company[k].id}

\* INSERT ... ON CONFLICT (code) DO UPDATE ... WHERE company.id = excluded.id.
\* Facts that stay the same keep their time.
Upserted(catalog) ==
    [k \in CompanyCodes |->
       LET old == IF k \in Kept(catalog) THEN company[k] ELSE NoCompany
           new == {s \in Staged(catalog) : s.code = k}
       IN  IF new = {} THEN old
           ELSE LET s == CHOOSE s \in new : TRUE
                IN  IF old = NoCompany
                    THEN [id |-> s.id, text |-> s.text,
                          created |-> companyWrites, updated |-> companyWrites]
                    ELSE IF old.id # s.id \/ old.text = s.text THEN old
                    ELSE [old EXCEPT !.text = s.text, !.updated = companyWrites]]

Facts(rows) == {[code |-> k, id |-> rows[k].id, text |-> rows[k].text] :
                  k \in {j \in CompanyCodes : rows[j] # NoCompany}}

\* With all tables locked: links forbid the replacement, a country that is not
\* there fails it, and what is stored afterwards is compared with the file.
ApplyCatalog(c) ==
    /\ companyCall[c].pc = "working" /\ companyCall[c].order.kind = "publish"
    /\ LET catalog == companyCall[c].order.catalog
           rows == Upserted(catalog)
       IN  IF industryLink # {} \/ Facts(rows) # Staged(catalog)
           THEN CallEnds(c, "conflict") /\ UNCHANGED company
           ELSE IF \E s \in Staged(catalog) : s.text = UnknownCountry
           THEN CallEnds(c, "reference") /\ UNCHANGED company
           ELSE CallEnds(c, "done") /\ company' = rows
    /\ UNCHANGED <<industryLink, companyWrites, projection>>

-----------------------------------------------------------------------------
(* Single companies.                                                        *)

\* A new company has an id of its own, not the derived one.
CreateCompany(c) ==
    /\ companyCall[c].pc = "working" /\ companyCall[c].order.kind = "create"
    /\ LET order == companyCall[c].order
       IN  IF company[order.code] # NoCompany
           THEN CallEnds(c, "conflict") /\ UNCHANGED company
           ELSE IF order.text = UnknownCountry
           THEN CallEnds(c, "reference") /\ UNCHANGED company
           ELSE /\ CallEnds(c, "done")
                /\ \E id \in CompanyIds \ (KnownIds \cup {DerivedId[k] : k \in CompanyCodes}) :
                     company' = [company EXCEPT ![order.code] =
                       [id |-> id, text |-> order.text,
                        created |-> companyWrites, updated |-> companyWrites]]
    /\ UNCHANGED <<industryLink, companyWrites, projection>>

\* A concept, a chain node or a chain is created: of the companies it only reads the ids.
CreateOtherObject(c) ==
    /\ companyCall[c].pc = "working" /\ companyCall[c].order.kind = "object" /\ CallEnds(c, "done")
    /\ UNCHANGED <<company, industryLink, companyWrites, projection>>

\* An update always sets the time, whatever it changes.
UpdateCompany(c) ==
    /\ companyCall[c].pc = "working" /\ companyCall[c].order.kind = "update"
    /\ LET order == companyCall[c].order
       IN  IF company[order.code] = NoCompany
           THEN CallEnds(c, "not found") /\ UNCHANGED company
           ELSE IF order.text = UnknownCountry
           THEN CallEnds(c, "reference") /\ UNCHANGED company
           ELSE /\ CallEnds(c, "done")
                /\ company' = [company EXCEPT ![order.code].text = order.text,
                                              ![order.code].updated = companyWrites]
    /\ UNCHANGED <<industryLink, companyWrites, projection>>

\* The links of a company as a whole; those that stay keep their time.
ReplaceIndustries(c) ==
    /\ companyCall[c].pc = "working" /\ companyCall[c].order.kind = "replace"
    /\ LET order == companyCall[c].order
           id == company[order.code].id
           others == {l \in industryLink : l.company # id}
           stay == {l \in industryLink : l.company = id /\ l.industry \in order.industries}
           new == order.industries \ {l.industry : l \in stay}
       IN  IF company[order.code] = NoCompany
           THEN CallEnds(c, "not found") /\ UNCHANGED industryLink
           ELSE IF UnknownIndustry \in order.industries
           THEN CallEnds(c, "reference") /\ UNCHANGED industryLink
           ELSE /\ CallEnds(c, "done")
                /\ industryLink' = others \cup stay \cup
                     {[company |-> id, industry |-> i, since |-> companyWrites] : i \in new}
    /\ UNCHANGED <<company, companyWrites, projection>>

-----------------------------------------------------------------------------
(* The projection.                                                          *)

\* A company as it is shown, with its links.
Shown(snap, k) ==
    [code |-> k, row |-> snap.company[k],
     links |-> {l \in snap.links : l.company = snap.company[k].id}]

Present(snap) == {k \in CompanyCodes : snap.company[k] # NoCompany}

\* Mutant: the page is read whatever has changed since the last one.
SnapshotMatches_Any(c) == TRUE

\* The cursor names the snapshot of the page before it.
SnapshotMatches(c) ==
    projection.after = 0 \/ projection.snap = companyCall[c].snap

\* The companies behind the cursor in the order of their codes.
PageOf(snap, after, size) ==
    LET rest == {k \in Present(snap) : CodeRank[k] > after}
        At(k) == Cardinality({j \in rest : CodeRank[j] <= CodeRank[k]})
        length == IF Cardinality(rest) < size THEN Cardinality(rest) ELSE size
    IN  [items |-> [n \in 1 .. length |-> CHOOSE k \in rest : At(k) = n],
         more |-> Cardinality(rest) > size]

\* ListProjection answers a page, or refuses a cursor of another snapshot: the
\* client then starts over.
ListProjection(c) ==
    /\ companyCall[c].pc = "working" /\ companyCall[c].order.kind = "page"
    /\ LET snap == companyCall[c].snap
           page == PageOf(snap, projection.after, companyCall[c].order.size)
       IN  IF ~SnapshotMatches(c)
           THEN CallEnds(c, "changed") /\ projection' = NoProjection
           ELSE /\ CallEnds(c, "done")
                /\ projection' = [
                     pc |-> IF page.more THEN "reading" ELSE "done",
                     snap |-> snap,
                     after |-> IF page.more THEN CodeRank[page.items[Len(page.items)]]
                               ELSE projection.after,
                     shown |-> projection.shown \o
                                 [n \in DOMAIN page.items |-> Shown(snap, page.items[n])]]
    /\ UNCHANGED <<company, industryLink, companyWrites>>

\* The client has one request under way, and begins anew when it has all.
MayAsk(order) ==
    order.kind = "page" =>
        /\ projection.pc \in {"idle", "reading"}
        /\ \A d \in CompanyCalls : companyCall[d].order.kind = "page"
                                     => companyCall[d].pc = "done"

-----------------------------------------------------------------------------

CompanyInit ==
    /\ company \in FirstCompanies
    /\ industryLink = {}
    /\ companyCall = [c \in CompanyCalls |-> IdleCompanyCall]
    /\ companyWrites = 0
    /\ projection = NoProjection

CompanyStep(c) ==
    \/ LockTable(c) \/ ApplyCatalog(c) \/ CreateCompany(c) \/ UpdateCompany(c)
    \/ ReplaceIndustries(c) \/ ListProjection(c) \/ CreateOtherObject(c)

CompanyNext ==
    \E c \in CompanyCalls :
        \/ \E order \in CompanyOrders : MayAsk(order) /\ BeginCompanyCall(c, order)
        \/ CompanyStep(c)
        \/ BreakTableDeadlock(c)

\* Tables are locked in turn, and deadlocks are broken.
CompanySpec ==
    /\ CompanyInit /\ [][CompanyNext]_companyVars
    /\ \A c \in CompanyCalls :
        SF_companyVars(CompanyStep(c)) /\ WF_companyVars(BreakTableDeadlock(c))

-----------------------------------------------------------------------------
(* Properties.                                                              *)

CompanyTypeOK ==
    /\ company \in [CompanyCodes -> CompanyRows \cup {NoCompany}]
    /\ \A l \in industryLink : l.industry \in LinkedIndustries /\ l.since \in 0 .. MaxCompanyWrites
    /\ \A c \in CompanyCalls :
         /\ companyCall[c].pc \in {"idle", "locking", "working", "done"}
         /\ companyCall[c].out \in {"none", "done", "invalid", "conflict", "reference",
                                    "not found", "changed", "unavailable"}
    /\ projection.pc \in {"idle", "reading", "done"}

\* The pages that a client has followed to the end are all companies of one
\* moment with the links they had at that moment, each once and in order,
\* whatever was published and edited between the pages and whatever the sizes
\* of the pages.
ProjectionIsOneSnapshot ==
    projection.pc = "done" =>
        LET snap == projection.snap
            all == PageOf(snap, 0, Cardinality(CompanyCodes)).items
        IN  projection.shown = [n \in DOMAIN all |-> Shown(snap, all[n])]

\* Links are of stored companies and ids are unique, also when a catalogue
\* gives the code of a company another id.
CompaniesAreConsistent ==
    /\ \A l \in industryLink : l.company \in KnownIds
    /\ \A j, k \in Present(Snapshot) : company[j].id = company[k].id => j = k

\* A catalogue in conflict had links in its way: the comparison of what is
\* stored with the file never fails otherwise, whatever was stored before.
ConflictsAreLinks ==
    \A c \in CompanyCalls :
        companyCall[c].pc = "working" /\ Exclusive(c) /\ industryLink = {} =>
            Facts(Upserted(companyCall[c].order.catalog)) = Staged(companyCall[c].order.catalog)

\* Deadlocks are between a catalogue that has locked the industries and a call that
\* holds the companies or creates an object; readers and writers never stop each other.
OnlyCatalogsDeadlock ==
    \A c \in CompanyCalls, d \in CompanyCalls : d \in DeadlockedWith(c) =>
        /\ Exclusive(c) # Exclusive(d)
        /\ \E e \in {c, d} : Exclusive(e) /\ Head(companyCall[e].rest) # "industry"
=============================================================================
