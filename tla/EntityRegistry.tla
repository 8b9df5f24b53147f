--------------------------- MODULE EntityRegistry ---------------------------
(* Industries, concepts, chain nodes and industry chains of the Data        *)
(* Service: created, updated and listed in pages, one statement at a time.  *)
(* Industries form a hierarchy whose paths a trigger keeps consistent with  *)
(* row locks: it reads the parent and the children of the row it admits.    *)
EXTENDS Integers, Sequences, FiniteSets

CONSTANTS
    IndustryIds, ConceptIds, NodeIds, ChainIds,
    IdRank,        \* the order of the ids, a number each
    IndustryCode,  \* the code of each industry, a number
    EntityCalls,
    IndustryEdits, \* the creations and updates of industries that may be asked
    Labels,        \* the names a concept may have, numbers
    FirstIndustries, FirstLabels,   \* the rows of the entities there are at first
    PageSizes,
    MaxEntityWrites \* bound of the writes that are asked

PlainIds == ConceptIds \cup NodeIds \cup ChainIds
EntityIds == IndustryIds \cup PlainIds

NoEntity == "no entity"
NoRow == [parent |-> NoEntity, path |-> <<>>, text |-> 0]   \* no such industry
NoLabel == 0                                                \* no such plain entity

IndustryRow == [parent : IndustryIds \cup {NoEntity}, path : Seq(Nat), text : Nat]

ASSUME RegistryConstants ==
    /\ IdRank \in [EntityIds -> Nat] /\ \A i, j \in EntityIds : IdRank[i] = IdRank[j] => i = j
    /\ IndustryCode \in [IndustryIds -> Nat]
    /\ \A edit \in IndustryEdits : edit.id \in IndustryIds /\ edit.row \in IndustryRow
    /\ Labels \subseteq Nat \ {NoLabel}
    /\ FirstLabels \in [PlainIds -> {NoLabel} \cup Labels]
    /\ PageSizes \subseteq 1 .. 100 /\ MaxEntityWrites \in Nat
    /\ IsFiniteSet(EntityIds)

\* Every kind has a table of its own, and ids are unique across them.
ASSUME KindsAreDisjoint ==
    /\ IndustryIds \cap PlainIds = {} /\ ConceptIds \cap (NodeIds \cup ChainIds) = {}
    /\ NodeIds \cap ChainIds = {}

\* The industries there are at first extend their parents, as every later one.
ASSUME RegistryInputs ==
    /\ NoEntity \notin EntityIds /\ DOMAIN FirstIndustries \subseteq IndustryIds
    /\ \A i \in DOMAIN FirstIndustries :
         LET row == FirstIndustries[i]
         IN  /\ row \in IndustryRow
             /\ row.parent # NoEntity => row.parent \in DOMAIN FirstIndustries
             /\ row.path = Append(IF row.parent = NoEntity THEN <<>>
                                  ELSE FirstIndustries[row.parent].path, IndustryCode[i])

VARIABLES
    industry,    \* the committed row of each industry
    label,       \* the committed name of each plain entity
    entityCall,  \* the calls that write industries
    entityWrites,
    listing      \* one reader that lists a kind page by page

registryVars == <<industry, label, entityCall, entityWrites, listing>>

IdleEdit == [pc |-> "idle", edit |-> [new |-> FALSE, id |-> NoEntity, row |-> NoRow],
             checked |-> {}, out |-> "none"]
NoListing == [pc |-> "idle", ids |-> {}, size |-> 1, after |-> NoEntity, shown |-> <<>>,
              stable |-> {}, lost |-> FALSE]

Edit(c) == entityCall[c].edit
StoredEntity == {i \in IndustryIds : industry[i] # NoRow}
Children(i) == {j \in StoredEntity : industry[j].parent = i}

-----------------------------------------------------------------------------
(* Row locks.  An update locks its row against writers and share lockers    *)
(* until its statement ends; the trigger locks the parent and the children  *)
(* of the row, shared.  A new row is not visible before its statement ends. *)

Locked(c) ==
    IF entityCall[c].pc \in {"parent", "children"} /\ ~Edit(c).new THEN {Edit(c).id} ELSE {}

Shared(c) == entityCall[c].checked

\* The row a call has to lock next, and whether alone.
Wanted(c) ==
    CASE entityCall[c].pc = "row" /\ industry[Edit(c).id] \notin {NoRow, Edit(c).row}
           -> {[row |-> Edit(c).id, alone |-> TRUE]}
      [] entityCall[c].pc = "parent" /\ Edit(c).row.parent # NoEntity
           -> {[row |-> Edit(c).row.parent, alone |-> FALSE]}
      [] entityCall[c].pc = "children"
           -> {[row |-> j, alone |-> FALSE] : j \in Children(Edit(c).id) \ Shared(c)}
      [] OTHER -> {}

\* The calls that hold what c needs.
HeldBy(c) ==
    {d \in EntityCalls \ {c} : \E w \in Wanted(c) :
        w.row \in Locked(d) \/ (w.alone /\ w.row \in Shared(d))}

\* The trigger asks for one child after the other; any of them may be next.
Free(c, row) ==
    \A d \in EntityCalls \ {c} : row \notin Locked(d)

EntityStep(c, call) == entityCall' = [entityCall EXCEPT ![c] = call]
To(c, pc) == EntityStep(c, [entityCall[c] EXCEPT !.pc = pc])
EntityEnded(c, out) == EntityStep(c, [IdleEdit EXCEPT !.pc = "done", !.out = out])
TablesStay == UNCHANGED <<industry, label, entityWrites, listing>>

-----------------------------------------------------------------------------
(* Creating and updating an industry.                                       *)

\* validateMutable: a root has a path of one code, others extend a path, and
\* no industry is its own parent.  A new one also ends its path with its code.
ValidEdit(edit) ==
    /\ IF edit.row.parent = NoEntity THEN Len(edit.row.path) = 1 ELSE Len(edit.row.path) >= 2
    /\ edit.row.parent # edit.id
    /\ edit.new => edit.row.path[Len(edit.row.path)] = IndustryCode[edit.id]

\* A new id is generated and no entity has it.  The parent is looked up by a
\* statement of its own.  (A new industry whose code another one has is refused by
\* the unique key and changes nothing: the calls here are those with a code that
\* is theirs.)
BeginEdit(c, edit) ==
    /\ entityWrites < MaxEntityWrites /\ entityWrites' = entityWrites + 1
    /\ entityCall[c].pc \in {"idle", "done"}
    /\ edit.new => industry[edit.id] = NoRow
                   /\ \A d \in EntityCalls \ {c} : Edit(d).id # edit.id
    /\ LET known == edit.row.parent \in StoredEntity \cup {NoEntity}
       IN  EntityStep(c, IF ValidEdit(edit) /\ known
                   THEN [IdleEdit EXCEPT !.edit = edit,
                                         !.pc = IF edit.new THEN "parent" ELSE "row"]
                   ELSE [IdleEdit EXCEPT !.edit = edit, !.pc = "done",
                                         !.out = IF ValidEdit(edit) THEN "reference"
                                                 ELSE "invalid"])
    /\ UNCHANGED <<industry, label, listing>>

\* UPDATE ... WHERE id = $1 AND ROW(...) IS DISTINCT FROM ROW(...): no row to
\* change, or the row is locked, as it is once the lock is granted.
LockIndustry(c) ==
    /\ entityCall[c].pc = "row" /\ HeldBy(c) = {}
    /\ To(c, IF industry[Edit(c).id] \in {NoRow, Edit(c).row} THEN "get" ELSE "parent")
    /\ TablesStay

\* Mutant: the trigger reads the parent without FOR SHARE.
LockedParent_Plain(c) == {}

LockedParent(c) == {Edit(c).row.parent} \ {NoEntity}

\* The path extends the path of the parent as it is now.
ExtendsParent(c) ==
    LET row == Edit(c).row
        above == IF row.parent = NoEntity THEN <<>> ELSE industry[row.parent].path
    IN  row.path = Append(above, IndustryCode[Edit(c).id])

\* The trigger, first half.
CheckParent(c) ==
    /\ entityCall[c].pc = "parent" /\ HeldBy(c) = {}
    /\ IF ExtendsParent(c)
       THEN EntityStep(c, [entityCall[c] EXCEPT !.checked = LockedParent(c),
                                          !.pc = IF Edit(c).new THEN "write" ELSE "children"])
       ELSE EntityEnded(c, "invalid")
    /\ TablesStay

\* The trigger, second half: each child in turn ...
ShareChild(c, child) ==
    /\ entityCall[c].pc = "children"
    /\ child \in Children(Edit(c).id) \ Shared(c) /\ Free(c, child)
    /\ EntityStep(c, [entityCall[c] EXCEPT !.checked = @ \cup {child}])
    /\ TablesStay

MovedBy(id, row) == industry[id] = NoRow \/ industry[id].path # row.path

\* What the write of an entity means for the reader that lists.
Affects(id) ==
    listing' = [listing EXCEPT !.stable = @ \ {id}, !.lost = @ \/ listing.after = id]

\* ... and then all of them.  The statement ends, and with it the transaction.
WriteIndustry(c) ==
    /\ \/ entityCall[c].pc = "write"
       \/ entityCall[c].pc = "children" /\ Children(Edit(c).id) \subseteq Shared(c)
    /\ LET id == Edit(c).id
           row == Edit(c).row
       IN  IF \E j \in Children(id) : industry[j].path # Append(row.path, IndustryCode[j])
           THEN EntityEnded(c, "invalid") /\ UNCHANGED <<industry, listing>>
           ELSE /\ industry' = [industry EXCEPT ![id] = row]
                /\ IF MovedBy(id, row) THEN Affects(id) ELSE UNCHANGED listing
                /\ IF Edit(c).new THEN EntityEnded(c, "done")
                   ELSE EntityStep(c, [IdleEdit EXCEPT !.edit = Edit(c), !.pc = "get"])
    /\ UNCHANGED <<label, entityWrites>>

\* Mutant: the answer is read again and again until the industry is there.
GetIndustry_Retries(c) ==
    /\ entityCall[c].pc = "get" /\ industry[Edit(c).id] # NoRow
    /\ EntityEnded(c, "done")
    /\ TablesStay

\* The answer of an update is read afterwards.
GetIndustry(c) ==
    /\ entityCall[c].pc = "get"
    /\ EntityEnded(c, IF industry[Edit(c).id] = NoRow THEN "not found" ELSE "done")
    /\ TablesStay

\* PostgreSQL ends one call of a deadlock, which is answered as unavailable.
InDeadlock(c) == \E d \in HeldBy(c) : c \in HeldBy(d)

BreakDeadlock(c) ==
    /\ InDeadlock(c)
    /\ EntityEnded(c, "unavailable")
    /\ TablesStay

-----------------------------------------------------------------------------
(* Concepts, chain nodes and industry chains have no locks but their row.   *)
(* A creation that meets a code or name that is taken, and an update that    *)
(* changes nothing or finds no row, are one statement that leaves all tables *)
(* as they are: stuttering steps.                                            *)

WritePlain(ids, id, name) ==
    /\ id \in ids /\ entityWrites < MaxEntityWrites
    /\ entityWrites' = entityWrites + 1
    /\ label' = [label EXCEPT ![id] = name]
    /\ UNCHANGED <<industry, entityCall>>

\* Concepts are listed by name, so an update may move them.
CreateConcept(id, name) ==
    label[id] = NoLabel /\ WritePlain(ConceptIds, id, name) /\ Affects(id)
UpdateConcept(id, name) ==
    label[id] \notin {NoLabel, name} /\ WritePlain(ConceptIds, id, name) /\ Affects(id)

\* The others are listed by id.
CreateChainNode(id, name) ==
    label[id] = NoLabel /\ WritePlain(NodeIds, id, name) /\ UNCHANGED listing
UpdateChainNode(id, name) ==
    label[id] \notin {NoLabel, name} /\ WritePlain(NodeIds, id, name) /\ UNCHANGED listing

CreateIndustryChain(id, name) ==
    label[id] = NoLabel /\ WritePlain(ChainIds, id, name) /\ UNCHANGED listing
UpdateIndustryChain(id, name) ==
    label[id] \notin {NoLabel, name} /\ WritePlain(ChainIds, id, name) /\ UNCHANGED listing

-----------------------------------------------------------------------------
(* Listing.  The cursor names the last entity shown; where that entity is   *)
(* listed now decides what comes after it.                                  *)

\* The path is one column of the order and the id the next: 0, which no code of
\* a path is raised to, ends the path.
Raised(path) == [n \in DOMAIN path |-> path[n] + 1]
IndustryKey(i) == Raised(industry[i].path) \o <<0, IdRank[i]>>
ConceptKey(i) == <<label[i], IdRank[i]>>
NodeKey(i) == <<IdRank[i]>>
ChainKey(i) == <<IdRank[i]>>

ListingKey(i) == IF i \in IndustryIds THEN IndustryKey(i)
          ELSE IF i \in ConceptIds THEN ConceptKey(i)
          ELSE IF i \in NodeIds THEN NodeKey(i) ELSE ChainKey(i)

\* Keys are compared like arrays: a path comes before its extensions.
Precedes(p, q) ==
    \E n \in 0 .. Len(p) :
        /\ n <= Len(q) /\ SubSeq(p, 1, n) = SubSeq(q, 1, n)
        /\ n < Len(q)
        /\ n = Len(p) \/ p[n + 1] < q[n + 1]

Exists(i) == IF i \in IndustryIds THEN industry[i] # NoRow ELSE label[i] # NoLabel

Following(ids, after) ==
    {i \in ids : Exists(i) /\ (after # NoEntity => Precedes(ListingKey(after), ListingKey(i)))}

\* A page and the cursor of the next one, if one more row was found.
Page(ids, after, size) ==
    LET rest == Following(ids, after)
        At(i) == Cardinality({j \in rest : Precedes(ListingKey(j), ListingKey(i))}) + 1
        last == IF Cardinality(rest) < size THEN Cardinality(rest) ELSE size
    IN  [items |-> [n \in 1 .. last |-> CHOOSE i \in rest : At(i) = n],
         more |-> Cardinality(rest) > size]

PlainKinds == {ConceptIds, NodeIds, ChainIds}

BeginListing(ids, size) ==
    /\ listing.pc = "idle"
    /\ listing' = [NoListing EXCEPT !.pc = "reading", !.ids = ids, !.size = size,
                                    !.stable = {i \in ids : Exists(i)}]
    /\ UNCHANGED <<industry, label, entityCall, entityWrites>>

ReadPage ==
    /\ listing.pc = "reading"
    /\ LET page == Page(listing.ids, listing.after, listing.size)
       IN  listing' = [listing EXCEPT
             !.shown = @ \o page.items,
             !.pc = IF page.more THEN "reading" ELSE "done",
             !.after = IF page.more THEN page.items[Len(page.items)] ELSE @]
    /\ UNCHANGED <<industry, label, entityCall, entityWrites>>

-----------------------------------------------------------------------------

RegistryInit ==
    /\ industry = [i \in IndustryIds |->
                     IF i \in DOMAIN FirstIndustries THEN FirstIndustries[i] ELSE NoRow]
    /\ label = FirstLabels
    /\ entityCall = [c \in EntityCalls |-> IdleEdit]
    /\ entityWrites = 0
    /\ listing = NoListing

EditStep(c) ==
    \/ LockIndustry(c) \/ CheckParent(c) \/ WriteIndustry(c) \/ GetIndustry(c)
    \/ \E child \in IndustryIds : ShareChild(c, child)

IndustryNext ==
    \/ \E c \in EntityCalls :
        \/ \E edit \in IndustryEdits : BeginEdit(c, edit)
        \/ EditStep(c)
        \/ BreakDeadlock(c)
    \/ \E size \in PageSizes : BeginListing(IndustryIds, size)

PlainNext ==
    \/ \E id \in PlainIds, name \in Labels :
        \/ CreateConcept(id, name) \/ UpdateConcept(id, name)
        \/ CreateChainNode(id, name) \/ UpdateChainNode(id, name)
        \/ CreateIndustryChain(id, name) \/ UpdateIndustryChain(id, name)
    \/ \E ids \in PlainKinds, size \in PageSizes : BeginListing(ids, size)

RegistryNext == IndustryNext \/ PlainNext \/ ReadPage

\* Row locks are granted in turn, and deadlocks are broken.
RegistrySpec ==
    /\ RegistryInit /\ [][RegistryNext]_registryVars
    /\ WF_registryVars(ReadPage)
    /\ \A c \in EntityCalls :
        SF_registryVars(EditStep(c)) /\ WF_registryVars(BreakDeadlock(c))

-----------------------------------------------------------------------------
(* Properties.                                                              *)

EntityTypeOK ==
    /\ industry \in [IndustryIds -> IndustryRow]
    /\ label \in [PlainIds -> {NoLabel} \cup Labels]
    /\ entityWrites \in 0 .. MaxEntityWrites
    /\ \A c \in EntityCalls :
        /\ entityCall[c].pc \in {"idle", "row", "parent", "children", "write", "get", "done"}
        /\ entityCall[c].out \in {"none", "done", "invalid", "reference", "not found",
                                  "unavailable"}

\* Every stored path is the path of the stored parent and the own code, also
\* when a parent is moved while children are created below it or moved to it.
\* Hence no industry is above itself, and every industry can be read: a row
\* that breaks this is refused by Get and by every page that holds it.
HierarchyIsConsistent ==
    \A i \in StoredEntity :
        LET row == industry[i]
            above == IF row.parent = NoEntity THEN <<>> ELSE industry[row.parent].path
        IN  /\ row.parent # NoEntity => row.parent \in StoredEntity
            /\ row.path = Append(above, IndustryCode[i])

\* Two edits end in a deadlock only if one is of an industry and the other of
\* a child of it, or if each would move its industry below the other one:
\* edits of unrelated industries never do, nor does a creation.  (Two edits that
\* leave the hierarchy as it is may do so: the trigger locks the rows anyway.)
OnlyFamiliesDeadlock ==
    \A c, d \in EntityCalls : c \in HeldBy(d) /\ d \in HeldBy(c) =>
        /\ ~Edit(c).new /\ ~Edit(d).new
        /\ \/ Edit(c).id \in Children(Edit(d).id)
           \/ Edit(d).id \in Children(Edit(c).id)
           \/ Edit(c).row.parent = Edit(d).id /\ Edit(d).row.parent = Edit(c).id

\* The pages of a listing show everything that has been there all the time and
\* did not move exactly once, unless the entity that a cursor named has moved.
ListingIsExact ==
    listing.pc = "done" /\ ~listing.lost =>
        \A i \in listing.stable :
            Cardinality({n \in DOMAIN listing.shown : listing.shown[n] = i}) = 1
=============================================================================
