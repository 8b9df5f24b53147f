---------------------------- MODULE EntityProofs ----------------------------
(***************************************************************************)
(* Theorems about the entities of the Data Service: the industries and the *)
(* listings (EntityRegistry), the research graph over all entities         *)
(* (ResearchGraph), and all parts together, for any rows, edits, requests  *)
(* and calls in progress.                                                  *)
(*                                                                         *)
(* The trigger reads the parent and the children of the row it admits and  *)
(* locks them shared; an update has its own row alone.  RegistryInv says   *)
(* that what a call has locked nobody else has (ApartFrom), and that what  *)
(* it has read is still so (EditFits), up to its write.  ListingInv says   *)
(* of a listing that what stays where it is either is still to come or has *)
(* been shown once, for which the keys are shown to be an order.           *)
(*                                                                         *)
(* Of the research graph the walk, which is cut by the budget at each      *)
(* step, is compared with paths, which are not: as long as it keeps to the *)
(* budget, what it reaches are the ends of the paths of its depth.         *)
(***************************************************************************)
EXTENDS MCDataEntities, CatalogProofs, SequenceTheorems, TLAPS


-----------------------------------------------------------------------------
(* What calls know of the rows they read *)

EditFields(call) ==
    call = [pc |-> call.pc, edit |-> call.edit, checked |-> call.checked, out |-> call.out]

\* The path of a parent, or nothing above a root.
PathAbove(rows, parent) == IF parent = NoEntity THEN <<>> ELSE rows[parent].path

\* The parent is stored and the path extends its path.
ExtendsStored(rows, i, row) ==
    /\ row.parent # NoEntity => row.parent \in IndustryIds /\ rows[row.parent] # NoRow
    /\ row.path = Append(PathAbove(rows, row.parent), IndustryCode[i])

HierarchyOf(rows) == \A i \in IndustryIds : rows[i] # NoRow => ExtendsStored(rows, i, rows[i])

\* An update that the trigger examines has its row alone.
LockedBy(call) ==
    IF call.pc \in {"parent", "children"} /\ ~call.edit.new THEN {call.edit.id} ELSE {}

Creates(call) == call.pc \in {"parent", "write"} /\ call.edit.new

\* Two calls do not write what the other has read, nor create the same industry.
ApartFrom(call, other) ==
    /\ LockedBy(call) \cap (LockedBy(other) \cup other.checked) = {}
    /\ Creates(call) /\ Creates(other) => call.edit.id # other.edit.id

\* What a call has read is still so: its own row, the parent and, once checked, its path.
EditFits(call, rows) ==
    /\ EditFields(call)
    /\ call.pc \in {"idle", "row", "parent", "children", "write", "get", "done"}
    /\ call.out \in {"none", "done", "invalid", "reference", "not found", "unavailable"}
    /\ call.pc \notin {"children", "write"} => call.checked = {}
    /\ call.pc \in {"row", "parent", "children", "write"} =>
         /\ call.edit \in IndustryEdits /\ ValidEdit(call.edit)
         /\ call.edit.row.parent = NoEntity \/ rows[call.edit.row.parent] # NoRow
    /\ call.pc \in {"row", "children"} => ~call.edit.new
    /\ call.pc = "write" => call.edit.new
    /\ Creates(call) => rows[call.edit.id] = NoRow
    /\ LockedBy(call) # {} => rows[call.edit.id] # NoRow
    /\ call.pc \in {"children", "write"} =>
         /\ call.edit.row.parent # NoEntity => call.edit.row.parent \in call.checked
         /\ ExtendsStored(rows, call.edit.id, call.edit.row)

IndustriesFit ==
    /\ industry \in [IndustryIds -> IndustryRow] /\ HierarchyOf(industry)
    /\ label \in [PlainIds -> {NoLabel} \cup Labels]
    /\ entityWrites \in 0 .. MaxEntityWrites

EditsFit ==
    /\ DOMAIN entityCall = EntityCalls
    /\ \A c \in EntityCalls : EditFits(entityCall[c], industry)
    /\ \A c, d \in EntityCalls : c # d => ApartFrom(entityCall[c], entityCall[d])

RegistryInv == IndustriesFit /\ EditsFit

LEMMA EditFacts ==
    ASSUME NEW edit \in IndustryEdits
    PROVE  /\ edit.id \in IndustryIds /\ edit.row \in IndustryRow
           /\ edit.row.parent \in IndustryIds \cup {NoEntity}
           /\ ValidEdit(edit) => edit.row # NoRow /\ edit.row.parent # edit.id
<1>1. edit.id \in IndustryIds /\ edit.row \in IndustryRow
  BY RegistryConstants
<1>2. edit.row.parent \in IndustryIds \cup {NoEntity} /\ edit.row.path \in Seq(Nat)
  BY <1>1 DEF IndustryRow
<1>3. ASSUME ValidEdit(edit)
      PROVE  edit.row # NoRow /\ edit.row.parent # edit.id
  <2>1. Len(edit.row.path) # 0
    BY <1>2, <1>3, SMTT(40) DEF ValidEdit
  <2>2. NoRow.path = <<>> /\ Len(<<>>) = 0
    BY DEF NoRow
  <2> QED
    BY <1>3, <2>1, <2>2 DEF ValidEdit
<1> QED
  BY <1>1, <1>2, <1>3

\* A row below its parent, whose children extend it, leaves the hierarchy consistent.
LEMMA WrittenHierarchy ==
    ASSUME NEW rows \in [IndustryIds -> IndustryRow], HierarchyOf(rows),
           NEW id \in IndustryIds, NEW row \in IndustryRow, row # NoRow, row.parent # id,
           ExtendsStored(rows, id, row),
           \A j \in IndustryIds : rows[j] # NoRow /\ rows[j].parent = id =>
             rows[j].path = Append(row.path, IndustryCode[j])
    PROVE  HierarchyOf([rows EXCEPT ![id] = row])
<1>1. PICK next : next = [rows EXCEPT ![id] = row]
  OBVIOUS
<1>2. next[id] = row /\ \A j \in IndustryIds \ {id} : next[j] = rows[j]
  BY <1>1
<1>3. NoEntity \notin IndustryIds
  BY RegistryInputs DEF EntityIds
<1>4. ExtendsStored(next, id, row)
  BY <1>2, <1>3 DEF ExtendsStored, PathAbove
<1>5. ASSUME NEW i \in IndustryIds, i # id, rows[i] # NoRow
      PROVE  ExtendsStored(next, i, rows[i])
  <2>1. ExtendsStored(rows, i, rows[i])
    BY <1>5 DEF HierarchyOf
  <2>2. CASE rows[i].parent = id
    BY <1>2, <1>3, <1>5, <2>2 DEF ExtendsStored, PathAbove
  <2>3. CASE rows[i].parent # id
    BY <1>2, <2>1, <2>3 DEF ExtendsStored, PathAbove
  <2> QED
    BY <2>2, <2>3
<1> QED
  BY <1>1, <1>2, <1>4, <1>5 DEF HierarchyOf

\* One call goes on, and the industries stay.
LEMMA EditChanges ==
    ASSUME EditsFit, NEW c \in EntityCalls, NEW call,
           entityCall' = [entityCall EXCEPT ![c] = call], industry' = industry,
           EditFits(call, industry),
           \A d \in EntityCalls \ {c} :
             ApartFrom(call, entityCall[d]) /\ ApartFrom(entityCall[d], call)
    PROVE  EditsFit'
<1>1. entityCall'[c] = call /\ DOMAIN entityCall' = EntityCalls
  BY DEF EditsFit
<1>2. \A d \in EntityCalls : d # c => entityCall'[d] = entityCall[d]
  BY DEF EditsFit
<1>3. \A d \in EntityCalls : EditFits(entityCall'[d], industry')
  BY <1>1, <1>2 DEF EditsFit
<1>4. ASSUME NEW a \in EntityCalls, NEW b \in EntityCalls, a # b
      PROVE  ApartFrom(entityCall'[a], entityCall'[b])
  <2>1. CASE a # c /\ b # c
    BY <1>2, <1>4, <2>1 DEF EditsFit
  <2>2. CASE a = c
    BY <1>1, <1>2, <1>4, <2>2
  <2>3. CASE b = c
    BY <1>1, <1>2, <1>4, <2>3
  <2> QED
    BY <2>1, <2>2, <2>3
<1> QED
  BY <1>1, <1>3, <1>4 DEF EditsFit

\* A call that holds nothing is in nobody's way.
LEMMA FreeCallApart ==
    ASSUME NEW call, LockedBy(call) = {}, call.checked = {}, ~Creates(call), NEW other
    PROVE  ApartFrom(call, other) /\ ApartFrom(other, call)
BY DEF ApartFrom

LEMMA EndedEdit ==
    ASSUME EditsFit, NEW c \in EntityCalls, industry' = industry,
           NEW out \in {"none", "done", "invalid", "reference", "not found", "unavailable"},
           EntityEnded(c, out)
    PROVE  EditsFit'
<1>1. PICK call : call = [IdleEdit EXCEPT !.pc = "done", !.out = out]
  OBVIOUS
<1>2. EditFields(call) /\ call.pc = "done" /\ call.checked = {} /\ call.out = out
  BY <1>1 DEF IdleEdit, EditFields
<1>3. EditFits(call, industry) /\ LockedBy(call) = {} /\ ~Creates(call)
  BY <1>2 DEF EditFits, LockedBy, Creates
<1>4. entityCall' = [entityCall EXCEPT ![c] = call]
  BY <1>1 DEF EntityEnded, EntityStep
<1> QED
  BY <1>2, <1>3, <1>4, FreeCallApart, EditChanges

LEMMA RegistryAtFirst ==
    ASSUME RegistryInit
    PROVE  RegistryInv
<1>1. industry = [i \in IndustryIds |->
                    IF i \in DOMAIN FirstIndustries THEN FirstIndustries[i] ELSE NoRow]
  BY DEF RegistryInit
<1>2. NoRow \in IndustryRow
  BY DEF NoRow, IndustryRow
<1>3. \A i \in DOMAIN FirstIndustries : FirstIndustries[i] \in IndustryRow
  BY RegistryInputs
<1>4. industry \in [IndustryIds -> IndustryRow]
  BY <1>1, <1>2, <1>3
<1>5. \A i \in IndustryIds : industry[i] # NoRow =>
        i \in DOMAIN FirstIndustries /\ industry[i] = FirstIndustries[i]
  BY <1>1
<1>6. \A i \in DOMAIN FirstIndustries :
        FirstIndustries[i].path # <<>> /\ i \in IndustryIds /\ industry[i] = FirstIndustries[i]
  <2>1. TAKE i \in DOMAIN FirstIndustries
  <2>2. PICK above : FirstIndustries[i].path = Append(above, IndustryCode[i])
                     /\ above = (IF FirstIndustries[i].parent = NoEntity THEN <<>>
                                 ELSE FirstIndustries[FirstIndustries[i].parent].path)
    BY RegistryInputs
  <2>3. above \in Seq(Nat)
    BY <1>3, <2>2, RegistryInputs DEF IndustryRow
  <2>4. i \in IndustryIds
    BY RegistryInputs
  <2>5. IndustryCode[i] \in Nat
    BY <2>4, RegistryConstants
  <2>6. Append(above, IndustryCode[i]) # <<>>
    BY <2>3, <2>5
  <2> QED
    BY <1>1, <2>2, <2>4, <2>6
<1>7. \A i \in DOMAIN FirstIndustries : industry[i] # NoRow
  BY <1>6 DEF NoRow
<1>8. HierarchyOf(industry)
  <2>1. SUFFICES ASSUME NEW i \in IndustryIds, industry[i] # NoRow
                 PROVE  ExtendsStored(industry, i, industry[i])
    BY DEF HierarchyOf
  <2>2. PICK row : row = FirstIndustries[i]
    OBVIOUS
  <2>3. i \in DOMAIN FirstIndustries /\ industry[i] = row
    BY <1>5, <2>1, <2>2
  <2>4. row.parent # NoEntity => row.parent \in DOMAIN FirstIndustries
    BY <2>2, <2>3, RegistryInputs
  <2>5. row.path = Append(IF row.parent = NoEntity THEN <<>>
                          ELSE FirstIndustries[row.parent].path, IndustryCode[i])
    BY <2>2, <2>3, RegistryInputs
  <2>6. row.parent # NoEntity =>
          /\ row.parent \in IndustryIds /\ industry[row.parent] # NoRow
          /\ industry[row.parent] = FirstIndustries[row.parent]
    BY <1>6, <1>7, <2>4
  <2> QED
    BY <2>3, <2>5, <2>6 DEF ExtendsStored, PathAbove
<1>9. IndustriesFit
  BY <1>4, <1>8, RegistryConstants DEF RegistryInit, IndustriesFit
<1>10. \A c \in EntityCalls : entityCall[c] = IdleEdit /\ DOMAIN entityCall = EntityCalls
  BY DEF RegistryInit
<1>11. EditFits(IdleEdit, industry) /\ LockedBy(IdleEdit) = {} /\ IdleEdit.checked = {}
       /\ ~Creates(IdleEdit)
  BY DEF IdleEdit, EditFits, EditFields, LockedBy, Creates
<1>12. ApartFrom(IdleEdit, IdleEdit)
  BY <1>11, FreeCallApart
<1>13. DOMAIN entityCall = EntityCalls
  BY DEF RegistryInit
<1>14. EditsFit
  BY <1>10, <1>11, <1>12, <1>13 DEF EditsFit
<1> QED
  BY <1>9, <1>14 DEF RegistryInv

LEMMA EditBegins ==
    ASSUME RegistryInv, NEW c \in EntityCalls, NEW edit \in IndustryEdits, BeginEdit(c, edit)
    PROVE  RegistryInv'
<1>1. PICK call : call = IF ValidEdit(edit) /\ edit.row.parent \in StoredEntity \cup {NoEntity}
                   THEN [IdleEdit EXCEPT !.edit = edit,
                                         !.pc = IF edit.new THEN "parent" ELSE "row"]
                   ELSE [IdleEdit EXCEPT !.edit = edit, !.pc = "done",
                                         !.out = IF ValidEdit(edit) THEN "reference"
                                                 ELSE "invalid"]
  OBVIOUS
<1>2. /\ entityCall' = [entityCall EXCEPT ![c] = call]
      /\ industry' = industry /\ label' = label /\ entityWrites' = entityWrites + 1
      /\ entityWrites < MaxEntityWrites
      /\ edit.new => industry[edit.id] = NoRow
                     /\ \A d \in EntityCalls \ {c} : entityCall[d].edit.id # edit.id
  BY <1>1, Zenon DEF BeginEdit, EntityStep, Edit
<1>3. EditFields(call) /\ call.edit = edit /\ call.checked = {}
      /\ call.pc \in {"row", "parent", "done"}
      /\ call.out \in {"none", "reference", "invalid"}
      /\ (call.pc = "row" => ~edit.new)
      /\ (call.pc = "parent" => edit.new)
      /\ (call.pc # "done" => ValidEdit(edit)
                               /\ edit.row.parent \in StoredEntity \cup {NoEntity})
  BY <1>1 DEF IdleEdit, EditFields
<1>4. LockedBy(call) = {}
  BY <1>3 DEF LockedBy
<1>5. Creates(call) => edit.new
  BY <1>3 DEF Creates
<1>6. call.pc # "done" => edit.row.parent = NoEntity \/ industry[edit.row.parent] # NoRow
  BY <1>3 DEF StoredEntity
<1>7. EditFits(call, industry)
  BY <1>2, <1>3, <1>4, <1>5, <1>6 DEF EditFits
<1>8. \A d \in EntityCalls \ {c} : ApartFrom(call, entityCall[d]) /\ ApartFrom(entityCall[d], call)
  BY <1>2, <1>3, <1>4, <1>5 DEF ApartFrom
<1>9. EditsFit'
  BY <1>2, <1>7, <1>8, EditChanges DEF RegistryInv
<1>10. entityWrites' \in 0 .. MaxEntityWrites
  BY <1>2, RegistryConstants DEF RegistryInv, IndustriesFit
<1>11. IndustriesFit'
  BY <1>2, <1>10 DEF RegistryInv, IndustriesFit
<1> QED
  BY <1>9, <1>11 DEF RegistryInv

LEMMA IndustriesStay ==
    ASSUME RegistryInv, TablesStay
    PROVE  IndustriesFit' /\ industry' = industry
BY DEF RegistryInv, IndustriesFit, TablesStay

LEMMA IndustryLocks ==
    ASSUME RegistryInv, NEW c \in EntityCalls, LockIndustry(c)
    PROVE  RegistryInv'
<1>1. IndustriesFit' /\ industry' = industry
  BY IndustriesStay DEF LockIndustry
<1>2. PICK old : old = entityCall[c]
  OBVIOUS
<1>3. EditFits(old, industry) /\ old.pc = "row" /\ HeldBy(c) = {}
  BY <1>2 DEF LockIndustry, RegistryInv, EditsFit
<1>4. old.checked = {} /\ ~old.edit.new /\ EditFields(old)
  BY <1>3 DEF EditFits
<1>5. PICK call : call = [old EXCEPT !.pc = IF industry[old.edit.id] \in {NoRow, old.edit.row}
                                            THEN "get" ELSE "parent"]
  OBVIOUS
<1>6. entityCall' = [entityCall EXCEPT ![c] = call]
  BY <1>2, <1>5, Zenon DEF LockIndustry, To, EntityStep, Edit
<1>7. EditFields(call) /\ call.edit = old.edit /\ call.checked = {} /\ call.out = old.out
      /\ call.pc = (IF industry[old.edit.id] \in {NoRow, old.edit.row} THEN "get" ELSE "parent")
  BY <1>4, <1>5 DEF EditFields
<1>8. ~Creates(call) /\ ~Creates(old)
  BY <1>4, <1>7 DEF Creates
<1>9. EditFits(call, industry)
  BY <1>3, <1>4, <1>7, <1>8 DEF EditFits, LockedBy
<1>10. CASE industry[old.edit.id] \in {NoRow, old.edit.row}
  <2>1. LockedBy(call) = {}
    BY <1>7, <1>10 DEF LockedBy
  <2> QED
    BY <1>1, <1>6, <1>7, <1>8, <1>9, <2>1, FreeCallApart, EditChanges DEF RegistryInv
<1>11. CASE industry[old.edit.id] \notin {NoRow, old.edit.row}
  <2>1. Wanted(c) = {[row |-> old.edit.id, alone |-> TRUE]}
    BY <1>2, <1>3, <1>11 DEF Wanted, Edit
  <2>2. ASSUME NEW d \in EntityCalls \ {c}
        PROVE  /\ old.edit.id \notin LockedBy(entityCall[d])
               /\ old.edit.id \notin entityCall[d].checked
    <3>1. PICK w : w = [row |-> old.edit.id, alone |-> TRUE]
      OBVIOUS
    <3>2. w \in Wanted(c) /\ w.row = old.edit.id /\ w.alone
      BY <2>1, <3>1
    <3>3. ~(w.row \in Locked(d) \/ (w.alone /\ w.row \in Shared(d)))
      BY <1>3, <2>2, <3>2 DEF HeldBy
    <3>4. Locked(d) = LockedBy(entityCall[d]) /\ Shared(d) = entityCall[d].checked
      BY DEF Locked, LockedBy, Shared, Edit
    <3> QED
      BY <3>2, <3>3, <3>4
  <2>3. LockedBy(call) = {old.edit.id}
    BY <1>4, <1>7, <1>11 DEF LockedBy
  <2>4. \A d \in EntityCalls \ {c} :
          ApartFrom(call, entityCall[d]) /\ ApartFrom(entityCall[d], call)
    BY <1>7, <1>8, <2>2, <2>3 DEF ApartFrom
  <2> QED
    BY <1>1, <1>6, <1>9, <2>4, EditChanges DEF RegistryInv
<1> QED
  BY <1>10, <1>11

LEMMA ParentChecks ==
    ASSUME RegistryInv, NEW c \in EntityCalls, CheckParent(c)
    PROVE  RegistryInv'
<1>1. IndustriesFit' /\ industry' = industry
  BY IndustriesStay DEF CheckParent
<1>2. PICK old : old = entityCall[c]
  OBVIOUS
<1>3. EditFits(old, industry) /\ old.pc = "parent" /\ HeldBy(c) = {}
  BY <1>2 DEF CheckParent, RegistryInv, EditsFit
<1>4. old.checked = {} /\ EditFields(old) /\ old.edit \in IndustryEdits /\ ValidEdit(old.edit)
  BY <1>3 DEF EditFits
<1>5. CASE ~ExtendsParent(c)
  <2>1. EntityEnded(c, "invalid")
    BY <1>5 DEF CheckParent
  <2> QED
    BY <1>1, <2>1, EndedEdit DEF RegistryInv
<1>6. CASE ExtendsParent(c)
  <2>1. PICK call : call = [old EXCEPT !.checked = {old.edit.row.parent} \ {NoEntity},
                                       !.pc = IF old.edit.new THEN "write" ELSE "children"]
    OBVIOUS
  <2>2. entityCall' = [entityCall EXCEPT ![c] = call]
    BY <1>2, <1>6, <2>1, Zenon DEF CheckParent, EntityStep, Edit, LockedParent
  <2>3. EditFields(call) /\ call.edit = old.edit /\ call.out = old.out
        /\ call.checked = {old.edit.row.parent} \ {NoEntity}
        /\ call.pc = (IF old.edit.new THEN "write" ELSE "children")
    BY <1>4, <2>1 DEF EditFields
  <2>4. Creates(call) = Creates(old) /\ LockedBy(call) = LockedBy(old)
    BY <1>3, <2>3 DEF Creates, LockedBy
  <2>5. \/ old.edit.row.parent = NoEntity
        \/ old.edit.row.parent \in IndustryIds /\ industry[old.edit.row.parent] # NoRow
    <3>1. old.edit.row.parent \in IndustryIds \cup {NoEntity}
      BY <1>4, EditFacts
    <3> QED
      BY <1>3, <3>1 DEF EditFits
  <2>6. ExtendsStored(industry, old.edit.id, old.edit.row)
    BY <1>2, <1>6, <2>5 DEF ExtendsParent, ExtendsStored, PathAbove, Edit
  <2>7. EditFits(call, industry)
    BY <1>3, <1>4, <2>3, <2>4, <2>5, <2>6 DEF EditFits
  <2>8. ASSUME NEW d \in EntityCalls \ {c}, old.edit.row.parent # NoEntity
        PROVE  old.edit.row.parent \notin LockedBy(entityCall[d])
    <3>1. PICK w : w = [row |-> old.edit.row.parent, alone |-> FALSE]
      OBVIOUS
    <3>2. w \in Wanted(c) /\ w.row = old.edit.row.parent
      BY <1>2, <1>3, <2>8, <3>1 DEF Wanted, Edit
    <3>3. w.row \notin Locked(d)
      BY <1>3, <2>8, <3>2 DEF HeldBy
    <3> QED
      BY <3>2, <3>3 DEF Locked, LockedBy, Edit
  <2>9. \A d \in EntityCalls \ {c} :
          ApartFrom(call, entityCall[d]) /\ ApartFrom(entityCall[d], call)
    <3>1. TAKE d \in EntityCalls \ {c}
    <3>2. ApartFrom(old, entityCall[d]) /\ ApartFrom(entityCall[d], old)
      BY <1>2 DEF RegistryInv, EditsFit
    <3>3. LockedBy(entityCall[d]) \cap call.checked = {}
      BY <2>3, <2>8
    <3> QED
      BY <2>3, <2>4, <3>2, <3>3 DEF ApartFrom
  <2> QED
    BY <1>1, <2>2, <2>7, <2>9, EditChanges DEF RegistryInv
<1> QED
  BY <1>5, <1>6

LEMMA ChildIsShared ==
    ASSUME RegistryInv, NEW c \in EntityCalls, NEW child \in IndustryIds, ShareChild(c, child)
    PROVE  RegistryInv'
<1>1. IndustriesFit' /\ industry' = industry
  BY IndustriesStay DEF ShareChild
<1>2. PICK old : old = entityCall[c]
  OBVIOUS
<1>3. EditFits(old, industry) /\ old.pc = "children" /\ Free(c, child)
  BY <1>2 DEF ShareChild, RegistryInv, EditsFit
<1>4. PICK call : call = [old EXCEPT !.checked = old.checked \cup {child}]
  OBVIOUS
<1>5. entityCall' = [entityCall EXCEPT ![c] = call]
  BY <1>2, <1>4 DEF ShareChild, EntityStep
<1>6. EditFields(call) /\ call.edit = old.edit /\ call.out = old.out
      /\ call.checked = old.checked \cup {child} /\ call.pc = old.pc
  BY <1>3, <1>4 DEF EditFields, EditFits
<1>7. Creates(call) = Creates(old) /\ LockedBy(call) = LockedBy(old)
  BY <1>6 DEF Creates, LockedBy
<1>8. EditFits(call, industry)
  BY <1>3, <1>6, <1>7 DEF EditFits
<1>9. \A d \in EntityCalls \ {c} :
        ApartFrom(call, entityCall[d]) /\ ApartFrom(entityCall[d], call)
  <2>1. TAKE d \in EntityCalls \ {c}
  <2>2. ApartFrom(old, entityCall[d]) /\ ApartFrom(entityCall[d], old)
    BY <1>2 DEF RegistryInv, EditsFit
  <2>3. child \notin LockedBy(entityCall[d])
    BY <1>3 DEF Free, Locked, LockedBy, Edit
  <2> QED
    BY <1>6, <1>7, <2>2, <2>3 DEF ApartFrom
<1> QED
  BY <1>1, <1>5, <1>8, <1>9, EditChanges DEF RegistryInv

\* What another call has read is still so once an industry is written.
LEMMA OtherEditStays ==
    ASSUME RegistryInv, NEW c \in EntityCalls, NEW d \in EntityCalls, c # d,
           entityCall[c].pc \in {"write", "children"},
           industry' = [industry EXCEPT ![entityCall[c].edit.id] = entityCall[c].edit.row]
    PROVE  EditFits(entityCall[d], industry')
<1>1. PICK call, other, id, row :
        call = entityCall[c] /\ other = entityCall[d] /\ id = call.edit.id /\ row = call.edit.row
  OBVIOUS
<1>2. EditFits(call, industry) /\ EditFits(other, industry)
      /\ ApartFrom(call, other) /\ ApartFrom(other, call)
  BY <1>1 DEF RegistryInv, EditsFit
<1>3. call.edit \in IndustryEdits /\ ValidEdit(call.edit)
  BY <1>1, <1>2 DEF EditFits
<1>4. id \in IndustryIds /\ row # NoRow
  BY <1>1, <1>3, EditFacts
<1>5. industry'[id] = row /\ \A j \in IndustryIds \ {id} : industry'[j] = industry[j]
  BY <1>1, <1>4 DEF RegistryInv, IndustriesFit
<1>6. \A j \in IndustryIds : industry[j] # NoRow => industry'[j] # NoRow
  BY <1>4, <1>5
<1>7. Creates(other) => other.edit.id # id
  <2>1. CASE call.pc = "write"
    <3>1. Creates(call)
      BY <1>2, <2>1 DEF EditFits, Creates
    <3> QED
      BY <1>1, <1>2, <3>1 DEF ApartFrom
  <2>2. CASE call.pc = "children"
    <3>1. industry[id] # NoRow
      BY <1>1, <1>2, <2>2 DEF EditFits, LockedBy
    <3> QED
      BY <1>2, <3>1 DEF EditFits
  <2> QED
    BY <1>1, <2>1, <2>2
<1>8. ASSUME other.pc \in {"row", "parent", "children", "write"}
      PROVE  /\ other.edit.id \in IndustryIds
             /\ \/ other.edit.row.parent = NoEntity
                \/ other.edit.row.parent \in IndustryIds
                   /\ industry[other.edit.row.parent] # NoRow
  <2>1. other.edit \in IndustryEdits
        /\ (other.edit.row.parent = NoEntity \/ industry[other.edit.row.parent] # NoRow)
    BY <1>2, <1>8 DEF EditFits
  <2>2. other.edit.id \in IndustryIds /\ other.edit.row.parent \in IndustryIds \cup {NoEntity}
    BY <2>1, EditFacts
  <2> QED
    BY <2>1, <2>2
<1>9. ASSUME other.pc \in {"children", "write"}, other.edit.row.parent # NoEntity
      PROVE  other.edit.row.parent # id
  <2>1. other.edit.row.parent \in other.checked /\ industry[other.edit.row.parent] # NoRow
    BY <1>2, <1>9 DEF EditFits
  <2>2. CASE call.pc = "write"
    BY <1>1, <1>2, <2>1, <2>2 DEF EditFits, Creates
  <2>3. CASE call.pc = "children"
    <3>1. LockedBy(call) = {id}
      BY <1>1, <1>2, <2>3, ZenonT(60) DEF EditFits, LockedBy
    <3> QED
      BY <1>2, <2>1, <3>1 DEF ApartFrom
  <2> QED
    BY <1>1, <2>2, <2>3
<1>10. ASSUME other.pc \in {"children", "write"}
       PROVE  ExtendsStored(industry', other.edit.id, other.edit.row)
  <2>1. ExtendsStored(industry, other.edit.id, other.edit.row)
    BY <1>2, <1>10 DEF EditFits
  <2> QED
    BY <1>5, <1>6, <1>9, <1>10, <2>1 DEF ExtendsStored, PathAbove
<1>11. Creates(other) => other.edit.id \in IndustryIds /\ industry'[other.edit.id] = NoRow
  <2>1. Creates(other) => other.pc \in {"parent", "write"}
    BY DEF Creates
  <2> QED
    BY <1>2, <1>5, <1>7, <1>8, <2>1 DEF EditFits
<1>12. LockedBy(other) # {} => industry'[other.edit.id] # NoRow
  <2>1. LockedBy(other) # {} => other.pc \in {"parent", "children"}
    BY DEF LockedBy
  <2> QED
    BY <1>2, <1>6, <1>8, <2>1 DEF EditFits
<1>13. other.pc \in {"row", "parent", "children", "write"} =>
         other.edit.row.parent = NoEntity \/ industry'[other.edit.row.parent] # NoRow
  BY <1>6, <1>8
<1> QED
  BY <1>1, <1>2, <1>10, <1>11, <1>12, <1>13 DEF EditFits

LEMMA IndustryIsWritten ==
    ASSUME RegistryInv, NEW c \in EntityCalls, WriteIndustry(c)
    PROVE  RegistryInv'
<1>1. PICK old, id, row : old = entityCall[c] /\ id = old.edit.id /\ row = old.edit.row
  OBVIOUS
<1>2. EditFits(old, industry) /\ old.pc \in {"write", "children"}
      /\ label' = label /\ entityWrites' = entityWrites
  <2>1. EditFits(old, industry)
    BY <1>1 DEF RegistryInv, EditsFit
  <2>2. old.pc \in {"write", "children"} /\ label' = label /\ entityWrites' = entityWrites
    BY <1>1, Zenon DEF WriteIndustry
  <2> QED
    BY <2>1, <2>2
<1>3. old.edit \in IndustryEdits /\ ValidEdit(old.edit) /\ EditFields(old)
  BY <1>2 DEF EditFits
<1>4. id \in IndustryIds /\ row \in IndustryRow /\ row # NoRow /\ row.parent # id
  BY <1>1, <1>3, EditFacts
<1>5. CASE \E j \in Children(id) : industry[j].path # Append(row.path, IndustryCode[j])
  <2>1. EntityEnded(c, "invalid") /\ industry' = industry
    BY <1>1, <1>5, Zenon DEF WriteIndustry, Edit
  <2>2. EditsFit'
    BY <2>1, EndedEdit DEF RegistryInv
  <2> QED
    BY <1>2, <2>1, <2>2 DEF RegistryInv, IndustriesFit
<1>6. CASE ~\E j \in Children(id) : industry[j].path # Append(row.path, IndustryCode[j])
  <2>1. industry' = [industry EXCEPT ![id] = row]
    BY <1>1, <1>6, Zenon DEF WriteIndustry, Edit
  <2>2. PICK call : call = IF old.edit.new THEN [IdleEdit EXCEPT !.pc = "done", !.out = "done"]
                           ELSE [IdleEdit EXCEPT !.edit = old.edit, !.pc = "get"]
    OBVIOUS
  <2>3. entityCall' = [entityCall EXCEPT ![c] = call]
    <3>1. CASE old.edit.new
      <4>1. EntityEnded(c, "done")
        BY <1>1, <1>6, <3>1, Zenon DEF WriteIndustry, Edit
      <4> QED
        BY <2>2, <3>1, <4>1 DEF EntityEnded, EntityStep
    <3>2. CASE ~old.edit.new
      <4>1. EntityStep(c, [IdleEdit EXCEPT !.edit = Edit(c), !.pc = "get"])
        BY <1>1, <1>6, <3>2, Zenon DEF WriteIndustry, Edit
      <4> QED
        BY <1>1, <2>2, <3>2, <4>1 DEF EntityStep, Edit
    <3> QED
      BY <3>1, <3>2
  <2>4. EditFields(call) /\ call.pc \in {"done", "get"} /\ call.checked = {}
        /\ call.out \in {"none", "done"}
    BY <2>2 DEF IdleEdit, EditFields
  <2>5. LockedBy(call) = {} /\ ~Creates(call)
    BY <2>4 DEF LockedBy, Creates
  <2>6. EditFits(call, industry')
    BY <2>4, <2>5 DEF EditFits
  <2>7. ExtendsStored(industry, id, row)
    BY <1>1, <1>2 DEF EditFits
  <2>8. \A j \in IndustryIds : industry[j] # NoRow /\ industry[j].parent = id =>
          industry[j].path = Append(row.path, IndustryCode[j])
    BY <1>6 DEF Children, StoredEntity
  <2>9. HierarchyOf(industry')
    BY <1>4, <2>1, <2>7, <2>8, WrittenHierarchy DEF RegistryInv, IndustriesFit
  <2>10. IndustriesFit'
    BY <1>2, <1>4, <2>1, <2>9 DEF RegistryInv, IndustriesFit
  <2>11. entityCall'[c] = call /\ DOMAIN entityCall' = EntityCalls
         /\ \A d \in EntityCalls : d # c => entityCall'[d] = entityCall[d]
    BY <2>3 DEF RegistryInv, EditsFit
  <2>12. \A d \in EntityCalls : EditFits(entityCall'[d], industry')
    <3>1. TAKE d \in EntityCalls
    <3>2. CASE d = c
      BY <2>6, <2>11, <3>2
    <3>3. CASE d # c
      <4>1. entityCall[c].pc \in {"write", "children"}
        BY <1>1, <1>2
      <4>2. industry' = [industry EXCEPT ![entityCall[c].edit.id] = entityCall[c].edit.row]
        BY <1>1, <2>1
      <4>3. EditFits(entityCall[d], industry')
        BY <3>3, <4>1, <4>2, OtherEditStays
      <4> QED
        BY <2>11, <3>3, <4>3
    <3> QED
      BY <3>2, <3>3
  <2>13. \A a, b \in EntityCalls : a # b => ApartFrom(entityCall'[a], entityCall'[b])
    <3>1. TAKE a, b \in EntityCalls
    <3>2. CASE a # c /\ b # c
      BY <2>11, <3>2 DEF RegistryInv, EditsFit
    <3>3. CASE a = c \/ b = c
      BY <2>4, <2>5, <2>11, <3>3, FreeCallApart
    <3> QED
      BY <3>2, <3>3
  <2> QED
    BY <2>10, <2>11, <2>12, <2>13 DEF RegistryInv, EditsFit
<1> QED
  BY <1>5, <1>6

LEMMA EditEnds ==
    ASSUME RegistryInv, NEW c \in EntityCalls, GetIndustry(c) \/ BreakDeadlock(c)
    PROVE  RegistryInv'
<1>1. IndustriesFit' /\ industry' = industry
  BY IndustriesStay DEF GetIndustry, BreakDeadlock
<1>2. EntityEnded(c, "not found") \/ EntityEnded(c, "done") \/ EntityEnded(c, "unavailable")
  BY DEF GetIndustry, BreakDeadlock
<1> QED
  BY <1>1, <1>2, EndedEdit DEF RegistryInv

LEMMA PlainIsWritten ==
    ASSUME RegistryInv, NEW id \in PlainIds, NEW name \in Labels, NEW ids,
           WritePlain(ids, id, name)
    PROVE  RegistryInv'
<1>1. label' \in [PlainIds -> {NoLabel} \cup Labels] /\ entityWrites' \in 0 .. MaxEntityWrites
  BY RegistryConstants DEF WritePlain, RegistryInv, IndustriesFit
<1>2. industry' = industry /\ entityCall' = entityCall
  BY DEF WritePlain
<1> QED
  BY <1>1, <1>2 DEF RegistryInv, IndustriesFit, EditsFit

LEMMA RegistryStep ==
    ASSUME RegistryInv, [RegistryNext]_registryVars
    PROVE  RegistryInv'
<1>1. ASSUME NEW c \in EntityCalls, EditStep(c)
      PROVE  RegistryInv'
  BY <1>1, IndustryLocks, ParentChecks, ChildIsShared, IndustryIsWritten, EditEnds DEF EditStep
<1>2. ASSUME PlainNext
      PROVE  RegistryInv'
  <2>1. ASSUME NEW id \in PlainIds, NEW name \in Labels,
               \/ CreateConcept(id, name) \/ UpdateConcept(id, name)
               \/ CreateChainNode(id, name) \/ UpdateChainNode(id, name)
               \/ CreateIndustryChain(id, name) \/ UpdateIndustryChain(id, name)
        PROVE  RegistryInv'
    <3>1. \E ids : WritePlain(ids, id, name)
      BY <2>1, Zenon DEF CreateConcept, UpdateConcept, CreateChainNode, UpdateChainNode,
         CreateIndustryChain, UpdateIndustryChain
    <3> QED
      BY <3>1, PlainIsWritten
  <2>2. ASSUME NEW ids, NEW size, BeginListing(ids, size)
        PROVE  RegistryInv'
    BY <2>2 DEF BeginListing, RegistryInv, IndustriesFit, EditsFit
  <2> QED
    BY <1>2, <2>1, <2>2 DEF PlainNext
<1>3. ASSUME IndustryNext
      PROVE  RegistryInv'
  <2>1. ASSUME NEW ids, NEW size, BeginListing(ids, size)
        PROVE  RegistryInv'
    BY <2>1 DEF BeginListing, RegistryInv, IndustriesFit, EditsFit
  <2> QED
    BY <1>1, <1>3, <2>1, EditBegins, EditEnds DEF IndustryNext
<1>4. ASSUME ReadPage \/ UNCHANGED registryVars
      PROVE  RegistryInv'
  BY <1>4 DEF ReadPage, registryVars, RegistryInv, IndustriesFit, EditsFit
<1> QED
  BY <1>2, <1>3, <1>4 DEF RegistryNext

\* Whoever is in another's way has locked the row the other wants shared.
LEMMA InTheWay ==
    ASSUME RegistryInv, NEW c \in EntityCalls, NEW d \in EntityCalls,
           d \in HeldBy(c), c \in HeldBy(d)
    PROVE  /\ entityCall[d].pc \in {"parent", "children"} /\ ~Edit(d).new
           /\ \/ Edit(d).id \in Children(Edit(c).id)
              \/ Edit(d).id = Edit(c).row.parent /\ entityCall[c].pc = "parent"
<1>1. \A a \in EntityCalls : EditFits(entityCall[a], industry)
  BY DEF RegistryInv, EditsFit
<1>2. entityCall[c].pc # "row"
  <2>1. SUFFICES ASSUME entityCall[c].pc = "row"
                 PROVE  FALSE
    OBVIOUS
  <2>2. Locked(c) = {} /\ Shared(c) = {}
    BY <1>1, <2>1 DEF Locked, Shared, EditFits
  <2> QED
    BY <2>2 DEF HeldBy
<1>3. PICK w \in Wanted(c) : w.row \in Locked(d) \/ (w.alone /\ w.row \in Shared(d))
  BY DEF HeldBy
<1>4. \/ entityCall[c].pc = "parent" /\ w = [row |-> Edit(c).row.parent, alone |-> FALSE]
      \/ entityCall[c].pc = "children"
         /\ \E j \in Children(Edit(c).id) : w = [row |-> j, alone |-> FALSE]
  BY <1>2, <1>3 DEF Wanted
<1>5. w.row \in Locked(d)
  BY <1>3, <1>4
<1>6. entityCall[d].pc \in {"parent", "children"} /\ ~Edit(d).new /\ w.row = Edit(d).id
  BY <1>5 DEF Locked
<1> QED
  BY <1>4, <1>6

LEMMA RegistryInvariant == RegistrySpec => []RegistryInv
<1>1. RegistryInit => RegistryInv
  BY RegistryAtFirst
<1>2. RegistryInv /\ [RegistryNext]_registryVars => RegistryInv'
  BY RegistryStep
<1> QED
  BY <1>1, <1>2, PTL DEF RegistrySpec

LEMMA RegistryInvTyped == RegistryInv => EntityTypeOK
BY DEF RegistryInv, IndustriesFit, EditsFit, EditFits, EntityTypeOK

\* Industries: rows are of their tables and an industry call is at one of its
\* steps with one of its answers.
THEOREM RegistryTyped == RegistrySpec => []EntityTypeOK
BY RegistryInvTyped, RegistryInvariant, PTL

LEMMA RegistryInvHierarchy == RegistryInv => HierarchyIsConsistent
BY DEF RegistryInv, IndustriesFit, HierarchyOf, ExtendsStored, PathAbove,
   HierarchyIsConsistent, StoredEntity

\* Industries: whatever calls create and move industries at once, every stored
\* path is the path of its stored parent and the own code, since the trigger's
\* share locks keep what it has read until the write.
THEOREM HierarchyStaysConsistent == RegistrySpec => []HierarchyIsConsistent
BY RegistryInvHierarchy, RegistryInvariant, PTL

LEMMA RegistryInvDeadlocks == RegistryInv => OnlyFamiliesDeadlock
<1>1. SUFFICES ASSUME RegistryInv, NEW c \in EntityCalls, NEW d \in EntityCalls,
                      c \in HeldBy(d), d \in HeldBy(c)
               PROVE  /\ ~Edit(c).new /\ ~Edit(d).new
                      /\ \/ Edit(c).id \in Children(Edit(d).id)
                         \/ Edit(d).id \in Children(Edit(c).id)
                         \/ Edit(c).row.parent = Edit(d).id /\ Edit(d).row.parent = Edit(c).id
  BY DEF OnlyFamiliesDeadlock
<1> QED
  BY <1>1, InTheWay

\* Industries: two calls wait on each other only as updates, one of an industry
\* and one of its child, or each to move its industry below the other's.
THEOREM DeadlocksAreInFamilies == RegistrySpec => []OnlyFamiliesDeadlock
BY RegistryInvDeadlocks, RegistryInvariant, PTL

-----------------------------------------------------------------------------
(* Listings: keys are totally ordered, and ranks follow the order *)

\* Two keys agree up to a position, and the first is at its end there or smaller.
DiffersAt(p, q, n) ==
    /\ n <= Len(p) /\ n < Len(q) /\ \A k \in 1 .. n : p[k] = q[k]
    /\ n = Len(p) \/ p[n + 1] < q[n + 1]

LEMMA PrecedesAt ==
    ASSUME NEW p \in Seq(Nat), NEW q \in Seq(Nat)
    PROVE  Precedes(p, q) <=> \E n \in Nat : DiffersAt(p, q, n)
<1>1. Len(p) \in Nat /\ Len(q) \in Nat
  OBVIOUS
<1>2. ASSUME NEW n \in Nat, n <= Len(p), n <= Len(q)
      PROVE  SubSeq(p, 1, n) = SubSeq(q, 1, n) <=> \A k \in 1 .. n : p[k] = q[k]
  <2>1. SubSeq(p, 1, n) = [k \in 1 .. n |-> p[k]] /\ SubSeq(q, 1, n) = [k \in 1 .. n |-> q[k]]
    BY <1>1, <1>2
  <2> QED
    BY <2>1
<1>3. ASSUME Precedes(p, q)
      PROVE  \E n \in Nat : DiffersAt(p, q, n)
  <2>1. PICK n \in 0 .. Len(p) : /\ n <= Len(q) /\ SubSeq(p, 1, n) = SubSeq(q, 1, n)
                                 /\ n < Len(q) /\ (n = Len(p) \/ p[n + 1] < q[n + 1])
    BY <1>3 DEF Precedes
  <2>2. n \in Nat /\ n <= Len(p)
    BY <1>1, <2>1
  <2> QED
    BY <1>2, <2>1, <2>2 DEF DiffersAt
<1>4. ASSUME NEW n \in Nat, DiffersAt(p, q, n)
      PROVE  Precedes(p, q)
  <2>1. n \in 0 .. Len(p) /\ n <= Len(q)
    BY <1>1, <1>4 DEF DiffersAt
  <2> QED
    BY <1>2, <1>4, <2>1 DEF DiffersAt, Precedes
<1> QED
  BY <1>3, <1>4

LEMMA PrecedesIsStrict ==
    ASSUME NEW p \in Seq(Nat)
    PROVE  ~Precedes(p, p)
<1>1. SUFFICES ASSUME NEW n \in Nat, DiffersAt(p, p, n)
               PROVE  FALSE
  BY PrecedesAt
<1>2. n + 1 \in 1 .. Len(p)
  BY <1>1 DEF DiffersAt
<1>3. p[n + 1] \in Nat
  BY <1>2
<1> QED
  BY <1>1, <1>2, <1>3 DEF DiffersAt

LEMMA PrecedesIsTransitive ==
    ASSUME NEW p \in Seq(Nat), NEW q \in Seq(Nat), NEW r \in Seq(Nat),
           Precedes(p, q), Precedes(q, r)
    PROVE  Precedes(p, r)
<1>1. PICK m \in Nat : DiffersAt(p, q, m)
  BY PrecedesAt
<1>2. PICK n \in Nat : DiffersAt(q, r, n)
  BY PrecedesAt
<1>3. /\ \A k \in 1 .. Len(p) : p[k] \in Nat
      /\ \A k \in 1 .. Len(q) : q[k] \in Nat
      /\ \A k \in 1 .. Len(r) : r[k] \in Nat
      /\ Len(p) \in Nat /\ Len(q) \in Nat /\ Len(r) \in Nat
  OBVIOUS
<1>4. CASE m < n
  <2>1. m + 1 \in 1 .. n /\ m <= Len(r) /\ m < Len(r) /\ q[m + 1] = r[m + 1]
    BY <1>2, <1>3, <1>4 DEF DiffersAt
  <2>2. DiffersAt(p, r, m)
    BY <1>1, <1>2, <1>3, <1>4, <2>1 DEF DiffersAt
  <2> QED
    BY <2>2, PrecedesAt
<1>5. CASE n < m
  <2>1. n + 1 \in 1 .. m /\ n <= Len(p) /\ n # Len(q) /\ p[n + 1] = q[n + 1]
    BY <1>1, <1>3, <1>5 DEF DiffersAt
  <2>2. DiffersAt(p, r, n)
    BY <1>1, <1>2, <1>3, <1>5, <2>1 DEF DiffersAt
  <2> QED
    BY <2>2, PrecedesAt
<1>6. CASE n = m
  <2>1. n # Len(q) /\ q[n + 1] < r[n + 1] /\ n + 1 \in 1 .. Len(q) /\ n + 1 \in 1 .. Len(r)
    BY <1>1, <1>2, <1>3, <1>6 DEF DiffersAt
  <2>2. n = Len(p) \/ p[n + 1] < r[n + 1]
    <3>1. CASE n # Len(p)
      <4>1. n + 1 \in 1 .. Len(p) /\ p[n + 1] < q[n + 1]
        BY <1>1, <1>3, <1>6, <3>1 DEF DiffersAt
      <4>2. p[n + 1] \in Nat /\ q[n + 1] \in Nat /\ r[n + 1] \in Nat
        BY <1>3, <2>1, <4>1
      <4>3. \A i, j, k \in Nat : i < j /\ j < k => i < k
        OBVIOUS
      <4> QED
        BY ONLY <2>1, <4>1, <4>2, <4>3, Zenon
    <3> QED
      BY <3>1
  <2>3. DiffersAt(p, r, n)
    BY <1>1, <1>2, <1>3, <1>6, <2>1, <2>2 DEF DiffersAt
  <2> QED
    BY <2>3, PrecedesAt
<1> QED
  BY <1>4, <1>5, <1>6

LEMMA PrecedesIsTotal ==
    ASSUME NEW p \in Seq(Nat), NEW q \in Seq(Nat), p # q
    PROVE  Precedes(p, q) \/ Precedes(q, p)
<1> DEFINE T == {n \in Nat : n < Len(p) /\ n < Len(q) /\ p[n + 1] # q[n + 1]}
<1>1. Len(p) \in Nat /\ Len(q) \in Nat
  OBVIOUS
<1>2. CASE T = {}
  <2>1. \A k \in Nat : 1 <= k /\ k <= Len(p) /\ k <= Len(q) => p[k] = q[k]
    <3>1. TAKE k \in Nat
    <3>2. HAVE 1 <= k /\ k <= Len(p) /\ k <= Len(q)
    <3>3. k - 1 \in Nat /\ k - 1 < Len(p) /\ k - 1 < Len(q) /\ (k - 1) + 1 = k
      BY <1>1, <3>2
    <3> QED
      BY <1>2, <3>3
  <2>2. Len(p) # Len(q)
    <3>1. SUFFICES ASSUME Len(p) = Len(q)
                   PROVE  FALSE
      OBVIOUS
    <3>2. \A k \in 1 .. Len(p) : p[k] = q[k]
      BY <1>1, <2>1, <3>1
    <3> QED
      BY <3>1, <3>2, SeqEqual
  <2>3. Len(p) < Len(q) => DiffersAt(p, q, Len(p))
    BY <1>1, <2>1 DEF DiffersAt
  <2>4. Len(q) < Len(p) => DiffersAt(q, p, Len(q))
    BY <1>1, <2>1 DEF DiffersAt
  <2> QED
    BY <1>1, <2>2, <2>3, <2>4, PrecedesAt
<1>3. CASE T # {}
  <2>1. PICK n \in T : \A m \in T : n <= m
    BY <1>3, LeastOf
  <2>2. n \in Nat /\ n < Len(p) /\ n < Len(q) /\ p[n + 1] # q[n + 1]
    OBVIOUS
  <2>3. \A k \in 1 .. n : p[k] = q[k]
    <3>1. TAKE k \in 1 .. n
    <3>2. k - 1 \in Nat /\ k - 1 < n /\ k - 1 < Len(p) /\ k - 1 < Len(q) /\ (k - 1) + 1 = k
      BY <1>1, <2>2
    <3>3. k - 1 \notin T
      BY <2>1, <2>2, <3>2
    <3> QED
      BY <3>2, <3>3
  <2>4. n + 1 \in 1 .. Len(p) /\ n + 1 \in 1 .. Len(q)
    BY <1>1, <2>2
  <2>5. p[n + 1] \in Nat /\ q[n + 1] \in Nat
    BY <2>4
  <2>6. p[n + 1] < q[n + 1] => DiffersAt(p, q, n)
    BY <2>2, <2>3 DEF DiffersAt
  <2>7. q[n + 1] < p[n + 1] => DiffersAt(q, p, n)
    BY <2>2, <2>3 DEF DiffersAt
  <2> QED
    BY <2>2, <2>5, <2>6, <2>7, PrecedesAt
<1> QED
  BY <1>2, <1>3

-----------------------------------------------------------------------------
(* Listings: what is shown, and what is to come *)

Kinds == PlainKinds \cup {IndustryIds}

ListingFields(l) ==
    l = [pc |-> l.pc, ids |-> l.ids, size |-> l.size, after |-> l.after, shown |-> l.shown,
         stable |-> l.stable, lost |-> l.lost]

Never(shown, i) == \A n \in 1 .. Len(shown) : shown[n] # i
Once(shown, i) == \E n \in 1 .. Len(shown) : \A m \in 1 .. Len(shown) : shown[m] = i <=> m = n

\* Unless the entity of the cursor has moved, what has been there all the time
\* is still to come or has been shown once.
ListingGoes ==
    /\ listing.ids \in Kinds /\ listing.size \in Nat \ {0}
    /\ listing.after \in listing.ids \cup {NoEntity}
    /\ listing.shown \in Seq(listing.ids) /\ listing.stable \subseteq listing.ids
    /\ \A i \in listing.stable : Exists(i)
    /\ listing.pc = "done" => \A i \in listing.stable : Once(listing.shown, i)
    /\ listing.pc = "reading" =>
         \A i \in listing.stable :
            IF i \in Following(listing.ids, listing.after)
            THEN Never(listing.shown, i) ELSE Once(listing.shown, i)

ListingInv ==
    /\ ListingFields(listing) /\ listing.pc \in {"idle", "reading", "done"}
    /\ listing.lost \in BOOLEAN
    /\ listing.pc # "idle" /\ ~listing.lost => ListingGoes

LEMMA LabelsAreNumbers ==
    ASSUME IndustriesFit
    PROVE  \A i \in ConceptIds : label[i] \in Nat
<1>1. \A i \in ConceptIds : i \in PlainIds
  BY DEF PlainIds
<1>2. Labels \subseteq Nat
  BY RegistryConstants
<1>3. {NoLabel} \cup Labels \subseteq Nat
  BY <1>2 DEF NoLabel
<1>4. label \in [PlainIds -> {NoLabel} \cup Labels]
  BY DEF IndustriesFit
<1> QED
  BY <1>1, <1>3, <1>4

\* A path whose codes are raised by one is an array of numbers as well.
LEMMA RaisedPath == \A p \in Seq(Nat) : Raised(p) \in Seq(Nat)
<1>1. TAKE p \in Seq(Nat)
<1>2. Len(p) \in Nat /\ DOMAIN p = 1 .. Len(p) /\ \A n \in 1 .. Len(p) : p[n] + 1 \in Nat
  OBVIOUS
<1>3. Raised(p) \in [1 .. Len(p) -> Nat]
  BY <1>2 DEF Raised
<1> QED
  BY <1>2, <1>3, SeqDef

\* Keys are arrays of numbers, and no two entities of a kind have the same.
LEMMA KeysDiffer ==
    ASSUME IndustriesFit, NEW ids \in Kinds, NEW i \in ids, NEW j \in ids, i # j
    PROVE  ListingKey(i) \in Seq(Nat) /\ ListingKey(i) # ListingKey(j)
<1>1. IdRank[i] \in Nat /\ IdRank[j] \in Nat /\ IdRank[i] # IdRank[j]
  BY RegistryConstants DEF EntityIds, PlainIds, Kinds, PlainKinds
<1>2. CASE ids = IndustryIds
  <2>1. industry[i].path \in Seq(Nat) /\ industry[j].path \in Seq(Nat)
    BY <1>2 DEF IndustriesFit, IndustryRow
  <2>2. /\ ListingKey(i) = Raised(industry[i].path) \o <<0, IdRank[i]>>
        /\ ListingKey(j) = Raised(industry[j].path) \o <<0, IdRank[j]>>
    BY <1>2 DEF ListingKey, IndustryKey
  <2>4. Raised(industry[i].path) \in Seq(Nat) /\ Raised(industry[j].path) \in Seq(Nat)
    BY <2>1, RaisedPath
  <2>3. ASSUME NEW p \in Seq(Nat), NEW q \in Seq(Nat), NEW m \in Nat, NEW n \in Nat, m # n
        PROVE  p \o <<0, m>> \in Seq(Nat) /\ p \o <<0, m>> # q \o <<0, n>>
    <3>1. <<0, m>> \in Seq(Nat) /\ <<0, n>> \in Seq(Nat) /\ p \o <<0, m>> \in Seq(Nat)
      OBVIOUS
    <3>2. Len(p \o <<0, m>>) = Len(p) + 2 /\ (p \o <<0, m>>)[Len(p) + 2] = m
          /\ Len(q \o <<0, n>>) = Len(q) + 2 /\ (q \o <<0, n>>)[Len(q) + 2] = n
      OBVIOUS
    <3>3. Len(p) \in Nat /\ Len(q) \in Nat
      OBVIOUS
    <3> QED
      BY <2>3, <3>1, <3>2, <3>3
  <2> QED
    BY <1>1, <2>2, <2>3, <2>4
<1>3. CASE ids = ConceptIds
  <2>1. label[i] \in Nat /\ label[j] \in Nat
    BY <1>3, LabelsAreNumbers
  <2>2. ListingKey(i) = <<label[i], IdRank[i]>> /\ ListingKey(j) = <<label[j], IdRank[j]>>
    BY <1>3, KindsAreDisjoint DEF ListingKey, ConceptKey, PlainIds
  <2> QED
    BY <1>1, <2>1, <2>2
<1>4. CASE ids \in {NodeIds, ChainIds}
  <2>1. ListingKey(i) = <<IdRank[i]>> /\ ListingKey(j) = <<IdRank[j]>>
    BY <1>4, KindsAreDisjoint DEF ListingKey, NodeKey, ChainKey, PlainIds
  <2> QED
    BY <1>1, <2>1
<1> QED
  BY <1>2, <1>3, <1>4 DEF Kinds, PlainKinds

KeyOrder(ids) == {p \in ids \X ids : Precedes(ListingKey(p[1]), ListingKey(p[2]))}

LEMMA KeysOrder ==
    ASSUME IndustriesFit, NEW ids \in Kinds
    PROVE  IsFiniteSet(ids) /\ Orders(KeyOrder(ids), ids)
<1>1. IsFiniteSet(ids)
  <2>1. ids \in SUBSET EntityIds
    BY DEF Kinds, PlainKinds, EntityIds, PlainIds
  <2> QED
    BY <2>1, RegistryConstants, FS_Subset
<1>2. \A i \in ids : ListingKey(i) \in Seq(Nat)
  <2>1. TAKE i \in ids
  <2>2. IdRank[i] \in Nat
    BY RegistryConstants DEF EntityIds, PlainIds, Kinds, PlainKinds
  <2>3. CASE ids = IndustryIds
    <3>1. industry[i].path \in Seq(Nat)
      BY <2>3 DEF IndustriesFit, IndustryRow
    <3>2. Raised(industry[i].path) \in Seq(Nat) /\ <<0, IdRank[i]>> \in Seq(Nat)
      BY <2>2, <3>1, RaisedPath
    <3> QED
      BY <2>3, <3>2 DEF ListingKey, IndustryKey
  <2>4. CASE ids = ConceptIds
    <3>1. label[i] \in Nat
      BY <2>4, LabelsAreNumbers
    <3> QED
      BY <2>2, <2>4, <3>1, KindsAreDisjoint DEF ListingKey, ConceptKey, PlainIds
  <2>5. CASE ids \in {NodeIds, ChainIds}
    BY <2>2, <2>5, KindsAreDisjoint DEF ListingKey, NodeKey, ChainKey, PlainIds
  <2> QED
    BY <2>3, <2>4, <2>5 DEF Kinds, PlainKinds
<1>3. \A i, j \in ids : <<i, j>> \in KeyOrder(ids) <=> Precedes(ListingKey(i), ListingKey(j))
  BY DEF KeyOrder
<1>4. \A x \in ids : <<x, x>> \notin KeyOrder(ids)
  BY <1>2, <1>3, PrecedesIsStrict
<1>5. \A x, y, z \in ids :
         <<x, y>> \in KeyOrder(ids) /\ <<y, z>> \in KeyOrder(ids) => <<x, z>> \in KeyOrder(ids)
  BY <1>2, <1>3, PrecedesIsTransitive
<1>6. \A x, y \in ids : x # y => <<x, y>> \in KeyOrder(ids) \/ <<y, x>> \in KeyOrder(ids)
  BY <1>2, <1>3, KeysDiffer, PrecedesIsTotal
<1> QED
  BY <1>1, <1>4, <1>5, <1>6 DEF Orders

\* A page shows the first of what follows the cursor, each once; the rest follows the new cursor.
LEMMA PageShows ==
    ASSUME IndustriesFit, NEW ids \in Kinds, NEW after \in ids \cup {NoEntity}, NEW size \in Nat \ {0},
           NEW items, NEW more \in BOOLEAN,
           Page(ids, after, size) = [items |-> items, more |-> more]
    PROVE  /\ items \in Seq(Following(ids, after))
           /\ \A i \in Following(ids, after) : Once(items, i) \/ (more /\ Never(items, i))
           /\ more => /\ items[Len(items)] \in ids
                      /\ \A i \in ids : i \in Following(ids, items[Len(items)])
                                          <=> i \in Following(ids, after) /\ Never(items, i)
<1> DEFINE rest == Following(ids, after)
           count == Cardinality(rest)
           R == KeyOrder(ids)
           last == IF count < size THEN count ELSE size
           At(i) == Cardinality({j \in rest : Precedes(ListingKey(j), ListingKey(i))}) + 1
<1>1. rest \subseteq ids /\ IsFiniteSet(rest) /\ count \in Nat /\ last \in Nat /\ last <= count
  <2>1. rest \subseteq ids
    BY DEF Following
  <2>2. IsFiniteSet(rest)
    BY <2>1, KeysOrder, FS_Subset
  <2>3. count \in Nat
    BY <2>2, FS_CardinalityType
  <2> QED
    BY <2>1, <2>2, <2>3
<1>2. Orders(R, rest)
  BY <1>1, KeysOrder DEF Orders
<1>3. \A i \in rest : At(i) = Rank(R, rest, i)
  <2>1. TAKE i \in rest
  <2>2. {j \in rest : Precedes(ListingKey(j), ListingKey(i))} = {j \in rest : <<j, i>> \in R}
    BY <1>1 DEF KeyOrder
  <2> QED
    BY <2>2 DEF Rank
<1>4. items = [n \in 1 .. last |-> CHOOSE i \in rest : At(i) = n] /\ (more <=> count > size)
  <2>1. Page(ids, after, size)
          = [items |-> [n \in 1 .. last |-> CHOOSE i \in rest : At(i) = n], more |-> count > size]
    BY DEF Page
  <2>2. PICK list : list = [n \in 1 .. last |-> CHOOSE i \in rest : At(i) = n]
    OBVIOUS
  <2>3. PICK left \in BOOLEAN : left <=> count > size
    OBVIOUS
  <2>4. Page(ids, after, size) = [items |-> list, more |-> left]
    <3>1. [items |-> list, more |-> count > size] = [items |-> list, more |-> left]
      BY <2>3
    <3>2. Page(ids, after, size) = [items |-> list, more |-> count > size]
      BY <2>1, <2>2, Zenon
    <3> QED
      BY <3>1, <3>2, Zenon
  <2>5. [items |-> items, more |-> more] = [items |-> list, more |-> left]
    BY <2>4
  <2>6. items = list /\ more = left
    BY <2>5
  <2> QED
    BY <2>2, <2>3, <2>6
<1> HIDE DEF At, R
<1>5. \A n \in 1 .. last : /\ items[n] \in rest /\ Rank(R, rest, items[n]) = n
                           /\ \A i \in rest : Rank(R, rest, i) = n => i = items[n]
  <2>1. TAKE n \in 1 .. last
  <2>2. n \in 1 .. count
    BY <1>1
  <2>3. PICK i \in rest : Rank(R, rest, i) = n /\ \A j \in rest : Rank(R, rest, j) = n => j = i
    BY <1>1, <1>2, <2>2, RanksAreTaken
  <2>4. items[n] = CHOOSE j \in rest : At(j) = n
    BY <1>4
  <2>5. \E j \in rest : At(j) = n
    BY <1>3, <2>3
  <2>6. items[n] \in rest /\ At(items[n]) = n
    BY <2>4, <2>5
  <2> QED
    BY <1>3, <2>3, <2>6
<1>6. Len(items) = last /\ items \in Seq(rest)
  <2>1. items \in [1 .. last -> rest]
    BY <1>4, <1>5
  <2> QED
    BY <1>1, <2>1
<1>7. \A i \in rest : Rank(R, rest, i) \in 1 .. count
  BY <1>1, <1>2, RanksFollow
<1>8. \A i \in rest : IF Rank(R, rest, i) <= last THEN Once(items, i) ELSE Never(items, i)
  <2>1. TAKE i \in rest
  <2>2. PICK r \in 1 .. count : r = Rank(R, rest, i)
    BY <1>7
  <2>3. CASE r <= last
    <3>1. r \in 1 .. last
      BY <1>1, <2>2, <2>3
    <3>2. \A m \in 1 .. last : items[m] = i <=> m = r
      BY <1>5, <2>2, <3>1
    <3> QED
      BY <1>6, <2>2, <2>3, <3>1, <3>2 DEF Once
  <2>4. CASE ~(r <= last)
    <3>1. \A m \in 1 .. last : items[m] # i
      BY <1>1, <1>5, <2>2, <2>4
    <3> QED
      BY <1>6, <2>2, <2>4, <3>1 DEF Never
  <2> QED
    BY <2>2, <2>3, <2>4
<1>9. ~more => last = count
  BY <1>1, <1>4
<1>10. more => last = size /\ last \in 1 .. last
  BY <1>1, <1>4
<1>11. \A i \in rest : Once(items, i) \/ (more /\ Never(items, i))
  BY <1>1, <1>7, <1>8, <1>9
<1>12. ASSUME more, NEW i \in ids
       PROVE  i \in Following(ids, items[last]) <=> i \in rest /\ Never(items, i)
  <2>1. PICK z \in rest : z = items[last] /\ Rank(R, rest, z) = last
    BY <1>5, <1>10, <1>12
  <2>2. z \in ids /\ z # NoEntity /\ Exists(z)
    BY <1>1, RegistryInputs DEF Following, Kinds, PlainKinds, EntityIds, PlainIds
  <2>3. \A x, y \in ids : <<x, y>> \in R <=> Precedes(ListingKey(x), ListingKey(y))
    BY DEF R, KeyOrder
  <2>4. i \in Following(ids, z) <=> Exists(i) /\ <<z, i>> \in R
    BY <2>2, <2>3 DEF Following
  <2>5. ASSUME Exists(i), <<z, i>> \in R
        PROVE  i \in rest /\ Never(items, i)
    <3>1. i \in rest
      <4>1. CASE after = NoEntity
        BY <2>5, <4>1 DEF Following
      <4>2. CASE after # NoEntity
        <5>1. after \in ids /\ <<after, z>> \in R
          BY <1>1, <2>3, <4>2 DEF Following
        <5>2. <<after, i>> \in R
          BY <2>2, <2>5, <5>1, KeysOrder DEF Orders, R
        <5> QED
          BY <2>3, <2>5, <5>1, <5>2 DEF Following
      <4> QED
        BY <4>1, <4>2
    <3>2. Rank(R, rest, z) < Rank(R, rest, i)
      BY <1>1, <1>2, <2>5, <3>1, RanksFollow
    <3> QED
      BY <1>1, <1>7, <1>8, <2>1, <3>1, <3>2
  <2>6. ASSUME i \in rest, Never(items, i)
        PROVE  Exists(i) /\ <<z, i>> \in R
    <3>1. i # z
      BY <1>6, <1>10, <1>12, <2>1, <2>6 DEF Never
    <3>2. Exists(i)
      BY <2>6 DEF Following
    <3>3. <<i, z>> \notin R
      <4>1. SUFFICES ASSUME <<i, z>> \in R
                     PROVE  FALSE
        OBVIOUS
      <4>2. Rank(R, rest, i) < last
        BY <1>1, <1>2, <2>1, <2>6, <4>1, RanksFollow
      <4>3. Once(items, i)
        BY <1>1, <1>7, <1>8, <2>6, <4>2
      <4> QED
        BY <2>6, <4>3 DEF Once, Never
    <3> QED
      BY <1>2, <2>6, <3>1, <3>2, <3>3 DEF Orders
  <2> QED
    BY <2>1, <2>4, <2>5, <2>6
<1> QED
  BY <1>1, <1>5, <1>6, <1>10, <1>11, <1>12

\* A page behind what was shown.
LEMMA ShownLater ==
    ASSUME NEW ids, NEW shown \in Seq(ids), NEW items \in Seq(ids), NEW i
    PROVE  /\ Never(shown, i) /\ Never(items, i) => Never(shown \o items, i)
           /\ Once(shown, i) /\ Never(items, i) => Once(shown \o items, i)
           /\ Never(shown, i) /\ Once(items, i) => Once(shown \o items, i)
<1> DEFINE m == Len(shown)
           n == Len(items)
           all == shown \o items
<1>1. m \in Nat /\ n \in Nat /\ Len(all) = m + n
  OBVIOUS
<1>2. /\ \A k \in 1 .. m : all[k] = shown[k]
      /\ \A k \in 1 .. m + n : k \notin 1 .. m => k - m \in 1 .. n /\ all[k] = items[k - m]
      /\ \A k \in 1 .. n : m + k \in 1 .. m + n /\ m + k \notin 1 .. m /\ all[m + k] = items[k]
  OBVIOUS
<1>3. 1 .. m \subseteq 1 .. m + n
  BY <1>1
<1> HIDE DEF m, n, all
<1>4. Never(shown, i) <=> \A k \in 1 .. m : shown[k] # i
  BY DEF Never, m
<1>5. Never(items, i) <=> \A k \in 1 .. n : items[k] # i
  BY DEF Never, n
<1>6. ASSUME Never(shown, i), Never(items, i)
      PROVE  Never(all, i)
  BY <1>1, <1>2, <1>4, <1>5, <1>6 DEF Never
<1>7. ASSUME Once(shown, i), Never(items, i)
      PROVE  Once(all, i)
  <2>1. PICK k \in 1 .. m : \A l \in 1 .. m : shown[l] = i <=> l = k
    BY <1>7 DEF Once, m
  <2>2. \A l \in 1 .. m + n : all[l] = i <=> l = k
    BY <1>2, <1>5, <1>7, <2>1
  <2>3. k \in 1 .. Len(all) /\ \A l \in 1 .. Len(all) : all[l] = i <=> l = k
    BY ONLY <1>1, <1>3, <2>1, <2>2
  <2> QED
    BY <2>3, Zenon DEF Once
<1>8. ASSUME Never(shown, i), Once(items, i)
      PROVE  Once(all, i)
  <2>1. PICK k \in 1 .. n : \A l \in 1 .. n : items[l] = i <=> l = k
    BY <1>8 DEF Once, n
  <2>2. ASSUME NEW l \in 1 .. m + n
        PROVE  all[l] = i <=> l = m + k
    <3>1. CASE l \in 1 .. m
      BY <1>2, <1>4, <1>8, <2>1, <3>1
    <3>2. CASE l \notin 1 .. m
      <4>1. l - m \in 1 .. n /\ all[l] = items[l - m]
        BY <1>2, <3>2
      <4>2. l - m = k <=> l = m + k
        BY <1>1, <2>1
      <4> QED
        BY <2>1, <4>1, <4>2
    <3> QED
      BY <3>1, <3>2
  <2>3. m + k \in 1 .. m + n
    BY <1>2
  <2>4. m + k \in 1 .. Len(all) /\ \A l \in 1 .. Len(all) : all[l] = i <=> l = m + k
    BY ONLY <1>1, <2>2, <2>3
  <2> QED
    BY <2>4, Zenon DEF Once
<1> QED
  BY <1>6, <1>7, <1>8 DEF all

-----------------------------------------------------------------------------
(* Listings: steps *)

LEMMA KindsAreEntities == \A ids \in Kinds : ids \subseteq EntityIds /\ NoEntity \notin ids
BY RegistryInputs DEF Kinds, PlainKinds, EntityIds, PlainIds

\* A row is written: either the listing knows, or it stays where it is.
LEMMA ListingKnows ==
    ASSUME ListingInv, NEW id \in EntityIds,
           \A i \in EntityIds : i # id =>
             (Exists(i)' <=> Exists(i)) /\ ListingKey(i)' = ListingKey(i),
           \/ Affects(id)
           \/ listing' = listing /\ (Exists(id) => Exists(id)') /\ ListingKey(id)' = ListingKey(id)
    PROVE  ListingInv'
<1>1. PICK old, new : old = listing /\ new = listing'
  OBVIOUS
<1>2. ListingFields(old) /\ old.pc \in {"idle", "reading", "done"} /\ old.lost \in BOOLEAN
  BY <1>1 DEF ListingInv
<1>3. \/ new = [old EXCEPT !.stable = @ \ {id}, !.lost = @ \/ old.after = id]
      \/ new = old /\ (Exists(id) => Exists(id)') /\ ListingKey(id)' = ListingKey(id)
  BY <1>1 DEF Affects
<1>4. /\ new.pc = old.pc /\ new.ids = old.ids /\ new.size = old.size /\ new.after = old.after
      /\ new.shown = old.shown /\ new.stable \subseteq old.stable /\ ListingFields(new)
      /\ new.lost \in BOOLEAN /\ (old.lost => new.lost)
      /\ \/ id \notin new.stable /\ (old.after = id => new.lost)
         \/ (Exists(id) => Exists(id)') /\ ListingKey(id)' = ListingKey(id)
  <2>1. CASE new = [old EXCEPT !.stable = @ \ {id}, !.lost = @ \/ old.after = id]
    <3>1. PICK lost \in BOOLEAN : lost <=> old.lost \/ old.after = id
      OBVIOUS
    <3>2. (old.lost \/ old.after = id) = lost
      BY <1>2, <3>1
    <3>3. new = [old EXCEPT !.stable = old.stable \ {id}, !.lost = lost]
      BY <2>1, <3>2
    <3>4. new = [pc |-> old.pc, ids |-> old.ids, size |-> old.size, after |-> old.after,
                 shown |-> old.shown, stable |-> old.stable \ {id}, lost |-> lost]
      BY <1>2, <3>3 DEF ListingFields
    <3> QED
      BY <1>2, <3>1, <3>4 DEF ListingFields
  <2>2. CASE /\ new = old /\ (Exists(id) => Exists(id)')
             /\ ListingKey(id)' = ListingKey(id)
    BY <1>2, <2>2
  <2> QED
    BY <1>3, <2>1, <2>2
<1>5. ASSUME new.pc # "idle", ~new.lost
      PROVE  ListingGoes'
  <2>1. ListingGoes
    BY <1>1, <1>4, <1>5 DEF ListingInv
  <2>2. PICK ids, after : ids = old.ids /\ after = old.after
    OBVIOUS
  <2>3. ids \in Kinds /\ after \in ids \cup {NoEntity} /\ ids \subseteq EntityIds
    BY <1>1, <2>1, <2>2, KindsAreEntities DEF ListingGoes
  <2>4. ASSUME NEW i \in new.stable
        PROVE  Exists(i)' /\ (i \in Following(ids, after)' <=> i \in Following(ids, after))
    <3>1. i \in ids /\ Exists(i)
      BY <1>1, <1>4, <2>1, <2>2 DEF ListingGoes
    <3>2. Exists(i)' /\ ListingKey(i)' = ListingKey(i)
      BY <1>4, <2>3, <3>1
    <3>3. after # NoEntity => ListingKey(after)' = ListingKey(after)
      BY <1>4, <1>5, <2>2, <2>3
    <3>4. i \in Following(ids, after)
            <=> (after # NoEntity => Precedes(ListingKey(after), ListingKey(i)))
      BY <3>1 DEF Following
    <3>5. i \in Following(ids, after)'
            <=> (after # NoEntity => Precedes(ListingKey(after)', ListingKey(i)'))
      BY <3>1, <3>2 DEF Following
    <3> QED
      BY <3>2, <3>3, <3>4, <3>5
  <2>5. /\ listing.ids = ids /\ listing'.ids = ids /\ listing.after = after /\ listing'.after = after
        /\ listing'.size = listing.size /\ listing'.shown = listing.shown /\ listing'.pc = listing.pc
        /\ listing'.stable = new.stable /\ new.stable \subseteq listing.stable
    BY <1>1, <1>4, <2>2
  <2>6. \A i \in new.stable : Exists(i)'
    BY <2>4
  <2>7. listing'.pc = "done" => \A i \in new.stable : Once(listing'.shown, i)
    BY <2>1, <2>5 DEF ListingGoes
  <2>8. listing'.pc = "reading" => \A i \in new.stable :
          IF i \in Following(ids, after)' THEN Never(listing'.shown, i) ELSE Once(listing'.shown, i)
    <3>1. listing.pc = "reading" => \A i \in listing.stable :
            IF i \in Following(ids, after) THEN Never(listing.shown, i) ELSE Once(listing.shown, i)
      BY <2>1, <2>5 DEF ListingGoes
    <3> QED
      BY <2>4, <2>5, <3>1
  <2>9. listing'.stable \subseteq listing'.ids /\ listing'.shown \in Seq(listing'.ids)
        /\ listing'.size \in Nat \ {0}
    BY <2>1, <2>5 DEF ListingGoes
  <2>10. Following(listing.ids, listing.after)' = Following(ids, after)'
    BY <2>5
  <2> QED
    BY <2>3, <2>5, <2>6, <2>7, <2>8, <2>9, <2>10 DEF ListingGoes
<1> QED
  BY <1>1, <1>2, <1>4, <1>5 DEF ListingInv

LEMMA ListingRests ==
    ASSUME ListingInv, UNCHANGED <<listing, industry, label>>
    PROVE  ListingInv'
<1>1. \A i : Exists(i)' = Exists(i) /\ ListingKey(i)' = ListingKey(i)
  BY DEF Exists, ListingKey, IndustryKey, ConceptKey, NodeKey, ChainKey
<1>2. Following(listing.ids, listing.after)' = Following(listing.ids, listing.after)
  BY <1>1 DEF Following
<1> QED
  BY <1>1, <1>2 DEF ListingInv, ListingGoes

LEMMA ListingBegins ==
    ASSUME NEW ids \in Kinds, NEW size \in PageSizes, BeginListing(ids, size)
    PROVE  ListingInv'
<1>1. PICK new : new = listing'
  OBVIOUS
<1>2. PICK stable : stable = {i \in ids : Exists(i)}
  OBVIOUS
<1>3. new = [pc |-> "reading", ids |-> ids, size |-> size, after |-> NoEntity, shown |-> <<>>,
             stable |-> stable, lost |-> FALSE]
  BY <1>1, <1>2 DEF BeginListing, NoListing
<1>4. \A i : Exists(i)' = Exists(i)
  BY DEF BeginListing, Exists
<1>5. size \in Nat \ {0}
  BY RegistryConstants
<1>6. \A i \in stable : Exists(i)' /\ i \in Following(ids, NoEntity)' /\ Never(<<>>, i)
  BY <1>2, <1>4 DEF Following, Never
<1>7. ListingFields(new) /\ new.pc = "reading" /\ new.lost = FALSE /\ new.ids = ids
      /\ new.size = size /\ new.after = NoEntity /\ new.shown = <<>> /\ new.stable = stable
  BY <1>3 DEF ListingFields
<1>8. Following(listing.ids, listing.after)' = Following(ids, NoEntity)'
  BY <1>1, <1>7
<1>9. ListingGoes'
  BY <1>1, <1>2, <1>5, <1>6, <1>7, <1>8 DEF ListingGoes
<1> QED
  BY <1>1, <1>7, <1>9 DEF ListingInv

LEMMA ListingReads ==
    ASSUME IndustriesFit, ListingInv, ReadPage
    PROVE  ListingInv'
<1>1. PICK old, new : old = listing /\ new = listing'
  OBVIOUS
<1>2. PICK ids, after, shown : ids = old.ids /\ after = old.after /\ shown = old.shown
  OBVIOUS
<1>3. PICK items, more : Page(ids, after, old.size) = [items |-> items, more |-> more]
                         /\ more \in BOOLEAN
  <2>1. \E list : \E left :
          Page(ids, after, old.size) = [items |-> list, more |-> left] /\ left \in BOOLEAN
    <3>1. PICK rest, list : /\ rest = Following(ids, after)
                            /\ Page(ids, after, old.size)
                                 = [items |-> list, more |-> Cardinality(rest) > old.size]
      BY DEF Page
    <3>2. PICK left \in BOOLEAN : left <=> Cardinality(rest) > old.size
      OBVIOUS
    <3>3. (Cardinality(rest) > old.size) = left
      BY <3>2
    <3> QED
      BY <3>1, <3>3
  <2> QED
    BY <2>1
<1>4. ListingFields(old) /\ old.pc = "reading" /\ old.lost \in BOOLEAN
  BY <1>1 DEF ListingInv, ReadPage
<1>5. new = [old EXCEPT !.shown = shown \o items, !.pc = IF more THEN "reading" ELSE "done",
                        !.after = IF more THEN items[Len(items)] ELSE after]
  BY <1>1, <1>2, <1>3 DEF ReadPage
<1>6. new = [pc |-> IF more THEN "reading" ELSE "done", ids |-> ids, size |-> old.size,
             after |-> IF more THEN items[Len(items)] ELSE after, shown |-> shown \o items,
             stable |-> old.stable, lost |-> old.lost]
  BY <1>2, <1>4, <1>5 DEF ListingFields
<1>7. \A i : Exists(i)' = Exists(i) /\ ListingKey(i)' = ListingKey(i)
  BY DEF ReadPage, Exists, ListingKey, IndustryKey, ConceptKey, NodeKey, ChainKey
<1>8. \A from : Following(ids, from)' = Following(ids, from)
  BY <1>7 DEF Following
<1>9. ASSUME ~old.lost
      PROVE  ListingGoes'
  <2>1. ListingGoes
    BY <1>1, <1>4, <1>9 DEF ListingInv
  <2>2. /\ ids \in Kinds /\ old.size \in Nat \ {0} /\ after \in ids \cup {NoEntity}
        /\ shown \in Seq(ids) /\ old.stable \subseteq ids /\ \A i \in old.stable : Exists(i)
        /\ \A i \in old.stable : IF i \in Following(ids, after) THEN Never(shown, i)
                                 ELSE Once(shown, i)
    BY <1>1, <1>2, <1>4, <2>1 DEF ListingGoes
  <2>3. /\ items \in Seq(Following(ids, after))
        /\ \A i \in Following(ids, after) : Once(items, i) \/ (more /\ Never(items, i))
        /\ more => /\ items[Len(items)] \in ids
                   /\ \A i \in ids : i \in Following(ids, items[Len(items)])
                                       <=> i \in Following(ids, after) /\ Never(items, i)
    BY <1>3, <2>2, PageShows
  <2>4. Following(ids, after) \subseteq ids
    BY DEF Following
  <2>5. items \in Seq(ids) /\ \A i : i \notin Following(ids, after) => Never(items, i)
    BY <2>3, <2>4 DEF Never
  <2>6. shown \o items \in Seq(ids)
    BY <2>2, <2>5
  <2>7. ASSUME NEW i \in old.stable
        PROVE  IF more /\ i \in Following(ids, items[Len(items)])
               THEN Never(shown \o items, i) ELSE Once(shown \o items, i)
    <3>1. /\ Never(shown, i) /\ Never(items, i) => Never(shown \o items, i)
          /\ Once(shown, i) /\ Never(items, i) => Once(shown \o items, i)
          /\ Never(shown, i) /\ Once(items, i) => Once(shown \o items, i)
      BY <2>2, <2>5, ShownLater
    <3>2. CASE i \in Following(ids, after) /\ Never(items, i)
      <4>1. ~Once(items, i)
        BY <3>2 DEF Once, Never
      <4>2. more /\ i \in Following(ids, items[Len(items)])
        BY <2>2, <2>3, <3>2, <4>1
      <4> QED
        BY <2>2, <3>1, <3>2, <4>2
    <3>3. CASE i \in Following(ids, after) /\ Once(items, i)
      <4>1. ~Never(items, i)
        BY <3>3 DEF Once, Never
      <4>2. ~(more /\ i \in Following(ids, items[Len(items)]))
        BY <2>2, <2>3, <4>1
      <4> QED
        BY <2>2, <3>1, <3>3, <4>2
    <3>4. CASE i \notin Following(ids, after)
      <4>1. ~(more /\ i \in Following(ids, items[Len(items)]))
        BY <2>2, <2>3, <3>4
      <4> QED
        BY <2>2, <2>5, <3>1, <3>4, <4>1
    <3> QED
      BY <2>3, <3>2, <3>3, <3>4
  <2>8. CASE more
    <3>1. new.pc = "reading" /\ new.ids = ids /\ new.after = items[Len(items)] /\ new.stable = old.stable
          /\ new.shown = shown \o items /\ new.size = old.size
      BY <1>6, <2>8
    <3>2. Following(listing.ids, listing.after)' = Following(ids, items[Len(items)])
      BY <1>1, <1>8, <3>1
    <3> QED
      BY <1>1, <1>7, <2>2, <2>3, <2>6, <2>7, <2>8, <3>1, <3>2 DEF ListingGoes
  <2>9. CASE ~more
    <3>1. new.pc = "done" /\ new.ids = ids /\ new.after = after /\ new.stable = old.stable
          /\ new.shown = shown \o items /\ new.size = old.size
      BY <1>6, <2>9
    <3> QED
      BY <1>1, <1>7, <2>2, <2>6, <2>7, <2>9, <3>1 DEF ListingGoes
  <2> QED
    BY <2>8, <2>9
<1>10. ListingFields(new) /\ new.pc \in {"reading", "done"} /\ new.lost = old.lost
  BY <1>6 DEF ListingFields
<1> QED
  BY <1>1, <1>4, <1>9, <1>10 DEF ListingInv

LEMMA ListingOfIndustries ==
    ASSUME RegistryInv, ListingInv, NEW c \in EntityCalls, WriteIndustry(c)
    PROVE  ListingInv'
<1>1. PICK id, row : id = Edit(c).id /\ row = Edit(c).row
  OBVIOUS
<1>2. EditFits(entityCall[c], industry) /\ entityCall[c].pc \in {"write", "children"}
      /\ label' = label
  <2>1. EditFits(entityCall[c], industry)
    BY DEF RegistryInv, EditsFit
  <2>2. entityCall[c].pc \in {"write", "children"} /\ label' = label
    BY Zenon DEF WriteIndustry
  <2> QED
    BY <2>1, <2>2
<1>3. id \in IndustryIds /\ row \in IndustryRow /\ row # NoRow
  BY <1>1, <1>2, EditFacts DEF EditFits, Edit
<1>4. industry \in [IndustryIds -> IndustryRow] /\ IndustryIds \subseteq EntityIds
  BY DEF RegistryInv, IndustriesFit, EntityIds
<1>5. CASE \E j \in Children(id) : industry[j].path # Append(row.path, IndustryCode[j])
  <2>1. UNCHANGED <<industry, listing>>
    BY <1>1, <1>5, Zenon DEF WriteIndustry
  <2> QED
    BY <1>2, <2>1, ListingRests
<1>6. CASE ~\E j \in Children(id) : industry[j].path # Append(row.path, IndustryCode[j])
  <2>1. industry' = [industry EXCEPT ![id] = row]
    BY <1>1, <1>6, Zenon DEF WriteIndustry
  <2>2. IF MovedBy(id, row) THEN Affects(id) ELSE UNCHANGED listing
    BY <1>1, <1>6, Zenon DEF WriteIndustry
  <2>3. industry'[id] = row /\ \A i \in IndustryIds : i # id => industry'[i] = industry[i]
    BY <1>3, <1>4, <2>1
  <2>4. \A i \in EntityIds : i # id => (Exists(i)' <=> Exists(i)) /\ ListingKey(i)' = ListingKey(i)
    BY <1>2, <2>3 DEF Exists, ListingKey, IndustryKey, ConceptKey, NodeKey, ChainKey
  <2>5. Exists(id)'
    BY <1>3, <2>3 DEF Exists
  <2>6. ~MovedBy(id, row) => listing' = listing /\ ListingKey(id)' = ListingKey(id)
    BY <1>3, <2>2, <2>3 DEF MovedBy, ListingKey, IndustryKey
  <2> QED
    BY <1>3, <1>4, <2>2, <2>4, <2>5, <2>6, ListingKnows
<1> QED
  BY <1>5, <1>6

LEMMA ListingOfPlain ==
    ASSUME RegistryInv, ListingInv, NEW id \in PlainIds, NEW name \in Labels,
           \/ CreateConcept(id, name) \/ UpdateConcept(id, name)
           \/ CreateChainNode(id, name) \/ UpdateChainNode(id, name)
           \/ CreateIndustryChain(id, name) \/ UpdateIndustryChain(id, name)
    PROVE  ListingInv'
<1>1. /\ industry' = industry /\ label' = [label EXCEPT ![id] = name]
      /\ \/ id \in ConceptIds /\ Affects(id)
         \/ id \in NodeIds \cup ChainIds /\ listing' = listing
  BY Zenon DEF CreateConcept, UpdateConcept, CreateChainNode, UpdateChainNode,
     CreateIndustryChain, UpdateIndustryChain, WritePlain
<1>2. label'[id] = name /\ \A i \in PlainIds : i # id => label'[i] = label[i]
  BY <1>1 DEF RegistryInv, IndustriesFit
<1>3. name # NoLabel
  BY RegistryConstants
<1>4. \A i \in EntityIds : i # id => (Exists(i)' <=> Exists(i)) /\ ListingKey(i)' = ListingKey(i)
  <2>1. TAKE i \in EntityIds
  <2>2. HAVE i # id
  <2>3. CASE i \in IndustryIds
    BY <1>1, <2>3 DEF Exists, ListingKey, IndustryKey
  <2>4. CASE i \notin IndustryIds
    <3>1. label'[i] = label[i]
      BY <1>2, <2>2, <2>4 DEF EntityIds
    <3> QED
      BY <2>4, <3>1 DEF Exists, ListingKey, ConceptKey, NodeKey, ChainKey
  <2> QED
    BY <2>3, <2>4
<1>5. Exists(id)'
  BY <1>2, <1>3, KindsAreDisjoint DEF Exists
<1>6. id \in NodeIds \cup ChainIds => ListingKey(id)' = ListingKey(id)
  BY KindsAreDisjoint DEF ListingKey, NodeKey, ChainKey, PlainIds
<1>7. id \in EntityIds
  BY DEF EntityIds
<1> QED
  BY <1>1, <1>4, <1>5, <1>6, <1>7, ListingKnows

LEMMA ListingStep ==
    ASSUME RegistryInv, ListingInv, [RegistryNext]_registryVars
    PROVE  ListingInv'
<1>1. IndustriesFit
  BY DEF RegistryInv
<1>2. ASSUME NEW ids \in Kinds, NEW size \in PageSizes, BeginListing(ids, size)
      PROVE  ListingInv'
  BY <1>2, ListingBegins
<1>3. ASSUME NEW c \in EntityCalls, \/ \E edit \in IndustryEdits : BeginEdit(c, edit)
                                    \/ LockIndustry(c) \/ CheckParent(c) \/ GetIndustry(c)
                                    \/ \E child \in IndustryIds : ShareChild(c, child)
                                    \/ BreakDeadlock(c)
      PROVE  ListingInv'
  <2>1. UNCHANGED <<listing, industry, label>>
    BY <1>3, Zenon DEF BeginEdit, LockIndustry, CheckParent, GetIndustry, ShareChild, BreakDeadlock,
       TablesStay
  <2> QED
    BY <2>1, ListingRests
<1>4. CASE IndustryNext
  BY <1>2, <1>3, <1>4, ListingOfIndustries DEF IndustryNext, EditStep, Kinds
<1>5. CASE PlainNext
  BY <1>2, <1>5, ListingOfPlain DEF PlainNext, Kinds
<1>6. CASE ReadPage
  BY <1>1, <1>6, ListingReads
<1>7. CASE UNCHANGED registryVars
  BY <1>7, ListingRests DEF registryVars
<1> QED
  BY <1>4, <1>5, <1>6, <1>7 DEF RegistryNext

LEMMA ListingAtFirst == RegistryInit => ListingInv
<1> SUFFICES ASSUME RegistryInit
             PROVE  ListingInv
  OBVIOUS
<1>1. listing = [pc |-> "idle", ids |-> {}, size |-> 1, after |-> NoEntity, shown |-> <<>>,
                 stable |-> {}, lost |-> FALSE]
  BY DEF RegistryInit, NoListing
<1> QED
  BY <1>1 DEF ListingInv, ListingFields

LEMMA ListingInvExact == ListingInv => ListingIsExact
<1>1. SUFFICES ASSUME ListingInv, listing.pc = "done", ~listing.lost, NEW i \in listing.stable
               PROVE  Cardinality({n \in DOMAIN listing.shown : listing.shown[n] = i}) = 1
  BY DEF ListingIsExact
<1>2. Once(listing.shown, i) /\ listing.shown \in Seq(listing.ids)
  BY <1>1 DEF ListingInv, ListingGoes
<1>3. PICK n \in 1 .. Len(listing.shown) :
        \A m \in 1 .. Len(listing.shown) : listing.shown[m] = i <=> m = n
  BY <1>2 DEF Once
<1>4. {m \in DOMAIN listing.shown : listing.shown[m] = i} = {n}
  BY <1>2, <1>3
<1> QED
  BY <1>4, FS_Singleton

\* Industries, concepts, nodes and chains: however large a table, whatever pages
\* and whatever is written between them, a listing shows each entity that was
\* there from the first page on and stayed where it is exactly once, unless the
\* one its cursor names has moved.
THEOREM ListingsAreExact == RegistrySpec => []ListingIsExact
<1>1. RegistryInit => ListingInv
  BY ListingAtFirst
<1>2. RegistryInv /\ ListingInv /\ [RegistryNext]_registryVars => ListingInv'
  BY ListingStep
<1>3. ListingInv => ListingIsExact
  BY ListingInvExact
<1> QED
  BY <1>1, <1>2, <1>3, RegistryInvariant, PTL DEF RegistrySpec

-----------------------------------------------------------------------------
(* The research graph: what a walk reaches *)

LEMMA OptionsAreLinks ==
    ASSUME NEW q, NEW o \in TraversalOptions(q)
    PROVE  o.edge \in EligibleEdges(q) /\ o.edge \in GraphLink /\ o.from \in Object /\ o.to \in Object
<1>1. \A l \in EligibleEdges(q) : l \in GraphLink /\ l.from \in Object /\ l.to \in Object
  BY GraphConstants DEF EligibleEdges, LinkType
<1>2. PICK l \in EligibleEdges(q) : \/ o = [edge |-> l, from |-> l.from, to |-> l.to]
                                    \/ o = [edge |-> l, from |-> l.to, to |-> l.from]
  BY DEF TraversalOptions
<1> QED
  BY <1>1, <1>2

-----------------------------------------------------------------------------
(* The research graph: paths *)

\* Where the paths of at most n steps end.
ReachedIn(q, n) == {p[Len(p)] : p \in Paths(q, n)}

\* Where the options lead to from the objects of a set.
LeadTo(q, froms) == {o.to : o \in {p \in TraversalOptions(q) : p.from \in froms}}

LEMMA OptionsAreWalkable ==
    ASSUME NEW q, NEW o \in TraversalOptions(q)
    PROVE  /\ o.from \in Walkable /\ o.to \in Walkable
           /\ CurrentObject(o.from, q) /\ CurrentObject(o.to, q)
           /\ {o.from, o.to} = {o.edge.from, o.edge.to}
<1>1. PICK l \in EligibleEdges(q) : \/ o = [edge |-> l, from |-> l.from, to |-> l.to]
                                    \/ o = [edge |-> l, from |-> l.to, to |-> l.from]
  BY DEF TraversalOptions
<1>2. l \in GraphLink /\ (CurrentMapping(l, q) \/ CurrentEdge(l, q))
  BY DEF EligibleEdges
<1>3. /\ l.type \in MappingTypes \cup EdgeTypes
      /\ CurrentObject(l.from, q) /\ CurrentObject(l.to, q)
  BY <1>2 DEF CurrentMapping, CurrentEdge
<1>4. l.from \in Walkable /\ l.to \in Walkable
  BY <1>2, <1>3, GraphLinks DEF Walkable
<1> QED
  BY <1>1, <1>3, <1>4

LEMMA PathForms ==
    ASSUME NEW q, NEW n \in Nat, NEW p \in Paths(q, n)
    PROVE  /\ p \in Seq(Walkable) /\ Len(p) \in 1 .. n + 1 /\ p \in [1 .. Len(p) -> Walkable]
           /\ p[1] \in q.seeds
           /\ \A i \in 1 .. Len(p) - 1 :
                \E o \in TraversalOptions(q) : o.from = p[i] /\ o.to = p[i + 1]
<1>1. PICK k \in 0 .. n : p \in [1 .. k + 1 -> Walkable]
  BY DEF Paths
<1>2. k + 1 \in Nat /\ k + 1 \in 1 .. n + 1
  OBVIOUS
<1>3. p \in Seq(Walkable) /\ Len(p) = k + 1
  BY <1>1, <1>2
<1>4. p[1] \in q.seeds /\ \A i \in 1 .. Len(p) - 1 :
        \E o \in TraversalOptions(q) : o.from = p[i] /\ o.to = p[i + 1]
  BY DEF Paths
<1> QED
  BY <1>1, <1>2, <1>3, <1>4

LEMMA IsAPath ==
    ASSUME NEW q, NEW n \in Nat, NEW k \in 0 .. n, NEW p \in [1 .. k + 1 -> Walkable],
           p[1] \in q.seeds,
           \A i \in 1 .. k : \E o \in TraversalOptions(q) : o.from = p[i] /\ o.to = p[i + 1]
    PROVE  p \in Paths(q, n) /\ Len(p) = k + 1
<1>1. k + 1 \in Nat
  OBVIOUS
<1>2. p \in Seq(Walkable) /\ Len(p) = k + 1
  BY <1>1
<1>3. 1 .. Len(p) - 1 = 1 .. k
  BY <1>1, <1>2
<1>4. p \in UNION {[1 .. j + 1 -> Walkable] : j \in 0 .. n}
  OBVIOUS
<1> QED
  BY <1>2, <1>3, <1>4 DEF Paths

LEMMA ReachedAtOnce ==
    ASSUME NEW q, q.seeds \subseteq Walkable
    PROVE  ReachedIn(q, 0) = q.seeds
<1>1. ASSUME NEW x \in ReachedIn(q, 0)
      PROVE  x \in q.seeds
  <2>1. PICK p \in Paths(q, 0) : x = p[Len(p)]
    BY DEF ReachedIn
  <2>2. Len(p) \in 1 .. 0 + 1 /\ p[1] \in q.seeds
    BY PathForms
  <2>3. Len(p) = 1
    BY <2>2
  <2> QED
    BY <2>1, <2>2, <2>3
<1>2. ASSUME NEW x \in q.seeds
      PROVE  x \in ReachedIn(q, 0)
  <2>1. PICK p : p = [i \in 1 .. 0 + 1 |-> x]
    OBVIOUS
  <2>2. p \in [1 .. 0 + 1 -> Walkable] /\ p[1] = x
    BY <2>1
  <2>3. p \in Paths(q, 0) /\ Len(p) = 0 + 1
    <3>1. 0 \in Nat /\ 0 \in 0 .. 0 /\ \A i : i \notin 1 .. 0
      OBVIOUS
    <3> QED
      BY ONLY <2>2, <3>1, x \in q.seeds, IsAPath
  <2>4. x = p[Len(p)]
    BY <2>2, <2>3
  <2> QED
    BY <2>3, <2>4 DEF ReachedIn
<1> QED
  BY <1>1, <1>2

LEMMA ReachedGrows ==
    ASSUME NEW q, NEW m \in Nat, NEW n \in Nat, m <= n
    PROVE  ReachedIn(q, m) \subseteq ReachedIn(q, n)
<1>1. 0 .. m \subseteq 0 .. n
  OBVIOUS
<1>2. UNION {[1 .. k + 1 -> Walkable] : k \in 0 .. m} \subseteq UNION {[1 .. k + 1 -> Walkable] : k \in 0 .. n}
  BY <1>1
<1>3. Paths(q, m) \subseteq Paths(q, n)
  BY <1>2 DEF Paths
<1> QED
  BY <1>3 DEF ReachedIn

\* What is reached in a step more is reached already, or an option leads to it.
LEMMA ReachedNext ==
    ASSUME NEW q, NEW n \in Nat
    PROVE  ReachedIn(q, n + 1) = ReachedIn(q, n) \cup LeadTo(q, ReachedIn(q, n))
<1>0. n + 1 \in Nat
  OBVIOUS
<1>1. ASSUME NEW x \in ReachedIn(q, n + 1)
      PROVE  x \in ReachedIn(q, n) \cup LeadTo(q, ReachedIn(q, n))
  <2>1. PICK p \in Paths(q, n + 1) : x = p[Len(p)]
    BY DEF ReachedIn
  <2>2. PICK k : k = Len(p) - 1
    OBVIOUS
  <2>3. /\ Len(p) \in 1 .. (n + 1) + 1 /\ p \in [1 .. Len(p) -> Walkable] /\ p[1] \in q.seeds
        /\ \A i \in 1 .. k : \E o \in TraversalOptions(q) : o.from = p[i] /\ o.to = p[i + 1]
    BY <1>0, <2>2, PathForms
  <2>4. k \in 0 .. n + 1 /\ Len(p) = k + 1 /\ k \in Nat
    BY <2>2, <2>3
  <2>5. CASE k <= n
    <3>1. k \in 0 .. n /\ p \in [1 .. k + 1 -> Walkable]
      BY <2>3, <2>4, <2>5
    <3>2. p \in Paths(q, n)
      BY <2>3, <3>1, IsAPath
    <3> QED
      BY <2>1, <3>2 DEF ReachedIn
  <2>6. CASE ~(k <= n)
    <3>1. k = n + 1 /\ x = p[n + 2]
      BY <2>1, <2>4, <2>6
    <3>2. PICK o \in TraversalOptions(q) : o.from = p[n + 1] /\ o.to = p[n + 2]
      BY <2>3, <3>1
    <3>3. PICK r : r = [i \in 1 .. n + 1 |-> p[i]]
      OBVIOUS
    <3>4. r \in [1 .. n + 1 -> Walkable] /\ r[1] \in q.seeds /\ r[n + 1] = p[n + 1]
      BY <2>3, <2>4, <3>1, <3>3
    <3>5. \A i \in 1 .. n : \E v \in TraversalOptions(q) : v.from = r[i] /\ v.to = r[i + 1]
      BY <2>3, <3>1, <3>3
    <3>6. r \in Paths(q, n) /\ Len(r) = n + 1
      BY <3>4, <3>5, IsAPath
    <3>7. o.from \in ReachedIn(q, n)
      BY <3>2, <3>4, <3>6 DEF ReachedIn
    <3> QED
      BY <3>1, <3>2, <3>7 DEF LeadTo
  <2> QED
    BY <2>5, <2>6
<1>2. ReachedIn(q, n) \subseteq ReachedIn(q, n + 1)
  BY <1>0, ReachedGrows
<1>3. ASSUME NEW x \in LeadTo(q, ReachedIn(q, n))
      PROVE  x \in ReachedIn(q, n + 1)
  <2>1. PICK o \in TraversalOptions(q) : o.from \in ReachedIn(q, n) /\ x = o.to
    BY DEF LeadTo
  <2>2. PICK p \in Paths(q, n) : o.from = p[Len(p)]
    BY <2>1 DEF ReachedIn
  <2>3. PICK k : k = Len(p)
    OBVIOUS
  <2>4. /\ k \in 1 .. n + 1 /\ p \in [1 .. k -> Walkable] /\ p[1] \in q.seeds
        /\ \A i \in 1 .. k - 1 : \E v \in TraversalOptions(q) : v.from = p[i] /\ v.to = p[i + 1]
    BY <2>3, PathForms
  <2>5. PICK r : r = [i \in 1 .. k + 1 |-> IF i = k + 1 THEN x ELSE p[i]]
    OBVIOUS
  <2>6. x \in Walkable
    BY <2>1, OptionsAreWalkable
  <2>7. r \in [1 .. k + 1 -> Walkable] /\ r[1] = p[1] /\ r[k + 1] = x /\ r[k] = p[k]
    BY <2>4, <2>5, <2>6
  <2>8. ASSUME NEW i \in 1 .. k
        PROVE  \E v \in TraversalOptions(q) : v.from = r[i] /\ v.to = r[i + 1]
    <3>1. CASE i = k
      BY <2>1, <2>2, <2>3, <2>7, <3>1
    <3>2. CASE i # k
      <4>1. i \in 1 .. k - 1 /\ r[i] = p[i] /\ r[i + 1] = p[i + 1]
        BY <2>4, <2>5, <3>2
      <4> QED
        BY <2>4, <4>1
    <3> QED
      BY <3>1, <3>2
  <2>9. k \in 0 .. n + 1
    BY <2>4
  <2>10. r \in Paths(q, n + 1) /\ Len(r) = k + 1
    <3>1. r[1] \in q.seeds
      BY <2>4, <2>7
    <3> QED
      BY ONLY <1>0, <2>7, <2>8, <2>9, <3>1, IsAPath
  <2> QED
    BY <2>7, <2>10 DEF ReachedIn
<1> QED
  BY <1>1, <1>2, <1>3


-----------------------------------------------------------------------------
(* The research graph: budgets *)

LEMMA GreaterOfZero ==
    ASSUME NEW a \in Int
    PROVE  Max({a, 0}) = IF a >= 0 THEN a ELSE 0
<1>1. PICK m : m = IF a >= 0 THEN a ELSE 0
  OBVIOUS
<1>2. m \in {a, 0} /\ \A y \in {a, 0} : m >= y
  BY <1>1
<1>3. \A x \in {a, 0} : (\A y \in {a, 0} : x >= y) => x = m
  BY <1>2
<1>4. Max({a, 0}) \in {a, 0} /\ \A y \in {a, 0} : Max({a, 0}) >= y
  BY <1>2 DEF Max
<1> QED
  BY <1>1, <1>3, <1>4

\* The first n of at most n are all.
LEMMA FirstOfFew ==
    ASSUME NEW S, IsFiniteSet(S), NEW n \in Nat, Cardinality(S) <= n, NEW order,
           \A x \in S : order[x] \in Nat
    PROVE  First(S, n, order) = S
<1> SUFFICES ASSUME NEW x \in S
             PROVE  Cardinality({y \in S : order[y] < order[x]}) < n
  BY DEF First
<1>1. PICK less : less = {y \in S : order[y] < order[x]}
  OBVIOUS
<1>2. less \subseteq S /\ less # S
  BY <1>1
<1>3. Cardinality(less) < Cardinality(S) /\ Cardinality(S) \in Nat /\ Cardinality(less) \in Nat
  BY <1>2, FS_Subset, FS_CardinalityType
<1> QED
  BY <1>1, <1>3

\* The first n of a set are all of it, or n at least.
LEMMA FirstAreEnough ==
    ASSUME NEW S, IsFiniteSet(S), NEW n \in Nat, NEW order, \A x \in S : order[x] \in Nat
    PROVE  /\ First(S, n, order) \subseteq S
           /\ First(S, n, order) = S \/ Cardinality(First(S, n, order)) >= n
<1>1. PICK F : F = First(S, n, order)
  OBVIOUS
<1>2. F \subseteq S
  BY <1>1 DEF First
<1>3. ASSUME F # S
      PROVE  Cardinality(F) >= n
  <2>1. PICK ranks : ranks = {order[x] : x \in S \ F}
    OBVIOUS
  <2>2. ranks \subseteq Nat /\ ranks # {}
    BY <1>2, <1>3, <2>1
  <2>3. PICK r \in ranks : \A s \in ranks : r <= s
    BY <2>2, LeastOf
  <2>4. PICK x \in S \ F : r = order[x]
    BY <2>1
  <2>5. PICK less : less = {y \in S : order[y] < order[x]}
    OBVIOUS
  <2>6. ~(Cardinality(less) < n)
    BY <1>1, <2>4, <2>5 DEF First
  <2>7. less \subseteq F
    <3> SUFFICES ASSUME NEW y \in less, y \notin F
                 PROVE  FALSE
      OBVIOUS
    <3>1. y \in S /\ order[y] < order[x] /\ order[y] \in Nat /\ order[x] \in Nat
      BY <2>4, <2>5
    <3>2. order[y] \in ranks
      BY <2>1, <3>1
    <3> QED
      BY <2>3, <2>4, <3>1, <3>2
  <2>8. IsFiniteSet(F)
    BY <1>2, FS_Subset
  <2>9. Cardinality(less) <= Cardinality(F) /\ Cardinality(less) \in Nat /\ Cardinality(F) \in Nat
    BY <2>7, <2>8, FS_Subset, FS_CardinalityType
  <2> QED
    BY <2>6, <2>9
<1> QED
  BY <1>1, <1>2, <1>3

-----------------------------------------------------------------------------
(* The research graph: the walk *)

WalkStart(q) == [depth |-> [s \in q.seeds |-> 0], frontier |-> q.seeds]

WalkStep(q, before, d) ==
    LET known == DOMAIN before.depth
        found == {o.to : o \in {p \in TraversalOptions(q) : p.from \in before.frontier}} \ known
        taken == First(found, Room(q, known), ObjectOrder)
    IN  [depth |-> [o \in known \cup taken |-> IF o \in known THEN before.depth[o] ELSE d],
         frontier |-> taken]

\* The steps of the walk up to one of them.
WalksBy(q, f, n) ==
    f = [d \in 0 .. n |-> IF d = 0 THEN WalkStart(q) ELSE WalkStep(q, f[d - 1], d)]

LEMMA WalkIsDefined ==
    ASSUME NEW q, q.depth \in Nat
    PROVE  \E w : WalksBy(q, w, q.depth) /\ Walk(q) = w[q.depth].depth
<1> DEFINE w == CHOOSE f : WalksBy(q, f, q.depth)
<1>1. Walk(q) = w[q.depth].depth
  BY DEF Walk, WalksBy, WalkStart, WalkStep
<1>2. \A n \in Nat : \E f : WalksBy(q, f, n)
  <2> DEFINE T == {n \in Nat : ~\E f : WalksBy(q, f, n)}
  <2>1. SUFFICES ASSUME T # {}
                 PROVE  FALSE
    OBVIOUS
  <2>2. PICK n \in T : \A m \in T : n <= m
    BY <2>1, LeastOf
  <2>3. n # 0
    <3>1. PICK f : f = [d \in 0 .. 0 |-> WalkStart(q)]
      OBVIOUS
    <3>2. WalksBy(q, f, 0)
      BY <3>1 DEF WalksBy
    <3> QED
      BY <3>2
  <2>4. n \in Nat /\ n - 1 \in Nat /\ n - 1 \notin T
    <3>1. T \subseteq Nat
      OBVIOUS
    <3> HIDE DEF T
    <3>2. n \in Nat /\ n - 1 \in Nat
      BY <2>3, <3>1
    <3>3. n - 1 \in T => n <= n - 1
      BY <2>2
    <3> QED
      BY <3>2, <3>3
  <2>5. PICK g : WalksBy(q, g, n - 1)
    BY <2>4
  <2>6. PICK f : f = [d \in 0 .. n |-> IF d \in 0 .. n - 1 THEN g[d] ELSE WalkStep(q, g[n - 1], n)]
    OBVIOUS
  <2>7. \A d \in 0 .. n : d # 0 => d - 1 \in 0 .. n - 1 /\ d - 1 \in 0 .. n /\ f[d - 1] = g[d - 1]
    BY <2>4, <2>6
  <2>8. ASSUME NEW d \in 0 .. n
        PROVE  f[d] = IF d = 0 THEN WalkStart(q) ELSE WalkStep(q, f[d - 1], d)
    <3>1. CASE d \in 0 .. n - 1
      <4>1. f[d] = g[d]
        BY <2>6, <3>1
      <4>2. g[d] = IF d = 0 THEN WalkStart(q) ELSE WalkStep(q, g[d - 1], d)
        BY <2>5, <3>1 DEF WalksBy
      <4> QED
        BY <2>7, <4>1, <4>2
    <3>2. CASE d \notin 0 .. n - 1
      <4>1. d = n /\ f[d] = WalkStep(q, g[n - 1], n)
        BY <2>4, <2>6, <3>2
      <4> QED
        BY <2>3, <2>7, <4>1
    <3> QED
      BY <3>1, <3>2
  <2>9. WalksBy(q, f, n)
    BY <2>6, <2>8 DEF WalksBy
  <2> QED
    BY <2>2, <2>9
<1>3. WalksBy(q, w, q.depth)
  BY <1>2
<1> QED
  BY <1>1, <1>3

\* However the walk is cut, it reaches objects.
LEMMA WalkReaches ==
    ASSUME NEW q, q.seeds \subseteq Object, q.depth \in Nat
    PROVE  DOMAIN Walk(q) \subseteq Object
<1>1. PICK w : WalksBy(q, w, q.depth) /\ Walk(q) = w[q.depth].depth
  BY WalkIsDefined
<1>2. DOMAIN WalkStart(q).depth \subseteq Object
  BY DEF WalkStart
<1>3. ASSUME NEW before, DOMAIN before.depth \subseteq Object, NEW d
      PROVE  DOMAIN WalkStep(q, before, d).depth \subseteq Object
  <2> DEFINE known == DOMAIN before.depth
             found == {o.to : o \in {p \in TraversalOptions(q) : p.from \in before.frontier}} \ known
             taken == First(found, Room(q, known), ObjectOrder)
  <2>1. found \subseteq Object
    BY OptionsAreLinks
  <2>2. taken \subseteq found
    BY DEF First
  <2>3. WalkStep(q, before, d) =
          [depth |-> [o \in known \cup taken |-> IF o \in known THEN before.depth[o] ELSE d],
           frontier |-> taken]
    BY Zenon DEF WalkStep
  <2> HIDE DEF known, found, taken
  <2>4. DOMAIN WalkStep(q, before, d).depth = known \cup taken
    BY <2>3
  <2>5. known \subseteq Object
    BY <1>3 DEF known
  <2> QED
    BY <2>1, <2>2, <2>4, <2>5
<1> DEFINE bad == {n \in Nat : n <= q.depth /\ ~(DOMAIN w[n].depth \subseteq Object)}
<1>4. SUFFICES ASSUME bad # {}
               PROVE  FALSE
  BY <1>1
<1>5. PICK n \in bad : \A m \in bad : n <= m
  BY <1>4, LeastOf
<1>6. n \in Nat /\ n <= q.depth /\ n \in 0 .. q.depth /\ ~(DOMAIN w[n].depth \subseteq Object)
  OBVIOUS
<1>7. w[n] = IF n = 0 THEN WalkStart(q) ELSE WalkStep(q, w[n - 1], n)
  BY <1>1, <1>6 DEF WalksBy
<1>8. n # 0
  BY <1>2, <1>6, <1>7
<1>9. n - 1 \in Nat /\ n - 1 <= q.depth /\ n - 1 \notin bad
  <2>1. n - 1 \in Nat /\ n - 1 <= q.depth
    BY <1>6, <1>8
  <2>2. n - 1 \in bad => n <= n - 1
    BY <1>5
  <2> QED
    BY <1>6, <2>1, <2>2
<1>10. DOMAIN w[n - 1].depth \subseteq Object
  BY <1>9
<1> QED
  BY <1>3, <1>6, <1>7, <1>8, <1>10

\* What the walk has reached in d steps: all there is, each at its distance, or more
\* objects than the budget has.
WalkFits(q, d, x) ==
    /\ q.seeds \subseteq DOMAIN x.depth /\ DOMAIN x.depth \subseteq ReachedIn(q, d)
    /\ x.frontier \subseteq DOMAIN x.depth
    /\ \A o \in DOMAIN x.depth : x.depth[o] \in 0 .. d
    /\ \/ Cardinality(DOMAIN x.depth) > q.nodes
       \/ /\ DOMAIN x.depth = ReachedIn(q, d)
          /\ \A o \in DOMAIN x.depth : \A j \in 0 .. d : x.depth[o] <= j <=> o \in ReachedIn(q, j)
          /\ x.frontier = {o \in DOMAIN x.depth : x.depth[o] = d}

LEMMA ReachedAreObjects ==
    ASSUME NEW q, NEW n \in Nat
    PROVE  ReachedIn(q, n) \subseteq Walkable
<1> SUFFICES ASSUME NEW p \in Paths(q, n)
             PROVE  p[Len(p)] \in Walkable
  BY DEF ReachedIn
<1>1. Len(p) \in 1 .. n + 1 /\ p \in [1 .. Len(p) -> Walkable]
  BY PathForms
<1>2. Len(p) \in 1 .. Len(p)
  BY <1>1
<1> QED
  BY <1>1, <1>2

LEMMA WalkableAreFinite == IsFiniteSet(Walkable) /\ Walkable \subseteq Object
<1>1. Walkable \subseteq Object
  BY DEF Walkable, Object
<1> QED
  BY <1>1, GraphSizes, FS_Subset

LEMMA WalkStarts ==
    ASSUME NEW q, q.seeds \subseteq Walkable
    PROVE  WalkFits(q, 0, WalkStart(q))
<1>1. PICK x : x = WalkStart(q)
  OBVIOUS
<1>2. DOMAIN x.depth = q.seeds /\ x.frontier = q.seeds /\ \A o \in q.seeds : x.depth[o] = 0
  BY <1>1 DEF WalkStart
<1>3. ReachedIn(q, 0) = q.seeds
  BY ReachedAtOnce
<1>4. \A j \in 0 .. 0 : j = 0
  OBVIOUS
<1> QED
  BY <1>1, <1>2, <1>3, <1>4 DEF WalkFits

LEMMA WalkGoesOn ==
    ASSUME NEW q, q.nodes \in Nat, NEW d \in Nat, NEW x, WalkFits(q, d, x)
    PROVE  WalkFits(q, d + 1, WalkStep(q, x, d + 1))
<1> DEFINE known == DOMAIN x.depth
           found == {o.to : o \in {p \in TraversalOptions(q) : p.from \in x.frontier}} \ known
           taken == First(found, Room(q, known), ObjectOrder)
<1>1. PICK next : next = WalkStep(q, x, d + 1)
  OBVIOUS
<1>2. next = [depth |-> [o \in known \cup taken |-> IF o \in known THEN x.depth[o] ELSE d + 1],
              frontier |-> taken]
  BY <1>1, Zenon DEF WalkStep
<1>3. found = LeadTo(q, x.frontier) \ known
  BY DEF LeadTo
<1> HIDE DEF found
<1>4. known \subseteq ReachedIn(q, d) /\ x.frontier \subseteq known
  BY DEF WalkFits
<1>5. ReachedIn(q, d + 1) = ReachedIn(q, d) \cup LeadTo(q, ReachedIn(q, d))
  BY ReachedNext
<1>6. LeadTo(q, x.frontier) \subseteq LeadTo(q, ReachedIn(q, d))
  BY <1>4 DEF LeadTo
<1>7. found \cap known = {} /\ found \subseteq ReachedIn(q, d + 1) /\ known \subseteq ReachedIn(q, d + 1)
  BY <1>3, <1>4, <1>5, <1>6
<1>8. /\ d + 1 \in Nat /\ ReachedIn(q, d + 1) \subseteq Walkable
      /\ IsFiniteSet(found) /\ IsFiniteSet(known) /\ \A o \in found : ObjectOrder[o] \in Nat
  <2>1. ReachedIn(q, d + 1) \subseteq Walkable
    BY ReachedAreObjects
  <2>2. found \subseteq Walkable /\ known \subseteq Walkable
    BY <1>7, <2>1
  <2>3. IsFiniteSet(found) /\ IsFiniteSet(known)
    BY <2>2, WalkableAreFinite, FS_Subset
  <2>4. \A o \in found : ObjectOrder[o] \in Nat
    BY <2>2, WalkableAreFinite, GraphSizes
  <2> QED
    BY <2>1, <2>3, <2>4
<1> HIDE DEF known
<1>9. PICK n \in Nat : Room(q, known) = n /\ n + Cardinality(known) >= q.nodes + 1
  <2>1. Cardinality(known) \in Nat
    BY <1>8, FS_CardinalityType
  <2>2. PICK c \in Nat : c = Cardinality(known)
    BY <2>1
  <2>3. q.nodes + 1 - c \in Int
    BY <2>2
  <2>4. Room(q, known) = IF q.nodes + 1 - c >= 0 THEN q.nodes + 1 - c ELSE 0
    BY <2>2, <2>3, GreaterOfZero DEF Room
  <2> QED
    BY <2>2, <2>4
<1>10. taken \subseteq found /\ (taken = found \/ Cardinality(taken) >= n)
  BY <1>8, <1>9, FirstAreEnough
<1> HIDE DEF taken
<1>11. /\ DOMAIN next.depth = known \cup taken /\ next.frontier = taken
       /\ \A o \in known : next.depth[o] = x.depth[o]
       /\ \A o \in taken : next.depth[o] = d + 1
  BY <1>2, <1>7, <1>10
<1>12. \A o \in known : x.depth[o] \in 0 .. d
  BY DEF WalkFits, known
<1>13. \A o \in known \cup taken : next.depth[o] \in 0 .. d + 1
  BY <1>11, <1>12
<1>14. IsFiniteSet(taken) /\ Cardinality(known \cup taken) = Cardinality(known) + Cardinality(taken)
       /\ Cardinality(known) \in Nat /\ Cardinality(taken) \in Nat
  <2>1. IsFiniteSet(taken)
    BY <1>8, <1>10, FS_Subset
  <2>2. known \cap taken = {}
    BY <1>7, <1>10
  <2>3. Cardinality({}) = 0
    BY FS_EmptySet
  <2>4. Cardinality(known) \in Nat /\ Cardinality(taken) \in Nat
    BY <1>8, <2>1, FS_CardinalityType
  <2>5. Cardinality(known \cup taken) = Cardinality(known) + Cardinality(taken) - Cardinality(known \cap taken)
    BY <1>8, <2>1, FS_Union
  <2>6. PICK a, b \in Nat : a = Cardinality(known) /\ b = Cardinality(taken)
    BY <2>4
  <2>7. Cardinality(known \cap taken) = 0
    BY <2>2, <2>3, Zenon
  <2>8. Cardinality(known \cup taken) = a + b - 0
    BY <2>5, <2>6, <2>7, Zenon
  <2>9. a + b - 0 = a + b
    OBVIOUS
  <2> QED
    BY <2>1, <2>4, <2>6, <2>8, <2>9, Zenon
<1>15. CASE Cardinality(known) > q.nodes
  <2>1. Cardinality(known \cup taken) > q.nodes
    BY <1>14, <1>15
  <2> QED
    BY <1>1, <1>7, <1>10, <1>11, <1>13, <2>1 DEF WalkFits, known
<1>16. CASE taken # found
  <2>1. Cardinality(known \cup taken) > q.nodes
    BY <1>9, <1>10, <1>14, <1>16
  <2> QED
    BY <1>1, <1>7, <1>10, <1>11, <1>13, <2>1 DEF WalkFits, known
<1>17. CASE ~(Cardinality(known) > q.nodes) /\ taken = found
  <2>1. /\ known = ReachedIn(q, d)
        /\ \A o \in known : \A j \in 0 .. d : x.depth[o] <= j <=> o \in ReachedIn(q, j)
        /\ x.frontier = {o \in known : x.depth[o] = d}
    BY <1>17 DEF WalkFits, known
  <2>2. ASSUME NEW y \in LeadTo(q, ReachedIn(q, d)), y \notin known
        PROVE  y \in LeadTo(q, x.frontier)
    <3>1. PICK o \in TraversalOptions(q) : o.from \in ReachedIn(q, d) /\ y = o.to
      BY DEF LeadTo
    <3>2. o.from \in known /\ x.depth[o.from] \in 0 .. d
      BY <1>12, <2>1, <3>1
    <3>3. CASE x.depth[o.from] = d
      BY <2>1, <3>1, <3>2, <3>3 DEF LeadTo
    <3>4. CASE x.depth[o.from] # d
      <4>1. d - 1 \in Nat /\ d - 1 \in 0 .. d /\ x.depth[o.from] <= d - 1
        BY <3>2, <3>4
      <4>2. o.from \in ReachedIn(q, d - 1)
        BY <2>1, <3>2, <4>1
      <4>3. y \in LeadTo(q, ReachedIn(q, d - 1))
        BY <3>1, <4>2 DEF LeadTo
      <4>4. ReachedIn(q, (d - 1) + 1) = ReachedIn(q, d - 1) \cup LeadTo(q, ReachedIn(q, d - 1))
        BY <4>1, ReachedNext
      <4>5. (d - 1) + 1 = d
        OBVIOUS
      <4>6. y \in ReachedIn(q, d)
        BY <4>3, <4>4, <4>5
      <4> QED
        BY <2>1, <2>2, <4>6
    <3> QED
      BY <3>3, <3>4
  <2>3. known \cup taken = ReachedIn(q, d + 1)
    BY <1>3, <1>5, <1>7, <1>17, <2>1, <2>2
  <2>4. ASSUME NEW o \in known \cup taken, NEW j \in 0 .. d + 1
        PROVE  next.depth[o] <= j <=> o \in ReachedIn(q, j)
    <3>1. CASE j = d + 1
      BY <1>13, <2>3, <3>1
    <3>2. CASE j # d + 1 /\ o \in known
      <4>1. j \in 0 .. d
        BY <3>2
      <4> QED
        BY <1>11, <2>1, <3>2, <4>1
    <3>3. CASE j # d + 1 /\ o \in taken
      <4>1. j \in Nat /\ j <= d
        BY <3>3
      <4>2. ReachedIn(q, j) \subseteq known
        BY <2>1, <4>1, ReachedGrows
      <4>3. o \notin known
        BY <1>7, <1>10, <3>3
      <4> QED
        BY <1>11, <3>3, <4>1, <4>2, <4>3
    <3> QED
      BY <3>1, <3>2, <3>3
  <2>5. taken = {o \in known \cup taken : next.depth[o] = d + 1}
    <3>1. \A o \in known : next.depth[o] # d + 1
      BY <1>11, <1>12
    <3> QED
      BY <1>11, <3>1
  <2>6. q.seeds \subseteq known \cup taken
    BY DEF WalkFits, known
  <2> QED
    BY <1>1, <1>11, <1>13, <2>3, <2>4, <2>5, <2>6 DEF WalkFits
<1> QED
  BY <1>15, <1>16, <1>17

\* The walk reaches all there is, at its distance, or more than the budget.
LEMMA WalkIsBounded ==
    ASSUME NEW q, q.seeds \subseteq Walkable, q.depth \in Nat, q.nodes \in Nat
    PROVE  \E x : Walk(q) = x.depth /\ WalkFits(q, q.depth, x)
<1>1. PICK w : WalksBy(q, w, q.depth) /\ Walk(q) = w[q.depth].depth
  BY WalkIsDefined
<1> DEFINE T == {n \in Nat : n <= q.depth /\ ~WalkFits(q, n, w[n])}
<1>2. SUFFICES ASSUME T # {}
               PROVE  FALSE
  BY <1>1
<1>3. PICK n \in T : \A m \in T : n <= m
  BY <1>2, LeastOf
<1>4. n \in Nat /\ n <= q.depth /\ n \in 0 .. q.depth /\ ~WalkFits(q, n, w[n])
  OBVIOUS
<1>5. w[n] = IF n = 0 THEN WalkStart(q) ELSE WalkStep(q, w[n - 1], n)
  BY <1>1, <1>4 DEF WalksBy
<1>6. n # 0
  BY <1>4, <1>5, WalkStarts
<1>7. n - 1 \in Nat /\ n - 1 <= q.depth /\ n - 1 \notin T
  <2>1. n - 1 \in Nat /\ n - 1 <= q.depth
    BY <1>4, <1>6
  <2>2. n - 1 \in T => n <= n - 1
    BY <1>3
  <2> QED
    BY <1>4, <2>1, <2>2
<1>8. WalkFits(q, n - 1, w[n - 1])
  BY <1>7
<1>9. (n - 1) + 1 = n
  BY <1>4
<1>10. WalkFits(q, (n - 1) + 1, WalkStep(q, w[n - 1], (n - 1) + 1))
  BY <1>7, <1>8, WalkGoesOn
<1> QED
  BY <1>4, <1>5, <1>6, <1>9, <1>10

-----------------------------------------------------------------------------
(* The research graph: what is selected is what was asked for *)

LEMMA GreatestOf ==
    ASSUME NEW n \in Nat, NEW S, S \subseteq 0 .. n, S # {}
    PROVE  Max(S) \in S
<1> DEFINE T == {n - s : s \in S}
<1>1. T \subseteq Nat /\ T # {}
  <2>1. ASSUME NEW s \in S
        PROVE  n - s \in Nat
    <3>1. s \in 0 .. n
      OBVIOUS
    <3> QED
      BY <3>1
  <2>2. \E s : s \in S
    OBVIOUS
  <2> QED
    BY ONLY <2>1, <2>2
<1>2. PICK t \in T : \A m \in T : t <= m
  BY <1>1, LeastOf
<1>3. PICK x \in S : t = n - x
  OBVIOUS
<1>4. \A y \in S : x >= y
  <2> TAKE y \in S
  <2>1. n - y \in T
    OBVIOUS
  <2>2. n - x <= n - y
    BY <1>2, <1>3, <2>1
  <2> QED
    BY <2>2
<1> QED
  BY <1>4 DEF Max

LEMMA ReachedAreCurrent ==
    ASSUME NEW q, \A s \in q.seeds : CurrentObject(s, q), NEW n \in Nat, NEW x \in ReachedIn(q, n)
    PROVE  CurrentObject(x, q)
<1>1. PICK p \in Paths(q, n) : x = p[Len(p)]
  BY DEF ReachedIn
<1>2. PICK k : k = Len(p)
  OBVIOUS
<1>3. /\ k \in 1 .. n + 1 /\ p[1] \in q.seeds
      /\ \A i \in 1 .. k - 1 : \E o \in TraversalOptions(q) : o.from = p[i] /\ o.to = p[i + 1]
  BY <1>2, PathForms
<1>4. CASE k = 1
  BY <1>1, <1>2, <1>3, <1>4
<1>5. CASE k # 1
  <2>1. k - 1 \in 1 .. k - 1 /\ (k - 1) + 1 = k
    BY <1>3, <1>5
  <2>2. PICK o \in TraversalOptions(q) : o.to = p[(k - 1) + 1]
    BY <1>3, <2>1
  <2> QED
    BY <1>1, <1>2, <2>1, <2>2, OptionsAreWalkable
<1> QED
  BY <1>4, <1>5

\* A search whose seeds and chain are there.
Ready(q) ==
    /\ q.seeds \subseteq {o \in Walkable : CurrentObject(o, q)}
    /\ q.chain = NoName \/ CurrentChain(q.chain, q)

\* The edges a walk has used, before the budget cuts them.
EdgesOn(q, reached) ==
    {o.edge : o \in {p \in TraversalOptions(q) :
        /\ p.from \in DOMAIN reached /\ p.to \in DOMAIN reached
        /\ reached[p.from] < q.depth}}

ChainsOf(q, edges) == {l.chain : l \in {e \in edges : e.type \in EdgeTypes}} \cup ({q.chain} \ {NoName})

LEMMA EdgesAreLinks ==
    ASSUME NEW q, NEW reached, NEW l \in EdgesOn(q, reached)
    PROVE  /\ l \in GraphLink /\ l.type \in MappingTypes \cup EdgeTypes
           /\ l.from \in DOMAIN reached /\ l.to \in DOMAIN reached
           /\ l.type \in EdgeTypes =>
                /\ CurrentChain(l.chain, q) /\ l.chain \in Chain /\ l.from # l.to
                /\ CurrentMembership(l.chain, l.from, q) /\ CurrentMembership(l.chain, l.to, q)
           /\ l.type \notin EdgeTypes => l.chain = NoName
<1>1. PICK o \in TraversalOptions(q) : l = o.edge /\ o.from \in DOMAIN reached /\ o.to \in DOMAIN reached
  BY DEF EdgesOn
<1>2. {o.from, o.to} = {l.from, l.to} /\ l \in EligibleEdges(q)
  BY <1>1, OptionsAreWalkable, OptionsAreLinks
<1>3. l \in GraphLink /\ (CurrentMapping(l, q) \/ CurrentEdge(l, q))
  BY <1>2 DEF EligibleEdges
<1>4. EdgeTypes \cap MappingTypes = {}
  BY DEF EdgeTypes, MappingTypes
<1>5. l.from \in DOMAIN reached /\ l.to \in DOMAIN reached
  BY <1>1, <1>2
<1>6. CASE CurrentMapping(l, q)
  BY <1>3, <1>4, <1>5, <1>6, GraphLinks DEF CurrentMapping
<1>7. CASE CurrentEdge(l, q)
  BY <1>3, <1>4, <1>5, <1>7, GraphLinks DEF CurrentEdge
<1> QED
  BY <1>3, <1>6, <1>7

\* Where nothing is cut, the edges used are those of the subgraph.
LEMMA EdgesAreOnPaths ==
    ASSUME NEW q, q.depth \in Nat, q.depth # 0, NEW reached,
           DOMAIN reached = ReachedIn(q, q.depth),
           \A o \in DOMAIN reached : reached[o] \in Nat,
           \A o \in DOMAIN reached : \A j \in 0 .. q.depth : reached[o] <= j <=> o \in ReachedIn(q, j)
    PROVE  EdgesOn(q, reached) =
             {o.edge : o \in {t \in TraversalOptions(q) : t.from \in ReachedIn(q, q.depth - 1)}}
<1>1. PICK n : n = q.depth - 1
  OBVIOUS
<1>2. n \in Nat /\ n \in 0 .. q.depth /\ n + 1 = q.depth
  BY <1>1
<1>3. ReachedIn(q, n + 1) = ReachedIn(q, n) \cup LeadTo(q, ReachedIn(q, n))
  BY <1>2, ReachedNext
<1>4. ASSUME NEW o \in TraversalOptions(q)
      PROVE  (o.from \in DOMAIN reached /\ o.to \in DOMAIN reached /\ reached[o.from] < q.depth)
               <=> o.from \in ReachedIn(q, n)
  <2>1. CASE o.from \in ReachedIn(q, n)
    <3>1. o.from \in DOMAIN reached
      BY <1>2, <1>3, <2>1
    <3>2. o.to \in LeadTo(q, ReachedIn(q, n))
      BY <2>1 DEF LeadTo
    <3>3. o.to \in DOMAIN reached
      BY <1>2, <1>3, <3>2
    <3>4. reached[o.from] <= n
      BY <1>2, <2>1, <3>1
    <3> QED
      BY <1>2, <2>1, <3>1, <3>3, <3>4
  <2>2. CASE o.from \notin ReachedIn(q, n)
    <3>1. o.from \in DOMAIN reached => ~(reached[o.from] <= n) /\ reached[o.from] \in Nat
      BY <1>2, <2>2
    <3> QED
      BY <1>2, <2>2, <3>1
  <2> QED
    BY <2>1, <2>2
<1> QED
  BY <1>1, <1>4 DEF EdgesOn

\* What one statement selects, in these terms.
GraphOn(q, reached, used, chains) ==
    [depth |-> Max({reached[o] : o \in DOMAIN reached}),
     entities |-> {o \in DOMAIN reached \cup chains : CurrentObject(o, q)},
     links |-> used,
     chains |-> {c \in chains : CurrentChain(c, q)},
     memberships |-> {m \in GraphLink : /\ m.type = "membership"
                                        /\ m.from \in chains /\ m.to \in DOMAIN reached
                                        /\ Current(link[m], q)},
     types |-> {l.type : l \in used}]

LEMMA SelectedForm ==
    ASSUME NEW q, NEW reached, reached = Walk(q),
           NEW used, used = First(EdgesOn(q, reached), q.edges + 1, LinkOrder),
           NEW chains, chains = ChainsOf(q, used)
    PROVE  Selected(q) = GraphOn(q, reached, used, chains)
<1>1. UsedEdges(q, reached) = used
  BY DEF UsedEdges, EdgesOn
<1>2. chains = {l.chain : l \in {e \in used : e.type \in EdgeTypes}} \cup ({q.chain} \ {NoName})
  BY DEF ChainsOf
<1> QED
  BY ONLY <1>1, <1>2, reached = Walk(q) DEF Selected, GraphOn

\* What is selected refers to nothing it does not contain.
LEMMA SelectedIsClosed ==
    ASSUME NEW q, ValidRequest(q), Ready(q), q.depth \in Nat, q.nodes \in Nat
    PROVE  Closed(Selected(q), q) /\ ReferencesResolve(Selected(q))
<1>1. q.seeds \subseteq Walkable /\ \A s \in q.seeds : CurrentObject(s, q)
  BY DEF Ready
<1>2. PICK x : Walk(q) = x.depth /\ WalkFits(q, q.depth, x)
  BY <1>1, WalkIsBounded
<1>3. PICK reached : reached = x.depth /\ reached = Walk(q)
  BY <1>2
<1>4. PICK used : used = First(EdgesOn(q, reached), q.edges + 1, LinkOrder)
  OBVIOUS
<1>5. PICK chains : chains = ChainsOf(q, used)
  OBVIOUS
<1>6. PICK g : g = Selected(q)
  OBVIOUS
<1>7. /\ g.depth = Max({reached[o] : o \in DOMAIN reached})
      /\ g.entities = {o \in DOMAIN reached \cup chains : CurrentObject(o, q)}
      /\ g.links = used
      /\ g.chains = {c \in chains : CurrentChain(c, q)}
      /\ g.memberships = {m \in GraphLink : /\ m.type = "membership"
                                            /\ m.from \in chains /\ m.to \in DOMAIN reached
                                            /\ Current(link[m], q)}
      /\ g.types = {l.type : l \in used}
  <2>1. g = GraphOn(q, reached, used, chains)
    BY ONLY <1>3, <1>4, <1>5, <1>6, SelectedForm
  <2> QED
    BY ONLY <2>1 DEF GraphOn
<1>8. \A o \in DOMAIN reached : CurrentObject(o, q)
  BY <1>1, <1>2, <1>3, ReachedAreCurrent DEF WalkFits
<1>9. used \subseteq EdgesOn(q, reached)
  BY <1>4 DEF First
<1>10. \A c \in chains : CurrentChain(c, q) /\ CurrentObject(c, q)
  <2>1. \A c \in chains : CurrentChain(c, q)
    BY <1>5, <1>9, EdgesAreLinks DEF ChainsOf, Ready
  <2> QED
    BY <2>1 DEF CurrentChain
<1>11. g.entities = DOMAIN reached \cup chains /\ g.chains = chains
  BY <1>7, <1>8, <1>10
<1>12. g.depth \in 0 .. q.depth
  <2>1. q.seeds # {}
    <3>1. Cardinality(q.seeds) \in 1 .. MaxSeeds
      BY DEF ValidRequest
    <3>2. Cardinality(q.seeds) # 0
      BY <3>1, GraphConstants
    <3> QED
      BY <3>2, FS_EmptySet
  <2>2. q.seeds \subseteq DOMAIN reached /\ \A o \in DOMAIN reached : reached[o] \in 0 .. q.depth
    BY <1>2, <1>3 DEF WalkFits
  <2>3. PICK S : S = {reached[o] : o \in DOMAIN reached}
    OBVIOUS
  <2>4. S \subseteq 0 .. q.depth /\ S # {}
    BY <2>1, <2>2, <2>3
  <2>5. Max(S) \in S
    BY <2>4, GreatestOf
  <2> QED
    BY <1>7, <2>3, <2>4, <2>5
<1>13. \A l \in used : l.type \in EdgeTypes => l.chain \in chains
  BY <1>5 DEF ChainsOf
<1>14. Closed(g, q)
  <2>1. \A l \in g.links : {l.from, l.to} \subseteq g.entities /\ l.type \in g.types
    BY <1>7, <1>9, <1>11, EdgesAreLinks
  <2>2. \A l \in g.links : l.type \in EdgeTypes => l.chain \in g.chains /\ l.from # l.to
    BY <1>7, <1>9, <1>11, <1>13, EdgesAreLinks
  <2>3. g.chains \subseteq g.entities
    BY <1>11
  <2>4. \A m \in g.memberships : m.from \in g.chains /\ m.to \in g.entities
    BY <1>7, <1>11
  <2> QED
    BY <1>12, <2>1, <2>2, <2>3, <2>4 DEF Closed
<1>15. ReferencesResolve(g)
  <2> SUFFICES ASSUME NEW l \in used, l.type \in EdgeTypes, NEW node \in {l.from, l.to}
               PROVE  \E m \in g.memberships : m.from = l.chain /\ m.to = node
    BY <1>7 DEF ReferencesResolve
  <2>1. CurrentMembership(l.chain, node, q) /\ node \in DOMAIN reached
    BY <1>9, EdgesAreLinks
  <2>2. PICK m \in GraphLink : /\ m.type = "membership" /\ m.from = l.chain /\ m.to = node
                               /\ Current(link[m], q)
    BY <2>1 DEF CurrentMembership
  <2> QED
    BY <1>7, <1>13, <2>1, <2>2
<1> QED
  BY <1>6, <1>14, <1>15

\* What is selected is within the budgets exactly if the subgraph is, and then it is the subgraph.
LEMMA SelectedIsWhole ==
    ASSUME NEW q, Ready(q), q.depth \in Nat, q.depth # 0, q.nodes \in Nat, q.edges \in Nat,
           approved \subseteq Chain
    PROVE  LET g == Selected(q)
               s == Subgraph(q)
           IN  /\ WithinBudget(g, q) <=> WithinBudget(s, q)
               /\ WithinBudget(s, q) => g.entities = s.entities /\ g.links = s.links
<1>1. q.seeds \subseteq Walkable /\ \A s \in q.seeds : CurrentObject(s, q)
  BY DEF Ready
<1>2. PICK x : Walk(q) = x.depth /\ WalkFits(q, q.depth, x)
  BY <1>1, WalkIsBounded
<1>3. PICK reached : reached = x.depth /\ reached = Walk(q)
  BY <1>2
<1>4. PICK all : all = EdgesOn(q, reached)
  OBVIOUS
<1>5. PICK used : used = First(all, q.edges + 1, LinkOrder)
  OBVIOUS
<1>6. PICK chains : chains = ChainsOf(q, used)
  OBVIOUS
<1>7. PICK g, s : g = Selected(q) /\ s = Subgraph(q)
  OBVIOUS
<1>8. PICK ends, edges : /\ ends = ReachedIn(q, q.depth)
                           /\ edges = {o.edge : o \in {t \in TraversalOptions(q) :
                                                         t.from \in ReachedIn(q, q.depth - 1)}}
  OBVIOUS
<1>9. /\ s.entities = (ends \cup {l.chain : l \in edges} \cup {q.chain}) \ {NoName}
      /\ s.links = edges
  BY <1>7, <1>8 DEF Subgraph, ReachedIn
<1>10. \A o \in DOMAIN reached : CurrentObject(o, q)
  BY <1>1, <1>2, <1>3, ReachedAreCurrent DEF WalkFits
<1>11. used \subseteq all /\ (used = all \/ Cardinality(used) >= q.edges + 1)
       /\ IsFiniteSet(all) /\ IsFiniteSet(used) /\ (Cardinality(all) <= q.edges => used = all)
  <2>1. all \subseteq GraphLink
    BY <1>4, EdgesAreLinks
  <2>2. IsFiniteSet(all) /\ \A l \in all : LinkOrder[l] \in Nat
    BY <2>1, GraphSizes, FS_Subset
  <2>3. q.edges + 1 \in Nat
    OBVIOUS
  <2>4. used \subseteq all /\ (used = all \/ Cardinality(used) >= q.edges + 1)
    BY <1>5, <2>2, <2>3, FirstAreEnough
  <2>5. IsFiniteSet(used)
    BY <2>2, <2>4, FS_Subset
  <2>6. ASSUME Cardinality(all) <= q.edges
        PROVE  used = all
    <3>1. Cardinality(all) \in Nat
      BY <2>2, FS_CardinalityType
    <3>2. Cardinality(all) <= q.edges + 1
      BY <2>6, <3>1
    <3> QED
      BY <1>5, <2>2, <2>3, <3>2, FirstOfFew
  <2> QED
    BY <2>2, <2>4, <2>5, <2>6
<1>12. \A c \in chains : CurrentObject(c, q) /\ c \in Chain
  <2>1. \A c \in chains : CurrentChain(c, q)
    BY <1>4, <1>6, <1>11, EdgesAreLinks DEF ChainsOf, Ready
  <2> QED
    BY <2>1 DEF CurrentChain
<1>13. g.entities = DOMAIN reached \cup chains /\ g.links = used
  <2>1. g = GraphOn(q, reached, used, chains)
    <3>1. used = First(EdgesOn(q, reached), q.edges + 1, LinkOrder)
      BY <1>4, <1>5
    <3> QED
      BY ONLY <1>3, <1>6, <1>7, <3>1, SelectedForm
  <2>2. g.entities = {o \in DOMAIN reached \cup chains : CurrentObject(o, q)} /\ g.links = used
    BY ONLY <2>1 DEF GraphOn
  <2> QED
    BY ONLY <1>10, <1>12, <2>2
<1>14. /\ ends \subseteq Object /\ NoName \notin ends /\ NoName \notin chains
       /\ DOMAIN reached \subseteq ends /\ chains \subseteq Object
       /\ ends \subseteq s.entities
  <2>1. ends \subseteq Object /\ Chain \subseteq Object /\ NoName \notin Object
    BY <1>8, ReachedAreObjects, WalkableAreFinite, GraphSizes DEF Object
  <2>2. DOMAIN reached \subseteq ends
    BY <1>2, <1>3, <1>8 DEF WalkFits
  <2> QED
    BY <1>9, <1>12, <2>1, <2>2
\* If the walk was not cut, and the edges were not, both are the same.
<1>15. ASSUME DOMAIN reached = ends, all = edges, used = all
       PROVE  g.entities = s.entities /\ g.links = s.links
  <2>1. \A l \in used : l.type \in EdgeTypes \/ l.chain = NoName
    BY <1>4, <1>11, EdgesAreLinks
  <2>2. {l.chain : l \in {e \in used : e.type \in EdgeTypes}} \cup {NoName} = {l.chain : l \in used} \cup {NoName}
    BY <2>1
  <2>3. chains \cup {NoName} = {l.chain : l \in used} \cup {q.chain} \cup {NoName}
    BY <1>6, <2>2 DEF ChainsOf
  <2> QED
    BY <1>9, <1>13, <1>14, <1>15, <2>3
<1>16. ASSUME ~(Cardinality(DOMAIN reached) > q.nodes)
       PROVE  DOMAIN reached = ends /\ all = edges
  <2>1. /\ DOMAIN reached = ends
        /\ \A o \in DOMAIN reached : \A j \in 0 .. q.depth : reached[o] <= j <=> o \in ReachedIn(q, j)
        /\ \A o \in DOMAIN reached : reached[o] \in Nat
    BY <1>2, <1>3, <1>8, <1>16 DEF WalkFits
  <2> QED
    BY <1>4, <1>8, <2>1, EdgesAreOnPaths
<1>17. IsFiniteSet(ends) /\ IsFiniteSet(g.entities)
  BY <1>13, <1>14, GraphSizes, FS_Subset
<1>18. ASSUME WithinBudget(g, q)
       PROVE  WithinBudget(s, q)
  <2>1. Cardinality(g.entities) <= q.nodes /\ Cardinality(used) <= q.edges
    BY <1>13, <1>18 DEF WithinBudget
  <2>2. DOMAIN reached \subseteq g.entities
    BY <1>13
  <2>3. /\ Cardinality(DOMAIN reached) <= Cardinality(g.entities)
        /\ Cardinality(DOMAIN reached) \in Nat /\ Cardinality(g.entities) \in Nat /\ Cardinality(used) \in Nat
    BY <1>11, <1>17, <2>2, FS_Subset, FS_CardinalityType
  <2>4. DOMAIN reached = ends /\ all = edges
    BY <1>16, <2>1, <2>3
  <2>5. used = all
    BY <1>11, <2>1, <2>3
  <2> QED
    BY <1>15, <1>18, <2>4, <2>5 DEF WithinBudget
<1>19. ASSUME WithinBudget(s, q)
       PROVE  WithinBudget(g, q) /\ g.entities = s.entities /\ g.links = s.links
  <2>1. Cardinality(s.entities) <= q.nodes /\ Cardinality(edges) <= q.edges
    BY <1>9, <1>19 DEF WithinBudget
  <2>2. IsFiniteSet(s.entities)
    <3>1. \A l \in edges : l.chain \in Object \cup {NoName}
      <4>1. \A o \in TraversalOptions(q) : o.edge \in GraphLink
        BY OptionsAreLinks
      <4>2. \A l \in GraphLink : l.chain \in Chain \cup {NoName}
        BY GraphConstants DEF LinkType
      <4> QED
        BY <1>8, <4>1, <4>2 DEF Object
    <3>2. q.chain \in Object \cup {NoName}
      BY DEF Ready, CurrentChain, Object
    <3>3. s.entities \subseteq Object
      BY <1>9, <1>14, <3>1, <3>2
    <3> QED
      BY <3>3, GraphSizes, FS_Subset
  <2>3. /\ Cardinality(ends) <= Cardinality(s.entities)
        /\ Cardinality(DOMAIN reached) <= Cardinality(ends)
        /\ Cardinality(DOMAIN reached) \in Nat /\ Cardinality(ends) \in Nat
        /\ Cardinality(s.entities) \in Nat
    BY <1>14, <1>17, <2>2, FS_Subset, FS_CardinalityType
  <2>4. DOMAIN reached = ends /\ all = edges
    BY <1>16, <2>1, <2>3
  <2>5. used = all
    BY <1>11, <2>1, <2>4
  <2> QED
    BY <1>15, <1>19, <2>4, <2>5 DEF WithinBudget
<1> QED
  BY <1>7, <1>18, <1>19

\* What a statement over the graph selects is made of objects and links.
LEMMA SelectedFacts ==
    ASSUME NEW q, q.seeds \subseteq Object, ValidRequest(q), approved \subseteq Chain
    PROVE  Selected(q).entities \subseteq Object /\ Selected(q).links \subseteq GraphLink
<1>1. q.depth \in Nat /\ q.chain \in Chain \cup {NoName}
  BY GraphConstants DEF ValidRequest
<1>2. PICK reached : reached = Walk(q)
  OBVIOUS
<1>3. DOMAIN reached \subseteq Object
  BY <1>1, <1>2, WalkReaches
<1>4. PICK used : used = UsedEdges(q, reached)
  OBVIOUS
<1>5. used \subseteq EligibleEdges(q) /\ used \subseteq GraphLink
  BY <1>4, OptionsAreLinks DEF UsedEdges, First
<1>6. \A l \in used : l.type \in EdgeTypes => l.chain \in Chain
  <2>1. EdgeTypes \cap MappingTypes = {}
    BY DEF EdgeTypes, MappingTypes
  <2>2. \A l \in EligibleEdges(q) : CurrentMapping(l, q) \/ CurrentEdge(l, q)
    BY DEF EligibleEdges
  <2>3. \A l : CurrentMapping(l, q) => l.type \in MappingTypes
    BY DEF CurrentMapping
  <2>4. \A l : CurrentEdge(l, q) => l.chain \in approved
    BY DEF CurrentEdge, CurrentChain
  <2> QED
    BY <1>5, <2>1, <2>2, <2>3, <2>4
<1>7. PICK chains : chains = {l.chain : l \in {e \in used : e.type \in EdgeTypes}}
                               \cup ({q.chain} \ {NoName})
  OBVIOUS
<1>8. chains \subseteq Object
  BY <1>1, <1>6, <1>7 DEF Object
<1>9. Selected(q).entities = {o \in DOMAIN reached \cup chains : CurrentObject(o, q)}
      /\ Selected(q).links = used
  BY <1>2, <1>4, <1>7 DEF Selected
<1> QED
  BY <1>3, <1>5, <1>8, <1>9

-----------------------------------------------------------------------------
(* The research graph: facts and the search under way *)

\* Facts are not of the future.
Past(stamp) == stamp # Nowhere => stamp.created <= now /\ stamp.updated <= now

FactsFit ==
    /\ object \in [Object -> Stamp] /\ link \in [GraphLink -> Stamp]
    /\ \A o \in Object : Past(object[o])
    /\ \A l \in GraphLink : Past(link[l])
    /\ approved \subseteq Chain /\ now \in Time /\ changes \in 0 .. MaxChanges

GraphFields(g) ==
    /\ g = [depth |-> g.depth, entities |-> g.entities, links |-> g.links, chains |-> g.chains,
            memberships |-> g.memberships, types |-> g.types]
    /\ g.entities \subseteq Object /\ g.links \subseteq GraphLink

\* A search that is under way is one of those asked, and was validated.
SearchFits(s) ==
    /\ s = [pc |-> s.pc, q |-> s.q, graph |-> s.graph, out |-> s.out]
    /\ s.pc \in {"idle", "references", "count", "payload", "countries", "regions",
                 "organizations", "members", "gap", "cited", "cited countries", "done"}
    /\ s.out \in {NoName, "refused", "historical", "limit", "internal", "answer"}
    /\ GraphFields(s.graph)
    /\ s.pc \notin {"idle", "done"} => s.q \in Ask
    /\ s.pc \in {"references", "count", "payload"} => ValidRequest(s.q)

GraphInv == FactsFit /\ SearchFits(search)

LEMMA SearchGoesOn ==
    ASSUME NEW s, SearchFits(s), NEW next, NEW g, GraphFields(g),
           NEW out \in {NoName, "refused", "historical", "limit", "internal", "answer"},
           NEW pc \in {"count", "payload", "regions", "members", "cited", "cited countries", "done"},
           pc # "done" => s.pc \notin {"idle", "done"},
           pc \in {"count", "payload"} => ValidRequest(s.q),
           \/ next = [s EXCEPT !.pc = pc] /\ g = s.graph /\ out = s.out
           \/ next = [s EXCEPT !.pc = pc, !.out = out] /\ g = s.graph
           \/ next = [s EXCEPT !.pc = pc, !.graph = g] /\ out = s.out
           \/ next = [s EXCEPT !.pc = pc, !.graph = g, !.out = out]
    PROVE  SearchFits(next)
<1>1. s = [pc |-> s.pc, q |-> s.q, graph |-> s.graph, out |-> s.out]
  BY DEF SearchFits
<1>2. next = [pc |-> pc, q |-> s.q, graph |-> g, out |-> out]
  BY ONLY <1>1, \/ next = [s EXCEPT !.pc = pc] /\ g = s.graph /\ out = s.out
                \/ next = [s EXCEPT !.pc = pc, !.out = out] /\ g = s.graph
                \/ next = [s EXCEPT !.pc = pc, !.graph = g] /\ out = s.out
                \/ next = [s EXCEPT !.pc = pc, !.graph = g, !.out = out]
<1>3. next.pc = pc /\ next.q = s.q /\ next.graph = g /\ next.out = out
  BY <1>2
<1>4. next = [pc |-> next.pc, q |-> next.q, graph |-> next.graph, out |-> next.out]
  BY <1>2, <1>3
<1>5. next.pc \notin {"idle", "done"} => next.q \in Ask
  BY <1>3 DEF SearchFits
<1>6. next.pc \in {"references", "count", "payload"} => ValidRequest(next.q)
  BY <1>3
<1> QED
  BY <1>3, <1>4, <1>5, <1>6 DEF SearchFits

LEMMA FactsStay ==
    ASSUME FactsFit, Reads
    PROVE  FactsFit'
BY DEF FactsFit, Past, Reads

LEMMA SearchIsAsked ==
    ASSUME NEW q \in Ask, SearchRequest(q)
    PROVE  SearchFits(search')
<1>1. PICK way : way = Route(q)
  OBVIOUS
<1>2. way \in {"gap", "refused", "countries", "organizations", "references"}
      /\ (way = "references" => ValidRequest(q))
  BY <1>1 DEF Route
<1>3. PICK next : next = search'
  OBVIOUS
<1>4. next = [Idle EXCEPT !.pc = IF way = "refused" THEN "done" ELSE way, !.q = q,
                          !.out = IF way = "refused" THEN way ELSE NoName]
  BY <1>1, <1>3, Zenon DEF SearchRequest
<1>5. PICK pc, out : /\ pc = IF way = "refused" THEN "done" ELSE way
                     /\ out = IF way = "refused" THEN way ELSE NoName
  OBVIOUS
<1>6. next = [pc |-> pc, q |-> q, graph |-> NoGraph, out |-> out]
  BY <1>4, <1>5 DEF Idle
<1>7. pc \in {"done", "gap", "countries", "organizations", "references"}
      /\ out \in {"refused", NoName} /\ (pc = "references" => ValidRequest(q))
  BY <1>2, <1>5
<1>8. GraphFields(NoGraph)
  BY DEF NoGraph, GraphFields
<1>9. next.pc = pc /\ next.q = q /\ next.graph = NoGraph /\ next.out = out
  BY <1>6
<1> QED
  BY <1>3, <1>6, <1>7, <1>8, <1>9 DEF SearchFits

\* A statement about chains: the search goes on, ends or is served.
LEMMA ChainsAreRead ==
    ASSUME GraphInv, ValidateReferences \/ CountResult \/ ReadPayload
    PROVE  SearchFits(search')
<1>1. PICK s, next : s = search /\ next = search'
  OBVIOUS
<1>2. SearchFits(s) /\ GraphFields(s.graph) /\ s.pc \in {"references", "count", "payload"}
      /\ ValidRequest(s.q) /\ s.q \in Ask /\ s.out \in {NoName, "refused", "historical", "limit", "internal", "answer"}
  BY <1>1 DEF GraphInv, SearchFits, ValidateReferences, CountResult, ReadPayload
<1>3. ASSUME NEW out \in {"refused", "limit", "internal"}, Ends(out)
      PROVE  SearchFits(next)
  <2>1. next = [s EXCEPT !.pc = "done", !.out = out]
    BY <1>1, <1>3 DEF Ends
  <2> QED
    BY <1>2, <2>1, SearchGoesOn
<1>4. ASSUME NEW pc \in {"count", "payload"}, Goes(pc)
      PROVE  SearchFits(next)
  <2>1. next = [s EXCEPT !.pc = pc]
    BY <1>1, <1>4 DEF Goes
  <2> QED
    BY <1>2, <2>1, SearchGoesOn
<1>5. ASSUME NEW g, g = Selected(s.q), Serves(g, "answer")
      PROVE  SearchFits(next)
  <2>1. next = [s EXCEPT !.pc = "done", !.graph = g, !.out = "answer"]
    BY <1>1, <1>5 DEF Serves
  <2>2. s.q.seeds \subseteq Object /\ approved \subseteq Chain
    BY <1>2, GraphRequests DEF GraphInv, FactsFit
  <2>3. g.entities \subseteq Object /\ g.links \subseteq GraphLink
    BY <1>2, <1>5, <2>2, SelectedFacts
  <2>4. g = [depth |-> g.depth, entities |-> g.entities, links |-> g.links, chains |-> g.chains,
             memberships |-> g.memberships, types |-> g.types]
    BY <1>5 DEF Selected
  <2>5. GraphFields(g)
    BY <2>3, <2>4 DEF GraphFields
  <2> QED
    BY <1>2, <2>1, <2>5, SearchGoesOn
<1>6. CASE ValidateReferences
  BY <1>1, <1>3, <1>4, <1>6 DEF ValidateReferences
<1>7. CASE CountResult
  BY <1>1, <1>3, <1>4, <1>7 DEF CountResult
<1>8. CASE ReadPayload
  <2>1. \/ Ends("internal") \/ Ends("limit") \/ Serves(Selected(s.q), "answer")
    BY <1>1, <1>8, Zenon DEF ReadPayload
  <2> QED
    BY <1>1, <1>3, <1>5, <2>1
<1> QED
  BY <1>1, <1>6, <1>7, <1>8

LEMMA SeedsAreRead ==
    ASSUME GraphInv, ReadCountries \/ ReadOrganizations
    PROVE  SearchFits(search')
<1>1. PICK s, next : s = search /\ next = search'
  OBVIOUS
<1>2. SearchFits(s) /\ GraphFields(s.graph) /\ s.pc \in {"countries", "organizations"}
      /\ s.out \in {NoName, "refused", "historical", "limit", "internal", "answer"}
  BY <1>1 DEF GraphInv, SearchFits, ReadCountries, ReadOrganizations
<1>3. \/ \E out \in {"historical", "refused"} : Ends(out)
      \/ \E pc \in {"regions", "members"} : Goes(pc)
  BY DEF ReadCountries, ReadOrganizations, Seeds
<1>4. \/ \E out \in {"historical", "refused"} : next = [s EXCEPT !.pc = "done", !.out = out]
      \/ \E pc \in {"regions", "members"} : next = [s EXCEPT !.pc = pc]
  BY <1>1, <1>3 DEF Ends, Goes
<1>5. ASSUME NEW out \in {"historical", "refused"}, next = [s EXCEPT !.pc = "done", !.out = out]
      PROVE  SearchFits(next)
  BY <1>2, <1>5, SearchGoesOn
<1>6. ASSUME NEW pc \in {"regions", "members"}, next = [s EXCEPT !.pc = pc]
      PROVE  SearchFits(next)
  BY <1>2, <1>6, SearchGoesOn
<1> QED
  BY <1>1, <1>4, <1>5, <1>6

\* The seeds and what their links lead to.
LEMMA StarFacts ==
    ASSUME NEW q \in Ask, NEW type, NEW links \in SUBSET GraphLink
    PROVE  GraphFields(Star(q, type, links))
<1>1. PICK shown : shown = IF Asks(q, type, {"outgoing", "both"}) THEN links ELSE {}
  OBVIOUS
<1>2. PICK depth, entities, types : /\ depth = IF shown = {} THEN 0 ELSE 1
                                    /\ entities = q.seeds \cup {l.to : l \in shown}
                                    /\ types = {type}
  OBVIOUS
<1>3. Star(q, type, links) = [NoGraph EXCEPT !.entities = entities, !.links = shown,
                                             !.types = types, !.depth = depth]
  BY <1>1, <1>2 DEF Star
<1>4. Star(q, type, links) = [depth |-> depth, entities |-> entities, links |-> shown, chains |-> {},
                              memberships |-> {}, types |-> types]
  BY <1>3 DEF NoGraph
<1>5. shown \subseteq GraphLink
  BY <1>1
<1>6. \A l \in GraphLink : l.to \in Object
  BY GraphConstants DEF LinkType
<1>7. entities \subseteq Object
  BY <1>2, <1>5, <1>6, GraphRequests
<1> QED
  BY <1>4, <1>5, <1>7 DEF GraphFields

LEMMA StarsAreRead ==
    ASSUME GraphInv, ReadCountryRegions \/ ReadMembers
    PROVE  SearchFits(search')
<1>1. PICK s, next : s = search /\ next = search'
  OBVIOUS
<1>2. SearchFits(s) /\ s.pc \in {"regions", "members"} /\ s.q \in Ask
  BY <1>1 DEF GraphInv, SearchFits, ReadCountryRegions, ReadMembers
<1>3. \E type : \E links \in SUBSET GraphLink :
        LET g == Star(s.q, type, links) IN Serves(g, Verdict(g, s.q))
  <2>1. CASE ReadCountryRegions
    <3>1. PICK links : links = {l \in GraphLink : /\ l.type = "belongs_to_region" /\ l.from \in s.q.seeds
                                   /\ link[l] # Nowhere /\ link[l].created <= s.q.asOf
                                   /\ object[l.to].created <= s.q.asOf}
      OBVIOUS
    <3>2. Serves(Star(s.q, "belongs_to_region", links), Verdict(Star(s.q, "belongs_to_region", links), s.q))
      BY <1>1, <2>1, <3>1, Zenon DEF ReadCountryRegions
    <3>3. links \in SUBSET GraphLink
      BY <3>1
    <3> QED
      BY <3>2, <3>3
  <2>2. CASE ReadMembers
    <3>1. PICK links : links = {l \in GraphLink : /\ l.type = "has_member" /\ l.from \in s.q.seeds
                                   /\ link[l] # Nowhere
                                   /\ l.since <= s.q.asOf /\ s.q.asOf <= l.until}
      OBVIOUS
    <3>2. Serves(Star(s.q, "has_member", links), Verdict(Star(s.q, "has_member", links), s.q))
      BY <1>1, <2>2, <3>1, Zenon DEF ReadMembers
    <3>3. links \in SUBSET GraphLink
      BY <3>1
    <3> QED
      BY <3>2, <3>3
  <2> QED
    BY <2>1, <2>2
<1>4. PICK g, out : GraphFields(g) /\ out = Verdict(g, s.q) /\ Serves(g, out)
  BY <1>2, <1>3, StarFacts
<1>5. out \in {"limit", "internal", "answer"}
  BY <1>4 DEF Verdict
<1>6. next = [s EXCEPT !.pc = "done", !.graph = g, !.out = out]
  BY <1>1, <1>4 DEF Serves
<1>7. SearchFits(next)
  BY ONLY <1>2, <1>4, <1>5, <1>6, SearchGoesOn
<1> QED
  BY <1>1, <1>7

LEMMA GapsAreRead ==
    ASSUME GraphInv, CheckGap \/ ReadCited \/ ReadCitedCountries
    PROVE  SearchFits(search')
<1>1. PICK s, next : s = search /\ next = search'
  OBVIOUS
<1>2. /\ SearchFits(s) /\ GraphFields(s.graph) /\ s.pc \in {"gap", "cited", "cited countries"}
      /\ s.q \in Ask /\ s.out \in {NoName, "refused", "historical", "limit", "internal", "answer"}
  BY <1>1 DEF GraphInv, SearchFits, CheckGap, ReadCited, ReadCitedCountries
<1>3. s.q.seeds \subseteq Object /\ s.q.relations \subseteq GraphLink
  BY <1>2, GraphRequests
<1>4. ASSUME NEW out \in {"historical", "internal"}, Ends(out)
      PROVE  SearchFits(next)
  <2>1. next = [s EXCEPT !.pc = "done", !.out = out]
    BY <1>1, <1>4 DEF Ends
  <2> QED
    BY <1>2, <2>1, SearchGoesOn
<1>5. CASE CheckGap
  <2>1. Ends("historical") \/ Goes("cited")
    BY <1>5, Zenon DEF CheckGap
  <2>2. ASSUME Goes("cited")
        PROVE  SearchFits(next)
    <3>1. next = [s EXCEPT !.pc = "cited"]
      BY <1>1, <2>2 DEF Goes
    <3> QED
      BY <1>2, <3>1, SearchGoesOn
  <2> QED
    BY <1>1, <1>4, <2>1, <2>2
<1>6. CASE ReadCited
  <2>1. PICK links : links = {l \in search.q.relations : l.type \in MappingTypes /\ Current(link[l], search.q)}
    OBVIOUS
  <2>2. PICK ids : ids = (search.q.seeds \cap Walkable) \cup UNION {{l.from, l.to} : l \in links}
    OBVIOUS
  <2>3. PICK entities, types, chains : /\ entities = {o \in ids : CurrentObject(o, search.q)}
                                       /\ types = {l.type : l \in links}
                                       /\ chains = {c \in ids \cap Chain : CurrentChain(c, search.q)}
    OBVIOUS
  <2>4. PICK g : g = [NoGraph EXCEPT !.entities = entities, !.links = links, !.types = types,
                                     !.chains = chains]
    OBVIOUS
  <2>5. search' = [search EXCEPT !.pc = "cited countries", !.graph = g]
    BY <1>6, <2>1, <2>2, <2>3, <2>4 DEF ReadCited
  <2>6. g = [depth |-> 0, entities |-> entities, links |-> links, chains |-> chains,
             memberships |-> {}, types |-> types]
    BY <2>4 DEF NoGraph
  <2>7. links \subseteq GraphLink
    BY <1>1, <1>3, <2>1
  <2>8. \A l \in GraphLink : l.from \in Object /\ l.to \in Object
    BY GraphConstants DEF LinkType
  <2>9. entities \subseteq Object
    BY <1>1, <1>3, <2>2, <2>3, <2>7, <2>8
  <2>10. GraphFields(g)
    BY <2>6, <2>7, <2>9 DEF GraphFields
  <2>11. next = [s EXCEPT !.pc = "cited countries", !.graph = g]
    BY <1>1, <2>5
  <2>12. SearchFits(next)
    BY ONLY <1>2, <2>10, <2>11, SearchGoesOn
  <2> QED
    BY <1>1, <2>12
<1>7. CASE ReadCitedCountries
  <2>1. PICK found : found = {c \in s.q.seeds \cap Country : object[c] # Nowhere /\ object[c].created <= s.q.asOf}
    OBVIOUS
  <2>2. PICK g : g = [s.graph EXCEPT !.entities = @ \cup found]
    OBVIOUS
  <2>3. Ends("historical") \/ Ends("internal") \/ Serves(g, "answer")
    BY <1>1, <1>7, <2>1, <2>2, Zenon DEF ReadCitedCountries
  <2>4. PICK old : old = s.graph
    OBVIOUS
  <2>5. g = [depth |-> old.depth, entities |-> old.entities \cup found, links |-> old.links,
             chains |-> old.chains, memberships |-> old.memberships, types |-> old.types]
    BY <1>2, <2>2, <2>4 DEF GraphFields
  <2>6. GraphFields(g)
    BY <1>2, <1>3, <2>1, <2>4, <2>5 DEF GraphFields
  <2>7. ASSUME Serves(g, "answer")
        PROVE  SearchFits(next)
    <3>1. next = [s EXCEPT !.pc = "done", !.graph = g, !.out = "answer"]
      BY <1>1, <2>7 DEF Serves
    <3> QED
      BY <1>2, <2>6, <3>1, SearchGoesOn
  <2> QED
    BY <1>1, <1>4, <2>3, <2>7
<1> QED
  BY <1>5, <1>6, <1>7

\* Whoever writes stamps the fact with the present.
LEMMA StampFacts ==
    /\ Nowhere \in Stamp /\ Past(Nowhere)
    /\ now \in Time => New \in Stamp /\ New # Nowhere /\ Past(New)
    /\ \A s \in Stamp : now \in Time /\ s # Nowhere /\ Past(s) =>
         [s EXCEPT !.updated = now] \in Stamp /\ Past([s EXCEPT !.updated = now])
<1>1. Nowhere \in Stamp /\ Past(Nowhere)
  BY DEF Stamp, Past
<1>2. LastTime \in Nat
  BY GraphConstants
<1>3. ASSUME now \in Time
      PROVE  New \in Stamp /\ New # Nowhere /\ Past(New)
  <2>1. PICK t : t = now
    OBVIOUS
  <2>2. t \in Nat /\ t \in Time
    BY <1>2, <1>3, <2>1 DEF Time
  <2>3. New = [created |-> t, updated |-> t]
    BY <2>1 DEF New
  <2>4. New \in Stamp /\ New # Nowhere
    BY <2>2, <2>3 DEF Stamp, Nowhere
  <2> QED
    BY <2>1, <2>2, <2>3, <2>4 DEF Past
<1>4. ASSUME NEW s \in Stamp, now \in Time, s # Nowhere, Past(s)
      PROVE  [s EXCEPT !.updated = now] \in Stamp /\ Past([s EXCEPT !.updated = now])
  <2>1. PICK t : t = now
    OBVIOUS
  <2>2. s \in [created : Time, updated : Time] /\ s.created <= t /\ t \in Time
    BY <1>4, <2>1 DEF Stamp, Past
  <2>3. PICK next : next = [s EXCEPT !.updated = t]
    OBVIOUS
  <2>4. next = [created |-> s.created, updated |-> t]
    BY <2>2, <2>3
  <2>5. next.created = s.created /\ next.updated = t
    BY <2>4
  <2>6. s.created \in Nat /\ t \in Nat
    BY <1>2, <2>2 DEF Time
  <2>7. next \in Stamp
    BY <2>2, <2>4, <2>5 DEF Stamp
  <2>8. Past(next)
    BY <2>1, <2>2, <2>5, <2>6 DEF Past
  <2> QED
    BY <2>1, <2>3, <2>7, <2>8
<1> QED
  BY <1>1, <1>3, <1>4

\* One write beside the search.
LEMMA FactsAreWritten ==
    ASSUME FactsFit, Write,
           \/ \E o \in Object : CreateObject(o) \/ UpdateObject(o)
           \/ \E home \in Country, regions \in SUBSET Region : ReplaceCountryRegions(home, regions)
           \/ \E l \in GraphLink : ChangeMember(l) \/ ImportLink(l)
    PROVE  FactsFit'
<1>1. now' = now /\ changes' \in 0 .. MaxChanges
  BY GraphConstants DEF Write, FactsFit
<1>2. \A s : Past(s)' <=> Past(s)
  BY <1>1 DEF Past
<1>3. now \in Time
  BY DEF FactsFit
<1>4. ASSUME \/ object' = object
             \/ \E o \in Object, s \in Stamp : Past(s) /\ object' = [object EXCEPT ![o] = s],
             \/ link' = link
             \/ link' \in [GraphLink -> Stamp] /\ \A l \in GraphLink : Past(link'[l]),
             approved' \subseteq Chain
      PROVE  FactsFit'
  <2>1. object' \in [Object -> Stamp] /\ \A o \in Object : Past(object'[o])
    BY <1>4 DEF FactsFit
  <2>2. link' \in [GraphLink -> Stamp] /\ \A l \in GraphLink : Past(link'[l])
    BY <1>4 DEF FactsFit
  <2>3. \A o \in Object : Past(object[o])'
    BY <1>1, <2>1 DEF Past
  <2>4. \A l \in GraphLink : Past(link[l])'
    BY <1>1, <2>2 DEF Past
  <2> QED
    BY <1>1, <1>3, <1>4, <2>1, <2>2, <2>3, <2>4 DEF FactsFit
<1>5. ASSUME NEW o \in Object, CreateObject(o)
      PROVE  FactsFit'
  <2>1. object' = [object EXCEPT ![o] = New] /\ link' = link /\ approved' = approved
    BY <1>5 DEF CreateObject
  <2>2. New \in Stamp /\ Past(New) /\ approved \subseteq Chain
    BY <1>3, StampFacts DEF FactsFit
  <2> QED
    BY <1>4, <2>1, <2>2
<1>6. ASSUME NEW o \in Object, UpdateObject(o)
      PROVE  FactsFit'
  <2>1. PICK s : s = [object[o] EXCEPT !.updated = now]
    OBVIOUS
  <2>2. object[o] \in Stamp /\ Past(object[o]) /\ object[o] # Nowhere
    BY <1>6 DEF FactsFit, UpdateObject
  <2>3. s \in Stamp /\ Past(s)
    BY <1>3, <2>1, <2>2, StampFacts
  <2>4. object' = [object EXCEPT ![o] = s]
    <3>1. object' = [object EXCEPT ![o].updated = now]
      BY <1>6 DEF UpdateObject
    <3> QED
      BY <2>1, <3>1
  <2>5. link' = link /\ approved' \subseteq Chain
    BY <1>6 DEF UpdateObject, FactsFit
  <2> QED
    BY <1>4, <2>3, <2>4, <2>5
<1>7. ASSUME NEW l \in GraphLink, NEW s \in Stamp, Past(s), link' = [link EXCEPT ![l] = s]
      PROVE  link' \in [GraphLink -> Stamp] /\ \A m \in GraphLink : Past(link'[m])
  BY <1>7 DEF FactsFit
<1>8. ASSUME NEW home, NEW regions, ReplaceCountryRegions(home, regions)
      PROVE  FactsFit'
  <2>1. link' = [l \in GraphLink |->
                  IF l.type # "belongs_to_region" \/ l.from # home THEN link[l]
                  ELSE IF l.to \notin regions THEN Nowhere
                  ELSE IF link[l] = Nowhere THEN New ELSE link[l]]
    BY <1>8 DEF ReplaceCountryRegions
  <2>2. object' = object /\ approved' \subseteq Chain
    BY <1>8 DEF ReplaceCountryRegions, FactsFit
  <2>3. \A l \in GraphLink : link'[l] \in {link[l], Nowhere, New}
    BY <2>1
  <2>4. \A l \in GraphLink : link[l] \in Stamp /\ Past(link[l])
    BY DEF FactsFit
  <2>5. \A l \in GraphLink : link'[l] \in Stamp /\ Past(link'[l])
    BY <1>3, <2>3, <2>4, StampFacts
  <2>6. link' \in [GraphLink -> Stamp]
    BY <2>1, <2>5
  <2> QED
    BY <1>4, <2>2, <2>5, <2>6
<1>9. ASSUME NEW l \in GraphLink, ChangeMember(l)
      PROVE  FactsFit'
  <2>1. PICK s : s = IF link[l] = Nowhere THEN New ELSE Nowhere
    OBVIOUS
  <2>2. link' = [link EXCEPT ![l] = s] /\ object' = object /\ approved' \subseteq Chain
    BY <1>9, <2>1 DEF ChangeMember, FactsFit
  <2>3. s \in Stamp /\ Past(s)
    BY <1>3, <2>1, StampFacts
  <2> QED
    BY <1>4, <1>7, <2>2, <2>3
<1>10. ASSUME NEW l \in GraphLink, ImportLink(l)
       PROVE  FactsFit'
  <2>1. PICK s : s = IF link[l] = Nowhere THEN New ELSE [link[l] EXCEPT !.updated = now]
    OBVIOUS
  <2>2. link' = [link EXCEPT ![l] = s] /\ object' = object /\ approved' \subseteq Chain
    BY <1>10, <2>1 DEF ImportLink, FactsFit
  <2>3. link[l] \in Stamp /\ Past(link[l])
    BY DEF FactsFit
  <2>4. s \in Stamp /\ Past(s)
    BY <1>3, <2>1, <2>3, StampFacts
  <2> QED
    BY <1>4, <1>7, <2>2, <2>4
<1> QED
  BY <1>5, <1>6, <1>8, <1>9, <1>10

LEMMA GraphSteps == GraphInv /\ [GraphNext]_graphVars => GraphInv'
<1> SUFFICES ASSUME GraphInv, [GraphNext]_graphVars
             PROVE  GraphInv'
  OBVIOUS
<1>1. FactsFit /\ SearchFits(search)
  BY DEF GraphInv
<1>2. ASSUME NEW q \in Ask, SearchRequest(q)
      PROVE  GraphInv'
  BY <1>1, <1>2, FactsStay, SearchIsAsked DEF GraphInv, SearchRequest
<1>3. CASE SearchStep
  <2>1. Reads
    BY <1>3, Zenon DEF SearchStep, ValidateReferences, CountResult, ReadPayload, ReadCountries,
       ReadCountryRegions, ReadOrganizations, ReadMembers, CheckGap, ReadCited, ReadCitedCountries
  <2> QED
    BY <1>1, <1>3, <2>1, FactsStay, ChainsAreRead, SeedsAreRead, StarsAreRead, GapsAreRead
    DEF SearchStep, GraphInv
<1>4. ASSUME Write, FactsFit'
      PROVE  GraphInv'
  BY <1>1, <1>4 DEF Write, GraphInv
<1>5. ASSUME \/ \E o \in Object : CreateObject(o) \/ UpdateObject(o)
             \/ \E home \in Country, regions \in SUBSET Region : ReplaceCountryRegions(home, regions)
             \/ \E l \in GraphLink : ChangeMember(l) \/ ImportLink(l)
      PROVE  GraphInv'
  <2>1. Write
    BY <1>5, Zenon DEF CreateObject, UpdateObject, ReplaceCountryRegions, ChangeMember, ImportLink
  <2> QED
    BY <1>1, <1>4, <1>5, <2>1, FactsAreWritten
<1>6. CASE GraphTick
  <2>1. now \in Nat /\ now' = now + 1 /\ now' \in Time
    BY <1>1, <1>6, GraphConstants DEF GraphTick, FactsFit, Time
  <2>2. \A s \in Stamp : Past(s) => Past(s)'
    <3>1. TAKE s \in Stamp
    <3>2. s # Nowhere => s.created \in Nat /\ s.updated \in Nat
      BY GraphConstants DEF Stamp, Time
    <3> QED
      BY <2>1, <3>2 DEF Past
  <2>3. object' = object /\ link' = link /\ approved' = approved /\ changes' = changes /\ search' = search
    BY <1>6 DEF GraphTick
  <2>4. \A o \in Object : Past(object[o])'
    BY <1>1, <2>1, <2>2, <2>3 DEF FactsFit, Past
  <2>5. \A l \in GraphLink : Past(link[l])'
    BY <1>1, <2>1, <2>2, <2>3 DEF FactsFit, Past
  <2> QED
    BY <1>1, <2>1, <2>3, <2>4, <2>5 DEF GraphInv, FactsFit
<1>7. CASE UNCHANGED graphVars
  BY <1>1, <1>7 DEF graphVars, GraphInv, FactsFit, Past
<1> QED
  BY <1>2, <1>3, <1>5, <1>6, <1>7 DEF GraphNext

LEMMA GraphStarts == GraphInit => GraphInv
<1> SUFFICES ASSUME GraphInit
             PROVE  GraphInv
  OBVIOUS
<1>1. now = 0 /\ 0 \in Time /\ changes \in 0 .. MaxChanges /\ approved \subseteq Chain
  BY GraphConstants DEF GraphInit, Time
<1>2. Early \in Stamp /\ Past(Early) /\ Nowhere \in Stamp /\ Past(Nowhere)
  BY <1>1 DEF Stamp, Past, Early, Nowhere, Time
<1>3. object \in [Object -> Stamp] /\ \A o \in Object : Past(object[o])
  BY <1>2 DEF GraphInit
<1>4. link \in [GraphLink -> Stamp] /\ \A l \in GraphLink : Past(link[l])
  BY <1>2 DEF GraphInit
<1>5. search = [pc |-> "idle", q |-> NoName, graph |-> NoGraph, out |-> NoName]
  BY DEF GraphInit, Idle
<1>6. GraphFields(NoGraph)
  BY DEF NoGraph, GraphFields
<1> QED
  BY <1>1, <1>3, <1>4, <1>5, <1>6 DEF GraphInv, FactsFit, SearchFits

LEMMA GraphInvTyped == GraphInv => GraphTypeOK
BY DEF GraphInv, FactsFit, SearchFits, GraphFields, GraphTypeOK

\* The research graph: whatever is written beside a search, facts keep times in
\* order and an answer is made of objects and links, however the walk is cut.
THEOREM GraphTyped == GraphSpec => []GraphTypeOK
<1> QED
  BY GraphStarts, GraphSteps, GraphInvTyped, PTL DEF GraphSpec

\* The verdict on a search whose seeds and chain are there, whichever statement reaches it.
Whole(s, next) ==
    LET g == Subgraph(s.q)
        fits == WithinBudget(g, s.q)
    IN  /\ next.out = IF fits THEN "answer" ELSE "limit"
        /\ fits => /\ next.graph.entities = g.entities
                   /\ next.graph.links = g.links

LEMMA AnswersFit ==
    ASSUME GraphInv, CountResult \/ ReadPayload, Ready(search.q), search'.pc = "done"
    PROVE  Whole(search, search')
<1>1. PICK s, next : s = search /\ next = search'
  OBVIOUS
<1>2. PICK q : q = s.q
  OBVIOUS
<1>3. SearchFits(s) /\ s.pc \in {"count", "payload"} /\ ValidRequest(q) /\ Ready(q)
      /\ approved \subseteq Chain /\ next.pc = "done"
  BY <1>1, <1>2 DEF GraphInv, FactsFit, SearchFits, CountResult, ReadPayload
<1>4. q.depth \in Nat /\ q.depth # 0 /\ q.nodes \in Nat /\ q.edges \in Nat
  BY <1>3, GraphConstants DEF ValidRequest
<1>5. PICK g, sub : g = Selected(q) /\ sub = Subgraph(q)
  OBVIOUS
<1>6. Closed(g, q) /\ ReferencesResolve(g)
  BY <1>3, <1>4, <1>5, SelectedIsClosed
<1>7. /\ WithinBudget(g, q) <=> WithinBudget(sub, q)
      /\ WithinBudget(sub, q) => g.entities = sub.entities /\ g.links = sub.links
  BY ONLY <1>3, <1>4, <1>5, SelectedIsWhole
<1>8. s = [pc |-> s.pc, q |-> s.q, graph |-> s.graph, out |-> s.out]
  BY <1>3 DEF SearchFits
<1>9. \/ ~WithinBudget(g, q) /\ next = [s EXCEPT !.pc = "done", !.out = "limit"]
      \/ WithinBudget(g, q) /\ next = [s EXCEPT !.pc = "done", !.graph = g, !.out = "answer"]
  <2>1. CASE CountResult
    <3>1. IF WithinBudget(g, q) THEN next = [s EXCEPT !.pc = "payload"]
                                ELSE next = [s EXCEPT !.pc = "done", !.out = "limit"]
      BY <1>1, <1>2, <1>5, <2>1, Zenon DEF CountResult, Goes, Ends
    <3>2. next # [s EXCEPT !.pc = "payload"]
      BY <1>3, <1>8
    <3> QED
      BY <3>1, <3>2
  <2>2. CASE ReadPayload
    <3>1. IF ~Closed(g, q) \/ ~ReferencesResolve(g) THEN next = [s EXCEPT !.pc = "done", !.out = "internal"]
          ELSE IF ~WithinBudget(g, q) THEN next = [s EXCEPT !.pc = "done", !.out = "limit"]
          ELSE next = [s EXCEPT !.pc = "done", !.graph = g, !.out = "answer"]
      BY <1>1, <1>2, <1>5, <2>2, Zenon DEF ReadPayload, Ends, Serves
    <3> QED
      BY <1>6, <3>1
  <2> QED
    BY <2>1, <2>2
<1>10. CASE ~WithinBudget(g, q)
  <2>1. next.out = "limit"
    BY <1>8, <1>9, <1>10
  <2> QED
    BY <1>1, <1>2, <1>5, <1>7, <1>10, <2>1, Zenon DEF Whole
<1>11. CASE WithinBudget(g, q)
  <2>1. next.out = "answer" /\ next.graph = g
    BY <1>8, <1>9, <1>11
  <2> QED
    BY <1>1, <1>2, <1>5, <1>7, <1>11, <2>1, Zenon DEF Whole
<1> QED
  BY <1>10, <1>11

\* No other step ends a search at these statements.
LEMMA OnlyStatementsAnswer ==
    ASSUME GraphNext, search.pc \in {"count", "payload"}, search'.pc = "done"
    PROVE  CountResult \/ ReadPayload
<1>1. CASE search' = search
  BY <1>1
<1>2. ASSUME NEW q \in Ask, SearchRequest(q)
      PROVE  FALSE
  BY <1>2, Zenon DEF SearchRequest
<1>3. CASE SearchStep
  BY <1>3, Zenon DEF SearchStep, ValidateReferences, ReadCountries, ReadCountryRegions,
     ReadOrganizations, ReadMembers, CheckGap, ReadCited, ReadCitedCountries
<1>4. CASE \E o \in Object : CreateObject(o) \/ UpdateObject(o)
  BY <1>1, <1>4, Zenon DEF CreateObject, UpdateObject, Write
<1>5. CASE \E o \in Country, regions \in SUBSET Region : ReplaceCountryRegions(o, regions)
  BY <1>1, <1>5, Zenon DEF ReplaceCountryRegions, Write
<1>6. CASE \E l \in GraphLink : ChangeMember(l) \/ ImportLink(l)
  BY <1>1, <1>6, Zenon DEF ChangeMember, ImportLink, Write
<1>7. CASE GraphTick
  BY <1>1, <1>7, Zenon DEF GraphTick
<1> QED
  BY <1>2, <1>3, <1>4, <1>5, <1>6, <1>7 DEF GraphNext

LEMMA StepsAnswerWhole == GraphInv /\ [GraphNext]_graphVars => [AnswerIsWhole]_graphVars
<1> SUFFICES ASSUME GraphInv, [GraphNext]_graphVars, graphVars' # graphVars
             PROVE  AnswerIsWhole
  BY Zenon
<1>1. GraphNext
  BY Zenon
<1> SUFFICES ASSUME search.pc \in {"count", "payload"}, search'.pc = "done", Ready(search.q)
             PROVE  Whole(search, search')
  BY Zenon DEF AnswerIsWhole, Ready, Whole
<1>2. CountResult \/ ReadPayload
  BY <1>1, OnlyStatementsAnswer
<1> QED
  BY <1>2, AnswersFit

\* The research graph: however large it is and however its writers change it
\* beside a search, a search whose seeds and chain are still there is answered
\* with all that the asked paths reach, or refused because that is more than its
\* budgets: the walk that is cut at the budget is never mistaken for a whole one.
THEOREM AnswersStayWhole == GraphSpec => AnswersAreWhole
<1>1. GraphInit => GraphInv
  BY GraphStarts
<1>2. GraphInv /\ [GraphNext]_graphVars => GraphInv'
  BY GraphSteps
<1>3. GraphInv /\ [GraphNext]_graphVars => [AnswerIsWhole]_graphVars
  BY StepsAnswerWhole
<1> QED
  BY <1>1, <1>2, <1>3, PTL DEF GraphSpec, AnswersAreWhole

-----------------------------------------------------------------------------
(* All parts together.  A behaviour exercises one part; the others rest, and *)
(* a part that rests keeps its invariant like one that takes its step.       *)

EntitiesInv ==
    /\ active \in Parts
    /\ GraphInv /\ RegistryInv /\ ListingInv /\ CompanyInv /\ ReaderInv /\ StoryInv /\ PlaceInv

LEMMA EntitiesStart == EntitiesInit => EntitiesInv
BY GraphStarts, RegistryAtFirst, ListingAtFirst, CompanyInvInit, ReaderInvInit, StoryStarts,
   PlaceStarts DEF EntitiesInit, EntitiesInv

\* Whoever has the step, a part takes a step of its own or rests.
LEMMA PartsStep ==
    ASSUME [EntitiesNext]_entitiesVars
    PROVE  /\ active' = active
           /\ [GraphNext]_graphVars /\ [RegistryNext]_registryVars /\ [CompanyNext]_companyVars
           /\ [StoryNext]_storyVars /\ [PlaceNext]_placeVars
<1>1. CASE UNCHANGED entitiesVars
  BY <1>1 DEF entitiesVars
<1>2. CASE Only("graph") /\ GraphNext
  BY <1>2 DEF Only
<1>3. CASE Only("industries") /\ (IndustryNext \/ ReadPage)
  BY <1>3 DEF Only, RegistryNext
<1>4. CASE Only("plain") /\ (PlainNext \/ ReadPage)
  BY <1>4 DEF Only, RegistryNext
<1>5. CASE Only("company") /\ CompanyNext
  BY <1>5 DEF Only
<1>6. CASE Only("storyline") /\ StoryNext
  BY <1>6 DEF Only
<1>7. CASE Only("place") /\ PlaceNext
  BY <1>7 DEF Only
<1> QED
  BY <1>1, <1>2, <1>3, <1>4, <1>5, <1>6, <1>7 DEF EntitiesNext

LEMMA EntitiesStep == EntitiesInv /\ [EntitiesNext]_entitiesVars => EntitiesInv'
<1> SUFFICES ASSUME EntitiesInv, [EntitiesNext]_entitiesVars
             PROVE  EntitiesInv'
  OBVIOUS
<1>1. /\ active' = active
      /\ [GraphNext]_graphVars /\ [RegistryNext]_registryVars /\ [CompanyNext]_companyVars
      /\ [StoryNext]_storyVars /\ [PlaceNext]_placeVars
  BY PartsStep
<1>2. GraphInv'
  BY <1>1, GraphSteps, Zenon DEF EntitiesInv
<1>3. RegistryInv' /\ ListingInv'
  BY <1>1, RegistryStep, ListingStep, Zenon DEF EntitiesInv
<1>4. CompanyInv' /\ ReaderInv'
  BY <1>1, CompanyInvStep, ReaderInvStep, Zenon DEF EntitiesInv
<1>5. StoryInv'
  BY <1>1, StorySteps, Zenon DEF EntitiesInv
<1>6. PlaceInv'
  BY <1>1, PlaceSteps, Zenon DEF EntitiesInv
<1> QED
  BY <1>1, <1>2, <1>3, <1>4, <1>5, <1>6 DEF EntitiesInv

LEMMA EntitiesInvariant == EntitiesSpec => []EntitiesInv
BY EntitiesStart, EntitiesStep, PTL DEF EntitiesSpec

LEMMA EntitiesInvConsistent == EntitiesInv => EntitiesAreConsistent
<1> SUFFICES ASSUME EntitiesInv
             PROVE  EntitiesAreConsistent
  OBVIOUS
<1>1. GraphTypeOK
  BY GraphInvTyped DEF EntitiesInv
<1>2. EntityTypeOK /\ HierarchyIsConsistent /\ ListingIsExact /\ OnlyFamiliesDeadlock
  BY RegistryInvTyped, RegistryInvHierarchy, ListingInvExact, RegistryInvDeadlocks DEF EntitiesInv
<1>3. CompanyTypeOK /\ CompaniesAreConsistent /\ ConflictsAreLinks /\ OnlyCatalogsDeadlock
  BY CompanyInvTyped, CompanyInvConsistent, CompanyInvRefusals, CompanyInvDeadlocks DEF EntitiesInv
<1>4. StoryTypeOK /\ StorylinesStayReadable /\ ReplayChangesNothing /\ OnlyRenamesDeadlock
  BY StoryInvTyped, StoryInvReadable, StoryInvReplays, StoryInvRenames DEF EntitiesInv
<1>5. PlaceTypeOK /\ PlacesAreConsistent /\ OnlyReleasesDeadlock
  BY PlaceInvTyped, PlaceInvConsistent, DeadlocksNeedARelease DEF EntitiesInv
<1>6. active \in Parts
  BY DEF EntitiesInv
<1> QED
  BY <1>1, <1>2, <1>3, <1>4, <1>5, <1>6, PartNames, Zenon DEF EntitiesAreConsistent

\* Whatever operators and releases write at once, however many industries,
\* companies, storylines, places and calls there are: every industry is found
\* under its parent, every stored entity can be read, a listing shows what stays
\* where it is once, and calls wait for each other only where they are about one
\* family of industries, a catalogue, two names or the rows of a release.
THEOREM EntitiesStayConsistent == EntitiesSpec => []EntitiesAreConsistent
BY EntitiesInvariant, EntitiesInvConsistent, PTL

\* Beside all other entities too, the pages that a client has followed to the
\* end are the companies and links of one moment.
THEOREM SnapshotsAmongEntities == EntitiesSpec => []ProjectionIsOneSnapshot
<1>1. EntitiesInv => ProjectionIsOneSnapshot
  BY ReaderInvShows DEF EntitiesInv
<1> QED
  BY <1>1, EntitiesInvariant, PTL

\* Beside all other entities too, a call for a storyline or its catalogue that
\* is done has written all it was asked to and nothing else.
THEOREM StorylinesWholeAmongEntities == EntitiesSpec => StorylineWritesAreWhole
<1>1. EntitiesInv /\ [EntitiesNext]_entitiesVars =>
        [\A c \in StoryCalls :
           storyCall[c].pc # "done" /\ storyCall'[c].pc = "done" /\ storyCall'[c].out = "done" =>
             WrittenWhole(c)]_storyVars
  <2> SUFFICES ASSUME EntitiesInv, [EntitiesNext]_entitiesVars
               PROVE  [\A c \in StoryCalls :
                         storyCall[c].pc # "done" /\ storyCall'[c].pc = "done" /\ storyCall'[c].out = "done" =>
                           WrittenWhole(c)]_storyVars
    OBVIOUS
  <2>1. StoryInv /\ [StoryNext]_storyVars
    BY PartsStep, Zenon DEF EntitiesInv
  <2> QED
    BY <2>1, StoryStepsWhole, Zenon
<1> QED
  BY <1>1, EntitiesInvariant, PTL DEF EntitiesSpec, StorylineWritesAreWhole
\* Beside all other entities too, a search of the research graph is answered
\* with all it asked for or refused for its budgets.
THEOREM AnswersWholeAmongEntities == EntitiesSpec => AnswersAreWhole
<1>1. EntitiesInv /\ [EntitiesNext]_entitiesVars => [AnswerIsWhole]_graphVars
  <2> SUFFICES ASSUME EntitiesInv, [EntitiesNext]_entitiesVars
               PROVE  [AnswerIsWhole]_graphVars
    OBVIOUS
  <2>1. GraphInv /\ [GraphNext]_graphVars
    BY PartsStep, Zenon DEF EntitiesInv
  <2> QED
    BY <2>1, StepsAnswerWhole, Zenon
<1> QED
  BY <1>1, EntitiesInvariant, PTL DEF EntitiesSpec, AnswersAreWhole
=============================================================================
