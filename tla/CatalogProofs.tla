--------------------------- MODULE CatalogProofs ---------------------------
(***************************************************************************)
(* Theorems about the catalogues of the Data Service that are published as *)
(* a whole and edited row by row: companies (CompanyCatalog), regions,     *)
(* countries and organizations (PlaceCatalog) and storylines               *)
(* (StorylineCatalog), for any rows, releases and calls in progress.       *)
(*                                                                         *)
(* Each has one invariant with the same argument: what a call has locked   *)
(* nobody else has, and what it has read under a lock is still so when it  *)
(* writes.  CompanyInv says it of locks of tables, PlaceInv of the rows    *)
(* that links refer to, StoryInv of a publication that goes through its    *)
(* file row by row.  ReaderInv is about the projection of the companies:   *)
(* what was read so far are the first companies of one snapshot.           *)
(***************************************************************************)
EXTENDS CompanyCatalog, PlaceCatalog, StorylineCatalog, FiniteSetTheorems,
        WellFoundedInduction, TLAPS

-----------------------------------------------------------------------------
(* Orders: least numbers and ranks *)

LEMMA LeastOf ==
    ASSUME NEW T, T \subseteq Nat, T # {}
    PROVE  \E n \in T : \A m \in T : n <= m
<1>1. \E n \in T : \A m \in T : <<m, n>> \notin OpToRel(<, Nat)
  BY NatLessThanWellFounded, WFMin
<1>2. PICK n \in T : \A m \in T : <<m, n>> \notin OpToRel(<, Nat)
  BY <1>1
<1>3. ASSUME NEW m \in T
      PROVE  n <= m
  <2>1. n \in Nat /\ m \in Nat
    OBVIOUS
  <2>2. ~(m < n)
    BY <1>2, <2>1 DEF OpToRel
  <2> QED
    BY <2>1, <2>2
<1> QED
  BY <1>3

\* A set of pairs that orders a set strictly.
Orders(R, S) ==
    /\ \A x \in S : <<x, x>> \notin R
    /\ \A x, y, z \in S : <<x, y>> \in R /\ <<y, z>> \in R => <<x, z>> \in R
    /\ \A x, y \in S : x # y => <<x, y>> \in R \/ <<y, x>> \in R

Rank(R, S, x) == Cardinality({y \in S : <<y, x>> \in R}) + 1

LEMMA RanksFollow ==
    ASSUME NEW S, IsFiniteSet(S), NEW R, Orders(R, S), NEW x \in S, NEW y \in S
    PROVE  /\ Rank(R, S, x) \in 1 .. Cardinality(S)
           /\ <<x, y>> \in R => Rank(R, S, x) < Rank(R, S, y)
<1> DEFINE Below(z) == {w \in S : <<w, z>> \in R}
<1>1. \A z \in S : IsFiniteSet(Below(z)) /\ Cardinality(Below(z)) \in Nat
  <2>1. TAKE z \in S
  <2>2. Below(z) \in SUBSET S
    OBVIOUS
  <2> QED
    BY <2>2, FS_Subset, FS_CardinalityType
<1>2. Cardinality(S) \in Nat
  BY FS_CardinalityType
<1>3. Cardinality(Below(x)) < Cardinality(S)
  <2>1. Below(x) \in SUBSET S /\ x \notin Below(x) /\ Below(x) # S
    BY DEF Orders
  <2>2. Cardinality(Below(x)) <= Cardinality(S) /\ Cardinality(Below(x)) # Cardinality(S)
    BY <1>2, <2>1, FS_Subset
  <2> QED
    BY <1>1, <1>2, <2>2
<1>4. ASSUME <<x, y>> \in R
      PROVE  Cardinality(Below(x)) < Cardinality(Below(y))
  <2>1. Below(x) \in SUBSET Below(y) /\ x \in Below(y) /\ x \notin Below(x)
    BY <1>4 DEF Orders
  <2>2. Cardinality(Below(x)) <= Cardinality(Below(y)) /\ Cardinality(Below(x)) # Cardinality(Below(y))
    BY <1>1, <2>1, FS_Subset
  <2> QED
    BY <1>1, <2>2
<1>5. Rank(R, S, x) = Cardinality(Below(x)) + 1 /\ Rank(R, S, y) = Cardinality(Below(y)) + 1
  BY DEF Rank
<1>6. Cardinality(Below(x)) \in Nat /\ Cardinality(Below(y)) \in Nat
  BY <1>1
<1> HIDE DEF Below
<1> QED
  BY <1>2, <1>3, <1>4, <1>5, <1>6

\* Every rank is that of one element.
LEMMA RanksAreTaken ==
    ASSUME NEW S, IsFiniteSet(S), NEW R, Orders(R, S), NEW n \in 1 .. Cardinality(S)
    PROVE  \E x \in S : Rank(R, S, x) = n /\ \A y \in S : Rank(R, S, y) = n => y = x
<1> DEFINE ranks == [x \in S |-> Rank(R, S, x)]
           count == Cardinality(S)
<1>1. count \in Nat
  BY FS_CardinalityType
<1>2. ranks \in [S -> 1 .. count]
  BY RanksFollow
<1>3. ASSUME NEW x \in S, NEW y \in S, Rank(R, S, x) = Rank(R, S, y)
      PROVE  x = y
  <2>1. Rank(R, S, x) \in Nat
    <3>1. Rank(R, S, x) \in 1 .. count
      BY RanksFollow
    <3> QED
      BY <1>1, <3>1
  <2>2. <<x, y>> \notin R /\ <<y, x>> \notin R
    BY <1>3, <2>1, RanksFollow
  <2> QED
    BY <2>2 DEF Orders
<1>4. ranks \in Injection(S, 1 .. count)
  BY <1>2, <1>3 DEF Injection, IsInjective
<1>5. IsFiniteSet(1 .. count) /\ Cardinality(1 .. count) = count
  BY <1>1, FS_Interval
<1>6. ranks \in Surjection(S, 1 .. count)
  BY <1>4, <1>5, FS_Injection
<1>7. PICK x \in S : ranks[x] = n
  BY <1>6 DEF Surjection
<1> QED
  BY <1>3, <1>7

-----------------------------------------------------------------------------
(* The company projection: places and pages *)

\* The place of a company among others, by the order of the codes.
Place(codes, k) == Cardinality({j \in codes : CodeRank[j] <= CodeRank[k]})

\* The company at a place.
Nth(codes, n) == CHOOSE k \in codes : Place(codes, k) = n

\* The companies behind one, or all of them.
Behind(codes, after) == {k \in codes : CodeRank[k] > after}

LEMMA CompanyConstantFacts ==
    /\ IsFiniteSet(CompanyCodes)
    /\ \A k \in CompanyCodes : CodeRank[k] \in Nat /\ CodeRank[k] > 0
    /\ \A i, j \in CompanyCodes : CodeRank[i] = CodeRank[j] => i = j
<1>1. CodeRank \in [CompanyCodes -> Nat \ {0}]
  BY CompanyConstants
<1>2. \A k \in CompanyCodes : CodeRank[k] \in Nat \ {0}
  BY <1>1
<1> QED
  BY <1>2, CompanyConstants

LEMMA SomeCodes ==
    ASSUME NEW codes \in SUBSET CompanyCodes
    PROVE  IsFiniteSet(codes) /\ Cardinality(codes) \in Nat
BY CompanyConstantFacts, FS_Subset, FS_CardinalityType

\* Who has the smaller code is before.
ByCode(codes) == {p \in codes \X codes : CodeRank[p[1]] < CodeRank[p[2]]}

LEMMA PlacesAreRanks ==
    ASSUME NEW codes \in SUBSET CompanyCodes
    PROVE  /\ IsFiniteSet(codes) /\ Orders(ByCode(codes), codes)
           /\ \A k \in codes : Place(codes, k) = Rank(ByCode(codes), codes, k)
<1>1. \A k \in codes : CodeRank[k] \in Nat
  BY CompanyConstantFacts
<1>2. \A j, k \in codes : <<j, k>> \in ByCode(codes) <=> CodeRank[j] < CodeRank[k]
  BY DEF ByCode
<1>3. Orders(ByCode(codes), codes)
  BY <1>1, <1>2, CompanyConstantFacts DEF Orders
<1>4. IsFiniteSet(codes)
  BY SomeCodes
<1>5. ASSUME NEW k \in codes
      PROVE  Place(codes, k) = Rank(ByCode(codes), codes, k)
  <2>1. PICK below : below = {j \in codes : <<j, k>> \in ByCode(codes)}
    OBVIOUS
  <2>2. {j \in codes : CodeRank[j] <= CodeRank[k]} = below \cup {k} /\ k \notin below
    BY <1>1, <1>2, <2>1, CompanyConstantFacts
  <2>3. IsFiniteSet(below)
    BY <1>4, <2>1, FS_Subset
  <2>4. Cardinality(below \cup {k}) = Cardinality(below) + 1
    BY <2>2, <2>3, FS_AddElement
  <2> QED
    BY <2>1, <2>2, <2>4 DEF Place, Rank
<1> QED
  BY <1>3, <1>4, <1>5

\* Places run from 1 to the number of companies and follow the codes.
LEMMA CodePlaces ==
    ASSUME NEW codes \in SUBSET CompanyCodes, NEW j \in codes, NEW k \in codes
    PROVE  /\ Place(codes, k) \in 1 .. Cardinality(codes)
           /\ CodeRank[j] < CodeRank[k] => Place(codes, j) < Place(codes, k)
<1>1. CodeRank[j] < CodeRank[k] => <<j, k>> \in ByCode(codes)
  BY DEF ByCode
<1>2. /\ Rank(ByCode(codes), codes, k) \in 1 .. Cardinality(codes)
      /\ <<j, k>> \in ByCode(codes) =>
           Rank(ByCode(codes), codes, j) < Rank(ByCode(codes), codes, k)
  BY PlacesAreRanks, RanksFollow
<1> QED
  BY <1>1, <1>2, PlacesAreRanks

\* Every place is taken by one company.
LEMMA NthIsAtItsPlace ==
    ASSUME NEW codes \in SUBSET CompanyCodes, NEW n \in 1 .. Cardinality(codes)
    PROVE  Nth(codes, n) \in codes /\ Place(codes, Nth(codes, n)) = n
<1>1. PICK k \in codes : Rank(ByCode(codes), codes, k) = n
  BY PlacesAreRanks, RanksAreTaken
<1>2. Place(codes, k) = n
  BY <1>1, PlacesAreRanks
<1> QED
  BY <1>2 DEF Nth

LEMMA NthIsTheOnlyOne ==
    ASSUME NEW codes \in SUBSET CompanyCodes, NEW k \in codes, NEW n \in 1 .. Cardinality(codes),
           Place(codes, k) = n
    PROVE  k = Nth(codes, n)
<1>1. Nth(codes, n) \in codes /\ Place(codes, Nth(codes, n)) = n
  BY NthIsAtItsPlace
<1>2. PICK i \in codes : i = Nth(codes, n)
  BY <1>1
<1>3. CodeRank[i] \in Nat /\ CodeRank[k] \in Nat /\ n \in Nat
  BY CompanyConstantFacts
<1>4. ~(CodeRank[i] < CodeRank[k]) /\ ~(CodeRank[k] < CodeRank[i])
  BY <1>1, <1>2, <1>3, CodePlaces
<1> QED
  BY <1>2, <1>3, <1>4, CompanyConstantFacts

\* A cursor: nothing, or the code at a place.
CursorAt(codes, m, after) ==
    IF m = 0 THEN after = 0 ELSE after = CodeRank[Nth(codes, m)]

\* Behind the cursor everything keeps its order, with the places before taken off.
LEMMA BehindTheCursor ==
    ASSUME NEW codes \in SUBSET CompanyCodes, NEW m \in 0 .. Cardinality(codes), NEW after,
           CursorAt(codes, m, after)
    PROVE  /\ Cardinality(Behind(codes, after)) = Cardinality(codes) - m
           /\ \A k \in Behind(codes, after) : Place(Behind(codes, after), k) = Place(codes, k) - m
<1> DEFINE rest == Behind(codes, after)
           UpTo(x) == {i \in codes : CodeRank[i] <= CodeRank[x]}
           RestUpTo(x) == {i \in rest : CodeRank[i] <= CodeRank[x]}
<1>1. \A i \in codes : CodeRank[i] \in Nat /\ CodeRank[i] > 0
  BY CompanyConstantFacts
<1>2. Cardinality(codes) \in Nat /\ m \in Nat
  BY SomeCodes
<1>3. CASE m = 0
  <2>1. rest = codes
    BY <1>1, <1>3 DEF Behind, CursorAt
  <2>2. \A k \in codes : Place(codes, k) \in Nat
    BY CodePlaces
  <2> QED
    BY <1>2, <1>3, <2>1, <2>2
<1>4. CASE m # 0
  <2>1. PICK last \in codes : last = Nth(codes, m) /\ Place(codes, last) = m
    BY <1>2, <1>4, NthIsAtItsPlace
  <2>2. after = CodeRank[last]
    BY <1>4, <2>1 DEF CursorAt
  <2>3. \A S \in SUBSET codes : IsFiniteSet(S) /\ Cardinality(S) \in Nat
    BY SomeCodes
  <2>4. Cardinality(UpTo(last)) = m
    BY <2>1 DEF Place
  <2>5. ASSUME NEW upper \in SUBSET rest, NEW whole, whole = UpTo(last) \cup upper
        PROVE  Cardinality(upper) = Cardinality(whole) - m
    <3>1. UpTo(last) \cap upper = {}
      BY <1>1, <2>2 DEF Behind
    <3>2. upper \in SUBSET codes /\ UpTo(last) \in SUBSET codes
      BY DEF Behind
    <3>3. PICK lower : lower = UpTo(last)
      OBVIOUS
    <3>4. IsFiniteSet(upper) /\ IsFiniteSet(lower) /\ Cardinality(upper) \in Nat
      BY <2>3, <3>2, <3>3
    <3>5. Cardinality(lower \cup upper) = Cardinality(lower) + Cardinality(upper) - Cardinality(lower \cap upper)
      BY <3>4, FS_Union
    <3>6. Cardinality(lower \cap upper) = 0
      BY <3>1, <3>3, FS_EmptySet
    <3>7. Cardinality(whole) = m + Cardinality(upper) - 0
      BY <2>4, <2>5, <3>3, <3>5, <3>6
    <3> QED
      BY <1>2, <3>4, <3>7
  <2>6. Cardinality(rest) = Cardinality(codes) - m
    <3>1. codes = UpTo(last) \cup rest
      BY <1>1, <2>2 DEF Behind
    <3> QED
      BY <2>5, <3>1
  <2>7. ASSUME NEW k \in rest
        PROVE  Cardinality(RestUpTo(k)) = Cardinality(UpTo(k)) - m
    <3>1. UpTo(k) = UpTo(last) \cup RestUpTo(k)
      BY <1>1, <2>2 DEF Behind
    <3>2. RestUpTo(k) \in SUBSET rest
      OBVIOUS
    <3> QED
      BY <2>5, <3>1, <3>2
  <2> QED
    BY <2>6, <2>7 DEF Place
<1> QED
  BY <1>3, <1>4

\* A page is the next piece of the list of all companies of its snapshot.
LEMMA PageIsNextPiece ==
    ASSUME NEW snap, NEW size \in Nat, NEW after, NEW m \in 0 .. Cardinality(Present(snap)),
           CursorAt(Present(snap), m, after)
    PROVE  LET left == Cardinality(Present(snap)) - m
               length == IF left < size THEN left ELSE size
           IN  /\ PageOf(snap, after, size).more <=> left > size
               /\ PageOf(snap, after, size).items
                    = [n \in 1 .. length |-> Nth(Present(snap), m + n)]
<1> DEFINE codes == Present(snap)
           rest == Behind(codes, after)
           left == Cardinality(codes) - m
           length == IF left < size THEN left ELSE size
<1>1. codes \in SUBSET CompanyCodes
  BY DEF Present
<1>2. Cardinality(codes) \in Nat /\ left \in Nat /\ length \in Nat /\ length <= left /\ m \in Nat
  BY <1>1, SomeCodes
<1>3. /\ Cardinality(rest) = left
      /\ \A k \in rest : Place(rest, k) = Place(codes, k) - m
  BY <1>1, BehindTheCursor
<1>4. rest \in SUBSET codes /\ rest \in SUBSET CompanyCodes
  BY <1>1 DEF Behind
<1>5. ASSUME NEW n \in 1 .. length
      PROVE  Nth(rest, n) = Nth(codes, m + n)
  <2>1. n \in 1 .. Cardinality(rest) /\ m + n \in 1 .. Cardinality(codes)
    BY <1>2, <1>3
  <2>2. PICK k \in rest : k = Nth(rest, n) /\ Place(rest, k) = n
    BY <1>4, <2>1, NthIsAtItsPlace
  <2>3. k \in codes /\ Place(codes, k) \in Nat
    BY <1>1, <1>4, CodePlaces
  <2>4. Place(codes, k) = m + n
    BY <1>2, <1>3, <2>1, <2>2, <2>3
  <2> QED
    BY <1>1, <2>1, <2>2, <2>3, <2>4, NthIsTheOnlyOne
<1>6. PageOf(snap, after, size)
        = [items |-> [n \in 1 .. (IF Cardinality(rest) < size THEN Cardinality(rest) ELSE size)
                        |-> Nth(rest, n)],
           more |-> Cardinality(rest) > size]
  BY DEF PageOf, Nth, Place, Behind
<1>7. PageOf(snap, after, size)
        = [items |-> [n \in 1 .. length |-> Nth(rest, n)], more |-> left > size]
  BY <1>3, <1>6
<1>8. [n \in 1 .. length |-> Nth(rest, n)] = [n \in 1 .. length |-> Nth(codes, m + n)]
  BY <1>5
<1>9. PICK list : list = [n \in 1 .. length |-> Nth(codes, m + n)]
  OBVIOUS
<1>10. PageOf(snap, after, size) = [items |-> list, more |-> left > size]
  BY <1>7, <1>8, <1>9
<1>11. PageOf(snap, after, size).items = list
  BY <1>10
<1>12. PageOf(snap, after, size).more <=> left > size
  <2>1. PICK more \in BOOLEAN : more <=> left > size
    OBVIOUS
  <2>2. [items |-> list, more |-> left > size] = [items |-> list, more |-> more]
    BY <2>1
  <2>3. PageOf(snap, after, size).more = more
    BY <1>10, <2>2
  <2> QED
    BY <2>1, <2>3
<1> QED
  BY <1>9, <1>11, <1>12

-----------------------------------------------------------------------------
(* One snapshot *)

\* The companies of a snapshot in order, as they are shown.
FirstShown(snap, m) == [n \in 1 .. m |-> Shown(snap, Nth(Present(snap), n))]

ReaderFits(reader) ==
    /\ reader.pc \in {"idle", "reading", "done"}
    /\ reader.pc = "idle" => reader.after = 0 /\ reader.shown = <<>>
    /\ reader.pc = "reading" =>
          \E m \in 1 .. Cardinality(Present(reader.snap)) :
             /\ CursorAt(Present(reader.snap), m, reader.after)
             /\ reader.shown = FirstShown(reader.snap, m)
    /\ reader.pc = "done" =>
          reader.shown = FirstShown(reader.snap, Cardinality(Present(reader.snap)))

CallFields(call) ==
    call = [pc |-> call.pc, order |-> call.order, rest |-> call.rest, holds |-> call.holds,
            snap |-> call.snap, out |-> call.out]

AsksPage(c) == companyCall[c].order.kind = "page"

PageCallFits(call) ==
    /\ CallFields(call)
    /\ call.order.kind = "page" => call.order.size \in 1 .. 100 /\ call.pc # "done"

ReaderInv ==
    /\ DOMAIN companyCall = CompanyCalls
    /\ \A c \in CompanyCalls : PageCallFits(companyCall[c])
    /\ \A c, d \in CompanyCalls : AsksPage(c) /\ AsksPage(d) => c = d
    /\ \A c \in CompanyCalls : AsksPage(c) => projection.pc \in {"idle", "reading"}
    /\ ReaderFits(projection)

LEMMA ListOfElements ==
    ASSUME NEW S, NEW n \in Nat, NEW f, DOMAIN f = 1 .. n, f = [i \in 1 .. n |-> f[i]],
           \A i \in 1 .. n : f[i] \in S
    PROVE  f \in Seq(S) /\ Len(f) = n
OBVIOUS

\* The next page goes on with the list.
LEMMA ReaderGoesOn ==
    ASSUME NEW reader, ReaderFits(reader), reader.pc \in {"idle", "reading"},
           NEW snap, reader.after = 0 \/ reader.snap = snap, NEW size \in 1 .. 100,
           NEW page, page = PageOf(snap, reader.after, size)
    PROVE  \A next : next = [pc |-> IF page.more THEN "reading" ELSE "done",
                   snap |-> snap,
                   after |-> IF page.more THEN CodeRank[page.items[Len(page.items)]]
                             ELSE reader.after,
                   shown |-> reader.shown \o
                               [n \in DOMAIN page.items |-> Shown(snap, page.items[n])]]
                => ReaderFits(next)
<1> DEFINE codes == Present(snap)
           count == Cardinality(codes)
<1>1. codes \in SUBSET CompanyCodes /\ IsFiniteSet(codes) /\ count \in Nat
  BY SomeCodes DEF Present
<1>2. PICK m \in 0 .. count : CursorAt(codes, m, reader.after) /\ reader.shown = FirstShown(snap, m)
  <2>1. CASE reader.pc = "idle"
    <3>1. CursorAt(codes, 0, reader.after)
      BY <2>1 DEF ReaderFits, CursorAt
    <3>2. FirstShown(snap, 0) = <<>>
      BY DEF FirstShown
    <3> QED
      BY <1>1, <2>1, <3>1, <3>2 DEF ReaderFits
  <2>2. CASE reader.pc = "reading"
    <3>1. PICK last \in 1 .. Cardinality(Present(reader.snap)) :
             /\ CursorAt(Present(reader.snap), last, reader.after)
             /\ reader.shown = FirstShown(reader.snap, last)
      BY <2>2 DEF ReaderFits
    <3>2. Present(reader.snap) \in SUBSET CompanyCodes
      BY DEF Present
    <3>3. last # 0 /\ Nth(Present(reader.snap), last) \in CompanyCodes
      BY <3>1, <3>2, NthIsAtItsPlace, SomeCodes
    <3>4. reader.after # 0
      BY <3>1, <3>3, CompanyConstantFacts DEF CursorAt
    <3>5. reader.snap = snap
      BY <3>4
    <3> QED
      BY <1>1, <3>1, <3>5
  <2> QED
    BY <2>1, <2>2
<1> DEFINE left == count - m
           length == IF left < size THEN left ELSE size
           items == [n \in 1 .. length |-> Nth(codes, m + n)]
<1>13. (page.more <=> left > size) /\ page.items = items
  BY <1>2, PageIsNextPiece
<1>3. page.more <=> left > size
  BY <1>13
<1>12. page.items = items
  BY <1>13
<1>4. length \in Nat /\ m \in Nat /\ m + length <= count /\ left \in Nat
  BY <1>1
<1>5. \A n \in 1 .. length : items[n] = Nth(codes, m + n) /\ items[n] \in codes
  BY <1>1, <1>4, NthIsAtItsPlace
<1>6. Len(items) = length
  <2>1. DOMAIN items = 1 .. length /\ items = [n \in 1 .. length |-> items[n]]
    OBVIOUS
  <2> HIDE DEF items, length, codes
  <2> QED
    BY <1>4, <1>5, <2>1, ListOfElements
<1> DEFINE piece == [n \in DOMAIN page.items |-> Shown(snap, page.items[n])]
<1>7. piece = [n \in 1 .. length |-> Shown(snap, Nth(codes, m + n))]
  BY <1>12, <1>5
<1>8. reader.shown \o piece = FirstShown(snap, m + length)
  <2> DEFINE all == [n \in 1 .. m |-> Shown(snap, Nth(codes, n))]
             more == [n \in 1 .. length |-> Shown(snap, Nth(codes, m + n))]
             Pieces == {Shown(snap, k) : k \in codes}
  <2>1. all \in Seq(Pieces) /\ Len(all) = m
    <3>1. \A n \in 1 .. m : Shown(snap, Nth(codes, n)) \in Pieces
      BY <1>1, <1>4, NthIsAtItsPlace
    <3> HIDE DEF Pieces
    <3> QED
      BY <1>4, <3>1
  <2>2. more \in Seq(Pieces) /\ Len(more) = length
    <3>1. \A n \in 1 .. length : Shown(snap, Nth(codes, m + n)) \in Pieces
      BY <1>1, <1>4, NthIsAtItsPlace
    <3> HIDE DEF Pieces
    <3> QED
      BY <1>4, <3>1
  <2>3. \A n \in 1 .. length : Shown(snap, Nth(codes, m + n)) = Shown(snap, Nth(codes, (m + n)))
    OBVIOUS
  <2>4. /\ \A n \in 1 .. m : all[n] = Shown(snap, Nth(codes, n))
        /\ \A n \in 1 .. length : more[n] = Shown(snap, Nth(codes, m + n))
    OBVIOUS
  <2>5. reader.shown = all /\ piece = more
    BY <1>2, <1>7 DEF FirstShown
  <2> HIDE DEF all, more, Pieces, piece
  <2>6. all \o more = [n \in 1 .. m + length |->
                        IF n <= m THEN all[n] ELSE more[n - m]]
    <3> HIDE DEF length, codes
    <3>1. m \in Nat /\ length \in Nat
      BY <1>4
    <3>2. all \o more \in Seq(Pieces) /\ Len(all \o more) = m + length
      BY ONLY <2>1, <2>2, <3>1
    <3>3. ASSUME NEW n \in 1 .. m + length
          PROVE  (all \o more)[n] = IF n <= m THEN all[n] ELSE more[n - m]
      <4>1. CASE n <= m
        BY ONLY <2>1, <2>2, <3>1, <4>1
      <4>2. CASE ~(n <= m)
        <5>1. n - m \in 1 .. length /\ n \in Int
          BY ONLY <3>1, <4>2, n \in 1 .. m + length
        <5> QED
          BY ONLY <2>1, <2>2, <3>1, <4>2, <5>1, n \in 1 .. m + length
      <4> QED
        BY ONLY <4>1, <4>2
    <3>4. all \o more = [n \in 1 .. m + length |-> (all \o more)[n]]
      <4>1. PICK whole : whole = all \o more
        OBVIOUS
      <4>2. whole \in Seq(Pieces) /\ Len(whole) = m + length
        BY ONLY <3>2, <4>1
      <4>3. whole = [n \in 1 .. Len(whole) |-> whole[n]]
        BY ONLY <4>2
      <4> QED
        BY ONLY <4>1, <4>2, <4>3
    <3> QED
      BY ONLY <3>3, <3>4
  <2>7. ASSUME NEW n \in 1 .. m + length
        PROVE  (IF n <= m THEN all[n] ELSE more[n - m]) = Shown(snap, Nth(codes, n))
    <3>1. CASE n <= m
      BY <1>4, <2>4, <3>1
    <3>2. CASE ~(n <= m)
      <4>1. n - m \in 1 .. length /\ m + (n - m) = n
        BY <1>4, <3>2
      <4> QED
        BY <2>4, <3>2, <4>1
    <3> QED
      BY <3>1, <3>2
  <2> QED
    BY <2>5, <2>6, <2>7 DEF FirstShown
<1> SUFFICES ASSUME NEW next,
                    next = [pc |-> IF page.more THEN "reading" ELSE "done",
                            snap |-> snap,
                            after |-> IF page.more THEN CodeRank[page.items[Len(page.items)]]
                                      ELSE reader.after,
                            shown |-> reader.shown \o piece]
             PROVE  ReaderFits(next)
  OBVIOUS
<1>9. /\ next.snap = snap /\ next.shown = FirstShown(snap, m + length)
      /\ next.pc = IF page.more THEN "reading" ELSE "done"
      /\ page.more => next.after = CodeRank[page.items[Len(page.items)]]
  BY <1>8, SMTT(40)
<1>10. ASSUME page.more
       PROVE  ReaderFits(next)
  <2>1. m + length \in 1 .. count /\ m + length # 0 /\ length \in 1 .. length
    <3> HIDE DEF count, codes, left
    <3>1. size \in Nat /\ size >= 1 /\ length = size
      BY <1>3, <1>4, <1>10
    <3> QED
      BY <1>1, <1>4, <3>1
  <2>2. next.after = CodeRank[Nth(codes, m + length)]
    <3>1. page.items[Len(page.items)] = items[length]
      BY <1>6, <1>12
    <3> HIDE DEF items, length
    <3> QED
      BY <1>5, <1>9, <1>10, <2>1, <3>1
  <2>3. CursorAt(codes, m + length, next.after)
    BY <2>1, <2>2 DEF CursorAt
  <2>4. next.pc = "reading"
    BY <1>9, <1>10
  <2> QED
    BY <1>9, <2>1, <2>3, <2>4 DEF ReaderFits
<1>11. ASSUME ~page.more
       PROVE  ReaderFits(next)
  <2>1. m + length = count
    <3>1. ~(left > size)
      BY <1>3, <1>11
    <3>2. length = left
      <4> HIDE DEF left
      <4> QED
        BY <1>4, <3>1
    <3> QED
      BY <1>1, <3>2
  <2>2. next.pc = "done"
    BY <1>9, <1>11
  <2> QED
    BY <1>9, <2>1, <2>2 DEF ReaderFits
<1> QED
  BY <1>10, <1>11

LEMMA OrdersAsked ==
    ASSUME NEW order \in CompanyOrders
    PROVE  order.kind = "page" => order.size \in 1 .. 100
<1>1. order \in Order
  BY CompanyConstants
<1> QED
  BY <1>1 DEF Order

LEMMA ReaderInvInit ==
    CompanyInit => ReaderInv
<1> SUFFICES ASSUME CompanyInit
             PROVE  ReaderInv
  OBVIOUS
<1>1. PICK call : call = IdleCompanyCall
  OBVIOUS
<1>2. CallFields(call) /\ call.order.kind = "none"
  BY <1>1 DEF IdleCompanyCall, CallFields
<1>3. DOMAIN companyCall = CompanyCalls /\ \A c \in CompanyCalls : companyCall[c] = call
  BY <1>1 DEF CompanyInit
<1>4. ReaderFits(projection)
  <2>1. projection = NoProjection
    BY DEF CompanyInit
  <2>2. projection.pc = "idle" /\ projection.after = 0 /\ projection.shown = <<>>
    BY <2>1 DEF NoProjection
  <2> QED
    BY <2>2 DEF ReaderFits
<1> QED
  BY <1>2, <1>3, <1>4 DEF ReaderInv, PageCallFits, AsksPage

\* A call goes on as another kind of call, or as the same: readers do not become more.
LEMMA CallChanges ==
    ASSUME ReaderInv, NEW c \in CompanyCalls, NEW call,
           companyCall' = [companyCall EXCEPT ![c] = call],
           PageCallFits(call),
           call.order.kind = "page" => AsksPage(c),
           \/ projection' = projection
           \/ AsksPage(c) /\ call.order.kind # "page" /\ ReaderFits(projection')
    PROVE  ReaderInv'
<1>1. companyCall'[c] = call /\ DOMAIN companyCall' = CompanyCalls
  BY DEF ReaderInv
<1>2. \A d \in CompanyCalls : d # c => companyCall'[d] = companyCall[d]
  BY DEF ReaderInv
<1>3. \A d \in CompanyCalls : AsksPage(d)' => AsksPage(d)
  BY <1>1, <1>2 DEF AsksPage
<1>4. \A d \in CompanyCalls : PageCallFits(companyCall'[d])
  BY <1>1, <1>2 DEF ReaderInv
<1>5. ASSUME NEW d \in CompanyCalls, AsksPage(d)'
      PROVE  projection'.pc \in {"idle", "reading"}
  <2>1. CASE projection' = projection
    BY <1>3, <1>5, <2>1 DEF ReaderInv
  <2>2. CASE AsksPage(c) /\ call.order.kind # "page"
    <3>1. d = c
      BY <1>3, <1>5, <2>2 DEF ReaderInv
    <3> QED
      BY <1>1, <1>5, <2>2, <3>1 DEF AsksPage
  <2> QED
    BY <2>1, <2>2
<1>6. ReaderFits(projection')
  BY DEF ReaderInv
<1> QED
  BY <1>1, <1>3, <1>4, <1>5, <1>6 DEF ReaderInv

\* An answered call asks nothing any more.
LEMMA EndedCall ==
    ASSUME NEW c \in CompanyCalls, NEW out, CallEnds(c, out)
    PROVE  \E call : /\ companyCall' = [companyCall EXCEPT ![c] = call]
                     /\ PageCallFits(call) /\ call.order.kind # "page"
<1>1. PICK call : call = [IdleCompanyCall EXCEPT !.pc = "done", !.out = out]
  OBVIOUS
<1>2. CallFields(call) /\ call.order.kind = "none"
  BY <1>1 DEF IdleCompanyCall, CallFields
<1>3. companyCall' = [companyCall EXCEPT ![c] = call]
  BY <1>1 DEF CallEnds, CallStep
<1> QED
  BY <1>2, <1>3 DEF PageCallFits

LEMMA ReaderInvStep ==
    ReaderInv /\ [CompanyNext]_companyVars => ReaderInv'
<1> SUFFICES ASSUME ReaderInv, [CompanyNext]_companyVars
             PROVE  ReaderInv'
  OBVIOUS
<1>1. CASE UNCHANGED companyVars
  BY <1>1 DEF companyVars, ReaderInv, AsksPage
<1>2. ASSUME NEW c \in CompanyCalls, NEW out, CallEnds(c, out), projection' = projection
      PROVE  ReaderInv'
  <2>1. PICK call : /\ companyCall' = [companyCall EXCEPT ![c] = call]
                    /\ PageCallFits(call) /\ call.order.kind # "page"
    BY <1>2, EndedCall
  <2> QED
    BY <1>2, <2>1, CallChanges
<1>3. ASSUME NEW c \in CompanyCalls, NEW order \in CompanyOrders, MayAsk(order),
             BeginCompanyCall(c, order)
      PROVE  ReaderInv'
  <2>1. projection' = projection
    BY <1>3 DEF BeginCompanyCall
  <2>2. CASE CallEnds(c, "invalid")
    BY <1>2, <2>1, <2>2
  <2>3. CASE CallStep(c, Begun(order))
    <3>1. PICK call : call = Begun(order)
      OBVIOUS
    <3>2. CallFields(call) /\ call.pc = "locking" /\ call.order = order
      BY <3>1 DEF Begun, CallFields, IdleCompanyCall
    <3>3. PageCallFits(call)
      BY <3>2, OrdersAsked DEF PageCallFits
    <3>4. companyCall' = [companyCall EXCEPT ![c] = call]
      BY <2>3, <3>1 DEF CallStep
    <3>5. CASE order.kind # "page"
      BY <2>1, <3>2, <3>3, <3>4, <3>5, CallChanges
    <3>6. CASE order.kind = "page"
      <4>1. /\ projection.pc \in {"idle", "reading"}
            /\ \A d \in CompanyCalls : ~AsksPage(d)
        BY <1>3, <3>6 DEF MayAsk, AsksPage, ReaderInv, PageCallFits
      <4>2. DOMAIN companyCall' = CompanyCalls /\ companyCall'[c] = call
        BY <3>4 DEF ReaderInv
      <4>3. \A d \in CompanyCalls : d # c => companyCall'[d] = companyCall[d]
        BY <3>4 DEF ReaderInv
      <4>4. \A d \in CompanyCalls : PageCallFits(companyCall'[d])
        BY <3>3, <4>2, <4>3 DEF ReaderInv
      <4>5. \A d \in CompanyCalls : AsksPage(d)' => d = c
        BY <4>1, <4>3 DEF AsksPage
      <4>6. ReaderFits(projection') /\ projection'.pc \in {"idle", "reading"}
        BY <2>1, <4>1 DEF ReaderInv
      <4> QED
        BY <4>2, <4>4, <4>5, <4>6 DEF ReaderInv
    <3> QED
      BY <3>5, <3>6
  <2> QED
    BY <1>3, <2>2, <2>3 DEF BeginCompanyCall
<1>4. ASSUME NEW c \in CompanyCalls, LockTable(c)
      PROVE  ReaderInv'
  <2>7. PICK old, holds, rest : /\ old = companyCall[c] /\ holds = old.holds \cup {Head(old.rest)}
                                /\ rest = Tail(old.rest)
    OBVIOUS
  <2>8. PICK pc : pc = IF rest = <<>> THEN "working" ELSE old.pc
    OBVIOUS
  <2>9. PICK call : call = [old EXCEPT !.holds = holds, !.rest = rest, !.pc = pc]
    OBVIOUS
  <2>1. PageCallFits(old) /\ old.pc = "locking"
    BY <1>4, <2>7 DEF ReaderInv, LockTable
  <2>2. CallFields(old)
    BY <2>1 DEF PageCallFits
  <2>3. CallFields(call) /\ call.order = old.order /\ call.pc # "done"
    <3>1. call.pc = pc /\ call.order = old.order /\ CallFields(call)
      BY <2>2, <2>9 DEF CallFields
    <3>2. pc # "done"
      BY <2>1, <2>8
    <3> QED
      BY <3>1, <3>2
  <2>4. companyCall' = [companyCall EXCEPT ![c] = call] /\ projection' = projection
    BY <1>4, <2>7, <2>8, <2>9 DEF LockTable, CallStep
  <2>5. PageCallFits(call)
    BY <2>1, <2>3 DEF PageCallFits
  <2> QED
    <3>1. call.order.kind = "page" => AsksPage(c)
      BY <2>3, <2>7 DEF AsksPage
    <3> QED
      BY <2>4, <2>5, <3>1, CallChanges
<1>5. ASSUME NEW c \in CompanyCalls, ApplyCatalog(c) \/ CreateCompany(c) \/ UpdateCompany(c)
                                        \/ ReplaceIndustries(c) \/ CreateOtherObject(c)
      PROVE  ReaderInv'
  <2>1. projection' = projection
    BY <1>5, Zenon DEF ApplyCatalog, CreateCompany, UpdateCompany, ReplaceIndustries, CreateOtherObject
  <2>2. \E out : CallEnds(c, out)
    BY <1>5, Zenon DEF ApplyCatalog, CreateCompany, UpdateCompany, ReplaceIndustries, CreateOtherObject
  <2> QED
    BY <1>2, <2>1, <2>2
<1>6. ASSUME NEW c \in CompanyCalls, NEW out, CallEnds(c, out), AsksPage(c), ReaderFits(projection')
      PROVE  ReaderInv'
  <2>1. PICK call : /\ companyCall' = [companyCall EXCEPT ![c] = call]
                    /\ PageCallFits(call) /\ call.order.kind # "page"
    BY <1>6, EndedCall
  <2> QED
    BY <1>6, <2>1, CallChanges
<1>7. ASSUME NEW c \in CompanyCalls, ListProjection(c)
      PROVE  ReaderInv'
  <2> DEFINE snap == companyCall[c].snap
             size == companyCall[c].order.size
  <2>1. AsksPage(c) /\ size \in 1 .. 100 /\ projection.pc \in {"idle", "reading"}
    BY <1>7 DEF ListProjection, AsksPage, ReaderInv, PageCallFits
  <2>2. CASE ~SnapshotMatches(c)
    <3>1. projection' = NoProjection /\ CallEnds(c, "changed")
      BY <1>7, <2>2 DEF ListProjection
    <3>2. ReaderFits(NoProjection)
      BY DEF ReaderFits, NoProjection
    <3> QED
      BY <1>6, <2>1, <3>1, <3>2
  <2>3. CASE SnapshotMatches(c)
    <3>1. PICK page : page = PageOf(snap, projection.after, size)
      OBVIOUS
    <3>2. /\ CallEnds(c, "done")
          /\ projection' = [
                     pc |-> IF page.more THEN "reading" ELSE "done",
                     snap |-> snap,
                     after |-> IF page.more THEN CodeRank[page.items[Len(page.items)]]
                               ELSE projection.after,
                     shown |-> projection.shown \o
                                 [n \in DOMAIN page.items |-> Shown(snap, page.items[n])]]
      BY <1>7, <2>3, <3>1, Zenon DEF ListProjection
    <3>3. projection.after = 0 \/ projection.snap = snap
      BY <2>3 DEF SnapshotMatches
    <3>4. ReaderFits(projection)
      BY DEF ReaderInv
    <3>5. ReaderFits(projection')
      <4>1. PICK reader, now, most : reader = projection /\ now = snap /\ most = size
        OBVIOUS
      <4>2. /\ ReaderFits(reader) /\ reader.pc \in {"idle", "reading"} /\ most \in 1 .. 100
            /\ reader.after = 0 \/ reader.snap = now
            /\ page = PageOf(now, reader.after, most)
        BY <2>1, <3>1, <3>3, <3>4, <4>1
      <4>3. \A next :
              next = [pc |-> IF page.more THEN "reading" ELSE "done",
                      snap |-> now,
                      after |-> IF page.more THEN CodeRank[page.items[Len(page.items)]]
                                ELSE reader.after,
                      shown |-> reader.shown \o
                                  [n \in DOMAIN page.items |-> Shown(now, page.items[n])]]
                => ReaderFits(next)
        BY <4>2, ReaderGoesOn, ZenonT(60)
      <4> QED
        BY <3>2, <4>1, <4>3
    <3>6. CallEnds(c, "done")
      BY <3>2
    <3> QED
      BY <1>6, <2>1, <3>5, <3>6
  <2> QED
    BY <2>2, <2>3
<1>8. ASSUME NEW c \in CompanyCalls, BreakTableDeadlock(c)
      PROVE  ReaderInv'
  <2>1. CASE AsksPage(c)
    <3>1. projection' = NoProjection /\ CallEnds(c, "unavailable")
      BY <1>8, <2>1 DEF BreakTableDeadlock, AsksPage
    <3>2. ReaderFits(NoProjection)
      BY DEF ReaderFits, NoProjection
    <3> QED
      BY <1>6, <2>1, <3>1, <3>2
  <2>2. CASE ~AsksPage(c)
    BY <1>2, <1>8, <2>2 DEF BreakTableDeadlock, AsksPage
  <2> QED
    BY <2>1, <2>2
<1> QED
  BY <1>1, <1>3, <1>4, <1>5, <1>7, <1>8 DEF CompanyNext, CompanyStep

LEMMA ReaderInvShows == ReaderInv => ProjectionIsOneSnapshot
<1> SUFFICES ASSUME ReaderInv, projection.pc = "done"
             PROVE  LET snap == projection.snap
                        all == PageOf(snap, 0, Cardinality(CompanyCodes)).items
                    IN  projection.shown = [n \in DOMAIN all |-> Shown(snap, all[n])]
  BY DEF ProjectionIsOneSnapshot
<1> DEFINE snap == projection.snap
           codes == Present(snap)
           count == Cardinality(codes)
           size == Cardinality(CompanyCodes)
<1>1. codes \in SUBSET CompanyCodes
  BY DEF Present
<1>2. count \in Nat /\ size \in Nat /\ count <= size
  BY <1>1, SomeCodes, CompanyConstantFacts, FS_Subset
<1>3. PICK length : length = IF count - 0 < size THEN count - 0 ELSE size
  OBVIOUS
<1>4. length = count
  BY <1>2, <1>3
<1>5. CursorAt(codes, 0, 0)
  BY DEF CursorAt
<1>6. PICK all : all = PageOf(snap, 0, size).items
  OBVIOUS
<1>7. all = [n \in 1 .. length |-> Nth(codes, 0 + n)]
  BY <1>2, <1>3, <1>5, <1>6, PageIsNextPiece
<1>8. all = [n \in 1 .. count |-> Nth(codes, n)]
  BY <1>2, <1>4, <1>7
<1>9. projection.shown = [n \in 1 .. count |-> Shown(snap, Nth(codes, n))]
  BY DEF ReaderInv, ReaderFits, FirstShown
<1>10. [n \in DOMAIN all |-> Shown(snap, all[n])]
         = [n \in 1 .. count |-> Shown(snap, Nth(codes, n))]
  BY <1>8
<1> QED
  BY <1>6, <1>9, <1>10

\* Whoever has followed the pages to the end has all companies of one moment, each once
\* and in order: for every number of companies, whatever the pages and the edits between.
THEOREM ProjectionsAreSnapshots == CompanySpec => []ProjectionIsOneSnapshot
BY ReaderInvInit, ReaderInvShows, ReaderInvStep, PTL DEF CompanySpec

-----------------------------------------------------------------------------
(* The tables of the companies *)

\* Where a call stands in the tables it locks: it holds those, and asks for these.
Stands(call, holds, rest) == call.holds = holds /\ call.rest = rest

LockStage(call) ==
    LET kind == call.order.kind IN
    /\ kind # "publish" => "advisory" \notin call.holds
    /\ kind = "publish" =>
         \/ Stands(call, {}, <<"advisory", "industry", "concept", "company", "company_industry_links">>)
         \/ Stands(call, {"advisory"}, <<"industry", "concept", "company", "company_industry_links">>)
         \/ Stands(call, {"advisory", "industry"}, <<"concept", "company", "company_industry_links">>)
         \/ Stands(call, {"advisory", "industry", "concept"}, <<"company", "company_industry_links">>)
         \/ Stands(call, {"advisory", "industry", "concept", "company"}, <<"company_industry_links">>)
         \/ Stands(call, {"advisory", "industry", "concept", "company", "company_industry_links"}, <<>>)
    /\ kind = "replace" =>
         \/ Stands(call, {}, <<"company", "industry", "company_industry_links">>)
         \/ Stands(call, {"company"}, <<"industry", "company_industry_links">>)
         \/ Stands(call, {"company", "industry"}, <<"company_industry_links">>)
         \/ Stands(call, {"company", "industry", "company_industry_links"}, <<>>)
    /\ kind = "create" =>
         \/ Stands(call, {}, <<"company", "company_industry_links", "industry", "concept">>)
         \/ Stands(call, {"company"}, <<"company_industry_links", "industry", "concept">>)
         \/ Stands(call, {"company", "company_industry_links"}, <<"industry", "concept">>)
         \/ Stands(call, {"company", "company_industry_links", "industry"}, <<"concept">>)
         \/ Stands(call, {"company", "company_industry_links", "industry", "concept"}, <<>>)
    /\ kind = "object" =>
         \/ Stands(call, {}, <<"concept", "industry", "company">>)
         \/ Stands(call, {"concept"}, <<"industry", "company">>)
         \/ Stands(call, {"concept", "industry"}, <<"company">>)
         \/ Stands(call, {"concept", "industry", "company"}, <<>>)
    /\ kind \notin {"publish", "replace", "create", "object"} =>
         \/ Stands(call, {}, <<"company", "company_industry_links", "industry">>)
         \/ Stands(call, {"company"}, <<"company_industry_links", "industry">>)
         \/ Stands(call, {"company", "company_industry_links"}, <<"industry">>)
         \/ Stands(call, {"company", "company_industry_links", "industry"}, <<>>)

\* A call that waits or works was asked for, with a valid catalogue if it has one.
CatalogCallFits(call) ==
    /\ CallFields(call)
    /\ call.pc \in {"idle", "locking", "working", "done"}
    /\ call.out \in {"none", "done", "invalid", "conflict", "reference",
                     "not found", "changed", "unavailable"}
    /\ call.pc \in {"idle", "done"} => call.order.kind = "none" /\ call.holds = {}
    /\ call.pc \in {"locking", "working"} =>
         /\ call.order \in CompanyOrders /\ LockStage(call)
         /\ call.pc = "working" <=> call.rest = <<>>
         /\ call.order.kind = "publish" => ValidCatalog(call.order.catalog)

\* A table that a catalogue holds is held by no other call.
TablesAreExclusive ==
    \A c, d \in CompanyCalls : c # d /\ companyCall[c].holds \cap companyCall[d].holds # {} =>
        ~Exclusive(c) /\ ~Exclusive(d)

\* Ids are of one company each, and links are of companies.
IdsAgree(rows, links) ==
    /\ \A l \in links : l.company # NoId /\ \E k \in CompanyCodes : rows[k].id = l.company
    /\ \A j, k \in CompanyCodes :
         rows[j] # NoCompany /\ rows[k] # NoCompany /\ rows[j].id = rows[k].id => j = k

RowsAgree(rows, links) ==
    /\ rows \in [CompanyCodes -> CompanyRows \cup {NoCompany}]
    /\ \A l \in links : l.industry \in LinkedIndustries /\ l.since \in 0 .. MaxCompanyWrites
    /\ IdsAgree(rows, links)

RowsFit ==
    /\ RowsAgree(company, industryLink)
    /\ companyWrites \in 0 .. MaxCompanyWrites
    /\ projection.pc \in {"idle", "reading", "done"}

CallsFit ==
    /\ DOMAIN companyCall = CompanyCalls
    /\ \A c \in CompanyCalls : CatalogCallFits(companyCall[c])
    /\ TablesAreExclusive

CompanyInv == RowsFit /\ CallsFit

\* One call goes on, with the tables it held and at most one more that was free.
LEMMA CatalogCallChanges ==
    ASSUME CallsFit, NEW c \in CompanyCalls, NEW call,
           companyCall' = [companyCall EXCEPT ![c] = call], CatalogCallFits(call),
           \/ call.holds = {}
           \/ \E table : /\ call.order = companyCall[c].order
                         /\ call.holds = companyCall[c].holds \cup {table}
                         /\ TableIsFree(c, table)
    PROVE  CallsFit'
<1>1. companyCall'[c] = call /\ DOMAIN companyCall' = CompanyCalls
  BY DEF CallsFit
<1>2. \A d \in CompanyCalls : d # c => companyCall'[d] = companyCall[d]
  BY DEF CallsFit
<1>3. \A d \in CompanyCalls : CatalogCallFits(companyCall'[d])
  BY <1>1, <1>2 DEF CallsFit
<1>4. ASSUME NEW d \in CompanyCalls, d # c, call.holds \cap companyCall[d].holds # {}
      PROVE  ~Exclusive(c)' /\ ~Exclusive(d)
  <2>1. PICK table : /\ call.order = companyCall[c].order
                     /\ call.holds = companyCall[c].holds \cup {table}
                     /\ TableIsFree(c, table)
    BY <1>4
  <2>2. Exclusive(c)' <=> Exclusive(c)
    BY <1>1, <2>1 DEF Exclusive
  <2>3. CASE table \in companyCall[d].holds
    BY <1>4, <2>1, <2>2, <2>3 DEF TableIsFree
  <2>4. CASE companyCall[c].holds \cap companyCall[d].holds # {}
    BY <1>4, <2>2, <2>4 DEF CallsFit, TablesAreExclusive
  <2> QED
    BY <1>4, <2>1, <2>3, <2>4
<1>5. TablesAreExclusive'
  <2> SUFFICES ASSUME NEW a \in CompanyCalls, NEW b \in CompanyCalls, a # b,
                      companyCall'[a].holds \cap companyCall'[b].holds # {}
               PROVE  ~Exclusive(a)' /\ ~Exclusive(b)'
    BY DEF TablesAreExclusive
  <2>1. \A d \in CompanyCalls : d # c => (Exclusive(d)' <=> Exclusive(d))
    BY <1>2 DEF Exclusive
  <2>2. CASE a # c /\ b # c
    BY <1>2, <2>1, <2>2 DEF CallsFit, TablesAreExclusive
  <2>3. CASE a = c
    BY <1>1, <1>2, <1>4, <2>1, <2>3
  <2>4. CASE b = c
    BY <1>1, <1>2, <1>4, <2>1, <2>4
  <2> QED
    BY <2>2, <2>3, <2>4
<1> QED
  BY <1>1, <1>3, <1>5 DEF CallsFit

LEMMA AnsweredCall ==
    ASSUME CallsFit, NEW c \in CompanyCalls,
           NEW out \in {"done", "invalid", "conflict", "reference", "not found", "changed",
                        "unavailable"},
           CallEnds(c, out)
    PROVE  CallsFit'
<1>1. PICK call : call = [IdleCompanyCall EXCEPT !.pc = "done", !.out = out]
  OBVIOUS
<1>2. /\ CallFields(call) /\ call.pc = "done" /\ call.order.kind = "none"
      /\ call.holds = {} /\ call.out = out
  BY <1>1 DEF CallFields, IdleCompanyCall
<1>3. CatalogCallFits(call)
  BY <1>2 DEF CatalogCallFits
<1>4. companyCall' = [companyCall EXCEPT ![c] = call]
  BY <1>1 DEF CallEnds, CallStep
<1> QED
  BY <1>2, <1>3, <1>4, CatalogCallChanges

LEMMA BegunCall ==
    ASSUME CallsFit, NEW c \in CompanyCalls, NEW order \in CompanyOrders,
           order.kind = "publish" => ValidCatalog(order.catalog), CallStep(c, Begun(order))
    PROVE  CallsFit'
<1>1. PICK call : call = Begun(order)
  OBVIOUS
<1>2. order.kind \in {"publish", "create", "update", "replace", "page", "object"}
  BY CompanyConstants DEF Order
<1>3. /\ CallFields(call) /\ call.pc = "locking" /\ call.order = order /\ call.holds = {}
      /\ call.out = "none" /\ call.rest = OrderTables(order.kind)
  BY <1>1 DEF Begun, CallFields, IdleCompanyCall
<1>4. LockStage(call) /\ call.rest # <<>>
  <2>1. CASE order.kind = "publish"
    BY <1>3, <2>1 DEF OrderTables, PublishTables, LockStage, Stands
  <2>2. CASE order.kind = "replace"
    BY <1>3, <2>2 DEF OrderTables, ReplaceTables, LockStage, Stands
  <2>3. CASE order.kind = "create"
    BY <1>3, <2>3 DEF OrderTables, CreateTables, LockStage, Stands
  <2>4. CASE order.kind = "object"
    BY <1>3, <2>4 DEF OrderTables, ObjectTables, LockStage, Stands
  <2>5. CASE order.kind \in {"update", "page"}
    BY <1>3, <2>5 DEF OrderTables, CompanyTables, LockStage, Stands
  <2> QED
    BY <1>2, <2>1, <2>2, <2>3, <2>4, <2>5
<1>5. CatalogCallFits(call)
  BY <1>3, <1>4 DEF CatalogCallFits
<1>6. companyCall' = [companyCall EXCEPT ![c] = call]
  BY <1>1 DEF CallStep
<1> QED
  BY <1>3, <1>5, <1>6, CatalogCallChanges

\* With one lock more, a call stands one place further.
LEMMA NextStage ==
    ASSUME NEW old, NEW call, LockStage(old), old.rest # <<>>, call.order = old.order,
           call.holds = old.holds \cup {Head(old.rest)}, call.rest = Tail(old.rest)
    PROVE  LockStage(call)
<1>1. CASE old.order.kind = "publish"
  <2>1. CASE Stands(old, {}, <<"advisory", "industry", "concept", "company", "company_industry_links">>)
    <3>1. Stands(call, {"advisory"}, <<"industry", "concept", "company", "company_industry_links">>)
      BY <2>1 DEF Stands
    <3> QED
      BY <1>1, <3>1 DEF LockStage, Stands
  <2>2. CASE Stands(old, {"advisory"}, <<"industry", "concept", "company", "company_industry_links">>)
    <3>1. Stands(call, {"advisory", "industry"}, <<"concept", "company", "company_industry_links">>)
      BY <2>2 DEF Stands
    <3> QED
      BY <1>1, <3>1 DEF LockStage, Stands
  <2>3. CASE Stands(old, {"advisory", "industry"}, <<"concept", "company", "company_industry_links">>)
    <3>1. Stands(call, {"advisory", "industry", "concept"}, <<"company", "company_industry_links">>)
      BY <2>3 DEF Stands
    <3> QED
      BY <1>1, <3>1 DEF LockStage, Stands
  <2>4. CASE Stands(old, {"advisory", "industry", "concept"}, <<"company", "company_industry_links">>)
    <3>1. Stands(call, {"advisory", "industry", "concept", "company"}, <<"company_industry_links">>)
      BY <2>4 DEF Stands
    <3> QED
      BY <1>1, <3>1 DEF LockStage, Stands
  <2>5. CASE Stands(old, {"advisory", "industry", "concept", "company"}, <<"company_industry_links">>)
    <3>1. Stands(call, {"advisory", "industry", "concept", "company", "company_industry_links"}, <<>>)
      BY <2>5 DEF Stands
    <3> QED
      BY <1>1, <3>1 DEF LockStage, Stands
  <2>6. ~Stands(old, {"advisory", "industry", "concept", "company", "company_industry_links"}, <<>>)
    BY DEF Stands
  <2> QED
    BY <1>1, <2>1, <2>2, <2>3, <2>4, <2>5, <2>6 DEF LockStage
<1>2. CASE old.order.kind = "replace"
  <2>1. CASE Stands(old, {}, <<"company", "industry", "company_industry_links">>)
    <3>1. Stands(call, {"company"}, <<"industry", "company_industry_links">>)
      BY <2>1 DEF Stands
    <3> QED
      BY <1>2, <3>1 DEF LockStage, Stands
  <2>2. CASE Stands(old, {"company"}, <<"industry", "company_industry_links">>)
    <3>1. Stands(call, {"company", "industry"}, <<"company_industry_links">>)
      BY <2>2 DEF Stands
    <3> QED
      BY <1>2, <3>1 DEF LockStage, Stands
  <2>3. CASE Stands(old, {"company", "industry"}, <<"company_industry_links">>)
    <3>1. Stands(call, {"company", "industry", "company_industry_links"}, <<>>)
      BY <2>3 DEF Stands
    <3> QED
      BY <1>2, <3>1 DEF LockStage, Stands
  <2>4. ~Stands(old, {"company", "industry", "company_industry_links"}, <<>>)
    BY DEF Stands
  <2> QED
    BY <1>2, <2>1, <2>2, <2>3, <2>4 DEF LockStage
<1>3. CASE old.order.kind = "create"
  <2>1. CASE Stands(old, {}, <<"company", "company_industry_links", "industry", "concept">>)
    <3>1. Stands(call, {"company"}, <<"company_industry_links", "industry", "concept">>)
      BY <2>1 DEF Stands
    <3> QED
      BY <1>3, <3>1 DEF LockStage, Stands
  <2>2. CASE Stands(old, {"company"}, <<"company_industry_links", "industry", "concept">>)
    <3>1. Stands(call, {"company", "company_industry_links"}, <<"industry", "concept">>)
      BY <2>2 DEF Stands
    <3> QED
      BY <1>3, <3>1 DEF LockStage, Stands
  <2>3. CASE Stands(old, {"company", "company_industry_links"}, <<"industry", "concept">>)
    <3>1. Stands(call, {"company", "company_industry_links", "industry"}, <<"concept">>)
      BY <2>3 DEF Stands
    <3> QED
      BY <1>3, <3>1 DEF LockStage, Stands
  <2>4. CASE Stands(old, {"company", "company_industry_links", "industry"}, <<"concept">>)
    <3>1. Stands(call, {"company", "company_industry_links", "industry", "concept"}, <<>>)
      BY <2>4 DEF Stands
    <3> QED
      BY <1>3, <3>1 DEF LockStage, Stands
  <2>5. ~Stands(old, {"company", "company_industry_links", "industry", "concept"}, <<>>)
    BY DEF Stands
  <2> QED
    BY <1>3, <2>1, <2>2, <2>3, <2>4, <2>5 DEF LockStage
<1>4. CASE old.order.kind = "object"
  <2>1. CASE Stands(old, {}, <<"concept", "industry", "company">>)
    <3>1. Stands(call, {"concept"}, <<"industry", "company">>)
      BY <2>1 DEF Stands
    <3> QED
      BY <1>4, <3>1 DEF LockStage, Stands
  <2>2. CASE Stands(old, {"concept"}, <<"industry", "company">>)
    <3>1. Stands(call, {"concept", "industry"}, <<"company">>)
      BY <2>2 DEF Stands
    <3> QED
      BY <1>4, <3>1 DEF LockStage, Stands
  <2>3. CASE Stands(old, {"concept", "industry"}, <<"company">>)
    <3>1. Stands(call, {"concept", "industry", "company"}, <<>>)
      BY <2>3 DEF Stands
    <3> QED
      BY <1>4, <3>1 DEF LockStage, Stands
  <2>4. ~Stands(old, {"concept", "industry", "company"}, <<>>)
    BY DEF Stands
  <2> QED
    BY <1>4, <2>1, <2>2, <2>3, <2>4 DEF LockStage
<1>5. CASE old.order.kind \notin {"publish", "replace", "create", "object"}
  <2>1. CASE Stands(old, {}, <<"company", "company_industry_links", "industry">>)
    <3>1. Stands(call, {"company"}, <<"company_industry_links", "industry">>)
      BY <2>1 DEF Stands
    <3> QED
      BY <1>5, <3>1 DEF LockStage, Stands
  <2>2. CASE Stands(old, {"company"}, <<"company_industry_links", "industry">>)
    <3>1. Stands(call, {"company", "company_industry_links"}, <<"industry">>)
      BY <2>2 DEF Stands
    <3> QED
      BY <1>5, <3>1 DEF LockStage, Stands
  <2>3. CASE Stands(old, {"company", "company_industry_links"}, <<"industry">>)
    <3>1. Stands(call, {"company", "company_industry_links", "industry"}, <<>>)
      BY <2>3 DEF Stands
    <3> QED
      BY <1>5, <3>1 DEF LockStage, Stands
  <2>4. ~Stands(old, {"company", "company_industry_links", "industry"}, <<>>)
    BY DEF Stands
  <2> QED
    BY <1>5, <2>1, <2>2, <2>3, <2>4 DEF LockStage
<1> QED
  BY <1>1, <1>2, <1>3, <1>4, <1>5

LEMMA LockedCall ==
    ASSUME CallsFit, NEW c \in CompanyCalls, LockTable(c)
    PROVE  CallsFit'
<1>1. PICK old, table, rest, call :
        /\ old = companyCall[c] /\ table = Head(old.rest) /\ rest = Tail(old.rest)
        /\ call = [old EXCEPT !.holds = @ \cup {table}, !.rest = rest,
                              !.pc = IF rest = <<>> THEN "working" ELSE @]
  OBVIOUS
<1>2. CatalogCallFits(old) /\ old.pc = "locking" /\ TableIsFree(c, table)
  BY <1>1 DEF CallsFit, LockTable
<1>3. /\ CallFields(old) /\ LockStage(old) /\ old.rest # <<>> /\ old.order \in CompanyOrders
      /\ old.order.kind = "publish" => ValidCatalog(old.order.catalog)
      /\ old.out \in {"none", "done", "invalid", "conflict", "reference",
                     "not found", "changed", "unavailable"}
  BY <1>2 DEF CatalogCallFits
<1>4. companyCall' = [companyCall EXCEPT ![c] = call]
  BY <1>1 DEF LockTable, CallStep
<1>5. /\ CallFields(call) /\ call.order = old.order /\ call.holds = old.holds \cup {table}
      /\ call.rest = rest /\ call.out = old.out
      /\ call.pc = IF rest = <<>> THEN "working" ELSE "locking"
  BY <1>1, <1>2, <1>3 DEF CallFields
<1>8. call.holds = old.holds \cup {Head(old.rest)} /\ call.rest = Tail(old.rest)
  BY <1>1, <1>5
<1>6. LockStage(call)
  BY <1>3, <1>5, <1>8, NextStage
<1>7. CatalogCallFits(call)
  BY <1>3, <1>5, <1>6 DEF CatalogCallFits
<1> QED
  BY <1>1, <1>2, <1>4, <1>5, <1>7, CatalogCallChanges

-----------------------------------------------------------------------------
(* The rows of the companies *)

LEMMA RowFacts ==
    /\ NoId \notin CompanyIds /\ NoCompany.id = NoId /\ NoCompany \notin CompanyRows
    /\ \A row \in CompanyRows :
         /\ row.id \in CompanyIds /\ row.id # NoId /\ row # NoCompany
         /\ row.text \in CompanyTexts
         /\ row.created \in 0 .. MaxCompanyWrites /\ row.updated \in 0 .. MaxCompanyWrites
         /\ row = [id |-> row.id, text |-> row.text, created |-> row.created,
                   updated |-> row.updated]
    /\ \A i \in CompanyIds, t \in CompanyTexts, m, n \in 0 .. MaxCompanyWrites :
         /\ [id |-> i, text |-> t, created |-> m, updated |-> n] \in CompanyRows
<1>1. NoId \notin CompanyIds /\ NoCompany.id = NoId
  BY CompanyConstants DEF NoCompany, NoId
<1>2. ASSUME NEW row \in CompanyRows
      PROVE  /\ row.id \in CompanyIds /\ row.id # NoId
             /\ row.text \in CompanyTexts
             /\ row.created \in 0 .. MaxCompanyWrites /\ row.updated \in 0 .. MaxCompanyWrites
             /\ row = [id |-> row.id, text |-> row.text, created |-> row.created,
                       updated |-> row.updated]
  BY <1>1 DEF CompanyRows
<1>3. \A i \in CompanyIds, t \in CompanyTexts, m, n \in 0 .. MaxCompanyWrites :
         [id |-> i, text |-> t, created |-> m, updated |-> n] \in CompanyRows
  BY DEF CompanyRows
<1> QED
  BY <1>1, <1>2, <1>3

LEMMA ListElements ==
    ASSUME NEW Item, NEW list \in Seq(Item)
    PROVE  \A n \in DOMAIN list : list[n] \in Item /\ n \in Int
<1>1. DOMAIN list = 1 .. Len(list) /\ Len(list) \in Nat
  OBVIOUS
<1>2. \A n \in 1 .. Len(list) : list[n] \in Item
  OBVIOUS
<1> QED
  BY <1>1, <1>2

\* What is staged has known codes, ids and facts, each code and each id once.
LEMMA StagedFacts ==
    ASSUME NEW order \in CompanyOrders, order.kind = "publish", NEW release,
           release = order.catalog, ValidCatalog(release)
    PROVE  /\ \A s \in Staged(release) :
                /\ s.code \in CompanyCodes /\ s.id \in CompanyIds /\ s.text \in CompanyTexts
                /\ s = [code |-> s.code, id |-> s.id, text |-> s.text]
           /\ \A s, t \in Staged(release) : s.code = t.code \/ s.id = t.id => s = t
<1> DEFINE items == release.items
           StagedAt(n) == [code |-> items[n].code, id |-> ItemId(release, items[n]),
                           text |-> items[n].text]
<1>1. items \in Seq([code : CompanyCodes, id : CompanyIds \cup {NoId}, text : CompanyTexts])
  BY CompanyInputs
<1>2. \A n \in DOMAIN items : /\ items[n].code \in CompanyCodes
                              /\ items[n].id \in CompanyIds \cup {NoId}
                              /\ items[n].text \in CompanyTexts
  <2>3. \A n \in DOMAIN items : items[n] \in [code : CompanyCodes, id : CompanyIds \cup {NoId},
                                              text : CompanyTexts]
    <3> HIDE DEF items
    <3> QED
      BY <1>1, ListElements
  <2> QED
    BY <2>3
<1>3. \A n \in DOMAIN items : ItemId(release, items[n]) \in CompanyIds
  BY <1>2, CompanyConstants DEF ValidCatalog, ItemId
<1>4. \A s \in Staged(release) : \E n \in DOMAIN items : s = StagedAt(n)
  BY DEF Staged
<1>5. ASSUME NEW n \in DOMAIN items, NEW m \in DOMAIN items, n < m
      PROVE  /\ items[n].code # items[m].code
             /\ ItemId(release, items[n]) # ItemId(release, items[m])
  <2>1. CodeRank[items[n].code] < CodeRank[items[m].code]
        /\ ItemId(release, items[n]) # ItemId(release, items[m])
    BY <1>5 DEF ValidCatalog
  <2>2. CodeRank[items[n].code] \in Nat
    BY <1>2, CompanyConstants
  <2> QED
    BY <2>1, <2>2
<1>6. \A n, m \in DOMAIN items : n < m \/ m < n \/ n = m
  <2> HIDE DEF items
  <2>3. \A n \in DOMAIN items : n \in Int
    BY <1>1, ListElements
  <2> QED
    BY <2>3
<1>7. ASSUME NEW s \in Staged(release), NEW t \in Staged(release), s.code = t.code \/ s.id = t.id
      PROVE  s = t
  <2>1. PICK n \in DOMAIN items : s = StagedAt(n)
    BY <1>4
  <2>2. PICK m \in DOMAIN items : t = StagedAt(m)
    BY <1>4
  <2>3. n = m
    BY <1>5, <1>6, <1>7, <2>1, <2>2
  <2> QED
    BY <2>1, <2>2, <2>3
<1>8. ASSUME NEW s \in Staged(release)
      PROVE  /\ s.code \in CompanyCodes /\ s.id \in CompanyIds /\ s.text \in CompanyTexts
             /\ s = [code |-> s.code, id |-> s.id, text |-> s.text]
  <2>1. PICK n \in DOMAIN items : s = StagedAt(n)
    BY <1>4
  <2> QED
    BY <1>2, <1>3, <2>1
<1> QED
  BY <1>7, <1>8

\* After the replacement, the rows are those of the catalogue, whatever was stored.
LEMMA UpsertedIsStaged ==
    ASSUME RowsFit, NEW order \in CompanyOrders, order.kind = "publish", NEW release,
           release = order.catalog, ValidCatalog(release)
    PROVE  /\ Upserted(release) \in [CompanyCodes -> CompanyRows \cup {NoCompany}]
           /\ Facts(Upserted(release)) = Staged(release)
<1> DEFINE rows == Upserted(release)
           staged == Staged(release)
<1>1. /\ \A s \in staged :
           /\ s.code \in CompanyCodes /\ s.id \in CompanyIds /\ s.text \in CompanyTexts
           /\ s = [code |-> s.code, id |-> s.id, text |-> s.text]
      /\ \A s, t \in staged : s.code = t.code => s = t
  BY StagedFacts
<1>2. /\ company \in [CompanyCodes -> CompanyRows \cup {NoCompany}]
      /\ companyWrites \in 0 .. MaxCompanyWrites
  BY DEF RowsFit, RowsAgree
<1>3. ASSUME NEW s \in staged
      PROVE  rows[s.code] \in CompanyRows /\ rows[s.code].id = s.id /\ rows[s.code].text = s.text
  <2> DEFINE k == s.code
  <2>1. k \in CompanyCodes /\ s.id \in CompanyIds /\ s.text \in CompanyTexts
    BY <1>1
  <2>2. {t \in staged : t.code = k} = {s}
    BY <1>1, <1>3
  <2>3. PICK old \in CompanyRows \cup {NoCompany} :
          /\ old = IF k \in Kept(release) THEN company[k] ELSE NoCompany
          /\ old # NoCompany => old.id = s.id
    <3>1. CASE k \in Kept(release)
      <4>1. PICK t \in staged : t.code = k /\ t.id = company[k].id
        BY <3>1 DEF Kept
      <4>2. t = s
        BY <1>1, <4>1
      <4> QED
        BY <1>2, <2>1, <3>1, <4>1, <4>2
    <3>2. CASE k \notin Kept(release)
      BY <3>2
    <3> QED
      BY <3>1, <3>2
  <2>4. rows[k] =
          IF old = NoCompany
          THEN [id |-> s.id, text |-> s.text, created |-> companyWrites, updated |-> companyWrites]
          ELSE IF old.id # s.id \/ old.text = s.text THEN old
          ELSE [old EXCEPT !.text = s.text, !.updated = companyWrites]
    <3>1. (CHOOSE t \in {s} : TRUE) = s
      OBVIOUS
    <3>2. {s} # {}
      OBVIOUS
    <3> QED
      BY <2>1, <2>2, <2>3, <3>1, <3>2 DEF Upserted
  <2>5. CASE old = NoCompany
    BY <1>2, <2>1, <2>4, <2>5, RowFacts
  <2>6. CASE old # NoCompany /\ old.text = s.text
    BY <2>3, <2>4, <2>6
  <2>7. CASE old # NoCompany /\ old.text # s.text
    <3>1. old \in CompanyRows /\ old.id = s.id
      BY <2>3, <2>7
    <3>2. rows[k] = [id |-> old.id, text |-> s.text, created |-> old.created,
                     updated |-> companyWrites]
      <4>1. rows[k] = [old EXCEPT !.text = s.text, !.updated = companyWrites]
        BY <2>4, <2>7, <3>1
      <4>2. old = [id |-> old.id, text |-> old.text, created |-> old.created,
                   updated |-> old.updated]
        BY <3>1, RowFacts
      <4> QED
        BY <4>1, <4>2
    <3> HIDE DEF rows
    <3> QED
      BY <1>2, <2>1, <3>1, <3>2, RowFacts
  <2> QED
    BY <2>5, <2>6, <2>7
<1>4. ASSUME NEW k \in CompanyCodes, \A s \in staged : s.code # k
      PROVE  rows[k] = NoCompany
  <2>1. k \notin Kept(release) /\ {s \in staged : s.code = k} = {}
    BY <1>4 DEF Kept
  <2> QED
    BY <2>1 DEF Upserted
<1>5. rows \in [CompanyCodes -> CompanyRows \cup {NoCompany}]
  <2>1. \A k \in CompanyCodes : rows[k] \in CompanyRows \cup {NoCompany}
    BY <1>3, <1>4
  <2>2. rows = [k \in CompanyCodes |-> rows[k]]
    BY DEF Upserted
  <2> QED
    BY <2>1, <2>2
<1>6. Facts(rows) = staged
  <2> HIDE DEF rows, staged
  <2>1. ASSUME NEW s \in staged
        PROVE  s \in Facts(rows)
    <3>1. s.code \in {j \in CompanyCodes : rows[j] # NoCompany}
      BY <1>1, <1>3, RowFacts
    <3>2. s = [code |-> s.code, id |-> rows[s.code].id, text |-> rows[s.code].text]
      BY <1>1, <1>3
    <3> QED
      BY <3>1, <3>2 DEF Facts
  <2>2. ASSUME NEW f \in Facts(rows)
        PROVE  f \in staged
    <3>1. PICK k \in CompanyCodes :
            rows[k] # NoCompany /\ f = [code |-> k, id |-> rows[k].id, text |-> rows[k].text]
      BY DEF Facts
    <3>2. PICK s \in staged : s.code = k
      BY <1>4, <3>1
    <3>3. f = s
      BY <1>1, <1>3, <3>1, <3>2
    <3> QED
      BY <3>3
  <2> QED
    BY <2>1, <2>2
<1> QED
  BY <1>5, <1>6

LEMMA OrderFacts ==
    ASSUME NEW order \in CompanyOrders
    PROVE  /\ order.kind \in {"create", "update"} =>
                order.code \in CompanyCodes /\ order.text \in CompanyTexts
           /\ order.kind = "replace" =>
                /\ order.code \in CompanyCodes
                /\ order.industries \subseteq LinkedIndustries \cup {UnknownIndustry}
<1>1. order \in Order
  BY CompanyConstants
<1> QED
  BY <1>1 DEF Order

\* The rows of a catalogue agree.
LEMMA CatalogRowsAgree ==
    ASSUME RowsFit, NEW order \in CompanyOrders, order.kind = "publish", NEW release,
           release = order.catalog, ValidCatalog(release)
    PROVE  RowsAgree(Upserted(release), {})
<1>1. PICK rows : rows = Upserted(release)
  OBVIOUS
<1>2. rows \in [CompanyCodes -> CompanyRows \cup {NoCompany}] /\ Facts(rows) = Staged(release)
  BY <1>1, UpsertedIsStaged
<1>3. \A s, t \in Staged(release) : s.id = t.id => s = t
  BY StagedFacts
<1>4. ASSUME NEW j \in CompanyCodes, NEW k \in CompanyCodes, rows[j] # NoCompany,
             rows[k] # NoCompany, rows[j].id = rows[k].id
      PROVE  j = k
  <2>1. PICK s : s = [code |-> j, id |-> rows[j].id, text |-> rows[j].text]
    OBVIOUS
  <2>2. PICK t : t = [code |-> k, id |-> rows[k].id, text |-> rows[k].text]
    OBVIOUS
  <2>3. s \in Facts(rows) /\ t \in Facts(rows)
    BY <1>4, <2>1, <2>2 DEF Facts
  <2>4. s.code = j /\ t.code = k /\ s.id = t.id
    BY <1>4, <2>1, <2>2
  <2> QED
    BY <1>2, <1>3, <2>3, <2>4
<1> QED
  BY <1>1, <1>2, <1>4 DEF RowsAgree, IdsAgree

\* One row changes and keeps its id, or is new with an id that no other has.
LEMMA ChangedRowAgrees ==
    ASSUME NEW rows, NEW links, RowsAgree(rows, links), NEW code \in CompanyCodes,
           NEW row \in CompanyRows,
           \/ rows[code] # NoCompany /\ row.id = rows[code].id
           \/ rows[code] = NoCompany /\ \A k \in CompanyCodes : rows[k].id # row.id
    PROVE  RowsAgree([rows EXCEPT ![code] = row], links)
<1>1. PICK next : next = [rows EXCEPT ![code] = row]
  OBVIOUS
<1>2. /\ rows \in [CompanyCodes -> CompanyRows \cup {NoCompany}]
      /\ IdsAgree(rows, links)
  BY DEF RowsAgree
<1>3. /\ next[code] = row /\ \A k \in CompanyCodes \ {code} : next[k] = rows[k]
      /\ next \in [CompanyCodes -> CompanyRows \cup {NoCompany}]
  BY <1>1, <1>2
<1>4. ASSUME NEW l \in links
      PROVE  l.company # NoId /\ \E k \in CompanyCodes : next[k].id = l.company
  <2>1. PICK k \in CompanyCodes : rows[k].id = l.company
    BY <1>2, <1>4 DEF IdsAgree
  <2>2. l.company # NoId
    BY <1>2, <1>4 DEF IdsAgree
  <2>3. CASE k # code
    BY <1>3, <2>1, <2>2, <2>3
  <2>4. CASE k = code
    <3>1. rows[code] # NoCompany
      BY <2>1, <2>2, <2>4, RowFacts
    <3> QED
      BY <1>3, <2>1, <2>2, <2>4, <3>1
  <2> QED
    BY <2>3, <2>4
<1>5. ASSUME NEW k \in CompanyCodes \ {code}, rows[k] # NoCompany
      PROVE  rows[k].id # row.id
  BY <1>2, <1>5 DEF IdsAgree
<1>6. ASSUME NEW j \in CompanyCodes, NEW k \in CompanyCodes, next[j] # NoCompany,
             next[k] # NoCompany, next[j].id = next[k].id
      PROVE  j = k
  <2>1. CASE j # code /\ k # code
    BY <1>2, <1>3, <1>6, <2>1 DEF IdsAgree
  <2>2. CASE j = code \/ k = code
    BY <1>3, <1>5, <1>6, <2>2
  <2> QED
    BY <2>1, <2>2
<1>7. \A l \in links : l.industry \in LinkedIndustries /\ l.since \in 0 .. MaxCompanyWrites
  BY DEF RowsAgree
<1> QED
  BY <1>1, <1>3, <1>4, <1>6, <1>7 DEF RowsAgree, IdsAgree

\* Links go, and others come that are of one stored company.
LEMMA ReplacedLinksAgree ==
    ASSUME NEW rows, NEW links, RowsAgree(rows, links), NEW code \in CompanyCodes,
           rows[code] # NoCompany, NEW now \in 0 .. MaxCompanyWrites, NEW next,
           \A l \in next : l \in links \/ /\ l.company = rows[code].id /\ l.since = now
                                          /\ l.industry \in LinkedIndustries
    PROVE  RowsAgree(rows, next)
<1>1. rows[code].id # NoId
  <2>1. rows[code] \in CompanyRows
    BY DEF RowsAgree
  <2> QED
    BY <2>1, RowFacts
<1>2. ASSUME NEW l \in next
      PROVE  /\ l.industry \in LinkedIndustries /\ l.since \in 0 .. MaxCompanyWrites
             /\ l.company # NoId /\ \E k \in CompanyCodes : rows[k].id = l.company
  <2>1. CASE l \in links
    BY <2>1 DEF RowsAgree, IdsAgree
  <2>2. CASE l \notin links
    BY <1>1, <1>2, <2>2
  <2> QED
    BY <2>1, <2>2
<1>3. /\ rows \in [CompanyCodes -> CompanyRows \cup {NoCompany}]
      /\ \A j, k \in CompanyCodes :
           rows[j] # NoCompany /\ rows[k] # NoCompany /\ rows[j].id = rows[k].id => j = k
  BY DEF RowsAgree, IdsAgree
<1> QED
  BY <1>2, <1>3 DEF RowsAgree, IdsAgree

LEMMA WorkingCallFits ==
    ASSUME CompanyInv, NEW c \in CompanyCalls, companyCall[c].pc = "working"
    PROVE  /\ companyCall[c].order \in CompanyOrders
           /\ companyCall[c].order.kind = "publish" => ValidCatalog(companyCall[c].order.catalog)
BY DEF CompanyInv, CallsFit, CatalogCallFits

LEMMA CompanyInvInit ==
    CompanyInit => CompanyInv
<1> SUFFICES ASSUME CompanyInit
             PROVE  CompanyInv
  OBVIOUS
<1>1. PICK call : call = IdleCompanyCall
  OBVIOUS
<1>2. /\ CallFields(call) /\ call.pc = "idle" /\ call.order.kind = "none" /\ call.holds = {}
      /\ call.out = "none"
  BY <1>1 DEF IdleCompanyCall, CallFields
<1>3. DOMAIN companyCall = CompanyCalls /\ \A c \in CompanyCalls : companyCall[c] = call
  BY <1>1 DEF CompanyInit
<1>4. CallsFit
  BY <1>2, <1>3 DEF CallsFit, CatalogCallFits, TablesAreExclusive
<1>5. PICK rows : rows = company
  OBVIOUS
<1>6. /\ rows \in [CompanyCodes -> [id : CompanyIds, text : CompanyTexts, created : {0}, updated : {0}]
                                    \cup {NoCompany}]
      /\ \A j, k \in CompanyCodes : rows[j].id = rows[k].id => rows[j] = NoCompany \/ j = k
  BY <1>5, CompanyInputs DEF CompanyInit
<1>7. MaxCompanyWrites \in Nat /\ 0 \in 0 .. MaxCompanyWrites
  BY CompanyConstants
<1>8. rows \in [CompanyCodes -> CompanyRows \cup {NoCompany}]
  <2>1. [id : CompanyIds, text : CompanyTexts, created : {0}, updated : {0}] \subseteq CompanyRows
    BY <1>7 DEF CompanyRows
  <2> QED
    BY <1>6, <2>1
<1>9. IdsAgree(rows, {})
  BY <1>6 DEF IdsAgree
<1>10. projection.pc = "idle" /\ companyWrites = 0 /\ industryLink = {}
  BY DEF CompanyInit, NoProjection
<1> QED
  BY <1>4, <1>5, <1>7, <1>8, <1>9, <1>10 DEF CompanyInv, RowsFit, RowsAgree

LEMMA CompanyInvStep ==
    CompanyInv /\ [CompanyNext]_companyVars => CompanyInv'
<1> SUFFICES ASSUME CompanyInv, [CompanyNext]_companyVars
             PROVE  CompanyInv'
  OBVIOUS
<1> USE DEF CompanyInv
<1>1. CASE UNCHANGED companyVars
  BY <1>1 DEF companyVars, RowsFit, CallsFit, TablesAreExclusive, Exclusive
<1>2. ASSUME NEW c \in CompanyCalls, NEW order \in CompanyOrders, BeginCompanyCall(c, order)
      PROVE  CompanyInv'
  <2>1. /\ companyWrites < MaxCompanyWrites /\ companyWrites' = companyWrites + 1
        /\ company' = company /\ industryLink' = industryLink /\ projection' = projection
    BY <1>2 DEF BeginCompanyCall
  <2>2. companyWrites' \in 0 .. MaxCompanyWrites
    BY <2>1, CompanyConstants DEF RowsFit
  <2>3. RowsFit'
    BY <2>1, <2>2 DEF RowsFit
  <2>4. CallsFit'
    BY <1>2, AnsweredCall, BegunCall, Zenon DEF BeginCompanyCall
  <2> QED
    BY <2>3, <2>4
<1>3. ASSUME NEW c \in CompanyCalls, LockTable(c)
      PROVE  CompanyInv'
  <2>1. RowsFit'
    BY <1>3 DEF LockTable, RowsFit
  <2> QED
    BY <1>3, <2>1, LockedCall
<1>4. ASSUME NEW c \in CompanyCalls, ApplyCatalog(c)
      PROVE  CompanyInv'
  <2>1. PICK order, release : order = companyCall[c].order /\ release = order.catalog
    OBVIOUS
  <2>2. order \in CompanyOrders /\ order.kind = "publish" /\ ValidCatalog(release)
    BY <1>4, <2>1, WorkingCallFits DEF ApplyCatalog
  <2>3. /\ industryLink' = industryLink /\ companyWrites' = companyWrites
        /\ projection' = projection
    BY <1>4 DEF ApplyCatalog
  <2>4. \/ (CallEnds(c, "conflict") \/ CallEnds(c, "reference")) /\ company' = company
        \/ CallEnds(c, "done") /\ company' = Upserted(release) /\ industryLink = {}
    BY <1>4, <2>1, Zenon DEF ApplyCatalog
  <2>5. CallsFit'
    BY <2>4, AnsweredCall
  <2>6. RowsAgree(company', industryLink')
    <3>1. CASE company' = company
      BY <2>3, <3>1 DEF RowsFit
    <3>2. CASE company' = Upserted(release) /\ industryLink = {}
      BY <2>1, <2>2, <2>3, <3>2, CatalogRowsAgree
    <3> QED
      BY <2>4, <3>1, <3>2
  <2> QED
    BY <2>3, <2>5, <2>6 DEF RowsFit
<1>5. ASSUME NEW c \in CompanyCalls, CreateCompany(c)
      PROVE  CompanyInv'
  <2>1. PICK order : order = companyCall[c].order
    OBVIOUS
  <2>2. order \in CompanyOrders /\ order.kind = "create" /\ order.code \in CompanyCodes
        /\ order.text \in CompanyTexts
    BY <1>5, <2>1, WorkingCallFits, OrderFacts DEF CreateCompany
  <2>3. /\ industryLink' = industryLink /\ companyWrites' = companyWrites
        /\ projection' = projection
    BY <1>5 DEF CreateCompany
  <2>4. \/ (CallEnds(c, "conflict") \/ CallEnds(c, "reference")) /\ company' = company
        \/ /\ CallEnds(c, "done") /\ company[order.code] = NoCompany
           /\ \E id \in CompanyIds \ (KnownIds \cup {DerivedId[k] : k \in CompanyCodes}) :
                company' = [company EXCEPT ![order.code] =
                              [id |-> id, text |-> order.text,
                               created |-> companyWrites, updated |-> companyWrites]]
    BY <1>5, <2>1, Zenon DEF CreateCompany
  <2>5. CallsFit'
    BY <2>4, AnsweredCall
  <2>6. ASSUME company[order.code] = NoCompany,
               NEW id \in CompanyIds, id \notin KnownIds,
               company' = [company EXCEPT ![order.code] =
                             [id |-> id, text |-> order.text,
                              created |-> companyWrites, updated |-> companyWrites]]
        PROVE  RowsAgree(company', industryLink')
    <3>1. PICK row : row = [id |-> id, text |-> order.text,
                            created |-> companyWrites, updated |-> companyWrites]
      OBVIOUS
    <3>2. row \in CompanyRows /\ row.id = id
      BY <2>2, <3>1, RowFacts DEF RowsFit
    <3>3. \A k \in CompanyCodes : company[k].id # id
      BY <2>6, RowFacts DEF KnownIds
    <3>4. RowsAgree([company EXCEPT ![order.code] = row], industryLink)
      BY <2>2, <2>6, <3>2, <3>3, ChangedRowAgrees DEF RowsFit
    <3> QED
      BY <2>3, <2>6, <3>1, <3>4
  <2>7. RowsAgree(company', industryLink')
    <3>1. CASE company' = company
      BY <2>3, <3>1 DEF RowsFit
    <3> QED
      BY <2>4, <2>6, <3>1
  <2> QED
    BY <2>3, <2>5, <2>7 DEF RowsFit
<1>6. ASSUME NEW c \in CompanyCalls, UpdateCompany(c)
      PROVE  CompanyInv'
  <2>1. PICK order : order = companyCall[c].order
    OBVIOUS
  <2>2. order \in CompanyOrders /\ order.kind = "update" /\ order.code \in CompanyCodes
        /\ order.text \in CompanyTexts
    BY <1>6, <2>1, WorkingCallFits, OrderFacts DEF UpdateCompany
  <2>3. /\ industryLink' = industryLink /\ companyWrites' = companyWrites
        /\ projection' = projection
    BY <1>6 DEF UpdateCompany
  <2>4. \/ (CallEnds(c, "not found") \/ CallEnds(c, "reference")) /\ company' = company
        \/ /\ CallEnds(c, "done") /\ company[order.code] # NoCompany
           /\ company' = [company EXCEPT ![order.code].text = order.text,
                                         ![order.code].updated = companyWrites]
    BY <1>6, <2>1, Zenon DEF UpdateCompany
  <2>5. CallsFit'
    BY <2>4, AnsweredCall
  <2>6. ASSUME company[order.code] # NoCompany,
               company' = [company EXCEPT ![order.code].text = order.text,
                                          ![order.code].updated = companyWrites]
        PROVE  RowsAgree(company', industryLink')
    <3>1. PICK old : old = company[order.code]
      OBVIOUS
    <3>2. PICK row : row = [id |-> old.id, text |-> order.text, created |-> old.created,
                            updated |-> companyWrites]
      OBVIOUS
    <3>3. company \in [CompanyCodes -> CompanyRows \cup {NoCompany}]
          /\ companyWrites \in 0 .. MaxCompanyWrites
      BY DEF RowsFit, RowsAgree
    <3>4. old \in CompanyRows
      BY <2>2, <2>6, <3>1, <3>3
    <3>5. row \in CompanyRows /\ row.id = old.id
      BY <2>2, <3>2, <3>3, <3>4, RowFacts
    <3>6. row = [[old EXCEPT !.text = order.text] EXCEPT !.updated = companyWrites]
      <4>1. old = [id |-> old.id, text |-> old.text, created |-> old.created,
                   updated |-> old.updated]
        BY <3>4, RowFacts
      <4>2. PICK next : next = [old EXCEPT !.text = order.text, !.updated = companyWrites]
        OBVIOUS
      <4>3. next = [id |-> old.id, text |-> order.text, created |-> old.created,
                    updated |-> companyWrites]
        BY <4>1, <4>2
      <4> QED
        BY <3>2, <4>2, <4>3
    <3>7. company' = [company EXCEPT ![order.code] = row]
      BY <2>2, <2>6, <3>1, <3>3, <3>6
    <3>8. RowsAgree([company EXCEPT ![order.code] = row], industryLink)
      BY <2>2, <2>6, <3>1, <3>5, ChangedRowAgrees DEF RowsFit
    <3> QED
      BY <2>3, <3>7, <3>8
  <2>7. RowsAgree(company', industryLink')
    <3>1. CASE company' = company
      BY <2>3, <3>1 DEF RowsFit
    <3> QED
      BY <2>4, <2>6, <3>1
  <2> QED
    BY <2>3, <2>5, <2>7 DEF RowsFit
<1>7. ASSUME NEW c \in CompanyCalls, ReplaceIndustries(c)
      PROVE  CompanyInv'
  <2> DEFINE order == companyCall[c].order
             id == company[order.code].id
             others == {l \in industryLink : l.company # id}
             stay == {l \in industryLink : l.company = id /\ l.industry \in order.industries}
             new == order.industries \ {l.industry : l \in stay}
  <2>2. order \in CompanyOrders /\ order.kind = "replace" /\ order.code \in CompanyCodes
        /\ order.industries \subseteq LinkedIndustries \cup {UnknownIndustry}
    BY <1>7, WorkingCallFits, OrderFacts DEF ReplaceIndustries
  <2>3. company' = company /\ companyWrites' = companyWrites /\ projection' = projection
    BY <1>7 DEF ReplaceIndustries
  <2>4. \/ /\ CallEnds(c, "not found") \/ CallEnds(c, "reference")
           /\ industryLink' = industryLink
        \/ /\ CallEnds(c, "done") /\ company[order.code] # NoCompany
           /\ UnknownIndustry \notin order.industries
           /\ industryLink' = others \cup stay \cup
                {[company |-> id, industry |-> i, since |-> companyWrites] : i \in new}
    BY <1>7, Zenon DEF ReplaceIndustries
  <2>5. CallsFit'
    BY <2>4, AnsweredCall
  <2>6. ASSUME company[order.code] # NoCompany, UnknownIndustry \notin order.industries,
               industryLink' = others \cup stay \cup
                 {[company |-> id, industry |-> i, since |-> companyWrites] : i \in new}
        PROVE  RowsAgree(company, industryLink')
    <3>1. new \in SUBSET LinkedIndustries
      BY <2>2, <2>6
    <3>2. others \cup stay \in SUBSET industryLink
      OBVIOUS
    <3>3. RowsAgree(company, industryLink) /\ companyWrites \in 0 .. MaxCompanyWrites
      BY DEF RowsFit
    <3>4. ASSUME NEW l \in industryLink'
          PROVE  l \in industryLink \/ /\ l.company = id /\ l.since = companyWrites
                                       /\ l.industry \in LinkedIndustries
      <4> HIDE DEF others, stay, new, id
      <4>1. CASE l \in others \cup stay
        BY <3>2, <4>1
      <4>2. CASE l \notin others \cup stay
        <5>1. PICK i \in new : l = [company |-> id, industry |-> i, since |-> companyWrites]
          BY <2>6, <3>4, <4>2
        <5> QED
          BY <3>1, <5>1
      <4> QED
        BY <4>1, <4>2
    <3>5. PICK rows, links, next, code, now :
            /\ rows = company /\ links = industryLink /\ next = industryLink'
            /\ code = order.code /\ now = companyWrites
      OBVIOUS
    <3>6. /\ RowsAgree(rows, links) /\ code \in CompanyCodes /\ rows[code] # NoCompany
          /\ now \in 0 .. MaxCompanyWrites
      BY <2>2, <2>6, <3>3, <3>5
    <3>7. \A l \in next : l \in links \/ /\ l.company = rows[code].id /\ l.since = now
                                         /\ l.industry \in LinkedIndustries
      BY <3>4, <3>5
    <3>8. RowsAgree(rows, next)
      BY <3>6, <3>7, ReplacedLinksAgree, SMTT(40)
    <3> QED
      BY <3>5, <3>8
  <2>7. RowsAgree(company', industryLink')
    <3>1. CASE industryLink' = industryLink
      BY <2>3, <3>1 DEF RowsFit
    <3> QED
      BY <2>3, <2>4, <2>6, <3>1
  <2> QED
    BY <2>3, <2>5, <2>7 DEF RowsFit
<1>8. ASSUME NEW c \in CompanyCalls, ListProjection(c)
      PROVE  CompanyInv'
  <2>1. company' = company /\ industryLink' = industryLink /\ companyWrites' = companyWrites
    BY <1>8 DEF ListProjection
  <2>2. CASE ~SnapshotMatches(c)
    <3>1. projection' = NoProjection /\ CallEnds(c, "changed")
      BY <1>8, <2>2, Zenon DEF ListProjection
    <3>2. projection'.pc = "idle"
      BY <3>1 DEF NoProjection
    <3> QED
      BY <2>1, <3>1, <3>2, AnsweredCall DEF RowsFit
  <2>3. CASE SnapshotMatches(c)
    <3>1. CallEnds(c, "done")
      BY <1>8, <2>3, Zenon DEF ListProjection
    <3>2. PICK snap, page, after, shown :
            projection' = [pc |-> IF page.more THEN "reading" ELSE "done",
                           snap |-> snap, after |-> after, shown |-> shown]
      BY <1>8, <2>3, Zenon DEF ListProjection
    <3>3. projection'.pc \in {"reading", "done"}
      BY <3>2
    <3> QED
      BY <2>1, <3>1, <3>3, AnsweredCall DEF RowsFit
  <2> QED
    BY <2>2, <2>3, SMTT(40)
<1>9. ASSUME NEW c \in CompanyCalls, BreakTableDeadlock(c)
      PROVE  CompanyInv'
  <2>1. /\ company' = company /\ industryLink' = industryLink /\ companyWrites' = companyWrites
        /\ CallEnds(c, "unavailable")
        /\ projection' = NoProjection \/ projection' = projection
    BY <1>9, Zenon DEF BreakTableDeadlock
  <2>2. projection'.pc \in {"idle", "reading", "done"}
    BY <2>1 DEF NoProjection, RowsFit
  <2> QED
    BY <2>1, <2>2, AnsweredCall DEF RowsFit
<1>10. ASSUME NEW c \in CompanyCalls, CreateOtherObject(c)
       PROVE  CompanyInv'
  <2>1. /\ company' = company /\ industryLink' = industryLink /\ companyWrites' = companyWrites
        /\ projection' = projection /\ CallEnds(c, "done")
    BY <1>10 DEF CreateOtherObject
  <2> QED
    BY <2>1, AnsweredCall DEF RowsFit
<1> QED
  BY <1>1, <1>2, <1>3, <1>4, <1>5, <1>6, <1>7, <1>8, <1>9, <1>10 DEF CompanyNext, CompanyStep

LEMMA CompanyInvariant ==
    CompanySpec => []CompanyInv
BY CompanyInvInit, CompanyInvStep, PTL DEF CompanySpec

LEMMA CompanyInvConsistent == CompanyInv => CompaniesAreConsistent
<1> SUFFICES ASSUME IdsAgree(company, industryLink)
             PROVE  CompaniesAreConsistent
  BY DEF CompanyInv, RowsFit, RowsAgree
<1>1. ASSUME NEW l \in industryLink
      PROVE  l.company \in KnownIds
  BY <1>1 DEF IdsAgree, KnownIds
<1>2. ASSUME NEW j \in Present(Snapshot), NEW k \in Present(Snapshot),
             company[j].id = company[k].id
      PROVE  j = k
  BY <1>2 DEF IdsAgree, Present, Snapshot
<1> QED
  BY <1>1, <1>2 DEF CompaniesAreConsistent

\* Links are of stored companies and ids are unique, whatever catalogues, edits and
\* replaced links follow each other.
THEOREM CompaniesStayConsistent == CompanySpec => []CompaniesAreConsistent
BY CompanyInvConsistent, CompanyInvariant, PTL

LEMMA CompanyInvRefusals == CompanyInv => ConflictsAreLinks
<1> SUFFICES ASSUME CompanyInv, NEW c \in CompanyCalls, companyCall[c].pc = "working",
                    Exclusive(c)
             PROVE  Facts(Upserted(companyCall[c].order.catalog))
                      = Staged(companyCall[c].order.catalog)
  BY DEF ConflictsAreLinks
<1>1. PICK order, release : order = companyCall[c].order /\ release = order.catalog
  OBVIOUS
<1>2. order \in CompanyOrders /\ order.kind = "publish" /\ ValidCatalog(release)
  BY <1>1, WorkingCallFits DEF Exclusive
<1>3. RowsFit
  BY DEF CompanyInv
<1>4. Facts(Upserted(release)) = Staged(release)
  BY <1>1, <1>2, <1>3, UpsertedIsStaged
<1> QED
  BY <1>1, <1>4

\* A catalogue is only refused for links: what is stored after a replacement is what the
\* file says, for every valid file and all rows that can be stored before.
THEOREM RefusalsAreLinks == CompanySpec => []ConflictsAreLinks
BY CompanyInvRefusals, CompanyInvariant, PTL

LEMMA WaitingCallFacts ==
    ASSUME NEW call, LockStage(call), call.rest # <<>>
    PROVE  /\ call.order.kind = "publish" =>
                /\ call.holds # {} => "advisory" \in call.holds
                /\ Head(call.rest) = "industry" => call.holds = {"advisory"}
           /\ call.order.kind # "publish" => Head(call.rest) # "advisory"
<1>1. CASE call.order.kind = "publish"
  <2>1. \/ Stands(call, {}, <<"advisory", "industry", "concept", "company", "company_industry_links">>)
        \/ Stands(call, {"advisory"}, <<"industry", "concept", "company", "company_industry_links">>)
        \/ Stands(call, {"advisory", "industry"}, <<"concept", "company", "company_industry_links">>)
        \/ Stands(call, {"advisory", "industry", "concept"}, <<"company", "company_industry_links">>)
        \/ Stands(call, {"advisory", "industry", "concept", "company"}, <<"company_industry_links">>)
    BY <1>1 DEF LockStage, Stands
  <2> QED
    BY <1>1, <2>1 DEF Stands
<1>2. CASE call.order.kind = "replace"
  <2>1. \/ Stands(call, {}, <<"company", "industry", "company_industry_links">>)
        \/ Stands(call, {"company"}, <<"industry", "company_industry_links">>)
        \/ Stands(call, {"company", "industry"}, <<"company_industry_links">>)
    BY <1>2 DEF LockStage, Stands
  <2> QED
    BY <1>2, <2>1 DEF Stands
<1>3. CASE call.order.kind = "create"
  <2>1. \/ Stands(call, {}, <<"company", "company_industry_links", "industry", "concept">>)
        \/ Stands(call, {"company"}, <<"company_industry_links", "industry", "concept">>)
        \/ Stands(call, {"company", "company_industry_links"}, <<"industry", "concept">>)
        \/ Stands(call, {"company", "company_industry_links", "industry"}, <<"concept">>)
    BY <1>3 DEF LockStage, Stands
  <2> QED
    BY <1>3, <2>1 DEF Stands
<1>4. CASE call.order.kind = "object"
  <2>1. \/ Stands(call, {}, <<"concept", "industry", "company">>)
        \/ Stands(call, {"concept"}, <<"industry", "company">>)
        \/ Stands(call, {"concept", "industry"}, <<"company">>)
    BY <1>4 DEF LockStage, Stands
  <2> QED
    BY <1>4, <2>1 DEF Stands
<1>5. CASE call.order.kind \notin {"publish", "replace", "create", "object"}
  <2>1. \/ Stands(call, {}, <<"company", "company_industry_links", "industry">>)
        \/ Stands(call, {"company"}, <<"company_industry_links", "industry">>)
        \/ Stands(call, {"company", "company_industry_links"}, <<"industry">>)
    BY <1>5 DEF LockStage, Stands
  <2> QED
    BY <1>5, <2>1 DEF Stands
<1> QED
  BY <1>1, <1>2, <1>3, <1>4, <1>5

LEMMA CompanyInvDeadlocks == CompanyInv => OnlyCatalogsDeadlock
<1>1. ASSUME CompanyInv, NEW c \in CompanyCalls, companyCall[c].pc = "locking"
      PROVE  LockStage(companyCall[c]) /\ companyCall[c].rest # <<>>
  BY <1>1 DEF CompanyInv, CallsFit, CatalogCallFits
<1>2. CompanyInv => OnlyCatalogsDeadlock
  <2> SUFFICES ASSUME CompanyInv, NEW c \in CompanyCalls, NEW d \in CompanyCalls,
                      d \in DeadlockedWith(c)
               PROVE  /\ Exclusive(c) # Exclusive(d)
                      /\ \E e \in {c, d} : Exclusive(e) /\ Head(companyCall[e].rest) # "industry"
    BY DEF OnlyCatalogsDeadlock
  <2>1. c # d /\ AsksFor(c, d) /\ AsksFor(d, c)
    BY DEF DeadlockedWith
  <2>2. PICK one, other : one = companyCall[c] /\ other = companyCall[d]
    OBVIOUS
  <2>3. /\ one.pc = "locking" /\ other.pc = "locking"
        /\ Head(one.rest) \in other.holds /\ Head(other.rest) \in one.holds
        /\ Exclusive(c) \/ Exclusive(d)
    BY <2>1, <2>2 DEF AsksFor
  <2>4. LockStage(one) /\ one.rest # <<>> /\ LockStage(other) /\ other.rest # <<>>
    BY <1>1, <2>2, <2>3
  <2>5. (Exclusive(c) <=> one.order.kind = "publish") /\ (Exclusive(d) <=> other.order.kind = "publish")
    BY <2>2 DEF Exclusive
  <2>6. ~(Exclusive(c) /\ Exclusive(d))
    <3> SUFFICES ASSUME Exclusive(c), Exclusive(d)
                 PROVE  FALSE
      OBVIOUS
    <3>1. "advisory" \in one.holds /\ "advisory" \in other.holds
      BY <2>3, <2>4, <2>5, WaitingCallFacts
    <3> QED
      BY <2>1, <2>2, <3>1 DEF CompanyInv, CallsFit, TablesAreExclusive
  <2>7. CASE Exclusive(c) /\ ~Exclusive(d)
    <3>1. Head(other.rest) # "advisory" /\ (Head(one.rest) = "industry" => one.holds = {"advisory"})
      BY <2>4, <2>5, <2>7, WaitingCallFacts
    <3>2. Head(one.rest) # "industry"
      BY <2>3, <3>1
    <3> QED
      BY <2>2, <2>7, <3>2
  <2>8. CASE ~Exclusive(c) /\ Exclusive(d)
    <3>1. Head(one.rest) # "advisory" /\ (Head(other.rest) = "industry" => other.holds = {"advisory"})
      BY <2>4, <2>5, <2>8, WaitingCallFacts
    <3>2. Head(other.rest) # "industry"
      BY <2>3, <3>1
    <3> QED
      BY <2>2, <2>8, <3>2
  <2> QED
    BY <2>3, <2>6, <2>7, <2>8
<1> QED
  BY <1>2

\* Whoever deadlocks, one of the two is a catalogue that has the industries, and it alone:
\* for any number of calls, readers and writers never stop each other.
THEOREM DeadlocksNeedACatalog == CompanySpec => []OnlyCatalogsDeadlock
BY CompanyInvDeadlocks, CompanyInvariant, PTL

LEMMA CompanyInvTyped == CompanyInv => CompanyTypeOK
BY DEF CompanyInv, RowsFit, RowsAgree, CallsFit, CatalogCallFits, CompanyTypeOK

\* Every row, link and call is of its type.
THEOREM CompaniesTyped == CompanySpec => []CompanyTypeOK
BY CompanyInvTyped, CompanyInvariant, PTL

-----------------------------------------------------------------------------
(* Places: what the calls know of the rows they read or have locked *)

PlaceMember == [organization : OrganizationIds, country : CountryIds,
                from : 0 .. LastDay, till : 1 .. LastDay + 1]

\* Links of regions have both ends.
RegionRows ==
    /\ region \subseteq RegionCodes /\ country \in [CountryIds -> PlaceTexts \cup {NoText}]
    /\ \A p \in regionLink : /\ p \in CountryIds \X RegionCodes
                             /\ country[p[1]] # NoText /\ p[2] \in region

OrganizationRows ==
    /\ organization \in [OrganizationIds -> OrganizationRow \cup {NoOrganization}]
    /\ \A o \in OrganizationIds : organization[o] # NoOrganization => ReferencesExist(organization[o])

LinkRows ==
    \A l \in tagLink : /\ l.organization \in OrganizationIds /\ l.tag \in TagCodes
                       /\ organization[l.organization] # NoOrganization
                       /\ l.function = organization[l.organization].function
                       /\ l.function = catalog.tag[l.tag]

MemberRows ==
    /\ member \in [MemberIds -> PlaceMember \cup {NoMember}]
    /\ \A m, n \in MemberIds : m # n /\ member[m] # NoMember /\ member[n] # NoMember =>
         ~DatesOverlap(member[m], member[n])

PlaceRowsFit ==
    /\ RegionRows /\ OrganizationRows /\ LinkRows /\ MemberRows
    /\ catalog \in OrganizationFiles

DroppedBy(file) == FileCodes(catalog) \ FileCodes(file)

\* Nothing that is stored refers to one of the codes.
Unreferred(codes) ==
    /\ \A o \in OrganizationIds : organization[o] # NoOrganization =>
         organization[o].category \notin codes /\ organization[o].function \notin codes
    /\ \A l \in tagLink : l.tag \notin codes

\* A release has locked the first rows of its lists, and before it deletes all of them.
RowsHeld(call) ==
    /\ call.pc \in {"first", "deletes", "commit"} /\ call.order.kind = "publish catalog" =>
         /\ call.held \subseteq FileCodes(call.order.file)
         /\ \A r \in call.held, s \in FileCodes(call.order.file) \ call.held :
              ComesBefore(call.order.file, r, s)
         /\ call.pc # "first" => call.held = FileCodes(call.order.file)
    /\ call.pc = "first" /\ call.order.kind # "publish catalog" => call.held = {}

PlaceCallTyped(call) ==
    /\ call = [pc |-> call.pc, order |-> call.order, held |-> call.held, drop |-> call.drop,
               id |-> call.id, out |-> call.out]
    /\ call.pc \in {"idle", "first", "links", "deletes", "commit", "check", "done"}
    /\ call.pc \notin {"idle", "done"} => call.order \in PlaceOrders
    /\ call.pc = "links" => call.order.kind = "replace regions"
    /\ call.pc = "deletes" => call.order.kind = "publish catalog"
    /\ call.pc = "commit" => call.order.kind \in {"publish catalog", "update organization", "replace tags"}
    /\ call.pc = "check" =>
         call.order.kind \in {"create member", "update member"} /\ call.id \in MemberIds
    /\ RowsHeld(call)

\* The country and the regions that were counted are there.
RegionsFit(call) ==
    call.pc = "links" => country[call.order.id] # NoText /\ call.order.regions \subseteq region

\* What is dropped is what the stored catalogue has beyond the file, and free.
PublicationFits(call) ==
    call.pc = "commit" /\ call.order.kind = "publish catalog" =>
      call.drop = DroppedBy(call.order.file) /\ Unreferred(call.drop)

\* The organization is there, and what its row will refer to.
WriteFits(call) ==
    call.pc = "commit" /\ call.order.kind # "publish catalog" =>
      /\ organization[call.order.id] # NoOrganization
      /\ call.order.kind = "update organization" => ReferencesExist(call.order)

PlaceCallFits(call) ==
    PlaceCallTyped(call) /\ RegionsFit(call) /\ PublicationFits(call) /\ WriteFits(call)

Publishing(call) == call.pc \in {"deletes", "commit"} /\ call.order.kind = "publish catalog"

\* A publication shares no row that it has locked, and drops none that another has
\* locked or that a written row will refer to.
PlacesApart(call, other) ==
    /\ call.order.kind = "publish catalog" => call.held \cap other.held = {}
    /\ call.pc = "commit" /\ call.order.kind = "publish catalog" => call.drop \cap other.held = {}
    /\ call.pc = "commit" /\ call.order.kind = "publish catalog"
         /\ other.pc = "commit" /\ other.order.kind = "update organization" =>
           other.order.category \notin call.drop /\ other.order.function \notin call.drop

PlaceCallsFit ==
    /\ DOMAIN placeCall = PlaceCalls
    /\ \A c \in PlaceCalls : PlaceCallFits(placeCall[c])
    /\ \A c, d \in PlaceCalls : c # d => PlacesApart(placeCall[c], placeCall[d])

PlaceInv == PlaceRowsFit /\ PlaceCallsFit /\ placeWrites \in 0 .. MaxPlaceWrites

\* Two releases have a code in common: one of them has not locked it yet.
LEMMA OnePublishes ==
    ASSUME PlaceCallsFit, NEW c \in PlaceCalls, NEW d \in PlaceCalls, c # d
    PROVE  ~(Publishing(placeCall[c]) /\ Publishing(placeCall[d]))
<1> SUFFICES ASSUME Publishing(placeCall[c]), Publishing(placeCall[d])
             PROVE  FALSE
  OBVIOUS
<1>1. ASSUME NEW a \in PlaceCalls, Publishing(placeCall[a])
      PROVE  /\ placeCall[a].order.kind = "publish catalog"
             /\ placeCall[a].order.file \in OrganizationFiles
             /\ placeCall[a].held = FileCodes(placeCall[a].order.file)
  BY <1>1, PlaceOrderFields DEF PlaceCallsFit, PlaceCallFits, PlaceCallTyped, RowsHeld, Publishing
<1>2. placeCall[c].held \cap placeCall[d].held = {}
  BY <1>1 DEF PlaceCallsFit, PlacesApart
<1>3. CatalogCodes(placeCall[c].order.file) \cap CatalogCodes(placeCall[d].order.file) # {}
  BY <1>1, ReleasedFiles
<1> QED
  BY <1>1, <1>2, <1>3 DEF FileCodes

LEMMA PlaceEnded ==
    ASSUME NEW out
    PROVE  LET call == [IdlePlaceCall EXCEPT !.pc = "done", !.out = out] IN
           PlaceCallFits(call) /\ \A other : PlacesApart(call, other) /\ PlacesApart(other, call)
<1>1. PICK call : call = [IdlePlaceCall EXCEPT !.pc = "done", !.out = out]
  OBVIOUS
<1>2. call = [pc |-> "done", order |-> [kind |-> "none"], held |-> {}, drop |-> {}, id |-> "none", out |-> out]
  BY <1>1 DEF IdlePlaceCall
<1>3. PlaceCallFits(call)
  BY <1>2 DEF PlaceCallFits, PlaceCallTyped, RowsHeld, RegionsFit, PublicationFits, WriteFits
<1>4. \A other : PlacesApart(call, other) /\ PlacesApart(other, call)
  BY <1>2 DEF PlacesApart, Publishing
<1> QED
  BY <1>1, <1>3, <1>4

\* One call goes on, and the others fit what is stored then.
LEMMA PlaceCallGoesOn ==
    ASSUME PlaceCallsFit, NEW c \in PlaceCalls, NEW call, PlaceStep(c, call),
           PlaceCallFits(call)',
           \A d \in PlaceCalls \ {c} :
             PlacesApart(call, placeCall[d]) /\ PlacesApart(placeCall[d], call),
           \A d \in PlaceCalls \ {c} : PlaceCallFits(placeCall[d])'
    PROVE  PlaceCallsFit'
<1>1. placeCall'[c] = call /\ DOMAIN placeCall' = PlaceCalls
  BY DEF PlaceCallsFit, PlaceStep
<1>2. \A d \in PlaceCalls \ {c} : placeCall'[d] = placeCall[d]
  BY DEF PlaceCallsFit, PlaceStep
<1>3. ASSUME NEW d \in PlaceCalls
      PROVE  PlaceCallFits(placeCall[d])'
  <2>1. CASE d = c
    <3>1. PICK mine : mine = call
      OBVIOUS
    <3>2. placeCall'[d] = mine
      BY <1>1, <2>1, <3>1
    <3> QED
      BY <3>1, <3>2
  <2>2. CASE d # c
    BY <2>2
  <2> QED
    BY <2>1, <2>2
<1>4. ASSUME NEW a \in PlaceCalls, NEW b \in PlaceCalls, a # b
      PROVE  PlacesApart(placeCall'[a], placeCall'[b])
  <2>1. CASE a # c /\ b # c
    BY <1>2, <1>4, <2>1 DEF PlaceCallsFit
  <2>2. CASE a = c
    BY <1>1, <1>2, <1>4, <2>2
  <2>3. CASE b = c
    BY <1>1, <1>2, <1>4, <2>3
  <2> QED
    BY <2>1, <2>2, <2>3
<1> QED
  BY <1>1, <1>3, <1>4 DEF PlaceCallsFit

\* A call that ends leaves the others.
LEMMA PlaceCallEnds ==
    ASSUME PlaceCallsFit, NEW c \in PlaceCalls, NEW out, PlaceEnds(c, out),
           \A d \in PlaceCalls \ {c} : PlaceCallFits(placeCall[d])'
    PROVE  PlaceCallsFit'
<1>1. PICK call : call = [IdlePlaceCall EXCEPT !.pc = "done", !.out = out]
  OBVIOUS
<1>2. PlaceStep(c, call)
  BY <1>1 DEF PlaceEnds
<1>3. \A other : PlacesApart(call, other) /\ PlacesApart(other, call)
  BY <1>1, PlaceEnded
<1>4. call = [pc |-> "done", order |-> [kind |-> "none"], held |-> {}, drop |-> {}, id |-> "none", out |-> out]
  BY <1>1 DEF IdlePlaceCall
<1>5. PlaceCallFits(call)'
  BY <1>4 DEF PlaceCallFits, PlaceCallTyped, RowsHeld, RegionsFit, PublicationFits, WriteFits
<1> QED
  BY <1>2, <1>3, <1>5, PlaceCallGoesOn

\* Calls know the same as long as what they read is not written.
LEMMA PlaceTablesStay ==
    ASSUME PlaceCallsFit, NEW c \in PlaceCalls, NEW call, PlaceStep(c, call), UNCHANGED placeTables
    PROVE  /\ \A d \in PlaceCalls \ {c} : PlaceCallFits(placeCall[d])'
           /\ PlaceCallFits(call) => PlaceCallFits(call)'
           /\ PlaceRowsFit => PlaceRowsFit'
<1>1. /\ UNCHANGED <<region, country, regionLink, catalog, organization, tagLink, member>>
      /\ \A codes : Unreferred(codes)' <=> Unreferred(codes)
  BY DEF placeTables, Unreferred
<1>2. ASSUME NEW d \in PlaceCalls, d # c
      PROVE  PlaceCallFits(placeCall[d])'
  <2>1. placeCall'[d] = placeCall[d] /\ PlaceCallFits(placeCall[d])
    BY <1>2 DEF PlaceCallsFit, PlaceStep
  <2> QED
    BY <1>1, <2>1 DEF PlaceCallFits, PlaceCallTyped, RowsHeld, RegionsFit, PublicationFits, WriteFits, DroppedBy,
       ReferencesExist
<1>3. PlaceCallFits(call) => PlaceCallFits(call)'
  BY <1>1 DEF PlaceCallFits, PlaceCallTyped, RowsHeld, RegionsFit, PublicationFits, WriteFits, DroppedBy,
     ReferencesExist
<1>4. PlaceRowsFit => PlaceRowsFit'
  BY <1>1 DEF PlaceRowsFit, RegionRows, OrganizationRows, LinkRows, MemberRows, ReferencesExist
<1> QED
  BY <1>2, <1>3, <1>4

\* A step that writes nothing.
LEMMA PlaceReads ==
    ASSUME PlaceRowsFit, PlaceCallsFit, NEW c \in PlaceCalls, NEW call, PlaceStep(c, call),
           UNCHANGED placeTables, PlaceCallFits(call),
           \A d \in PlaceCalls \ {c} :
             PlacesApart(call, placeCall[d]) /\ PlacesApart(placeCall[d], call)
    PROVE  PlaceRowsFit' /\ PlaceCallsFit'
<1>1. PlaceCallFits(call)' /\ \A d \in PlaceCalls \ {c} : PlaceCallFits(placeCall[d])'
  BY PlaceTablesStay
<1>2. PlaceRowsFit'
  BY PlaceTablesStay
<1> QED
  BY <1>1, <1>2, PlaceCallGoesOn

\* A call that fails, or ends without a write.
LEMMA PlaceFails ==
    ASSUME PlaceRowsFit, PlaceCallsFit, NEW c \in PlaceCalls, NEW out, PlaceEnds(c, out),
           UNCHANGED placeTables
    PROVE  PlaceRowsFit' /\ PlaceCallsFit'
<1>1. PICK call : call = [IdlePlaceCall EXCEPT !.pc = "done", !.out = out]
  OBVIOUS
<1>2. PlaceStep(c, call)
  BY <1>1 DEF PlaceEnds
<1>3. PlaceCallFits(call) /\ \A other : PlacesApart(call, other) /\ PlacesApart(other, call)
  BY <1>1, PlaceEnded
<1> QED
  BY <1>2, <1>3, PlaceReads


\* The arms of Waits, which the step and the kind of a call tell apart.
LEMMA WaitsOfFirst ==
    ASSUME NEW c, NEW d, placeCall[c].pc = "first"
    PROVE  LET order == PlaceOrder(c) IN
           /\ order.kind = "publish regions" =>
                (Waits(c, d) <=> d \in ReadsRegions \/
                    (AtStep(d, "commit", "update organization") /\ PlaceOrder(d).region # NoText))
           /\ order.kind \in {"update country", "replace regions"} =>
                (Waits(c, d) <=> HoldsCountry(d, order.id))
           /\ order.kind = "publish catalog" =>
                (Waits(c, d) <=> Locks(d, NextRow(c)) \/ Removes(d, NextRow(c)))
           /\ order.kind = "create organization" =>
                (Waits(c, d) <=> Removes(d, {order.category, order.function}))
           /\ order.kind = "update organization" =>
                (Waits(c, d) <=> HoldsOrganization(d, order.id)
                                   \/ Removes(d, {order.category, order.function}))
           /\ order.kind = "replace tags" => (Waits(c, d) <=> HoldsOrganization(d, order.id))
           /\ order.kind \in {"update member", "delete member"} =>
                (Waits(c, d) <=> HoldsMember(d, order.id))
           /\ order.kind \in {"create region", "create country", "create member"} => ~Waits(c, d)
  BY DEF Waits, AtStep, WritesOrganization, Under

LEMMA PlaceRowFacts ==
    /\ NoText \notin RegionCodes /\ NoText \notin PlaceTexts /\ NoText \notin FunctionCodes
    /\ \A row \in OrganizationRow : row # NoOrganization
    /\ \A row \in PlaceMember : row # NoMember
<1>1. ASSUME NEW row \in OrganizationRow
      PROVE  row # NoOrganization
  BY PlaceConstants DEF OrganizationRow, NoOrganization, NoText
<1>2. ASSUME NEW row \in PlaceMember
      PROVE  row # NoMember
  <2>1. row.till \in 1 .. LastDay + 1 /\ LastDay \in Nat
    BY PlaceConstants DEF PlaceMember
  <2> QED
    BY <2>1 DEF NoMember
<1> QED
  BY <1>1, <1>2, PlaceConstants

LEMMA PlaceBegins ==
    ASSUME PlaceRowsFit, PlaceCallsFit, NEW c \in PlaceCalls, NEW order \in PlaceOrders,
           BeginPlaceCall(c, order)
    PROVE  PlaceRowsFit' /\ PlaceCallsFit'
<1>1. UNCHANGED placeTables
  BY DEF BeginPlaceCall
<1>2. CASE PlaceEnds(c, "invalid")
  BY <1>1, <1>2, PlaceFails
<1>3. CASE PlaceStep(c, [IdlePlaceCall EXCEPT !.pc = "first", !.order = order])
  <2>1. PICK call : call = [IdlePlaceCall EXCEPT !.pc = "first", !.order = order]
    OBVIOUS
  <2>2. call = [pc |-> "first", order |-> order, held |-> {}, drop |-> {}, id |-> "none", out |-> "none"]
    BY <2>1 DEF IdlePlaceCall
  <2>3. PlaceCallFits(call)
    BY <2>2 DEF PlaceCallFits, PlaceCallTyped, RowsHeld, RegionsFit, PublicationFits, WriteFits
  <2>4. \A other : PlacesApart(call, other) /\ PlacesApart(other, call)
    BY <2>2 DEF PlacesApart, Publishing
  <2>5. PlaceStep(c, call)
    BY <1>3, <2>1
  <2> QED
    BY <1>1, <2>3, <2>4, <2>5, PlaceReads
<1> QED
  BY <1>2, <1>3 DEF BeginPlaceCall

\* ReadRegions: the country is locked and the regions are counted.
LEMMA PlaceReadsRegions ==
    ASSUME PlaceRowsFit, PlaceCallsFit, NEW c \in PlaceCalls, ReadRegions(c)
    PROVE  PlaceRowsFit' /\ PlaceCallsFit'
<1> DEFINE order == PlaceOrder(c)
           drop == {p \in regionLink : p[1] = order.id /\ p[2] \notin order.regions}
<1>1. UNCHANGED placeTables
  BY DEF ReadRegions
<1>2. CASE PlaceEnds(c, "not found") \/ PlaceEnds(c, "reference")
  BY <1>1, <1>2, PlaceFails
<1>3. CASE /\ order.id \in Countries /\ order.regions \subseteq region
           /\ PlaceStep(c, [placeCall[c] EXCEPT !.pc = "links", !.drop = drop])
  <2>1. PICK call : call = [placeCall[c] EXCEPT !.pc = "links", !.drop = drop]
    OBVIOUS
  <2>2. placeCall[c].pc = "first" /\ order.kind = "replace regions" /\ PlaceCallFits(placeCall[c])
    BY DEF ReadRegions, AtStep, PlaceCallsFit
  <2>7. placeCall[c].held = {}
    BY <2>2 DEF PlaceCallFits, PlaceCallTyped, RowsHeld, PlaceOrder
  <2>3. /\ call.pc = "links" /\ call.order = order /\ call.held = {} /\ call.id = placeCall[c].id /\ call.out = placeCall[c].out
        /\ call = [pc |-> "links", order |-> order, held |-> {}, drop |-> drop, id |-> call.id, out |-> call.out]
    BY <2>1, <2>2, <2>7 DEF PlaceCallFits, PlaceCallTyped, PlaceOrder
  <2>4. PlaceCallFits(call)
    BY <1>3, <2>2, <2>3 DEF PlaceCallFits, PlaceCallTyped, RowsHeld, RegionsFit, PublicationFits, WriteFits, Countries,
       PlaceOrder
  <2>5. \A other : PlacesApart(call, other) /\ PlacesApart(other, call)
    BY <2>2, <2>3 DEF PlacesApart
  <2>6. PlaceStep(c, call)
    BY <1>3, <2>1
  <2> QED
    BY <1>1, <2>4, <2>5, <2>6, PlaceReads
<1> QED
  BY <1>2, <1>3 DEF ReadRegions

\* UpsertCatalog: the next row of the file is locked, which nobody else has locked.
LEMMA PlaceUpserts ==
    ASSUME PlaceRowsFit, PlaceCallsFit, NEW c \in PlaceCalls, UpsertCatalog(c)
    PROVE  PlaceRowsFit' /\ PlaceCallsFit'
<1>1. /\ placeCall[c].pc = "first" /\ PlaceOrder(c).kind = "publish catalog"
      /\ PlaceCallFits(placeCall[c]) /\ WaitsFor(c) = {} /\ UNCHANGED placeTables
  BY DEF UpsertCatalog, AtStep, PlaceCallsFit
<1>2. PICK code \in NextRow(c) :
        PlaceStep(c, [placeCall[c] EXCEPT !.held = placeCall[c].held \cup {code},
                        !.pc = IF placeCall[c].held \cup {code} = FileCodes(PlaceOrder(c).file)
                               THEN "deletes" ELSE @])
  BY DEF UpsertCatalog
<1>3. PICK old, file, held : /\ old = placeCall[c] /\ file = PlaceOrder(c).file
                             /\ held = placeCall[c].held \cup {code}
  OBVIOUS
<1>4. PICK pc : pc = IF held = FileCodes(file) THEN "deletes" ELSE "first"
  OBVIOUS
<1>5. PICK call : call = [old EXCEPT !.held = held, !.pc = pc]
  OBVIOUS
<1>6. PlaceStep(c, call)
  BY <1>1, <1>2, <1>3, <1>4, <1>5
<1>7. /\ old = [pc |-> old.pc, order |-> old.order, held |-> old.held, drop |-> old.drop, id |-> old.id,
               out |-> old.out]
      /\ old.order = PlaceOrder(c) /\ old.order.kind = "publish catalog" /\ old.order \in PlaceOrders
  BY <1>1, <1>3 DEF PlaceCallFits, PlaceCallTyped, PlaceOrder
<1>8. /\ call.pc = pc /\ call.order = PlaceOrder(c) /\ call.held = held
      /\ call = [pc |-> call.pc, order |-> call.order, held |-> call.held, drop |-> call.drop, id |-> call.id, out |-> call.out]
  BY <1>5, <1>7
<1>9. RowsHeld(call)
  <2>1. /\ placeCall[c].held \subseteq FileCodes(file)
        /\ \A r \in placeCall[c].held, s \in FileCodes(file) \ placeCall[c].held : ComesBefore(file, r, s)
    BY <1>1, <1>3 DEF PlaceCallFits, PlaceCallTyped, RowsHeld, PlaceOrder
  <2>2. /\ code \in FileCodes(file)
        /\ \A s \in (FileCodes(file) \ placeCall[c].held) \ {code} : ComesBefore(file, code, s)
    BY <1>2, <1>3 DEF NextRow
  <2>3. call.order.file = file /\ call.order.kind = "publish catalog"
    BY <1>1, <1>3, <1>8
  <2>4. held \subseteq FileCodes(file)
    BY <1>3, <2>1, <2>2
  <2>5. \A r \in held, s \in FileCodes(file) \ held : ComesBefore(file, r, s)
    BY <1>3, <2>1, <2>2
  <2>6. pc # "first" => held = FileCodes(file)
    BY <1>4
  <2> QED
    BY <1>8, <2>3, <2>4, <2>5, <2>6 DEF RowsHeld
<1>10. PlaceCallFits(call)
  BY <1>1, <1>4, <1>7, <1>8, <1>9 DEF PlaceCallFits, PlaceCallTyped, RegionsFit, PublicationFits, WriteFits
<1>11. ASSUME NEW d \in PlaceCalls \ {c}
       PROVE  PlacesApart(call, placeCall[d]) /\ PlacesApart(placeCall[d], call)
  <2>1. ~Locks(d, NextRow(c)) /\ ~Removes(d, NextRow(c))
    BY <1>1, <1>11, WaitsOfFirst DEF WaitsFor
  <2>2. code \notin placeCall[d].held
    BY <1>2, <2>1 DEF Locks
  <2>3. placeCall[d].pc = "commit" /\ placeCall[d].order.kind = "publish catalog" => code \notin placeCall[d].drop
    BY <1>2, <2>1 DEF Removes, AtStep, PlaceOrder
  <2>4. PlacesApart(placeCall[c], placeCall[d]) /\ PlacesApart(placeCall[d], placeCall[c])
    BY <1>11 DEF PlaceCallsFit
  <2>5. placeCall[c].order.kind = "publish catalog" /\ call.pc # "commit" /\ call.order.kind = "publish catalog"
    BY <1>1, <1>4, <1>8 DEF PlaceOrder
  <2>6. \A x : x \in call.held => x \in placeCall[c].held \/ x = code
    BY <1>3, <1>8
  <2>7. PICK other : other = placeCall[d]
    OBVIOUS
  <2>8. /\ call.held \cap other.held = {} /\ other.held \cap call.held = {}
        /\ other.pc = "commit" /\ other.order.kind = "publish catalog" => other.drop \cap call.held = {}
    BY <2>2, <2>3, <2>4, <2>5, <2>6, <2>7 DEF PlacesApart
  <2>9. PlacesApart(call, other) /\ PlacesApart(other, call)
    BY <2>5, <2>8 DEF PlacesApart
  <2> QED
    BY <2>7, <2>9
<1> QED
  BY <1>1, <1>6, <1>10, <1>11, PlaceReads


LEMMA WaitsOfLater ==
    ASSUME NEW c, NEW d, c \in PlaceCalls
    PROVE  /\ AtStep(c, "deletes", "publish catalog") =>
                (Waits(c, d) <=> RefersTo(d, DroppedCodes(c)) \/ Locks(d, DroppedCodes(c)))
           /\ AtStep(c, "commit", "publish catalog") =>
                (Waits(c, d) <=> d \in WritesOrganization
                                   /\ \E l \in placeCall[d].drop : l.tag \in MovedTags(c))
           /\ c \in WritesOrganization =>
                (Waits(c, d) <=> LocksInRelease(d, NextTag(c)) \/ Removes(d, NextTag(c)))
<1>1. AtStep(c, "deletes", "publish catalog") =>
        (Waits(c, d) <=> RefersTo(d, DroppedCodes(c)) \/ Locks(d, DroppedCodes(c)))
  BY DEF Waits, AtStep, WritesOrganization, Under
<1>2. AtStep(c, "commit", "publish catalog") =>
        (Waits(c, d) <=> d \in WritesOrganization /\ \E l \in placeCall[d].drop : l.tag \in MovedTags(c))
  BY DEF Waits, AtStep, WritesOrganization, Under
<1>3. c \in WritesOrganization =>
        (Waits(c, d) <=> LocksInRelease(d, NextTag(c)) \/ Removes(d, NextTag(c)))
  BY DEF Waits, AtStep, WritesOrganization, Under
<1> QED
  BY <1>1, <1>2, <1>3

\* DeleteCatalogCodes: what is dropped is free, and no row is about to refer to it.
LEMMA PlaceDeletes ==
    ASSUME PlaceRowsFit, PlaceCallsFit, NEW c \in PlaceCalls, DeleteCatalogCodes(c)
    PROVE  PlaceRowsFit' /\ PlaceCallsFit'
<1> DEFINE drop == DroppedCodes(c)
<1>1. UNCHANGED placeTables
  BY DEF DeleteCatalogCodes
<1>2. /\ placeCall[c].pc = "deletes" /\ PlaceOrder(c).kind = "publish catalog"
      /\ PlaceCallFits(placeCall[c]) /\ WaitsFor(c) = {}
  BY DEF DeleteCatalogCodes, AtStep, PlaceCallsFit
<1>3. CASE PlaceEnds(c, "failed")
  BY <1>1, <1>3, PlaceFails
<1>4. CASE /\ ~(\/ \E o \in Organizations : {organization[o].category, organization[o].function} \cap drop # {}
                \/ \E l \in tagLink : l.tag \in drop)
           /\ PlaceStep(c, [placeCall[c] EXCEPT !.pc = "commit", !.drop = drop])
  <2>1. PICK codes : codes = drop
    OBVIOUS
  <2>2. PICK call : call = [placeCall[c] EXCEPT !.pc = "commit", !.drop = codes]
    OBVIOUS
  <2>3. /\ call.pc = "commit" /\ call.order = PlaceOrder(c) /\ call.drop = codes
        /\ call.held = placeCall[c].held
        /\ call = [pc |-> call.pc, order |-> call.order, held |-> call.held, drop |-> call.drop, id |-> call.id, out |-> call.out]
    BY <1>2, <2>2 DEF PlaceCallFits, PlaceCallTyped, PlaceOrder
  <2>4. Unreferred(codes)
    BY <1>4, <2>1 DEF Unreferred, Organizations
  <2>5. codes = DroppedBy(PlaceOrder(c).file)
    BY <2>1 DEF DroppedCodes, DroppedBy
  <2>6. PlaceCallFits(call)
    BY <1>2, <2>3, <2>4, <2>5 DEF PlaceCallFits, PlaceCallTyped, RowsHeld, RegionsFit, PublicationFits, WriteFits,
       PlaceOrder
  <2>7. ASSUME NEW d \in PlaceCalls, d # c
        PROVE  PlacesApart(call, placeCall[d]) /\ PlacesApart(placeCall[d], call)
    <3>1. ~Publishing(placeCall[d])
      BY <1>2, <2>7, OnePublishes DEF Publishing, PlaceOrder
    <3>2. ~RefersTo(d, codes) /\ ~Locks(d, codes)
      BY <1>2, <2>1, <2>7, WaitsOfLater DEF WaitsFor, AtStep
    <3>4. PlacesApart(placeCall[c], placeCall[d]) /\ PlacesApart(placeCall[d], placeCall[c])
      BY <2>7 DEF PlaceCallsFit
    <3>3. placeCall[d].pc = "commit" /\ placeCall[d].order.kind = "update organization" =>
            placeCall[d].order.category \notin codes /\ placeCall[d].order.function \notin codes
      BY <3>2 DEF RefersTo, AtStep, PlaceOrder
    <3> QED
      BY <1>2, <2>3, <3>1, <3>2, <3>3, <3>4 DEF PlacesApart, Publishing, Locks, PlaceOrder
  <2>8. PlaceStep(c, call)
    BY <1>4, <2>1, <2>2
  <2> QED
    BY <1>1, <2>6, <2>7, <2>8, PlaceReads
<1> QED
  BY <1>3, <1>4 DEF DeleteCatalogCodes

\* The catalogue that a publication leaves is the file.
LEMMA CatalogIsTheFile ==
    ASSUME NEW file \in FileRow, NEW old \in FileRow, NEW next, NEW drop,
           drop = FileCodes(old) \ FileCodes(file),
           next = [categories |-> (old.categories \ drop) \cup file.categories,
                   functions |-> (old.functions \ drop) \cup file.functions,
                   tag |-> [t \in TagCodes |->
                              CASE t \in TagsOf(file) -> file.tag[t]
                                [] t \in drop \ TagsOf(file) -> NoText
                                [] OTHER -> old.tag[t]]]
    PROVE  next = file
<1>1. /\ file = [categories |-> file.categories, functions |-> file.functions, tag |-> file.tag]
      /\ file.categories \subseteq CategoryCodes /\ file.functions \subseteq FunctionCodes
      /\ file.tag \in [TagCodes -> FunctionCodes \cup {NoText}]
      /\ old.categories \subseteq CategoryCodes /\ old.functions \subseteq FunctionCodes
      /\ old.tag \in [TagCodes -> FunctionCodes \cup {NoText}]
  BY DEF FileRow
<1>2. next.categories = file.categories
  BY <1>1, ReleasedFiles DEF FileCodes, CatalogCodes, TagsOf
<1>3. next.functions = file.functions
  BY <1>1, ReleasedFiles DEF FileCodes, CatalogCodes, TagsOf
<1>4. ASSUME NEW t \in TagCodes
      PROVE  next.tag[t] = file.tag[t]
  <2>1. CASE t \in TagsOf(file)
    BY <2>1
  <2>2. CASE t \notin TagsOf(file) /\ t \in drop
    BY <2>2 DEF TagsOf
  <2>3. CASE t \notin TagsOf(file) /\ t \notin drop
    <3>1. next.tag[t] = old.tag[t]
      BY <2>3
    <3>2. t \notin CatalogCodes(file)
      BY <1>1, ReleasedFiles DEF CatalogCodes
    <3>3. t \notin TagsOf(old)
      BY <2>3, <3>2 DEF FileCodes
    <3> QED
      BY <2>3, <3>1, <3>3 DEF TagsOf
  <2> QED
    BY <2>1, <2>2, <2>3
<1>5. next.tag = file.tag
  <2>1. next.tag = [t \in TagCodes |-> next.tag[t]]
    OBVIOUS
  <2>2. file.tag = [t \in TagCodes |-> file.tag[t]]
    BY <1>1
  <2> QED
    BY <1>4, <2>1, <2>2
<1> QED
  BY <1>1, <1>2, <1>3, <1>5


\* A code that is not dropped is in the file.
LEMMA KeptCodes ==
    ASSUME catalog \in FileRow, NEW file \in FileRow, NEW code, code \notin DroppedBy(file)
    PROVE  /\ code \in catalog.categories => code \in file.categories
           /\ code \in catalog.functions => code \in file.functions
           /\ code \in TagsOf(catalog) => code \in TagsOf(file)
<1>1. /\ catalog.categories \subseteq CategoryCodes /\ catalog.functions \subseteq FunctionCodes
      /\ file.categories \subseteq CategoryCodes /\ file.functions \subseteq FunctionCodes
      /\ TagsOf(catalog) \subseteq TagCodes /\ TagsOf(file) \subseteq TagCodes
  BY DEF FileRow, TagsOf
<1>2. code \in CatalogCodes(catalog) \cup TagsOf(catalog) => code \in CatalogCodes(file) \cup TagsOf(file)
  BY DEF DroppedBy, FileCodes
<1> QED
  BY <1>1, <1>2, ReleasedFiles DEF CatalogCodes

LEMMA PlaceCommitsCatalog ==
    ASSUME PlaceRowsFit, PlaceCallsFit, NEW c \in PlaceCalls, CommitCatalog(c)
    PROVE  PlaceRowsFit' /\ PlaceCallsFit'
<1> DEFINE drop == placeCall[c].drop
           kept == /\ ~\E l \in tagLink : l.tag \in MovedTags(c)
                   /\ PlaceEnds(c, "done")
                   /\ catalog' = [categories |-> (catalog.categories \ drop) \cup PlaceOrder(c).file.categories,
                                  functions |-> (catalog.functions \ drop) \cup PlaceOrder(c).file.functions,
                                  tag |-> [t \in TagCodes |->
                                     CASE t \in TagsOf(PlaceOrder(c).file) -> PlaceOrder(c).file.tag[t]
                                       [] t \in drop \ TagsOf(PlaceOrder(c).file) -> NoText
                                       [] OTHER -> catalog.tag[t]]]
<1>1. /\ placeCall[c].pc = "commit" /\ PlaceOrder(c).kind = "publish catalog"
      /\ PlaceCallFits(placeCall[c])
      /\ UNCHANGED <<region, country, regionLink, organization, tagLink, member, placeWrites>>
  BY DEF CommitCatalog, AtStep, PlaceCallsFit
<1>9. kept \/ (PlaceEnds(c, "failed") /\ UNCHANGED catalog)
  BY Zenon DEF CommitCatalog
<1>2. CASE PlaceEnds(c, "failed") /\ UNCHANGED catalog
  <2>1. UNCHANGED placeTables
    BY <1>1, <1>2 DEF placeTables
  <2> QED
    BY <1>2, <2>1, PlaceFails
<1>3. CASE kept
  <2>1. PICK file : file = PlaceOrder(c).file
    OBVIOUS
  <2>2. file \in OrganizationFiles /\ file \in FileRow /\ catalog \in FileRow
    BY <1>1, <2>1, PlaceOrderFields, ReleasedFiles DEF PlaceCallFits, PlaceCallTyped, PlaceOrder, PlaceRowsFit
  <2>3. drop = DroppedBy(file) /\ Unreferred(drop)
    BY <1>1, <2>1 DEF PlaceCallFits, PublicationFits, PlaceOrder
  <2>4. PICK old, codes : old = catalog /\ codes = drop
    OBVIOUS
  <2>5. catalog' = file
    <3>1. codes = FileCodes(old) \ FileCodes(file)
      BY <2>3, <2>4 DEF DroppedBy
    <3>2. PICK next : next = catalog'
      OBVIOUS
    <3>3. next = [categories |-> (old.categories \ codes) \cup file.categories,
                  functions |-> (old.functions \ codes) \cup file.functions,
                  tag |-> [t \in TagCodes |->
                             CASE t \in TagsOf(file) -> file.tag[t]
                               [] t \in codes \ TagsOf(file) -> NoText
                               [] OTHER -> old.tag[t]]]
      BY <1>3, <2>1, <2>4, <3>2
    <3>4. old \in FileRow
      BY <2>2, <2>4
    <3>5. next = file
      BY <2>2, <3>1, <3>3, <3>4, CatalogIsTheFile
    <3> QED
      BY <3>2, <3>5
  <2>6. OrganizationRows'
    <3>1. SUFFICES ASSUME NEW o \in OrganizationIds, organization[o] # NoOrganization
                   PROVE  ReferencesExist(organization[o])'
      BY <1>1 DEF PlaceRowsFit, OrganizationRows
    <3>2. ReferencesExist(organization[o])
      BY <3>1 DEF PlaceRowsFit, OrganizationRows
    <3>3. organization[o].category \notin DroppedBy(file) /\ organization[o].function \notin DroppedBy(file)
      BY <2>3, <3>1 DEF Unreferred
    <3>4. organization[o].category \in file.categories /\ organization[o].function \in file.functions
      BY <2>2, <3>2, <3>3, KeptCodes DEF ReferencesExist
    <3> QED
      BY <1>1, <2>5, <3>2, <3>4 DEF ReferencesExist
  <2>7. LinkRows'
    <3>1. SUFFICES ASSUME NEW l \in tagLink
                   PROVE  file.tag[l.tag] = catalog.tag[l.tag]
      BY <1>1, <2>5 DEF PlaceRowsFit, LinkRows
    <3>2. /\ l.tag \in TagCodes /\ l.function = catalog.tag[l.tag] /\ l.organization \in OrganizationIds
          /\ l.function = organization[l.organization].function /\ organization[l.organization] # NoOrganization
      BY <3>1 DEF PlaceRowsFit, LinkRows
    <3>3. organization[l.organization] \in OrganizationRow
      BY <3>2 DEF PlaceRowsFit, OrganizationRows
    <3>4. l.function # NoText
      BY <3>2, <3>3, PlaceRowFacts DEF OrganizationRow
    <3>5. l.tag \in TagsOf(catalog)
      BY <3>2, <3>4 DEF TagsOf
    <3>6. l.tag \in TagsOf(file)
      BY <2>2, <2>3, <3>1, <3>5, KeptCodes DEF Unreferred
    <3>7. l.tag \notin MovedTags(c)
      BY <1>3, <3>1
    <3> QED
      BY <2>1, <3>5, <3>6, <3>7 DEF MovedTags
  <2>8. RegionRows' /\ MemberRows'
    BY <1>1 DEF PlaceRowsFit, RegionRows, MemberRows
  <2>9. ASSUME NEW d \in PlaceCalls \ {c}
        PROVE  PlaceCallFits(placeCall[d])'
    <3>1. placeCall'[d] = placeCall[d] /\ PlaceCallFits(placeCall[d])
      BY <1>3, <2>9 DEF PlaceCallsFit, PlaceEnds, PlaceStep
    <3>2. ~Publishing(placeCall[d])
      BY <1>1, <2>9, OnePublishes DEF Publishing, PlaceOrder
    <3>3. PlaceCallTyped(placeCall[d])' /\ RegionsFit(placeCall[d])' /\ PublicationFits(placeCall[d])'
      BY <1>1, <3>1, <3>2 DEF PlaceCallFits, PlaceCallTyped, RegionsFit, PublicationFits, Publishing
    <3>4. ASSUME placeCall[d].pc = "commit", placeCall[d].order.kind = "update organization"
          PROVE  ReferencesExist(placeCall[d].order)'
      <4>1. ReferencesExist(placeCall[d].order)
        BY <3>1, <3>4 DEF PlaceCallFits, WriteFits
      <4>2. placeCall[d].order.category \notin DroppedBy(file) /\ placeCall[d].order.function \notin DroppedBy(file)
        BY <1>1, <2>3, <2>9, <3>4 DEF PlaceCallsFit, PlacesApart, PlaceOrder
      <4>3. placeCall[d].order.category \in file.categories /\ placeCall[d].order.function \in file.functions
        BY <2>2, <4>1, <4>2, KeptCodes DEF ReferencesExist
      <4> QED
        BY <1>1, <2>5, <3>1, <4>1, <4>3 DEF ReferencesExist
    <3>5. WriteFits(placeCall[d])'
      BY <1>1, <3>1, <3>4 DEF PlaceCallFits, WriteFits
    <3> QED
      BY <3>3, <3>5 DEF PlaceCallFits
  <2>10. PlaceCallsFit'
    BY <1>3, <2>9, PlaceCallEnds
  <2> QED
    BY <2>2, <2>5, <2>6, <2>7, <2>8, <2>10 DEF PlaceRowsFit
<1> QED
  BY <1>9, <1>2, <1>3


\* Regions and countries that are added take nothing from a call.
LEMMA RegionsGrow ==
    ASSUME PlaceRowsFit, PlaceCallsFit, NEW c \in PlaceCalls, NEW out, PlaceEnds(c, out),
           UNCHANGED <<catalog, organization, tagLink, member>>,
           region \subseteq region',
           \A k : k \in CountryIds /\ country[k] # NoText => country'[k] # NoText,
           RegionRows'
    PROVE  PlaceRowsFit' /\ PlaceCallsFit'
<1>1. OrganizationRows' /\ LinkRows' /\ MemberRows' /\ catalog' \in OrganizationFiles
  BY DEF PlaceRowsFit, OrganizationRows, LinkRows, MemberRows, ReferencesExist
<1>2. ASSUME NEW d \in PlaceCalls \ {c}
      PROVE  PlaceCallFits(placeCall[d])'
  <2>1. placeCall'[d] = placeCall[d] /\ PlaceCallFits(placeCall[d])
    BY <1>2 DEF PlaceCallsFit, PlaceEnds, PlaceStep
  <2>2. PlaceCallTyped(placeCall[d])' /\ PublicationFits(placeCall[d])' /\ WriteFits(placeCall[d])'
    BY <2>1 DEF PlaceCallFits, PlaceCallTyped, PublicationFits, WriteFits, DroppedBy, Unreferred,
       ReferencesExist
  <2>3. placeCall[d].pc = "links" => placeCall[d].order.id \in CountryIds
    BY <2>1, PlaceOrderFields DEF PlaceCallFits, PlaceCallTyped
  <2>4. RegionsFit(placeCall[d])'
    BY <2>1, <2>3 DEF PlaceCallFits, RegionsFit
  <2> QED
    BY <2>2, <2>4 DEF PlaceCallFits
<1>3. PlaceCallsFit'
  BY <1>2, PlaceCallEnds
<1> QED
  BY <1>1, <1>3 DEF PlaceRowsFit

LEMMA FirstStep ==
    ASSUME PlaceCallsFit, NEW c \in PlaceCalls, NEW kind, AtStep(c, "first", kind)
    PROVE  placeCall[c].pc = "first" /\ PlaceOrder(c).kind = kind /\ PlaceOrder(c) \in PlaceOrders
  BY DEF AtStep, PlaceCallsFit, PlaceCallFits, PlaceCallTyped, PlaceOrder

LEMMA PlaceCreatesRegion ==
    ASSUME PlaceRowsFit, PlaceCallsFit, NEW c \in PlaceCalls, CreateRegion(c)
    PROVE  PlaceRowsFit' /\ PlaceCallsFit'
<1>1. AtStep(c, "first", "create region")
  BY DEF CreateRegion
<1>2. PlaceOrder(c).code \in RegionCodes
  BY <1>1, FirstStep, PlaceOrderFields
<1>3. PICK out : out = IF PlaceOrder(c).code \in region THEN "conflict" ELSE "done"
  OBVIOUS
<1>4. PlaceEnds(c, out) /\ region' = region \cup {PlaceOrder(c).code}
      /\ UNCHANGED <<country, regionLink, catalog, organization, tagLink, member>>
  BY <1>3 DEF CreateRegion
<1>5. RegionRows'
  BY <1>2, <1>4 DEF PlaceRowsFit, RegionRows
<1>6. region \subseteq region' /\ \A k : k \in CountryIds /\ country[k] # NoText => country'[k] # NoText
  BY <1>4
<1> QED
  BY <1>4, <1>5, <1>6, RegionsGrow

LEMMA PlaceWritesCountry ==
    ASSUME PlaceRowsFit, PlaceCallsFit, NEW c \in PlaceCalls, CreateCountry(c) \/ UpdateCountry(c)
    PROVE  PlaceRowsFit' /\ PlaceCallsFit'
<1>1. PICK kind \in {"create country", "update country"} : AtStep(c, "first", kind)
  BY DEF CreateCountry, UpdateCountry
<1>2. PlaceOrder(c).text \in PlaceTexts
  BY <1>1, FirstStep, PlaceOrderFields
<1>3. CASE PlaceEnds(c, "not found") /\ UNCHANGED placeTables
  BY <1>3, PlaceFails
<1>4. ASSUME NEW k \in CountryIds, country' = [country EXCEPT ![k] = PlaceOrder(c).text],
             PlaceEnds(c, "done"), UNCHANGED <<region, regionLink, catalog, organization, tagLink, member>>
      PROVE  PlaceRowsFit' /\ PlaceCallsFit'
  <2>1. PICK text : text = PlaceOrder(c).text
    OBVIOUS
  <2>2. country' = [country EXCEPT ![k] = text] /\ text \in PlaceTexts /\ text # NoText
    BY <1>2, <1>4, <2>1, PlaceRowFacts
  <2>3. country \in [CountryIds -> PlaceTexts \cup {NoText}]
    BY DEF PlaceRowsFit, RegionRows
  <2>4. \A j : j \in CountryIds /\ country[j] # NoText => country'[j] # NoText
    BY <2>2, <2>3
  <2>5. RegionRows'
    <3>1. country' \in [CountryIds -> PlaceTexts \cup {NoText}]
      BY <2>2, <2>3
    <3> QED
      BY <1>4, <2>4, <3>1 DEF PlaceRowsFit, RegionRows
  <2> QED
    BY <1>4, <2>4, <2>5, RegionsGrow
<1>5. CASE PlaceEnds(c, "conflict") /\ UNCHANGED placeTables
  BY <1>5, PlaceFails
<1> QED
  BY <1>3, <1>4, <1>5 DEF CreateCountry, UpdateCountry, Countries, placeTables

\* ReplaceRegions: the country and the regions are there, as they were counted.
LEMMA PlaceReplacesRegions ==
    ASSUME PlaceRowsFit, PlaceCallsFit, NEW c \in PlaceCalls, ReplaceRegions(c)
    PROVE  PlaceRowsFit' /\ PlaceCallsFit'
<1>1. /\ placeCall[c].pc = "links" /\ PlaceOrder(c).kind = "replace regions" /\ PlaceEnds(c, "done")
      /\ regionLink' = (regionLink \ placeCall[c].drop)
                         \cup {<<PlaceOrder(c).id, r>> : r \in PlaceOrder(c).regions}
      /\ UNCHANGED <<region, country, catalog, organization, tagLink, member>>
  BY DEF ReplaceRegions, AtStep
<1>2. /\ PlaceOrder(c).id \in CountryIds /\ country[PlaceOrder(c).id] # NoText
      /\ PlaceOrder(c).regions \subseteq region
  BY <1>1, PlaceOrderFields DEF PlaceCallsFit, PlaceCallFits, PlaceCallTyped, RegionsFit, PlaceOrder
<1>3. RegionRows'
  <2>1. RegionRows
    BY DEF PlaceRowsFit
  <2>2. ASSUME NEW p \in regionLink'
        PROVE  p \in CountryIds \X RegionCodes /\ country[p[1]] # NoText /\ p[2] \in region
    <3>1. CASE p \in regionLink
      BY <2>1, <3>1 DEF RegionRows
    <3>2. CASE \E r \in PlaceOrder(c).regions : p = <<PlaceOrder(c).id, r>>
      <4>1. PICK r \in PlaceOrder(c).regions : p = <<PlaceOrder(c).id, r>>
        BY <3>2
      <4>2. p[1] = PlaceOrder(c).id /\ p[2] = r /\ r \in region /\ r \in RegionCodes
        BY <1>2, <2>1, <4>1 DEF RegionRows
      <4> QED
        BY <1>2, <4>1, <4>2
    <3> QED
      BY <1>1, <2>2, <3>1, <3>2
  <2> QED
    BY <1>1, <2>1, <2>2 DEF RegionRows
<1>4. region \subseteq region' /\ \A k : k \in CountryIds /\ country[k] # NoText => country'[k] # NoText
  BY <1>1
<1> QED
  BY <1>1, <1>3, <1>4, RegionsGrow

\* PublishRegions: nothing refers to a region, nor is about to.
LEMMA PlacePublishesRegions ==
    ASSUME PlaceRowsFit, PlaceCallsFit, NEW c \in PlaceCalls, PublishRegions(c)
    PROVE  PlaceRowsFit' /\ PlaceCallsFit'
<1>1. /\ placeCall[c].pc = "first" /\ PlaceOrder(c).kind = "publish regions" /\ WaitsFor(c) = {}
      /\ PlaceOrder(c) \in PlaceOrders
  BY FirstStep DEF PublishRegions
<1>2. PlaceOrder(c).codes \subseteq RegionCodes
  BY <1>1, PlaceOrderFields
<1>3. CASE PlaceEnds(c, "failed") /\ UNCHANGED placeTables
  BY <1>3, PlaceFails
<1>4. CASE /\ ~\E p \in regionLink : p[2] \in region
           /\ ~\E o \in Organizations : organization[o].region \in region
           /\ PlaceEnds(c, "done") /\ region' = PlaceOrder(c).codes
           /\ UNCHANGED <<country, regionLink, catalog, organization, tagLink, member>>
  <2>1. RegionRows'
    BY <1>2, <1>4 DEF PlaceRowsFit, RegionRows
  <2>2. OrganizationRows'
    BY <1>4 DEF PlaceRowsFit, OrganizationRows, Organizations, ReferencesExist
  <2>3. LinkRows' /\ MemberRows' /\ catalog' \in OrganizationFiles
    BY <1>4 DEF PlaceRowsFit, LinkRows, MemberRows
  <2>4. ASSUME NEW d \in PlaceCalls \ {c}
        PROVE  PlaceCallFits(placeCall[d])'
    <3>1. placeCall'[d] = placeCall[d] /\ PlaceCallFits(placeCall[d])
      BY <1>4, <2>4 DEF PlaceCallsFit, PlaceEnds, PlaceStep
    <3>2. d \notin ReadsRegions /\ ~(AtStep(d, "commit", "update organization") /\ PlaceOrder(d).region # NoText)
      BY <1>1, <2>4, WaitsOfFirst DEF WaitsFor
    <3>3. placeCall[d].pc # "links"
      BY <2>4, <3>1, <3>2 DEF ReadsRegions, Under, AtStep, PlaceOrder, PlaceCallFits, PlaceCallTyped
    <3>4. placeCall[d].pc = "commit" /\ placeCall[d].order.kind = "update organization" =>
            placeCall[d].order.region = NoText
      BY <3>2 DEF AtStep, PlaceOrder
    <3> QED
      BY <1>4, <3>1, <3>3, <3>4 DEF PlaceCallFits, PlaceCallTyped, RowsHeld, RegionsFit, PublicationFits, WriteFits,
         DroppedBy, Unreferred, ReferencesExist
  <2>5. PlaceCallsFit'
    BY <1>4, <2>4, PlaceCallEnds
  <2> QED
    BY <2>1, <2>2, <2>3, <2>5 DEF PlaceRowsFit
<1> QED
  BY <1>3, <1>4 DEF PublishRegions, placeTables


\* A row that is written refers to what is there, and no publication drops it.
LEMMA OrganizationsChange ==
    ASSUME PlaceRowsFit, PlaceCallsFit, NEW c \in PlaceCalls, NEW out, PlaceEnds(c, out),
           UNCHANGED <<region, country, regionLink, catalog, member>>,
           NEW o \in OrganizationIds, NEW row \in OrganizationRow, ReferencesExist(row),
           organization' = [organization EXCEPT ![o] = row], LinkRows',
           \A d \in PlaceCalls \ {c} :
             placeCall[d].pc = "commit" /\ placeCall[d].order.kind = "publish catalog" =>
               /\ row.category \notin placeCall[d].drop /\ row.function \notin placeCall[d].drop
               /\ \A l \in tagLink' : l.tag \notin placeCall[d].drop
    PROVE  PlaceRowsFit' /\ PlaceCallsFit'
<1>1. /\ organization \in [OrganizationIds -> OrganizationRow \cup {NoOrganization}]
      /\ row # NoOrganization
  BY PlaceRowFacts DEF PlaceRowsFit, OrganizationRows
<1>2. PICK next : next = organization'
  OBVIOUS
<1>3. /\ next \in [OrganizationIds -> OrganizationRow \cup {NoOrganization}] /\ next[o] = row
      /\ \A i \in OrganizationIds \ {o} : next[i] = organization[i]
  BY <1>1, <1>2
<1>4. OrganizationRows'
  BY <1>1, <1>2, <1>3 DEF PlaceRowsFit, OrganizationRows, ReferencesExist
<1>5. RegionRows' /\ MemberRows' /\ catalog' \in OrganizationFiles
  BY DEF PlaceRowsFit, RegionRows, MemberRows
<1>6. ASSUME NEW d \in PlaceCalls \ {c}
      PROVE  PlaceCallFits(placeCall[d])'
  <2>1. placeCall'[d] = placeCall[d] /\ PlaceCallFits(placeCall[d])
    BY <1>6 DEF PlaceCallsFit, PlaceEnds, PlaceStep
  <2>2. PlaceCallTyped(placeCall[d])' /\ RegionsFit(placeCall[d])'
    BY <2>1 DEF PlaceCallFits, PlaceCallTyped, RegionsFit
  <2>3. ASSUME placeCall[d].pc = "commit", placeCall[d].order.kind = "publish catalog"
        PROVE  placeCall[d].drop = DroppedBy(placeCall[d].order.file)' /\ Unreferred(placeCall[d].drop)'
    <3>1. placeCall[d].drop = DroppedBy(placeCall[d].order.file) /\ Unreferred(placeCall[d].drop)
      BY <2>1, <2>3 DEF PlaceCallFits, PublicationFits
    <3>2. placeCall[d].drop = DroppedBy(placeCall[d].order.file)'
      BY <2>1, <3>1 DEF DroppedBy
    <3>3. PICK drop : drop = placeCall[d].drop
      OBVIOUS
    <3>4. \A i \in OrganizationIds : next[i] # NoOrganization =>
            next[i].category \notin drop /\ next[i].function \notin drop
      BY <1>3, <1>6, <2>3, <3>1, <3>3 DEF Unreferred
    <3>5. \A l \in tagLink' : l.tag \notin drop
      BY <1>6, <2>3, <3>3
    <3>6. Unreferred(drop)'
      BY <1>2, <3>4, <3>5 DEF Unreferred
    <3> QED
      BY <2>1, <3>2, <3>3, <3>6
  <2>4. PublicationFits(placeCall[d])'
    BY <2>1, <2>3 DEF PublicationFits
  <2>5. WriteFits(placeCall[d])'
    <3>1. SUFFICES ASSUME placeCall[d].pc = "commit", placeCall[d].order.kind # "publish catalog"
                   PROVE  /\ next[placeCall[d].order.id] # NoOrganization
                          /\ placeCall[d].order.kind = "update organization" => ReferencesExist(placeCall[d].order)'
      BY <1>2, <2>1 DEF WriteFits
    <3>2. placeCall[d].order.id \in OrganizationIds /\ WriteFits(placeCall[d])
      BY <2>1, <3>1, PlaceOrderFields DEF PlaceCallFits, PlaceCallTyped
    <3>3. next[placeCall[d].order.id] # NoOrganization
      BY <1>1, <1>3, <3>1, <3>2 DEF WriteFits
    <3> QED
      BY <2>1, <3>1, <3>2, <3>3 DEF WriteFits, ReferencesExist
  <2> QED
    BY <2>2, <2>4, <2>5 DEF PlaceCallFits
<1>7. PlaceCallsFit'
  BY <1>6, PlaceCallEnds
<1> QED
  BY <1>4, <1>5, <1>7 DEF PlaceRowsFit

LEMMA RemovesNothing ==
    ASSUME NEW c \in PlaceCalls, NEW codes, NEW d \in PlaceCalls,
           ~Removes(d, codes), placeCall[d].pc = "commit", placeCall[d].order.kind = "publish catalog"
    PROVE  \A code \in codes : code \notin placeCall[d].drop
  BY DEF Removes, AtStep, PlaceOrder

LEMMA PlaceCreatesOrganization ==
    ASSUME PlaceRowsFit, PlaceCallsFit, NEW c \in PlaceCalls, CreateOrganization(c)
    PROVE  PlaceRowsFit' /\ PlaceCallsFit'
<1>1. /\ placeCall[c].pc = "first" /\ PlaceOrder(c).kind = "create organization" /\ WaitsFor(c) = {}
      /\ PlaceOrder(c) \in PlaceOrders
  BY FirstStep DEF CreateOrganization
<1>2. CASE (PlaceEnds(c, "conflict") \/ PlaceEnds(c, "reference")) /\ UNCHANGED placeTables
  BY <1>2, PlaceFails
<1>3. ASSUME ReferencesExist(PlaceOrder(c)), PlaceEnds(c, "done"), NEW o \in OrganizationIds \ Organizations,
             organization' = [organization EXCEPT ![o] =
               [region |-> PlaceOrder(c).region, category |-> PlaceOrder(c).category,
                function |-> PlaceOrder(c).function]],
             UNCHANGED <<region, country, regionLink, catalog, tagLink, member>>
      PROVE  PlaceRowsFit' /\ PlaceCallsFit'
  <2>1. PICK row : row = [region |-> PlaceOrder(c).region, category |-> PlaceOrder(c).category,
                          function |-> PlaceOrder(c).function]
    OBVIOUS
  <2>2. row \in OrganizationRow /\ ReferencesExist(row)
    BY <1>1, <1>3, <2>1, PlaceOrderFields DEF OrganizationRow, ReferencesExist
  <2>3. organization' = [organization EXCEPT ![o] = row]
    BY <1>3, <2>1
  <2>4. LinkRows'
    <3>1. ASSUME NEW l \in tagLink
          PROVE  l.organization \in OrganizationIds /\ organization'[l.organization] = organization[l.organization]
      <4>1. l.organization \in OrganizationIds /\ l.organization # o
        BY <1>3 DEF PlaceRowsFit, LinkRows, Organizations
      <4> QED
        BY <2>3, <4>1 DEF PlaceRowsFit, OrganizationRows
    <3> QED
      BY <1>3, <3>1 DEF PlaceRowsFit, LinkRows
  <2>5. ASSUME NEW d \in PlaceCalls \ {c},
               placeCall[d].pc = "commit", placeCall[d].order.kind = "publish catalog"
        PROVE  /\ row.category \notin placeCall[d].drop /\ row.function \notin placeCall[d].drop
               /\ \A l \in tagLink' : l.tag \notin placeCall[d].drop
    <3>1. ~Removes(d, {row.category, row.function})
      BY <1>1, <2>1, <2>5, WaitsOfFirst DEF WaitsFor
    <3>2. \A code \in {row.category, row.function} : code \notin placeCall[d].drop
      BY <2>5, <3>1, RemovesNothing
    <3>3. Unreferred(placeCall[d].drop)
      BY <2>5 DEF PlaceCallsFit, PlaceCallFits, PublicationFits
    <3> QED
      BY <1>3, <3>2, <3>3 DEF Unreferred
  <2> QED
    BY <1>3, <2>2, <2>3, <2>4, <2>5, OrganizationsChange
<1> QED
  BY <1>2, <1>3 DEF CreateOrganization, placeTables

\* WriteOrganization and ReadFunction: the row is locked, what it will refer to is there.
LEMMA PlaceLocksOrganization ==
    ASSUME PlaceRowsFit, PlaceCallsFit, NEW c \in PlaceCalls, NEW codes,
           placeCall[c].pc = "first", PlaceOrder(c).kind \in {"update organization", "replace tags"},
           UNCHANGED placeTables, WaitsFor(c) = {}, PlaceOrder(c).id \in Organizations,
           PlaceOrder(c).kind = "update organization" => ReferencesExist(PlaceOrder(c)),
           PlaceStep(c, [placeCall[c] EXCEPT !.pc = "commit", !.drop = codes])
    PROVE  PlaceRowsFit' /\ PlaceCallsFit'
<1>1. PICK call : call = [placeCall[c] EXCEPT !.pc = "commit", !.drop = codes]
  OBVIOUS
<1>2. PlaceCallFits(placeCall[c])
  BY DEF PlaceCallsFit
<1>7. placeCall[c].held = {}
  BY <1>2 DEF PlaceCallFits, PlaceCallTyped, RowsHeld, PlaceOrder
<1>3. /\ call.pc = "commit" /\ call.order = PlaceOrder(c) /\ call.held = {}
      /\ call = [pc |-> call.pc, order |-> call.order, held |-> call.held, drop |-> call.drop, id |-> call.id, out |-> call.out]
  BY <1>1, <1>2, <1>7 DEF PlaceCallFits, PlaceCallTyped, PlaceOrder
<1>4. PlaceCallFits(call)
  BY <1>2, <1>3 DEF PlaceCallFits, PlaceCallTyped, RowsHeld, RegionsFit, PublicationFits, WriteFits, PlaceOrder,
     Organizations
<1>5. ASSUME NEW d \in PlaceCalls \ {c}
      PROVE  PlacesApart(call, placeCall[d]) /\ PlacesApart(placeCall[d], call)
  <2>1. call.order.kind # "publish catalog"
    BY <1>3
  <2>2. ASSUME placeCall[d].pc = "commit", placeCall[d].order.kind = "publish catalog",
               call.order.kind = "update organization"
        PROVE  call.order.category \notin placeCall[d].drop /\ call.order.function \notin placeCall[d].drop
    <3>1. ~Removes(d, {PlaceOrder(c).category, PlaceOrder(c).function})
      BY <1>3, <1>5, <2>2, WaitsOfFirst DEF WaitsFor
    <3>2. \A code \in {PlaceOrder(c).category, PlaceOrder(c).function} : code \notin placeCall[d].drop
      BY <1>5, <2>2, <3>1, RemovesNothing
    <3> QED
      BY <1>3, <3>2
  <2> QED
    BY <1>3, <2>1, <2>2 DEF PlacesApart
<1>6. PlaceStep(c, call)
  BY <1>1
<1> QED
  BY <1>4, <1>5, <1>6, PlaceReads

LEMMA PlaceWritesOrganization ==
    ASSUME PlaceRowsFit, PlaceCallsFit, NEW c \in PlaceCalls, WriteOrganization(c) \/ ReadFunction(c)
    PROVE  PlaceRowsFit' /\ PlaceCallsFit'
<1>1. UNCHANGED placeTables /\ WaitsFor(c) = {}
  BY DEF WriteOrganization, ReadFunction
<1>2. PICK kind \in {"update organization", "replace tags"} : AtStep(c, "first", kind)
  BY DEF WriteOrganization, ReadFunction
<1>3. placeCall[c].pc = "first" /\ PlaceOrder(c).kind \in {"update organization", "replace tags"}
  BY <1>2, FirstStep
<1>4. CASE PlaceEnds(c, "not found") \/ PlaceEnds(c, "reference")
  BY <1>1, <1>4, PlaceFails
<1>5. CASE ~(PlaceEnds(c, "not found") \/ PlaceEnds(c, "reference"))
  <2>1. CASE WriteOrganization(c)
    <3>1. PlaceOrder(c).id \in Organizations /\ ReferencesExist(PlaceOrder(c))
      BY <1>5, <2>1 DEF WriteOrganization
    <3>2. PICK codes : PlaceStep(c, [placeCall[c] EXCEPT !.pc = "commit", !.drop = codes])
      BY <1>5, <2>1 DEF WriteOrganization
    <3> QED
      BY <1>1, <1>3, <3>1, <3>2, PlaceLocksOrganization
  <2>2. CASE ReadFunction(c)
    <3>1. PlaceOrder(c).id \in Organizations /\ PlaceOrder(c).kind = "replace tags"
      BY <1>5, <2>2 DEF ReadFunction, AtStep
    <3>2. PICK codes : PlaceStep(c, [placeCall[c] EXCEPT !.pc = "commit", !.drop = codes])
      BY <1>5, <2>2 DEF ReadFunction
    <3> QED
      BY <1>1, <1>3, <3>1, <3>2, PlaceLocksOrganization
  <2> QED
    BY <2>1, <2>2
<1> QED
  BY <1>4, <1>5


\* ShareTag: the tag is locked, which no release has locked or dropped.
LEMMA PlaceSharesTag ==
    ASSUME PlaceRowsFit, PlaceCallsFit, NEW c \in PlaceCalls, ShareTag(c)
    PROVE  PlaceRowsFit' /\ PlaceCallsFit'
<1>1. /\ c \in WritesOrganization /\ WaitsFor(c) = {} /\ UNCHANGED placeTables
      /\ placeCall[c].pc = "commit" /\ placeCall[c].order.kind \in {"update organization", "replace tags"}
      /\ PlaceCallFits(placeCall[c])
  BY DEF ShareTag, WritesOrganization, Under, AtStep, PlaceCallsFit, PlaceOrder
<1>2. CASE PlaceEnds(c, "reference")
  BY <1>1, <1>2, PlaceFails
<1>3. ASSUME NEW tag \in NextTag(c), PlaceStep(c, [placeCall[c] EXCEPT !.held = @ \cup {tag}])
      PROVE  PlaceRowsFit' /\ PlaceCallsFit'
  <2>1. PICK old, held : old = placeCall[c] /\ held = placeCall[c].held \cup {tag}
    OBVIOUS
  <2>2. PICK call : call = [old EXCEPT !.held = held]
    OBVIOUS
  <2>3. PlaceStep(c, call)
    BY <1>3, <2>1, <2>2
  <2>4. old = [pc |-> old.pc, order |-> old.order, held |-> old.held, drop |-> old.drop, id |-> old.id,
               out |-> old.out]
    BY <1>1, <2>1 DEF PlaceCallFits, PlaceCallTyped
  <2>5. /\ call.pc = "commit" /\ call.order = placeCall[c].order /\ call.held = held
        /\ call = [pc |-> call.pc, order |-> call.order, held |-> call.held, drop |-> call.drop, id |-> call.id, out |-> call.out]
    BY <1>1, <2>1, <2>2, <2>4
  <2>6. PlaceCallFits(call)
    BY <1>1, <2>5 DEF PlaceCallFits, PlaceCallTyped, RowsHeld, RegionsFit, PublicationFits, WriteFits
  <2>7. ASSUME NEW d \in PlaceCalls \ {c}
        PROVE  PlacesApart(call, placeCall[d]) /\ PlacesApart(placeCall[d], call)
    <3>1. ~LocksInRelease(d, NextTag(c)) /\ ~Removes(d, NextTag(c))
      BY <1>1, <2>7, WaitsOfLater DEF WaitsFor
    <3>2. placeCall[d].order.kind = "publish catalog" => tag \notin placeCall[d].held
      BY <1>3, <3>1 DEF LocksInRelease, Locks, PlaceOrder
    <3>3. placeCall[d].pc = "commit" /\ placeCall[d].order.kind = "publish catalog" => tag \notin placeCall[d].drop
      BY <1>3, <3>1 DEF Removes, AtStep, PlaceOrder
    <3>4. PlacesApart(placeCall[d], placeCall[c])
      BY <2>7 DEF PlaceCallsFit
    <3>5. \A x : x \in call.held => x \in placeCall[c].held \/ x = tag
      BY <2>1, <2>5
    <3>6. PICK other : other = placeCall[d]
      OBVIOUS
    <3>7. /\ other.order.kind = "publish catalog" => other.held \cap call.held = {}
          /\ other.pc = "commit" /\ other.order.kind = "publish catalog" => other.drop \cap call.held = {}
      BY <3>2, <3>3, <3>4, <3>5, <3>6 DEF PlacesApart
    <3>8. PlacesApart(call, other) /\ PlacesApart(other, call)
      BY <1>1, <2>5, <3>4, <3>6, <3>7 DEF PlacesApart
    <3> QED
      BY <3>6, <3>8
  <2> QED
    BY <1>1, <2>3, <2>6, <2>7, PlaceReads
<1> QED
  BY <1>2, <1>3, Zenon DEF ShareTag


\* CommitOrganization: the links have been compared with all rows, and no tag is dropped.
LEMMA PlaceCommitsOrganization ==
    ASSUME PlaceRowsFit, PlaceCallsFit, NEW c \in PlaceCalls, CommitOrganization(c)
    PROVE  PlaceRowsFit' /\ PlaceCallsFit'
<1> DEFINE order == PlaceOrder(c)
           o == order.id
           made == WrittenRow(c)
           rows == [organization EXCEPT ![o] = made]
           new == IF order.tags = KeepTags THEN {}
                  ELSE {[organization |-> o, function |-> made.function, tag |-> t] : t \in AskedTags(order)}
           links == (tagLink \ placeCall[c].drop) \cup new
<1>1. /\ placeCall[c].pc = "commit" /\ order.kind \in {"update organization", "replace tags"}
      /\ TagsLeft(c) = {} /\ UNCHANGED <<region, country, regionLink, catalog, member>>
  BY DEF CommitOrganization, WritesOrganization, Under, AtStep
<1>2. \/ PlaceEnds(c, "reference") /\ UNCHANGED <<organization, tagLink>>
      \/ LinksAgree(links, rows) /\ PlaceEnds(c, "done") /\ organization' = rows /\ tagLink' = links
  BY Zenon DEF CommitOrganization
<1>3. CASE PlaceEnds(c, "reference") /\ UNCHANGED <<organization, tagLink>>
  <2>1. UNCHANGED placeTables
    BY <1>1, <1>3 DEF placeTables
  <2> QED
    BY <1>3, <2>1, PlaceFails
<1>4. CASE LinksAgree(links, rows) /\ PlaceEnds(c, "done") /\ organization' = rows /\ tagLink' = links
  <2>1. PICK row : row = made
    OBVIOUS
  <2>2. PICK id : id = o
    OBVIOUS
  <2>3. /\ order \in PlaceOrders /\ id \in OrganizationIds /\ organization[id] # NoOrganization
        /\ order.kind = "update organization" => ReferencesExist(order)
        /\ order.tags = KeepTags \/ AskedTags(order) \subseteq TagCodes
    <3>1. /\ order \in PlaceOrders /\ organization[id] # NoOrganization
          /\ order.kind = "update organization" => ReferencesExist(order)
      BY <1>1, <2>2 DEF PlaceCallsFit, PlaceCallFits, PlaceCallTyped, WriteFits, PlaceOrder
    <3>2. id \in OrganizationIds /\ (order.tags = KeepTags \/ order.tags \in Seq(TagCodes))
      BY <1>1, <2>2, <3>1, PlaceOrderFields
    <3>3. order.tags \in Seq(TagCodes) => AskedTags(order) \subseteq TagCodes
      BY DEF AskedTags
    <3> QED
      BY <3>1, <3>2, <3>3
  <2>4. row \in OrganizationRow /\ ReferencesExist(row)
    <3>1. CASE order.kind = "replace tags"
      BY <2>1, <2>2, <2>3, <3>1 DEF PlaceRowsFit, OrganizationRows, WrittenRow
    <3>2. CASE order.kind = "update organization"
      <4>1. row = [region |-> order.region, category |-> order.category, function |-> order.function]
        BY <2>1, <3>2 DEF WrittenRow
      <4> QED
        BY <2>3, <3>2, <4>1, PlaceOrderFields DEF OrganizationRow, ReferencesExist
    <3> QED
      BY <1>1, <3>1, <3>2
  <2>5. organization' = [organization EXCEPT ![id] = row]
    BY <1>4, <2>1, <2>2
  <2>6. \A l \in tagLink' : l \in tagLink \/ (order.tags # KeepTags /\ l.organization = id /\ l.tag \in AskedTags(order))
    <3>1. SUFFICES ASSUME NEW l \in new
                   PROVE  order.tags # KeepTags /\ l.organization = id /\ l.tag \in AskedTags(order)
      BY <1>4
    <3>2. order.tags # KeepTags
      BY <3>1
    <3>3. l \in {[organization |-> o, function |-> made.function, tag |-> t] : t \in AskedTags(order)}
      BY <3>1, <3>2
    <3> HIDE DEF made
    <3>4. PICK t \in AskedTags(order) : l = [organization |-> o, function |-> made.function, tag |-> t]
      BY <3>3
    <3> QED
      BY <2>2, <3>2, <3>4
  <2>7. row # NoOrganization /\ organization \in [OrganizationIds -> OrganizationRow \cup {NoOrganization}]
    BY <2>4, PlaceRowFacts DEF PlaceRowsFit, OrganizationRows
  <2>8. LinkRows'
    <3>1. SUFFICES ASSUME NEW l \in tagLink'
                   PROVE  /\ l.organization \in OrganizationIds /\ l.tag \in TagCodes
                          /\ organization'[l.organization] # NoOrganization
                          /\ l.function = organization'[l.organization].function
                          /\ l.function = catalog.tag[l.tag]
      BY <1>1 DEF LinkRows
    <3>2. l.function = organization'[l.organization].function /\ l.function = catalog.tag[l.tag]
      BY <1>4, <3>1 DEF LinksAgree
    <3>3. l.organization \in OrganizationIds /\ l.tag \in TagCodes /\ organization[l.organization] # NoOrganization
      BY <2>3, <2>6, <3>1 DEF PlaceRowsFit, LinkRows
    <3>4. organization'[l.organization] # NoOrganization
      BY <2>5, <2>7, <3>3
    <3> QED
      BY <3>2, <3>3, <3>4
  <2>9. ASSUME NEW d \in PlaceCalls \ {c},
               placeCall[d].pc = "commit", placeCall[d].order.kind = "publish catalog"
        PROVE  /\ row.category \notin placeCall[d].drop /\ row.function \notin placeCall[d].drop
               /\ \A l \in tagLink' : l.tag \notin placeCall[d].drop
    <3>1. Unreferred(placeCall[d].drop)
      BY <2>9 DEF PlaceCallsFit, PlaceCallFits, PublicationFits
    <3>2. row.category \notin placeCall[d].drop /\ row.function \notin placeCall[d].drop
      <4>1. CASE order.kind = "replace tags"
        BY <2>1, <2>2, <2>3, <3>1, <4>1 DEF Unreferred, WrittenRow
      <4>2. CASE order.kind = "update organization"
        <5>1. row.category = order.category /\ row.function = order.function
          BY <2>1, <4>2 DEF WrittenRow
        <5>2. PlacesApart(placeCall[d], placeCall[c])
          BY <2>9 DEF PlaceCallsFit
        <5> QED
          BY <1>1, <2>9, <4>2, <5>1, <5>2 DEF PlacesApart, PlaceOrder
      <4> QED
        BY <1>1, <4>1, <4>2
    <3>3. order.tags # KeepTags => \A code \in AskedTags(order) : code \notin placeCall[d].drop
      <4>1. order.tags # KeepTags => AskedTags(order) \subseteq placeCall[c].held
        BY <1>1 DEF TagsLeft
      <4>2. PlacesApart(placeCall[d], placeCall[c])
        BY <2>9 DEF PlaceCallsFit
      <4>3. placeCall[d].drop \cap placeCall[c].held = {}
        BY <2>9, <4>2 DEF PlacesApart
      <4> QED
        BY <4>1, <4>3
    <3>4. \A l \in tagLink' : l.tag \notin placeCall[d].drop
      BY <2>6, <3>1, <3>3 DEF Unreferred
    <3> QED
      BY <3>2, <3>4
  <2> QED
    BY <1>1, <1>4, <2>3, <2>4, <2>5, <2>8, <2>9, OrganizationsChange
<1> QED
  BY <1>2, <1>3, <1>4

\* Memberships are written by themselves.
LEMMA MembersChange ==
    ASSUME PlaceRowsFit, PlaceCallsFit, NEW c \in PlaceCalls, NEW out, PlaceEnds(c, out),
           UNCHANGED <<region, country, regionLink, catalog, organization, tagLink>>, MemberRows'
    PROVE  PlaceRowsFit' /\ PlaceCallsFit'
<1>1. RegionRows' /\ OrganizationRows' /\ LinkRows' /\ catalog' \in OrganizationFiles
  BY DEF PlaceRowsFit, RegionRows, OrganizationRows, LinkRows, ReferencesExist
<1>2. ASSUME NEW d \in PlaceCalls \ {c}
      PROVE  PlaceCallFits(placeCall[d])'
  <2>1. placeCall'[d] = placeCall[d] /\ PlaceCallFits(placeCall[d])
    BY <1>2 DEF PlaceCallsFit, PlaceEnds, PlaceStep
  <2> QED
    BY <2>1 DEF PlaceCallFits, PlaceCallTyped, RowsHeld, RegionsFit, PublicationFits, WriteFits, DroppedBy, Unreferred,
       ReferencesExist
<1>3. PlaceCallsFit'
  BY <1>2, PlaceCallEnds
<1> QED
  BY <1>1, <1>3 DEF PlaceRowsFit

LEMMA PlaceWritesMember ==
    ASSUME PlaceRowsFit, PlaceCallsFit, NEW c \in PlaceCalls, WriteMember(c)
    PROVE  PlaceRowsFit' /\ PlaceCallsFit'
<1>1. /\ UNCHANGED placeTables /\ placeCall[c].pc = "first"
      /\ PlaceOrder(c).kind \in {"create member", "update member"} /\ PlaceCallFits(placeCall[c])
  BY DEF WriteMember, ChangesMember, PlaceCallsFit
<1>2. CASE PlaceEnds(c, "not found")
  BY <1>1, <1>2, PlaceFails
<1>3. ASSUME NEW m \in MemberIds, PlaceStep(c, [placeCall[c] EXCEPT !.pc = "check", !.id = m])
      PROVE  PlaceRowsFit' /\ PlaceCallsFit'
  <2>1. PICK call : call = [placeCall[c] EXCEPT !.pc = "check", !.id = m]
    OBVIOUS
  <2>6. placeCall[c].held = {}
    BY <1>1 DEF PlaceCallFits, PlaceCallTyped, RowsHeld, PlaceOrder
  <2>2. /\ call.pc = "check" /\ call.order = PlaceOrder(c) /\ call.id = m /\ call.held = {}
        /\ call = [pc |-> call.pc, order |-> call.order, held |-> call.held, drop |-> call.drop, id |-> call.id, out |-> call.out]
    BY <1>1, <2>1, <2>6 DEF PlaceCallFits, PlaceCallTyped, PlaceOrder
  <2>3. PlaceCallFits(call)
    BY <1>1, <2>2 DEF PlaceCallFits, PlaceCallTyped, RowsHeld, RegionsFit, PublicationFits, WriteFits, PlaceOrder
  <2>4. \A other : PlacesApart(call, other) /\ PlacesApart(other, call)
    BY <1>1, <2>2 DEF PlacesApart
  <2>5. PlaceStep(c, call)
    BY <1>3, <2>1
  <2> QED
    BY <1>1, <2>3, <2>4, <2>5, PlaceReads
<1>4. PlaceOrder(c).kind = "update member" => PlaceOrder(c).id \in MemberIds
  BY <1>1, PlaceOrderFields DEF PlaceCallFits, PlaceCallTyped, PlaceOrder
<1>5. \/ PlaceEnds(c, "not found")
      \/ \E m \in MemberIds : PlaceStep(c, [placeCall[c] EXCEPT !.pc = "check", !.id = m])
  <2>1. CASE PlaceOrder(c).kind = "create member"
    BY <2>1 DEF WriteMember
  <2>2. CASE PlaceOrder(c).kind # "create member"
    BY <1>1, <1>4, <2>2 DEF WriteMember
  <2> QED
    BY <2>1, <2>2
<1> QED
  BY <1>2, <1>3, <1>5

LEMMA PlaceChecksMember ==
    ASSUME PlaceRowsFit, PlaceCallsFit, NEW c \in PlaceCalls, CheckMember(c)
    PROVE  PlaceRowsFit' /\ PlaceCallsFit'
<1>1. /\ placeCall[c].pc = "check" /\ PlaceCallFits(placeCall[c])
      /\ UNCHANGED <<region, country, regionLink, catalog, organization, tagLink>>
  BY DEF CheckMember, PlaceCallsFit
<1>2. PICK asked, own : asked = AskedMember(c) /\ own = placeCall[c].id
  OBVIOUS
<1>3. asked \in PlaceMember /\ asked # NoMember /\ own \in MemberIds
  BY <1>1, <1>2, PlaceOrderFields, PlaceRowFacts
     DEF PlaceCallFits, PlaceCallTyped, AskedMember, PlaceMember, PlaceOrder
<1>4. CASE (PlaceEnds(c, "conflict") \/ PlaceEnds(c, "reference")) /\ UNCHANGED member
  <2>1. UNCHANGED placeTables
    BY <1>1, <1>4 DEF placeTables
  <2> QED
    BY <1>4, <2>1, PlaceFails
<1>5. CASE /\ \A m \in Members \ {own} : ~DatesOverlap(member[m], asked)
           /\ PlaceEnds(c, "done") /\ member' = [member EXCEPT ![own] = asked]
  <2>1. member \in [MemberIds -> PlaceMember \cup {NoMember}]
    BY DEF PlaceRowsFit, MemberRows
  <2>2. PICK next : next = member'
    OBVIOUS
  <2>3. /\ next \in [MemberIds -> PlaceMember \cup {NoMember}] /\ next[own] = asked
        /\ \A m \in MemberIds \ {own} : next[m] = member[m]
    BY <1>3, <1>5, <2>1, <2>2
  <2>4. ASSUME NEW m \in MemberIds, NEW n \in MemberIds, m # n, next[m] # NoMember, next[n] # NoMember
        PROVE  ~DatesOverlap(next[m], next[n])
    <3>1. CASE m # own /\ n # own
      BY <2>3, <2>4, <3>1 DEF PlaceRowsFit, MemberRows
    <3>2. CASE n = own
      BY <1>5, <2>3, <2>4, <3>2 DEF Members
    <3>3. CASE m = own
      <4>1. ~DatesOverlap(next[n], asked)
        BY <1>5, <2>3, <2>4, <3>3 DEF Members
      <4> QED
        BY <2>3, <3>3, <4>1 DEF DatesOverlap, SameParties
    <3> QED
      BY <3>1, <3>2, <3>3
  <2>5. MemberRows'
    BY <2>2, <2>3, <2>4 DEF MemberRows
  <2> QED
    BY <1>1, <1>5, <2>5, MembersChange
<1>6. \/ (PlaceEnds(c, "conflict") \/ PlaceEnds(c, "reference")) /\ UNCHANGED member
      \/ /\ \A m \in Members \ {own} : ~DatesOverlap(member[m], asked)
         /\ PlaceEnds(c, "done") /\ member' = [member EXCEPT ![own] = asked]
  BY <1>2 DEF CheckMember
<1> QED
  BY <1>4, <1>5, <1>6

LEMMA PlaceDeletesMember ==
    ASSUME PlaceRowsFit, PlaceCallsFit, NEW c \in PlaceCalls, DeleteMember(c)
    PROVE  PlaceRowsFit' /\ PlaceCallsFit'
<1>1. UNCHANGED <<region, country, regionLink, catalog, organization, tagLink>>
  BY DEF DeleteMember
<1>2. PlaceOrder(c).id \in MemberIds
  BY FirstStep, PlaceOrderFields DEF DeleteMember
<1>3. CASE PlaceEnds(c, "not found") /\ UNCHANGED member
  BY <1>1, <1>3, PlaceFails DEF placeTables
<1>4. CASE PlaceEnds(c, "done") /\ member' = [member EXCEPT ![PlaceOrder(c).id] = NoMember]
  <2>1. PICK id : id = PlaceOrder(c).id
    OBVIOUS
  <2>2. PICK next : next = member'
    OBVIOUS
  <2>3. /\ next \in [MemberIds -> PlaceMember \cup {NoMember}]
        /\ \A m \in MemberIds : next[m] # NoMember => next[m] = member[m]
    BY <1>2, <1>4, <2>1, <2>2 DEF PlaceRowsFit, MemberRows
  <2>4. MemberRows'
    BY <2>2, <2>3 DEF PlaceRowsFit, MemberRows
  <2> QED
    BY <1>1, <1>4, <2>4, MembersChange
<1> QED
  BY <1>3, <1>4 DEF DeleteMember


LEMMA PlaceStarts ==
    PlaceInit => PlaceInv
<1>1. SUFFICES ASSUME PlaceInit
               PROVE  PlaceInv
  OBVIOUS
<1>2. PICK first \in FirstPlaces :
         /\ region = first.region /\ country = first.country /\ catalog = first.catalog
         /\ organization = first.organization /\ tagLink = first.tagLink
         /\ regionLink = first.regionLink
  BY <1>1 DEF PlaceInit
<1>3. /\ member = [m \in MemberIds |-> NoMember] /\ placeWrites = 0
      /\ placeCall = [c \in PlaceCalls |-> IdlePlaceCall]
  BY <1>1 DEF PlaceInit
<1>4. RegionRows
  BY <1>2, FirstPlacesAreConsistent DEF RegionRows
<1>5. OrganizationRows
  BY <1>2, FirstPlacesAreConsistent DEF OrganizationRows, ReferencesExist
<1>6. LinkRows /\ catalog \in OrganizationFiles
  BY <1>2, FirstPlacesAreConsistent DEF LinkRows
<1>7. MemberRows
  BY <1>3 DEF MemberRows
<1>8. PlaceCallsFit
  <2>1. \A c \in PlaceCalls :
          placeCall[c] = [pc |-> "idle", order |-> [kind |-> "none"], held |-> {}, drop |-> {}, id |-> "none", out |-> "none"]
    BY <1>3 DEF IdlePlaceCall
  <2>2. PICK idle : idle = [pc |-> "idle", order |-> [kind |-> "none"], held |-> {}, drop |-> {}, id |-> "none", out |-> "none"]
    OBVIOUS
  <2>3. PlaceCallFits(idle)
    BY <2>2 DEF PlaceCallFits, PlaceCallTyped, RowsHeld, RegionsFit, PublicationFits, WriteFits
  <2>4. \A other : PlacesApart(idle, other)
    BY <2>2 DEF PlacesApart, Publishing
  <2>5. \A c \in PlaceCalls : placeCall[c] = idle
    BY <2>1, <2>2
  <2> QED
    BY <1>3, <2>3, <2>4, <2>5 DEF PlaceCallsFit
<1> QED
  BY <1>3, <1>4, <1>5, <1>6, <1>7, <1>8, PlaceConstants DEF PlaceInv, PlaceRowsFit

\* One step per operation.
LEMMA PlaceSteps ==
    PlaceInv /\ [PlaceNext]_placeVars => PlaceInv'
<1> SUFFICES ASSUME PlaceInv, [PlaceNext]_placeVars
             PROVE  PlaceInv'
  OBVIOUS
<1>1. PlaceRowsFit /\ PlaceCallsFit /\ placeWrites \in 0 .. MaxPlaceWrites
  BY DEF PlaceInv
<1>2. CASE UNCHANGED placeVars
  <2>1. UNCHANGED <<region, country, regionLink, catalog, organization, tagLink, member, placeCall, placeWrites>>
    BY <1>2 DEF placeVars, placeTables
  <2>2. PlaceRowsFit'
    <3>1. RegionRows' /\ LinkRows' /\ MemberRows'
      BY <1>1, <2>1 DEF PlaceRowsFit, RegionRows, LinkRows, MemberRows
    <3>2. OrganizationRows'
      BY <1>1, <2>1 DEF PlaceRowsFit, OrganizationRows, ReferencesExist
    <3> QED
      BY <1>1, <2>1, <3>1, <3>2 DEF PlaceRowsFit
  <2>3. PlaceCallsFit'
    <3>1. \A call : PlaceCallFits(call) => PlaceCallFits(call)'
      <4> TAKE call
      <4>1. RegionsFit(call)' = RegionsFit(call) /\ PlaceCallTyped(call)' = PlaceCallTyped(call)
        BY ONLY <2>1, Zenon DEF RegionsFit, PlaceCallTyped
      <4>2. PublicationFits(call)' = PublicationFits(call)
        BY ONLY <2>1, Zenon DEF PublicationFits, DroppedBy, Unreferred
      <4>3. WriteFits(call)' = WriteFits(call)
        BY ONLY <2>1, Zenon DEF WriteFits, ReferencesExist
      <4> QED
        BY ONLY <4>1, <4>2, <4>3, Zenon DEF PlaceCallFits
    <3>2. \A c \in PlaceCalls : PlaceCallFits(placeCall[c])'
      BY <1>1, <2>1, <3>1, Zenon DEF PlaceCallsFit
    <3> QED
      <4>1. /\ DOMAIN placeCall' = PlaceCalls
            /\ \A c, d \in PlaceCalls : c # d => PlacesApart(placeCall'[c], placeCall'[d])
        BY <1>1, <2>1, Zenon DEF PlaceCallsFit
      <4> QED
        BY ONLY <3>2, <4>1, Zenon DEF PlaceCallsFit
  <2> QED
    BY <1>1, <2>1, <2>2, <2>3 DEF PlaceInv
<1>3. ASSUME NEW c \in PlaceCalls, NEW order \in PlaceOrders, BeginPlaceCall(c, order)
      PROVE  PlaceInv'
  <2>1. placeWrites' \in 0 .. MaxPlaceWrites
    BY <1>1, <1>3, PlaceConstants DEF BeginPlaceCall
  <2> QED
    BY <1>1, <1>3, <2>1, PlaceBegins DEF PlaceInv
<1>4. ASSUME NEW c \in PlaceCalls, PlaceCallStep(c)
      PROVE  PlaceInv'
  <2>1. UNCHANGED placeWrites
    BY <1>4 DEF PlaceCallStep, PublishRegions, CreateRegion, CreateCountry, UpdateCountry, ReadRegions,
       ReplaceRegions, UpsertCatalog, DeleteCatalogCodes, CommitCatalog, CreateOrganization,
       WriteOrganization, ReadFunction, ShareTag, CommitOrganization, WriteMember, CheckMember,
       DeleteMember
  <2>2. PlaceRowsFit' /\ PlaceCallsFit'
    BY <1>1, <1>4, PlacePublishesRegions, PlaceCreatesRegion, PlaceWritesCountry, PlaceReadsRegions,
       PlaceReplacesRegions, PlaceUpserts, PlaceDeletes, PlaceCommitsCatalog, PlaceCreatesOrganization,
       PlaceWritesOrganization, PlaceSharesTag, PlaceCommitsOrganization, PlaceWritesMember, PlaceChecksMember,
       PlaceDeletesMember DEF PlaceCallStep
  <2> QED
    BY <1>1, <2>1, <2>2 DEF PlaceInv
<1>5. ASSUME NEW c \in PlaceCalls, BreakPlaceDeadlock(c)
      PROVE  PlaceInv'
  BY <1>1, <1>5, PlaceFails DEF BreakPlaceDeadlock, PlaceInv
<1> QED
  BY <1>2, <1>3, <1>4, <1>5 DEF PlaceNext

LEMMA PlaceInvariant == PlaceSpec => []PlaceInv
  BY PlaceStarts, PlaceSteps, PTL DEF PlaceSpec

\* The stored rows keep their types, whatever calls are in progress.
LEMMA PlaceInvTyped == PlaceInv => PlaceTypeOK
<1> SUFFICES ASSUME PlaceInv
             PROVE  PlaceTypeOK
  OBVIOUS
<1>1. PlaceRowsFit /\ placeWrites \in 0 .. MaxPlaceWrites
  BY DEF PlaceInv
<1>2. region \subseteq RegionCodes /\ country \in [CountryIds -> PlaceTexts \cup {NoText}]
  BY <1>1 DEF PlaceRowsFit, RegionRows
<1>3. regionLink \subseteq CountryIds \X RegionCodes
  BY <1>1 DEF PlaceRowsFit, RegionRows
<1>4. catalog.categories \subseteq CategoryCodes /\ catalog.functions \subseteq FunctionCodes
  BY <1>1, ReleasedFiles DEF PlaceRowsFit, FileRow
<1>5. \A m \in Members : member[m].from \in 0 .. LastDay /\ member[m].till \in 1 .. LastDay + 1
  BY <1>1 DEF PlaceRowsFit, MemberRows, Members, PlaceMember
<1> QED
  BY <1>1, <1>2, <1>3, <1>4, <1>5 DEF PlaceTypeOK

\* Two memberships of the same day overlap.
LEMMA OncePerDay == MemberRows => OneMembershipPerDay
<1> SUFFICES ASSUME MemberRows, NEW o \in OrganizationIds, NEW k \in CountryIds, NEW day \in Day
             PROVE  Cardinality(ListedMembers(o, k, day)) <= 1
  BY DEF OneMembershipPerDay
<1> DEFINE listed == ListedMembers(o, k, day)
<1>1. ASSUME NEW m \in listed, NEW n \in listed
      PROVE  m = n
  <2>1. /\ m \in MemberIds /\ n \in MemberIds /\ member[m] # NoMember /\ member[n] # NoMember
        /\ member[m] \in PlaceMember /\ member[n] \in PlaceMember
    BY <1>1 DEF ListedMembers, Members, MemberRows
  <2>2. /\ member[m].from \in Int /\ member[m].till \in Int /\ member[n].from \in Int /\ member[n].till \in Int
        /\ day \in Int
    BY <2>1, PlaceConstants DEF PlaceMember, Day
  <2>3. DatesOverlap(member[m], member[n])
    BY <1>1, <2>2 DEF ListedMembers, DatesOverlap, SameParties
  <2> QED
    BY <2>1, <2>3 DEF MemberRows
<1>2. CASE listed = {}
  BY <1>2, FS_EmptySet
<1>3. CASE listed # {}
  <2>1. PICK m : listed = {m}
    BY <1>1, <1>3
  <2>2. Cardinality({m}) = 1
    BY FS_Singleton
  <2> QED
    BY <2>1, <2>2
<1> QED
  BY <1>2, <1>3

LEMMA PlaceInvConsistent == PlaceInv => PlacesAreConsistent
<1> SUFFICES ASSUME PlaceInv
             PROVE  PlacesAreConsistent
  OBVIOUS
<1>1. RegionRows /\ OrganizationRows /\ LinkRows /\ MemberRows /\ catalog \in OrganizationFiles
  BY DEF PlaceInv, PlaceRowsFit
<1>2. OneMembershipPerDay /\ CatalogIsOneFile
  BY <1>1, OncePerDay DEF CatalogIsOneFile
<1>3. \A p \in regionLink : p[1] \in Countries /\ p[2] \in region
  BY <1>1 DEF RegionRows, Countries
<1>4. \A o \in Organizations : /\ organization[o].region \in region \cup {NoText}
                               /\ organization[o].category \in catalog.categories
                               /\ organization[o].function \in catalog.functions
  BY <1>1 DEF OrganizationRows, Organizations, ReferencesExist
<1>5. \A l \in tagLink : l.function = organization[l.organization].function
                            /\ l.function = catalog.tag[l.tag]
  BY <1>1 DEF LinkRows
<1> QED
  BY <1>2, <1>3, <1>4, <1>5 DEF PlacesAreConsistent

LEMMA RanksAreOrdered == \A m, n \in Nat : m < n => ~(n < m)
  OBVIOUS

\* Rows in the order of one release and of another: two releases that wait for each
\* other would have locked all of their categories and functions, and one is in both.
LEMMA UpsertsDoNotDeadlock ==
    ASSUME PlaceCallsFit, NEW c \in PlaceCalls, NEW d \in PlaceCalls, c # d,
           AtStep(c, "first", "publish catalog"), AtStep(d, "first", "publish catalog")
    PROVE  ~(Locks(d, NextRow(c)) /\ Locks(c, NextRow(d)))
<1> SUFFICES ASSUME Locks(d, NextRow(c)), Locks(c, NextRow(d))
             PROVE  FALSE
  OBVIOUS
<1>1. PICK a \in NextRow(c) : a \in placeCall[d].held
  BY DEF Locks
<1>2. PICK b \in NextRow(d) : b \in placeCall[c].held
  BY DEF Locks
<1>3. PICK f, g : f = PlaceOrder(c).file /\ g = PlaceOrder(d).file
  OBVIOUS
<1>4. f \in OrganizationFiles /\ g \in OrganizationFiles /\ f \in FileRow /\ g \in FileRow
  BY <1>3, FirstStep, PlaceOrderFields, ReleasedFiles
<1>5. /\ placeCall[c].held \subseteq FileCodes(f)
      /\ \A r \in placeCall[c].held, s \in FileCodes(f) \ placeCall[c].held : ComesBefore(f, r, s)
  BY <1>3 DEF AtStep, PlaceOrder, PlaceCallsFit, PlaceCallFits, PlaceCallTyped, RowsHeld
<1>6. /\ placeCall[d].held \subseteq FileCodes(g)
      /\ \A r \in placeCall[d].held, s \in FileCodes(g) \ placeCall[d].held : ComesBefore(g, r, s)
  BY <1>3 DEF AtStep, PlaceOrder, PlaceCallsFit, PlaceCallFits, PlaceCallTyped, RowsHeld
<1>7. a \in FileCodes(f) \ placeCall[c].held /\ b \in FileCodes(g) \ placeCall[d].held
  BY <1>1, <1>2, <1>3 DEF NextRow
<1>8. ComesBefore(f, b, a) /\ ComesBefore(g, a, b)
  BY <1>1, <1>2, <1>5, <1>6, <1>7
<1>9. ASSUME NEW file \in FileRow
      PROVE  /\ CatalogCodes(file) \subseteq CategoryCodes \cup FunctionCodes
             /\ CatalogCodes(file) \cap TagCodes = {}
             /\ FileCodes(file) = CatalogCodes(file) \cup TagsOf(file) /\ TagsOf(file) \subseteq TagCodes
  BY <1>9, ReleasedFiles DEF FileRow, CatalogCodes, FileCodes, TagsOf
<1>10. a \in TagCodes /\ b \in TagCodes
  <2>1. a \in TagCodes <=> b \in TagCodes
    BY <1>8 DEF ComesBefore
  <2>2. CASE a \notin TagCodes /\ b \notin TagCodes
    <3>1. RowRank[b] < RowRank[a] /\ RowRank[a] < RowRank[b]
      BY <1>8, <2>2 DEF ComesBefore
    <3>2. a \in CategoryCodes \cup FunctionCodes /\ b \in CategoryCodes \cup FunctionCodes
      BY <1>4, <1>7, <1>9, <2>2
    <3>3. RowRank[a] \in Nat /\ RowRank[b] \in Nat
      BY <3>2, ReleasedFiles
    <3> QED
      BY <3>1, <3>3, RanksAreOrdered
  <2> QED
    BY <2>1, <2>2
<1>11. CatalogCodes(f) \subseteq placeCall[c].held
  <2> SUFFICES ASSUME NEW k \in CatalogCodes(f), k \notin placeCall[c].held
               PROVE  FALSE
    OBVIOUS
  <2>1. k \in FileCodes(f) /\ k \notin TagCodes
    BY <1>4, <1>9
  <2>2. ComesBefore(f, b, k)
    BY <1>2, <1>5, <2>1
  <2> QED
    BY <1>10, <2>1, <2>2 DEF ComesBefore
<1>12. CatalogCodes(g) \subseteq placeCall[d].held
  <2> SUFFICES ASSUME NEW k \in CatalogCodes(g), k \notin placeCall[d].held
               PROVE  FALSE
    OBVIOUS
  <2>1. k \in FileCodes(g) /\ k \notin TagCodes
    BY <1>4, <1>9
  <2>2. ComesBefore(g, a, k)
    BY <1>1, <1>6, <2>1
  <2> QED
    BY <1>10, <2>1, <2>2 DEF ComesBefore
<1>13. placeCall[c].held \cap placeCall[d].held = {}
  BY DEF AtStep, PlaceOrder, PlaceCallsFit, PlacesApart
<1> QED
  BY <1>4, <1>11, <1>12, <1>13, ReleasedFiles

\* Who waits for whom: only releases and the writers of organizations wait for each other.
LEMMA WhoWaits ==
    ASSUME PlaceCallsFit, NEW a \in PlaceCalls, NEW b \in PlaceCalls, Waits(a, b)
    PROVE  /\ placeCall[b].pc # "first" \/ AtStep(b, "first", "publish catalog")
           /\ placeCall[a].pc = "first" \/ AtStep(a, "deletes", "publish catalog")
                \/ AtStep(a, "commit", "publish catalog") \/ a \in WritesOrganization
                \/ placeCall[a].pc = "check"
           /\ AtStep(a, "first", "publish catalog") =>
                Locks(b, NextRow(a)) \/ AtStep(b, "commit", "publish catalog")
           /\ AtStep(a, "deletes", "publish catalog") => DroppedCodes(a) # {}
           /\ AtStep(a, "commit", "publish catalog") => b \in WritesOrganization /\ MovedTags(a) # {}
           /\ a \in WritesOrganization => PlaceOrder(b).kind = "publish catalog" /\ NextTag(a) # {}
           /\ placeCall[a].pc = "check" =>
                placeCall[b].pc \in {"links", "check"} \/ b \in WritesOrganization
<1>1. placeCall[b].held # {} /\ placeCall[b].pc = "first" => AtStep(b, "first", "publish catalog")
  BY DEF PlaceCallsFit, PlaceCallFits, PlaceCallTyped, RowsHeld, AtStep, PlaceOrder
<1>2. placeCall[b].pc # "first" \/ placeCall[b].held # {}
  BY Zenon DEF Waits, ReadsRegions, WritesOrganization, Under, AtStep, HoldsCountry, HoldsOrganization,
     Locks, LocksInRelease, RefersTo, Removes, HoldsMember, OverlapUndecided, ChangesFunction
<1>3. placeCall[a].pc = "first" \/ AtStep(a, "deletes", "publish catalog")
        \/ AtStep(a, "commit", "publish catalog") \/ a \in WritesOrganization
        \/ placeCall[a].pc = "check"
  BY DEF Waits, AtStep
<1>4. AtStep(a, "first", "publish catalog") => Locks(b, NextRow(a)) \/ AtStep(b, "commit", "publish catalog")
  BY WaitsOfFirst DEF AtStep, Removes
<1>5. AtStep(a, "deletes", "publish catalog") => DroppedCodes(a) # {}
  BY WaitsOfLater DEF RefersTo, Locks
<1>6. AtStep(a, "commit", "publish catalog") => b \in WritesOrganization /\ MovedTags(a) # {}
  BY WaitsOfLater
<1>7. a \in WritesOrganization => PlaceOrder(b).kind = "publish catalog" /\ NextTag(a) # {}
  BY WaitsOfLater DEF LocksInRelease, Locks, Removes, AtStep
<1>8. placeCall[a].pc = "check" => placeCall[b].pc \in {"links", "check"} \/ b \in WritesOrganization
  BY DEF Waits, AtStep, WritesOrganization, ReadsRegions, Under, OverlapUndecided, HoldsCountry, HoldsOrganization
<1> QED
  BY <1>1, <1>2, <1>3, <1>4, <1>5, <1>6, <1>7, <1>8

\* Of two that wait for each other and are not both at the check of a membership,
\* one is a release.
LEMMA DeadlocksNeedARelease == PlaceInv => OnlyReleasesDeadlock
<1> DEFINE Release(p, w) ==
             \/ p \in PublishesCatalog /\ DroppedCodes(p) \cup MovedTags(p) # {}
             \/ /\ AtStep(p, "first", "publish catalog") /\ w \in WritesOrganization
                /\ placeCall[w].held # {} /\ TagsLeft(w) # {}
<1> SUFFICES ASSUME PlaceInv, NEW c \in PlaceCalls, NEW d \in PlaceDeadlock(c)
             PROVE  \/ placeCall[c].pc = "check" /\ placeCall[d].pc = "check"
                    \/ Release(c, d) \/ Release(d, c)
  BY DEF OnlyReleasesDeadlock
<1>1. d \in PlaceCalls /\ c # d /\ Waits(c, d) /\ Waits(d, c) /\ PlaceCallsFit
  BY DEF PlaceDeadlock, WaitsFor, PlaceInv
\* A release that has not upserted all rows.
<1>2. ASSUME NEW p \in PlaceCalls, NEW q \in PlaceCalls, p # q, Waits(p, q), Waits(q, p),
             AtStep(p, "first", "publish catalog")
      PROVE  Release(p, q) \/ Release(q, p)
  <2>1. CASE AtStep(q, "first", "publish catalog")
    <3>1. Locks(q, NextRow(p)) /\ Locks(p, NextRow(q))
      BY <1>1, <1>2, <2>1, WhoWaits DEF AtStep
    <3> QED
      BY <1>1, <1>2, <2>1, <3>1, UpsertsDoNotDeadlock
  <2>2. CASE AtStep(q, "deletes", "publish catalog")
    <3>1. DroppedCodes(q) # {} /\ q \in PublishesCatalog
      BY <1>1, <1>2, <2>2, WhoWaits DEF PublishesCatalog, Under
    <3> QED
      BY <3>1
  <2>3. CASE AtStep(q, "commit", "publish catalog")
    <3>1. p \in WritesOrganization
      BY <1>1, <1>2, <2>3, WhoWaits
    <3> QED
      BY <1>2, <3>1 DEF WritesOrganization, Under, AtStep
  <2>4. CASE q \in WritesOrganization
    <3>1. ~AtStep(q, "commit", "publish catalog")
      BY <2>4 DEF WritesOrganization, Under, AtStep
    <3>2. Locks(q, NextRow(p)) /\ NextTag(q) # {}
      BY <1>1, <1>2, <2>4, <3>1, WhoWaits
    <3>3. placeCall[q].held # {} /\ TagsLeft(q) # {}
      BY <3>2 DEF Locks, NextTag
    <3> QED
      BY <1>2, <2>4, <3>3
  <2>5. CASE placeCall[q].pc = "check"
    <3>1. placeCall[p].pc \in {"links", "check"} \/ p \in WritesOrganization
      BY <1>1, <1>2, <2>5, WhoWaits
    <3> QED
      BY <1>2, <3>1 DEF WritesOrganization, Under, AtStep
  <2>6. placeCall[q].pc = "first" => AtStep(q, "first", "publish catalog")
    BY <1>1, <1>2, WhoWaits
  <2> QED
    BY <1>1, <1>2, <2>1, <2>2, <2>3, <2>4, <2>5, <2>6, WhoWaits
\* A release that deletes or commits.
<1>3. ASSUME NEW p \in PlaceCalls, NEW q \in PlaceCalls, Waits(p, q),
             AtStep(p, "deletes", "publish catalog") \/ AtStep(p, "commit", "publish catalog")
      PROVE  Release(p, q)
  <2>1. p \in PublishesCatalog
    BY <1>3 DEF PublishesCatalog, Under
  <2> QED
    BY <1>1, <1>3, <2>1, WhoWaits
<1>4. CASE placeCall[c].pc = "first" \/ placeCall[d].pc = "first"
  <2>1. AtStep(c, "first", "publish catalog") \/ AtStep(d, "first", "publish catalog")
    BY <1>1, <1>4, WhoWaits
  <2> QED
    BY <1>1, <1>2, <2>1
<1>5. CASE AtStep(c, "deletes", "publish catalog") \/ AtStep(c, "commit", "publish catalog")
  BY <1>1, <1>3, <1>5
<1>6. CASE AtStep(d, "deletes", "publish catalog") \/ AtStep(d, "commit", "publish catalog")
  BY <1>1, <1>3, <1>6
\* Writers wait for releases only, and a check for none.
<1>7. CASE /\ placeCall[c].pc # "first" /\ placeCall[d].pc # "first"
           /\ ~(AtStep(c, "deletes", "publish catalog") \/ AtStep(c, "commit", "publish catalog"))
           /\ ~(AtStep(d, "deletes", "publish catalog") \/ AtStep(d, "commit", "publish catalog"))
  <2>1. /\ c \in WritesOrganization \/ placeCall[c].pc = "check"
        /\ d \in WritesOrganization \/ placeCall[d].pc = "check"
    BY <1>1, <1>7, WhoWaits
  <2>2. ASSUME NEW a \in PlaceCalls, NEW b \in PlaceCalls, Waits(a, b), a \in WritesOrganization
        PROVE  b \notin WritesOrganization /\ placeCall[b].pc # "check"
    <3>1. PlaceOrder(b).kind = "publish catalog"
      BY <1>1, <2>2, WhoWaits
    <3> QED
      BY <1>1, <3>1 DEF WritesOrganization, Under, AtStep, PlaceCallsFit, PlaceCallFits, PlaceCallTyped, PlaceOrder
  <2> QED
    BY <1>1, <2>1, <2>2
<1> QED
  BY <1>4, <1>5, <1>6, <1>7

\* PlaceCatalog: the rows of regions, countries, organizations and memberships keep their types.
THEOREM PlacesTyped == PlaceSpec => []PlaceTypeOK
  BY PlaceInvariant, PlaceInvTyped, PTL

\* A country is a member once on every day, the catalogue is that of one
\* release, and what organizations, countries and their links refer to is
\* there, whatever releases and calls of operators run at once.
THEOREM PlacesStayConsistent == PlaceSpec => []PlacesAreConsistent
  BY PlaceInvariant, PlaceInvConsistent, PTL

\* Calls wait for each other only where two memberships of the same days are written,
\* where a release that has upserted all of its rows drops or moves some, or where the
\* commit of several tags has locked one and a release another: for any number of calls,
\* two releases never stop each other while they upsert, in whatever order tags are in.
THEOREM DeadlocksAreOfReleases == PlaceSpec => []OnlyReleasesDeadlock
  BY PlaceInvariant, DeadlocksNeedARelease, PTL

-----------------------------------------------------------------------------
(* Storylines: what calls know of the rows they have written or locked *)

\* Derived identities have their own code, names and codes are unique.
DomainsFit ==
    /\ domain \in [DomainIds -> DomainRow \cup {NoDomain}]
    /\ \A k \in DomainCodes : domain[DomainId[k]] # NoDomain => domain[DomainId[k]].code = k
    /\ \A d, e \in DomainIds : d # e /\ domain[d] # NoDomain /\ domain[e] # NoDomain =>
         domain[d].name # domain[e].name /\ domain[d].code # domain[e].code

StoriesFit ==
    /\ storyline \in [StoryIds -> StoryRow \cup {NoStory}]
    /\ \A s, t \in StoryIds : s # t /\ storyline[s] # NoStory => storyline[s].name # storyline[t].name

MembershipsFit ==
    \A p \in membership : /\ p \in StoryIds \X DomainIds
                          /\ storyline[p[1]] # NoStory /\ domain[p[2]] # NoDomain

\* Before the cutover the column, and after it a link, gives each storyline a domain.
CutoverFits ==
    /\ storyKind \in {"macroeconomic", "geopolitic"} /\ schema \in {92, 93}
    /\ legacy \in [StoryIds -> DomainIds \cup {NoDomainId}]
    /\ schema = 92 => \A s \in StoryIds : storyline[s] # NoStory =>
         legacy[s] \in DomainIds /\ domain[legacy[s]] # NoDomain
    /\ schema = 93 => \A s \in StoryIds : storyline[s] # NoStory => \E d : <<s, d>> \in membership

StoryRowsFit == DomainsFit /\ StoriesFit /\ MembershipsFit /\ CutoverFits

\* The tables that a publication has locked, and those that it is about to lock.
LockStages ==
    {[holds |-> {}, rest |-> <<"domain", "storyline", "links", "advisory">>],
     [holds |-> {"domain"}, rest |-> <<"storyline", "links", "advisory">>],
     [holds |-> {"domain", "storyline"}, rest |-> <<"links", "advisory">>],
     [holds |-> {"domain", "storyline", "links"}, rest |-> <<"advisory">>]}

Writing(call) == call.pc \in {"name", "links", "commit"}

StoryCallTyped(call) ==
    /\ call = [pc |-> call.pc, order |-> call.order, holds |-> call.holds, rest |-> call.rest,
               id |-> call.id, drop |-> call.drop, out |-> call.out]
    /\ call.pc \in {"idle", "row", "domain", "name", "links", "commit", "locking", "working", "done"}
    /\ call.pc \notin {"idle", "done"} => call.order \in StoryOrders
    /\ call.pc \in {"idle", "row", "done"} => call.holds = {}
    /\ call.pc = "row" => call.order.kind # "publish"
    /\ call.pc = "domain" => call.order.kind = "update domain" /\ call.holds = {"domain"}
    /\ Writing(call) => call.order.kind \in {"create", "update"} /\ call.id \in StoryIds
    /\ call.pc \in {"name", "links"} => call.holds = {"storyline"}
    /\ call.pc = "commit" => call.holds = {"storyline", "links"}
    /\ call.pc \in {"locking", "working"} => call.order.kind = "publish" /\ ValidFile(call.order.file)
    /\ call.pc = "locking" => [holds |-> call.holds, rest |-> call.rest] \in LockStages
    /\ call.pc = "working" => call.holds = {"domain", "storyline", "links", "advisory"}

\* The row is there, or is new; nobody else has the name, once it is written;
\* and the domains and the links are as they were read.
StoryWriteFits(call) ==
    /\ Writing(call) => /\ call.order.kind = "update" => storyline[call.id] # NoStory
                        /\ call.order.kind = "create" => storyline[call.id] = NoStory
    /\ call.pc = "domain" => domain[call.order.id] # NoDomain
    /\ call.pc \in {"links", "commit"} =>
         \A s \in StoryIds \ {call.id} : storyline[s].name # call.order.name
    /\ call.pc = "commit" =>
         /\ \A d \in call.order.domains : domain[d] # NoDomain
         /\ call.drop = {p \in membership : p[1] = call.id /\ p[2] \notin call.order.domains}

StoryCallFits(call) == StoryCallTyped(call) /\ StoryWriteFits(call)

\* Calls write different rows and give different names; what a publication has locked
\* nobody else has.
StoriesApart(call, other) ==
    /\ Writing(call) /\ Writing(other) => call.id # other.id
    /\ call.pc \in {"links", "commit"} /\ other.pc \in {"links", "commit"} =>
         call.order.name # other.order.name
    /\ call.holds \cap other.holds # {} => call.order.kind # "publish" /\ other.order.kind # "publish"

StoryCallsFit ==
    /\ DOMAIN storyCall = StoryCalls
    /\ \A c \in StoryCalls : StoryCallFits(storyCall[c])
    /\ \A c, d \in StoryCalls : c # d => StoriesApart(storyCall[c], storyCall[d])
    /\ schema = 92 => \A c \in StoryCalls : storyCall[c].pc = "idle"

StoryInv == StoryRowsFit /\ StoryCallsFit /\ storyWrites \in 0 .. MaxStoryWrites

LEMMA StoryRowFacts ==
    /\ \A row \in DomainRow : row # NoDomain /\ row.name # NoDomain.name
    /\ \A row \in StoryRow : row # NoStory /\ row.name # NoStory.name
<1>1. ASSUME NEW row \in DomainRow
      PROVE  row # NoDomain /\ row.name # NoDomain.name
  BY FirstStorylinesAreReadable DEF DomainRow
<1>2. ASSUME NEW row \in StoryRow
      PROVE  row # NoStory /\ row.name # NoStory.name
  BY FirstStorylinesAreReadable DEF StoryRow
<1> QED
  BY <1>1, <1>2

LEMMA StoryOrderFields ==
    ASSUME NEW order \in StoryOrders
    PROVE  /\ order.kind = "publish" => order.file \in StorylineFiles
           /\ order.kind = "create domain" => order.code \in DomainCodes /\ order.name \in DomainLabels
           /\ order.kind = "update domain" => order.id \in DomainIds /\ order.name \in DomainLabels
           /\ order.kind \in {"create", "update"} =>
                /\ order.name \in StoryNames /\ order.text \in StoryTexts
                /\ order.domains \subseteq DomainIds /\ order.domains # {}
           /\ order.kind = "update" => order.id \in StoryIds
<1>1. CASE order \in [kind : {"publish"}, file : StorylineFiles]
  BY <1>1
<1>2. CASE order \in [kind : {"create domain"}, code : DomainCodes, name : DomainLabels]
  BY <1>2
<1>3. CASE order \in [kind : {"update domain"}, id : DomainIds, name : DomainLabels]
  BY <1>3
<1>4. CASE order \in [kind : {"create"}, name : StoryNames, text : StoryTexts, domains : AskedDomains]
  <2>1. order.domains \in AskedDomains /\ order.kind = "create"
    BY <1>4
  <2>2. order.domains \subseteq DomainIds /\ order.domains # {}
    BY <2>1, StorylineConstants
  <2> QED
    BY <1>4, <2>1, <2>2
<1>5. CASE order \in [kind : {"update"}, id : StoryIds, name : StoryNames, text : StoryTexts,
                      domains : AskedDomains]
  <2>1. order.domains \in AskedDomains /\ order.kind = "update"
    BY <1>5
  <2>2. order.domains \subseteq DomainIds /\ order.domains # {}
    BY <2>1, StorylineConstants
  <2> QED
    BY <1>5, <2>1, <2>2
<1> QED
  BY <1>1, <1>2, <1>3, <1>4, <1>5 DEF StoryOrders

LEMMA StoryEnded ==
    ASSUME NEW id, NEW out
    PROVE  LET call == [IdleStoryCall EXCEPT !.pc = "done", !.id = id, !.out = out] IN
           StoryCallFits(call) /\ \A other : StoriesApart(call, other) /\ StoriesApart(other, call)
<1>1. PICK call : call = [IdleStoryCall EXCEPT !.pc = "done", !.id = id, !.out = out]
  OBVIOUS
<1>2. call = [pc |-> "done", order |-> [kind |-> "none"], holds |-> {}, rest |-> <<>>, id |-> id,
              drop |-> {}, out |-> out]
  BY <1>1 DEF IdleStoryCall
<1>3. StoryCallFits(call)
  BY <1>2 DEF StoryCallFits, StoryCallTyped, StoryWriteFits, Writing
<1>4. \A other : StoriesApart(call, other) /\ StoriesApart(other, call)
  BY <1>2 DEF StoriesApart, Writing
<1> QED
  BY <1>1, <1>3, <1>4

\* One call goes on, and the others fit what is stored then.
LEMMA StoryCallGoesOn ==
    ASSUME StoryCallsFit, NEW c \in StoryCalls, NEW call, StoryStep(c, call), schema = 93, schema' = 93,
           StoryCallFits(call)',
           \A d \in StoryCalls \ {c} :
             StoriesApart(call, storyCall[d]) /\ StoriesApart(storyCall[d], call),
           \A d \in StoryCalls \ {c} : StoryCallFits(storyCall[d])'
    PROVE  StoryCallsFit'
<1>1. storyCall'[c] = call /\ DOMAIN storyCall' = StoryCalls
  BY DEF StoryCallsFit, StoryStep
<1>2. \A d \in StoryCalls \ {c} : storyCall'[d] = storyCall[d]
  BY DEF StoryCallsFit, StoryStep
<1>3. ASSUME NEW d \in StoryCalls
      PROVE  StoryCallFits(storyCall[d])'
  <2>1. CASE d = c
    <3>1. PICK mine : mine = call
      OBVIOUS
    <3>2. storyCall'[d] = mine
      BY <1>1, <2>1, <3>1
    <3> QED
      BY <3>1, <3>2
  <2>2. CASE d # c
    BY <2>2
  <2> QED
    BY <2>1, <2>2
<1>4. ASSUME NEW a \in StoryCalls, NEW b \in StoryCalls, a # b
      PROVE  StoriesApart(storyCall'[a], storyCall'[b])
  <2>1. CASE a # c /\ b # c
    BY <1>2, <1>4, <2>1 DEF StoryCallsFit
  <2>2. CASE a = c
    BY <1>1, <1>2, <1>4, <2>2
  <2>3. CASE b = c
    BY <1>1, <1>2, <1>4, <2>3
  <2> QED
    BY <2>1, <2>2, <2>3
<1> QED
  BY <1>1, <1>3, <1>4 DEF StoryCallsFit

LEMMA StoryCallEnds ==
    ASSUME StoryCallsFit, NEW c \in StoryCalls, NEW out, StoryEnds(c, out), schema = 93, schema' = 93,
           \A d \in StoryCalls \ {c} : StoryCallFits(storyCall[d])'
    PROVE  StoryCallsFit'
<1>1. PICK id : id = storyCall[c].id
  OBVIOUS
<1>2. PICK call : call = [IdleStoryCall EXCEPT !.pc = "done", !.id = id, !.out = out]
  OBVIOUS
<1>3. StoryStep(c, call)
  BY <1>1, <1>2 DEF StoryEnds
<1>4. \A other : StoriesApart(call, other) /\ StoriesApart(other, call)
  BY <1>2, StoryEnded
<1>5. call = [pc |-> "done", order |-> [kind |-> "none"], holds |-> {}, rest |-> <<>>, id |-> id,
              drop |-> {}, out |-> out]
  BY <1>2 DEF IdleStoryCall
<1>6. StoryCallFits(call)'
  BY <1>5 DEF StoryCallFits, StoryCallTyped, StoryWriteFits, Writing
<1> QED
  BY <1>3, <1>4, <1>6, StoryCallGoesOn

\* Calls know the same as long as what they read is not written.
LEMMA StoryTablesStay ==
    ASSUME UNCHANGED <<storyKind, storyTables>>
    PROVE  /\ \A call : StoryCallFits(call)' <=> StoryCallFits(call)
           /\ StoryRowsFit' <=> StoryRowsFit
<1>1. UNCHANGED <<storyKind, schema, legacy, domain, storyline, membership>>
  BY DEF storyTables
<1>2. \A file : ValidFile(file)' <=> ValidFile(file)
  BY <1>1 DEF ValidFile, ValidGeopolitic, ValidMacroeconomic, Versions
<1>3. ASSUME NEW call
      PROVE  StoryCallFits(call)' <=> StoryCallFits(call)
  BY <1>1, <1>2 DEF StoryCallFits, StoryCallTyped, StoryWriteFits
<1>4. StoryRowsFit' <=> StoryRowsFit
  BY <1>1 DEF StoryRowsFit, DomainsFit, StoriesFit, MembershipsFit, CutoverFits
<1> QED
  BY <1>3, <1>4

\* A step that writes nothing.
LEMMA StoryReads ==
    ASSUME StoryRowsFit, StoryCallsFit, NEW c \in StoryCalls, NEW call, StoryStep(c, call), schema = 93,
           UNCHANGED <<storyKind, storyTables>>, StoryCallFits(call),
           \A d \in StoryCalls \ {c} :
             StoriesApart(call, storyCall[d]) /\ StoriesApart(storyCall[d], call)
    PROVE  StoryRowsFit' /\ StoryCallsFit'
<1>1. StoryCallFits(call)' /\ StoryRowsFit' /\ schema' = 93
  BY StoryTablesStay DEF storyTables
<1>2. ASSUME NEW d \in StoryCalls \ {c}
      PROVE  StoryCallFits(storyCall[d])'
  <2>1. PICK old : old = storyCall[d]
    OBVIOUS
  <2>2. storyCall'[d] = old /\ StoryCallFits(old)
    BY <1>2, <2>1 DEF StoryCallsFit, StoryStep
  <2>3. StoryCallFits(old)'
    BY <2>2, StoryTablesStay
  <2> QED
    BY <2>2, <2>3
<1> QED
  BY <1>1, <1>2, StoryCallGoesOn

LEMMA StoryFails ==
    ASSUME StoryRowsFit, StoryCallsFit, NEW c \in StoryCalls, NEW out, StoryEnds(c, out), schema = 93,
           UNCHANGED <<storyKind, storyTables>>
    PROVE  StoryRowsFit' /\ StoryCallsFit'
<1>1. PICK id : id = storyCall[c].id
  OBVIOUS
<1>2. PICK call : call = [IdleStoryCall EXCEPT !.pc = "done", !.id = id, !.out = out]
  OBVIOUS
<1>3. StoryStep(c, call)
  BY <1>1, <1>2 DEF StoryEnds
<1>4. StoryCallFits(call) /\ \A other : StoriesApart(call, other) /\ StoriesApart(other, call)
  BY <1>2, StoryEnded
<1> QED
  BY <1>3, <1>4, StoryReads


LEMMA StoryBegins ==
    ASSUME StoryRowsFit, StoryCallsFit, NEW c \in StoryCalls, NEW order \in StoryOrders,
           BeginStoryCall(c, order)
    PROVE  StoryRowsFit' /\ StoryCallsFit'
<1>1. UNCHANGED <<storyKind, storyTables>> /\ schema = 93
  BY DEF BeginStoryCall
<1> DEFINE begun == [IdleStoryCall EXCEPT !.order = order]
<1>2. \/ StoryStep(c, [begun EXCEPT !.pc = "done", !.out = "invalid"])
      \/ /\ order.kind = "publish" /\ ValidFile(order.file)
         /\ StoryStep(c, [begun EXCEPT !.pc = "locking", !.rest = PublicationLocks])
      \/ order.kind # "publish" /\ StoryStep(c, [begun EXCEPT !.pc = "row"])
  BY DEF BeginStoryCall
<1>3. begun = [pc |-> "idle", order |-> order, holds |-> {}, rest |-> <<>>, id |-> "none", drop |-> {},
               out |-> "none"]
  <2>1. PICK base : base = begun
    OBVIOUS
  <2>2. base = [pc |-> "idle", order |-> order, holds |-> {}, rest |-> <<>>, id |-> "none", drop |-> {},
                out |-> "none"]
    BY <2>1 DEF IdleStoryCall
  <2> QED
    BY <2>1, <2>2
<1>4. CASE StoryStep(c, [begun EXCEPT !.pc = "done", !.out = "invalid"])
  <2>1. PICK call : call = [begun EXCEPT !.pc = "done", !.out = "invalid"]
    OBVIOUS
  <2>2. call = [pc |-> "done", order |-> order, holds |-> {}, rest |-> <<>>, id |-> "none", drop |-> {},
                out |-> "invalid"]
    BY <1>3, <2>1
  <2>3. StoryCallFits(call)
    BY <2>2 DEF StoryCallFits, StoryCallTyped, StoryWriteFits, Writing
  <2>4. \A other : StoriesApart(call, other) /\ StoriesApart(other, call)
    BY <2>2 DEF StoriesApart, Writing
  <2>5. StoryStep(c, call)
    BY <1>4, <2>1
  <2> QED
    BY <1>1, <2>3, <2>4, <2>5, StoryReads
<1>5. CASE /\ order.kind = "publish" /\ ValidFile(order.file)
           /\ StoryStep(c, [begun EXCEPT !.pc = "locking", !.rest = PublicationLocks])
  <2>1. PICK call : call = [begun EXCEPT !.pc = "locking", !.rest = PublicationLocks]
    OBVIOUS
  <2>2. call = [pc |-> "locking", order |-> order, holds |-> {}, rest |-> PublicationLocks, id |-> "none",
                drop |-> {}, out |-> "none"]
    BY <1>3, <2>1
  <2>3. [holds |-> call.holds, rest |-> call.rest] \in LockStages
    BY <2>2 DEF LockStages, PublicationLocks
  <2>4. StoryCallFits(call)
    BY <1>5, <2>2, <2>3 DEF StoryCallFits, StoryCallTyped, StoryWriteFits, Writing
  <2>5. \A other : StoriesApart(call, other) /\ StoriesApart(other, call)
    BY <2>2 DEF StoriesApart, Writing
  <2>6. StoryStep(c, call)
    BY <1>5, <2>1
  <2> QED
    BY <1>1, <2>4, <2>5, <2>6, StoryReads
<1>6. CASE order.kind # "publish" /\ StoryStep(c, [begun EXCEPT !.pc = "row"])
  <2>1. PICK call : call = [begun EXCEPT !.pc = "row"]
    OBVIOUS
  <2>2. call = [pc |-> "row", order |-> order, holds |-> {}, rest |-> <<>>, id |-> "none", drop |-> {},
                out |-> "none"]
    BY <1>3, <2>1
  <2>3. StoryCallFits(call)
    BY <1>6, <2>2 DEF StoryCallFits, StoryCallTyped, StoryWriteFits, Writing
  <2>4. \A other : StoriesApart(call, other) /\ StoriesApart(other, call)
    BY <2>2 DEF StoriesApart, Writing
  <2>5. StoryStep(c, call)
    BY <1>6, <2>1
  <2> QED
    BY <1>1, <2>3, <2>4, <2>5, StoryReads
<1> QED
  BY <1>2, <1>4, <1>5, <1>6

LEMMA NextLockStage ==
    ASSUME NEW holds, NEW rest, [holds |-> holds, rest |-> rest] \in LockStages
    PROVE  /\ Tail(rest) # <<>> => [holds |-> holds \cup {Head(rest)}, rest |-> Tail(rest)] \in LockStages
           /\ Tail(rest) = <<>> => holds \cup {Head(rest)} = {"domain", "storyline", "links", "advisory"}
<1>1. CASE holds = {} /\ rest = <<"domain", "storyline", "links", "advisory">>
  BY <1>1 DEF LockStages
<1>2. CASE holds = {"domain"} /\ rest = <<"storyline", "links", "advisory">>
  BY <1>2 DEF LockStages
<1>3. CASE holds = {"domain", "storyline"} /\ rest = <<"links", "advisory">>
  BY <1>3 DEF LockStages
<1>4. CASE holds = {"domain", "storyline", "links"} /\ rest = <<"advisory">>
  BY <1>4 DEF LockStages
<1> QED
  BY <1>1, <1>2, <1>3, <1>4 DEF LockStages

\* A call that goes on is not before the cutover.
LEMMA CallsFollowTheCutover ==
    ASSUME StoryRowsFit, StoryCallsFit, NEW c \in StoryCalls, storyCall[c].pc # "idle"
    PROVE  schema = 93 /\ StoryCallFits(storyCall[c])
  BY DEF StoryCallsFit, StoryRowsFit, CutoverFits

LEMMA StoryLocks ==
    ASSUME StoryRowsFit, StoryCallsFit, NEW c \in StoryCalls, LockCatalog(c)
    PROVE  StoryRowsFit' /\ StoryCallsFit'
<1>1. /\ storyCall[c].pc = "locking" /\ TableOpen(c, Head(storyCall[c].rest))
      /\ UNCHANGED <<storyKind, storyTables>>
  BY DEF LockCatalog
<1>2. schema = 93 /\ StoryCallFits(storyCall[c])
  BY <1>1, CallsFollowTheCutover
<1>3. PICK table, rest, holds, pc :
         /\ table = Head(storyCall[c].rest) /\ rest = Tail(storyCall[c].rest)
         /\ holds = storyCall[c].holds \cup {table} /\ pc = IF rest = <<>> THEN "working" ELSE "locking"
  OBVIOUS
<1>4. PICK call : call = [storyCall[c] EXCEPT !.holds = holds, !.rest = rest, !.pc = pc]
  OBVIOUS
<1>5. StoryStep(c, call)
  BY <1>1, <1>3, <1>4 DEF LockCatalog
<1>6. call = [pc |-> pc, order |-> storyCall[c].order, holds |-> holds, rest |-> rest, id |-> storyCall[c].id,
              drop |-> storyCall[c].drop, out |-> storyCall[c].out]
  BY <1>2, <1>4 DEF StoryCallFits, StoryCallTyped
<1>7. storyCall[c].order.kind = "publish"
  BY <1>1, <1>2 DEF StoryCallFits, StoryCallTyped
<1>8. StoryCallFits(call)
  <2>1. [holds |-> storyCall[c].holds, rest |-> storyCall[c].rest] \in LockStages
    BY <1>1, <1>2 DEF StoryCallFits, StoryCallTyped
  <2>2. /\ rest # <<>> => [holds |-> holds, rest |-> rest] \in LockStages
        /\ rest = <<>> => holds = {"domain", "storyline", "links", "advisory"}
    BY <1>3, <2>1, NextLockStage
  <2>3. pc \in {"locking", "working"} /\ (pc = "working" => rest = <<>>) /\ (pc = "locking" => rest # <<>>)
    BY <1>3
  <2> QED
    BY <1>1, <1>2, <1>6, <2>2, <2>3 DEF StoryCallFits, StoryCallTyped, StoryWriteFits, Writing
<1>9. ASSUME NEW d \in StoryCalls \ {c}
      PROVE  StoriesApart(call, storyCall[d]) /\ StoriesApart(storyCall[d], call)
  <2>1. table \notin storyCall[d].holds
    BY <1>1, <1>3, <1>7, <1>9 DEF TableOpen, Publishes, Asked
  <2>2. storyCall[c].holds \cap storyCall[d].holds = {}
    BY <1>7, <1>9 DEF StoryCallsFit, StoriesApart
  <2>3. holds \cap storyCall[d].holds = {}
    BY <1>3, <2>1, <2>2
  <2>4. call.holds = holds /\ call.pc \in {"locking", "working"}
    BY <1>3, <1>6
  <2> QED
    BY <2>3, <2>4 DEF StoriesApart, Writing
<1> QED
  BY <1>1, <1>2, <1>5, <1>8, <1>9, StoryReads

\* WriteRow: the row is locked, the table is shared with calls that write rows only.
LEMMA StoryWritesRow ==
    ASSUME StoryRowsFit, StoryCallsFit, NEW c \in StoryCalls, WriteRow(c)
    PROVE  StoryRowsFit' /\ StoryCallsFit'
<1>1. /\ storyCall[c].pc = "row" /\ Asked(c).kind \in {"create", "update"} /\ TableOpen(c, "storyline")
      /\ UNCHANGED <<storyKind, storyTables>>
  BY DEF WriteRow
<1>2. schema = 93 /\ StoryCallFits(storyCall[c])
  BY <1>1, CallsFollowTheCutover
<1>3. CASE StoryEnds(c, "not found")
  BY <1>1, <1>2, <1>3, StoryFails
<1>4. ASSUME NEW s \in StoryIds, RowIsFree(c, s),
             StoryStep(c, [storyCall[c] EXCEPT !.pc = "name", !.holds = {"storyline"}, !.id = s]),
             Asked(c).kind = "update" => storyline[s] # NoStory,
             Asked(c).kind = "create" => storyline[s] = NoStory
      PROVE  StoryRowsFit' /\ StoryCallsFit'
  <2>1. PICK call : call = [storyCall[c] EXCEPT !.pc = "name", !.holds = {"storyline"}, !.id = s]
    OBVIOUS
  <2>2. call = [pc |-> "name", order |-> Asked(c), holds |-> {"storyline"}, rest |-> storyCall[c].rest, id |-> s,
                drop |-> storyCall[c].drop, out |-> storyCall[c].out]
    BY <1>2, <2>1 DEF StoryCallFits, StoryCallTyped, Asked
  <2>3. StoryCallFits(call)
    BY <1>1, <1>2, <1>4, <2>2 DEF StoryCallFits, StoryCallTyped, StoryWriteFits, Writing, Asked
  <2>4. ASSUME NEW d \in StoryCalls \ {c}
        PROVE  StoriesApart(call, storyCall[d]) /\ StoriesApart(storyCall[d], call)
    <3>1. Writing(storyCall[d]) => storyCall[d].id # s
      BY <1>4, <2>4 DEF RowIsFree, Writing
    <3>2. "storyline" \in storyCall[d].holds => storyCall[d].order.kind # "publish"
      BY <1>1, <2>4 DEF TableOpen, Publishes, Asked
    <3> QED
      BY <1>1, <2>2, <3>1, <3>2 DEF StoriesApart, Asked
  <2>5. StoryStep(c, call)
    BY <1>4, <2>1
  <2> QED
    BY <1>1, <1>2, <2>3, <2>4, <2>5, StoryReads
<1>5. CASE Asked(c).kind = "create"
  <2>1. PICK s \in NewStories :
          RowIsFree(c, s) /\ StoryStep(c, [storyCall[c] EXCEPT !.pc = "name", !.holds = {"storyline"}, !.id = s])
    BY <1>5 DEF WriteRow
  <2>2. s \in StoryIds /\ storyline[s] = NoStory
    BY <2>1 DEF NewStories, Stories
  <2> QED
    BY <1>4, <1>5, <2>1, <2>2
<1>6. CASE Asked(c).kind # "create"
  <2>1. Asked(c).id \in StoryIds
    BY <1>1, <1>2, <1>6, StoryOrderFields DEF StoryCallFits, StoryCallTyped, Asked
  <2>2. \/ StoryEnds(c, "not found")
        \/ /\ storyline[Asked(c).id] # NoStory /\ RowIsFree(c, Asked(c).id)
           /\ StoryStep(c, [storyCall[c] EXCEPT !.pc = "name", !.holds = {"storyline"}, !.id = Asked(c).id])
    BY <1>6 DEF WriteRow
  <2> QED
    BY <1>3, <1>4, <1>6, <2>1, <2>2
<1> QED
  BY <1>5, <1>6


\* WriteName: nobody has the name, nor is about to have it.
LEMMA StoryWritesName ==
    ASSUME StoryRowsFit, StoryCallsFit, NEW c \in StoryCalls, WriteName(c)
    PROVE  StoryRowsFit' /\ StoryCallsFit'
<1> DEFINE name == Asked(c).name
           own == storyCall[c].id
<1>1. /\ storyCall[c].pc = "name" /\ (storyline[own].name # name => NameUndecided(c, name) = {})
      /\ UNCHANGED <<storyKind, storyTables>>
  BY DEF WriteName
<1>2. schema = 93 /\ StoryCallFits(storyCall[c])
  BY <1>1, CallsFollowTheCutover
<1>3. CASE StoryEnds(c, "conflict")
  BY <1>1, <1>2, <1>3, StoryFails
<1>4. CASE /\ ~\E s \in Stories \ {own} : storyline[s].name = name
           /\ StoryStep(c, [storyCall[c] EXCEPT !.pc = "links"])
  <2>1. PICK call : call = [storyCall[c] EXCEPT !.pc = "links"]
    OBVIOUS
  <2>2. call = [pc |-> "links", order |-> Asked(c), holds |-> storyCall[c].holds, rest |-> storyCall[c].rest,
                id |-> own, drop |-> storyCall[c].drop, out |-> storyCall[c].out]
    BY <1>2, <2>1 DEF StoryCallFits, StoryCallTyped, Asked
  <2>3. /\ Asked(c).kind \in {"create", "update"} /\ own \in StoryIds /\ storyCall[c].holds = {"storyline"}
        /\ Asked(c) \in StoryOrders
    BY <1>1, <1>2 DEF StoryCallFits, StoryCallTyped, Writing, Asked
  <2>4. name \in StoryNames /\ name # NoStory.name
    BY <2>3, StoryOrderFields, FirstStorylinesAreReadable
  <2>5. \A s \in StoryIds \ {own} : storyline[s].name # name
    BY <1>4, <2>4 DEF Stories
  <2>6. StoryCallFits(call)
    BY <1>1, <1>2, <2>2, <2>3, <2>5 DEF StoryCallFits, StoryCallTyped, StoryWriteFits, Writing, Asked
  <2>7. ASSUME NEW d \in StoryCalls \ {c}
        PROVE  StoriesApart(call, storyCall[d]) /\ StoriesApart(storyCall[d], call)
    <3>1. StoriesApart(storyCall[c], storyCall[d]) /\ StoriesApart(storyCall[d], storyCall[c])
      BY <2>7 DEF StoryCallsFit
    <3>2. ASSUME storyCall[d].pc \in {"links", "commit"}
          PROVE  storyCall[d].order.name # name
      <4>1. CASE storyline[own].name # name
        BY <1>1, <2>7, <3>2, <4>1 DEF NameUndecided, Asked
      <4>2. CASE storyline[own].name = name
        <5>1. storyCall[d].id # own
          BY <1>1, <3>1, <3>2 DEF StoriesApart, Writing
        <5>2. \A s \in StoryIds \ {storyCall[d].id} : storyline[s].name # storyCall[d].order.name
          BY <2>7, <3>2 DEF StoryCallsFit, StoryCallFits, StoryWriteFits
        <5> QED
          BY <2>3, <4>2, <5>1, <5>2
      <4> QED
        BY <4>1, <4>2
    <3> QED
      BY <1>1, <2>2, <3>1, <3>2 DEF StoriesApart, Writing, Asked
  <2>8. StoryStep(c, call)
    BY <1>4, <2>1
  <2> QED
    BY <1>1, <1>2, <2>6, <2>7, <2>8, StoryReads
<1> QED
  BY <1>3, <1>4 DEF WriteName

\* WriteLinks: the domains are there, and the links that go are known.
LEMMA StoryWritesLinks ==
    ASSUME StoryRowsFit, StoryCallsFit, NEW c \in StoryCalls, WriteLinks(c)
    PROVE  StoryRowsFit' /\ StoryCallsFit'
<1> DEFINE gone == {p \in membership : p[1] = storyCall[c].id /\ p[2] \notin Asked(c).domains}
<1>1. storyCall[c].pc = "links" /\ TableOpen(c, "links") /\ UNCHANGED <<storyKind, storyTables>>
  BY DEF WriteLinks
<1>2. schema = 93 /\ StoryCallFits(storyCall[c])
  BY <1>1, CallsFollowTheCutover
<1>3. CASE StoryEnds(c, "invalid")
  BY <1>1, <1>2, <1>3, StoryFails
<1>4. CASE /\ Asked(c).domains \subseteq Domains
           /\ StoryStep(c, [storyCall[c] EXCEPT !.pc = "commit", !.holds = @ \cup {"links"}, !.drop = gone])
  <2>1. PICK holds, drop : holds = storyCall[c].holds \cup {"links"} /\ drop = gone
    OBVIOUS
  <2>2. PICK call : call = [storyCall[c] EXCEPT !.pc = "commit", !.holds = holds, !.drop = drop]
    OBVIOUS
  <2>3. call = [pc |-> "commit", order |-> Asked(c), holds |-> holds, rest |-> storyCall[c].rest,
                id |-> storyCall[c].id, drop |-> drop, out |-> storyCall[c].out]
    BY <1>2, <2>2 DEF StoryCallFits, StoryCallTyped, Asked
  <2>4. holds = {"storyline", "links"} /\ storyCall[c].holds = {"storyline"}
    BY <1>1, <1>2, <2>1 DEF StoryCallFits, StoryCallTyped
  <2>5. StoryCallTyped(call)
    BY <1>1, <1>2, <2>3, <2>4 DEF StoryCallFits, StoryCallTyped, Writing, Asked
  <2>6. StoryWriteFits(call)
    BY <1>1, <1>2, <1>4, <2>1, <2>3 DEF StoryCallFits, StoryWriteFits, Writing, Asked, Domains
  <2>7. ASSUME NEW d \in StoryCalls \ {c}
        PROVE  StoriesApart(call, storyCall[d]) /\ StoriesApart(storyCall[d], call)
    <3>1. StoriesApart(storyCall[c], storyCall[d]) /\ StoriesApart(storyCall[d], storyCall[c])
      BY <2>7 DEF StoryCallsFit
    <3>2. "links" \in storyCall[d].holds => storyCall[d].order.kind # "publish"
      BY <1>1, <2>7 DEF TableOpen, Publishes, Asked
    <3>3. Asked(c).kind # "publish"
      BY <1>1, <1>2 DEF StoryCallFits, StoryCallTyped, Writing, Asked
    <3> QED
      BY <1>1, <2>3, <2>4, <3>1, <3>2, <3>3 DEF StoriesApart, Writing, Asked
  <2>8. StoryStep(c, call)
    BY <1>4, <2>1, <2>2
  <2> QED
    BY <1>1, <1>2, <2>5, <2>6, <2>7, <2>8, StoryReads DEF StoryCallFits
<1> QED
  BY <1>3, <1>4 DEF WriteLinks

\* The links of a storyline, once a call has written them.
LEMMA WrittenLinks ==
    ASSUME StoryCallsFit, NEW c \in StoryCalls, storyCall[c].pc = "commit"
    PROVE  \A s, d : <<s, d>> \in (membership \ storyCall[c].drop) \cup Pairs(storyCall[c].id, Asked(c).domains)
             <=> IF s = storyCall[c].id THEN d \in Asked(c).domains ELSE <<s, d>> \in membership
<1>1. storyCall[c].drop = {p \in membership : p[1] = storyCall[c].id /\ p[2] \notin Asked(c).domains}
  BY DEF StoryCallsFit, StoryCallFits, StoryWriteFits, Asked
<1>2. SUFFICES ASSUME NEW s, NEW d
               PROVE  <<s, d>> \in (membership \ storyCall[c].drop) \cup Pairs(storyCall[c].id, Asked(c).domains)
                        <=> IF s = storyCall[c].id THEN d \in Asked(c).domains ELSE <<s, d>> \in membership
  OBVIOUS
<1>3. <<s, d>> \in Pairs(storyCall[c].id, Asked(c).domains) <=> s = storyCall[c].id /\ d \in Asked(c).domains
  BY DEF Pairs
<1>4. <<s, d>> \in storyCall[c].drop <=>
        <<s, d>> \in membership /\ s = storyCall[c].id /\ d \notin Asked(c).domains
  BY <1>1
<1> QED
  BY <1>3, <1>4

LEMMA StoryCommits ==
    ASSUME StoryRowsFit, StoryCallsFit, storyWrites \in Nat, NEW c \in StoryCalls, CommitStoryline(c)
    PROVE  /\ StoryRowsFit' /\ StoryCallsFit'
           /\ \A s, d : <<s, d>> \in membership' <=>
                IF s = storyCall[c].id THEN d \in Asked(c).domains ELSE <<s, d>> \in membership
<1>1. /\ storyCall[c].pc = "commit" /\ StoryEnds(c, "done")
      /\ storyline' = [storyline EXCEPT ![storyCall[c].id] =
                         [name |-> Asked(c).name, text |-> Asked(c).text, updated |-> storyWrites]]
      /\ membership' = (membership \ storyCall[c].drop) \cup Pairs(storyCall[c].id, Asked(c).domains)
      /\ UNCHANGED <<storyKind, schema, legacy, domain>>
  BY DEF CommitStoryline
<1>2. schema = 93 /\ StoryCallFits(storyCall[c])
  BY <1>1, CallsFollowTheCutover
<1>3. PICK id, row, order : id = storyCall[c].id /\ order = Asked(c)
         /\ row = [name |-> order.name, text |-> order.text, updated |-> storyWrites]
  OBVIOUS
<1>4. /\ id \in StoryIds /\ order \in StoryOrders /\ order.kind \in {"create", "update"}
      /\ \A d \in order.domains : domain[d] # NoDomain
      /\ \A s \in StoryIds \ {id} : storyline[s].name # order.name
  BY <1>1, <1>2, <1>3 DEF StoryCallFits, StoryCallTyped, StoryWriteFits, Writing, Asked
<1>5. row \in StoryRow /\ row # NoStory /\ row.name = order.name
      /\ order.domains \subseteq DomainIds /\ order.domains # {}
  BY <1>3, <1>4, StoryOrderFields, StoryRowFacts DEF StoryRow
<1>6. storyline' = [storyline EXCEPT ![id] = row]
  BY <1>1, <1>3
<1>7. storyline \in [StoryIds -> StoryRow \cup {NoStory}]
  BY DEF StoryRowsFit, StoriesFit
<1>8. storyline'[id] = row /\ \A s \in StoryIds \ {id} : storyline'[s] = storyline[s]
  BY <1>4, <1>6, <1>7
<1>9. \A s, d : <<s, d>> \in membership' <=>
        IF s = id THEN d \in order.domains ELSE <<s, d>> \in membership
  BY <1>1, <1>3, WrittenLinks
<1>10. StoriesFit'
  <2>1. storyline' \in [StoryIds -> StoryRow \cup {NoStory}]
    BY <1>5, <1>6, <1>7
  <2>2. ASSUME NEW s \in StoryIds, NEW t \in StoryIds, s # t, storyline'[s] # NoStory
        PROVE  storyline'[s].name # storyline'[t].name
    <3>1. CASE s # id /\ t # id
      BY <1>8, <2>2, <3>1 DEF StoryRowsFit, StoriesFit
    <3>2. CASE s = id
      BY <1>4, <1>5, <1>8, <2>2, <3>2
    <3>3. CASE t = id
      BY <1>4, <1>5, <1>8, <2>2, <3>3
    <3> QED
      BY <3>1, <3>2, <3>3
  <2> QED
    BY <2>1, <2>2 DEF StoriesFit
<1>11. MembershipsFit'
  <2>1. SUFFICES ASSUME NEW p \in membership'
                 PROVE  /\ p \in StoryIds \X DomainIds
                        /\ storyline'[p[1]] # NoStory /\ domain[p[2]] # NoDomain
    BY <1>1 DEF MembershipsFit
  <2>2. CASE p \in membership
    BY <1>5, <1>8, <2>2 DEF StoryRowsFit, MembershipsFit
  <2>3. CASE p \in Pairs(storyCall[c].id, Asked(c).domains)
    <3>1. PICK d \in order.domains : p = <<id, d>>
      BY <1>3, <2>3 DEF Pairs
    <3>2. p[1] = id /\ p[2] = d
      BY <3>1
    <3> QED
      BY <1>4, <1>5, <1>8, <3>1, <3>2
  <2> QED
    BY <1>1, <2>2, <2>3
<1>12. CutoverFits'
  <2>1. ASSUME NEW s \in StoryIds, storyline'[s] # NoStory
        PROVE  \E d : <<s, d>> \in membership'
    <3>1. CASE s = id
      BY <1>5, <1>9, <3>1
    <3>2. CASE s # id
      BY <1>2, <1>8, <1>9, <2>1, <3>2 DEF StoryRowsFit, CutoverFits
    <3> QED
      BY <3>1, <3>2
  <2>2. schema' = 93 /\ legacy' = legacy /\ storyKind' = storyKind
    BY <1>1, <1>2
  <2>3. storyKind \in {"macroeconomic", "geopolitic"} /\ legacy \in [StoryIds -> DomainIds \cup {NoDomainId}]
    BY DEF StoryRowsFit, CutoverFits
  <2>4. schema' \in {92, 93} /\ schema' # 92
    BY <2>2
  <2>5. legacy' \in [StoryIds -> DomainIds \cup {NoDomainId}]
    BY <2>2, <2>3
  <2>6. storyKind' \in {"macroeconomic", "geopolitic"}
    BY <2>2, <2>3
  <2> QED
    BY <2>1, <2>4, <2>5, <2>6, Zenon DEF CutoverFits
<1>13. DomainsFit'
  BY <1>1 DEF StoryRowsFit, DomainsFit
<1>14. ASSUME NEW d \in StoryCalls \ {c}
       PROVE  StoryCallFits(storyCall[d])'
  <2>1. PICK old : old = storyCall[d]
    OBVIOUS
  <2>2. storyCall'[d] = old /\ StoryCallFits(old) /\ StoriesApart(storyCall[c], old)
    BY <1>1, <1>14, <2>1 DEF StoryCallsFit, StoryEnds, StoryStep
  <2>3. StoryCallTyped(old)'
    BY <1>1, <2>2 DEF StoryCallFits, StoryCallTyped, ValidFile, ValidGeopolitic, ValidMacroeconomic, Versions
  <2>4. Writing(old) => old.id # id /\ old.id \in StoryIds
    BY <1>1, <1>3, <2>2 DEF StoriesApart, StoryCallFits, StoryCallTyped, Writing
  <2>5. old.pc \in {"links", "commit"} => old.order.name # order.name
    BY <1>1, <1>3, <2>2 DEF StoriesApart, Asked
  <2>6. Writing(old) => storyline'[old.id] = storyline[old.id]
    BY <1>8, <2>4
  <2>7. old.pc \in {"links", "commit"} => \A s \in StoryIds \ {old.id} : storyline'[s].name # old.order.name
    <3>1. SUFFICES ASSUME old.pc \in {"links", "commit"}, NEW s \in StoryIds \ {old.id}
                   PROVE  storyline'[s].name # old.order.name
      OBVIOUS
    <3>2. CASE s = id
      BY <1>5, <1>8, <2>5, <3>1, <3>2
    <3>3. CASE s # id
      BY <1>8, <2>2, <3>1, <3>3 DEF StoryCallFits, StoryWriteFits
    <3> QED
      BY <3>2, <3>3
  <2>8. old.pc = "commit" =>
          old.drop = {p \in membership' : p[1] = old.id /\ p[2] \notin old.order.domains}
    <3>1. SUFFICES ASSUME old.pc = "commit"
                   PROVE  old.drop = {p \in membership' : p[1] = old.id /\ p[2] \notin old.order.domains}
      OBVIOUS
    <3>2. old.drop = {p \in membership : p[1] = old.id /\ p[2] \notin old.order.domains}
      BY <2>2, <3>1 DEF StoryCallFits, StoryWriteFits
    <3>3. \A p : p[1] = old.id => (p \in membership' <=> p \in membership)
      <4>1. SUFFICES ASSUME NEW p, p[1] = old.id
                     PROVE  p \in membership' <=> p \in membership
        OBVIOUS
      <4>2. old.id # id
        BY <2>4, <3>1 DEF Writing
      <4>3. \A q \in Pairs(storyCall[c].id, Asked(c).domains) : q[1] = id
        BY <1>3 DEF Pairs
      <4>4. \A q \in storyCall[c].drop : q[1] = id
        BY <1>1, <1>2, <1>3 DEF StoryCallFits, StoryWriteFits
      <4> QED
        BY <1>1, <4>1, <4>2, <4>3, <4>4
    <3> QED
      BY <3>2, <3>3
  <2>9. StoryWriteFits(old)'
    BY <1>1, <2>2, <2>6, <2>7, <2>8 DEF StoryCallFits, StoryWriteFits, Writing
  <2> QED
    BY <2>2, <2>3, <2>9 DEF StoryCallFits
<1>15. StoryCallsFit'
  BY <1>1, <1>2, <1>14, StoryCallEnds
<1> QED
  BY <1>3, <1>9, <1>10, <1>11, <1>12, <1>13, <1>15 DEF StoryRowsFit


\* Domains are written, and those that were stored still are.
LEMMA StoryDomainsGrow ==
    ASSUME StoryRowsFit, StoryCallsFit, NEW c \in StoryCalls, NEW out, StoryEnds(c, out), schema = 93,
           UNCHANGED <<storyKind, schema, legacy, storyline, membership>>, DomainsFit',
           \A d \in DomainIds : domain[d] # NoDomain => domain'[d] # NoDomain
    PROVE  StoryRowsFit' /\ StoryCallsFit'
<1>1. StoriesFit'
  BY DEF StoryRowsFit, StoriesFit
<1>2. MembershipsFit'
  <2>1. SUFFICES ASSUME NEW p \in membership
                 PROVE  /\ p \in StoryIds \X DomainIds
                        /\ storyline[p[1]] # NoStory /\ domain'[p[2]] # NoDomain
    BY DEF MembershipsFit
  <2>2. p \in StoryIds \X DomainIds /\ storyline[p[1]] # NoStory /\ domain[p[2]] # NoDomain
    BY DEF StoryRowsFit, MembershipsFit
  <2> QED
    BY <2>2
<1>3. CutoverFits'
  BY DEF StoryRowsFit, CutoverFits
<1>4. ASSUME NEW d \in StoryCalls \ {c}
      PROVE  StoryCallFits(storyCall[d])'
  <2>1. PICK old : old = storyCall[d]
    OBVIOUS
  <2>2. storyCall'[d] = old /\ StoryCallFits(old)
    BY <1>4, <2>1 DEF StoryCallsFit, StoryEnds, StoryStep
  <2>3. StoryCallTyped(old)'
    BY <2>2 DEF StoryCallFits, StoryCallTyped, ValidFile, ValidGeopolitic, ValidMacroeconomic, Versions
  <2>4. /\ old.pc = "commit" => old.order.domains \subseteq DomainIds
        /\ old.pc = "domain" => old.order.id \in DomainIds
    BY <2>2, StoryOrderFields DEF StoryCallFits, StoryCallTyped, Writing
  <2>5. StoryWriteFits(old)'
    BY <2>2, <2>4 DEF StoryCallFits, StoryWriteFits
  <2> QED
    BY <2>2, <2>3, <2>5 DEF StoryCallFits
<1>5. StoryCallsFit'
  BY <1>4, StoryCallEnds
<1> QED
  BY <1>1, <1>2, <1>3, <1>5 DEF StoryRowsFit

LEMMA StoryCreatesDomain ==
    ASSUME StoryRowsFit, StoryCallsFit, storyWrites \in Nat, NEW c \in StoryCalls, CreateDomain(c)
    PROVE  StoryRowsFit' /\ StoryCallsFit'
<1>1. /\ storyCall[c].pc = "row" /\ Asked(c).kind = "create domain"
      /\ UNCHANGED <<storyKind, schema, legacy, storyline, membership>>
  BY DEF CreateDomain, InStep, Asked
<1>2. schema = 93 /\ StoryCallFits(storyCall[c])
  BY <1>1, CallsFollowTheCutover
<1>3. Asked(c).code \in DomainCodes /\ Asked(c).name \in DomainLabels
  BY <1>1, <1>2, StoryOrderFields DEF StoryCallFits, StoryCallTyped, Asked
<1>4. CASE StoryEnds(c, "conflict") /\ UNCHANGED domain
  BY <1>1, <1>2, <1>4, StoryFails DEF storyTables
<1>5. ASSUME ~\E d \in Domains : domain[d].code = Asked(c).code \/ domain[d].name = Asked(c).name,
             StoryEnds(c, "done"), NEW new \in NewDomains,
             domain' = [domain EXCEPT ![new] = [code |-> Asked(c).code, name |-> Asked(c).name,
                                                updated |-> storyWrites]]
      PROVE  StoryRowsFit' /\ StoryCallsFit'
  <2>1. PICK row : row = [code |-> Asked(c).code, name |-> Asked(c).name, updated |-> storyWrites]
    OBVIOUS
  <2>2. row \in DomainRow /\ row # NoDomain /\ row.code = Asked(c).code /\ row.name = Asked(c).name
    BY <1>3, <2>1, StoryRowFacts DEF DomainRow
  <2>3. new \in DomainIds /\ domain[new] = NoDomain /\ \A k \in DomainCodes : DomainId[k] # new
    BY StorylineConstants DEF NewDomains, Domains, Range
  <2>4. domain \in [DomainIds -> DomainRow \cup {NoDomain}] /\ domain' = [domain EXCEPT ![new] = row]
    BY <1>5, <2>1 DEF StoryRowsFit, DomainsFit
  <2>5. domain' \in [DomainIds -> DomainRow \cup {NoDomain}] /\ domain'[new] = row
    BY <2>2, <2>3, <2>4
  <2>6. \A d \in DomainIds \ {new} : domain'[d] = domain[d]
    BY <2>4
  <2>7. \A d \in DomainIds \ {new} : domain[d] # NoDomain => domain[d].code # row.code /\ domain[d].name # row.name
    BY <1>5, <2>2 DEF Domains
  <2>8. ASSUME NEW k \in DomainCodes, domain'[DomainId[k]] # NoDomain
        PROVE  domain'[DomainId[k]].code = k
    <3>1. DomainId[k] \in DomainIds \ {new}
      BY <2>3, StorylineConstants
    <3> QED
      BY <2>6, <2>8, <3>1 DEF StoryRowsFit, DomainsFit
  <2>9. ASSUME NEW d \in DomainIds, NEW e \in DomainIds, d # e, domain'[d] # NoDomain, domain'[e] # NoDomain
        PROVE  domain'[d].name # domain'[e].name /\ domain'[d].code # domain'[e].code
    <3>1. CASE d # new /\ e # new
      BY <2>6, <2>9, <3>1 DEF StoryRowsFit, DomainsFit
    <3>2. CASE d = new
      BY <2>5, <2>6, <2>7, <2>9, <3>2
    <3>3. CASE e = new
      BY <2>5, <2>6, <2>7, <2>9, <3>3
    <3> QED
      BY <3>1, <3>2, <3>3
  <2>10. DomainsFit'
    BY <2>5, <2>8, <2>9 DEF DomainsFit
  <2>11. \A d \in DomainIds : domain[d] # NoDomain => domain'[d] # NoDomain
    BY <2>2, <2>5, <2>6
  <2> QED
    BY <1>1, <1>2, <1>5, <2>10, <2>11, StoryDomainsGrow
<1> QED
  BY <1>4, <1>5 DEF CreateDomain

\* LockDomain: the row is there, and the table is shared with calls that write rows only.
LEMMA StoryLocksDomain ==
    ASSUME StoryRowsFit, StoryCallsFit, NEW c \in StoryCalls, LockDomain(c)
    PROVE  StoryRowsFit' /\ StoryCallsFit'
<1>1. /\ storyCall[c].pc = "row" /\ Asked(c).kind = "update domain" /\ TableOpen(c, "domain")
      /\ UNCHANGED <<storyKind, storyTables>>
  BY DEF LockDomain, InStep, Asked
<1>2. schema = 93 /\ StoryCallFits(storyCall[c])
  BY <1>1, CallsFollowTheCutover
<1>3. CASE StoryEnds(c, "not found")
  BY <1>1, <1>2, <1>3, StoryFails
<1>4. CASE /\ domain[Asked(c).id] # NoDomain
           /\ StoryStep(c, [storyCall[c] EXCEPT !.pc = "domain", !.holds = {"domain"}])
  <2>1. PICK call : call = [storyCall[c] EXCEPT !.pc = "domain", !.holds = {"domain"}]
    OBVIOUS
  <2>2. call = [pc |-> "domain", order |-> Asked(c), holds |-> {"domain"}, rest |-> storyCall[c].rest,
                id |-> storyCall[c].id, drop |-> storyCall[c].drop, out |-> storyCall[c].out]
    BY <1>2, <2>1 DEF StoryCallFits, StoryCallTyped, Asked
  <2>3. StoryCallFits(call)
    BY <1>1, <1>2, <1>4, <2>2 DEF StoryCallFits, StoryCallTyped, StoryWriteFits, Writing, Asked
  <2>4. ASSUME NEW d \in StoryCalls \ {c}
        PROVE  StoriesApart(call, storyCall[d]) /\ StoriesApart(storyCall[d], call)
    <3>1. "domain" \in storyCall[d].holds => storyCall[d].order.kind # "publish"
      BY <1>1, <2>4 DEF TableOpen, Publishes, Asked
    <3> QED
      BY <1>1, <2>2, <3>1 DEF StoriesApart, Writing, Asked
  <2>5. StoryStep(c, call)
    BY <1>4, <2>1
  <2> QED
    BY <1>1, <1>2, <2>3, <2>4, <2>5, StoryReads
<1> QED
  BY <1>3, <1>4, Zenon DEF LockDomain

LEMMA StoryUpdatesDomain ==
    ASSUME StoryRowsFit, StoryCallsFit, storyWrites \in Nat, NEW c \in StoryCalls, UpdateDomain(c)
    PROVE  StoryRowsFit' /\ StoryCallsFit'
<1>1. storyCall[c].pc = "domain" /\ UNCHANGED <<storyKind, schema, legacy, storyline, membership>>
  BY DEF UpdateDomain
<1>2. schema = 93 /\ StoryCallFits(storyCall[c])
  BY <1>1, CallsFollowTheCutover
<1>3. /\ Asked(c).id \in DomainIds /\ Asked(c).name \in DomainLabels
      /\ domain[Asked(c).id] # NoDomain
  BY <1>1, <1>2, StoryOrderFields DEF StoryCallFits, StoryCallTyped, StoryWriteFits, Asked
<1>4. CASE UNCHANGED domain /\ StoryEnds(c, "conflict")
  BY <1>1, <1>2, <1>4, StoryFails DEF storyTables
<1>5. ASSUME StoryEnds(c, "done"),
             ~\E e \in Domains \ {Asked(c).id} : domain[e].name = Asked(c).name,
             domain' = [domain EXCEPT ![Asked(c).id].name = Asked(c).name, ![Asked(c).id].updated = storyWrites]
      PROVE  StoryRowsFit' /\ StoryCallsFit'
  <2>1. PICK own, name : own = Asked(c).id /\ name = Asked(c).name
    OBVIOUS
  <2>2. PICK row : row = [code |-> domain[own].code, name |-> name, updated |-> storyWrites]
    OBVIOUS
  <2>3. domain[own] \in DomainRow /\ domain \in [DomainIds -> DomainRow \cup {NoDomain}] /\ own \in DomainIds
    BY <1>3, <2>1 DEF StoryRowsFit, DomainsFit
  <2>4. row \in DomainRow /\ row # NoDomain /\ row.name = name /\ row.code = domain[own].code
    BY <1>3, <2>1, <2>2, <2>3, StoryRowFacts DEF DomainRow
  <2>5. domain' = [domain EXCEPT ![own] = row]
    <3>1. PICK old : old = domain[own]
      OBVIOUS
    <3>2. old = [code |-> old.code, name |-> old.name, updated |-> old.updated]
      BY <2>3, <3>1 DEF DomainRow
    <3>3. PICK renamed : renamed = [old EXCEPT !.name = name]
      OBVIOUS
    <3>4. renamed = [code |-> old.code, name |-> name, updated |-> old.updated]
      BY <3>2, <3>3
    <3>5. [renamed EXCEPT !.updated = storyWrites] = row
      BY <2>2, <3>1, <3>4
    <3> QED
      BY <1>5, <2>1, <2>3, <3>1, <3>3, <3>5
  <2>6. domain' \in [DomainIds -> DomainRow \cup {NoDomain}] /\ domain'[own] = row
    BY <2>3, <2>4, <2>5
  <2>7. \A d \in DomainIds \ {own} : domain'[d] = domain[d]
    BY <2>3, <2>5
  <2>8. \A d \in DomainIds \ {own} : domain[d] # NoDomain => domain[d].name # name /\ domain[d].code # row.code
    <3>1. \A e \in Domains \ {own} : domain[e].name # name
      BY <1>5, <2>1, Zenon
    <3>2. \A e \in DomainIds : domain[e] # NoDomain => e \in Domains
      BY DEF Domains
    <3>3. \A d, e \in DomainIds : d # e /\ domain[d] # NoDomain /\ domain[e] # NoDomain =>
            domain[d].code # domain[e].code
      BY DEF StoryRowsFit, DomainsFit
    <3>4. own \in DomainIds /\ domain[own] # NoDomain /\ row.code = domain[own].code
      BY <1>3, <2>1, <2>4
    <3> QED
      BY <3>1, <3>2, <3>3, <3>4
  <2>9. ASSUME NEW k \in DomainCodes, domain'[DomainId[k]] # NoDomain
        PROVE  domain'[DomainId[k]].code = k
    <3>1. DomainId[k] \in DomainIds
      BY StorylineConstants
    <3>2. CASE DomainId[k] = own
      BY <1>3, <2>1, <2>4, <2>6, <3>2 DEF StoryRowsFit, DomainsFit
    <3>3. CASE DomainId[k] # own
      BY <2>7, <2>9, <3>1, <3>3 DEF StoryRowsFit, DomainsFit
    <3> QED
      BY <3>2, <3>3
  <2>10. ASSUME NEW d \in DomainIds, NEW e \in DomainIds, d # e, domain'[d] # NoDomain, domain'[e] # NoDomain
         PROVE  domain'[d].name # domain'[e].name /\ domain'[d].code # domain'[e].code
    <3>1. CASE d # own /\ e # own
      BY <2>7, <2>10, <3>1 DEF StoryRowsFit, DomainsFit
    <3>2. CASE d = own
      BY <2>4, <2>6, <2>7, <2>8, <2>10, <3>2
    <3>3. CASE e = own
      BY <2>4, <2>6, <2>7, <2>8, <2>10, <3>3
    <3> QED
      BY <3>1, <3>2, <3>3
  <2>11. DomainsFit'
    BY <2>6, <2>9, <2>10 DEF DomainsFit
  <2>12. \A d \in DomainIds : domain[d] # NoDomain => domain'[d] # NoDomain
    BY <2>4, <2>6, <2>7
  <2> QED
    BY <1>1, <1>2, <1>5, <2>11, <2>12, StoryDomainsGrow
<1> QED
  BY <1>4, <1>5, Zenon DEF UpdateDomain


\* Before the cutover nobody calls.
LEMMA OldTablesChange ==
    ASSUME StoryCallsFit, schema = 92, UNCHANGED storyCall
    PROVE  StoryCallsFit'
<1>1. \A c \in StoryCalls : storyCall'[c] = storyCall[c] /\ storyCall[c].pc = "idle"
  BY DEF StoryCallsFit
<1>2. ASSUME NEW c \in StoryCalls
      PROVE  StoryCallFits(storyCall[c])'
  <2>1. PICK old : old = storyCall[c]
    OBVIOUS
  <2>2. storyCall'[c] = old /\ StoryCallFits(old) /\ old.pc = "idle"
    BY <1>1, <2>1 DEF StoryCallsFit
  <2>3. StoryCallFits(old)'
    BY <2>2 DEF StoryCallFits, StoryCallTyped, StoryWriteFits, Writing
  <2> QED
    BY <2>2, <2>3
<1>3. \A c, d \in StoryCalls : c # d => StoriesApart(storyCall[c], storyCall[d])'
  BY DEF StoryCallsFit, StoriesApart
<1> QED
  BY <1>1, <1>2, <1>3 DEF StoryCallsFit

LEMMA StoryOldWrites ==
    ASSUME StoryRowsFit, StoryCallsFit, NEW s \in StoryIds, NEW d \in DomainIds, OldWrite(s, d)
    PROVE  StoryRowsFit' /\ StoryCallsFit'
<1>1. /\ schema = 92 /\ domain[d] # NoDomain /\ legacy' = [legacy EXCEPT ![s] = d]
      /\ UNCHANGED <<storyKind, schema, domain, storyline, membership, storyCall>>
  BY DEF OldWrite, Domains
<1>2. StoryCallsFit'
  BY <1>1, OldTablesChange
<1>3. DomainsFit' /\ StoriesFit' /\ MembershipsFit'
  BY <1>1 DEF StoryRowsFit, DomainsFit, StoriesFit, MembershipsFit
<1>4. legacy' \in [StoryIds -> DomainIds \cup {NoDomainId}]
  BY <1>1 DEF StoryRowsFit, CutoverFits
<1>5. ASSUME NEW t \in StoryIds, storyline[t] # NoStory
      PROVE  legacy'[t] \in DomainIds /\ domain[legacy'[t]] # NoDomain
  BY <1>1, <1>5 DEF StoryRowsFit, CutoverFits
<1>6. CutoverFits'
  BY <1>1, <1>4, <1>5 DEF StoryRowsFit, CutoverFits
<1> QED
  BY <1>2, <1>3, <1>6 DEF StoryRowsFit

LEMMA StoryBackfills ==
    ASSUME StoryRowsFit, StoryCallsFit, BackfillDomainLinks
    PROVE  StoryRowsFit' /\ StoryCallsFit'
<1>1. /\ schema = 92 /\ membership' = membership \cup {<<s, legacy[s]>> : s \in Stories}
      /\ UNCHANGED <<storyKind, schema, legacy, domain, storyline, storyCall>>
  BY DEF BackfillDomainLinks
<1>2. StoryCallsFit'
  BY <1>1, OldTablesChange
<1>3. DomainsFit' /\ StoriesFit'
  BY <1>1 DEF StoryRowsFit, DomainsFit, StoriesFit
<1>4. CutoverFits'
  BY <1>1 DEF StoryRowsFit, CutoverFits
<1>5. ASSUME NEW p \in membership'
      PROVE  p \in StoryIds \X DomainIds /\ storyline[p[1]] # NoStory /\ domain[p[2]] # NoDomain
  <2>1. CASE p \in membership
    BY <2>1 DEF StoryRowsFit, MembershipsFit
  <2>2. CASE \E s \in Stories : p = <<s, legacy[s]>>
    BY <1>1, <2>2 DEF StoryRowsFit, CutoverFits, Stories
  <2> QED
    BY <1>1, <2>1, <2>2
<1>6. MembershipsFit'
  BY <1>1, <1>5 DEF MembershipsFit
<1> QED
  BY <1>2, <1>3, <1>4, <1>6 DEF StoryRowsFit

LEMMA StoryCutsOver ==
    ASSUME StoryRowsFit, StoryCallsFit, RemoveColumn
    PROVE  StoryRowsFit' /\ StoryCallsFit'
<1>1. /\ schema = 92 /\ schema' = 93 /\ \A s \in Stories : <<s, legacy[s]>> \in membership
      /\ legacy' = [s \in StoryIds |-> NoDomainId]
      /\ UNCHANGED <<storyKind, domain, storyline, membership, storyCall>>
  BY DEF RemoveColumn
<1>2. StoryCallsFit'
  BY <1>1, OldTablesChange
<1>3. DomainsFit' /\ StoriesFit' /\ MembershipsFit'
  BY <1>1 DEF StoryRowsFit, DomainsFit, StoriesFit, MembershipsFit
<1>4. legacy' \in [StoryIds -> DomainIds \cup {NoDomainId}]
  BY <1>1
<1>5. \A s \in StoryIds : storyline'[s] # NoStory => \E d : <<s, d>> \in membership'
  BY <1>1 DEF Stories
<1>6. storyKind' \in {"macroeconomic", "geopolitic"} /\ schema' \in {92, 93} /\ schema' # 92
  BY <1>1 DEF StoryRowsFit, CutoverFits
<1>7. CutoverFits'
  BY <1>4, <1>5, <1>6, Zenon DEF CutoverFits
<1> QED
  BY <1>2, <1>3, <1>7 DEF StoryRowsFit

LEMMA StoryBreaksDeadlock ==
    ASSUME StoryRowsFit, StoryCallsFit, NEW c \in StoryCalls, BreakStoryDeadlock(c)
    PROVE  StoryRowsFit' /\ StoryCallsFit'
<1>1. /\ StoryDeadlock(c) # {} /\ StoryEnds(c, "failed")
      /\ UNCHANGED <<storyKind, storyTables>>
  BY DEF BreakStoryDeadlock
<1>2. storyCall[c].pc # "idle"
  <2>1. PICK d \in StoryCalls \ {c} : WaitsForCall(c, d)
    BY <1>1 DEF StoryDeadlock
  <2> QED
    BY <2>1 DEF WaitsForCall
<1>3. schema = 93
  BY <1>2, CallsFollowTheCutover
<1> QED
  BY <1>1, <1>3, StoryFails

-----------------------------------------------------------------------------
(* Storylines: catalogues *)

\* A valid file has every domain once and names of its own.
LEMMA CatalogOfEveryDomain ==
    ASSUME NEW file \in StorylineFiles, ValidFile(file)
    PROVE  /\ \A i \in Range(file.domains) : i.code \in DomainCodes /\ i.name \in DomainLabels
           /\ \A i, j \in Range(file.domains) : i.code = j.code \/ i.name = j.name => i = j
           /\ \A n, m \in DOMAIN file.domains :
                file.domains[n].name = file.domains[m].name => n = m
           /\ \A k \in DomainCodes : \E i \in Range(file.domains) : i.code = k
           /\ DOMAIN file.domains \subseteq Nat
<1> DEFINE D == file.domains
           code == [n \in DOMAIN D |-> D[n].code]
<1>1. /\ {D[n].code : n \in DOMAIN D} = DomainCodes /\ Len(D) = Cardinality(DomainCodes)
      /\ \A n, m \in DOMAIN D : D[n].name = D[m].name => n = m
  BY DEF ValidFile, ValidGeopolitic, ValidMacroeconomic
<1>2. DOMAIN D = 1 .. Len(D) /\ \A n \in DOMAIN D : D[n].name \in DomainLabels
  BY StorylineFileFields
<1>3. Len(D) \in Nat
  BY <1>1, FS_CardinalityType, StorylineConstants
<1>4. IsFiniteSet(DOMAIN D) /\ Cardinality(DOMAIN D) = Cardinality(DomainCodes)
  <2>1. PICK len \in Nat : len = Len(D)
    BY <1>3
  <2>2. IsFiniteSet(1 .. len) /\ Cardinality(1 .. len) = IF 1 > len THEN 0 ELSE len - 1 + 1
    <3>1. 1 \in Int /\ len \in Int
      OBVIOUS
    <3> QED
      BY ONLY <3>1, FS_Interval
  <2>3. Cardinality(1 .. len) = len
    BY <2>2
  <2> QED
    BY <1>1, <1>2, <2>1, <2>2, <2>3
<1>5. code \in Surjection(DOMAIN D, DomainCodes)
  BY <1>1 DEF Surjection
<1>6. code \in Injection(DOMAIN D, DomainCodes)
  BY <1>4, <1>5, FS_SurjSameCardinalityImpliesInj
<1>7. \A n, m \in DOMAIN D : D[n].code = D[m].code => n = m
  BY <1>6 DEF Injection, IsInjective
<1>8. \A i \in Range(D) : \E n \in DOMAIN D : i = D[n]
  BY DEF Range
<1>9. \A n \in DOMAIN D : D[n] \in Range(D)
  BY DEF Range
<1>10. DOMAIN D \subseteq Nat
  BY <1>2, <1>3
<1> HIDE DEF D, code
<1>11. \A i \in Range(D) : i.code \in DomainCodes /\ i.name \in DomainLabels
  BY <1>1, <1>2, <1>8
<1>12. \A i, j \in Range(D) : i.code = j.code \/ i.name = j.name => i = j
  BY <1>1, <1>7, <1>8
<1>13. \A k \in DomainCodes : \E i \in Range(D) : i.code = k
  BY <1>1, <1>9
<1> QED
  BY <1>1, <1>10, <1>11, <1>12, <1>13 DEF D

LEMMA CatalogOfStorylines ==
    ASSUME NEW file \in StorylineFiles, ValidFile(file)
    PROVE  /\ \A i \in Range(file.storylines) :
                /\ i.name \in StoryNames /\ i.text \in StoryTexts
                /\ ItemDomains(i) \subseteq DomainCodes /\ ItemDomains(i) # {}
           /\ \A i, j \in Range(file.storylines) : i.name = j.name => i = j
<1> DEFINE S == file.storylines
<1>1. /\ \A n, m \in DOMAIN S : S[n].name = S[m].name => n = m
      /\ \A n \in DOMAIN S : ItemDomains(S[n]) \subseteq DomainCodes
  BY DEF ValidFile, ValidGeopolitic, ValidMacroeconomic
<1>2. \A n \in DOMAIN S : S[n].name \in StoryNames /\ S[n].text \in StoryTexts
  BY StorylineFileFields
<1>3. \A i \in Range(S) : \E n \in DOMAIN S : i = S[n]
  BY DEF Range
<1>4. \A i : ItemDomains(i) # {}
  BY DEF ItemDomains
<1> HIDE DEF S
<1>5. \A i, j \in Range(S) : i.name = j.name => i = j
  BY <1>1, <1>3
<1>6. \A i \in Range(S) : /\ i.name \in StoryNames /\ i.text \in StoryTexts
                          /\ ItemDomains(i) \subseteq DomainCodes /\ ItemDomains(i) # {}
  BY <1>1, <1>2, <1>3, <1>4
<1> QED
  BY <1>5, <1>6 DEF S

\* What an item of a valid file writes, and what others leave.
LEMMA UpsertedDomain ==
    ASSUME NEW file \in StorylineFiles, ValidFile(file)
    PROVE  /\ \A i \in Range(file.domains) :
                UpsertedDomains(file)[DomainId[i.code]] =
                  IF domain[DomainId[i.code]].name = i.name THEN domain[DomainId[i.code]]
                  ELSE [code |-> i.code, name |-> i.name, updated |-> storyWrites]
           /\ \A d \in DomainIds : (\A i \in Range(file.domains) : d # DomainId[i.code]) =>
                UpsertedDomains(file)[d] = domain[d]
           /\ DOMAIN UpsertedDomains(file) = DomainIds
<1> DEFINE D == Range(file.domains)
           Items(d) == {i \in D : DomainId[i.code] = d}
           Row(d) == IF Items(d) = {} THEN domain[d]
                     ELSE LET i == CHOOSE i \in Items(d) : TRUE
                          IN  IF domain[d].name = i.name THEN domain[d]
                              ELSE [code |-> i.code, name |-> i.name, updated |-> storyWrites]
<1>1. UpsertedDomains(file) = [d \in DomainIds |-> Row(d)]
  BY DEF UpsertedDomains
<1>2. ASSUME NEW i \in D
      PROVE  DomainId[i.code] \in DomainIds /\ Items(DomainId[i.code]) = {i}
  <2>1. \A j \in D : DomainId[j.code] = DomainId[i.code] => j = i
    BY CatalogOfEveryDomain, StorylineConstants
  <2> QED
    BY <2>1, CatalogOfEveryDomain, StorylineConstants
<1>3. ASSUME NEW i \in D
      PROVE  Row(DomainId[i.code]) = IF domain[DomainId[i.code]].name = i.name THEN domain[DomainId[i.code]]
                                     ELSE [code |-> i.code, name |-> i.name, updated |-> storyWrites]
  <2>1. Items(DomainId[i.code]) = {i}
    BY <1>2
  <2>2. (CHOOSE j \in Items(DomainId[i.code]) : TRUE) = i
    BY <2>1
  <2> HIDE DEF Items
  <2> QED
    BY <2>1, <2>2
<1>4. ASSUME NEW d \in DomainIds, \A i \in D : d # DomainId[i.code]
      PROVE  Row(d) = domain[d]
  <2>1. Items(d) = {}
    BY <1>4
  <2> HIDE DEF Items
  <2> QED
    BY <2>1
<1> HIDE DEF Row, Items
<1> QED
  BY <1>1, <1>2, <1>3, <1>4

LEMMA UpsertedStoryline ==
    ASSUME NEW file \in StorylineFiles, ValidFile(file)
    PROVE  /\ \A i \in Range(file.storylines) :
                UpsertedStorylines(file)[StoryId[i.name]] =
                  IF /\ storyline[StoryId[i.name]].text = i.text
                     /\ MembersOf(StoryId[i.name]) = {DomainId[k] : k \in ItemDomains(i)}
                  THEN storyline[StoryId[i.name]]
                  ELSE [name |-> i.name, text |-> i.text, updated |-> storyWrites]
           /\ \A s \in StoryIds : (\A i \in Range(file.storylines) : s # StoryId[i.name]) =>
                UpsertedStorylines(file)[s] = storyline[s]
           /\ DOMAIN UpsertedStorylines(file) = StoryIds
<1> DEFINE S == Range(file.storylines)
           Items(s) == {i \in S : StoryId[i.name] = s}
           New(s, i) == IF storyline[s].text = i.text /\ MembersOf(s) = {DomainId[k] : k \in ItemDomains(i)}
                        THEN storyline[s]
                        ELSE [name |-> i.name, text |-> i.text, updated |-> storyWrites]
           Row(s) == IF Items(s) = {} THEN storyline[s] ELSE New(s, CHOOSE i \in Items(s) : TRUE)
<1>1. UpsertedStorylines(file) = [s \in StoryIds |-> Row(s)]
  BY DEF UpsertedStorylines
<1>2. ASSUME NEW i \in S
      PROVE  StoryId[i.name] \in StoryIds /\ Items(StoryId[i.name]) = {i}
  <2>1. \A j \in S : StoryId[j.name] = StoryId[i.name] => j = i
    BY CatalogOfStorylines, StorylineConstants
  <2> QED
    BY <2>1, CatalogOfStorylines, StorylineConstants
<1>3. ASSUME NEW i \in S
      PROVE  Row(StoryId[i.name]) = New(StoryId[i.name], i)
  <2>1. Items(StoryId[i.name]) = {i}
    BY <1>2
  <2>2. (CHOOSE j \in Items(StoryId[i.name]) : TRUE) = i
    BY <2>1
  <2> HIDE DEF Items, New
  <2> QED
    BY <2>1, <2>2
<1>4. ASSUME NEW s \in StoryIds, \A i \in S : s # StoryId[i.name]
      PROVE  Row(s) = storyline[s]
  <2>1. Items(s) = {}
    BY <1>4
  <2> HIDE DEF Items
  <2> QED
    BY <2>1
<1> HIDE DEF Row, Items
<1> QED
  BY <1>1, <1>2, <1>3, <1>4

LEMMA ReplacedMembership ==
    ASSUME NEW file \in StorylineFiles, ValidFile(file)
    PROVE  /\ \A p \in ReplacedMemberships(file) :
                \E i \in Range(file.storylines) : \E k \in ItemDomains(i) : p = <<StoryId[i.name], DomainId[k]>>
           /\ \A i \in Range(file.storylines) :
                {p[2] : p \in {q \in ReplacedMemberships(file) : q[1] = StoryId[i.name]}}
                  = {DomainId[k] : k \in ItemDomains(i)}
<1> DEFINE S == Range(file.storylines)
           R == ReplacedMemberships(file)
<1>1. ASSUME NEW p
      PROVE  p \in R <=> \E i \in S : \E k \in ItemDomains(i) : p = <<StoryId[i.name], DomainId[k]>>
  BY DEF ReplacedMemberships, Pairs
<1>2. ASSUME NEW i \in S
      PROVE  {p[2] : p \in {q \in R : q[1] = StoryId[i.name]}} = {DomainId[k] : k \in ItemDomains(i)}
  <2>1. ASSUME NEW k \in ItemDomains(i)
        PROVE  DomainId[k] \in {p[2] : p \in {q \in R : q[1] = StoryId[i.name]}}
    <3>1. PICK p : p = <<StoryId[i.name], DomainId[k]>>
      OBVIOUS
    <3>2. p \in R /\ p[1] = StoryId[i.name] /\ p[2] = DomainId[k]
      BY <1>1, <3>1
    <3> HIDE DEF R
    <3> QED
      BY <3>2
  <2>2. ASSUME NEW p \in R, p[1] = StoryId[i.name]
        PROVE  \E k \in ItemDomains(i) : p[2] = DomainId[k]
    <3>1. PICK j \in S : \E k \in ItemDomains(j) : p = <<StoryId[j.name], DomainId[k]>>
      BY <1>1
    <3>2. PICK k \in ItemDomains(j) : p = <<StoryId[j.name], DomainId[k]>>
      BY <3>1
    <3>3. p[1] = StoryId[j.name] /\ p[2] = DomainId[k]
      BY <3>2
    <3>4. j = i
      BY <2>2, <3>3, CatalogOfStorylines, StorylineConstants
    <3> QED
      BY <3>3, <3>4
  <2> HIDE DEF R
  <2> QED
    BY <2>1, <2>2
<1> QED
  BY <1>1, <1>2


\* What is stored after a publication: what the file says, and nothing else.
LEMMA PublishedDomains ==
    ASSUME DomainsFit, storyWrites \in Nat, NEW file \in StorylineFiles, ValidFile(file),
           ~UnexpectedIdentities(file), NEW new, new = UpsertedDomains(file)
    PROVE  /\ new \in [DomainIds -> DomainRow \cup {NoDomain}]
           /\ \A i \in Range(file.domains) :
                /\ DomainId[i.code] \in DomainIds /\ new[DomainId[i.code]] # NoDomain
                /\ new[DomainId[i.code]].code = i.code /\ new[DomainId[i.code]].name = i.name
           /\ \A d \in DomainIds : new[d] # NoDomain => \E i \in Range(file.domains) : d = DomainId[i.code]
<1>1. ASSUME NEW i \in Range(file.domains)
      PROVE  /\ DomainId[i.code] \in DomainIds /\ new[DomainId[i.code]] \in DomainRow
             /\ new[DomainId[i.code]].code = i.code /\ new[DomainId[i.code]].name = i.name
  <2>1. i.code \in DomainCodes /\ i.name \in DomainLabels /\ DomainId[i.code] \in DomainIds
    BY CatalogOfEveryDomain, StorylineConstants
  <2>2. PICK old : old = domain[DomainId[i.code]]
    OBVIOUS
  <2>3. new[DomainId[i.code]] = IF old.name = i.name THEN old
                                ELSE [code |-> i.code, name |-> i.name, updated |-> storyWrites]
    BY <2>2, UpsertedDomain
  <2>4. CASE old.name = i.name
    <3>1. old # NoDomain
      BY <2>1, <2>4, FirstStorylinesAreReadable
    <3>2. old \in DomainRow /\ old.code = i.code
      BY <2>1, <2>2, <3>1 DEF DomainsFit
    <3> QED
      BY <2>1, <2>3, <2>4, <3>2
  <2>5. CASE old.name # i.name
    BY <2>1, <2>3, <2>5 DEF DomainRow
  <2> QED
    BY <2>4, <2>5
<1>2. ASSUME NEW d \in DomainIds, \A i \in Range(file.domains) : d # DomainId[i.code]
      PROVE  new[d] = NoDomain
  <2>1. \A n \in DOMAIN file.domains : d # DomainId[file.domains[n].code]
    BY <1>2 DEF Range
  <2> QED
    BY <1>2, <2>1, UpsertedDomain DEF UnexpectedIdentities, Domains
<1>3. ASSUME NEW d \in DomainIds
      PROVE  new[d] \in DomainRow \cup {NoDomain}
  <2>1. CASE \E i \in Range(file.domains) : d = DomainId[i.code]
    BY <1>1, <2>1
  <2>2. CASE \A i \in Range(file.domains) : d # DomainId[i.code]
    BY <1>2, <2>2
  <2> QED
    BY <2>1, <2>2
<1>4. new = [d \in DomainIds |-> new[d]]
  BY UpsertedDomain DEF UpsertedDomains
<1>5. new \in [DomainIds -> DomainRow \cup {NoDomain}]
  BY <1>3, <1>4
<1> QED
  BY <1>1, <1>2, <1>5, StoryRowFacts

LEMMA PublishedStories ==
    ASSUME StoriesFit, MembershipsFit, storyWrites \in Nat, NEW file \in StorylineFiles, ValidFile(file),
           ~UnexpectedIdentities(file), ~StoryIdentityTaken(file), NEW new, new = UpsertedStorylines(file)
    PROVE  /\ new \in [StoryIds -> StoryRow \cup {NoStory}]
           /\ \A i \in Range(file.storylines) :
                /\ StoryId[i.name] \in StoryIds /\ new[StoryId[i.name]] # NoStory
                /\ new[StoryId[i.name]].name = i.name /\ new[StoryId[i.name]].text = i.text
           /\ \A s \in StoryIds : new[s] # NoStory => \E i \in Range(file.storylines) : s = StoryId[i.name]
<1>1. ASSUME NEW i \in Range(file.storylines)
      PROVE  /\ StoryId[i.name] \in StoryIds /\ new[StoryId[i.name]] \in StoryRow
             /\ new[StoryId[i.name]].name = i.name /\ new[StoryId[i.name]].text = i.text
  <2>1. /\ i.name \in StoryNames /\ i.text \in StoryTexts /\ StoryId[i.name] \in StoryIds
        /\ ItemDomains(i) # {}
    BY CatalogOfStorylines, StorylineConstants
  <2>2. PICK own, old, domains : /\ own = StoryId[i.name] /\ old = storyline[own]
                                 /\ domains = {DomainId[k] : k \in ItemDomains(i)}
    OBVIOUS
  <2>3. new[own] = IF old.text = i.text /\ MembersOf(own) = domains THEN old
                   ELSE [name |-> i.name, text |-> i.text, updated |-> storyWrites]
    BY <2>2, UpsertedStoryline
  <2>4. CASE old.text = i.text /\ MembersOf(own) = domains
    <3>1. domains # {}
      BY <2>1, <2>2
    <3>2. PICK p \in membership : p[1] = own
      BY <2>4, <3>1 DEF MembersOf
    <3>3. old # NoStory
      BY <2>2, <3>2 DEF MembershipsFit
    <3>4. old \in StoryRow /\ own \in Stories
      BY <2>1, <2>2, <3>3 DEF StoriesFit, Stories
    <3>5. old.name = i.name
      BY <2>2, <3>4 DEF StoryIdentityTaken
    <3> QED
      BY <2>1, <2>2, <2>3, <2>4, <3>4, <3>5
  <2>5. CASE ~(old.text = i.text /\ MembersOf(own) = domains)
    BY <2>1, <2>2, <2>3, <2>5 DEF StoryRow
  <2> QED
    BY <2>4, <2>5
<1>2. ASSUME NEW s \in StoryIds, \A i \in Range(file.storylines) : s # StoryId[i.name]
      PROVE  new[s] = NoStory
  <2>1. \A n \in DOMAIN file.storylines : s # StoryId[file.storylines[n].name]
    BY <1>2 DEF Range
  <2> QED
    BY <1>2, <2>1, UpsertedStoryline DEF UnexpectedIdentities, Stories
<1>3. ASSUME NEW s \in StoryIds
      PROVE  new[s] \in StoryRow \cup {NoStory}
  <2>1. CASE \E i \in Range(file.storylines) : s = StoryId[i.name]
    BY <1>1, <2>1
  <2>2. CASE \A i \in Range(file.storylines) : s # StoryId[i.name]
    BY <1>2, <2>2
  <2> QED
    BY <2>1, <2>2
<1>4. new = [s \in StoryIds |-> new[s]]
  BY UpsertedStoryline DEF UpsertedStorylines
<1>5. new \in [StoryIds -> StoryRow \cup {NoStory}]
  BY <1>3, <1>4
<1> QED
  BY <1>1, <1>2, <1>5, StoryRowFacts

\* A publication that has locked every table is alone with the storylines.
LEMMA PublishersAreAlone ==
    ASSUME StoryCallsFit, NEW c \in StoryCalls, storyCall[c].pc = "working", NEW d \in StoryCalls \ {c}
    PROVE  ~Writing(storyCall[d]) /\ storyCall[d].pc # "domain"
<1>1. /\ StoryCallTyped(storyCall[c]) /\ StoryCallTyped(storyCall[d])
      /\ StoriesApart(storyCall[c], storyCall[d])
  BY DEF StoryCallsFit, StoryCallFits
<1>2. storyCall[c].order.kind = "publish" /\ {"domain", "storyline"} \subseteq storyCall[c].holds
  BY <1>1 DEF StoryCallTyped
<1>3. /\ Writing(storyCall[d]) => "storyline" \in storyCall[d].holds
      /\ storyCall[d].pc = "domain" => "domain" \in storyCall[d].holds
  BY <1>1 DEF StoryCallTyped, Writing
<1> QED
  BY <1>1, <1>2, <1>3 DEF StoriesApart

\* PublishCatalog: the tables fit again, and hold what the file says.
PublishedIs(file) ==
    /\ DomainsFit' /\ StoriesFit' /\ membership' = ReplacedMemberships(file)
    /\ \A i \in Range(file.domains) :
         /\ DomainId[i.code] \in DomainIds /\ domain'[DomainId[i.code]] # NoDomain
         /\ domain'[DomainId[i.code]].code = i.code /\ domain'[DomainId[i.code]].name = i.name
    /\ \A d \in DomainIds : domain'[d] # NoDomain => \E i \in Range(file.domains) : d = DomainId[i.code]
    /\ \A i \in Range(file.storylines) :
         /\ StoryId[i.name] \in StoryIds /\ storyline'[StoryId[i.name]] # NoStory
         /\ storyline'[StoryId[i.name]].name = i.name /\ storyline'[StoryId[i.name]].text = i.text
    /\ \A s \in StoryIds : storyline'[s] # NoStory => \E i \in Range(file.storylines) : s = StoryId[i.name]

LEMMA PublicationIsStored ==
    ASSUME StoryRowsFit, storyWrites \in Nat, NEW file \in StorylineFiles, ValidFile(file),
           ~UnexpectedIdentities(file), ~StoryIdentityTaken(file),
           domain' = UpsertedDomains(file), storyline' = UpsertedStorylines(file),
           membership' = ReplacedMemberships(file)
    PROVE  PublishedIs(file)
<1>1. /\ domain' \in [DomainIds -> DomainRow \cup {NoDomain}]
      /\ \A i \in Range(file.domains) :
           /\ DomainId[i.code] \in DomainIds /\ domain'[DomainId[i.code]] # NoDomain
           /\ domain'[DomainId[i.code]].code = i.code /\ domain'[DomainId[i.code]].name = i.name
      /\ \A d \in DomainIds : domain'[d] # NoDomain => \E i \in Range(file.domains) : d = DomainId[i.code]
  BY PublishedDomains DEF StoryRowsFit
<1>2. /\ storyline' \in [StoryIds -> StoryRow \cup {NoStory}]
      /\ \A i \in Range(file.storylines) :
           /\ StoryId[i.name] \in StoryIds /\ storyline'[StoryId[i.name]] # NoStory
           /\ storyline'[StoryId[i.name]].name = i.name /\ storyline'[StoryId[i.name]].text = i.text
      /\ \A s \in StoryIds : storyline'[s] # NoStory => \E i \in Range(file.storylines) : s = StoryId[i.name]
  BY PublishedStories DEF StoryRowsFit
<1>3. ASSUME NEW k \in DomainCodes, domain'[DomainId[k]] # NoDomain
      PROVE  domain'[DomainId[k]].code = k
  <2>1. PICK i \in Range(file.domains) : i.code = k
    BY CatalogOfEveryDomain
  <2> QED
    BY <1>1, <2>1
<1>4. ASSUME NEW d \in DomainIds, NEW e \in DomainIds, d # e, domain'[d] # NoDomain, domain'[e] # NoDomain
      PROVE  domain'[d].name # domain'[e].name /\ domain'[d].code # domain'[e].code
  <2>1. PICK i \in Range(file.domains) : d = DomainId[i.code]
    BY <1>1, <1>4
  <2>2. PICK j \in Range(file.domains) : e = DomainId[j.code]
    BY <1>1, <1>4
  <2>3. i.name # j.name /\ i.code # j.code
    BY <1>4, <2>1, <2>2, CatalogOfEveryDomain
  <2> QED
    BY <1>1, <2>1, <2>2, <2>3
<1>5. DomainsFit'
  BY <1>1, <1>3, <1>4 DEF DomainsFit
<1>6. ASSUME NEW s \in StoryIds, NEW t \in StoryIds, s # t, storyline'[s] # NoStory
      PROVE  storyline'[s].name # storyline'[t].name
  <2>1. PICK i \in Range(file.storylines) : s = StoryId[i.name]
    BY <1>2, <1>6
  <2>2. storyline'[s].name = i.name /\ i.name \in StoryNames
    BY <1>2, <2>1, CatalogOfStorylines
  <2>3. CASE storyline'[t] = NoStory
    BY <2>2, <2>3, FirstStorylinesAreReadable
  <2>4. CASE storyline'[t] # NoStory
    <3>1. PICK j \in Range(file.storylines) : t = StoryId[j.name]
      BY <1>2, <2>4
    <3> QED
      BY <1>2, <1>6, <2>1, <2>2, <3>1
  <2> QED
    BY <2>3, <2>4
<1>7. StoriesFit'
  BY <1>2, <1>6 DEF StoriesFit
<1> QED
  BY <1>1, <1>2, <1>5, <1>7 DEF PublishedIs

LEMMA StoryPublishes ==
    ASSUME StoryRowsFit, StoryCallsFit, storyWrites \in Nat, NEW c \in StoryCalls, PublishCatalog(c)
    PROVE  /\ StoryRowsFit' /\ StoryCallsFit'
           /\ ValidFile(Asked(c).file) /\ Asked(c).file \in StorylineFiles
           /\ storyCall'[c].out = "done" => PublishedIs(Asked(c).file)
<1>1. /\ storyCall[c].pc = "working" /\ Asked(c).kind = "publish"
      /\ UNCHANGED <<storyKind, schema, legacy>>
  BY DEF PublishCatalog, InStep, Asked
<1>2. schema = 93 /\ StoryCallFits(storyCall[c])
  BY <1>1, CallsFollowTheCutover
<1>3. PICK file : file = Asked(c).file
  OBVIOUS
<1>4. ValidFile(file) /\ file \in StorylineFiles
  BY <1>1, <1>2, <1>3, StoryOrderFields DEF StoryCallFits, StoryCallTyped, Asked
<1>5. CASE StoryEnds(c, "conflict") /\ UNCHANGED <<domain, storyline, membership>>
  <2>1. PICK id : id = storyCall[c].id
    OBVIOUS
  <2>2. PICK call : call = [IdleStoryCall EXCEPT !.pc = "done", !.id = id, !.out = "conflict"]
    OBVIOUS
  <2>3. storyCall'[c] = call
    BY <1>5, <2>1, <2>2 DEF StoryEnds, StoryStep, StoryCallsFit
  <2>4. call = [pc |-> "done", order |-> [kind |-> "none"], holds |-> {}, rest |-> <<>>, id |-> id,
                drop |-> {}, out |-> "conflict"]
    BY <2>2 DEF IdleStoryCall
  <2>5. storyCall'[c].out = "conflict"
    BY <2>3, <2>4
  <2>6. UNCHANGED storyTables
    BY <1>1, <1>5 DEF storyTables
  <2> QED
    BY <1>1, <1>2, <1>3, <1>4, <1>5, <2>5, <2>6, StoryFails
<1>6. CASE /\ ~UnexpectedIdentities(file) /\ ~StoryIdentityTaken(file) /\ StoryEnds(c, "done")
           /\ domain' = UpsertedDomains(file) /\ storyline' = UpsertedStorylines(file)
           /\ membership' = ReplacedMemberships(file)
  <2>1. PublishedIs(file)
    BY <1>4, <1>6, PublicationIsStored
  <2>2. DomainsFit' /\ StoriesFit'
    BY <2>1 DEF PublishedIs
  <2>3. ASSUME NEW p \in membership'
        PROVE  p \in StoryIds \X DomainIds /\ storyline'[p[1]] # NoStory /\ domain'[p[2]] # NoDomain
    <3>1. PICK i \in Range(file.storylines) : \E k \in ItemDomains(i) : p = <<StoryId[i.name], DomainId[k]>>
      BY <1>4, <1>6, <2>3, ReplacedMembership
    <3>2. PICK k \in ItemDomains(i) : p = <<StoryId[i.name], DomainId[k]>>
      BY <3>1
    <3>3. PICK j \in Range(file.domains) : j.code = k
      BY <1>4, CatalogOfEveryDomain, CatalogOfStorylines
    <3>4. domain'[DomainId[k]] # NoDomain /\ DomainId[k] \in DomainIds
      BY <2>1, <3>3 DEF PublishedIs
    <3>5. storyline'[StoryId[i.name]] # NoStory /\ StoryId[i.name] \in StoryIds
      BY <2>1 DEF PublishedIs
    <3> QED
      BY <3>2, <3>4, <3>5
  <2>4. MembershipsFit'
    BY <2>3 DEF MembershipsFit
  <2>5. ASSUME NEW s \in StoryIds, storyline'[s] # NoStory
        PROVE  \E d : <<s, d>> \in membership'
    <3>1. PICK i \in Range(file.storylines) : s = StoryId[i.name]
      BY <2>1, <2>5 DEF PublishedIs
    <3>2. PICK k \in ItemDomains(i) : TRUE
      BY <1>4, CatalogOfStorylines
    <3> QED
      BY <1>6, <3>1, <3>2 DEF ReplacedMemberships, Pairs
  <2>6. /\ storyKind' \in {"macroeconomic", "geopolitic"} /\ schema' \in {92, 93} /\ schema' # 92
        /\ legacy' \in [StoryIds -> DomainIds \cup {NoDomainId}]
    BY <1>1, <1>2 DEF StoryRowsFit, CutoverFits
  <2>7. CutoverFits'
    BY <2>5, <2>6, Zenon DEF CutoverFits
  <2>8. ASSUME NEW d \in StoryCalls \ {c}
        PROVE  StoryCallFits(storyCall[d])'
    <3>1. PICK old : old = storyCall[d]
      OBVIOUS
    <3>2. storyCall'[d] = old /\ StoryCallFits(old)
      BY <1>6, <2>8, <3>1 DEF StoryCallsFit, StoryEnds, StoryStep
    <3>3. ~Writing(old) /\ old.pc # "domain"
      BY <1>1, <2>8, <3>1, PublishersAreAlone
    <3>4. StoryCallTyped(old)'
      BY <1>1, <3>2 DEF StoryCallFits, StoryCallTyped, ValidFile, ValidGeopolitic, ValidMacroeconomic, Versions
    <3>5. StoryWriteFits(old)'
      BY <3>3 DEF StoryWriteFits, Writing
    <3> QED
      BY <3>2, <3>4, <3>5 DEF StoryCallFits
  <2>9. StoryCallsFit'
    BY <1>1, <1>2, <1>6, <2>8, StoryCallEnds
  <2> QED
    BY <1>3, <1>4, <2>1, <2>2, <2>4, <2>7, <2>9 DEF StoryRowsFit
<1> QED
  BY <1>3, <1>5, <1>6 DEF PublishCatalog

-----------------------------------------------------------------------------
(* Storylines: the invariant and what follows from it *)

LEMMA StoryStarts == StoryInit => StoryInv
<1> SUFFICES ASSUME StoryInit
             PROVE  StoryInv
  OBVIOUS
<1>1. /\ storyKind \in {"macroeconomic", "geopolitic"} /\ schema = 92 /\ membership = {} /\ storyWrites = 0
      /\ storyCall = [c \in StoryCalls |-> IdleStoryCall]
  BY DEF StoryInit
<1>2. PICK first \in FirstStorylines :
         domain = first.domain /\ storyline = first.storyline /\ legacy = first.legacy
  BY DEF StoryInit
<1>3. DomainsFit
  BY <1>2, FirstStorylinesAreReadable DEF DomainsFit
<1>4. StoriesFit
  BY <1>2, FirstStorylinesAreReadable DEF StoriesFit
<1>5. MembershipsFit
  BY <1>1 DEF MembershipsFit
<1>6. CutoverFits
  <2>1. legacy \in [StoryIds -> DomainIds \cup {NoDomainId}]
    BY <1>2, FirstStorylinesAreReadable
  <2>2. \A s \in StoryIds : storyline[s] # NoStory => legacy[s] \in DomainIds /\ domain[legacy[s]] # NoDomain
    BY <1>2, FirstStorylinesAreReadable
  <2>3. schema \in {92, 93} /\ schema # 93
    BY <1>1
  <2> QED
    BY <1>1, <2>1, <2>2, <2>3, Zenon DEF CutoverFits
<1>7. \A c \in StoryCalls : StoryCallFits(storyCall[c])
  BY <1>1 DEF IdleStoryCall, StoryCallFits, StoryCallTyped, StoryWriteFits, Writing
<1>8. \A c, d \in StoryCalls : StoriesApart(storyCall[c], storyCall[d])
  BY <1>1 DEF IdleStoryCall, StoriesApart, Writing
<1>9. StoryCallsFit
  BY <1>1, <1>7, <1>8 DEF StoryCallsFit, IdleStoryCall
<1>10. storyWrites \in 0 .. MaxStoryWrites
  BY <1>1, StorylineConstants
<1> QED
  BY <1>3, <1>4, <1>5, <1>6, <1>9, <1>10 DEF StoryInv, StoryRowsFit

LEMMA StorySteps == StoryInv /\ [StoryNext]_storyVars => StoryInv'
<1> SUFFICES ASSUME StoryInv, [StoryNext]_storyVars
             PROVE  StoryInv'
  OBVIOUS
<1>1. StoryRowsFit /\ StoryCallsFit /\ storyWrites \in 0 .. MaxStoryWrites /\ storyWrites \in Nat
  BY StorylineConstants DEF StoryInv
<1>2. ASSUME NEW c \in StoryCalls, NEW order \in StoryOrders, BeginStoryCall(c, order)
      PROVE  StoryInv'
  <2>1. StoryRowsFit' /\ StoryCallsFit'
    BY <1>1, <1>2, StoryBegins
  <2>2. storyWrites' \in 0 .. MaxStoryWrites
    BY <1>1, <1>2, StorylineConstants DEF BeginStoryCall
  <2> QED
    BY <2>1, <2>2 DEF StoryInv
<1>3. ASSUME NEW c \in StoryCalls, StoryCallStep(c)
      PROVE  StoryInv'
  <2>1. \/ LockCatalog(c) \/ PublishCatalog(c) \/ CreateDomain(c) \/ LockDomain(c) \/ UpdateDomain(c)
        \/ WriteRow(c) \/ WriteName(c) \/ WriteLinks(c) \/ CommitStoryline(c)
    BY <1>3 DEF StoryCallStep, MacroeconomicStep, MacroeconomicWrite, MacroeconomicDomainWrite,
                GeopoliticStep, GeopoliticWrite, GeopoliticDomainWrite, WriteStoryline, DomainWrite
  <2>2. storyWrites' = storyWrites
    BY <2>1, Zenon DEF LockCatalog, PublishCatalog, CreateDomain, LockDomain, UpdateDomain, WriteRow, WriteName, WriteLinks,
                CommitStoryline
  <2>3. StoryRowsFit' /\ StoryCallsFit'
    BY <1>1, <2>1, StoryLocks, StoryPublishes, StoryCreatesDomain, StoryLocksDomain, StoryUpdatesDomain, StoryWritesRow,
       StoryWritesName, StoryWritesLinks, StoryCommits
  <2> QED
    BY <1>1, <2>2, <2>3 DEF StoryInv
<1>4. ASSUME NEW c \in StoryCalls, BreakStoryDeadlock(c)
      PROVE  StoryInv'
  BY <1>1, <1>4, StoryBreaksDeadlock DEF StoryInv, BreakStoryDeadlock
<1>5. ASSUME NEW s \in StoryIds, NEW d \in DomainIds, OldWrite(s, d)
      PROVE  StoryInv'
  <2>1. storyWrites' \in 0 .. MaxStoryWrites
    BY <1>1, <1>5, StorylineConstants DEF OldWrite
  <2> QED
    BY <1>1, <1>5, <2>1, StoryOldWrites DEF StoryInv
<1>6. CASE BackfillDomainLinks
  BY <1>1, <1>6, StoryBackfills DEF StoryInv, BackfillDomainLinks
<1>7. CASE RemoveColumn
  BY <1>1, <1>7, StoryCutsOver DEF StoryInv, RemoveColumn
<1>8. CASE UNCHANGED storyVars
  <2>1. UNCHANGED <<storyKind, storyTables, storyCall, storyWrites>>
    BY <1>8 DEF storyVars
  <2>2. StoryRowsFit'
    BY <1>1, <2>1, StoryTablesStay
  <2>3. ASSUME NEW c \in StoryCalls
        PROVE  StoryCallFits(storyCall[c])'
    <3>1. PICK old : old = storyCall[c]
      OBVIOUS
    <3>2. storyCall'[c] = old /\ StoryCallFits(old)
      BY <1>1, <2>1, <3>1 DEF StoryCallsFit
    <3>3. StoryCallFits(old)'
      BY <2>1, <3>2, StoryTablesStay
    <3> QED
      BY <3>2, <3>3
  <2>4. StoryCallsFit'
    BY <1>1, <2>1, <2>3 DEF StoryCallsFit, StoriesApart, storyTables
  <2> QED
    BY <1>1, <2>1, <2>2, <2>4 DEF StoryInv
<1> QED
  BY <1>2, <1>3, <1>4, <1>5, <1>6, <1>7, <1>8 DEF StoryNext, MacroeconomicBackfill, GeopoliticBackfill

LEMMA StoryInvariant == StorySpec => []StoryInv
<1> QED
  BY StoryStarts, StorySteps, PTL DEF StorySpec

LEMMA StoryInvTyped == StoryInv => StoryTypeOK
<1> SUFFICES ASSUME StoryInv
             PROVE  StoryTypeOK
  OBVIOUS
<1>1. \A d \in Domains : domain[d].code \in DomainCodes /\ domain[d].name \in DomainLabels
  BY DEF StoryInv, StoryRowsFit, DomainsFit, Domains, DomainRow
<1>2. \A s \in Stories : storyline[s].name \in StoryNames /\ storyline[s].text \in StoryTexts
  BY DEF StoryInv, StoryRowsFit, StoriesFit, Stories, StoryRow
<1>3. membership \subseteq StoryIds \X DomainIds
  BY DEF StoryInv, StoryRowsFit, MembershipsFit
<1> QED
  BY <1>1, <1>2, <1>3 DEF StoryInv, StoryRowsFit, CutoverFits, StoryTypeOK

\* The tables keep their types, the column and the links included.
THEOREM StorylinesTyped == StorySpec => []StoryTypeOK
<1> QED
  BY StoryInvariant, StoryInvTyped, PTL

LEMMA StoryInvReadable == StoryInv => StorylinesStayReadable
<1> SUFFICES ASSUME StoryInv
             PROVE  StorylinesStayReadable
  OBVIOUS
<1>1. DomainsFit /\ StoriesFit /\ MembershipsFit /\ CutoverFits
  BY DEF StoryInv, StoryRowsFit
<1>2. \A p \in membership : p[1] \in Stories /\ p[2] \in Domains
  BY <1>1 DEF MembershipsFit, Stories, Domains
<1>3. ASSUME schema = 93, NEW filter
      PROVE  ListStorylines(filter).ok
  <2>1. ASSUME NEW s \in Stories
        PROVE  MembersOf(s) # {}
    <3>1. PICK d : <<s, d>> \in membership
      BY <1>1, <1>3, <2>1 DEF CutoverFits, Stories
    <3>2. PICK p : p = <<s, d>>
      OBVIOUS
    <3>3. p \in membership /\ p[1] = s /\ p[2] = d
      BY <3>1, <3>2
    <3> QED
      BY <3>3 DEF MembersOf
  <2> QED
    BY <2>1 DEF ListStorylines
<1>4. \A s, t \in Stories : storyline[s].name = storyline[t].name => s = t
  BY <1>1 DEF StoriesFit, Stories
<1>5. \A d, e \in Domains :
        domain[d].name = domain[e].name \/ domain[d].code = domain[e].code => d = e
  BY <1>1 DEF DomainsFit, Domains
<1> QED
  BY <1>2, <1>3, <1>4, <1>5 DEF StorylinesStayReadable

\* From the cutover on no listing of storylines fails, and names and codes are unique.
THEOREM StorylinesReadable == StorySpec => []StorylinesStayReadable
<1> QED
  BY StoryInvariant, StoryInvReadable, PTL


\* What a catalogue says is stored already.
AlreadyStored(file) ==
    /\ ValidFile(file) /\ ReplacedMemberships(file) = membership
    /\ {[code |-> i.code, name |-> i.name] : i \in Range(file.domains)}
         = {[code |-> domain[d].code, name |-> domain[d].name] : d \in Domains}
    /\ {<<StoryId[i.name], i.name, i.text>> : i \in Range(file.storylines)}
         = {<<s, storyline[s].name, storyline[s].text>> : s \in Stories}
    /\ ~UnexpectedIdentities(file)

LEMMA StoredDomains ==
    ASSUME StoryInv, NEW file \in StorylineFiles, AlreadyStored(file), NEW i \in Range(file.domains)
    PROVE  domain[DomainId[i.code]].name = i.name
<1>1. DomainsFit /\ ValidFile(file)
  BY DEF StoryInv, StoryRowsFit, AlreadyStored
<1>2. PICK d \in Domains : [code |-> i.code, name |-> i.name] = [code |-> domain[d].code, name |-> domain[d].name]
  BY DEF AlreadyStored
<1>3. i.code = domain[d].code /\ i.name = domain[d].name
  BY <1>2
<1>4. PICK n \in DOMAIN file.domains : d = DomainId[file.domains[n].code]
  BY DEF AlreadyStored, UnexpectedIdentities
<1>5. file.domains[n] \in Range(file.domains)
  BY DEF Range
<1>6. PICK j \in Range(file.domains) : j = file.domains[n] /\ d = DomainId[j.code]
  BY <1>4, <1>5
<1>7. j.code \in DomainCodes
  BY <1>1, CatalogOfEveryDomain
<1>8. domain[d].code = j.code
  BY <1>1, <1>6, <1>7 DEF DomainsFit, Domains
<1> QED
  BY <1>3, <1>6, <1>8

LEMMA StoredStories ==
    ASSUME StoryInv, NEW file \in StorylineFiles, AlreadyStored(file), NEW i \in Range(file.storylines)
    PROVE  /\ StoryId[i.name] \in Stories
           /\ storyline[StoryId[i.name]].name = i.name /\ storyline[StoryId[i.name]].text = i.text
           /\ MembersOf(StoryId[i.name]) = {DomainId[k] : k \in ItemDomains(i)}
<1>1. ValidFile(file) /\ ReplacedMemberships(file) = membership
  BY DEF AlreadyStored
<1>2. PICK s \in Stories : <<StoryId[i.name], i.name, i.text>> = <<s, storyline[s].name, storyline[s].text>>
  BY DEF AlreadyStored
<1>3. MembersOf(StoryId[i.name]) = {DomainId[k] : k \in ItemDomains(i)}
  BY <1>1, ReplacedMembership DEF MembersOf
<1> QED
  BY <1>2, <1>3

LEMMA StoryInvReplays == StoryInv => ReplayChangesNothing
<1> SUFFICES ASSUME StoryInv, NEW file \in StorylineFiles, AlreadyStored(file)
             PROVE  /\ ~DomainNameTaken(file) /\ ~StoryIdentityTaken(file)
                    /\ UpsertedDomains(file) = domain /\ UpsertedStorylines(file) = storyline
  BY DEF ReplayChangesNothing, AlreadyStored
<1>1. DomainsFit /\ StoriesFit /\ ValidFile(file)
  BY DEF StoryInv, StoryRowsFit, AlreadyStored
<1>2. ~DomainNameTaken(file)
  <2>1. SUFFICES ASSUME NEW n \in DOMAIN file.domains, NEW m \in DOMAIN file.domains, n < m,
                        domain[DomainId[file.domains[m].code]].name = file.domains[n].name
                 PROVE  FALSE
    BY DEF DomainNameTaken
  <2>2. file.domains[m] \in Range(file.domains)
    BY DEF Range
  <2>3. file.domains[m].name = file.domains[n].name
    BY <2>1, <2>2, StoredDomains
  <2>4. n \in Nat /\ m \in Nat /\ n = m
    BY <1>1, <2>3, CatalogOfEveryDomain
  <2> QED
    BY <2>1, <2>4
<1>3. ~StoryIdentityTaken(file)
  <2>1. ASSUME NEW i \in Range(file.storylines), NEW s \in Stories
        PROVE  storyline[s].name = i.name <=> s = StoryId[i.name]
    BY <1>1, StoredStories DEF StoriesFit, Stories
  <2> QED
    BY <2>1 DEF StoryIdentityTaken
<1>4. ASSUME NEW d \in DomainIds
      PROVE  UpsertedDomains(file)[d] = domain[d]
  <2>1. CASE \E i \in Range(file.domains) : d = DomainId[i.code]
    <3>1. PICK i \in Range(file.domains) : d = DomainId[i.code]
      BY <2>1
    <3>2. domain[DomainId[i.code]].name = i.name
      BY StoredDomains
    <3>3. UpsertedDomains(file)[DomainId[i.code]] = domain[DomainId[i.code]]
      BY <1>1, <3>2, UpsertedDomain
    <3> QED
      BY <3>1, <3>3
  <2>2. CASE \A i \in Range(file.domains) : d # DomainId[i.code]
    BY <1>1, <2>2, UpsertedDomain
  <2> QED
    BY <2>1, <2>2
<1>5. UpsertedDomains(file) = domain
  <2>1. PICK new : new = UpsertedDomains(file)
    OBVIOUS
  <2>2. new = [d \in DomainIds |-> new[d]] /\ domain = [d \in DomainIds |-> domain[d]]
    BY <1>1, <2>1 DEF UpsertedDomains, DomainsFit
  <2> QED
    BY <1>4, <2>1, <2>2
<1>6. ASSUME NEW s \in StoryIds
      PROVE  UpsertedStorylines(file)[s] = storyline[s]
  <2>1. CASE \E i \in Range(file.storylines) : s = StoryId[i.name]
    BY <1>1, <2>1, StoredStories, UpsertedStoryline
  <2>2. CASE \A i \in Range(file.storylines) : s # StoryId[i.name]
    BY <1>1, <2>2, UpsertedStoryline
  <2> QED
    BY <2>1, <2>2
<1>7. UpsertedStorylines(file) = storyline
  <2>1. PICK new : new = UpsertedStorylines(file)
    OBVIOUS
  <2>2. new = [s \in StoryIds |-> new[s]] /\ storyline = [s \in StoryIds |-> storyline[s]]
    BY <1>1, <2>1 DEF UpsertedStorylines, StoriesFit
  <2> QED
    BY <1>6, <2>1, <2>2
<1> QED
  BY <1>2, <1>3, <1>5, <1>7

\* A catalogue that says what is stored is no conflict and changes no row, the times included.
THEOREM ReplaysChangeNothing == StorySpec => []ReplayChangesNothing
<1> QED
  BY StoryInvariant, StoryInvReplays, PTL

LEMMA LockedInOrder ==
    ASSUME NEW call, StoryCallTyped(call), call.pc = "locking"
    PROVE  /\ call.order.kind = "publish"
           /\ call.holds # {} => "domain" \in call.holds
           /\ "links" \in call.holds => "storyline" \in call.holds
<1>1. [holds |-> call.holds, rest |-> call.rest] \in LockStages /\ call.order.kind = "publish"
  BY DEF StoryCallTyped
<1>2. \/ call.holds = {} \/ call.holds = {"domain"} \/ call.holds = {"domain", "storyline"}
      \/ call.holds = {"domain", "storyline", "links"}
  BY <1>1 DEF LockStages
<1> QED
  BY <1>1, <1>2

\* Two calls that wait for each other wait for names.
LEMMA StoryInvRenames == StoryInv => OnlyRenamesDeadlock
<1> SUFFICES ASSUME StoryInv, NEW c \in StoryCalls, NEW d \in StoryCalls \ {c},
                    WaitsForCall(c, d), WaitsForCall(d, c)
             PROVE  Asked(c).kind \in {"update", "update domain"} /\ Asked(d).kind = Asked(c).kind
  BY DEF OnlyRenamesDeadlock, StoryDeadlock
<1> DEFINE C == storyCall[c]
           E == storyCall[d]
<1>1. StoryCallFits(C) /\ StoryCallFits(E) /\ StoriesApart(C, E) /\ StoriesApart(E, C)
  BY DEF StoryInv, StoryCallsFit
<1>2. ASSUME NEW a \in StoryCalls, NEW b \in StoryCalls, WaitsForCall(a, b)
      PROVE  \/ storyCall[a].pc = "name" /\ b \in NameUndecided(a, Asked(a).name)
             \/ storyCall[a].pc = "links" /\ Publishes(b) /\ "links" \in storyCall[b].holds
             \/ storyCall[a].pc \in {"links", "domain"} /\ storyCall[b].pc = "domain"
             \/ storyCall[a].pc = "locking" /\ Head(storyCall[a].rest) \in storyCall[b].holds
  BY <1>2, Zenon DEF WaitsForCall, RenamesDomain, WritesDomain, DomainNameUndecided
<1>3. ASSUME NEW a \in StoryCalls, NEW b \in StoryCalls, a # b, storyCall[a].pc = "name",
             b \in NameUndecided(a, Asked(a).name), WaitsForCall(b, a)
      PROVE  storyCall[b].pc = "name" /\ Asked(b).kind = "update"
  <2>1. StoryCallFits(storyCall[a]) /\ StoryCallFits(storyCall[b])
    BY DEF StoryInv, StoryCallsFit
  <2>2. Writing(storyCall[b])
    BY <1>3 DEF NameUndecided, Writing
  <2>3. storyCall[b].pc \in {"name", "links"} /\ (storyCall[b].pc = "links" => Publishes(a))
    BY <1>2, <1>3, <2>2 DEF Writing
  <2>4. storyCall[b].pc = "name"
    BY <1>3, <2>1, <2>3 DEF Publishes, Asked, StoryCallFits, StoryCallTyped, Writing
  <2>5. storyline[storyCall[b].id].name = Asked(a).name
    BY <1>3, <2>4 DEF NameUndecided
  <2>6. Asked(a).name \in StoryNames
    BY <1>3, <2>1, StoryOrderFields DEF StoryCallFits, StoryCallTyped, Writing, Asked
  <2>7. storyline[storyCall[b].id] # NoStory
    BY <2>5, <2>6, FirstStorylinesAreReadable
  <2> QED
    BY <2>1, <2>2, <2>4, <2>7 DEF StoryCallFits, StoryCallTyped, StoryWriteFits, Writing, Asked
<1>4. CASE C.pc = "name"
  <2>1. E.pc = "name" /\ Asked(d).kind = "update"
    BY <1>2, <1>3, <1>4
  <2>2. C.pc = "name" /\ Asked(c).kind = "update"
    BY <1>2, <1>3, <2>1
  <2> QED
    BY <2>1, <2>2
<1>5. CASE E.pc = "name"
  <2>1. C.pc = "name"
    BY <1>2, <1>3, <1>5
  <2> QED
    BY <1>4, <2>1
<1>6. ASSUME NEW a \in StoryCalls, NEW b \in StoryCalls, a # b, storyCall[a].pc = "links", WaitsForCall(a, b),
             WaitsForCall(b, a), storyCall[b].pc # "name"
      PROVE  FALSE
  <2>1. /\ StoryCallTyped(storyCall[a]) /\ StoryCallTyped(storyCall[b])
        /\ StoriesApart(storyCall[a], storyCall[b])
    BY <1>6 DEF StoryInv, StoryCallsFit, StoryCallFits
  <2>2. storyCall[b].pc # "domain"
    BY <1>2, <1>6, <2>1
  <2>3. Publishes(b) /\ "links" \in storyCall[b].holds
    BY <1>2, <1>6, <2>2
  <2>4. storyCall[b].pc = "locking"
    BY <1>2, <1>6, <2>1, <2>2, <2>3 DEF Publishes, Asked, StoryCallTyped, Writing
  <2>5. "storyline" \in storyCall[b].holds
    BY <2>1, <2>3, <2>4, LockedInOrder
  <2>6. "storyline" \in storyCall[a].holds
    BY <1>6, <2>1 DEF StoryCallTyped
  <2> QED
    BY <2>1, <2>3, <2>5, <2>6 DEF StoriesApart, Publishes, Asked
<1>7. CASE C.pc = "locking" /\ E.pc = "locking"
  <2>1. C.holds # {} /\ E.holds # {}
    BY <1>2, <1>7
  <2>2. "domain" \in C.holds /\ "domain" \in E.holds /\ C.order.kind = "publish"
    BY <1>1, <1>7, <2>1, LockedInOrder DEF StoryCallFits
  <2>3. FALSE
    BY <1>1, <2>2 DEF StoriesApart
  <2> QED
    BY <2>3
\* A rename of a domain waits for nothing but another one.
<1>8. ASSUME NEW a \in StoryCalls, NEW b \in StoryCalls, storyCall[a].pc = "domain", WaitsForCall(a, b)
      PROVE  /\ storyCall[b].pc = "domain"
             /\ Asked(a).kind = "update domain" /\ Asked(b).kind = "update domain"
  <2>1. StoryCallTyped(storyCall[a]) /\ StoryCallTyped(storyCall[b])
    BY DEF StoryInv, StoryCallsFit, StoryCallFits
  <2>2. storyCall[b].pc = "domain"
    BY <1>2, <1>8
  <2> QED
    BY <1>8, <2>1, <2>2 DEF StoryCallTyped, Asked
<1>9. CASE C.pc = "domain" \/ E.pc = "domain"
  BY <1>8, <1>9
<1>10. C.pc \in {"name", "links", "locking", "domain"} /\ E.pc \in {"name", "links", "locking", "domain"}
  BY <1>2
<1> QED
  BY <1>4, <1>5, <1>6, <1>7, <1>9, <1>10

\* Deadlocks are between two renames of storylines or two of domains: neither a
\* publication nor a creation is ever a victim.
THEOREM DeadlocksAreOfRenames == StorySpec => []OnlyRenamesDeadlock
<1> QED
  BY StoryInvariant, StoryInvRenames, PTL


\* Only the transactions themselves end as done.
LEMMA StoryDone ==
    ASSUME StoryInv, StoryNext, NEW c \in StoryCalls, storyCall[c].pc # "done",
           storyCall'[c].pc = "done", storyCall'[c].out = "done"
    PROVE  CommitStoryline(c) \/ PublishCatalog(c) \/ CreateDomain(c) \/ UpdateDomain(c)
<1>1. DOMAIN storyCall = StoryCalls /\ StoryCallTyped(storyCall[c])
  BY DEF StoryInv, StoryCallsFit, StoryCallFits
<1>2. ASSUME NEW a \in StoryCalls, NEW call, StoryStep(a, call)
      PROVE  a = c /\ call.pc = "done" /\ call.out = "done"
  BY <1>1, <1>2 DEF StoryStep
<1>3. ASSUME NEW a \in StoryCalls, NEW out, StoryEnds(a, out)
      PROVE  a = c /\ out = "done"
  <2>1. PICK id : id = storyCall[a].id
    OBVIOUS
  <2>2. PICK call : call = [IdleStoryCall EXCEPT !.pc = "done", !.id = id, !.out = out]
    OBVIOUS
  <2>3. call = [pc |-> "done", order |-> [kind |-> "none"], holds |-> {}, rest |-> <<>>, id |-> id,
                drop |-> {}, out |-> out]
    BY <2>2 DEF IdleStoryCall
  <2>4. StoryStep(a, call)
    BY <1>3, <2>1, <2>2 DEF StoryEnds
  <2> QED
    BY <1>2, <2>3, <2>4
<1>4. ASSUME NEW a \in StoryCalls, NEW order, BeginStoryCall(a, order)
      PROVE  FALSE
  <2> DEFINE begun == [IdleStoryCall EXCEPT !.order = order]
  <2>1. \/ StoryStep(a, [begun EXCEPT !.pc = "done", !.out = "invalid"])
        \/ StoryStep(a, [begun EXCEPT !.pc = "locking", !.rest = PublicationLocks])
        \/ StoryStep(a, [begun EXCEPT !.pc = "row"])
    BY <1>4 DEF BeginStoryCall
  <2>2. PICK base : base = begun
    OBVIOUS
  <2>3. base = [pc |-> "idle", order |-> order, holds |-> {}, rest |-> <<>>, id |-> "none", drop |-> {},
                out |-> "none"]
    BY <2>2 DEF IdleStoryCall
  <2>4. /\ [base EXCEPT !.pc = "done", !.out = "invalid"].out = "invalid"
        /\ [base EXCEPT !.pc = "locking", !.rest = PublicationLocks].pc = "locking"
        /\ [base EXCEPT !.pc = "row"].pc = "row"
    BY <2>3
  <2> QED
    BY <1>2, <2>1, <2>2, <2>4
<1>5. ASSUME NEW a \in StoryCalls, BreakStoryDeadlock(a)
      PROVE  FALSE
  BY <1>3, <1>5 DEF BreakStoryDeadlock
<1>6. PICK mine : mine = storyCall[c]
  OBVIOUS
<1>7. mine = [pc |-> mine.pc, order |-> mine.order, holds |-> mine.holds, rest |-> mine.rest,
              id |-> mine.id, drop |-> mine.drop, out |-> mine.out]
  BY <1>1, <1>6 DEF StoryCallTyped
<1>8. ASSUME NEW a \in StoryCalls, LockCatalog(a)
      PROVE  FALSE
  <2>1. PICK holds, rest, pc : /\ holds = storyCall[a].holds \cup {Head(storyCall[a].rest)}
                               /\ rest = Tail(storyCall[a].rest)
                               /\ pc = IF rest = <<>> THEN "working" ELSE storyCall[a].pc
    OBVIOUS
  <2>2. StoryStep(a, [storyCall[a] EXCEPT !.holds = holds, !.rest = rest, !.pc = pc])
    BY <1>8, <2>1 DEF LockCatalog
  <2>3. a = c /\ pc # "done"
    BY <1>2, <1>8, <2>1, <2>2 DEF LockCatalog
  <2>4. [mine EXCEPT !.holds = holds, !.rest = rest, !.pc = pc].pc = pc
    BY <1>7
  <2> QED
    BY <1>2, <1>6, <2>2, <2>3, <2>4
<1>9. ASSUME NEW a \in StoryCalls, WriteRow(a)
      PROVE  FALSE
  <2>1. \/ StoryEnds(a, "not found")
        \/ \E s : StoryStep(a, [storyCall[a] EXCEPT !.pc = "name", !.holds = {"storyline"}, !.id = s])
    BY <1>9 DEF WriteRow
  <2>2. CASE StoryEnds(a, "not found")
    <3>1. PICK out : out = "not found"
      OBVIOUS
    <3>2. out = "done"
      BY <1>3, <2>2, <3>1
    <3> QED
      BY <3>1, <3>2
  <2>3. CASE \E s : StoryStep(a, [storyCall[a] EXCEPT !.pc = "name", !.holds = {"storyline"}, !.id = s])
    <3>1. PICK s : StoryStep(a, [storyCall[a] EXCEPT !.pc = "name", !.holds = {"storyline"}, !.id = s])
      BY <2>3
    <3>2. a = c
      BY <1>2, <3>1
    <3>3. [mine EXCEPT !.pc = "name", !.holds = {"storyline"}, !.id = s].pc = "name"
      BY <1>7
    <3> QED
      BY <1>2, <1>6, <3>1, <3>2, <3>3
  <2> QED
    BY <2>1, <2>2, <2>3
<1>10. ASSUME NEW a \in StoryCalls, WriteName(a)
       PROVE  FALSE
  <2>1. StoryEnds(a, "conflict") \/ StoryStep(a, [storyCall[a] EXCEPT !.pc = "links"])
    BY <1>10 DEF WriteName
  <2>2. [mine EXCEPT !.pc = "links"].pc = "links"
    BY <1>7
  <2> QED
    BY <1>2, <1>3, <1>6, <2>1, <2>2
<1>11. ASSUME NEW a \in StoryCalls, WriteLinks(a)
       PROVE  FALSE
  <2>1. PICK holds, drop :
          /\ holds = storyCall[a].holds \cup {"links"}
          /\ drop = {p \in membership : p[1] = storyCall[a].id /\ p[2] \notin Asked(a).domains}
    OBVIOUS
  <2>2. \/ StoryEnds(a, "invalid")
        \/ StoryStep(a, [storyCall[a] EXCEPT !.pc = "commit", !.holds = holds, !.drop = drop])
    BY <1>11, <2>1 DEF WriteLinks
  <2>3. [mine EXCEPT !.pc = "commit", !.holds = holds, !.drop = drop].pc = "commit"
    BY <1>7
  <2> QED
    BY <1>2, <1>3, <1>6, <2>2, <2>3
<1>15. ASSUME NEW a \in StoryCalls, LockDomain(a)
       PROVE  FALSE
  <2>1. \/ StoryEnds(a, "not found")
        \/ StoryStep(a, [storyCall[a] EXCEPT !.pc = "domain", !.holds = {"domain"}])
    BY <1>15, Zenon DEF LockDomain
  <2>2. [mine EXCEPT !.pc = "domain", !.holds = {"domain"}].pc = "domain"
    BY <1>7
  <2> QED
    BY <1>2, <1>3, <1>6, <2>1, <2>2
<1>12. ASSUME NEW a \in StoryCalls, PublishCatalog(a) \/ CommitStoryline(a) \/ CreateDomain(a) \/ UpdateDomain(a)
       PROVE  a = c
  <2>1. \E out : StoryEnds(a, out)
    BY <1>12, Zenon DEF PublishCatalog, CommitStoryline, CreateDomain, UpdateDomain
  <2> QED
    BY <1>3, <2>1
<1>13. storyCall' # storyCall
  BY DEF StoryStep
<1>14. PICK a \in StoryCalls :
         \/ LockCatalog(a) \/ PublishCatalog(a) \/ CreateDomain(a) \/ LockDomain(a) \/ UpdateDomain(a) \/ WriteRow(a)
         \/ WriteName(a) \/ WriteLinks(a) \/ CommitStoryline(a) \/ BreakStoryDeadlock(a)
         \/ \E order \in StoryOrders : BeginStoryCall(a, order)
  BY <1>13 DEF StoryNext, OldWrite, MacroeconomicBackfill, GeopoliticBackfill, BackfillDomainLinks, RemoveColumn,
     StoryCallStep, MacroeconomicStep, MacroeconomicWrite, MacroeconomicDomainWrite,
     GeopoliticStep, GeopoliticWrite, GeopoliticDomainWrite, WriteStoryline, DomainWrite
<1> QED
  BY <1>4, <1>5, <1>8, <1>9, <1>10, <1>11, <1>12, <1>14, <1>15

LEMMA CommitIsWhole ==
    ASSUME StoryInv, NEW c \in StoryCalls, CommitStoryline(c)
    PROVE  MembersOf(storyCall[c].id)' = Asked(c).domains
<1>1. StoryRowsFit /\ StoryCallsFit /\ storyWrites \in Nat
  BY StorylineConstants DEF StoryInv
<1>2. PICK id, domains : id = storyCall[c].id /\ domains = Asked(c).domains
  OBVIOUS
<1>3. \A s, d : <<s, d>> \in membership' <=> IF s = id THEN d \in domains ELSE <<s, d>> \in membership
  BY <1>1, <1>2, StoryCommits
<1>4. storyCall'[c].id = id
  <2>1. PICK call : call = [IdleStoryCall EXCEPT !.pc = "done", !.id = id, !.out = "done"]
    OBVIOUS
  <2>2. storyCall'[c] = call
    BY <1>1, <1>2, <2>1 DEF CommitStoryline, StoryEnds, StoryStep, StoryCallsFit
  <2>3. call.id = id
    BY <2>1 DEF IdleStoryCall
  <2> QED
    BY <2>2, <2>3
<1>5. MembershipsFit'
  BY <1>1, StoryCommits DEF StoryRowsFit
<1>6. ASSUME NEW d \in domains
      PROVE  \E p \in membership' : p[1] = id /\ p[2] = d
  <2>1. PICK p : p = <<id, d>>
    OBVIOUS
  <2> QED
    BY <1>3, <2>1
<1>7. ASSUME NEW p \in membership', p[1] = id
      PROVE  p[2] \in domains
  <2>1. p = <<p[1], p[2]>>
    BY <1>5 DEF MembershipsFit
  <2> QED
    BY <1>3, <1>7, <2>1
<1>8. {p[2] : p \in {q \in membership' : q[1] = id}} = domains
  BY <1>6, <1>7
<1> QED
  BY <1>2, <1>4, <1>8 DEF MembersOf

LEMMA PublicationIsWhole ==
    ASSUME StoryInv, NEW c \in StoryCalls, PublishCatalog(c), storyCall'[c].out = "done", NEW file, file = Asked(c).file
    PROVE  /\ {<<domain'[d].code, domain'[d].name>> : d \in Domains'}
                = {<<i.code, i.name>> : i \in Range(file.domains)}
           /\ {<<storyline'[s].name, storyline'[s].text, {domain'[d].code : d \in MembersOf(s)'}>> : s \in Stories'}
                = {<<i.name, i.text, ItemDomains(i)>> : i \in Range(file.storylines)}
<1>1. StoryRowsFit /\ StoryCallsFit /\ storyWrites \in Nat
  BY StorylineConstants DEF StoryInv
<1>2. PublishedIs(file) /\ ValidFile(file) /\ file \in StorylineFiles
  BY <1>1, StoryPublishes
<1>3. Domains' = {DomainId[i.code] : i \in Range(file.domains)}
  BY <1>2 DEF PublishedIs, Domains
<1>4. Stories' = {StoryId[i.name] : i \in Range(file.storylines)}
  BY <1>2 DEF PublishedIs, Stories
<1>5. ASSUME NEW i \in Range(file.storylines)
      PROVE  {domain'[d].code : d \in MembersOf(StoryId[i.name])'} = ItemDomains(i)
  <2>1. MembersOf(StoryId[i.name])' = {DomainId[k] : k \in ItemDomains(i)}
    BY <1>2, ReplacedMembership DEF PublishedIs, MembersOf
  <2>2. ASSUME NEW k \in ItemDomains(i)
        PROVE  domain'[DomainId[k]].code = k
    <3>1. PICK j \in Range(file.domains) : j.code = k
      BY <1>2, CatalogOfEveryDomain, CatalogOfStorylines
    <3> QED
      BY <1>2, <3>1 DEF PublishedIs
  <2> QED
    BY <2>1, <2>2
<1>6. {<<domain'[d].code, domain'[d].name>> : d \in Domains'} = {<<i.code, i.name>> : i \in Range(file.domains)}
  <2>1. \A i \in Range(file.domains) :
          domain'[DomainId[i.code]].code = i.code /\ domain'[DomainId[i.code]].name = i.name
    BY <1>2 DEF PublishedIs
  <2> QED
    BY <1>3, <2>1
<1>7. \A i \in Range(file.storylines) :
        storyline'[StoryId[i.name]].name = i.name /\ storyline'[StoryId[i.name]].text = i.text
  BY <1>2 DEF PublishedIs
<1>8. {<<storyline'[s].name, storyline'[s].text, {domain'[d].code : d \in MembersOf(s)'}>> : s \in Stories'}
        = {<<i.name, i.text, ItemDomains(i)>> : i \in Range(file.storylines)}
  <2> DEFINE Told(s) == <<storyline'[s].name, storyline'[s].text, {domain'[d].code : d \in MembersOf(s)'}>>
  <2>1. \A i \in Range(file.storylines) : Told(StoryId[i.name]) = <<i.name, i.text, ItemDomains(i)>>
    BY <1>5, <1>7
  <2> HIDE DEF Told
  <2>2. {Told(s) : s \in Stories'} = {<<i.name, i.text, ItemDomains(i)>> : i \in Range(file.storylines)}
    BY <1>4, <2>1
  <2> QED
    BY <2>2 DEF Told
<1> QED
  BY <1>6, <1>8

LEMMA StorylinesWrittenWhole ==
    ASSUME StoryInv, StoryNext, NEW c \in StoryCalls, storyCall[c].pc # "done",
           storyCall'[c].pc = "done", storyCall'[c].out = "done"
    PROVE  WrittenWhole(c)
<1>1. StoryCallTyped(storyCall[c])
  BY DEF StoryInv, StoryCallsFit, StoryCallFits
<1>2. CASE CommitStoryline(c)
  <2>1. storyCall[c].pc = "commit" /\ ~Publishes(c)
    BY <1>1, <1>2 DEF CommitStoryline, StoryCallTyped, Writing, Publishes, Asked
  <2>2. MembersOf(storyCall[c].id)' = Asked(c).domains
    BY <1>2, CommitIsWhole
  <2> QED
    BY <2>1, <2>2, Zenon DEF WrittenWhole
<1>3. CASE PublishCatalog(c)
  <2>1. storyCall[c].pc # "commit"
    BY <1>3 DEF PublishCatalog, InStep
  <2>2. PICK file : file = Asked(c).file
    OBVIOUS
  <2>3. /\ {<<domain'[d].code, domain'[d].name>> : d \in Domains'}
             = {<<i.code, i.name>> : i \in Range(file.domains)}
        /\ {<<storyline'[s].name, storyline'[s].text, {domain'[d].code : d \in MembersOf(s)'}>> : s \in Stories'}
             = {<<i.name, i.text, ItemDomains(i)>> : i \in Range(file.storylines)}
    BY <1>3, <2>2, PublicationIsWhole
  <2> QED
    BY <2>1, <2>2, <2>3, Zenon DEF WrittenWhole
<1>4. CASE CreateDomain(c) \/ UpdateDomain(c)
  <2>1. storyCall[c].pc # "commit" /\ ~Publishes(c)
    BY <1>1, <1>4 DEF CreateDomain, UpdateDomain, StoryCallTyped, InStep, Publishes, Asked
  <2> QED
    BY <2>1, Zenon DEF WrittenWhole
<1> QED
  BY <1>2, <1>3, <1>4, StoryDone

LEMMA StoryStepsWhole ==
    StoryInv /\ [StoryNext]_storyVars =>
      [\A c \in StoryCalls :
         storyCall[c].pc # "done" /\ storyCall'[c].pc = "done" /\ storyCall'[c].out = "done" =>
           WrittenWhole(c)]_storyVars
<1>1. ASSUME StoryInv, StoryNext, NEW c \in StoryCalls
      PROVE  storyCall[c].pc # "done" /\ storyCall'[c].pc = "done" /\ storyCall'[c].out = "done" =>
               WrittenWhole(c)
  BY <1>1, StorylinesWrittenWhole
<1> QED
  BY <1>1, Zenon

\* A call that is done has written all it was asked to: a storyline the domains
\* of that call and no others, and a publication what its file says and nothing else.
THEOREM StorylinesAreWrittenWhole == StorySpec => StorylineWritesAreWhole
BY StoryStepsWhole, StoryInvariant, PTL DEF StorySpec, StorylineWritesAreWhole
=============================================================================
