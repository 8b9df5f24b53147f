---------------------------- MODULE ReadingProofs ----------------------------
(***************************************************************************)
(* What the home page shows and what a detail finds, for any reports, any  *)
(* number of requests in flight and any sizes of pages.  Nothing that was  *)
(* there when a read began is missed by it; the home page never goes back  *)
(* to an older report; its units are those of its report, in order.        *)
(***************************************************************************)
EXTENDS ReportReading, FiniteSetTheorems, WellFoundedInduction, TLAPS

-----------------------------------------------------------------------------
(* The order of the list *)

\* R orders S strictly and totally.
Orders(R, S) ==
    /\ \A x \in S : <<x, x>> \notin R
    /\ \A x, y, z \in S : <<x, y>> \in R /\ <<y, z>> \in R => <<x, z>> \in R
    /\ \A x, y \in S : x = y \/ <<x, y>> \in R \/ <<y, x>> \in R

\* Finitely many things in a strict total order have a first one.
LEMMA FirstExists ==
    ASSUME NEW S, IsFiniteSet(S), S # {}, NEW R, Orders(R, S)
    PROVE  \E x \in S : \A y \in S \ {x} : <<x, y>> \in R
<1> DEFINE Behind(x) == {y \in S : <<y, x>> \in R}
           T == {Behind(x) : x \in S}
<1>1. T \subseteq SUBSET S /\ T # {}
  OBVIOUS
<1>2. IsWellFoundedOn(StrictSubsetOrdering(S), SUBSET S)
  BY FS_StrictSubsetOrderingWellFounded, FS_FiniteSubsetsOfFinite
<1>3. \E b \in T : \A c \in T : <<c, b>> \notin StrictSubsetOrdering(S)
  <2> HIDE DEF T
  <2> QED
    BY <1>1, <1>2, WFMin
<1>4. PICK x \in S : \A y \in S : <<Behind(y), Behind(x)>> \notin StrictSubsetOrdering(S)
  BY <1>3
<1>5. \A y \in S : <<y, x>> \notin R
  <2>1. SUFFICES ASSUME NEW y \in S, <<y, x>> \in R
                 PROVE  FALSE
    OBVIOUS
  <2>2. Behind(y) \subseteq Behind(x)
    BY <2>1 DEF Orders
  <2>3. y \in Behind(x) /\ y \notin Behind(y)
    BY <2>1 DEF Orders
  <2>4. <<Behind(y), Behind(x)>> \in StrictSubsetOrdering(S)
    BY <2>2, <2>3 DEF StrictSubsetOrdering
  <2> QED
    BY <1>4, <2>4
<1> QED
  BY <1>5 DEF Orders

\* The publications have times and the reports are numbers.
Published ==
    publication \in [Reports -> [stage : {"new", "stamped", "stored"}, at : 0 .. LastMoment]]

LEMMA ConstantTypes ==
    /\ \A r \in Reports : r \in Nat /\ r # NoReport
    /\ LastMoment \in Nat /\ DayLength \in Nat \ {0}
    /\ PageLimit \in Nat \ {0} /\ WalkLimit \in Nat \ {0}
    /\ \A r \in Reports, k \in Kinds : Units[r][k] \in Nat
BY ReadingConstants DEF NoReport

LEMMA Times ==
    ASSUME Published, NEW r \in Reports
    PROVE  publication[r].at \in Nat
BY ConstantTypes DEF Published

\* The list is in a strict total order.
LEMMA BeforeOrders ==
    ASSUME Published
    PROVE  /\ \A r \in Reports : ~Before(r, r)
           /\ \A r, s, t \in Reports : Before(r, s) /\ Before(s, t) => Before(r, t)
           /\ \A r, s \in Reports : r = s \/ Before(r, s) \/ Before(s, r)
<1>1. \A r \in Reports : r \in Nat /\ publication[r].at \in Nat
  BY Times, ConstantTypes
<1> QED
  BY <1>1 DEF Before

\* Of any finite set of reports the list has a first and a last.
LEMMA EndsExist ==
    ASSUME Published, NEW S \in SUBSET Reports, IsFiniteSet(S), S # {}
    PROVE  /\ \E r \in S : \A s \in S \ {r} : Before(r, s)
           /\ \E r \in S : \A s \in S \ {r} : Before(s, r)
<1> DEFINE R == {p \in S \X S : Before(p[1], p[2])}
           Q == {p \in S \X S : Before(p[2], p[1])}
<1>1. \A x, y \in S : /\ <<x, y>> \in R <=> Before(x, y)
                      /\ <<x, y>> \in Q <=> Before(y, x)
  OBVIOUS
<1>2. Orders(R, S) /\ Orders(Q, S)
  <2> HIDE DEF R, Q
  <2> QED
    BY <1>1, BeforeOrders DEF Orders
<1>3. /\ \E x \in S : \A y \in S \ {x} : <<x, y>> \in R
      /\ \E x \in S : \A y \in S \ {x} : <<x, y>> \in Q
  <2> HIDE DEF R, Q
  <2> QED
    BY <1>2, FirstExists
<1> QED
  BY <1>1, <1>3

\* A list with a limit of one answers its first report.
LEMMA NewestIsFirst ==
    ASSUME Published, NEW S \in SUBSET Reports, IsFiniteSet(S)
    PROVE  /\ S = {} => Newest(S) = NoReport
           /\ S # {} => /\ Newest(S) \in S
                        /\ \A s \in S : s = Newest(S) \/ Before(Newest(S), s)
<1>1. S # {} => \E r \in S : \A s \in S \ {r} : Before(r, s)
  BY EndsExist
<1> QED
  BY <1>1 DEF Newest

-----------------------------------------------------------------------------
(* The walk of a detail *)

\* A page of the list is a first part of the rest of it, and never empty before its end.
LEMMA PageOfRest ==
    ASSUME Published, IsFiniteSet(Stored), NEW after
    PROVE  /\ ReportPage(after) \subseteq Rest(after) /\ Rest(after) \subseteq Stored
           /\ IsFiniteSet(ReportPage(after))
           /\ \A r, s \in Rest(after) :
                 s \in ReportPage(after) /\ Before(r, s) => r \in ReportPage(after)
           /\ Rest(after) # {} => ReportPage(after) # {}
<1> DEFINE Ahead(r) == {s \in Rest(after) : Before(s, r)}
<1>1. Rest(after) \subseteq Stored /\ Stored \subseteq Reports
  BY DEF Rest, Stored
<1>2. IsFiniteSet(Rest(after))
  BY <1>1, FS_Subset
<1>3. ReportPage(after) = {r \in Rest(after) : Cardinality(Ahead(r)) < WalkLimit}
  BY DEF ReportPage
<1>4. IsFiniteSet(ReportPage(after))
  BY <1>2, <1>3, FS_Subset
<1>5. ASSUME NEW r \in Rest(after)
      PROVE  IsFiniteSet(Ahead(r)) /\ Cardinality(Ahead(r)) \in Nat
  <2>1. IsFiniteSet(Ahead(r))
    BY <1>2, FS_Subset
  <2> QED
    BY <2>1, FS_CardinalityType
<1>6. ASSUME NEW r \in Rest(after), NEW s \in Rest(after), s \in ReportPage(after), Before(r, s)
      PROVE  r \in ReportPage(after)
  <2>1. Ahead(r) \subseteq Ahead(s)
    BY <1>1, <1>6, BeforeOrders
  <2>2. Cardinality(Ahead(r)) <= Cardinality(Ahead(s))
    BY <1>5, <2>1, FS_Subset
  <2>3. Cardinality(Ahead(s)) < WalkLimit
    BY <1>3, <1>6
  <2>4. Cardinality(Ahead(r)) < WalkLimit
    <3> HIDE DEF Ahead
    <3> QED
      BY <1>5, <2>2, <2>3, ConstantTypes
  <2> QED
    BY <1>3, <2>4
<1>7. ASSUME Rest(after) # {}
      PROVE  ReportPage(after) # {}
  <2>1. PICK r \in Rest(after) : \A s \in Rest(after) \ {r} : Before(r, s)
    BY <1>1, <1>2, <1>7, EndsExist
  <2>2. Ahead(r) = {}
    BY <1>1, <2>1, BeforeOrders
  <2>3. Cardinality(Ahead(r)) < WalkLimit
    BY <2>2, FS_EmptySet, ConstantTypes
  <2> QED
    BY <1>3, <2>3
<1> QED
  BY <1>1, <1>3, <1>4, <1>6, <1>7

\* A step of the walk meets the report it looks for, or the cursor stays in front of it.
LEMMA WalkGoesOn ==
    ASSUME Published, IsFiniteSet(Stored), NEW after, NEW report \in Rest(after),
           report \notin ReportPage(after)
    PROVE  LET last == CHOOSE r \in ReportPage(after) :
                          \A s \in ReportPage(after) \ {r} : Before(s, r)
           IN  /\ ReportPage(after) # Rest(after)
               /\ last \in Stored /\ Before(last, report)
<1> DEFINE page == ReportPage(after)
           last == CHOOSE r \in page : \A s \in page \ {r} : Before(s, r)
<1>1. /\ page \subseteq Rest(after) /\ Rest(after) \subseteq Stored /\ Stored \subseteq Reports
      /\ IsFiniteSet(page) /\ page # {}
  BY PageOfRest DEF Stored
<1>2. \E r \in page : \A s \in page \ {r} : Before(s, r)
  <2> HIDE DEF page
  <2> QED
    BY <1>1, EndsExist
<1>3. last \in page
  BY <1>2
<1>4. ~Before(report, last)
  BY <1>1, <1>3, PageOfRest
<1>5. Before(last, report)
  BY <1>1, <1>3, <1>4, BeforeOrders
<1> QED
  BY <1>1, <1>3, <1>5

-----------------------------------------------------------------------------
(* The inductive invariant *)

NotOlder(r, s) == s = NoReport \/ r = s \/ (r # NoReport /\ Before(r, s))
MaybeReport == Reports \cup {NoReport}

\* What is published has its time from a moment that has passed.
PublicationOK ==
    /\ Published /\ moment \in 0 .. LastMoment
    /\ IsFiniteSet(Stored)
    /\ \A r \in Reports : publication[r].stage # "new" => publication[r].at <= moment

HomeRequests ==
    [at : {"free", "sent", "today", "fallback", "answered"}, live : BOOLEAN, day : Nat,
     report : MaybeReport, ok : BOOLEAN, oldest : MaybeReport]

\* A request for the home answer: the day it looks at is not before that of any report
\* it owes; its answer is not older than what was stored when it was sent, and that,
\* for a request that counts, not older than what is shown.
LoadFits(load) ==
    /\ load \in HomeRequests
    /\ {load.report, load.oldest} \subseteq Stored \cup {NoReport}
    /\ load.at = "free" => ~load.live
    /\ load.at \notin {"free", "answered"} => ~load.ok
    /\ ~load.ok => load.report = NoReport
    /\ load.at = "today" /\ load.oldest # NoReport
         => Day(publication[load.oldest].at) <= load.day
    /\ load.at = "answered" /\ load.ok => NotOlder(load.report, load.oldest)
    /\ load.live => NotOlder(load.oldest, shown)

LoadOK(l) == LoadFits(homeLoads[l])

LoadsOK ==
    /\ homeLoads \in [HomeLoads -> HomeRequests]
    /\ \A l \in HomeLoads : LoadOK(l)
    /\ \A l, m \in HomeLoads : homeLoads[l].live /\ homeLoads[m].live => l = m

\* A detail walks in front of its report, which is in the list.
DetailForms ==
    [at : {"new", "unit", "walk", "found", "unavailable", "failed"},
     report : MaybeReport, after : MaybeReport]

DetailFits(read) ==
    /\ read \in DetailForms
    /\ read.at \in {"unit", "walk"} => read.report \in Stored
    /\ read.at = "unit" => read.after = NoReport
    /\ read.at = "walk" => read.report \in Rest(read.after)
    /\ read.after \in Stored \cup {NoReport}
    /\ read.at # "unavailable"

DetailOK(d) == DetailFits(detailReads[d])

DetailsOK ==
    /\ detailReads \in [DetailReads -> DetailForms]
    /\ \A d \in DetailReads : DetailOK(d)

Resources ==
    [status : {"idle", "loading", "empty", "ready", "error"}, report : MaybeReport,
     refreshing : BOOLEAN, refreshFailed : BOOLEAN]

\* The page shows the last report that was shown or none, and only waits for a
\* request that counts.
PageOK ==
    /\ resource \in Resources
    /\ shown \in Stored \cup {NoReport}
    /\ resource.status = "ready" <=> resource.report # NoReport
    /\ resource.status \in {"ready", "empty"} => resource.report = shown
    /\ resource.refreshing => resource.status = "ready"
    /\ resource.status = "loading" \/ resource.refreshing => \E l \in HomeLoads : homeLoads[l].live
    /\ reader.report = resource.report

Lists == [items : Seq(Reports \X Nat), next : Int]

\* The first units of a report, without a gap, and where they go on.
ListFits(list, r, k) ==
    /\ list \in Lists
    /\ list.items = [i \in 1 .. Len(list.items) |-> <<r, i>>]
    /\ list.next = IF Len(list.items) < Units[r][k] THEN Len(list.items) ELSE 0

Readers ==
    [report : MaybeReport, tab : Seq(Kinds), pages : [Kinds -> Lists],
     pending : Kinds \cup {NoKind}, failed : Kinds \cup {NoKind},
     inflight : BOOLEAN, due : BOOLEAN]

UnitRequests ==
    [at : {"free", "sent", "answered"}, live : BOOLEAN, report : MaybeReport,
     kind : Kinds \cup {NoKind}, list : Lists, page : Lists, ok : BOOLEAN]

\* A request for more units continues a list of its report.
UnitFits(load) ==
    /\ load \in UnitRequests
    /\ load.at = "free" => ~load.live
    /\ load.at # "free" =>
         /\ load.report \in Reports /\ load.kind \in Kinds
         /\ ListFits(load.list, load.report, load.kind)
         /\ load.list.next > 0
    /\ load.at = "answered" /\ load.ok =>
         load.page = UnitPage(load.report, load.kind, load.list.next)
    /\ load.live => load.report = reader.report

UnitsOK(m) == UnitFits(unitLoads[m])

\* The mounted home has first units of its report, and one request for more that
\* counts exactly while its button is blocked.
ReaderOK ==
    /\ reader \in Readers
    /\ unitLoads \in [UnitLoads -> UnitRequests]
    /\ \A m \in UnitLoads : UnitsOK(m)
    /\ \A m, n \in UnitLoads : unitLoads[m].live /\ unitLoads[n].live => m = n
    /\ reader.report # NoReport =>
         \A k \in Kinds : reader.pages[k] = Unloaded \/ ListFits(reader.pages[k], reader.report, k)
    /\ reader.inflight <=> \E m \in UnitLoads : unitLoads[m].live
    /\ reader.pending # NoKind => reader.inflight

ReadingInv == PublicationOK /\ LoadsOK /\ DetailsOK /\ PageOK /\ ReaderOK

LEMMA ReadingInvInit ==
    ReadingInit => ReadingInv
<1> SUFFICES ASSUME ReadingInit PROVE ReadingInv
  OBVIOUS
<1>1. Stored = {} /\ Published
  BY ConstantTypes DEF ReadingInit, Stored, Published
<1>2. PublicationOK
  BY <1>1, FS_EmptySet, ConstantTypes DEF ReadingInit, PublicationOK
<1>3. FreeLoad \in HomeRequests
  BY DEF FreeLoad, HomeRequests, MaybeReport
<1>4. LoadsOK
  <2>1. homeLoads \in [HomeLoads -> HomeRequests]
    BY <1>3 DEF ReadingInit
  <2>2. \A l \in HomeLoads : homeLoads[l] = FreeLoad
    BY DEF ReadingInit
  <2> QED
    BY <2>1, <2>2 DEF LoadsOK, LoadOK, LoadFits, FreeLoad
<1>5. DetailsOK
  BY DEF ReadingInit, DetailsOK, DetailOK, DetailFits, DetailForms, MaybeReport
<1>6. PageOK
  BY DEF ReadingInit, PageOK, Resources, MaybeReport, NoReader
<1>7. Unloaded \in Lists /\ <<>> \in Seq(Kinds)
  BY DEF Unloaded, Lists
<1>8. NoReader \in Readers /\ FreeUnits \in UnitRequests
  BY <1>7 DEF NoReader, Readers, FreeUnits, UnitRequests, MaybeReport
<1>9. ReaderOK
  <2>1. \A m \in UnitLoads : unitLoads[m] = FreeUnits
    BY DEF ReadingInit
  <2>2. unitLoads \in [UnitLoads -> UnitRequests] /\ reader = NoReader
    BY <1>8 DEF ReadingInit
  <2>3. \A m \in UnitLoads : ~unitLoads[m].live /\ unitLoads[m].at = "free" /\ ~unitLoads[m].ok
    BY <2>1 DEF FreeUnits
  <2>4. /\ reader.report = NoReport /\ ~reader.inflight /\ reader.pending = NoKind
    BY <2>2 DEF NoReader
  <2> QED
    BY <1>8, <2>2, <2>3, <2>4 DEF ReaderOK, UnitsOK, UnitFits
<1> QED
  BY <1>2, <1>4, <1>5, <1>6, <1>9 DEF ReadingInv

-----------------------------------------------------------------------------
(* Publication *)

\* More is stored, and what was keeps its time.
Grows ==
    /\ Published /\ Published'
    /\ Stored \subseteq Stored'
    /\ \A r \in Stored : publication'[r].at = publication[r].at

LEMMA GrowingKeepsOrder ==
    ASSUME Grows
    PROVE  /\ \A r, s \in Stored : Before(r, s)' <=> Before(r, s)
           /\ \A r, s \in Stored \cup {NoReport} : NotOlder(r, s)' <=> NotOlder(r, s)
           /\ \A after \in Stored \cup {NoReport} : Rest(after) \subseteq Rest(after)'
<1>1. \A r, s \in Stored : Before(r, s)' <=> Before(r, s)
  BY DEF Grows, Before
<1>2. \A r, s \in Stored \cup {NoReport} : NotOlder(r, s)' <=> NotOlder(r, s)
  BY <1>1 DEF NotOlder
<1>3. \A after \in Stored \cup {NoReport} : Rest(after) \subseteq Rest(after)'
  BY <1>1 DEF Rest, Grows
<1> QED
  BY <1>1, <1>2, <1>3

\* No page and no request is disturbed by what is published.
LEMMA GrowingKeepsReads ==
    ASSUME ReadingInv, Grows, PublicationOK',
           UNCHANGED <<resource, homeLoads, reader, unitLoads, detailReads, shown>>
    PROVE  ReadingInv'
<1>1. /\ \A r, s \in Stored \cup {NoReport} : NotOlder(r, s)' <=> NotOlder(r, s)
      /\ \A after \in Stored \cup {NoReport} : Rest(after) \subseteq Rest(after)'
      /\ Stored \subseteq Stored'
  BY GrowingKeepsOrder DEF Grows
<1>2. LoadsOK'
  <2>1. ASSUME NEW l \in HomeLoads
        PROVE  LoadOK(l)'
    <3>1. LoadOK(l) /\ shown \in Stored \cup {NoReport}
      BY DEF ReadingInv, LoadsOK, PageOK
    <3>2. homeLoads'[l] = homeLoads[l] /\ shown' = shown
      OBVIOUS
    <3>3. /\ NotOlder(homeLoads[l].report, homeLoads[l].oldest)
               => NotOlder(homeLoads[l].report, homeLoads[l].oldest)'
          /\ NotOlder(homeLoads[l].oldest, shown) => NotOlder(homeLoads[l].oldest, shown)'
      BY <1>1, <3>1, <3>2 DEF LoadOK, LoadFits, NotOlder, Before, Grows
    <3>4. homeLoads[l].oldest # NoReport
            => publication'[homeLoads[l].oldest].at = publication[homeLoads[l].oldest].at
      BY <3>1 DEF LoadOK, LoadFits, Grows
    <3> QED
      BY <1>1, <3>1, <3>2, <3>3, <3>4 DEF LoadOK, LoadFits, Day
  <2> QED
    BY <2>1 DEF ReadingInv, LoadsOK
<1>3. DetailsOK'
  <2>1. ASSUME NEW d \in DetailReads
        PROVE  DetailOK(d)'
    <3>1. DetailOK(d) /\ detailReads'[d] = detailReads[d]
      BY DEF ReadingInv, DetailsOK
    <3>2. detailReads[d].after \in Stored \cup {NoReport}
      BY <3>1 DEF DetailOK, DetailFits
    <3>3. Rest(detailReads[d].after) \subseteq Rest(detailReads[d].after)'
      BY <1>1, <3>1, <3>2 DEF Rest, Before, Grows
    <3> QED
      BY <1>1, <3>1, <3>2, <3>3 DEF DetailOK, DetailFits
  <2> QED
    BY <2>1 DEF ReadingInv, DetailsOK
<1>4. PageOK'
  BY <1>1 DEF ReadingInv, PageOK
<1>5. ReaderOK'
  BY DEF ReadingInv, ReaderOK, UnitsOK, UnitFits
<1> QED
  BY <1>2, <1>3, <1>4, <1>5 DEF ReadingInv

LEMMA PublicationStep ==
    ASSUME ReadingInv,
           ClockMoves \/ \E r \in Reports : StampReport(r) \/ CommitReport(r)
    PROVE  ReadingInv'
<1>0. PublicationOK /\ Published /\ moment \in Nat
  BY ConstantTypes DEF ReadingInv, PublicationOK
<1>1. CASE ClockMoves
  <2>1. Published' /\ Stored' = Stored /\ moment' \in 0 .. LastMoment /\ moment <= moment'
    BY <1>0, <1>1, ConstantTypes DEF ClockMoves, Published, Stored, PublicationOK
  <2>2. \A r \in Reports : publication[r].at \in Nat
    BY <1>0, Times
  <2>3. PublicationOK' /\ Grows
    BY <1>0, <1>1, <2>1, <2>2 DEF ClockMoves, PublicationOK, Grows
  <2> QED
    BY <1>1, <2>3, GrowingKeepsReads DEF ClockMoves
<1>2. CASE \E r \in Reports : StampReport(r)
  <2>1. PICK r \in Reports : StampReport(r)
    BY <1>2
  <2>2. Published' /\ moment' = moment
    BY <1>0, <2>1 DEF StampReport, Published, PublicationOK
  <2>3. Stored' = Stored /\ \A s \in Stored : publication'[s].at = publication[s].at
    BY <1>0, <2>1 DEF StampReport, Published, Stored
  <2>4. \A s \in Reports : publication'[s].stage # "new" => publication'[s].at <= moment'
    BY <1>0, <2>1, <2>2 DEF StampReport, Published, PublicationOK
  <2>5. PublicationOK' /\ Grows
    BY <1>0, <2>2, <2>3, <2>4 DEF PublicationOK, Grows
  <2> QED
    BY <2>1, <2>5, GrowingKeepsReads DEF StampReport
<1>3. CASE \E r \in Reports : CommitReport(r)
  <2>1. PICK r \in Reports : CommitReport(r)
    BY <1>3
  <2>2. Published' /\ moment' = moment
    BY <1>0, <2>1 DEF CommitReport, Published
  <2>3. Stored' = Stored \cup {r} /\ \A s \in Reports : publication'[s].at = publication[s].at
    BY <1>0, <2>1 DEF CommitReport, Published, Stored
  <2>4. \A s \in Reports : publication'[s].stage # "new" => publication'[s].at <= moment'
    BY <1>0, <2>1, <2>2 DEF CommitReport, Published, PublicationOK
  <2>5. IsFiniteSet(Stored')
    BY <1>0, <2>3, FS_AddElement DEF PublicationOK
  <2>6. PublicationOK' /\ Grows
    BY <1>0, <2>2, <2>3, <2>4, <2>5 DEF PublicationOK, Grows, Stored
  <2> QED
    BY <2>1, <2>6, GrowingKeepsReads DEF CommitReport
<1> QED
  BY <1>1, <1>2, <1>3

-----------------------------------------------------------------------------
(* Details *)

\* The list of reports stays as it is.
SameList == UNCHANGED <<moment, publication>>

LEMMA ListStays ==
    ASSUME SameList
    PROVE  /\ Stored' = Stored /\ (PublicationOK => PublicationOK')
           /\ \A r, s : NotOlder(r, s)' <=> NotOlder(r, s)
           /\ \A after : Rest(after)' = Rest(after)
<1>1. publication' = publication /\ moment' = moment
  BY DEF SameList
<1>2. Stored' = Stored
  BY <1>1 DEF Stored
<1>3. \A r, s : Before(r, s)' <=> Before(r, s)
  BY <1>1 DEF Before
<1>4. \A r, s : NotOlder(r, s)' <=> NotOlder(r, s)
  BY <1>3 DEF NotOlder
<1>5. \A after : Rest(after)' = Rest(after)
  BY <1>2, <1>3 DEF Rest
<1>6. PublicationOK => PublicationOK'
  BY <1>1, <1>2 DEF PublicationOK, Published
<1> QED
  BY <1>2, <1>4, <1>5, <1>6

\* Nothing of a part of the invariant has changed.
LEMMA PartsStay ==
    ASSUME ReadingInv, SameList
    PROVE  /\ UNCHANGED <<homeLoads, shown>> => LoadsOK'
           /\ UNCHANGED detailReads => DetailsOK'
           /\ UNCHANGED <<resource, homeLoads, reader, shown>> => PageOK'
           /\ UNCHANGED <<reader, unitLoads>> => ReaderOK'
<1>1. /\ Stored' = Stored
      /\ publication' = publication
  BY ListStays DEF SameList
<1>2. ASSUME UNCHANGED <<homeLoads, shown>>
      PROVE  LoadsOK'
  BY <1>1, <1>2 DEF ReadingInv, LoadsOK, LoadOK, LoadFits, NotOlder, Before, Day
<1>3. ASSUME UNCHANGED detailReads
      PROVE  DetailsOK'
  <2>1. \A d \in DetailReads : Rest(detailReads[d].after)' = Rest(detailReads[d].after)
    BY <1>1, <1>3 DEF Rest, Before
  <2> QED
    BY <1>1, <1>3, <2>1 DEF ReadingInv, DetailsOK, DetailOK, DetailFits
<1>4. ASSUME UNCHANGED <<resource, homeLoads, reader, shown>>
      PROVE  PageOK'
  BY <1>1, <1>4 DEF ReadingInv, PageOK
<1>5. ASSUME UNCHANGED <<reader, unitLoads>>
      PROVE  ReaderOK'
  BY <1>5 DEF ReadingInv, ReaderOK, UnitsOK, UnitFits
<1> QED
  BY <1>2, <1>3, <1>4, <1>5

\* A step of a detail that leaves it as the invariant asks.
LEMMA DetailChanges ==
    ASSUME ReadingInv, NEW d \in DetailReads, NEW read, DetailFits(read),
           detailReads' = [detailReads EXCEPT ![d] = read],
           UNCHANGED <<moment, publication, resource, homeLoads, reader, unitLoads, shown>>
    PROVE  ReadingInv'
<1>1. SameList /\ publication' = publication
  BY DEF SameList
<1>2. read \in DetailForms /\ detailReads \in [DetailReads -> DetailForms]
  BY DEF DetailFits, ReadingInv, DetailsOK
<1>3. ASSUME NEW e \in DetailReads
      PROVE  DetailOK(e)'
  <2>1. PICK x : x = detailReads'[e]
    OBVIOUS
  <2>2. DetailFits(x)
    BY <1>2, <2>1 DEF ReadingInv, DetailsOK, DetailOK
  <2> QED
    BY <1>1, <2>1, <2>2 DEF DetailOK, DetailFits, Rest, Stored, Before, DetailForms
<1>4. DetailsOK'
  BY <1>2, <1>3 DEF DetailsOK
<1> QED
  BY <1>1, <1>4, ListStays, PartsStay DEF ReadingInv

LEMMA DetailStep ==
    ASSUME ReadingInv, NEW d \in DetailReads, Detail(d)
    PROVE  ReadingInv'
<1> DEFINE now == detailReads[d]
<1>1. DetailFits(now) /\ Published /\ IsFiniteSet(Stored) /\ Stored \subseteq Reports
  BY DEF ReadingInv, DetailsOK, DetailOK, PublicationOK, Stored
<1>2. now \in DetailForms /\ now.after \in Stored \cup {NoReport}
  BY <1>1 DEF DetailFits
<1>3. UNCHANGED <<moment, publication, resource, homeLoads, reader, unitLoads, shown>>
  BY DEF Detail, OpenDetail, ReadUnit, WalkReports, FailDetail
<1>4. CASE \E r \in Reports : OpenDetail(d, r)
  <2>1. PICK r \in Stored : detailReads' = [detailReads EXCEPT ![d] =
                                               [at |-> "unit", report |-> r, after |-> NoReport]]
    BY <1>4 DEF OpenDetail
  <2>2. DetailFits([at |-> "unit", report |-> r, after |-> NoReport])
    BY <1>1 DEF DetailFits, DetailForms, MaybeReport
  <2> QED
    BY <1>3, <2>1, <2>2, DetailChanges
<1>5. CASE ReadUnit(d)
  <2>1. detailReads' = [detailReads EXCEPT ![d] = [now EXCEPT !.at = "walk"]]
    BY <1>5 DEF ReadUnit
  <2>2. now.report \in Stored /\ now.after = NoReport
    BY <1>1, <1>5 DEF ReadUnit, DetailFits
  <2>3. DetailFits([now EXCEPT !.at = "walk"])
    BY <1>2, <2>2 DEF DetailFits, DetailForms, Rest
  <2> QED
    BY <1>3, <2>1, <2>3, DetailChanges
<1>6. CASE WalkReports(d)
  <2> DEFINE page == ReportPage(now.after)
             last == CHOOSE r \in page : \A s \in page \ {r} : Before(s, r)
  <2>1. now.at = "walk" /\ now.report \in Stored /\ now.report \in Rest(now.after)
    BY <1>1, <1>6 DEF WalkReports, DetailFits
  <2>2. CASE now.report \in page
    <3>1. detailReads' = [detailReads EXCEPT ![d] = [now EXCEPT !.at = "found"]]
      BY <1>6, <2>2 DEF WalkReports
    <3>2. DetailFits([now EXCEPT !.at = "found"])
      BY <1>2 DEF DetailFits, DetailForms
    <3> QED
      BY <1>3, <3>1, <3>2, DetailChanges
  <2>3. CASE now.report \notin page
    <3>1. page # Rest(now.after) /\ last \in Stored /\ Before(last, now.report)
      BY <1>1, <2>1, <2>3, WalkGoesOn
    <3>2. detailReads' = [detailReads EXCEPT ![d] = [now EXCEPT !.after = last]]
      BY <1>6, <2>3, <3>1 DEF WalkReports
    <3>3. now.report \in Rest(last)
      BY <2>1, <3>1 DEF Rest
    <3> HIDE DEF last
    <3>4. DetailFits([now EXCEPT !.after = last])
      BY <1>1, <1>2, <2>1, <3>1, <3>3 DEF DetailFits, DetailForms, MaybeReport
    <3> QED
      BY <1>3, <3>2, <3>4, DetailChanges
  <2> QED
    BY <2>2, <2>3
<1>7. CASE FailDetail(d)
  <2>1. detailReads' = [detailReads EXCEPT ![d] = [now EXCEPT !.at = "failed"]]
    BY <1>7 DEF FailDetail
  <2>2. DetailFits([now EXCEPT !.at = "failed"])
    BY <1>2 DEF DetailFits, DetailForms
  <2> QED
    BY <1>3, <2>1, <2>2, DetailChanges
<1> QED
  BY <1>4, <1>5, <1>6, <1>7 DEF Detail

-----------------------------------------------------------------------------
(* The home answer *)

LEMMA LaterDay ==
    ASSUME NEW t \in Nat, NEW u \in Nat, t <= u
    PROVE  Day(t) <= Day(u) /\ Day(t) \in Nat
BY ConstantTypes DEF Day

\* What is selected out of stored reports is not older than any of them.
LEMMA SelectedIsNotOlder ==
    ASSUME PublicationOK, NEW S \in SUBSET Stored
    PROVE  /\ Newest(S) \in S \cup {NoReport}
           /\ Newest(S) = NoReport <=> S = {}
           /\ \A s \in S : NotOlder(Newest(S), s)
<1>1. S \in SUBSET Reports /\ IsFiniteSet(S) /\ Published
  BY FS_Subset DEF PublicationOK, Stored
<1>2. \A r \in S : r # NoReport
  BY <1>1, ConstantTypes
<1> QED
  BY <1>1, <1>2, NewestIsFirst DEF NotOlder

\* A request that is answered for whom it was sent, wherever it stands.
LEMMA AnswerChanges ==
    ASSUME ReadingInv, NEW l \in HomeLoads, NEW load, LoadFits(load),
           load.live = homeLoads[l].live,
           homeLoads' = [homeLoads EXCEPT ![l] = load],
           UNCHANGED <<moment, publication, resource, reader, unitLoads, detailReads, shown>>
    PROVE  ReadingInv'
<1>1. SameList /\ Stored' = Stored /\ publication' = publication
  BY ListStays DEF SameList
<1>2. homeLoads \in [HomeLoads -> HomeRequests] /\ load \in HomeRequests
  BY DEF ReadingInv, LoadsOK, LoadFits
<1>3. \A m \in HomeLoads : homeLoads'[m].live = homeLoads[m].live
  BY <1>2
<1>4. LoadsOK'
  <2>1. ASSUME NEW m \in HomeLoads
        PROVE  LoadOK(m)'
    <3>1. PICK x : x = homeLoads'[m]
      OBVIOUS
    <3>2. LoadFits(x)
      BY <1>2, <3>1 DEF ReadingInv, LoadsOK, LoadOK
    <3> QED
      BY <1>1, <3>1, <3>2 DEF LoadOK, LoadFits, NotOlder, Before, Day, Stored, HomeRequests
  <2> QED
    BY <1>2, <1>3, <2>1 DEF ReadingInv, LoadsOK
<1>5. PageOK'
  BY <1>1, <1>3 DEF ReadingInv, PageOK
<1> QED
  BY <1>1, <1>4, <1>5, ListStays, PartsStay DEF ReadingInv

LEMMA AnswerStep ==
    ASSUME ReadingInv, NEW l \in HomeLoads,
           HomeArrives(l) \/ ReadToday(l) \/ ReadLatest(l) \/ FailHome(l)
    PROVE  ReadingInv'
<1> DEFINE now == homeLoads[l]
<1>1. PublicationOK /\ LoadFits(now) /\ homeLoads \in [HomeLoads -> HomeRequests] /\ now \in HomeRequests
  BY DEF ReadingInv, LoadsOK, LoadOK
<1>2. now.oldest \in Stored \cup {NoReport} /\ now.report \in Stored \cup {NoReport}
  BY <1>1 DEF LoadOK, LoadFits
<1>3. \A r \in Stored : /\ publication[r].at \in Nat /\ publication[r].at <= moment
                        /\ r \in Reports /\ r # NoReport
  BY <1>1, Times, ConstantTypes DEF PublicationOK, Stored
<1>4. moment \in Nat /\ Day(moment) \in Nat
  BY <1>1, LaterDay, ConstantTypes DEF PublicationOK
<1>5. CASE HomeArrives(l)
  <2> DEFINE load == [now EXCEPT !.at = "today", !.day = Day(moment)]
  <2>1. load \in HomeRequests
    BY <1>1, <1>4 DEF HomeRequests
  <2>2. /\ load.at = "today" /\ load.day = Day(moment) /\ load.live = now.live
        /\ load.oldest = now.oldest /\ load.report = now.report /\ load.ok = now.ok
    BY <1>1 DEF HomeRequests
  <2>3. homeLoads' = [homeLoads EXCEPT ![l] = load]
    BY <1>1, <1>5 DEF HomeArrives
  <2>4. /\ now.at = "sent" /\ ~now.ok
        /\ UNCHANGED <<moment, publication, resource, reader, unitLoads, detailReads, shown>>
    BY <1>1, <1>5 DEF HomeArrives, LoadOK, LoadFits
  <2>5. load.oldest # NoReport => Day(publication[load.oldest].at) <= load.day
    BY <1>2, <1>3, <1>4, <2>2, LaterDay
  <2> HIDE DEF load
  <2>9. LoadFits(load)
    BY <1>1, <1>2, <2>1, <2>2, <2>3, <2>4, <2>5 DEF LoadFits
  <2> QED
    BY <2>9, <1>1, <1>2, <2>1, <2>2, <2>3, <2>4, <2>5, AnswerChanges
<1>6. CASE ReadToday(l)
  <2> DEFINE today == {r \in Stored : Day(publication[r].at) = now.day}
             found == Newest(today)
  <2>1. /\ found \in today \cup {NoReport}
        /\ found = NoReport <=> today = {}
        /\ \A r \in today : NotOlder(found, r)
    BY <1>1, SelectedIsNotOlder
  <2>2. /\ now.at = "today" /\ ~now.ok
        /\ UNCHANGED <<moment, publication, resource, reader, unitLoads, detailReads, shown>>
    BY <1>1, <1>6 DEF ReadToday, LoadOK, LoadFits
  <2>3. CASE found = NoReport
    <3> DEFINE load == [now EXCEPT !.at = "fallback"]
    <3>1. load \in HomeRequests
      BY <1>1 DEF HomeRequests
    <3>2. /\ load.at = "fallback" /\ load.day = now.day /\ load.live = now.live
          /\ load.oldest = now.oldest /\ load.report = now.report /\ load.ok = now.ok
      BY <1>1 DEF HomeRequests
    <3>3. homeLoads' = [homeLoads EXCEPT ![l] = load]
      BY <1>6, <2>3 DEF ReadToday
    <3> HIDE DEF load
    <3>9. LoadFits(load)
      BY <1>1, <1>2, <2>2, <3>1, <3>2, <3>3 DEF LoadFits
    <3> QED
      BY <3>9, <1>1, <1>2, <2>2, <3>1, <3>2, <3>3, AnswerChanges
  <2>4. CASE found # NoReport
    <3> DEFINE load == [now EXCEPT !.at = "answered", !.ok = TRUE, !.report = found]
    <3>1. found \in Stored /\ found \in Reports /\ Day(publication[found].at) = now.day
      BY <1>3, <2>1, <2>4
    <3>2. load \in HomeRequests
      BY <1>1, <3>1 DEF HomeRequests, MaybeReport
    <3>3. /\ load.at = "answered" /\ load.live = now.live
          /\ load.oldest = now.oldest /\ load.report = found /\ load.ok
      BY <1>1 DEF HomeRequests
    <3>4. homeLoads' = [homeLoads EXCEPT ![l] = load]
      BY <1>6, <2>4 DEF ReadToday
    <3>5. NotOlder(found, now.oldest)
      <4>1. CASE now.oldest \in today \cup {NoReport}
        BY <2>1, <4>1 DEF NotOlder
      <4>2. CASE now.oldest \notin today \cup {NoReport}
        <5>1. now.oldest \in Stored /\ Day(publication[now.oldest].at) <= now.day
          BY <1>1, <1>2, <2>2, <4>2 DEF LoadOK, LoadFits
        <5>2. Day(publication[now.oldest].at) # Day(publication[found].at)
          BY <3>1, <4>2, <5>1
        <5>3. ~(publication[found].at <= publication[now.oldest].at)
          <6>1. publication[found].at <= publication[now.oldest].at
                  => Day(publication[found].at) <= Day(publication[now.oldest].at)
            BY <1>3, <3>1, <5>1, LaterDay
          <6>2. Day(publication[found].at) \in Nat /\ Day(publication[now.oldest].at) \in Nat
            BY <1>3, <3>1, <5>1, LaterDay
          <6> HIDE DEF found, now
          <6> QED
            BY <3>1, <5>1, <5>2, <6>1, <6>2
        <5>4. Before(found, now.oldest)
          BY <1>3, <3>1, <5>1, <5>3 DEF Before
        <5> QED
          BY <2>4, <5>4 DEF NotOlder
      <4> QED
        BY <4>1, <4>2
    <3> HIDE DEF load
    <3>9. LoadFits(load)
      BY <1>1, <1>2, <2>2, <3>1, <3>2, <3>3, <3>4, <3>5 DEF LoadFits
    <3> QED
      BY <3>9, <1>1, <1>2, <2>2, <3>1, <3>2, <3>3, <3>4, <3>5, AnswerChanges
  <2> QED
    BY <2>3, <2>4
<1>7. CASE ReadLatest(l)
  <2> DEFINE load == [now EXCEPT !.at = "answered", !.ok = TRUE, !.report = Newest(Stored)]
  <2>1. /\ Newest(Stored) \in Stored \cup {NoReport} /\ Newest(Stored) \in MaybeReport
        /\ \A r \in Stored : NotOlder(Newest(Stored), r)
    BY <1>1, <1>3, SelectedIsNotOlder DEF MaybeReport
  <2>2. load \in HomeRequests
    BY <1>1, <2>1 DEF HomeRequests
  <2>3. /\ load.at = "answered" /\ load.live = now.live
        /\ load.oldest = now.oldest /\ load.report = Newest(Stored) /\ load.ok
    BY <1>1 DEF HomeRequests
  <2>4. homeLoads' = [homeLoads EXCEPT ![l] = load]
    BY <1>7 DEF ReadLatest
  <2>5. NotOlder(Newest(Stored), now.oldest)
    BY <1>2, <2>1 DEF NotOlder
  <2>6. /\ now.at = "fallback"
        /\ UNCHANGED <<moment, publication, resource, reader, unitLoads, detailReads, shown>>
    BY <1>7 DEF ReadLatest
  <2> HIDE DEF load
  <2>9. LoadFits(load)
    BY <1>1, <1>2, <2>1, <2>2, <2>3, <2>4, <2>5, <2>6 DEF LoadFits
  <2> QED
    BY <2>9, <1>1, <1>2, <2>1, <2>2, <2>3, <2>4, <2>5, <2>6, AnswerChanges
<1>8. CASE FailHome(l)
  <2> DEFINE load == [now EXCEPT !.at = "answered", !.day = 0]
  <2>1. load \in HomeRequests
    BY <1>1 DEF HomeRequests
  <2>2. /\ load.at = "answered" /\ load.live = now.live
        /\ load.oldest = now.oldest /\ load.report = now.report /\ load.ok = now.ok
    BY <1>1 DEF HomeRequests
  <2>3. homeLoads' = [homeLoads EXCEPT ![l] = load]
    BY <1>1, <1>8 DEF FailHome
  <2>4. /\ now.at \notin {"free", "answered"} /\ ~now.ok
        /\ UNCHANGED <<moment, publication, resource, reader, unitLoads, detailReads, shown>>
    BY <1>1, <1>8 DEF FailHome, LoadOK, LoadFits
  <2> HIDE DEF load
  <2>9. LoadFits(load)
    BY <1>1, <1>2, <2>1, <2>2, <2>3, <2>4 DEF LoadFits
  <2> QED
    BY <2>9, <1>1, <1>2, <2>1, <2>2, <2>3, <2>4, AnswerChanges
<1> QED
  BY <1>5, <1>6, <1>7, <1>8

-----------------------------------------------------------------------------
(* The home page *)

LEMMA FormsOfReader ==
    /\ Unloaded \in Lists /\ NoReader \in Readers /\ FreeUnits \in UnitRequests
    /\ \A r \in MaybeReport : Mounted(r) \in Readers
<1>1. Unloaded \in Lists /\ <<>> \in Seq(Kinds)
  BY DEF Unloaded, Lists
<1>2. NoReader \in Readers /\ FreeUnits \in UnitRequests
  BY <1>1 DEF NoReader, Readers, FreeUnits, UnitRequests, MaybeReport
<1>3. ASSUME NEW r \in MaybeReport
      PROVE  Mounted(r) \in Readers
  <2> DEFINE all == CHOOSE t \in Tabs : \A u \in Tabs : Len(u) <= Len(t)
  <2>1. \E t \in Tabs : \A u \in Tabs : Len(u) <= Len(t)
    BY ReadingConstants
  <2>2. all \in Tabs /\ Tabs \subseteq Seq(Kinds)
    BY <2>1, ReadingConstants
  <2>3. all \in Seq(Kinds)
    BY <2>2
  <2>4. Mounted(r) = [NoReader EXCEPT !.report = r, !.due = TRUE, !.tab = all]
    BY DEF Mounted
  <2> HIDE DEF all
  <2> QED
    BY <1>2, <2>3, <2>4 DEF Readers
<1> QED
  BY <1>1, <1>2, <1>3

\* Superseded requests for units count no more and stay what they are.
LEMMA UnitsDropped ==
    ASSUME ReaderOK, unitLoads' = DropUnits
    PROVE  /\ unitLoads' \in [UnitLoads -> UnitRequests]
           /\ \A m \in UnitLoads : UnitsOK(m)' /\ ~unitLoads'[m].live
<1>1. unitLoads \in [UnitLoads -> UnitRequests]
  BY DEF ReaderOK
<1>2. ASSUME NEW m \in UnitLoads
      PROVE  /\ unitLoads'[m] \in UnitRequests
             /\ ~unitLoads'[m].live /\ unitLoads'[m].at = unitLoads[m].at
             /\ unitLoads'[m].report = unitLoads[m].report
             /\ unitLoads'[m].kind = unitLoads[m].kind
             /\ unitLoads'[m].list = unitLoads[m].list
             /\ unitLoads'[m].page = unitLoads[m].page
             /\ unitLoads'[m].ok = unitLoads[m].ok
  <2>1. unitLoads[m] \in UnitRequests /\ unitLoads'[m] = [unitLoads[m] EXCEPT !.live = FALSE]
    BY <1>1 DEF DropUnits
  <2> QED
    BY <2>1 DEF UnitRequests
<1>3. unitLoads' \in [UnitLoads -> UnitRequests]
  BY <1>2 DEF DropUnits
<1>4. ASSUME NEW m \in UnitLoads
      PROVE  UnitsOK(m)'
  BY <1>2 DEF ReaderOK, UnitsOK, UnitFits
<1> QED
  BY <1>2, <1>3, <1>4

\* A home without pages and without requests that count is a new one.
LEMMA ReaderStartsAnew ==
    ASSUME ReaderOK, unitLoads' = DropUnits, reader' \in Readers,
           ~reader'.inflight, reader'.pending = NoKind,
           \A k \in Kinds : reader'.pages[k] = Unloaded
    PROVE  ReaderOK'
BY UnitsDropped DEF ReaderOK

LEMMA RenderKeeps ==
    ASSUME ReaderOK, NEW r \in MaybeReport, Render(r)
    PROVE  ReaderOK' /\ reader'.report = r
<1>1. reader \in Readers
  BY DEF ReaderOK
<1>2. CASE r # NoReport /\ r = reader.report
  <2>1. reader' = [reader EXCEPT !.due = TRUE] /\ unitLoads' = unitLoads
    BY <1>2 DEF Render
  <2>2. reader' \in Readers
    BY <1>1, <2>1 DEF Readers
  <2>3. /\ reader'.report = reader.report /\ reader'.pages = reader.pages
        /\ reader'.inflight = reader.inflight /\ reader'.pending = reader.pending
    BY <1>1, <2>1 DEF Readers
  <2> QED
    BY <1>2, <2>1, <2>2, <2>3 DEF ReaderOK, UnitsOK, UnitFits
<1>3. CASE ~(r # NoReport /\ r = reader.report)
  <2>1. reader' = (IF r = NoReport THEN NoReader ELSE Mounted(r)) /\ unitLoads' = DropUnits
    BY <1>3 DEF Render
  <2>2. reader' \in Readers
    BY <2>1, FormsOfReader
  <2>3. /\ reader'.report = r /\ ~reader'.inflight /\ reader'.pending = NoKind
        /\ \A k \in Kinds : reader'.pages[k] = Unloaded
    BY <2>1 DEF NoReader, Mounted
  <2> QED
    BY <2>1, <2>2, <2>3, ReaderStartsAnew
<1> QED
  BY <1>2, <1>3

LEMMA LoadFitsStays ==
    ASSUME SameList, NEW load, LoadFits(load), ~load.live \/ shown' = shown
    PROVE  LoadFits(load)'
BY DEF SameList, LoadFits, NotOlder, Before, Day, Stored

\* Superseded requests count no more.
LEMMA LoadsDropped ==
    ASSUME LoadsOK, NEW l \in HomeLoads
    PROVE  DropHome[l] \in HomeRequests /\ LoadFits(DropHome[l]) /\ ~DropHome[l].live
<1>1. LoadFits(homeLoads[l]) /\ homeLoads[l] \in HomeRequests
  BY DEF LoadsOK, LoadOK
<1>2. DropHome[l] = [homeLoads[l] EXCEPT !.live = FALSE]
  BY DEF DropHome
<1>3. PICK load : load = homeLoads[l]
  OBVIOUS
<1>4. LoadFits([load EXCEPT !.live = FALSE])
  BY <1>1, <1>3 DEF LoadFits, HomeRequests
<1> QED
  BY <1>1, <1>2, <1>3, <1>4 DEF HomeRequests

LEMMA LoadStep ==
    ASSUME ReadingInv, NEW refresh \in BOOLEAN, Load(refresh)
    PROVE  ReadingInv'
<1>1. SameList /\ detailReads' = detailReads /\ shown' = shown
  BY DEF Load, SameList
<1>2. PICK l \in HomeLoads :
        /\ homeLoads' = [DropHome EXCEPT ![l] =
               [FreeLoad EXCEPT !.at = "sent", !.live = TRUE, !.oldest = Newest(Stored)]]
        /\ IF refresh /\ resource.status = "ready"
           THEN /\ resource' = [resource EXCEPT !.refreshing = TRUE, !.refreshFailed = FALSE]
                /\ UNCHANGED <<reader, unitLoads>>
           ELSE /\ resource' = [status |-> "loading", report |-> NoReport,
                                refreshing |-> FALSE, refreshFailed |-> FALSE]
                /\ Render(NoReport)
  BY DEF Load
<1>3. PublicationOK /\ LoadsOK /\ PageOK /\ ReaderOK
  BY DEF ReadingInv
<1> DEFINE sent == [FreeLoad EXCEPT !.at = "sent", !.live = TRUE, !.oldest = Newest(Stored)]
<1>4. LoadFits(sent) /\ sent \in HomeRequests /\ sent.live
  <2>1. /\ Newest(Stored) \in Stored \cup {NoReport} /\ Newest(Stored) \in MaybeReport
        /\ Newest(Stored) = NoReport <=> Stored = {}
        /\ \A r \in Stored : NotOlder(Newest(Stored), r)
    BY <1>3, SelectedIsNotOlder DEF MaybeReport, Stored
  <2>2. NotOlder(Newest(Stored), shown)
    BY <1>3, <2>1 DEF PageOK, NotOlder
  <2>3. sent \in HomeRequests
    BY <2>1 DEF FreeLoad, HomeRequests, MaybeReport
  <2>4. /\ sent.at = "sent" /\ sent.live /\ sent.oldest = Newest(Stored)
        /\ sent.report = NoReport /\ ~sent.ok
    BY DEF FreeLoad
  <2> HIDE DEF sent
  <2> QED
    BY <2>1, <2>2, <2>3, <2>4 DEF LoadFits
<1> HIDE DEF sent
<1>5. /\ homeLoads'[l] = sent
      /\ \A m \in HomeLoads : m # l => homeLoads'[m] = DropHome[m]
      /\ DOMAIN homeLoads' = HomeLoads
      /\ homeLoads' = [m \in HomeLoads |-> homeLoads'[m]]
  BY <1>2 DEF DropHome, sent
<1>6. LoadsOK'
  <2>1. ASSUME NEW m \in HomeLoads
        PROVE  LoadOK(m)' /\ homeLoads'[m] \in HomeRequests /\ (homeLoads'[m].live => m = l)
    <3>1. PICK x : x = homeLoads'[m]
      OBVIOUS
    <3>2. LoadFits(x) /\ x \in HomeRequests /\ (x.live => m = l)
      BY <1>3, <1>4, <1>5, <3>1, LoadsDropped
    <3>3. LoadFits(x)'
      BY <1>1, <3>2, LoadFitsStays
    <3> QED
      BY <3>1, <3>2, <3>3 DEF LoadOK
  <2>2. homeLoads' \in [HomeLoads -> HomeRequests]
    BY <1>5, <2>1
  <2> QED
    BY <2>1, <2>2 DEF LoadsOK
<1>7. \E m \in HomeLoads : homeLoads'[m].live
  BY <1>4, <1>5
<1>8. PageOK' /\ ReaderOK'
  <2>1. Stored' = Stored
    BY <1>1, ListStays
  <2>2. CASE refresh /\ resource.status = "ready"
    <3>1. resource' = [resource EXCEPT !.refreshing = TRUE, !.refreshFailed = FALSE]
      BY <1>2, <2>2
    <3>2. /\ resource' \in Resources /\ resource'.refreshing
          /\ resource'.status = resource.status /\ resource'.report = resource.report
      BY <1>3, <3>1 DEF PageOK, Resources
    <3>3. UNCHANGED <<reader, unitLoads>>
      BY <1>2, <2>2
    <3>4. ReaderOK'
      BY <1>1, <3>3, PartsStay
    <3>5. PageOK'
      BY <1>1, <1>3, <1>7, <2>1, <2>2, <3>2, <3>3 DEF PageOK
    <3> QED
      BY <3>4, <3>5
  <2>3. CASE ~(refresh /\ resource.status = "ready")
    <3>1. /\ resource' = [status |-> "loading", report |-> NoReport,
                          refreshing |-> FALSE, refreshFailed |-> FALSE]
          /\ Render(NoReport)
      BY <1>2, <2>3
    <3>2. ReaderOK' /\ reader'.report = NoReport
      BY <1>3, <3>1, RenderKeeps DEF MaybeReport
    <3>3. PageOK'
      BY <1>1, <1>3, <1>7, <2>1, <3>1, <3>2 DEF PageOK, Resources, MaybeReport
    <3> QED
      BY <3>2, <3>3
  <2> QED
    BY <2>2, <2>3
<1> QED
  BY <1>1, <1>3, <1>6, <1>8, ListStays, PartsStay DEF ReadingInv

LEMMA LeaveStep ==
    ASSUME ReadingInv, LeaveHome
    PROVE  ReadingInv'
<1>1. SameList /\ detailReads' = detailReads /\ shown' = shown
  BY DEF LeaveHome, SameList
<1>2. /\ resource' = [status |-> "idle", report |-> NoReport, refreshing |-> FALSE,
                      refreshFailed |-> FALSE]
      /\ homeLoads' = DropHome /\ Render(NoReport)
  BY DEF LeaveHome
<1>3. PublicationOK /\ LoadsOK /\ PageOK /\ ReaderOK
  BY DEF ReadingInv
<1>4. LoadsOK'
  <2>1. ASSUME NEW m \in HomeLoads
        PROVE  LoadOK(m)' /\ homeLoads'[m] \in HomeRequests /\ ~homeLoads'[m].live
    <3>1. PICK x : x = homeLoads'[m]
      OBVIOUS
    <3>2. LoadFits(x) /\ x \in HomeRequests /\ ~x.live
      BY <1>2, <1>3, <3>1, LoadsDropped
    <3>3. LoadFits(x)'
      BY <1>1, <3>2, LoadFitsStays
    <3> QED
      BY <3>1, <3>2, <3>3 DEF LoadOK
  <2>2. homeLoads' \in [HomeLoads -> HomeRequests]
    BY <1>2, <2>1 DEF DropHome
  <2> QED
    BY <2>1, <2>2 DEF LoadsOK
<1>5. ReaderOK' /\ reader'.report = NoReport
  BY <1>2, <1>3, RenderKeeps DEF MaybeReport
<1>6. PageOK'
  <2>1. Stored' = Stored
    BY <1>1, ListStays
  <2> QED
    BY <1>1, <1>2, <1>3, <1>5, <2>1 DEF PageOK, Resources, MaybeReport
<1> QED
  BY <1>1, <1>3, <1>4, <1>5, <1>6, ListStays, PartsStay DEF ReadingInv

LEMMA ReceiveStep ==
    ASSUME ReadingInv, NEW l \in HomeLoads, ReceiveHome(l)
    PROVE  ReadingInv'
<1>1. SameList /\ detailReads' = detailReads
  BY DEF ReceiveHome, SameList
<1>2. PublicationOK /\ LoadsOK /\ PageOK /\ ReaderOK
  BY DEF ReadingInv
<1>3. PICK load : load = homeLoads[l]
  OBVIOUS
<1>4. LoadFits(load) /\ load \in HomeRequests /\ load.at = "answered"
  BY <1>2, <1>3 DEF LoadsOK, LoadOK, ReceiveHome
<1>5. FreeLoad \in HomeRequests /\ LoadFits(FreeLoad) /\ ~FreeLoad.live
  BY DEF FreeLoad, HomeRequests, MaybeReport, LoadFits
<1>6. /\ homeLoads'[l] = FreeLoad
      /\ \A m \in HomeLoads : m # l => homeLoads'[m] = homeLoads[m]
      /\ homeLoads' \in [HomeLoads -> HomeRequests]
  BY <1>2, <1>5 DEF ReceiveHome, LoadsOK
<1>7. ASSUME \A m \in HomeLoads : homeLoads'[m].live => shown' = shown
      PROVE  LoadsOK'
  <2>1. ASSUME NEW m \in HomeLoads
        PROVE  LoadOK(m)' /\ (homeLoads'[m].live => homeLoads[m].live)
    <3>1. PICK x : x = homeLoads'[m]
      OBVIOUS
    <3>2. LoadFits(x) /\ (x.live => homeLoads[m].live /\ shown' = shown) /\ x \in HomeRequests
      BY <1>2, <1>5, <1>6, <1>7, <3>1 DEF LoadsOK, LoadOK
    <3>3. ~x.live \/ shown' = shown
      BY <3>2
    <3>4. LoadFits(x)'
      BY <1>1, <3>2, <3>3, LoadFitsStays
    <3> QED
      BY <3>1, <3>2, <3>4 DEF LoadOK
  <2> QED
    BY <1>2, <1>6, <2>1 DEF LoadsOK
<1>8. Stored' = Stored
  BY <1>1, ListStays
<1>9. CASE ~load.live
  <2>1. UNCHANGED <<resource, reader, unitLoads, shown>>
    BY <1>3, <1>9 DEF ReceiveHome
  <2>2. LoadsOK' /\ ReaderOK'
    BY <1>1, <1>7, <2>1, PartsStay
  <2>3. \A m \in HomeLoads : homeLoads[m].live => homeLoads'[m].live
    BY <1>3, <1>6, <1>9
  <2>4. PageOK'
    BY <1>2, <1>8, <2>1, <2>3 DEF PageOK
  <2> QED
    BY <1>1, <1>2, <2>2, <2>4, ListStays, PartsStay DEF ReadingInv
<1>10. CASE load.live
  <2>1. /\ resource' = Outcome(load)
        /\ shown' = IF load.ok /\ load.report # NoReport THEN load.report ELSE shown
        /\ IF load.ok \/ resource.status # "ready" THEN Render(load.report)
           ELSE UNCHANGED <<reader, unitLoads>>
    BY <1>3, <1>10 DEF ReceiveHome
  <2>2. \A m \in HomeLoads : ~homeLoads'[m].live
    BY <1>2, <1>3, <1>5, <1>6, <1>10 DEF LoadsOK
  <2>3. LoadsOK'
    BY <1>7, <2>2
  <2>4. load.report \in MaybeReport /\ load.report \in Stored \cup {NoReport}
    BY <1>4 DEF HomeRequests, LoadFits
  <2>5. CASE load.ok
    <3>1. resource' = [status |-> IF load.report = NoReport THEN "empty" ELSE "ready",
                       report |-> load.report, refreshing |-> FALSE, refreshFailed |-> FALSE]
      BY <2>1, <2>5 DEF Outcome
    <3>2. ReaderOK' /\ reader'.report = load.report
      BY <1>2, <2>1, <2>4, <2>5, RenderKeeps
    <3>3. shown' = load.report
      <4>1. load.report = NoReport => shown = NoReport
        BY <1>4, <1>10, <2>5 DEF LoadFits, NotOlder
      <4> QED
        BY <2>1, <2>5, <4>1
    <3>4. PageOK'
      BY <1>8, <2>4, <3>1, <3>2, <3>3 DEF PageOK, Resources
    <3> QED
      BY <1>1, <1>2, <2>3, <3>2, <3>4, ListStays, PartsStay DEF ReadingInv
  <2>6. CASE ~load.ok /\ resource.status = "ready"
    <3>1. resource' = [resource EXCEPT !.refreshing = FALSE, !.refreshFailed = TRUE]
      BY <2>1, <2>6 DEF Outcome
    <3>2. /\ resource' \in Resources /\ ~resource'.refreshing
          /\ resource'.status = resource.status /\ resource'.report = resource.report
      BY <1>2, <3>1 DEF PageOK, Resources
    <3>3. UNCHANGED <<reader, unitLoads, shown>>
      BY <2>1, <2>6
    <3>4. ReaderOK'
      BY <1>1, <3>3, PartsStay
    <3>5. PageOK'
      BY <1>2, <1>8, <2>6, <3>2, <3>3 DEF PageOK
    <3> QED
      BY <1>1, <1>2, <2>3, <3>4, <3>5, ListStays, PartsStay DEF ReadingInv
  <2>7. CASE ~load.ok /\ resource.status # "ready"
    <3>1. resource' = [status |-> "error", report |-> NoReport, refreshing |-> FALSE,
                       refreshFailed |-> FALSE]
      BY <2>1, <2>7 DEF Outcome
    <3>2. load.report = NoReport
      BY <1>4, <2>7 DEF LoadFits
    <3>3. ReaderOK' /\ reader'.report = NoReport
      BY <1>2, <2>1, <2>4, <2>7, <3>2, RenderKeeps
    <3>4. shown' = shown
      BY <2>1, <2>7
    <3>5. PageOK'
      BY <1>2, <1>8, <3>1, <3>3, <3>4 DEF PageOK, Resources, MaybeReport
    <3> QED
      BY <1>1, <1>2, <2>3, <3>3, <3>5, ListStays, PartsStay DEF ReadingInv
  <2> QED
    BY <2>5, <2>6, <2>7
<1> QED
  BY <1>9, <1>10, <1>4 DEF HomeRequests

-----------------------------------------------------------------------------
(* The lists of units *)

LEMMA FirstPageFits ==
    ASSUME NEW r \in Reports, NEW k \in Kinds
    PROVE  ListFits(UnitPage(r, k, 0), r, k)
<1> DEFINE total == Units[r][k]
           n == IF total - 0 > PageLimit THEN PageLimit ELSE total - 0
           page == UnitPage(r, k, 0)
<1>1. total \in Nat /\ PageLimit \in Nat \ {0}
  BY ConstantTypes
<1>2. n \in Nat /\ 0 + n = n /\ n <= total
  BY <1>1
<1>3. /\ page.items = [i \in 1 .. n |-> <<r, 0 + i>>]
      /\ page.next = IF 0 + n < total THEN 0 + n ELSE 0
      /\ page = [items |-> page.items, next |-> page.next]
  BY DEF UnitPage
<1> HIDE DEF n, page, total
<1>4. page.items = [i \in 1 .. n |-> <<r, i>>]
  BY <1>2, <1>3
<1>5. page.items \in Seq(Reports \X Nat) /\ Len(page.items) = n
  BY <1>2, <1>4
<1>6. page.next = IF n < total THEN n ELSE 0
  BY <1>2, <1>3
<1>7. page \in Lists
  <2>1. page.next \in Int
    BY <1>2, <1>6
  <2>2. page = [items |-> page.items, next |-> page.next]
    BY <1>3
  <2> QED
    BY <1>5, <2>1, <2>2 DEF Lists
<1>8. ListFits(page, r, k)
  BY <1>4, <1>5, <1>6, <1>7 DEF ListFits, total
<1> QED
  BY <1>8 DEF page

\* The places of a sequence of new units are counted by those before them.
LEMMA PlacesBefore ==
    ASSUME NEW n \in Nat, NEW i \in 1 .. n
    PROVE  Cardinality({h \in 1 .. n : h < i}) = i - 1
<1>1. {h \in 1 .. n : h < i} = 1 .. (i - 1)
  OBVIOUS
<1>2. Cardinality(1 .. (i - 1)) = i - 1
  BY FS_Interval
<1> QED
  BY <1>1, <1>2

LEMMA NextPageFits ==
    ASSUME NEW r \in Reports, NEW k \in Kinds, NEW list, ListFits(list, r, k), list.next > 0
    PROVE  ListFits(Extended(list, UnitPage(r, k, list.next)), r, k)
<1> DEFINE total == Units[r][k]
           a == Len(list.items)
           n == IF total - a > PageLimit THEN PageLimit ELSE total - a
           page == UnitPage(r, k, a)
           fresh == {i \in DOMAIN page.items : page.items[i] \notin Elements(list)}
           nth(j) == CHOOSE i \in fresh : Cardinality({h \in fresh : h < i}) = j - 1
           longer == Extended(list, page)
<1>1. total \in Nat /\ PageLimit \in Nat \ {0}
  BY ConstantTypes
<1>2. /\ list.items \in Seq(Reports \X Nat) /\ a \in Nat /\ list.next = a /\ a < total
      /\ list.items = [i \in 1 .. a |-> <<r, i>>]
  BY <1>1 DEF ListFits, Lists
<1>3. n \in Nat /\ a + n <= total
  BY <1>1, <1>2
<1>4. /\ page.items = [i \in 1 .. n |-> <<r, a + i>>]
      /\ page.next = IF a + n < total THEN a + n ELSE 0
  BY DEF UnitPage
<1>5. longer = [items |-> list.items \o [j \in 1 .. Cardinality(fresh) |-> page.items[nth(j)]],
                next  |-> page.next]
  BY DEF Extended
<1> HIDE DEF n, page, longer
<1>6. Elements(list) = {<<r, i>> : i \in 1 .. a}
  <2> HIDE DEF a
  <2> QED
    BY <1>2 DEF Elements
<1>7. fresh = 1 .. n
  <2>1. DOMAIN page.items = 1 .. n
    BY <1>4
  <2>2. ASSUME NEW i \in 1 .. n
        PROVE  page.items[i] \notin Elements(list)
    <3> HIDE DEF a
    <3>1. page.items[i] = <<r, a + i>> /\ a + i \notin 1 .. a
      BY <1>2, <1>3, <1>4
    <3> QED
      BY <1>6, <3>1
  <2> QED
    BY <2>1, <2>2
<1>8. \A j \in 1 .. n : nth(j) = j
  <2>1. \A i \in 1 .. n : Cardinality({h \in fresh : h < i}) = i - 1
    BY <1>3, <1>7, PlacesBefore
  <2>2. SUFFICES ASSUME NEW j \in 1 .. n
                 PROVE  nth(j) = j
    OBVIOUS
  <2>3. \A i \in fresh : Cardinality({h \in fresh : h < i}) = j - 1 <=> i = j
    <3>1. \A i \in 1 .. n : i - 1 = j - 1 <=> i = j
      OBVIOUS
    <3> QED
      BY <1>7, <2>1, <3>1
  <2>4. j \in fresh
    BY <1>7
  <2> HIDE DEF fresh
  <2> QED
    BY <2>3, <2>4
<1>9. Cardinality(fresh) = n
  <2>1. Cardinality(1 .. n) = n
    BY <1>3, FS_Interval
  <2> QED
    BY <1>7, <2>1
<1> HIDE DEF fresh, nth
<1>10. longer.items = list.items \o [j \in 1 .. n |-> <<r, a + j>>] /\ longer.next = page.next
  <2>1. [j \in 1 .. n |-> page.items[nth(j)]] = [j \in 1 .. n |-> <<r, a + j>>]
    BY <1>4, <1>8
  <2> QED
    BY <1>5, <1>9, <2>1
<1> HIDE DEF a
<1>11. /\ longer.items \in Seq(Reports \X Nat) /\ Len(longer.items) = a + n
       /\ longer.items = [i \in 1 .. (a + n) |-> <<r, i>>]
  <2> DEFINE more == [j \in 1 .. n |-> <<r, a + j>>]
  <2>1. more \in Seq(Reports \X Nat) /\ Len(more) = n
    BY <1>2, <1>3
  <2>2. list.items \in Seq(Reports \X Nat) /\ Len(list.items) = a
    BY <1>2 DEF a
  <2>3. \A j \in 1 .. n : more[j] = <<r, a + j>>
    OBVIOUS
  <2> HIDE DEF more
  <2>4. /\ list.items \o more \in Seq(Reports \X Nat) /\ Len(list.items \o more) = a + n
        /\ \A i \in 1 .. (a + n) : (list.items \o more)[i]
                                     = IF i <= a THEN list.items[i] ELSE more[i - a]
    BY <1>2, <1>3, <2>1, <2>2
  <2>5. ASSUME NEW i \in 1 .. (a + n)
        PROVE  (list.items \o more)[i] = <<r, i>>
    <3>1. CASE i <= a
      <4>1. i \in 1 .. a
        BY <1>2, <1>3, <3>1
      <4> QED
        BY <1>2, <2>4, <3>1, <4>1
    <3>2. CASE ~(i <= a)
      <4>1. i - a \in 1 .. n /\ a + (i - a) = i
        BY <1>2, <1>3, <3>2
      <4> QED
        BY <2>3, <2>4, <3>2, <4>1
    <3> QED
      BY <3>1, <3>2
  <2>6. list.items \o more = [i \in 1 .. (a + n) |-> (list.items \o more)[i]]
    BY <1>2, <1>3, <2>4
  <2> QED
    BY <1>10, <2>4, <2>5, <2>6 DEF more
<1>12. longer \in Lists
  <2>1. longer = [items |-> longer.items, next |-> longer.next]
    BY <1>5
  <2>2. longer.next \in Int
    BY <1>2, <1>3, <1>4, <1>10
  <2> QED
    BY <1>11, <2>1, <2>2 DEF Lists
<1>13. longer.next = IF a + n < total THEN a + n ELSE 0
  BY <1>4, <1>10
<1> QED
  BY <1>2, <1>11, <1>12, <1>13 DEF ListFits, longer, page

-----------------------------------------------------------------------------
(* The requests for more units *)

\* What is on the screen is a first part of the report's units, and the list to be
\* continued is one of them.
LEMMA ScreenFits ==
    ASSUME ReaderOK, reader.report # NoReport
    PROVE  /\ \A k \in Kinds : ListFits(OnScreen(k), reader.report, k)
           /\ Continued # NoKind => Continued \in Kinds /\ OnScreen(Continued).next > 0
<1>1. reader.report \in Reports /\ reader.tab \in Seq(Kinds)
  BY DEF ReaderOK, Readers, MaybeReport
<1>2. \A k \in Kinds : ListFits(OnScreen(k), reader.report, k)
  BY <1>1, FirstPageFits DEF ReaderOK, OnScreen
<1>3. ASSUME Continued # NoKind
      PROVE  Continued \in Kinds /\ OnScreen(Continued).next > 0
  <2> DEFINE going == {i \in DOMAIN reader.tab : OnScreen(reader.tab[i]).next > 0}
             again == {i \in going : reader.tab[i] = reader.failed}
             place == CHOOSE i \in going : IF again # {} THEN i \in again
                                           ELSE \A j \in going : i <= j
  <2>1. going # {} /\ Continued = reader.tab[place]
    BY <1>3 DEF Continued
  <2>2. \E i \in going : IF again # {} THEN i \in again ELSE \A j \in going : i <= j
    <3>1. CASE again # {}
      BY <3>1
    <3>2. CASE again = {}
      <4> DEFINE R == {p \in going \X going : p[1] < p[2]}
      <4>1. DOMAIN reader.tab = 1 .. Len(reader.tab) /\ Len(reader.tab) \in Nat
        BY <1>1
      <4>2. IsFiniteSet(1 .. Len(reader.tab))
        BY <4>1, FS_Interval
      <4>3. IsFiniteSet(going) /\ going \subseteq Nat
        BY <4>1, <4>2, FS_Subset
      <4> HIDE DEF going
      <4>4. Orders(R, going)
        BY <4>3 DEF Orders
      <4>5. \A x, y \in going : <<x, y>> \in R <=> x < y
        OBVIOUS
      <4>6. \E x \in going : \A y \in going \ {x} : <<x, y>> \in R
        <5> HIDE DEF R
        <5> QED
          BY <2>1, <4>3, <4>4, FirstExists
      <4>7. PICK x \in going : \A y \in going \ {x} : x < y
        BY <4>5, <4>6
      <4>8. \A y \in going : x <= y
        BY <4>3, <4>7
      <4> QED
        BY <3>2, <4>8
    <3> QED
      BY <3>1, <3>2
  <2>3. place \in going
    <3> HIDE DEF going, again
    <3> QED
      BY <2>2
  <2>4. reader.tab[place] \in Kinds /\ OnScreen(reader.tab[place]).next > 0
    <3> HIDE DEF place
    <3> QED
      BY <1>1, <2>3
  <2> QED
    BY <2>1, <2>4
<1> QED
  BY <1>2, <1>3

\* A step of one request for units under the same home.
LEMMA UnitsChange ==
    ASSUME ReaderOK, NEW m \in UnitLoads, NEW load, UnitFits(load),
           unitLoads' = [unitLoads EXCEPT ![m] = load], reader'.report = reader.report
    PROVE  /\ unitLoads' \in [UnitLoads -> UnitRequests]
           /\ \A n \in UnitLoads : UnitsOK(n)'
           /\ unitLoads'[m] = load
           /\ \A n \in UnitLoads : n # m => unitLoads'[n] = unitLoads[n]
<1>1. unitLoads \in [UnitLoads -> UnitRequests] /\ load \in UnitRequests
  BY DEF ReaderOK, UnitFits
<1>2. ASSUME NEW n \in UnitLoads
      PROVE  UnitsOK(n)'
  <2>1. PICK x : x = unitLoads'[n]
    OBVIOUS
  <2>2. UnitFits(x)
    BY <1>1, <2>1 DEF ReaderOK, UnitsOK
  <2> QED
    BY <2>1, <2>2 DEF UnitsOK, UnitFits
<1> QED
  BY <1>1, <1>2

\* A step of the mounted home alone.
LEMMA ReaderStepKeeps ==
    ASSUME ReadingInv, ReaderOK', reader'.report = reader.report,
           UNCHANGED <<moment, publication, resource, homeLoads, detailReads, shown>>
    PROVE  ReadingInv'
<1>1. SameList /\ PageOK'
  BY ListStays DEF SameList, ReadingInv, PageOK, Stored
<1> QED
  BY <1>1, ListStays, PartsStay DEF ReadingInv

LEMMA ReaderAloneStep ==
    ASSUME ReadingInv, EffectRuns \/ \E tab \in Tabs : ChooseTab(tab)
    PROVE  ReadingInv'
<1>1. ReaderOK /\ reader \in Readers
  BY DEF ReadingInv, ReaderOK
<1>2. CASE EffectRuns
  <2> DEFINE none == [k \in Kinds |-> Unloaded]
  <2>1. none \in [Kinds -> Lists]
    BY FormsOfReader
  <2>2. /\ reader' = [reader EXCEPT !.due = FALSE, !.pages = none, !.pending = NoKind,
                                    !.failed = NoKind, !.inflight = FALSE]
        /\ unitLoads' = DropUnits
        /\ UNCHANGED <<moment, publication, resource, homeLoads, detailReads, shown>>
    BY <1>2 DEF EffectRuns
  <2>3. \A k \in Kinds : none[k] = Unloaded
    OBVIOUS
  <2> HIDE DEF none
  <2>4. reader' \in Readers
    BY <1>1, <2>1, <2>2 DEF Readers
  <2>5. /\ reader'.report = reader.report /\ reader'.pages = none
        /\ ~reader'.inflight /\ reader'.pending = NoKind
    BY <1>1, <2>2 DEF Readers
  <2>6. ReaderOK'
    BY <1>1, <2>2, <2>3, <2>4, <2>5, ReaderStartsAnew
  <2> QED
    BY <2>2, <2>5, <2>6, ReaderStepKeeps
<1>3. CASE \E tab \in Tabs : ChooseTab(tab)
  <2>1. PICK tab \in Tabs : ChooseTab(tab)
    BY <1>3
  <2>2. tab \in Seq(Kinds)
    BY ReadingConstants
  <2>3. reader' = [reader EXCEPT !.tab = tab] /\ unitLoads' = unitLoads
    BY <2>1 DEF ChooseTab
  <2>4. reader' \in Readers
    BY <1>1, <2>2, <2>3 DEF Readers
  <2>5. /\ reader'.report = reader.report /\ reader'.pages = reader.pages
        /\ reader'.inflight = reader.inflight /\ reader'.pending = reader.pending
    BY <1>1, <2>3 DEF Readers
  <2>6. ReaderOK'
    BY <1>1, <2>3, <2>4, <2>5 DEF ReaderOK, UnitsOK, UnitFits
  <2> QED
    BY <2>1, <2>5, <2>6, ReaderStepKeeps DEF ChooseTab
<1> QED
  BY <1>2, <1>3

LEMMA MoreStep ==
    ASSUME ReadingInv, More
    PROVE  ReadingInv'
<1>1. ReaderOK /\ reader \in Readers /\ reader.report \in Reports
  BY DEF ReadingInv, ReaderOK, Readers, MaybeReport, More
<1>2. PICK k : k = Continued
  OBVIOUS
<1>3. PICK list : list = OnScreen(k)
  OBVIOUS
<1>4. PICK m \in UnitLoads :
        unitLoads' = [unitLoads EXCEPT ![m] =
            [FreeUnits EXCEPT !.at = "sent", !.live = TRUE, !.report = reader.report,
                              !.kind = k, !.list = list]]
  BY <1>2, <1>3 DEF More
<1>5. /\ reader' = [reader EXCEPT !.inflight = TRUE, !.pending = k, !.failed = NoKind]
      /\ ~reader.inflight
      /\ UNCHANGED <<moment, publication, resource, homeLoads, detailReads, shown>>
  BY <1>2 DEF More
<1>6. k \in Kinds /\ ListFits(list, reader.report, k) /\ list.next > 0
  BY <1>1, <1>2, <1>3, ScreenFits DEF More
<1> DEFINE load == [FreeUnits EXCEPT !.at = "sent", !.live = TRUE, !.report = reader.report,
                                     !.kind = k, !.list = list]
<1>7. load \in UnitRequests
  <2>1. list \in Lists /\ Unloaded \in Lists
    BY <1>6, FormsOfReader DEF ListFits
  <2> QED
    BY <1>1, <1>6, <2>1 DEF UnitRequests, FreeUnits, MaybeReport
<1>8. /\ load.at = "sent" /\ load.live /\ load.report = reader.report /\ load.kind = k
      /\ load.list = list
  BY DEF FreeUnits
<1>9. unitLoads' = [unitLoads EXCEPT ![m] = load]
  BY <1>4
<1> HIDE DEF load
<1>10. UnitFits(load)
  BY <1>1, <1>6, <1>7, <1>8 DEF UnitFits
<1>11. reader' \in Readers
  BY <1>1, <1>5, <1>6 DEF Readers
<1>12. /\ reader'.report = reader.report /\ reader'.pages = reader.pages
       /\ reader'.inflight /\ reader'.pending = k
  BY <1>1, <1>5 DEF Readers
<1>13. /\ unitLoads' \in [UnitLoads -> UnitRequests]
       /\ \A n \in UnitLoads : UnitsOK(n)'
       /\ unitLoads'[m] = load
       /\ \A n \in UnitLoads : n # m => unitLoads'[n] = unitLoads[n]
  BY <1>1, <1>9, <1>10, <1>12, UnitsChange
<1>14. \A n \in UnitLoads : ~unitLoads[n].live
  BY <1>1, <1>5 DEF ReaderOK
<1>15. ReaderOK'
  BY <1>1, <1>8, <1>11, <1>12, <1>13, <1>14 DEF ReaderOK
<1> QED
  BY <1>5, <1>12, <1>15, ReaderStepKeeps

LEMMA ServeStep ==
    ASSUME ReadingInv, NEW m \in UnitLoads, ServeUnits(m)
    PROVE  ReadingInv'
<1>1. ReaderOK /\ UnitFits(unitLoads[m]) /\ reader' = reader
  BY DEF ReadingInv, ReaderOK, UnitsOK, ServeUnits
<1>2. PICK load : load = unitLoads[m]
  OBVIOUS
<1>3. PICK ok \in BOOLEAN :
        unitLoads' = [unitLoads EXCEPT ![m] =
            [load EXCEPT !.at = "answered", !.ok = ok,
                         !.page = IF ok THEN UnitPage(load.report, load.kind, load.list.next)
                                  ELSE Unloaded]]
  BY <1>2 DEF ServeUnits
<1>4. PICK page : page = IF ok THEN UnitPage(load.report, load.kind, load.list.next) ELSE Unloaded
  OBVIOUS
<1>5. load \in UnitRequests /\ UnitFits(load) /\ load.at = "sent"
  BY <1>1, <1>2 DEF UnitFits, ServeUnits
<1>6. page \in Lists
  <2>1. CASE ok
    <3> DEFINE total == Units[load.report][load.kind]
               a == load.list.next
               n == IF total - a > PageLimit THEN PageLimit ELSE total - a
    <3>1. total \in Nat /\ PageLimit \in Nat \ {0} /\ load.report \in Reports
      BY <1>5, ConstantTypes DEF UnitFits
    <3>2. a \in Nat /\ a < total
      BY <1>5, <3>1 DEF UnitFits, ListFits, Lists
    <3>3. n \in Nat
      BY <3>1, <3>2
    <3>4. page = [items |-> [i \in 1 .. n |-> <<load.report, a + i>>],
                  next  |-> IF a + n < total THEN a + n ELSE 0]
      BY <1>4, <2>1 DEF UnitPage
    <3> HIDE DEF n, a, total
    <3>5. [i \in 1 .. n |-> <<load.report, a + i>>] \in Seq(Reports \X Nat)
      BY <3>1, <3>2, <3>3
    <3>6. (IF a + n < total THEN a + n ELSE 0) \in Int
      BY <3>2, <3>3
    <3> QED
      BY <3>4, <3>5, <3>6 DEF Lists
  <2>2. CASE ~ok
    BY <1>4, <2>2, FormsOfReader
  <2> QED
    BY <2>1, <2>2
<1> DEFINE answer == [load EXCEPT !.at = "answered", !.ok = ok, !.page = page]
<1>7. answer \in UnitRequests
  BY <1>5, <1>6 DEF UnitRequests
<1>8. /\ answer.at = "answered" /\ answer.ok = ok /\ answer.page = page
      /\ answer.report = load.report /\ answer.kind = load.kind /\ answer.list = load.list
      /\ answer.live = load.live
  BY <1>5 DEF UnitRequests
<1>9. unitLoads' = [unitLoads EXCEPT ![m] = answer]
  BY <1>3, <1>4
<1> HIDE DEF answer
<1>10. UnitFits(answer)
  BY <1>4, <1>5, <1>7, <1>8 DEF UnitFits
<1>11. /\ unitLoads' \in [UnitLoads -> UnitRequests]
       /\ \A n \in UnitLoads : UnitsOK(n)'
       /\ unitLoads'[m] = answer
       /\ \A n \in UnitLoads : n # m => unitLoads'[n] = unitLoads[n]
  BY <1>1, <1>9, <1>10, UnitsChange
<1>12. \A n \in UnitLoads : unitLoads'[n].live = unitLoads[n].live
  BY <1>2, <1>8, <1>11
<1>13. ReaderOK'
  BY <1>1, <1>11, <1>12 DEF ReaderOK
<1> QED
  BY <1>1, <1>13, ReaderStepKeeps DEF ServeUnits

LEMMA ReceiveUnitsStep ==
    ASSUME ReadingInv, NEW m \in UnitLoads, ReceiveUnits(m)
    PROVE  ReadingInv'
<1>1. ReaderOK /\ UnitFits(unitLoads[m]) /\ reader \in Readers
  BY DEF ReadingInv, ReaderOK, UnitsOK
<1>2. PICK load : load = unitLoads[m]
  OBVIOUS
<1>3. load \in UnitRequests /\ UnitFits(load) /\ load.at = "answered"
  BY <1>1, <1>2 DEF UnitFits, ReceiveUnits
<1>4. unitLoads' = [unitLoads EXCEPT ![m] = FreeUnits]
  BY DEF ReceiveUnits
<1>5. UnitFits(FreeUnits) /\ ~FreeUnits.live
  BY FormsOfReader DEF UnitFits, FreeUnits
<1>6. CASE ~load.live
  <2>1. reader' = reader /\ reader'.report = reader.report
    BY <1>2, <1>6 DEF ReceiveUnits
  <2>2. /\ unitLoads' \in [UnitLoads -> UnitRequests]
        /\ \A n \in UnitLoads : UnitsOK(n)'
        /\ unitLoads'[m] = FreeUnits
        /\ \A n \in UnitLoads : n # m => unitLoads'[n] = unitLoads[n]
    <3>1. reader'.report = reader.report
      BY <2>1
    <3>2. PICK free : free = FreeUnits
      OBVIOUS
    <3>3. UnitFits(free) /\ unitLoads' = [unitLoads EXCEPT ![m] = free]
      BY <1>4, <1>5, <3>2
    <3> QED
      BY <1>1, <3>1, <3>2, <3>3, UnitsChange
  <2>3. \A n \in UnitLoads : unitLoads'[n].live <=> unitLoads[n].live
    BY <1>2, <1>5, <1>6, <2>2
  <2>4. (\E n \in UnitLoads : unitLoads[n].live)' <=> \E n \in UnitLoads : unitLoads[n].live
    BY <2>3
  <2>5. \A n, o \in UnitLoads : unitLoads'[n].live /\ unitLoads'[o].live => n = o
    BY <1>1, <2>3 DEF ReaderOK
  <2>6. ReaderOK'
    BY <1>1, <2>1, <2>2, <2>4, <2>5 DEF ReaderOK
  <2> QED
    BY <2>1, <2>6, ReaderStepKeeps DEF ReceiveUnits
<1>7. CASE load.live
  <2>1. /\ load.report = reader.report /\ load.report \in Reports /\ load.kind \in Kinds
        /\ ListFits(load.list, load.report, load.kind) /\ load.list.next > 0
        /\ reader.report # NoReport
    BY <1>3, <1>7, ConstantTypes DEF UnitFits
  <2>2. PICK pages : pages = [reader.pages EXCEPT ![load.kind] =
                                 IF load.ok THEN Extended(load.list, load.page) ELSE @]
    OBVIOUS
  <2>3. PICK failed : failed = IF load.ok THEN reader.failed ELSE load.kind
    OBVIOUS
  <2>4. reader' = [reader EXCEPT !.pages = pages, !.failed = failed, !.inflight = FALSE,
                                 !.pending = NoKind]
    BY <1>1, <1>2, <1>7, <2>2, <2>3 DEF ReceiveUnits, Readers
  <2>5. reader.pages \in [Kinds -> Lists] /\ failed \in Kinds \cup {NoKind}
    BY <1>1, <2>1, <2>3 DEF Readers
  <2>6. load.ok => ListFits(Extended(load.list, load.page), reader.report, load.kind)
    BY <1>3, <2>1, NextPageFits DEF UnitFits
  <2>7. /\ pages \in [Kinds -> Lists]
        /\ \A k \in Kinds : pages[k] = Unloaded \/ ListFits(pages[k], reader.report, k)
    <3>1. \A k \in Kinds : reader.pages[k] = Unloaded \/ ListFits(reader.pages[k], reader.report, k)
      BY <1>1, <2>1 DEF ReaderOK
    <3>2. load.ok => Extended(load.list, load.page) \in Lists
      BY <2>6 DEF ListFits
    <3> QED
      BY <2>1, <2>2, <2>5, <2>6, <3>1, <3>2
  <2>8. reader' \in Readers
    BY <1>1, <2>4, <2>5, <2>7 DEF Readers
  <2>9. /\ reader'.report = reader.report /\ reader'.pages = pages
        /\ ~reader'.inflight /\ reader'.pending = NoKind
    BY <1>1, <2>4 DEF Readers
  <2>10. /\ unitLoads' \in [UnitLoads -> UnitRequests]
         /\ \A n \in UnitLoads : UnitsOK(n)'
         /\ unitLoads'[m] = FreeUnits
         /\ \A n \in UnitLoads : n # m => unitLoads'[n] = unitLoads[n]
    BY <1>1, <1>4, <1>5, <2>9, UnitsChange
  <2>11. \A n \in UnitLoads : ~unitLoads'[n].live
    BY <1>1, <1>2, <1>5, <1>7, <2>10 DEF ReaderOK
  <2>12. ReaderOK'
    BY <2>7, <2>8, <2>9, <2>10, <2>11 DEF ReaderOK
  <2> QED
    BY <2>9, <2>12, ReaderStepKeeps DEF ReceiveUnits
<1> QED
  BY <1>3, <1>6, <1>7 DEF UnitRequests

-----------------------------------------------------------------------------
(* The specification *)

LEMMA StutterStep ==
    ASSUME ReadingInv, UNCHANGED readingVars
    PROVE  ReadingInv'
<1>1. /\ SameList
      /\ UNCHANGED <<resource, homeLoads, reader, unitLoads, detailReads, shown>>
  BY DEF readingVars, SameList
<1> QED
  BY <1>1, ListStays, PartsStay DEF ReadingInv

LEMMA ReadingInvStep ==
    ASSUME ReadingInv, [ReadingNext]_readingVars
    PROVE  ReadingInv'
<1>1. CASE HomePage
  <2>1. (\E refresh \in BOOLEAN : Load(refresh)) => ReadingInv'
    BY LoadStep
  <2>2. OpenHome \/ RetryHome \/ RefreshHome => ReadingInv'
    BY <2>1 DEF OpenHome, RetryHome, RefreshHome
  <2> QED
    BY <1>1, <2>2, LeaveStep, MoreStep, ReaderAloneStep DEF HomePage
<1>2. CASE \E l \in HomeLoads : HomeAnswer(l)
  BY <1>2, AnswerStep, ReceiveStep DEF HomeAnswer
<1>3. CASE \E m \in UnitLoads : ServeUnits(m) \/ ReceiveUnits(m)
  BY <1>3, ServeStep, ReceiveUnitsStep
<1>4. CASE \E d \in DetailReads : Detail(d)
  BY <1>4, DetailStep
<1>5. CASE ClockMoves \/ \E r \in Reports : StampReport(r) \/ CommitReport(r)
  BY <1>5, PublicationStep
<1> QED
  BY <1>1, <1>2, <1>3, <1>4, <1>5, StutterStep DEF ReadingNext

\* The inductive invariant holds.
THEOREM ReadingInvariant ==
    ReadingSpec => []ReadingInv
<1>1. ReadingInit => ReadingInv
  BY ReadingInvInit
<1>2. ReadingInv /\ [ReadingNext]_readingVars => ReadingInv'
  BY ReadingInvStep
<1> QED
  BY <1>1, <1>2, PTL DEF ReadingSpec

\* A read made of several queries misses nothing that was there all along: a home answer
\* is not older than what was stored when it was asked for, and a detail of a stored
\* report finds its publication time, whatever is published between its queries.
THEOREM ReadsAreComplete ==
    ReadingSpec => []ReadsMissNothing
<1>1. ReadingInv => ReadsMissNothing
  <2> SUFFICES ASSUME ReadingInv PROVE ReadsMissNothing
    OBVIOUS
  <2>2. \A l \in HomeLoads : LoadFits(homeLoads[l])
    BY DEF ReadingInv, LoadsOK, LoadOK
  <2>3. \A d \in DetailReads : DetailFits(detailReads[d])
    BY DEF ReadingInv, DetailsOK, DetailOK
  <2> QED
    BY <2>2, <2>3 DEF ReadsMissNothing, LoadFits, DetailFits, NotOlder
<1> QED
  BY <1>1, ReadingInvariant, PTL

LEMMA ForwardStep ==
    ASSUME ReadingInv, [ReadingNext]_readingVars, shown # NoReport,
           resource'.status \in {"ready", "empty"}
    PROVE  NotOlder(resource'.report, shown)
<1>1. PageOK /\ LoadsOK
  BY DEF ReadingInv
<1>2. CASE resource' = resource
  BY <1>1, <1>2 DEF PageOK, NotOlder
<1>3. ASSUME NEW refresh \in BOOLEAN, Load(refresh)
      PROVE  NotOlder(resource'.report, shown)
  <2>1. CASE refresh /\ resource.status = "ready"
    <3>1. resource' = [resource EXCEPT !.refreshing = TRUE, !.refreshFailed = FALSE]
      BY <1>3, <2>1 DEF Load
    <3>2. resource'.report = resource.report
      BY <1>1, <3>1 DEF PageOK, Resources
    <3> QED
      BY <1>1, <2>1, <3>2 DEF PageOK, NotOlder
  <2>2. CASE ~(refresh /\ resource.status = "ready")
    <3>1. resource'.status = "loading"
      BY <1>3, <2>2 DEF Load
    <3> QED
      BY <3>1
  <2> QED
    BY <2>1, <2>2
<1>4. CASE LeaveHome
  <2>1. resource'.status = "idle"
    BY <1>4 DEF LeaveHome
  <2> QED
    BY <2>1
<1>5. ASSUME NEW l \in HomeLoads, ReceiveHome(l)
      PROVE  NotOlder(resource'.report, shown)
  <2>1. LoadFits(homeLoads[l]) /\ homeLoads[l].at = "answered"
    BY <1>1, <1>5 DEF LoadsOK, LoadOK, ReceiveHome
  <2>2. CASE ~homeLoads[l].live
    BY <1>2, <1>5, <2>2 DEF ReceiveHome
  <2>3. CASE homeLoads[l].live
    <3>1. resource' = Outcome(homeLoads[l])
      BY <1>5, <2>3 DEF ReceiveHome
    <3>2. CASE homeLoads[l].ok
      <4>1. resource'.report = homeLoads[l].report
        BY <3>1, <3>2 DEF Outcome
      <4>2. /\ NotOlder(homeLoads[l].report, homeLoads[l].oldest)
            /\ NotOlder(homeLoads[l].oldest, shown)
            /\ homeLoads[l].report \in MaybeReport /\ homeLoads[l].oldest \in MaybeReport
            /\ shown \in MaybeReport
        BY <1>1, <2>1, <2>3, <3>2 DEF LoadFits, HomeRequests, PageOK, MaybeReport, Stored
      <4>3. Published
        BY DEF ReadingInv, PublicationOK
      <4> QED
        BY <4>1, <4>2, <4>3, BeforeOrders DEF NotOlder, MaybeReport
    <3>3. CASE ~homeLoads[l].ok /\ resource.status = "ready"
      <4>1. resource' = [resource EXCEPT !.refreshing = FALSE, !.refreshFailed = TRUE]
        BY <3>1, <3>3 DEF Outcome
      <4>2. resource'.report = resource.report
        BY <1>1, <4>1 DEF PageOK, Resources
      <4> QED
        BY <1>1, <3>3, <4>2 DEF PageOK, NotOlder
    <3>4. CASE ~homeLoads[l].ok /\ resource.status # "ready"
      <4>1. resource'.status = "error"
        BY <3>1, <3>4 DEF Outcome
      <4> QED
        BY <4>1
    <3> QED
      BY <3>2, <3>3, <3>4
  <2> QED
    BY <2>2, <2>3
<1>6. OpenHome \/ RetryHome \/ RefreshHome => \E refresh \in BOOLEAN : Load(refresh)
  BY DEF OpenHome, RetryHome, RefreshHome
<1>7. \/ resource' = resource \/ LeaveHome
      \/ \E refresh \in BOOLEAN : Load(refresh)
      \/ \E l \in HomeLoads : ReceiveHome(l)
  BY <1>6 DEF ReadingNext, readingVars, HomePage, HomeAnswer, Detail, EffectRuns, More, ChooseTab,
     HomeArrives, ReadToday, ReadLatest, FailHome, ServeUnits, ReceiveUnits, OpenDetail, ReadUnit,
     WalkReports, FailDetail, StampReport, CommitReport, ClockMoves
<1> QED
  BY <1>2, <1>3, <1>4, <1>5, <1>7

\* The home page never goes back: whatever request is answered last, it shows the report
\* it showed or a newer one.
THEOREM HomeGoesForward ==
    ReadingSpec => HomeNeverGoesBack
<1>1. ReadingInv /\ [ReadingNext]_readingVars =>
        [shown # NoReport /\ resource'.status \in {"ready", "empty"} =>
          \/ resource'.report = shown
          \/ resource'.report # NoReport /\ Before(resource'.report, shown)]_readingVars
  BY ForwardStep DEF NotOlder
<1> QED
  BY <1>1, ReadingInvariant, PTL DEF ReadingSpec, HomeNeverGoesBack

\* The units on the screen are those of the report on the screen, from the first one on
\* without a gap or a repetition, and the page waits exactly for requests that it will
\* hear the answer of.
THEOREM HomeStaysWhole ==
    ReadingSpec => []HomeIsWhole
<1>1. ReadingInv => HomeIsWhole
  <2> SUFFICES ASSUME ReadingInv PROVE HomeIsWhole
    OBVIOUS
  <2>1. PublicationOK /\ LoadsOK /\ DetailsOK /\ PageOK /\ ReaderOK
    BY DEF ReadingInv
  <2>2. /\ \A l \in HomeLoads : LoadFits(homeLoads[l])
        /\ \A m \in UnitLoads : UnitFits(unitLoads[m])
        /\ \A d \in DetailReads : DetailFits(detailReads[d])
    BY <2>1 DEF LoadsOK, LoadOK, ReaderOK, UnitsOK, DetailsOK, DetailOK
  <2>3. ReadingTypeOK
    <3>1. \A l \in HomeLoads :
             /\ homeLoads[l].at \in {"free", "sent", "today", "fallback", "answered"}
             /\ homeLoads[l].report \in Stored \cup {NoReport}
      BY <2>2 DEF LoadFits, HomeRequests
    <3>2. \A m \in UnitLoads : unitLoads[m].at \in {"free", "sent", "answered"}
      BY <2>2 DEF UnitFits, UnitRequests
    <3>3. \A d \in DetailReads :
             detailReads[d].at \in {"new", "unit", "walk", "found", "unavailable", "failed"}
      BY <2>2 DEF DetailFits, DetailForms
    <3> QED
      BY <2>1, <3>1, <3>2, <3>3
      DEF PublicationOK, Published, PageOK, Resources, MaybeReport, ReadingTypeOK
  <2>4. ASSUME reader.report # NoReport
        PROVE  \A k \in Kinds : ListFits(OnScreen(k), reader.report, k)
    BY <2>1, <2>4, ScreenFits
  <2>5. UnitsAreAPrefix
    <3>1. ASSUME NEW k \in Kinds, ListFits(OnScreen(k), reader.report, k)
          PROVE  LET list  == OnScreen(k)
                     total == Units[reader.report][k]
                 IN  /\ list.items = [i \in 1 .. Len(list.items) |-> <<reader.report, i>>]
                     /\ list.next = IF Len(list.items) < total THEN Len(list.items) ELSE 0
      BY <3>1 DEF ListFits
    <3> QED
      BY <2>1, <2>3, <2>4, <3>1 DEF UnitsAreAPrefix, PageOK
  <2>6. WaitingHasARequest
    BY <2>1 DEF WaitingHasARequest, PageOK, ReaderOK
  <2> QED
    BY <2>5, <2>6 DEF HomeIsWhole
<1> QED
  BY <1>1, ReadingInvariant, PTL
=============================================================================
