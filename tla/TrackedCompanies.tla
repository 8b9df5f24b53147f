-------------------------- MODULE TrackedCompanies --------------------------
(***************************************************************************)
(* The companies a user follows, as the tracking endpoints of the Miniapp  *)
(* Backend serve them: the private list page by page, the search with its  *)
(* marks, follow and unfollow, the filter choices.  The Backend keeps      *)
(* nothing: each call is a chain of calls of the User Service, which holds *)
(* user_watchlist, and of the Data Service, which holds the stocks.        *)
(*                                                                         *)
(* A call of the User Service is one transaction that locks the user and   *)
(* the session, checks them, and runs one statement, or two for a list.    *)
(* Only the list shows a state in between: the other transactions read or  *)
(* write once, under the lock, and are single steps.  How sessions begin   *)
(* and end is UserIdentity's matter; here they just end.  The catalogue    *)
(* and the industries are published as StockCatalog says: nothing of them  *)
(* is ever removed, but a stock may get another name or profile and be     *)
(* found by other searches than before.  Stocks are ordered by their       *)
(* numbers, in a search and within a moment of the list.                   *)
(*                                                                         *)
(* A list or a search is the walk of a client: it goes on to the next page *)
(* with the cursor it was given, or from as many companies on as it has,   *)
(* and asks again for a page that failed.  A page is the set of its        *)
(* stocks.  Requests that are refused for their form alone are left out.   *)
(***************************************************************************)
EXTENDS Naturals, FiniteSets

CONSTANTS
    TrackedStocks, \* stocks there can be, by their ids
    Industries,    \* industries there can be
    ParentOf,      \* the root of a leaf; Nothing for a root
    Lookups,       \* what can be searched for: a text, filters
    Logins,        \* sessions
    Followers,     \* users
    OwnerOf,       \* session -> its user
    TrackCalls,    \* calls in progress at a time
    PageSizes,     \* bound: page_size asked for
    MaxOffset,     \* the highest offset served
    LastInstant,   \* bound: what now() returns
    Nothing

ASSUME TrackConstants ==
    /\ TrackedStocks \subseteq Nat /\ IsFiniteSet(TrackedStocks)
    /\ ParentOf \in [Industries -> Industries \cup {Nothing}]
    /\ Nothing \notin Industries /\ Nothing \notin Logins /\ Nothing \notin TrackedStocks
    /\ OwnerOf \in [Logins -> Followers]
    /\ PageSizes \subseteq Nat \ {0}
    /\ MaxOffset \in Nat /\ LastInstant \in Nat

\* A leaf of the classification source hangs below a root.
ASSUME TwoLevels ==
    \A x \in Industries : ParentOf[x] # Nothing => ParentOf[ParentOf[x]] = Nothing

VARIABLES
    catalogue,     \* ids of the table stock
    fits,          \* lookup -> the stocks it finds, by their names, profiles and links
    industries,    \* ids of the table s_industry
    addedAt,       \* table user_watchlist: user -> stock -> added_at, 0 without a row
    login,         \* what a session is to the User Service
    trackCall      \* the calls

trackVars == <<catalogue, fits, industries, addedAt, login, trackCall>>

-----------------------------------------------------------------------------
(* State *)

Instants == 1..LastInstant

\* What a cursor encodes: the last row of a page.  Nothing is the empty cursor.
Key == [at : Instants, stock : TrackedStocks]
Cursor == Key \cup {Nothing}

ASSUME CursorConstants == Nothing \notin Key

Outcomes == {"OK", "UNAUTHENTICATED", "USER_DISABLED", "STOCK_NOT_FOUND",
             "TRACKING_UNAVAILABLE", "none"}

Walks == {"list", "search"}

\* The fields from cursor on are those of a walk: how far it is, the page under way,
\* with its cursor and whether it is the last one; the stocks shown, those shown again,
\* and those it has to show, because they were there all the while.
TrackCall == [op : {"none", "add", "remove", "filters"} \cup Walks,
              pc : {"done", "search", "check", "list", "rows", "stocks", "resolve",
                    "write", "filters"},
              token : Logins \cup {Nothing},
              stock : TrackedStocks \cup {Nothing},
              size : PageSizes \cup {0}, lookup : Lookups \cup {Nothing},
              attempt : Nat, outcome : Outcomes, total : Nat,
              cursor : Cursor, more : BOOLEAN,
              items : SUBSET TrackedStocks, next : Cursor, last : BOOLEAN,
              shown : SUBSET TrackedStocks, again : SUBSET TrackedStocks,
              kept : SUBSET TrackedStocks]

NewCall == [op |-> "none", pc |-> "done", token |-> Nothing, stock |-> Nothing,
            size |-> 0, lookup |-> Nothing, attempt |-> 1, outcome |-> "none", total |-> 0,
            cursor |-> Nothing, more |-> TRUE,
            items |-> {}, next |-> Nothing, last |-> FALSE,
            shown |-> {}, again |-> {}, kept |-> {}]

TrackInit ==
    /\ catalogue = {} /\ fits = [l \in Lookups |-> {}] /\ industries = {}
    /\ addedAt = [u \in Followers |-> [s \in TrackedStocks |-> 0]]
    /\ login = [t \in Logins |-> "live"]
    /\ trackCall = [c \in TrackCalls |-> NewCall]

Goes(c, call) == trackCall' = [trackCall EXCEPT ![c] = call]

\* The call ends without a page; the client keeps its walk to ask for the page again.
Ended(call, outcome) ==
    IF call.op \in Walks /\ outcome = "TRACKING_UNAVAILABLE"
    THEN [call EXCEPT !.pc = "done", !.outcome = outcome, !.attempt = 1,
            !.total = 0, !.items = {}, !.next = Nothing, !.last = FALSE]
    ELSE [NewCall EXCEPT !.outcome = outcome]

Ends(c, outcome) == Goes(c, Ended(trackCall[c], outcome))

\* A search goes on behind as many companies as it has shown.
Offset(call) == Cardinality(call.shown)

\* The page under way is answered.
PageShown(call) ==
    [call EXCEPT !.pc = "done", !.outcome = "OK", !.attempt = 1, !.total = 0,
       !.cursor = call.next, !.more = ~call.last,
       !.items = {}, !.next = Nothing, !.last = FALSE,
       !.shown = @ \cup call.items, !.again = @ \cup (call.shown \cap call.items)]

\* The call waits for its next service.
Awaits(c, pc) == Goes(c, [trackCall[c] EXCEPT !.pc = pc, !.attempt = 1])

Tables == <<catalogue, fits, industries, addedAt, login>>

-----------------------------------------------------------------------------
(* The endpoints *)

\* Without a session only a search is served.
Starts(c, call) ==
    /\ trackCall[c].pc = "done"
    /\ Goes(c, IF call.token = Nothing /\ call.op \in {"list", "add", "remove"}
               THEN [NewCall EXCEPT !.outcome = "UNAUTHENTICATED"]
               ELSE call)
    /\ UNCHANGED Tables

StartFilters(c) == Starts(c, [NewCall EXCEPT !.op = "filters", !.pc = "filters"])

StartList(c) ==
    \E t \in Logins \cup {Nothing}, n \in PageSizes :
      Starts(c, [NewCall EXCEPT !.op = "list", !.pc = "list", !.token = t, !.size = n])

StartSearch(c) ==
    \E t \in Logins \cup {Nothing}, n \in PageSizes, l \in Lookups :
      Starts(c, [NewCall EXCEPT !.op = "search", !.pc = "search", !.token = t,
                                !.size = n, !.lookup = l])

\* The session is verified before the stock is looked up, and again by the write.
StartChange(c) ==
    \E t \in Logins \cup {Nothing}, s \in TrackedStocks :
      \/ Starts(c, [NewCall EXCEPT !.op = "add", !.pc = "check", !.token = t, !.stock = s])
      \/ Starts(c, [NewCall EXCEPT !.op = "remove", !.pc = "write", !.token = t, !.stock = s])

\* The client asks for the next page, or once more for the one that failed.
NextPage(c) ==
    /\ trackCall[c].pc = "done" /\ trackCall[c].op \in Walks /\ trackCall[c].more
    /\ Offset(trackCall[c]) <= MaxOffset
    /\ Goes(c, [trackCall[c] EXCEPT !.pc = trackCall[c].op, !.outcome = "none"])
    /\ UNCHANGED Tables

-----------------------------------------------------------------------------
(* The User Service *)

FollowedBy(u) == {s \in TrackedStocks : addedAt[u][s] # 0}

Owner(c) == OwnerOf[trackCall[c].token]

\* Mutant: the user's row is not locked.
Lists_NoLock(u) == {}

\* Calls that hold the row lock of user u: a list between its two statements.
Lists(u) == {c \in TrackCalls : trackCall[c].pc = "rows" /\ Owner(c) = u}

\* The transaction gets its lock.
Admitted(c, pc) == trackCall[c].pc = pc /\ Lists(Owner(c)) = {}

\* What it then makes of the session.
Authorization(t) ==
    CASE login[t] = "live"     -> "OK"
      [] login[t] = "disabled" -> "USER_DISABLED"
      [] OTHER                 -> "UNAUTHENTICATED"

Authorized(c) == Authorization(trackCall[c].token) = "OK"

\* An answer the Backend passes on.
Refused(c) ==
    /\ trackCall[c].pc \in {"check", "list", "write"} /\ Admitted(c, trackCall[c].pc)
    /\ ~Authorized(c)
    /\ Ends(c, Authorization(trackCall[c].token))
    /\ UNCHANGED Tables

\* The service cannot be reached, refuses for another reason, or its answer is lost
\* or has another form; nothing was written.
UserFails(c) ==
    /\ trackCall[c].pc \in {"check", "list", "rows", "write"}
    /\ Ends(c, "TRACKING_UNAVAILABLE")
    /\ UNCHANGED Tables

\* The order of the list: the latest first.
Newer(k, l) == k.at > l.at \/ (k.at = l.at /\ k.stock < l.stock)

KeyOf(u, s) == [at |-> addedAt[u][s], stock |-> s]

RowsAfter(u, cursor) ==
    {s \in FollowedBy(u) : cursor = Nothing \/ Newer(cursor, KeyOf(u, s))}

\* ORDER BY and LIMIT
FirstOf(u, rows, n) ==
    {s \in rows : Cardinality({r \in rows : Newer(KeyOf(u, r), KeyOf(u, s))}) < n}

\* The first statement of a list, behind its lock and authorization: the total.
CountRows(c) ==
    /\ Admitted(c, "list") /\ Authorized(c)
    /\ Goes(c, [trackCall[c] EXCEPT !.pc = "rows",
                                    !.total = Cardinality(FollowedBy(Owner(c)))])
    /\ UNCHANGED Tables

\* What the Backend requires of a page.
Coherent(total, page, size) == Cardinality(page) <= size /\ Cardinality(page) <= total

\* The second statement, which asks for one row more than the page has, and the
\* commit.  The Backend judges the page; an empty one is answered at once.
ReadRows(c) ==
    LET call == trackCall[c]
        u    == Owner(c)
        rows == RowsAfter(u, call.cursor)
        page == FirstOf(u, rows, call.size)
    IN  /\ call.pc = "rows"
        /\ \E next \in {KeyOf(u, s) : s \in page} \cup {Nothing} :
             /\ next = Nothing <=> Cardinality(rows) <= call.size
             /\ next # Nothing => \A s \in page : KeyOf(u, s) = next \/ Newer(KeyOf(u, s), next)
             /\ LET read == [call EXCEPT !.pc = "stocks", !.total = 0, !.items = page,
                               !.next = next, !.last = (next = Nothing),
                               !.kept = IF call.cursor = Nothing THEN FollowedBy(u) ELSE @]
                IN  IF ~Coherent(call.total, page, call.size)
                    THEN Ends(c, "TRACKING_UNAVAILABLE")
                    ELSE Goes(c, IF page = {} THEN PageShown(read) ELSE read)
        /\ UNCHANGED Tables

\* Which of the companies found are followed: they get their mark.  Of a new follow
\* only the session is checked, with no stock.
CheckFollowed(c) ==
    /\ Admitted(c, "check") /\ Authorized(c)
    /\ IF trackCall[c].op = "add" THEN Awaits(c, "resolve")
       ELSE Goes(c, PageShown(trackCall[c]))
    /\ UNCHANGED Tables

\* ON CONFLICT DO NOTHING
Inserted(row, now) == IF row = 0 THEN now ELSE row

\* The walks of user u go on without stock s.
Forgotten(u, s, calls) ==
    [c \in TrackCalls |->
       IF calls[c].op = "list" /\ OwnerOf[calls[c].token] = u
       THEN [calls[c] EXCEPT !.kept = @ \ {s}] ELSE calls[c]]

\* The write, by the clock of the instance that serves it; the answer may be lost.
ChangeRow(c) ==
    LET call == trackCall[c]
        u    == Owner(c)
    IN  /\ Admitted(c, "write") /\ Authorized(c)
        /\ \E now \in Instants, acknowledged \in BOOLEAN :
             LET ended == [trackCall EXCEPT ![c] =
                   [NewCall EXCEPT !.outcome = IF acknowledged THEN "OK"
                                               ELSE "TRACKING_UNAVAILABLE"]]
             IN  IF call.op = "add"
                 THEN /\ addedAt' = [addedAt EXCEPT ![u][call.stock] = Inserted(@, now)]
                      /\ trackCall' = ended
                 ELSE /\ addedAt' = [addedAt EXCEPT ![u][call.stock] = 0]
                      /\ trackCall' = Forgotten(u, call.stock, ended)
        /\ UNCHANGED <<catalogue, fits, industries, login>>

\* A logout or an expiry.
EndLogin(t) ==
    /\ login[t] = "live" /\ login' = [login EXCEPT ![t] = "over"]
    /\ UNCHANGED <<catalogue, fits, industries, addedAt, trackCall>>

\* A user is disabled: an update of the row that is locked.
DisableUser(u) ==
    /\ Lists(u) = {}
    /\ login' = [t \in Logins |-> IF OwnerOf[t] = u /\ login[t] = "live" THEN "disabled"
                                  ELSE login[t]]
    /\ UNCHANGED <<catalogue, fits, industries, addedAt, trackCall>>

-----------------------------------------------------------------------------
(* The Data Service *)

MaxReadAttempts == 2

\* No connection or an answer of 5xx; the others are an answer of 4xx or of another
\* form, a cancellation, and the end of the time that all attempts have together.
Retryable(failure) == failure \in {"connection", "server"}

DataFails(c) ==
    /\ trackCall[c].pc \in {"search", "stocks", "resolve", "filters"}
    /\ \E failure \in {"server", "timeout"} :
         IF Retryable(failure) /\ trackCall[c].attempt < MaxReadAttempts
         THEN Goes(c, [trackCall[c] EXCEPT !.attempt = @ + 1])
         ELSE Ends(c, "TRACKING_UNAVAILABLE")
    /\ UNCHANGED Tables

\* Place of a stock in the order of the search.
Place(s, rows) == Cardinality({r \in rows : r < s})

\* One row more than the page has is asked for: there is none.
IsLast(rows, offset, n) == Cardinality(rows) <= offset + n

SearchStocks(c) ==
    LET call == trackCall[c]
        rows == fits[call.lookup]
        read == [call EXCEPT !.pc = "check", !.attempt = 1,
                   !.items = {s \in rows : Place(s, rows) \in
                                Offset(call) .. (Offset(call) + call.size - 1)},
                   !.last = IsLast(rows, Offset(call), call.size),
                   !.kept = IF call.shown = {} THEN rows ELSE @]
    IN  /\ call.pc = "search"
        /\ Goes(c, IF call.token = Nothing THEN PageShown(read) ELSE read)
        /\ UNCHANGED Tables

\* The stocks with the given ids; those there are.
StocksOf(ids) == ids \cap catalogue

\* A stock to follow is looked up.
ResolveStock(c) ==
    /\ trackCall[c].pc = "resolve"
    /\ IF StocksOf({trackCall[c].stock}) = {trackCall[c].stock}
       THEN Awaits(c, "write") ELSE Ends(c, "STOCK_NOT_FOUND")
    /\ UNCHANGED Tables

\* The stocks of a page of the list; one that is missing fails the page.
ResolvePage(c) ==
    /\ trackCall[c].pc = "stocks"
    /\ IF trackCall[c].items \subseteq StocksOf(trackCall[c].items)
       THEN Goes(c, PageShown(trackCall[c])) ELSE Ends(c, "TRACKING_UNAVAILABLE")
    /\ UNCHANGED Tables

Roots == {x \in industries : ParentOf[x] = Nothing}

\* The industries become a tree: every one that is no root is a child of a root.
FilterOptions(c) ==
    /\ trackCall[c].pc = "filters"
    /\ Ends(c, IF \A x \in industries : ParentOf[x] \in Roots \cup {Nothing}
               THEN "OK" ELSE "TRACKING_UNAVAILABLE")
    /\ UNCHANGED Tables

\* The searches for l go on without stock s; behind one that has shown it, or is about
\* to, the others move up and there is nothing it must show.
Unfound(s, ls) ==
    [c \in TrackCalls |->
       IF trackCall[c].op # "search" \/ trackCall[c].lookup \in ls THEN trackCall[c]
       ELSE [trackCall[c] EXCEPT
               !.kept = IF s \in trackCall[c].shown \cup trackCall[c].items THEN {} ELSE @ \ {s}]]

\* A stock is imported, or gets another name, profile or classification, with the
\* lookups it is found by.
PublishStock(s) ==
    \E ls \in SUBSET Lookups :
        /\ catalogue' = catalogue \cup {s}
        /\ fits' = [l \in Lookups |-> IF l \in ls THEN fits[l] \cup {s} ELSE fits[l] \ {s}]
        /\ trackCall' = Unfound(s, ls)
        /\ UNCHANGED <<industries, addedAt, login>>

\* A classified stock brings its leaf with the root, in one transaction.
PublishIndustry(x) ==
    /\ x \notin industries
    /\ industries' = industries \cup ({x, ParentOf[x]} \ {Nothing})
    /\ UNCHANGED <<catalogue, fits, addedAt, login, trackCall>>

-----------------------------------------------------------------------------
Asked(c) == StartFilters(c) \/ StartList(c) \/ StartSearch(c) \/ StartChange(c) \/ NextPage(c)

ByUserService(c) ==
    \/ Refused(c) \/ UserFails(c) \/ CountRows(c) \/ ReadRows(c)
    \/ CheckFollowed(c) \/ ChangeRow(c)

ByDataService(c) ==
    \/ DataFails(c) \/ SearchStocks(c) \/ ResolveStock(c) \/ ResolvePage(c)
    \/ FilterOptions(c)

TrackNext ==
    \/ \E c \in TrackCalls : Asked(c) \/ ByUserService(c) \/ ByDataService(c)
    \/ \E t \in Logins : EndLogin(t)
    \/ \E u \in Followers : DisableUser(u)
    \/ \E s \in TrackedStocks : PublishStock(s)
    \/ \E x \in Industries : PublishIndustry(x)

TrackSpec == TrackInit /\ [][TrackNext]_trackVars

-----------------------------------------------------------------------------
(* Properties *)

TrackTypeOK ==
    /\ catalogue \in SUBSET TrackedStocks /\ industries \in SUBSET Industries
    /\ fits \in [Lookups -> SUBSET TrackedStocks]
    /\ addedAt \in [Followers -> [TrackedStocks -> Instants \cup {0}]]
    /\ login \in [Logins -> {"live", "over", "disabled"}]
    /\ trackCall \in [TrackCalls -> TrackCall]

\* The stock is at or before the cursor of a walk, or the walk has ended.
Passed(c, s) ==
    \/ ~trackCall[c].more
    \/ trackCall[c].cursor # Nothing /\ ~Newer(trackCall[c].cursor, KeyOf(Owner(c), s))

\* A walk through the private list shows each stock that was followed all the while
\* exactly once, when its cursor passes it, however many follow and unfollow in
\* between, pages fail and are asked for again, or follows are repeated.
WalksAreExact ==
    \A c \in TrackCalls : trackCall[c].op = "list" =>
      \A s \in trackCall[c].kept :
        /\ s \in FollowedBy(Owner(c))
        /\ s \in trackCall[c].shown <=> Passed(c, s)
        /\ s \notin trackCall[c].again

\* A walk through a search leaves out no stock that it found all the while, however
\* many come in and push the others back behind the offset, unless one that it has
\* shown is found no more and the others move up.
SearchesMissNothing ==
    \A c \in TrackCalls : trackCall[c].op = "search" =>
      \A s \in trackCall[c].kept :
        /\ s \in fits[trackCall[c].lookup]
        /\ \/ s \in trackCall[c].shown
           \/ /\ trackCall[c].more
              /\ Place(s, fits[trackCall[c].lookup]) >= Offset(trackCall[c])

\* Nobody's list is refused for what is in it: the two statements agree, and the
\* catalogue has every stock that is followed.
ListsAreServable ==
    /\ \A u \in Followers : FollowedBy(u) \subseteq catalogue
    /\ \A c \in TrackCalls :
         /\ trackCall[c].pc = "rows" => trackCall[c].total = Cardinality(FollowedBy(Owner(c)))
         /\ trackCall[c].pc = "stocks" => trackCall[c].items \subseteq catalogue

\* The filter choices are never refused for the published industries.
FiltersAreServable == \A x \in industries : ParentOf[x] \in industries \cup {Nothing}

\* What users follow can be listed, whole and without repetition, at any time.
WatchlistIsServed ==
    TrackTypeOK /\ WalksAreExact /\ SearchesMissNothing /\ ListsAreServable /\ FiltersAreServable
=============================================================================
