---------------------------- MODULE StockCatalog ----------------------------
(***************************************************************************)
(* The stock catalogue of the Data Service and the four publications that  *)
(* meet on its table: catalogue packages, profile packages, daily quotes   *)
(* and classifications, with the rebuilding of the search index.  Each is  *)
(* one READ COMMITTED transaction, run from its own command, possibly at   *)
(* the same time as the others.                                            *)
(*                                                                         *)
(* What keeps them apart is a mixture of locks of PostgreSQL: an advisory  *)
(* lock of the catalogue writers and another of the classifications, SHARE *)
(* and ROW EXCLUSIVE locks on the table stock, row locks (FOR UPDATE) of   *)
(* the catalogue writers and the key locks that foreign keys take.  They   *)
(* are modelled lock by lock: Blockers says whom a step waits for.         *)
(*                                                                         *)
(* A name stands for the facts of a catalogue row (name, board), a profile *)
(* for the ten profile facts, a date for as_of.  No stock is ever removed.  *)
(***************************************************************************)
EXTENDS Naturals, Sequences, FiniteSets, SequencesExt

CONSTANTS
    Stocks,        \* exchange and code of a stock, which give its id
    Names, Profiles, NoProfile,
    Dates,         \* as_of of the packages, trade dates of the quotes
    Targets,       \* industries, concepts and chains, by id
    StockCalls,    \* publications that can be in progress at a time
    Files          \* what the commands can be given

VARIABLES
    stock,       \* table stock: id -> row
    quotes,      \* table stock_daily_quote: <<stock, date>> -> figures
    classifications, \* the link tables: stock -> targets
    stockCall    \* progress of each publication

stockVars == <<stock, quotes, classifications, stockCall>>

-----------------------------------------------------------------------------
(* Files *)

\* A file declares how many stocks it lists; a quote is given as text, with
\* trailing zeros that the number does not have.
Entry == [stock : Stocks, name : Names, profile : Profiles \cup {NoProfile}]
Text == [stock : Stocks, date : Dates, open : Nat, close : Nat, zeros : Nat]

ASSUME StockConstants ==
    /\ Stocks \subseteq Nat /\ IsFiniteSet(Stocks) /\ Dates \subseteq Nat
    /\ NoProfile \notin Profiles
    /\ \A file \in Files :
         /\ file.kind \in {"catalogue", "profiles", "reindex", "quotes",
                          "classification"}
         /\ file.rows \in Seq(Entry) /\ file.quotes \subseteq Text
         /\ file.targets \in [Stocks -> SUBSET Targets]
         /\ file.date \in Dates /\ file.apply \in BOOLEAN /\ file.total \in Nat

StocksOf(file) == {file.rows[i].stock : i \in DOMAIN file.rows}

\* DecodeCatalog, DecodeProfiles: nothing twice, and as many as declared.
ValidRows(file) ==
    /\ Len(file.rows) = file.total /\ file.total > 0
    /\ Cardinality(StocksOf(file)) = file.total

\* An all-zero day is a suspended stock, whose close is its last price.
Decoded(text) ==
    [status |-> IF text.open = 0 THEN "placeholder" ELSE "observed",
     open |-> text.open, close |-> text.close]

\* ValidateDailyQuote, of the prices that matter here.
ValidQuote(quote) == quote.close > 0

\* DecodeDailyQuotes
ValidQuotes(file) ==
    /\ file.quotes # {}
    /\ \A text \in file.quotes :
         text.stock \in StocksOf(file) /\ ValidQuote(Decoded(text))
    /\ \A t, u \in file.quotes :
         t.stock = u.stock /\ t.date = u.date => t = u

ValidFile(file) ==
    /\ file.kind \in {"catalogue", "profiles"} => ValidRows(file)
    /\ file.kind = "quotes" => ValidRows(file) /\ ValidQuotes(file)

\* Rows in the order of their keys.
InKeyOrder(rows) ==
    [n \in 1 .. Cardinality(rows) |->
       CHOOSE x \in rows : Cardinality({y \in rows : y.stock <= x.stock}) = n]

\* Catalogue rows are written in the order of their keys, profiles as given.
Ordered(file) == IF file.kind = "catalogue" THEN InKeyOrder(Range(file.rows)) ELSE file.rows

-----------------------------------------------------------------------------
(* State *)

Writers == {"catalogue", "profiles", "reindex"}
Readers == {"quotes", "classification"}

\* A writer holds rows exclusively, a reader by their key.
IdleCall == [pc |-> "idle", file |-> CHOOSE file \in Files : TRUE,
             todo |-> <<>>, rows |-> {}, keys |-> {}, table |-> "none",
             written |-> [s \in {} |-> 0]]

StockInit ==
    /\ stock = [s \in {} |-> 0] /\ quotes = [k \in {} |-> 0]
    /\ classifications = [s \in Stocks |-> {}]
    /\ stockCall = [c \in StockCalls |-> IdleCall]

File(c) == stockCall[c].file
Overridden(f, g) == [x \in DOMAIN f \cup DOMAIN g |->
                       IF x \in DOMAIN g THEN g[x] ELSE f[x]]

\* The rows a transaction sees: the committed ones and its own.
Overlay(c) == Overridden(stock, stockCall[c].written)

\* The quotes of a batch that are not stored yet.
QuoteKey(text) == <<text.stock, text.date>>
Pending(c) == {text \in File(c).quotes : QuoteKey(text) \notin DOMAIN quotes}

\* The stocks whose keys an insertion has yet to lock for its foreign keys: the
\* rows of the new quotes, or of the new links.
Unlocked(c) ==
    (IF File(c).kind = "quotes" THEN {text.stock : text \in Pending(c)}
     ELSE {s \in StocksOf(File(c)) : ~(File(c).targets[s] \subseteq classifications[s])})
    \ stockCall[c].keys
NextKey(c) == CHOOSE s \in Unlocked(c) : \A t \in Unlocked(c) : s <= t

-----------------------------------------------------------------------------
(* Locks *)

\* Mutant: the profile publisher does without the advisory lock.
SameLock_NotProfiles(c, d) ==
    \/ {File(c).kind, File(d).kind} \subseteq Writers \ {"profiles"}
    \/ File(c).kind = "classification" /\ File(d).kind = "classification"

\* Advisory lock (533,1) of the writers, and that of the classifications.
SameLock(c, d) ==
    \/ {File(c).kind, File(d).kind} \subseteq Writers
    \/ File(c).kind = "classification" /\ File(d).kind = "classification"

\* The transactions that keep c from its next step.
Blockers(c) ==
    LET step == stockCall[c].pc
        todo == stockCall[c].todo
    IN {d \in StockCalls \ {c} :
          \/ step = "advisory" /\ SameLock(c, d)
             /\ stockCall[d].pc \notin {"idle", "advisory"}
          \/ step = "row" /\ todo # <<>>
             /\ Head(todo).stock \in stockCall[d].rows \cup stockCall[d].keys
          \/ step = "write" /\ stockCall[d].table = "share"
          \/ step = "share" /\ stockCall[d].table = "row exclusive"
          \/ step = "quotes" /\ File(d).kind = "quotes"
             /\ stockCall[d].pc \in {"check", "insert"}
          \/ step = "insert" /\ Unlocked(c) # {}
             /\ NextKey(c) \in stockCall[d].rows}

\* A step of c that had to wait for nobody.
AtStep(c, step) == stockCall[c].pc = step /\ Blockers(c) = {}

Becomes(c, call) == stockCall' = [stockCall EXCEPT ![c] = call]
Tables == <<stock, quotes, classifications>>

\* Rolled back, or committed: every lock is released.
EndCall(c) == Becomes(c, IdleCall)
Refuse(c) == EndCall(c) /\ UNCHANGED Tables

\* A failed connection, a lock timeout, or PostgreSQL breaking a deadlock.
FailPublication(c) == stockCall[c].pc # "idle" /\ Refuse(c)

\* The command decodes and checks its file before the transaction; the stocks
\* of a classification are resolved there as well.
BeginPublication(c) ==
    /\ stockCall[c].pc = "idle"
    /\ \E file \in Files :
         /\ ValidFile(file)
         /\ file.kind = "classification" => StocksOf(file) \subseteq DOMAIN stock
         /\ Becomes(c, [IdleCall EXCEPT !.file = file,
                          !.pc = IF file.kind = "quotes" THEN "share"
                                 ELSE "advisory"])
    /\ UNCHANGED Tables

-----------------------------------------------------------------------------
(* Catalogue, profiles and search index *)

\* Reindex locks every row, in the order of the ids.
Admit(c) ==
    /\ AtStep(c, "advisory")
    /\ Becomes(c, [stockCall[c] EXCEPT
         !.pc = IF File(c).kind \in Writers THEN "row" ELSE "share",
         !.todo = IF File(c).kind = "reindex"
                  THEN InKeyOrder({[stock |-> s] : s \in DOMAIN stock})
                  ELSE IF File(c).kind = "classification" THEN <<>>
                  ELSE Ordered(File(c))])
    /\ UNCHANGED Tables

\* Mutant: a package of the same date may correct names.
ValidateReplacement_SameDate(old, entry, date) == old.asOf <= date

\* ValidateReplacement: neither stale nor contradictory.
ValidateReplacement(old, entry, date) ==
    /\ old.asOf <= date
    /\ old.asOf = date => old.name = entry.name

\* ProfileReplacement: facts of the same date are added, never changed.
ProfileConflict(old, entry, date) ==
    old.asOf = date /\ old.profile \notin {NoProfile, entry.profile}

NextRow(call) == [call EXCEPT !.pc = "row", !.todo = Tail(@)]

\* SELECT ... FOR UPDATE, and the decision taken from the row.
LockRow(c) ==
    /\ AtStep(c, "row") /\ stockCall[c].todo # <<>>
    /\ UNCHANGED Tables
    /\ LET entry == Head(stockCall[c].todo)
           kind == File(c).kind
           date == File(c).date
           old == Overlay(c)[entry.stock]
           locked == [stockCall[c] EXCEPT !.rows = @ \cup {entry.stock}]
       IN IF entry.stock \notin DOMAIN Overlay(c)
          THEN IF kind = "catalogue"
               THEN Becomes(c, [stockCall[c] EXCEPT !.pc = "write"])
               ELSE EndCall(c)
          ELSE IF kind = "reindex"
               THEN Becomes(c, IF Len(locked.todo) > 1 THEN NextRow(locked)
                               ELSE [locked EXCEPT !.pc = "write"])
          ELSE IF \/ ~ValidateReplacement(old, entry, date)
                  \/ kind = "profiles" /\ ProfileConflict(old, entry, date)
               THEN EndCall(c)
          ELSE IF /\ kind = "profiles" /\ old.asOf = date
                  /\ old.profile = entry.profile
               THEN Becomes(c, NextRow(locked))
          ELSE Becomes(c, [locked EXCEPT !.pc = "write"])

\* The row a package leaves; a catalogue package keeps the profile facts.
Replacement(c, entry) ==
    LET old == Overlay(c)[entry.stock]
        new == entry.stock \notin DOMAIN Overlay(c)
    IN IF File(c).kind = "profiles"
       THEN [name |-> entry.name, asOf |-> File(c).date,
             profile |-> entry.profile]
       ELSE [name |-> entry.name, asOf |-> File(c).date,
             profile |-> IF new THEN NoProfile ELSE old.profile]

\* INSERT or UPDATE of the row, under the ROW EXCLUSIVE lock it takes; Reindex
\* writes the search index only.
WriteRow(c) ==
    /\ AtStep(c, "write")
    /\ LET entry == Head(stockCall[c].todo)
       IN Becomes(c, [NextRow(stockCall[c]) EXCEPT
            !.table = "row exclusive",
            !.written = IF File(c).kind = "reindex" THEN @
                        ELSE Overridden(@, [s \in {entry.stock} |->
                                              Replacement(c, entry)])])
    /\ UNCHANGED Tables

CommitRows(c) ==
    /\ AtStep(c, "row") /\ stockCall[c].todo = <<>>
    /\ stock' = Overlay(c) /\ EndCall(c)
    /\ UNCHANGED <<quotes, classifications>>

-----------------------------------------------------------------------------
(* Daily quotes and classifications *)

\* LOCK TABLE stock IN SHARE MODE
ShareStocks(c) ==
    /\ AtStep(c, "share")
    /\ Becomes(c, [stockCall[c] EXCEPT !.table = "share",
         !.pc = IF File(c).kind = "quotes" THEN "quotes" ELSE "check"])
    /\ UNCHANGED Tables

\* LOCK TABLE stock_daily_quote IN SHARE ROW EXCLUSIVE MODE
LockQuotes(c) ==
    /\ AtStep(c, "quotes")
    /\ Becomes(c, [stockCall[c] EXCEPT !.pc = "check"])
    /\ UNCHANGED Tables

\* A stored quote equals the one of the batch, both in canonical decimals.
Agree(text) ==
    QuoteKey(text) \in DOMAIN quotes => Decoded(quotes[QuoteKey(text)]) = Decoded(text)

\* A dry run ends after the checks.  Names of industries, concepts and chains are
\* not told apart: one that is stored under another identity may refuse any
\* classification.
Check(c) ==
    /\ AtStep(c, "check")
    /\ \/ /\ StocksOf(File(c)) \subseteq DOMAIN stock
          /\ File(c).kind = "quotes" => \A text \in File(c).quotes : Agree(text)
          /\ File(c).apply
          /\ Becomes(c, [stockCall[c] EXCEPT !.pc = "insert"])
       \/ /\ \/ File(c).kind = "classification" \/ ~(StocksOf(File(c)) \subseteq DOMAIN stock)
             \/ ~File(c).apply \/ \E text \in File(c).quotes : ~Agree(text)
          /\ EndCall(c)
    /\ UNCHANGED Tables

\* The foreign key of one new row locks the key of its stock.
LockKey(c) ==
    /\ AtStep(c, "insert") /\ Unlocked(c) # {}
    /\ Becomes(c, [stockCall[c] EXCEPT !.keys = @ \cup {NextKey(c)}])
    /\ UNCHANGED Tables

\* The column stores six decimals.
Figures(text) == [open |-> text.open, close |-> text.close, zeros |-> 6]

CommitQuotes(c) ==
    /\ AtStep(c, "insert") /\ Unlocked(c) = {} /\ File(c).kind = "quotes"
    /\ quotes' = Overridden([k \in {QuoteKey(text) : text \in Pending(c)} |->
                   Figures(CHOOSE text \in Pending(c) : QuoteKey(text) = k)], quotes)
    /\ EndCall(c)
    /\ UNCHANGED <<stock, classifications>>

\* The links of the stocks of the file are replaced, those of others kept.
CommitLinks(c) ==
    /\ AtStep(c, "insert") /\ Unlocked(c) = {} /\ File(c).kind = "classification"
    /\ classifications' = [s \in Stocks |-> IF s \in StocksOf(File(c))
                                  THEN File(c).targets[s] ELSE classifications[s]]
    /\ EndCall(c)
    /\ UNCHANGED <<stock, quotes>>

-----------------------------------------------------------------------------
(* Specification *)

Work(c) ==
    \/ Admit(c) \/ LockRow(c) \/ WriteRow(c) \/ CommitRows(c)
    \/ ShareStocks(c) \/ LockQuotes(c) \/ Check(c) \/ LockKey(c)
    \/ CommitQuotes(c) \/ CommitLinks(c)

StockNext ==
    \E c \in StockCalls : BeginPublication(c) \/ Work(c) \/ FailPublication(c)

Deadlocked(c) == \E d \in Blockers(c) : c \in Blockers(d)

\* Locks are granted in the order they were asked for, statements go on, and
\* the detector of PostgreSQL breaks a deadlock.
StockSpec ==
    /\ StockInit /\ [][StockNext]_stockVars
    /\ \A c \in StockCalls :
        /\ SF_stockVars(Work(c))
        /\ WF_stockVars(Deadlocked(c) /\ FailPublication(c))

-----------------------------------------------------------------------------
(* Properties *)

StockRow == [name : Names, asOf : Dates, profile : Profiles \cup {NoProfile}]

StockTypeOK ==
    /\ DOMAIN stock \subseteq Stocks
    /\ \A s \in DOMAIN stock : stock[s] \in StockRow
    /\ \A k \in DOMAIN quotes : ValidQuote(Decoded(quotes[k]))
    /\ classifications \in [Stocks -> SUBSET Targets]

\* The date of a stock never goes back, and what was published for a date is
\* not changed by another package of the same date, whichever packages race.
FactsKeepTheirDate ==
    [][\A s \in DOMAIN stock :
         /\ s \in DOMAIN stock' /\ stock'[s].asOf >= stock[s].asOf
         /\ stock'[s].asOf = stock[s].asOf =>
              /\ stock'[s].name = stock[s].name
              /\ stock[s].profile \in {NoProfile, stock'[s].profile}]_stockVars

\* A stored quote is final, its stock exists, and a batch of known stocks that is
\* sent again in any notation, for instance after its answer was lost, meets no
\* conflict.
QuotesAreFinal ==
    [][/\ \A k \in DOMAIN quotes :
            k[1] \in DOMAIN stock /\ k \in DOMAIN quotes'
            /\ quotes'[k] = quotes[k]
       /\ \A c \in StockCalls :
            /\ stockCall[c].pc = "check" /\ File(c).kind = "quotes"
            /\ StocksOf(File(c)) \subseteq DOMAIN stock
            /\ File(c).apply /\ Check(c)
            /\ \A text \in File(c).quotes : QuoteKey(text) \in DOMAIN quotes
                  /\ quotes[QuoteKey(text)].open = text.open
                  /\ quotes[QuoteKey(text)].close = text.close
            => stockCall'[c].pc = "insert"]_stockVars

\* Only a writer that has locked rows and written none can be in a deadlock, and
\* only with a reader that inserts: two writers, two readers and a writer that
\* has written are kept apart by their locks.  Stored rows keep their shape.
DeadlocksNeedAnUnwrittenRow ==
    StockTypeOK /\ \A c, d \in StockCalls : c \in Blockers(d) /\ d \in Blockers(c) =>
        \E w \in {c, d} :
            /\ File(w).kind \in Writers /\ stockCall[w].table = "none"
            /\ \A r \in {c, d} \ {w} : File(r).kind \in Readers
=============================================================================
