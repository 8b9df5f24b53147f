--------------------------- MODULE MCDataService ---------------------------
(* The parts of the Data Service that share no table, each on a small      *)
(* instance: a behaviour exercises the one that `active' names.            *)
EXTENDS Publication, MCReportContract, MCFactContract, MCSourceRegistry, MCStockCatalog,
        SchemaMigration

VARIABLE active

PlainCites == [content \in Contents |-> {}]

O(apply, target, rebuild) == [apply |-> apply, target |-> target, rebuild |-> rebuild]
MCOrders == {O(FALSE, 0, FALSE), O(TRUE, 0, FALSE), O(TRUE, 1, FALSE),
             O(TRUE, 3, FALSE), O(TRUE, 1, TRUE)}

Parts == {"publication", "contract", "facts", "source", "stock", "migration"}

\* The parts that rest start from one state.
DataInit ==
    /\ active \in Parts
    /\ Init /\ (active # "publication" => version = "new")
    /\ ContractInit /\ (active # "contract" => draft = Empty)
    /\ FactInit /\ (active # "facts" => factDraft = NoFacts)
    /\ SourceInit /\ StockInit
    /\ MigrationInit
    /\ active # "migration" =>
         schemaVersion = Latest /\ \A r \in Runs : migration[r].order = O(FALSE, 0, FALSE)

Only(part) ==
    /\ active = part /\ UNCHANGED active
    /\ part # "publication" => UNCHANGED vars
    /\ part # "contract"    => UNCHANGED contractVars
    /\ part # "facts"       => UNCHANGED factVars
    /\ part # "source"      => UNCHANGED sourceVars
    /\ part # "stock"       => UNCHANGED stockVars
    /\ part # "migration"   => UNCHANGED migrationVars

dataVars == <<active, vars, contractVars, factVars, sourceVars, stockVars, migrationVars>>

DataNext ==
    \/ Only("publication") /\ Next
    \/ Only("contract") /\ ContractNext
    \/ Only("facts") /\ FactNext
    \/ Only("source") /\ SourceNext
    \/ Only("stock") /\ StockNext
    \/ Only("migration") /\ MigrationNext

\* What a call does next, also as the victim of a deadlock.
CallGoesOn(c) ==
    \/ Only("publication") /\ Serve(c)
    \/ Only("source") /\ (LockSources(c) \/ Decide(c))
    \/ Only("stock") /\ (Work(c) \/ (Deadlocked(c) /\ FailPublication(c)))
    \/ Only("migration") /\ MigrationStep(c)

\* What the commands of the Data Service find published stays as it is: stocks
\* for their date, quotes for good, and sources that operators may have edited.
PublishedFactsStay == FactsKeepTheirDate /\ QuotesAreFinal /\ FixedSourcesStay

\* What the Data Service accepts it stores with all it cites, and what it stores can be
\* read again, but for the differences its two ends have: reports, evidence and events.
AcceptedIsKept == StorageIsFaithful /\ FactsAreRead

\* A call waits or works.
InProgress(c) ==
    \/ active = "publication" /\ call[c].pc \notin {"idle"} \cup Ended
    \/ active = "source" /\ sourceCall[c].pc # "idle"
    \/ active = "stock" /\ stockCall[c].pc # "idle"
    \/ active = "migration" /\ migration[c].at \notin {"idle", "done", "killed"}
=============================================================================
