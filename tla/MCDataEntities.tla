--------------------------- MODULE MCDataEntities ---------------------------
(* The entities of the Data Service, their catalogues and the research graph *)
(* over them.  A behaviour exercises the part that `active' names.  Parts do  *)
(* share tables: the graph reads what the others write, and has those writes  *)
(* as actions of its own; a catalogue of companies locks the industries and   *)
(* the like, whose creations are calls of the company part as well.  Other    *)
(* waits between parts are left out.                                          *)
EXTENDS MCResearchGraph, MCEntityRegistry, MCCompanyCatalog, MCStorylineCatalog,
        MCPlaceCatalog

CONSTANT Parts     \* those that the behaviours exercise

ASSUME PartNames ==
    Parts \subseteq {"graph", "industries", "plain", "company", "storyline", "place"}

VARIABLE active

entitiesVars == <<active, graphVars, registryVars, companyVars, storyVars, placeVars>>

\* The parts that rest start from one state.
EntitiesInit ==
    /\ active \in Parts
    /\ GraphInit /\ RegistryInit /\ CompanyInit /\ StoryInit /\ PlaceInit
    /\ active # "company" => company = [k \in CompanyCodes |-> NoCompany]
    /\ active # "storyline" => storyKind = "macroeconomic" /\ storyline = NoRows(StoryIds, NoStory)

Only(part) ==
    /\ active = part /\ UNCHANGED active
    /\ part # "graph"     => UNCHANGED graphVars
    /\ part \notin {"industries", "plain"} => UNCHANGED registryVars
    /\ part # "company"   => UNCHANGED companyVars
    /\ part # "storyline" => UNCHANGED storyVars
    /\ part # "place"     => UNCHANGED placeVars

EntitiesNext ==
    \/ Only("graph") /\ GraphNext
    \/ Only("industries") /\ (IndustryNext \/ ReadPage)
    \/ Only("plain") /\ (PlainNext \/ ReadPage)
    \/ Only("company") /\ CompanyNext
    \/ Only("storyline") /\ StoryNext
    \/ Only("place") /\ PlaceNext

\* What a call does next: its steps and, in a deadlock, its failure.
CallGoesOn(c) ==
    \/ Only("industries") /\ (EditStep(c) \/ BreakDeadlock(c))
    \/ Only("company") /\ (CompanyStep(c) \/ BreakTableDeadlock(c))
    \/ Only("storyline") /\ (StoryCallStep(c) \/ BreakStoryDeadlock(c))
    \/ Only("place") /\ (PlaceCallStep(c) \/ BreakPlaceDeadlock(c))

\* Every statement is executed, every lock is granted to some call that waits
\* for it, and to each in turn; PostgreSQL breaks deadlocks.
EntitiesSpec ==
    /\ EntitiesInit /\ [][EntitiesNext]_entitiesVars
    /\ \A c \in EntityCalls : SF_entitiesVars(CallGoesOn(c))

\* Whatever operators and releases write at once, every industry is found
\* under its parent and every stored entity can be read: paths, links of
\* companies, domains of storylines, tags and memberships of organizations; a
\* listing shows what stays where it is once; and calls wait for each other
\* only where they are about one family of industries, a catalogue, two names or
\* the rows of a release.  (The parts that rest are as they were.)
EntitiesAreConsistent ==
    CASE active = "graph" -> GraphTypeOK
      [] active \in {"industries", "plain"} ->
           EntityTypeOK /\ HierarchyIsConsistent /\ ListingIsExact /\ OnlyFamiliesDeadlock
      [] active = "company" ->
           CompanyTypeOK /\ CompaniesAreConsistent /\ ConflictsAreLinks /\ OnlyCatalogsDeadlock
      [] active = "storyline" ->
           StoryTypeOK /\ StorylinesStayReadable /\ ReplayChangesNothing /\ OnlyRenamesDeadlock
      [] active = "place" -> PlaceTypeOK /\ PlacesAreConsistent /\ OnlyReleasesDeadlock

InProgress(c) ==
    \/ active = "industries" /\ entityCall[c].pc \notin {"idle", "done"}
    \/ active = "company" /\ companyCall[c].pc \notin {"idle", "done"}
    \/ active = "storyline" /\ storyCall[c].pc \notin {"idle", "done"}
    \/ active = "place" /\ placeCall[c].pc \notin {"idle", "done"}

\* Every edit and every publication ends, also when it waits for rows and
\* tables that others hold, or for one that waits for it.  Calls are
\* interchangeable, so that it is checked for one of them.
EveryEntityCallEnds ==
    LET c == CHOOSE c \in EntityCalls : TRUE
    IN  InProgress(c) ~> ~InProgress(c)
=============================================================================
