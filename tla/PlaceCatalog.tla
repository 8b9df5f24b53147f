---------------------------- MODULE PlaceCatalog ----------------------------
(* Regions, countries and organizations: a region catalogue that replaces   *)
(* all regions, the catalogue of categories, functions and tags that a       *)
(* release brings with it, and calls of operators on countries, organizations *)
(* and memberships.  Foreign keys of tags are checked at the commit.         *)
EXTENDS Integers, Sequences, FiniteSets

CONSTANTS
    RegionCodes, CountryIds, PlaceTexts,
    OrganizationIds, CategoryCodes, FunctionCodes, TagCodes,
    OrganizationFiles,              \* what the releases publish
    RowRank,                        \* the order that the lists of a release keep
    MemberIds, LastDay,             \* memberships have first and last days
    PlaceOrders,                    \* the calls that may be asked
    FirstPlaces,                    \* what is stored at first
    PlaceCalls, MaxPlaceWrites

NoText == "none"
NoOrganization == [region |-> "none", category |-> "none", function |-> "none"]
NoMember == [organization |-> "none", country |-> "none", from |-> 0, till |-> 0]
KeepTags == <<"keep">>
Day == 1 .. LastDay

ASSUME PlaceConstants ==
    /\ LastDay \in Nat /\ MaxPlaceWrites \in Nat
    /\ NoText \notin PlaceTexts \cup RegionCodes \cup FunctionCodes
    /\ "keep" \notin TagCodes

VARIABLES
    region,          \* the stored codes
    country,         \* the facts of each country
    regionLink,      \* pairs of a country and a region
    catalog,         \* categories, functions, and the function of each tag
    organization,
    tagLink,         \* an organization, its function, one of its tags
    member,
    placeCall,
    placeWrites

placeTables == <<region, country, regionLink, catalog, organization, tagLink, member>>
placeVars == <<placeTables, placeCall, placeWrites>>

Countries == {k \in CountryIds : country[k] # NoText}
Organizations == {o \in OrganizationIds : organization[o] # NoOrganization}
Members == {m \in MemberIds : member[m] # NoMember}
TagsOf(file) == {t \in TagCodes : file.tag[t] # NoText}
CatalogCodes(file) == file.categories \cup file.functions
FileCodes(file) == CatalogCodes(file) \cup TagsOf(file)

FileRow == [categories : SUBSET CategoryCodes, functions : SUBSET FunctionCodes,
            tag : [TagCodes -> FunctionCodes \cup {NoText}]]
OrganizationRow == [region : RegionCodes \cup {NoText}, category : CategoryCodes,
                    function : FunctionCodes]

\* Codes are the names of rows: those of different tables differ.  Every release
\* lists its categories and then its functions in one order, and two releases
\* have a code in common, so that one waits for the other.
ASSUME ReleasedFiles ==
    /\ OrganizationFiles \subseteq FileRow
    /\ CategoryCodes \cap FunctionCodes = {} /\ (CategoryCodes \cup FunctionCodes) \cap TagCodes = {}
    /\ \A f, g \in OrganizationFiles : CatalogCodes(f) \cap CatalogCodes(g) # {}
    /\ RowRank \in [CategoryCodes \cup FunctionCodes \cup TagCodes -> Nat]
    /\ \A k \in CategoryCodes, f \in FunctionCodes : RowRank[k] < RowRank[f]

\* The fields of the calls, as the requests have them.
ASSUME PlaceOrderFields ==
    \A order \in PlaceOrders :
        /\ order.kind = "publish regions" => order.codes \subseteq RegionCodes
        /\ order.kind = "create region" => order.code \in RegionCodes
        /\ order.kind \in {"create country", "update country"} => order.text \in PlaceTexts
        /\ order.kind \in {"update country", "replace regions"} => order.id \in CountryIds
        /\ order.kind = "replace regions" => order.regions \subseteq RegionCodes
        /\ order.kind = "publish catalog" => order.file \in OrganizationFiles
        /\ order.kind \in {"create organization", "update organization"} =>
             /\ order.region \in RegionCodes \cup {NoText}
             /\ order.category \in CategoryCodes /\ order.function \in FunctionCodes
        /\ order.kind \in {"update organization", "replace tags"} => order.id \in OrganizationIds
        /\ order.kind = "update organization" => order.tags = KeepTags \/ order.tags \in Seq(TagCodes)
        /\ order.kind = "replace tags" => order.tags \in Seq(TagCodes)
        /\ order.kind \in {"create member", "update member"} =>
             /\ order.organization \in OrganizationIds /\ order.country \in CountryIds
             /\ order.from \in 0 .. LastDay /\ order.till \in 1 .. LastDay + 1
        /\ order.kind \in {"update member", "delete member"} =>
             order.id \in MemberIds /\ order.organization \in OrganizationIds

\* What is stored at first has the catalogue of a release, and what it refers to.
ASSUME FirstPlacesAreConsistent ==
    \A first \in FirstPlaces :
        /\ first.region \subseteq RegionCodes /\ first.catalog \in OrganizationFiles
        /\ first.country \in [CountryIds -> PlaceTexts \cup {NoText}]
        /\ first.regionLink \subseteq {k \in CountryIds : first.country[k] # NoText} \X first.region
        /\ first.organization \in [OrganizationIds -> OrganizationRow \cup {NoOrganization}]
        /\ \A o \in OrganizationIds : first.organization[o] # NoOrganization =>
             /\ first.organization[o].region \in first.region \cup {NoText}
             /\ first.organization[o].category \in first.catalog.categories
             /\ first.organization[o].function \in first.catalog.functions
        /\ \A l \in first.tagLink :
             /\ l.organization \in OrganizationIds /\ l.tag \in TagCodes
             /\ first.organization[l.organization] # NoOrganization
             /\ l.function = first.organization[l.organization].function
             /\ l.function = first.catalog.tag[l.tag]

IdlePlaceCall == [pc |-> "idle", order |-> [kind |-> "none"], held |-> {}, drop |-> {},
                  id |-> "none", out |-> "none"]
PlaceOrder(c) == placeCall[c].order
PlaceStep(c, call) == placeCall' = [placeCall EXCEPT ![c] = call]

PlaceEnds(c, out) ==
    PlaceStep(c, [IdlePlaceCall EXCEPT !.pc = "done", !.out = out])
AtStep(c, pc, kind) == placeCall[c].pc = pc /\ PlaceOrder(c).kind = kind
Under(pc, kind) == {c \in PlaceCalls : AtStep(c, pc, kind)}

\* validateMember: a membership does not end before it begins.  A day without
\* limit is 0, or the one after the last.
ValidOrder(order) ==
    order.kind \in {"create member", "update member"} => order.from <= order.till

\* Bound: rows are only created while an identity is left for them.
IdentityLeftFor(order) ==
    LET others == {c \in PlaceCalls : PlaceOrder(c).kind = order.kind} IN
    /\ order.kind = "create country" => Cardinality(others) < Cardinality(CountryIds \ Countries)
    /\ order.kind = "create organization" =>
         Cardinality(others) < Cardinality(OrganizationIds \ Organizations)
    /\ order.kind = "create member" => Cardinality(others) < Cardinality(MemberIds \ Members)

BeginPlaceCall(c, order) ==
    /\ placeCall[c].pc \in {"idle", "done"} /\ IdentityLeftFor(order)
    /\ placeWrites < MaxPlaceWrites /\ placeWrites' = placeWrites + 1
    /\ IF ValidOrder(order) THEN PlaceStep(c, [IdlePlaceCall EXCEPT !.pc = "first", !.order = order])
       ELSE PlaceEnds(c, "invalid")
    /\ UNCHANGED placeTables

-----------------------------------------------------------------------------
(* What a call waits for: locks that other calls hold until they end.        *)

ReadsRegions == Under("links", "replace regions")
WritesOrganization == Under("commit", "update organization") \cup Under("commit", "replace tags")
PublishesCatalog == Under("deletes", "publish catalog") \cup Under("commit", "publish catalog")

\* The rows of a country and of an organization that a call has locked.
HoldsCountry(d, k) == d \in ReadsRegions /\ PlaceOrder(d).id = k
HoldsOrganization(d, o) == d \in WritesOrganization /\ PlaceOrder(d).id = o

\* A changed function is a changed key: references to the row wait as well.
ChangesFunction(d) ==
    \/ AtStep(d, "commit", "replace tags")
    \/ /\ AtStep(d, "commit", "update organization")
       /\ PlaceOrder(d).function # organization[PlaceOrder(d).id].function

\* A release lists categories, then functions, then tags by their function.
ComesBefore(file, a, b) ==
    \/ a \notin TagCodes /\ (b \notin TagCodes => RowRank[a] < RowRank[b])
    \/ /\ a \in TagCodes /\ b \in TagCodes
       /\ \/ RowRank[file.tag[a]] < RowRank[file.tag[b]]
          \/ file.tag[a] = file.tag[b] /\ RowRank[a] < RowRank[b]

\* The row that a release upserts next, and the tag that the commit of a writer
\* refers to next: links are in the order of the request.
NextRow(c) ==
    LET left == FileCodes(PlaceOrder(c).file) \ placeCall[c].held
    IN  {a \in left : \A b \in left \ {a} : ComesBefore(PlaceOrder(c).file, a, b)}

AskedTags(order) == {order.tags[n] : n \in DOMAIN order.tags}
TagsLeft(c) ==
    IF PlaceOrder(c).tags = KeepTags THEN {} ELSE AskedTags(PlaceOrder(c)) \ placeCall[c].held
NextTag(c) ==
    LET tags == PlaceOrder(c).tags
    IN  {tags[n] : n \in {m \in DOMAIN tags : /\ tags[m] \in TagsLeft(c)
                                            /\ \A k \in 1 .. m - 1 : tags[k] \notin TagsLeft(c)}}

\* An upsert locks the row whether it changes it or not, and that of a tag
\* against references as well, since its function is part of a key.
Locks(d, codes) == placeCall[d].held \cap codes # {}
LocksInRelease(d, codes) == PlaceOrder(d).kind = "publish catalog" /\ Locks(d, codes)

\* The codes that a publication deletes, and the tags that it moves to another
\* function.
DroppedCodes(c) == FileCodes(catalog) \ FileCodes(PlaceOrder(c).file)
MovedTags(c) ==
    {t \in TagsOf(catalog) \cap TagsOf(PlaceOrder(c).file) : catalog.tag[t] # PlaceOrder(c).file.tag[t]}

\* Deletions wait for a row that begins to refer to the code, or that is
\* about to be changed and refers to it now.
RefersTo(d, codes) ==
    LET o == PlaceOrder(d).id IN
    \/ /\ AtStep(d, "commit", "update organization")
       /\ \/ {PlaceOrder(d).category, PlaceOrder(d).function} \cap codes # {}
          \/ /\ ChangesFunction(d)
             /\ {organization[o].category, organization[o].function} \cap codes # {}
    \/ d \in WritesOrganization /\ \E l \in placeCall[d].drop : l.tag \in codes

\* References and upserts wait for a publication that has deleted the code.
Removes(d, codes) == AtStep(d, "commit", "publish catalog") /\ placeCall[d].drop \cap codes # {}

-----------------------------------------------------------------------------
(* Memberships that overlap.                                                 *)

SameParties(m, n) == m.organization = n.organization /\ m.country = n.country

\* The exclusion constraint is over closed ranges of days.
DatesOverlap(m, n) == SameParties(m, n) /\ m.from <= n.till /\ n.from <= m.till

AskedMember(c) == [organization |-> PlaceOrder(c).organization, country |-> PlaceOrder(c).country,
                   from |-> PlaceOrder(c).from, till |-> PlaceOrder(c).till]
HoldsMember(d, m) == placeCall[d].pc = "check" /\ placeCall[d].id = m

\* The check of a statement waits for entries that are not committed, and for
\* rows that are being changed.
OverlapUndecided(c, d) ==
    /\ placeCall[d].pc = "check"
    /\ \/ DatesOverlap(AskedMember(d), AskedMember(c))
       \/ placeCall[d].id \in Members /\ DatesOverlap(member[placeCall[d].id], AskedMember(c))

Waits(c, d) ==
    LET order == PlaceOrder(c) IN
    CASE AtStep(c, "first", "publish regions") ->
           d \in ReadsRegions \/ (AtStep(d, "commit", "update organization") /\ PlaceOrder(d).region # NoText)
      [] AtStep(c, "first", "update country") -> HoldsCountry(d, order.id)
      [] AtStep(c, "first", "replace regions") -> HoldsCountry(d, order.id)
      [] AtStep(c, "first", "publish catalog") -> Locks(d, NextRow(c)) \/ Removes(d, NextRow(c))
      [] AtStep(c, "deletes", "publish catalog") ->
           RefersTo(d, DroppedCodes(c)) \/ Locks(d, DroppedCodes(c))
      [] AtStep(c, "commit", "publish catalog") ->
           d \in WritesOrganization /\ \E l \in placeCall[d].drop : l.tag \in MovedTags(c)
      [] AtStep(c, "first", "create organization") -> Removes(d, {order.category, order.function})
      [] AtStep(c, "first", "update organization") ->
           HoldsOrganization(d, order.id) \/ Removes(d, {order.category, order.function})
      [] AtStep(c, "first", "replace tags") -> HoldsOrganization(d, order.id)
      [] c \in WritesOrganization -> LocksInRelease(d, NextTag(c)) \/ Removes(d, NextTag(c))
      [] placeCall[c].pc = "first" /\ order.kind \in {"update member", "delete member"} ->
           HoldsMember(d, order.id)
      [] placeCall[c].pc = "check" ->
           \/ OverlapUndecided(c, d) \/ HoldsCountry(d, order.country)
           \/ HoldsOrganization(d, order.organization) /\ ChangesFunction(d)
      [] OTHER -> FALSE

WaitsFor(c) == {d \in PlaceCalls \ {c} : Waits(c, d)}

\* Two calls that wait for each other: the database fails one of them.
PlaceDeadlock(c) == {d \in WaitsFor(c) : c \in WaitsFor(d)}

BreakPlaceDeadlock(c) ==
    /\ PlaceDeadlock(c) # {} /\ PlaceEnds(c, "failed")
    /\ UNCHANGED <<placeTables, placeWrites>>

-----------------------------------------------------------------------------
(* Regions and countries.                                                    *)

\* The whole set under an exclusive lock; a region that is referred to makes
\* it fail, also one that would be inserted again.
PublishRegions(c) ==
    /\ AtStep(c, "first", "publish regions") /\ WaitsFor(c) = {}
    /\ IF \/ \E p \in regionLink : p[2] \in region
          \/ \E o \in Organizations : organization[o].region \in region
       THEN PlaceEnds(c, "failed") /\ UNCHANGED region
       ELSE PlaceEnds(c, "done") /\ region' = PlaceOrder(c).codes
    /\ UNCHANGED <<country, regionLink, catalog, organization, tagLink, member, placeWrites>>

\* Store.Create derives the identity from the code.
CreateRegion(c) ==
    /\ AtStep(c, "first", "create region")
    /\ PlaceEnds(c, IF PlaceOrder(c).code \in region THEN "conflict" ELSE "done")
    /\ region' = region \cup {PlaceOrder(c).code}
    /\ UNCHANGED <<country, regionLink, catalog, organization, tagLink, member, placeWrites>>

\* Codes are unique; one that is stored may have the code.
CreateCountry(c) ==
    /\ AtStep(c, "first", "create country")
    /\ \/ Countries # {} /\ PlaceEnds(c, "conflict") /\ UNCHANGED country
       \/ /\ \E k \in CountryIds \ Countries : country' = [country EXCEPT ![k] = PlaceOrder(c).text]
          /\ PlaceEnds(c, "done")
    /\ UNCHANGED <<region, regionLink, catalog, organization, tagLink, member, placeWrites>>

UpdateCountry(c) ==
    LET k == PlaceOrder(c).id IN
    /\ AtStep(c, "first", "update country") /\ WaitsFor(c) = {}
    /\ IF k \in Countries
       THEN PlaceEnds(c, "done") /\ country' = [country EXCEPT ![k] = PlaceOrder(c).text]
       ELSE PlaceEnds(c, "not found") /\ UNCHANGED country
    /\ UNCHANGED <<region, regionLink, catalog, organization, tagLink, member, placeWrites>>

\* ReplaceRegions locks the country and counts the regions ...
ReadRegions(c) ==
    LET k == PlaceOrder(c).id IN
    /\ AtStep(c, "first", "replace regions") /\ WaitsFor(c) = {}
    /\ CASE k \notin Countries -> PlaceEnds(c, "not found")
         [] k \in Countries /\ ~(PlaceOrder(c).regions \subseteq region) -> PlaceEnds(c, "reference")
         [] OTHER -> PlaceStep(c, [placeCall[c] EXCEPT !.pc = "links",
                       !.drop = {p \in regionLink : p[1] = k /\ p[2] \notin PlaceOrder(c).regions}])
    /\ UNCHANGED <<placeTables, placeWrites>>

\* ... and replaces the links.
ReplaceRegions(c) ==
    /\ AtStep(c, "links", "replace regions") /\ PlaceEnds(c, "done")
    /\ regionLink' = (regionLink \ placeCall[c].drop)
                       \cup {<<PlaceOrder(c).id, r>> : r \in PlaceOrder(c).regions}
    /\ UNCHANGED <<region, country, catalog, organization, tagLink, member, placeWrites>>

-----------------------------------------------------------------------------
(* The catalogue of organizations.                                           *)

\* The file is upserted row by row; names that change are left out.
UpsertCatalog(c) ==
    /\ AtStep(c, "first", "publish catalog") /\ WaitsFor(c) = {}
    /\ \E code \in NextRow(c) :
         LET held == placeCall[c].held \cup {code}
         IN  PlaceStep(c, [placeCall[c] EXCEPT !.held = held,
                             !.pc = IF held = FileCodes(PlaceOrder(c).file) THEN "deletes" ELSE @])
    /\ UNCHANGED <<placeTables, placeWrites>>

\* Codes that are not in the file are deleted, of those that are committed now.
DeleteCatalogCodes(c) ==
    LET file == PlaceOrder(c).file IN
    /\ AtStep(c, "deletes", "publish catalog") /\ WaitsFor(c) = {}
    /\ IF \/ \E o \in Organizations : {organization[o].category, organization[o].function}
                                         \cap DroppedCodes(c) # {}
          \/ \E l \in tagLink : l.tag \in DroppedCodes(c)
       THEN PlaceEnds(c, "failed")
       ELSE PlaceStep(c, [placeCall[c] EXCEPT !.pc = "commit", !.drop = DroppedCodes(c)])
    /\ UNCHANGED <<placeTables, placeWrites>>

\* A tag that moves to another function is a key that changes: links that have
\* the key make the commit fail.
CommitCatalog(c) ==
    LET file == PlaceOrder(c).file
        drop == placeCall[c].drop
    IN  /\ AtStep(c, "commit", "publish catalog") /\ WaitsFor(c) = {}
        /\ IF \E l \in tagLink : l.tag \in MovedTags(c)
           THEN PlaceEnds(c, "failed") /\ UNCHANGED catalog
           ELSE /\ PlaceEnds(c, "done")
                /\ catalog' = [categories |-> (catalog.categories \ drop) \cup file.categories,
                               functions |-> (catalog.functions \ drop) \cup file.functions,
                               tag |-> [t \in TagCodes |->
                                          CASE t \in TagsOf(file) -> file.tag[t]
                                            [] t \in drop \ TagsOf(file) -> NoText
                                            [] OTHER -> catalog.tag[t]]]
        /\ UNCHANGED <<region, country, regionLink, organization, tagLink, member, placeWrites>>

-----------------------------------------------------------------------------
(* Organizations.                                                            *)

\* What a row refers to, as the statement that writes it finds it.
ReferencesExist(order) ==
    /\ order.region \in region \cup {NoText}
    /\ order.category \in catalog.categories /\ order.function \in catalog.functions

CreateOrganization(c) ==
    /\ AtStep(c, "first", "create organization") /\ WaitsFor(c) = {}
    /\ \/ Organizations # {} /\ PlaceEnds(c, "conflict") /\ UNCHANGED organization
       \/ ~ReferencesExist(PlaceOrder(c)) /\ PlaceEnds(c, "reference") /\ UNCHANGED organization
       \/ /\ ReferencesExist(PlaceOrder(c)) /\ PlaceEnds(c, "done")
          /\ \E o \in OrganizationIds \ Organizations :
               organization' = [organization EXCEPT ![o] =
                 [region |-> PlaceOrder(c).region, category |-> PlaceOrder(c).category,
                  function |-> PlaceOrder(c).function]]
    /\ UNCHANGED <<region, country, regionLink, catalog, tagLink, member, placeWrites>>

\* The tags that are asked for exist and belong to the function.
TagsBelong(tags, function) == \A t \in tags : catalog.tag[t] = function

\* Update locks the row; without tags in the request the links stay.
WriteOrganization(c) ==
    LET o == PlaceOrder(c).id
        tags == PlaceOrder(c).tags
    IN  /\ AtStep(c, "first", "update organization") /\ WaitsFor(c) = {}
        /\ CASE o \notin Organizations -> PlaceEnds(c, "not found")
             [] o \in Organizations /\ ~ReferencesExist(PlaceOrder(c)) -> PlaceEnds(c, "reference")
             [] o \in Organizations /\ ReferencesExist(PlaceOrder(c))
                  /\ tags # KeepTags /\ ~TagsBelong(AskedTags(PlaceOrder(c)), PlaceOrder(c).function) ->
                  PlaceEnds(c, "reference")
             [] OTHER -> PlaceStep(c, [placeCall[c] EXCEPT !.pc = "commit",
                           !.drop = IF tags = KeepTags THEN {}
                                    ELSE {l \in tagLink : l.organization = o}])
        /\ UNCHANGED <<placeTables, placeWrites>>

\* ReplaceDomainTags locks the row to read the function.
ReadFunction(c) ==
    LET o == PlaceOrder(c).id IN
    /\ AtStep(c, "first", "replace tags") /\ WaitsFor(c) = {}
    /\ CASE o \notin Organizations -> PlaceEnds(c, "not found")
         [] o \in Organizations /\ ~TagsBelong(AskedTags(PlaceOrder(c)), organization[o].function) ->
              PlaceEnds(c, "reference")
         [] OTHER -> PlaceStep(c, [placeCall[c] EXCEPT !.pc = "commit",
                       !.drop = {l \in tagLink : l.organization = o}])
    /\ UNCHANGED <<placeTables, placeWrites>>

\* The deferred keys: a link has the function of its organization and its tag.
LinksAgree(links, rows) ==
    \A l \in links : rows[l.organization].function = l.function /\ catalog.tag[l.tag] = l.function

\* The row that a writer leaves.
WrittenRow(c) ==
    LET order == PlaceOrder(c) IN
    IF order.kind = "replace tags" THEN organization[order.id]
    ELSE [region |-> order.region, category |-> order.category, function |-> order.function]

\* They are checked at the commit, link by link, and lock the tags.
ShareTag(c) ==
    /\ c \in WritesOrganization /\ WaitsFor(c) = {}
    /\ \E tag \in NextTag(c) :
         IF catalog.tag[tag] = WrittenRow(c).function
         THEN PlaceStep(c, [placeCall[c] EXCEPT !.held = @ \cup {tag}])
         ELSE PlaceEnds(c, "reference")
    /\ UNCHANGED <<placeTables, placeWrites>>

CommitOrganization(c) ==
    LET order == PlaceOrder(c)
        o == order.id
        row == WrittenRow(c)
        rows == [organization EXCEPT ![o] = row]
        links == (tagLink \ placeCall[c].drop) \cup
                   IF order.tags = KeepTags THEN {}
                   ELSE {[organization |-> o, function |-> row.function, tag |-> t] : t \in AskedTags(order)}
    IN  /\ c \in WritesOrganization /\ TagsLeft(c) = {}
        /\ IF LinksAgree(links, rows)
           THEN PlaceEnds(c, "done") /\ organization' = rows /\ tagLink' = links
           ELSE PlaceEnds(c, "reference") /\ UNCHANGED <<organization, tagLink>>
        /\ UNCHANGED <<region, country, regionLink, catalog, member, placeWrites>>

-----------------------------------------------------------------------------
(* Memberships.                                                              *)

ChangesMember(c) == PlaceOrder(c).kind \in {"create member", "update member"}

\* The statement writes the row and its index entry ...
WriteMember(c) ==
    LET order == PlaceOrder(c)
        wrote(m) == [placeCall[c] EXCEPT !.pc = "check", !.id = m]
    IN  /\ placeCall[c].pc = "first" /\ ChangesMember(c) /\ WaitsFor(c) = {}
        /\ IF order.kind = "create member"
           THEN \E m \in MemberIds \ Members :
                  (\A d \in PlaceCalls : ~HoldsMember(d, m)) /\ PlaceStep(c, wrote(m))
           ELSE IF member[order.id].organization # order.organization
           THEN PlaceEnds(c, "not found") ELSE PlaceStep(c, wrote(order.id))
        /\ UNCHANGED <<placeTables, placeWrites>>

\* ... and then the constraint and the references are checked.
CheckMember(c) ==
    LET asked == AskedMember(c)
        own == placeCall[c].id
    IN  /\ placeCall[c].pc = "check" /\ WaitsFor(c) = {}
        /\ CASE \E m \in Members \ {own} : DatesOverlap(member[m], asked) ->
                  PlaceEnds(c, "conflict") /\ UNCHANGED member
             [] (\A m \in Members \ {own} : ~DatesOverlap(member[m], asked))
                  /\ (asked.organization \notin Organizations \/ asked.country \notin Countries) ->
                  PlaceEnds(c, "reference") /\ UNCHANGED member
             [] OTHER -> PlaceEnds(c, "done") /\ member' = [member EXCEPT ![own] = asked]
        /\ UNCHANGED <<region, country, regionLink, catalog, organization, tagLink, placeWrites>>

DeleteMember(c) ==
    LET m == PlaceOrder(c).id IN
    /\ AtStep(c, "first", "delete member") /\ WaitsFor(c) = {}
    /\ IF member[m].organization # PlaceOrder(c).organization
       THEN PlaceEnds(c, "not found") /\ UNCHANGED member
       ELSE PlaceEnds(c, "done") /\ member' = [member EXCEPT ![m] = NoMember]
    /\ UNCHANGED <<region, country, regionLink, catalog, organization, tagLink, placeWrites>>

\* ListMembers of a country on a day: both of its days belong to a membership.
ListedMembers(o, k, day) ==
    {m \in Members : member[m].organization = o /\ member[m].country = k
                       /\ member[m].from <= day /\ day <= member[m].till}

-----------------------------------------------------------------------------

PlaceInit ==
    /\ \E first \in FirstPlaces :
         /\ region = first.region /\ country = first.country /\ catalog = first.catalog
         /\ organization = first.organization /\ tagLink = first.tagLink
         /\ regionLink = first.regionLink
    /\ member = [m \in MemberIds |-> NoMember]
    /\ placeCall = [c \in PlaceCalls |-> IdlePlaceCall] /\ placeWrites = 0

PlaceCallStep(c) ==
    \/ PublishRegions(c) \/ CreateRegion(c) \/ CreateCountry(c) \/ UpdateCountry(c)
    \/ ReadRegions(c) \/ ReplaceRegions(c)
    \/ UpsertCatalog(c) \/ DeleteCatalogCodes(c) \/ CommitCatalog(c)
    \/ CreateOrganization(c) \/ WriteOrganization(c) \/ ReadFunction(c)
    \/ ShareTag(c) \/ CommitOrganization(c)
    \/ WriteMember(c) \/ CheckMember(c) \/ DeleteMember(c)

PlaceNext ==
    \E c \in PlaceCalls :
        \/ \E order \in PlaceOrders : BeginPlaceCall(c, order)
        \/ PlaceCallStep(c) \/ BreakPlaceDeadlock(c)

PlaceSpec ==
    /\ PlaceInit /\ [][PlaceNext]_placeVars
    /\ \A c \in PlaceCalls : SF_placeVars(PlaceCallStep(c)) /\ WF_placeVars(BreakPlaceDeadlock(c))

-----------------------------------------------------------------------------
(* Properties.                                                               *)

PlaceTypeOK ==
    /\ region \subseteq RegionCodes /\ country \in [CountryIds -> PlaceTexts \cup {NoText}]
    /\ regionLink \subseteq CountryIds \X RegionCodes
    /\ catalog.categories \subseteq CategoryCodes /\ catalog.functions \subseteq FunctionCodes
    /\ \A m \in Members : member[m].from \in 0 .. LastDay /\ member[m].till \in 1 .. LastDay + 1
    /\ placeWrites \in 0 .. MaxPlaceWrites

\* A country is a member of an organization once on every day, as a reader who
\* asks for that day counts both ends, whatever memberships are written at once.
OneMembershipPerDay ==
    \A o \in OrganizationIds, k \in CountryIds, day \in Day :
        Cardinality(ListedMembers(o, k, day)) <= 1

\* Publications of two releases that overlap leave the catalogue of one of
\* them and never the codes of both, and what organizations and countries
\* refer to is there: tags of the function they have themselves.
CatalogIsOneFile == \E file \in OrganizationFiles : catalog = file

\* Calls wait for each other only where two memberships of the same days are
\* written, where a release that moves or drops rows has locked all of its own,
\* or where the commit of several tags has locked one and a release another.
\* Releases of what is stored never stop each other, nor one who asks for one tag.
OnlyReleasesDeadlock ==
    \A c \in PlaceCalls : \A d \in PlaceDeadlock(c) :
        \/ placeCall[c].pc = "check" /\ placeCall[d].pc = "check"
        \/ \E p \in {c, d} \cap PublishesCatalog : DroppedCodes(p) \cup MovedTags(p) # {}
        \/ \E p, w \in {c, d} : /\ AtStep(p, "first", "publish catalog") /\ w \in WritesOrganization
                               /\ placeCall[w].held # {} /\ TagsLeft(w) # {}

\* What organizations, countries and their links refer to is there: a link has
\* the function of its organization and of its tag.
PlacesAreConsistent ==
    /\ OneMembershipPerDay /\ CatalogIsOneFile
    /\ \A p \in regionLink : p[1] \in Countries /\ p[2] \in region
    /\ \A o \in Organizations :
         /\ organization[o].region \in region \cup {NoText}
         /\ organization[o].category \in catalog.categories
         /\ organization[o].function \in catalog.functions
    /\ \A l \in tagLink : l.function = organization[l.organization].function
                            /\ l.function = catalog.tag[l.tag]
=============================================================================
