\* One part at a time, two calls each.
SPECIFICATION EntitiesSpec
CONSTANTS
    Parts = {"graph", "industries", "plain", "company", "storyline", "place"}
    Chain = {"chain"}
    Node = {"node1", "node2", "node3"}
    Country = {"country"}
    Region = {"region1", "region2"}
    Organization = {"organization"}
    Theme = {"industry"}
    GraphLink <- MCLink
    ObjectOrder <- MCObjectOrder
    LinkOrder <- MCLinkOrder
    Ask <- MCAsk
    MaxSeeds = 2
    MaxDepth = 2
    MaxNodes = 4
    MaxEdges = 2
    LastTime = 1
    MaxChanges = 2
    LateObject = {"region2"}
    LateLink <- MCLateLink
    IndustryIds = {"energy", "oil", "gas"}
    ConceptIds = {"concept1", "concept2", "concept3"}
    NodeIds = {"node1", "node2"}
    ChainIds = {"chain1", "chain2"}
    IdRank <- MCIdRank
    IndustryCode <- MCIndustryCode
    EntityCalls = {"c1", "c2"}
    IndustryEdits <- MCEdits
    Labels = {1, 2}
    FirstLabels <- MCLabels
    FirstIndustries <- MCFirst
    PageSizes = {1}
    MaxEntityWrites = 3
    CompanyCodes = {"C1", "C2"}
    CodeRank <- MCCodeRank
    CompanyIds = {"id1", "id2", "id3"}
    DerivedId <- MCDerivedId
    CompanyTexts = {"x", "nowhere"}
    UnknownCountry = "nowhere"
    LinkedIndustries = {"i1"}
    UnknownIndustry = "i0"
    FirstCompanies <- MCFirstCompanies
    CompanyOrders <- MCCompanyOrders
    CompanyCalls = {"c1", "c2"}
    MaxCompanyWrites = 3
    DomainCodes = {"D1", "D2"}
    DomainLabels = {"one", "two"}
    DomainIds = {"d1", "d2", "d3"}
    DomainId <- MCDomainId
    StoryNames = {"n1", "n2"}
    StoryIds = {"s1", "s2", "s3"}
    StoryId <- MCStoryId
    StoryTexts = {"t"}
    StoryCount = 1
    AskedDomains = {{"d1"}, {"d1", "d2"}, {"d2", "d3"}}
    StorylineFiles <- MCStorylineFiles
    FirstStorylines <- MCFirstStorylines
    StoryCalls = {"c1", "c2"}
    MaxStoryWrites = 2
    RegionCodes = {"r1", "r2"}
    CountryIds = {"n1", "n2"}
    PlaceTexts = {"x", "y"}
    OrganizationIds = {"o1", "o2"}
    CategoryCodes = {"alliance", "bloc", "forum"}
    FunctionCodes = {"trade", "finance"}
    TagCodes = {"tariffs", "lending"}
    OrganizationFiles <- MCFiles2
    RowRank <- MCRowRank
    MemberIds = {"m1", "m2"}
    LastDay = 2
    PlaceOrders <- MCPlaceOrders
    FirstPlaces <- MCFirstPlaces
    PlaceCalls = {"c1", "c2"}
    MaxPlaceWrites = 3
INVARIANTS
    EntitiesAreConsistent
    ProjectionIsOneSnapshot
PROPERTIES
    StorylineWritesAreWhole
    AnswersAreWhole
    EveryEntityCallEnds
CHECK_DEADLOCK FALSE
