SPECIFICATION SiteSpec

\* Of the components around the judges and the people, and of what is shown.
CONSTANTS
    SizeLen = 2
    HeaderLen = 5
    HeaderMax = 9
    MaxPacket = 3
    PacketEnds <- MCEnds
    JmConns = {"c1", "c2"}
    JmAdmins = {"a1"}
    MaxRestarts = 1
    PrSubs = {"s1"}
    RateLimit = 2
    RateTime = 1
    MaxBatches = 2
    MaxPrCases = 4
    MaxGradings = 2
    LastTick = 3
    LkSubs = {"l1", "l2"}
    LkRequests = {"q1", "q2"}
    LastClock = 2
    MaxLkRequests = 4
    LiSubs = {"l1", "l2"}
    LiRequests = {"q1", "q2"}
    SubmissionLimit = 1
    MaxInContest = 1
    MossProblems = {"p1", "p2"}
    MossLangs = {"C"}
    MossTasks = {"t1", "t2"}
    MaxMossEdits = 1
    OrgUsers = {"u1", "u2"}
    Orgs = {"o1"}
    Reviewers = {"r1", "r2"}
    ClassReviewers = {"r2"}
    Slots = 1
    MaxOpen = 1
    MaxRequests = 2
    MaxToggles = 1
    CsUsers = {"u1"}
    CsEditors = {}
    CsRequests = {"r1", "r2"}
    StartAt = 0
    EndAt = 1
    Limit = 1
    LastTime = 2
    MaxCsRequests = 3
    AcSessions = {"s1", "s2"}
    AcDevices = {"d1"}
    AcStaff = TRUE
    MaxAcRequests = 5
    SuNames = {"n1", "n2"}
    SuEmails = {"e1"}
    SuForms = {"r1"}
    SuFlows = {"f1", "f2"}
    SuOrgs = {"o"}
    MaxSuOrgs = 1
    OpenOrgs = {"o1"}
    ClosedOrgs = {"c1"}
    MaxOpenOrgs = 0
    TnRequests = {"r1", "r2"}
    MaxTokens = 1
    MaxTnChanges = 2
    DdRequests = {"q1", "q2"}
    DdTasks = {"k1", "k2"}
    RateGap = 1
    LastDdTime = 2
    CnCodes = {"a", "b", "c"}
    CnFirst = "a"
    CnParts = {"p", "q"}
    CnOrgs = {"o"}
    CnRequests = {"r1", "r2"}
    MaxCnEdits = 1
    Voters = {"u1"}
    DcRequests = {"r1", "r2"}
    MaxComments = 3
    MaxDcRequests = 3
    VtVoters = {"u1", "u2"}
    VtPoints = {1}
    VtRequests = {"q1", "q2"}
    MaxVtRequests = 4
    Tickets = {"t1"}
    TkRequests = {"q1", "q2"}
    TkPages = {"g1"}
    MaxTkRequests = 3
    Setters = {"s1", "s2"}
    Zips = {"z1", "z2"}
    Contents <- MCContents
    PdForms <- MCForms
    Codes = {"c1", "c2"}
    FirstCode = "c1"
    MaxPosts = 2
    MaxDeaths = 1
    CaRequests = {"q1", "q2"}
    MaxSaves = 2
    MaxCaRequests = 4
    FoWorkers = {"w1", "w2"}
    MaxFoPages = 5
    MlErrors = {"e1", "e2", "e3", "e4"}
    Throttle = 2
    MaxPeriods = 2
    MkProblems = {"p1"}
    MkJudges = {"j1", "j2"}
    MkWorths = {1, 2}
    MkFirstWorth = 1
    MaxMkSubs = 1
    MaxMkChanges = 2
    DvPages = {"p1"}
    MaxQueue = 2
    MaxVersions = 4
    MaxOthers = 1
    MaxDaemons = 1
    MaxRecent = 2
    RowsPerPage = 2
    MaxAsked = 2

\* A component whose requests are used up rests.
CHECK_DEADLOCK FALSE

INVARIANTS
    PeopleHold
    ComputedHolds
    ContentHolds
    ShownHolds
    JudgingHolds

PROPERTIES
    DecisionsStay
    ResultsStay
