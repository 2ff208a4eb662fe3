SPECIFICATION BridgeFairSpec
CONSTANTS
    j1 = j1
    j2 = j2
    east = east
    west = west
    s1 = s1
    s2 = s2
    w1 = w1
    w2 = w2
    k1 = k1
    NoName = NoName
    NoSub = NoSub
    NoJudge = NoJudge
    NoNode = NoNode
    Judges = {j1}
    Names = {east, west}
    Subs = {s1}
    Kinds = {k1}
    Workers = {w1, w2}
    NameOf <- NameOfDef
    KindOf <- OneKind
    Requests <- OneRequest
    Offers <- OneOffer
    Managed = {}
    Updaters = {}
    MaxFailures = 0
    LastCase = 2
    Abortable = {s1}
    LosesReplies = TRUE
    MaxRestarts = 1
INVARIANTS BridgeTypeOK NobodyIsForgotten ScoreIsComplete
PROPERTIES SubmissionsSettle SubmissionLifecycle
