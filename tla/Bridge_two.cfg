SPECIFICATION BridgeSpec
CONSTANTS
    j1 = j1
    j2 = j2
    east = east
    west = west
    s1 = s1
    s2 = s2
    w1 = w1
    w2 = w2
    k1 = k1
    NoName = NoName
    NoSub = NoSub
    NoJudge = NoJudge
    NoNode = NoNode
    Judges = {j1}
    Names = {east, west}
    Subs = {s1, s2}
    Kinds = {k1}
    Workers = {w1}
    NameOf <- NameOfDef
    KindOf <- OneKind
    Requests <- TwoRequests
    Offers <- OneOffer
    Managed = {east}
    Updaters = {j1}
    MaxFailures = 1
    LastCase = 1
    Abortable = {}
    LosesReplies = FALSE
    MaxRestarts = 0
INVARIANT NobodyIsForgotten
