SPECIFICATION FairSpec
CONSTANTS
    j1 = j1
    j2 = j2
    j3 = j3
    east = east
    west = west
    s1 = s1
    s2 = s2
    s3 = s3
    k1 = k1
    k2 = k2
    Judges = {j1, j2}
    Names = {east, west}
    Subs = {s1, s2, s3}
    Kinds = {k1, k2}
    NameOf <- NameOfDef
    KindOf <- TwoKinds
    Requests <- MixedRequests
    Managed = {}
    Updaters = {j2}
    Offers <- AllOffers
    NoName = NoName
    NoSub = NoSub
    NoJudge = NoJudge
    NoNode = NoNode
    MaxFailures = 0
INVARIANTS FreeJudgeLeavesNoWork
PROPERTY RejudgeLeavesAFreeJudge ContestSubmissionIsServed
