SPECIFICATION Spec
CONSTANTS
    ann = ann
    ed = ed
    out = out
    x1 = x1
    x2 = x2
    t1 = t1
    t2 = t2
    Nowhere = Nowhere
    Disqualified = Disqualified
    Users = {ann}
    Editors = {}
    Outsiders = {}
    Superusers = {}
    Workers = {x1, x2}
    Subs = {t1, t2}
    TimeLimit = FALSE
    MaxSubmissions = 2
    MaxVirtual = 1
    Asked = {"join", "submit", "edit"}
    Judged <- Live
    Rescored <- Live
INVARIANTS FlagAndScoreAgree ScoreCountsSubmissions StaffDecisionStands DisqualifiedIsOut
SYMMETRY WorkerSymmetry
