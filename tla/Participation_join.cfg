SPECIFICATION Spec
CONSTANTS
    ann = ann
    ed = ed
    out = out
    x1 = x1
    x2 = x2
    t1 = t1
    t2 = t2
    Nowhere = Nowhere
    Disqualified = Disqualified
    Users = {ann, ed}
    Editors = {ed}
    Outsiders = {}
    Superusers = {}
    Workers = {x1, x2}
    Subs = {}
    TimeLimit = TRUE
    MaxSubmissions = 1
    MaxVirtual = 2
    Asked = {"join", "leave"}
    Judged = {}
    Rescored = {}
INVARIANTS TypeOK VirtualIdsAreContiguous UserCountIsNotTooHigh
SYMMETRY WorkerSymmetry
