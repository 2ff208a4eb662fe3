--------------------------------- MODULE Clones ---------------------------------
(***************************************************************************)
(* Clones of problems, contests and courses (ProblemClone in               *)
(* views/problem.py, ContestClone in views/contests.py, CourseClone in     *)
(* views/courses.py, the clone forms in judge/forms.py).  A request loads  *)
(* the row, gives it a new code and stores it as another in one            *)
(* transaction; what hangs on it is read only then.  A problem's language  *)
(* limits move to the clone, a contest's problems are copied, and a course *)
(* with theory or tests cannot be cloned.                                  *)
(***************************************************************************)
EXTENDS Integers, FiniteSets

CONSTANTS
    CnCodes,        \* Codes; CnFirst is the item there is at first.
    CnFirst,
    CnParts,        \* Languages with limits, problems of a contest or of a course.
    CnOrgs,         \* Organizations, and the other lists that are set anew.
    CnRequests,
    MaxCnEdits      \* Bound: edits of the items.

\* What the constants are.
ClonesAssumption == CnFirst \in CnCodes

VARIABLES
    cn_kind,        \* What the items are: "problem", "contest" or "course".
    cn_items,       \* Per code: the row and its lists, or NoItem.
    cn_rows,        \* The rows that hang on items: of which item, what, and which row it is.
    cn_lessons,     \* Whether the course has theory or tests.
    cn_requests,
    cn_edits,
    cn_parent,      \* History: per clone, its original.
    cn_should       \* History: per code, the parts an editor or a clone gave it.

cnvars == <<cn_kind, cn_items, cn_rows, cn_lessons, cn_requests, cn_edits, cn_parent, cn_should>>

NoItem == [public |-> FALSE, orgs |-> {}, there |-> FALSE]
NotCloning == [at |-> "none", from |-> CnFirst, to |-> CnFirst]
PartsOf(code) == {row.what : row \in {r \in cn_rows : r.of = code}}
ItemExists(code) == cn_items[code].there

CnInit ==
    /\ cn_kind \in {"problem", "contest", "course"}
    /\ cn_items = [c \in CnCodes |-> IF c = CnFirst THEN [NoItem EXCEPT !.there = TRUE] ELSE NoItem]
    /\ cn_lessons \in (IF cn_kind = "course" THEN BOOLEAN ELSE {FALSE})
    /\ cn_rows = {[of |-> CnFirst, what |-> p, first |-> CnFirst] : p \in CnParts}
    /\ cn_requests = [r \in CnRequests |-> NotCloning]
    /\ cn_edits = 0
    /\ cn_parent = [c \in CnCodes |-> CnFirst]
    /\ cn_should = [c \in CnCodes |-> IF c = CnFirst THEN CnParts ELSE {}]

\* The form: the code is not in use.
CleanCode(code) == ~ItemExists(code)

LoadClone(r, from, to) ==
    /\ cn_requests[r].at = "none" /\ ItemExists(from) /\ CleanCode(to)
    /\ cn_requests' = [cn_requests EXCEPT ![r] = [at |-> "loaded", from |-> from, to |-> to]]
    /\ UNCHANGED <<cn_kind, cn_items, cn_rows, cn_lessons, cn_edits, cn_parent, cn_should>>

EndClone(r, how) == cn_requests' = [cn_requests EXCEPT ![r].at = how]

\* Mutant: the problems of a contest are set, not copied.
RowsTaken(from, to) == {IF row.of = from THEN [row EXCEPT !.of = to] ELSE row : row \in cn_rows}

\* language_limits.set on the clone takes the rows of the original; the others are stored anew.
RowsAfter(from, to) ==
    IF cn_kind = "problem"
    THEN {IF row.of = from THEN [row EXCEPT !.of = to] ELSE row : row \in cn_rows}
    ELSE cn_rows \cup {[of |-> to, what |-> p, first |-> to] : p \in PartsOf(from)}

\* Mutant: the clone is shown as the original is.
ClonedItem(from) == cn_items[from]

\* The row of the clone: hidden, with the lists of the original.
HiddenItem(from) == [cn_items[from] EXCEPT !.public = FALSE]

\* Everything in one transaction; a code taken meanwhile, or a lesson, rolls it back.
FormValid(r) ==
    LET from == cn_requests[r].from
        to == cn_requests[r].to IN
    /\ cn_requests[r].at = "loaded"
    /\ IF ItemExists(to) \/ cn_lessons
       THEN EndClone(r, "failed") /\ UNCHANGED <<cn_items, cn_rows, cn_parent, cn_should>>
       ELSE /\ cn_items' = [cn_items EXCEPT ![to] = HiddenItem(from)]
            /\ cn_rows' = RowsAfter(from, to)
            /\ cn_parent' = [cn_parent EXCEPT ![to] = from]
            /\ cn_should' = [cn_should EXCEPT ![to] = PartsOf(from)]
            /\ EndClone(r, "done")
    /\ UNCHANGED <<cn_kind, cn_lessons, cn_edits>>

\* An editor publishes the item, changes its lists, or adds or removes a part.
EditItem(code, public, orgs, parts) ==
    /\ cn_edits < MaxCnEdits /\ cn_edits' = cn_edits + 1
    /\ ItemExists(code)
    /\ cn_items' = [cn_items EXCEPT ![code] = [cn_items[code] EXCEPT !.public = public, !.orgs = orgs]]
    /\ cn_rows' = {row \in cn_rows : row.of # code \/ row.what \in parts}
                  \cup {[of |-> code, what |-> p, first |-> code] : p \in parts \ PartsOf(code)}
    /\ cn_should' = [cn_should EXCEPT ![code] = parts]
    /\ UNCHANGED <<cn_kind, cn_lessons, cn_requests, cn_parent>>

CnNext ==
    \/ \E r \in CnRequests : FormValid(r) \/ \E from, to \in CnCodes : LoadClone(r, from, to)
    \/ \E c \in CnCodes, public \in BOOLEAN, orgs \in SUBSET CnOrgs, parts \in SUBSET CnParts :
           EditItem(c, public, orgs, parts)

CnSpec == CnInit /\ [][CnNext]_cnvars

-----------------------------------------------------------------------------
(* Properties.                                                             *)

\* An item has the parts it was given, by its editor or when it was cloned, except that a problem
\* loses its limits to its clones: a part that is missing is one a clone of the problem was given.
PartsKept ==
    \A code \in CnCodes :
        /\ PartsOf(code) \subseteq cn_should[code]
        /\ \A p \in cn_should[code] \ PartsOf(code) :
             /\ cn_kind = "problem"
             /\ \E clone \in CnCodes \ {CnFirst} : cn_parent[clone] = code /\ ItemExists(clone)

\* A limit is of one problem: no two problems share a row, nor does one have two of a kind.
RowsApart ==
    /\ \A row \in cn_rows : ItemExists(row.of)
    /\ \A one, other \in cn_rows : one.of = other.of /\ one.what = other.what => one = other

\* A request that did not end well leaves nothing, and no two of them made one item.
ClonesWhole ==
    \A c \in CnCodes \ {CnFirst} :
        ItemExists(c) <=> Cardinality({r \in CnRequests : cn_requests[r].at = "done" /\ cn_requests[r].to = c}) = 1

ClonesHold == PartsKept /\ RowsApart /\ ClonesWhole

\* Nobody but an editor shows an item: a clone begins hidden, whatever its original is.
ShownByEditors == \A c \in CnCodes : cn_items'[c].public /\ ~cn_items[c].public => cn_edits' > cn_edits
=============================================================================
