------------------------------- MODULE Standing -------------------------------
(***************************************************************************)
(* The copies of results kept outside the submissions: the points of       *)
(* profiles, the statistics of problems, the cached sets of solved         *)
(* problems.  Judges that finish and tasks that rescore a problem bring    *)
(* them up to date in several steps, without transactions, while           *)
(* administrators change problems and rejudge.                             *)
(***************************************************************************)
EXTENDS Integers, Sequences, FiniteSetsExt, Functions

CONSTANTS
    StUsers, StProblems,
    StWorkers,      \* Handlers of judges and rescoring tasks at work at the same time.
    MaxCases,       \* Cases of a problem; they are worth the same.
    Tenth,          \* A tenth of a point; the unit, a thousandth, is 1.
    Worths,         \* What the points of a problem may be set to.
    FirstWorth,
    MaxSubs,        \* Bound: submissions.
    MaxChanges      \* Bound: changes of problems and rejudges.

VARIABLES
    st_subs,        \* Rows of Submission: user, prob, status, cases, points (-1 for null).
    st_problems,    \* Rows of Problem: public, partial, worth, solvers (user_count).
    st_points,      \* Profile.points.
    st_cache,       \* user_complete of a user: a set of problems, or {None}.
    st_fill,        \* What a request computed for that key and has not stored yet.
    st_work,        \* What the workers are doing.
    st_queue,       \* Problems to be rescored by a task.
    st_changes,
    st_off,         \* History: users whose points no computation follows up.
    st_old,         \* History: users whose cached set no deletion follows up.
    st_rewritten    \* History: submissions rescored as they were before they were graded.

stvars == <<st_subs, st_problems, st_points, st_cache, st_fill, st_work, st_queue, st_changes,
            st_off, st_old, st_rewritten>>

NotCached == {"none"}
AtRest == [kind |-> "rest", at |-> "rest"]
SubIds == 1 .. Len(st_subs)
SubsOf(u, p) == {i \in SubIds : st_subs[i].user = u /\ st_subs[i].prob = p}

StInit ==
    /\ st_subs = <<>>
    /\ \E partial \in BOOLEAN :
          st_problems = [p \in StProblems |-> [public |-> TRUE, partial |-> partial, worth |-> FirstWorth,
                                               solvers |-> 0]]
    /\ st_points = [u \in StUsers |-> 0]
    /\ st_cache = [u \in StUsers |-> NotCached] /\ st_fill = [u \in StUsers |-> NotCached]
    /\ st_work = [w \in StWorkers |-> AtRest]
    /\ st_queue = {}
    /\ st_changes = 0
    /\ st_off = {} /\ st_old = {} /\ st_rewritten = {}

-----------------------------------------------------------------------------
(* What is computed from the rows.                                         *)

\* round(cases / MaxCases * worth), to a multiple of digit.
Nearest(cases, worth, digit) ==
    digit * ((2 * cases * worth + digit * MaxCases) \div (2 * digit * MaxCases))

\* Mutant: grading gives partial points for every problem.
ShareOfWorth(cases, row) == Nearest(cases, row.worth, 1)

\* What on_grading_end stores: a thousandth counts, and without partial points all cases.
GradedPoints(cases, row) ==
    LET points == Nearest(cases, row.worth, 1) IN
    IF ~row.partial /\ points # row.worth THEN 0 ELSE points

\* Mutant: rescoring gives partial points for every problem.
AlwaysPartial(cases, row) == Nearest(cases, row.worth, Tenth)

\* What rescore_problem stores: a tenth counts, so all cases may be worth more or less than the
\* problem, and nothing when that is less and there are no partial points.
RescoredPoints(cases, row) ==
    LET points == Nearest(cases, row.worth, Tenth) IN
    IF ~row.partial /\ points < row.worth THEN 0 ELSE points

\* Profile.calculate_points: the best submission of every public problem.
CountedPoints(u) ==
    MapThenSumSet(LAMBDA p : Max({0} \cup {st_subs[i].points : i \in SubsOf(u, p)}),
                  {p \in StProblems : st_problems[p].public})

\* user_completed_ids: accepted for as much as the problem is worth now.
Completed(u) == {p \in StProblems : \E i \in SubsOf(u, p) :
                    /\ st_subs[i].status = "D" /\ st_subs[i].cases = MaxCases
                    /\ st_subs[i].points = st_problems[p].worth}

\* Problem.update_stats.
Solvers(p, worth) == Cardinality({u \in StUsers : \E i \in SubsOf(u, p) :
                        /\ st_subs[i].status = "D" /\ st_subs[i].cases = MaxCases
                        /\ st_subs[i].points >= worth})

-----------------------------------------------------------------------------
(* Submissions.                                                            *)

Submitted(u, p) ==
    /\ Len(st_subs) < MaxSubs
    /\ st_subs' = Append(st_subs, [user |-> u, prob |-> p, status |-> "QU", cases |-> 0, points |-> -1])
    /\ UNCHANGED <<st_problems, st_points, st_cache, st_fill, st_work, st_queue, st_changes,
                   st_off, st_old, st_rewritten>>

\* judge_submission for a rejudge takes the points away at once; they are not recomputed.
StRejudge(i) ==
    /\ st_subs[i].status # "QU" /\ st_changes < MaxChanges
    /\ st_changes' = st_changes + 1
    /\ st_subs' = [st_subs EXCEPT ![i].status = "QU", ![i].cases = 0, ![i].points = -1]
    /\ st_off' = st_off \cup {st_subs[i].user} /\ st_old' = st_old \cup {st_subs[i].user}
    /\ st_rewritten' = st_rewritten \ {i}
    /\ UNCHANGED <<st_problems, st_points, st_cache, st_fill, st_work, st_queue>>

\* Whoever grades submission i now.
Grading(i) == \E w \in StWorkers : st_work[w].at = "save" /\ st_work[w].sub = i

\* on_compile_error, on_internal_error.
StFail(i) ==
    /\ st_subs[i].status = "QU" /\ ~Grading(i)
    /\ st_subs' = [st_subs EXCEPT ![i].status = "CE"]
    /\ UNCHANGED <<st_problems, st_points, st_cache, st_fill, st_work, st_queue, st_changes,
                   st_off, st_old, st_rewritten>>

\* on_grading_end reads the submission, its problem and its user ...
GradeRead(w, i) ==
    /\ st_work[w] = AtRest /\ st_subs[i].status = "QU" /\ ~Grading(i)
    /\ st_work' = [st_work EXCEPT ![w] = [kind |-> "grade", at |-> "save", sub |-> i, prob |-> st_subs[i].prob,
                                          row |-> st_problems[st_subs[i].prob], users |-> {st_subs[i].user},
                                          loaded |-> st_points, sum |-> 0]]
    /\ UNCHANGED <<st_subs, st_problems, st_points, st_cache, st_fill, st_queue, st_changes,
                   st_off, st_old, st_rewritten>>

\* Points saved that are not those of the cases and of the problem any more.
Rewritten(i, points, cases) ==
    IF points \in {GradedPoints(cases, st_problems[st_subs[i].prob]), RescoredPoints(cases, st_problems[st_subs[i].prob])}
    THEN st_rewritten \ {i} ELSE st_rewritten \cup {i}

\* ... and saves the result.  The points of the user count public problems alone.
GradeSave(w) ==
    LET q == st_work[w] IN
    /\ q.at = "save"
    /\ \E cases \in 0 .. MaxCases :
          LET points == GradedPoints(cases, q.row) IN
          /\ st_subs' = [st_subs EXCEPT ![q.sub].status = "D", ![q.sub].cases = cases, ![q.sub].points = points]
          /\ st_rewritten' = Rewritten(q.sub, points, cases)
    /\ st_work' = [st_work EXCEPT ![w].at = IF q.row.public THEN "sum" ELSE "stats"]
    /\ st_off' = IF ~q.row.public /\ st_problems[q.prob].public THEN st_off \cup q.users ELSE st_off
    /\ UNCHANGED <<st_problems, st_points, st_cache, st_fill, st_queue, st_changes, st_old>>

-----------------------------------------------------------------------------
(* Problems, and the task rescore_problem.                                 *)

\* Mutant: setting the points does not rescore.
OnlyPublic(before, after) == before.public # after.public

\* ProblemAdmin: what has the problem rescored; make_public and make_private always do.
Rescored(before, after) == before.public # after.public \/ before.worth # after.worth \/ before.partial # after.partial

Change(p, row) ==
    /\ st_changes < MaxChanges /\ row # st_problems[p]
    /\ st_changes' = st_changes + 1
    /\ st_problems' = [st_problems EXCEPT ![p] = row]
    /\ st_queue' = IF Rescored(st_problems[p], row) THEN st_queue \cup {p} ELSE st_queue
    /\ UNCHANGED <<st_subs, st_points, st_cache, st_fill, st_work, st_off, st_old, st_rewritten>>

\* RescoreAllSubmissions: an editor has the problem rescored as it is.
AskRescore(p) ==
    /\ st_changes < MaxChanges
    /\ st_changes' = st_changes + 1
    /\ st_queue' = st_queue \cup {p}
    /\ UNCHANGED <<st_subs, st_problems, st_points, st_cache, st_fill, st_work, st_off, st_old, st_rewritten>>

\* The task reads the problem and its submissions at once ...
RescoreStart(w, p) ==
    /\ st_work[w] = AtRest /\ p \in st_queue
    /\ st_queue' = st_queue \ {p}
    /\ st_work' = [st_work EXCEPT ![w] =
                     [kind |-> "rescore", at |-> "rows", prob |-> p, row |-> st_problems[p],
                      rows |-> [i \in {j \in SubIds : st_subs[j].prob = p} |-> st_subs[i].cases],
                      users |-> {}, loaded |-> st_points, sum |-> 0]]
    /\ UNCHANGED <<st_subs, st_problems, st_points, st_cache, st_fill, st_changes,
                   st_off, st_old, st_rewritten>>

\* ... and writes the points of one after the other, as it read them.
RescoreRow(w) ==
    LET q == st_work[w] IN
    /\ q.at = "rows"
    /\ \E i \in DOMAIN q.rows :
          LET points == RescoredPoints(q.rows[i], q.row) IN
          /\ st_subs' = [st_subs EXCEPT ![i].points = points]
          /\ st_rewritten' = Rewritten(i, points, st_subs[i].cases)
          /\ st_work' = [st_work EXCEPT ![w].rows = Restrict(@, DOMAIN @ \ {i})]
    /\ UNCHANGED <<st_problems, st_points, st_cache, st_fill, st_queue, st_changes, st_off, st_old>>

RescoreUsers(w) ==
    LET q == st_work[w]
        users == {st_subs[i].user : i \in {j \in SubIds : st_subs[j].prob = q.prob}} IN
    /\ q.at = "rows" /\ DOMAIN q.rows = {}
    /\ st_work' = [st_work EXCEPT ![w] = IF users = {} THEN AtRest
                                         ELSE [q EXCEPT !.at = "sum", !.users = users, !.loaded = st_points]]
    /\ UNCHANGED <<st_subs, st_problems, st_points, st_cache, st_fill, st_queue, st_changes,
                   st_off, st_old, st_rewritten>>

-----------------------------------------------------------------------------
(* What both do then, for one user after the other.                        *)

\* Users are taken in any order; the chosen one is done when its caches are dropped.
Current(q) == CHOOSE u \in q.users : TRUE

\* calculate_points sums up ...
SumPoints(w) ==
    /\ st_work[w].at = "sum"
    /\ st_work' = [st_work EXCEPT ![w].at = "store", ![w].sum = CountedPoints(Current(st_work[w]))]
    /\ UNCHANGED <<st_subs, st_problems, st_points, st_cache, st_fill, st_queue, st_changes,
                   st_off, st_old, st_rewritten>>

\* ... and stores the sum if the profile was loaded with another.
StorePoints(w) ==
    LET q == st_work[w]
        u == Current(q) IN
    /\ q.at = "store"
    /\ st_points' = IF q.loaded[u] # q.sum THEN [st_points EXCEPT ![u] = q.sum] ELSE st_points
    /\ st_off' = IF st_points'[u] = CountedPoints(u) THEN st_off \ {u} ELSE st_off \cup {u}
    /\ st_work' = [st_work EXCEPT ![w].at = IF q.kind = "grade" THEN "stats" ELSE "drop"]
    /\ UNCHANGED <<st_subs, st_problems, st_cache, st_fill, st_queue, st_changes, st_old, st_rewritten>>

\* update_stats saves every column of the problem as it was read.
SaveStats(w) ==
    LET q == st_work[w]
        row == [q.row EXCEPT !.solvers = Solvers(q.prob, q.row.worth)]
        users == {st_subs[i].user : i \in {j \in SubIds : st_subs[j].prob = q.prob}} IN
    /\ q.at = "stats"
    /\ st_problems' = [st_problems EXCEPT ![q.prob] = row]
    /\ st_work' = [st_work EXCEPT ![w].at = "drop"]
    /\ IF Rescored(st_problems[q.prob], row)
       THEN /\ st_off' = st_off \cup users /\ st_old' = st_old \cup users
            /\ st_rewritten' = st_rewritten \cup {i \in SubIds : st_subs[i].prob = q.prob}
       ELSE UNCHANGED <<st_off, st_old, st_rewritten>>
    /\ UNCHANGED <<st_subs, st_points, st_cache, st_fill, st_queue, st_changes>>

\* Mutant: the cached set is kept.
KeepsCache(u) == st_cache

\* finished_submission, and the end of rescore_problem.
Dropped(u) == [st_cache EXCEPT ![u] = NotCached]

DropCaches(w) ==
    LET q == st_work[w]
        u == Current(q) IN
    /\ q.at = "drop"
    /\ st_cache' = Dropped(u)
    /\ st_old' = st_old \ {u}
    /\ st_work' = [st_work EXCEPT ![w] = IF q.users = {u} THEN AtRest
                                         ELSE [q EXCEPT !.at = "sum", !.users = @ \ {u}]]
    /\ UNCHANGED <<st_subs, st_problems, st_points, st_fill, st_queue, st_changes, st_off, st_rewritten>>

-----------------------------------------------------------------------------
(* user_completed_ids, for a page.                                         *)

Compute(u) ==
    /\ st_cache[u] = NotCached /\ st_fill[u] = NotCached
    /\ st_fill' = [st_fill EXCEPT ![u] = Completed(u)]
    /\ UNCHANGED <<st_subs, st_problems, st_points, st_cache, st_work, st_queue, st_changes,
                   st_off, st_old, st_rewritten>>

Store(u) ==
    /\ st_fill[u] # NotCached
    /\ st_cache' = [st_cache EXCEPT ![u] = st_fill[u]]
    /\ st_fill' = [st_fill EXCEPT ![u] = NotCached]
    /\ st_old' = IF st_fill[u] = Completed(u) THEN st_old \ {u} ELSE st_old \cup {u}
    /\ UNCHANGED <<st_subs, st_problems, st_points, st_work, st_queue, st_changes, st_off, st_rewritten>>

StNext ==
    \/ \E u \in StUsers : \/ \E p \in StProblems : Submitted(u, p)
                          \/ Compute(u) \/ Store(u)
    \/ \E i \in SubIds : StRejudge(i) \/ StFail(i)
    \/ \E p \in StProblems :
          \/ \E public, partial \in BOOLEAN, worth \in Worths :
                Change(p, [st_problems[p] EXCEPT !.public = public, !.partial = partial, !.worth = worth])
          \/ AskRescore(p)
    \/ \E w \in StWorkers :
          \/ \E i \in SubIds : GradeRead(w, i)
          \/ \E p \in StProblems : RescoreStart(w, p)
          \/ GradeSave(w) \/ RescoreRow(w) \/ RescoreUsers(w)
          \/ SumPoints(w) \/ StorePoints(w) \/ SaveStats(w) \/ DropCaches(w)

StSpec == StInit /\ [][StNext]_stvars

-----------------------------------------------------------------------------
(* Properties.                                                             *)

Quiet == st_work = [w \in StWorkers |-> AtRest] /\ st_queue = {}

\* When nothing is left to do, the points of a user are those of the best submissions to
\* public problems, unless the last computation was overtaken, a submission was rejudged
\* without success, or statistics wrote an old row of a problem back.
PointsAreCounted == Quiet => \A u \in StUsers \ st_off : st_points[u] = CountedPoints(u)

\* Nor does a list of problems show a problem as solved that is not, or the other way round,
\* unless a page stored what it had computed earlier.
CompleteIsCurrent ==
    Quiet => \A u \in StUsers \ st_old : st_cache[u] \in {NotCached, Completed(u)}

\* Every result is worth what its cases are worth now, in one of the two roundings, but for
\* races of rescoring and grading: with partial points within half a tenth of its share,
\* without them nothing or at least what the problem is worth.  A problem worth full tenths is worth the
\* same after both to who solved it; another one may be solved no more after a rescoring.
PointsMatchCases ==
    Quiet => \A i \in SubIds \ st_rewritten :
                LET s == st_subs[i]
                    row == st_problems[s.prob] IN
                s.status = "D" =>
                    /\ s.points \in {GradedPoints(s.cases, row), RescoredPoints(s.cases, row)}
                    /\ row.partial => /\ 2 * MaxCases * s.points <= 2 * s.cases * row.worth + MaxCases * Tenth
                                      /\ 2 * MaxCases * s.points >= 2 * s.cases * row.worth - MaxCases * Tenth
                    /\ ~row.partial => s.points = 0 \/ s.points >= row.worth
                    /\ row.worth % Tenth = 0 /\ s.cases = MaxCases => s.points = row.worth

StandingHolds == PointsAreCounted /\ CompleteIsCurrent /\ PointsMatchCases
=============================================================================
