------------------------------- MODULE Solutions -------------------------------
(***************************************************************************)
(* What is shown of test cases and of the submissions to a problem (judge/ *)
(* views/submission.py, judge/views/ranked_submission.py): the statuses on *)
(* the page of a submission while its cases arrive, and the list of the    *)
(* best submission of each user, in a contest or outside one.              *)
(***************************************************************************)
EXTENDS Integers, FiniteSetsExt, SequencesExt

CONSTANTS
    CaseStatuses,   \* Statuses of a case, "AC" among them.
    CombineOver,    \* combine_statuses: longer runs of one status are shown as one.
    MaxShown,       \* Bound: cases.
    SoUsers, SoRaws,    \* Users; what a submission is worth, 0 to the maximum.
    MaxSoSubs       \* Bound: submissions.

\* What the constants are.
SolutionsAssumption == "AC" \in CaseStatuses /\ CombineOver \in Nat \ {0}

VARIABLES
    so_of,          \* Which of the two pages.
    so_cases,       \* Cases stored, in order: status, and batch or 0.
    so_graded,      \* submission.is_graded.
    so_partial,     \* Whether the problem, and the problem in its contest, give partial points.
    so_subs         \* Submissions: user, points, points in the contest, time it took.

sovars == <<so_of, so_cases, so_graded, so_partial, so_subs>>

SoInit ==
    /\ so_of \in {"status", "ranked"}
    /\ so_cases = <<>> /\ so_graded = FALSE
    /\ so_partial \in (IF so_of = "ranked" THEN BOOLEAN \X BOOLEAN ELSE {<<FALSE, FALSE>>})
    /\ so_subs = <<>>

LastBatch == Max({0} \cup {so_cases[i].batch : i \in DOMAIN so_cases})

\* Cases of a batch come one after another.
ShowCase(status, batch) ==
    /\ so_of = "status" /\ ~so_graded /\ Len(so_cases) < MaxShown
    /\ \/ batch \in {0, LastBatch + 1}
       \/ so_cases # <<>> /\ batch = Last(so_cases).batch
    /\ so_cases' = Append(so_cases, [status |-> status, batch |-> batch])
    /\ UNCHANGED <<so_of, so_graded, so_partial, so_subs>>

ShowGraded ==
    /\ so_of = "status" /\ ~so_graded
    /\ so_graded' = TRUE
    /\ UNCHANGED <<so_of, so_cases, so_partial, so_subs>>

Worth(raw, partial) == IF partial \/ raw = Max(SoRaws) THEN raw ELSE 0

RankedSub(u, raw, time) ==
    /\ so_of = "ranked" /\ Len(so_subs) < MaxSoSubs
    /\ so_subs' = Append(so_subs, [user |-> u, time |-> time, points |-> Worth(raw, so_partial[1]),
                                   inContest |-> Worth(raw, so_partial[2])])
    /\ UNCHANGED <<so_of, so_cases, so_graded, so_partial>>

-----------------------------------------------------------------------------
(* The statuses.                                                           *)

Starts(i) == i = 1 \/ so_cases[i].batch # so_cases[i - 1].batch

\* group_test_cases: the cases of the group that starts at i.
GroupFrom(i) ==
    {j \in i .. Len(so_cases) : \A k \in i + 1 .. j : ~Starts(k)}

\* get_statuses: of a batch, its first case that was not accepted, or its first.
StatusOf(group) ==
    LET bad == {j \in group : so_cases[j].status # "AC"} IN
    so_cases[IF bad = {} THEN Min(group) ELSE Min(bad)].status

Shows(i) == Starts(i) \/ so_cases[i].batch = 0

\* The cases that stand in the list of statuses, in order.
ShownCases == SelectSeq([i \in DOMAIN so_cases |-> i], Shows)

StatusAt(i) == IF so_cases[i].batch = 0 THEN so_cases[i].status ELSE StatusOf(GroupFrom(i))

\* Mutant: the last batch is always shown.
DropsNone(shown) == FALSE

\* Of a submission that is not graded, a batch at the end is left out.
DropsLast(shown) == ~so_graded /\ shown # <<>> /\ so_cases[Last(shown)].batch # 0

\* combine_statuses, before runs are combined.
Statuses ==
    LET kept == IF DropsLast(ShownCases) THEN Front(ShownCases) ELSE ShownCases IN
    [i \in DOMAIN kept |-> StatusAt(kept[i])]

\* And after: a sequence of statuses and how many cases each stands for.
Combined(s) ==
    LET start(i) == Max({k \in 1 .. i : k = 1 \/ s[k] # s[k - 1]})
        end(i) == Min({k \in i .. Len(s) : k = Len(s) \/ s[k] # s[k + 1]})
        long(i) == end(i) - start(i) + 1 > CombineOver
        heads == SelectSeq([i \in DOMAIN s |-> i], LAMBDA i : long(i) => i = start(i)) IN
    [j \in DOMAIN heads |-> [status |-> s[heads[j]],
                             num |-> IF long(heads[j]) THEN end(heads[j]) - start(heads[j]) + 1 ELSE 1]]

\* The answer of the API (APISubmissionDetail): an entry for each case outside of batches, and
\* one for each batch with its cases.
ApiEntries ==
    [k \in DOMAIN ShownCases |->
        LET i == ShownCases[k] IN IF so_cases[i].batch = 0 THEN {i} ELSE GroupFrom(i)]

-----------------------------------------------------------------------------
(* The best submissions.                                                   *)

RankedPoints(i, contest) == IF contest THEN so_subs[i].inContest ELSE so_subs[i].points

\* Submissions of u worth anything.
Positive(u, contest) == {i \in DOMAIN so_subs : so_subs[i].user = u /\ RankedPoints(i, contest) > 0}

\* highscore: the points of the problem, also in a contest.
HighScore(u, contest) == Max({so_subs[i].points : i \in Positive(u, contest)})

\* Mutant: joined by the user alone.
FastestAtAll(u, contest) == {Min({so_subs[i].time : i \in Positive(u, contest)})}

\* fastest: for each number of points the least time, joined with highscore.
FastestTimes(u, contest) ==
    LET best == {i \in Positive(u, contest) : so_subs[i].points = HighScore(u, contest)}
        groups == {RankedPoints(i, contest) : i \in best} IN
    {Min({so_subs[i].time : i \in {j \in best : RankedPoints(j, contest) = g}}) : g \in groups}

\* Joined with the submissions by user and time; one of them is taken.
MayBeRanked(u, contest) ==
    {i \in DOMAIN so_subs : so_subs[i].user = u /\ so_subs[i].time \in FastestTimes(u, contest)}

-----------------------------------------------------------------------------
SoNext ==
    \/ \E status \in CaseStatuses, batch \in 0 .. MaxShown : ShowCase(status, batch)
    \/ ShowGraded
    \/ \E u \in SoUsers, raw \in SoRaws, time \in 1 .. MaxSoSubs : RankedSub(u, raw, time)

SoSpec == SoInit /\ [][SoNext]_sovars

-----------------------------------------------------------------------------
(* Properties.                                                             *)

\* A batch is accepted on the page of a graded submission exactly when all its cases are.
BatchesAreWhole ==
    so_graded => \A i \in DOMAIN so_cases : Starts(i) /\ so_cases[i].batch # 0 =>
      (StatusAt(i) = "AC" <=> \A j \in DOMAIN so_cases :
                                so_cases[j].batch = so_cases[i].batch => so_cases[j].status = "AC")

\* Combining loses no status and leaves no long run.
CombinedIsComplete ==
    \A s \in {Statuses} : \A c \in {Combined(s)} :
      /\ FlattenSeq([j \in DOMAIN c |-> [k \in 1 .. c[j].num |-> c[j].status]]) = s
      /\ \A i \in 1 .. Len(c) - CombineOver : \E j \in i .. i + CombineOver - 1 : c[j].status # c[j + 1].status

\* The answer of the API has every case, in one entry, in their order, and a batch in one.
AnswerIsWhole ==
    /\ UNION ToSet(ApiEntries) = DOMAIN so_cases
    /\ \A k, m \in DOMAIN ApiEntries : k < m => \A i \in ApiEntries[k], j \in ApiEntries[m] :
          i < j /\ (so_cases[i].batch = so_cases[j].batch => so_cases[i].batch = 0)

SameTime == \E i, j \in DOMAIN so_subs :
    i # j /\ so_subs[i].user = so_subs[j].user /\ so_subs[i].time = so_subs[j].time

\* Everyone with points is in the list once, with the fastest of those with most points; unless
\* submissions of one user took the same time, or the contest gives partial points and the
\* problem does not.
BestIsBest ==
    \A contest \in BOOLEAN, u \in SoUsers :
      so_of = "ranked" /\ Positive(u, contest) # {} /\ ~SameTime /\ ~(contest /\ ~so_partial[1] /\ so_partial[2]) =>
        \E i \in Positive(u, contest) :
          /\ MayBeRanked(u, contest) = {i}
          /\ \A j \in Positive(u, contest) \ {i} :
               \/ RankedPoints(i, contest) > RankedPoints(j, contest)
               \/ RankedPoints(i, contest) = RankedPoints(j, contest) /\ so_subs[i].time < so_subs[j].time

SolutionsHold == BatchesAreWhole /\ CombinedIsComplete /\ AnswerIsWhole /\ BestIsBest

\* What was shown of a submission stays as its cases arrive: a status is shown once nothing can
\* change it.
ShownStays == so_of = "status" => IsPrefix(Statuses, Statuses')
=============================================================================
