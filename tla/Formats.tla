------------------------------- MODULE Formats -------------------------------
(***************************************************************************)
(* What each contest format (judge/contest_format/*.py) makes of the       *)
(* submissions of one participation.  Rejudged submissions keep their      *)
(* contest points until they are graded again, and for good when the       *)
(* second grading fails; the formats are recomputed at any time meanwhile. *)
(* Submissions are numbered in the order of their dates.                   *)
(***************************************************************************)
EXTENDS Integers, Sequences, FiniteSetsExt, Functions

CONSTANTS
    FmBatches,      \* [problem -> the batch of each of its cases], 0 for a loose case.
    MaxTries,       \* Bound: submissions of the participation.
    Penalty,        \* For a try that failed, in the unit of the dates.
    FirstAcBonus, TimeBonus,
    WindowEnd       \* participation.end_time; it starts at 0.

\* What the constants are.
FormatsAssumption ==
    /\ \A p \in DOMAIN FmBatches : FmBatches[p] \in Seq(Nat)
    /\ Penalty \in Nat /\ FirstAcBonus \in Nat /\ TimeBonus \in Nat \ {0}
    /\ MaxTries \in Nat /\ WindowEnd >= MaxTries

VARIABLE fm_rows    \* The contest submissions: prob, points, result, status, cases.
                    \* Every case is worth a point of the contest problem.

FmProblems == DOMAIN FmBatches
Cases(p) == DOMAIN FmBatches[p]
FmTotal(p) == Cardinality({b \in Range(FmBatches[p]) : b # 0})
              + Cardinality({c \in Cases(p) : FmBatches[p][c] = 0})

FmInit == fm_rows = <<>>

\* Sum over a set.
Total(S, Op(_)) == MapThenSumSet(Op, S)

\* Case points of a grading: the minimum of every batch, and the loose cases.
FmCasePoints(p, cases) ==
    Total({b \in Range(FmBatches[p]) : b # 0},
          LAMBDA b : Min({cases[c] : c \in {d \in Cases(p) : FmBatches[p][d] = b}}))
    + Total({c \in Cases(p) : FmBatches[p][c] = 0}, LAMBDA c : cases[c])

FmSubmit(p) ==
    /\ Len(fm_rows) < MaxTries
    /\ fm_rows' = Append(fm_rows, [prob |-> p, points |-> 0, result |-> "none",
                                   status |-> "QU", cases |-> <<>>])

\* on_grading_end, with update_contest.
FmGrade(i) ==
    LET p == fm_rows[i].prob IN
    /\ fm_rows[i].status = "QU"
    /\ \E cases \in [Cases(p) -> {0, 1}] :
          fm_rows' = [fm_rows EXCEPT ![i] =
              [@ EXCEPT !.points = FmCasePoints(p, cases), !.status = "D", !.cases = cases,
                        !.result = IF 0 \in Range(cases) THEN "WA" ELSE "AC"]]

\* on_compile_error, on_internal_error, on_submission_terminated: no update_contest.
FmFail(i) ==
    /\ fm_rows[i].status = "QU"
    /\ \E result \in {"CE", "IE", "AB"} :
          fm_rows' = [fm_rows EXCEPT ![i].status = result, ![i].result = result]

\* judge_submission.
FmRejudge(i) ==
    /\ fm_rows[i].status # "QU"
    /\ fm_rows' = [fm_rows EXCEPT ![i].status = "QU", ![i].result = "none", ![i].cases = <<>>]

FmNext == \/ \E p \in FmProblems : FmSubmit(p)
          \/ \E i \in DOMAIN fm_rows : FmGrade(i) \/ FmFail(i) \/ FmRejudge(i)

FmSpec == FmInit /\ [][FmNext]_fm_rows

-----------------------------------------------------------------------------
(* The formats.                                                            *)

RowsOf(p) == {i \in DOMAIN fm_rows : fm_rows[i].prob = p}
Played == {p \in FmProblems : RowsOf(p) # {}}
BestPoints(p) == Max({fm_rows[i].points : i \in RowsOf(p)})
Scored == {p \in Played : BestPoints(p) > 0}

\* DefaultContestFormat: every problem counts with its best points and its last submission.
DefaultScore == Total(Played, BestPoints)
DefaultCumtime == Total(Scored, LAMBDA p : Max(RowsOf(p)))

\* MIN(date) of the submissions with the best points.
FirstBest(p) == Min({i \in RowsOf(p) : fm_rows[i].points = BestPoints(p)})

\* LegacyIOIContestFormat with cumtime; the score is the default one.
LegacyCumtime == Total(Scored, FirstBest)

Tried(p) == {i \in RowsOf(p) : fm_rows[i].result \notin {"none", "IE", "CE"}}

\* Mutant: the tries after the first best one are not left out.
AllPrevious(p) == IF p \in Scored THEN Cardinality(Tried(p)) - 1 ELSE Cardinality(Tried(p))

\* `prev` of the ICPC and AtCoder formats.
PreviousTries(p) ==
    IF p \in Scored THEN Cardinality({i \in Tried(p) : i <= FirstBest(p)}) - 1
    ELSE Cardinality(Tried(p))

PenaltyTime == Total(Scored, LAMBDA p : Penalty * PreviousTries(p))
LastScoring == IF Scored = {} THEN 0 ELSE Max({FirstBest(p) : p \in Scored})

ICPCCumtime == Total(Scored, FirstBest) + PenaltyTime
ICPCTiebreaker == LastScoring
AtCoderCumtime == LastScoring + PenaltyTime

\* IOIContestFormat: the best minimum of every batch over the finished submissions.  Loose
\* cases have no batch and count as one.
Finished(p) == {i \in RowsOf(p) : fm_rows[i].status = "D"}
BatchPoints(p, i, b) == Min({fm_rows[i].cases[c] : c \in {d \in Cases(p) : FmBatches[p][d] = b}})

\* Mutant: MIN for MAX.
WorstBatch(p, b) == Min({BatchPoints(p, i, b) : i \in Finished(p)})

BestBatch(p, b) == Max({BatchPoints(p, i, b) : i \in Finished(p)})

IOIPoints(p) == IF Finished(p) = {} THEN 0
                ELSE Total(Range(FmBatches[p]), LAMBDA b : BestBatch(p, b))
IOITime(p) == Max({Min({i \in Finished(p) : BatchPoints(p, i, b) = BestBatch(p, b)}) :
                   b \in Range(FmBatches[p])})
IOICumtime == Total({p \in Played : IOIPoints(p) > 0}, IOITime)

\* ECOOContestFormat: the last submission without IE or CE; one without a result counts.
Counted(p) == {i \in RowsOf(p) : fm_rows[i].result \notin {"IE", "CE"}}
ECOOBonus(p) ==
    LET last == Max(Counted(p)) IN
    IF fm_rows[last].points = 0 THEN 0
    ELSE (IF Cardinality(Counted(p)) = 1 /\ fm_rows[last].points = FmTotal(p)
          THEN FirstAcBonus ELSE 0) + (WindowEnd - last) \div TimeBonus
ECOOScore == Total({p \in Played : Counted(p) # {}},
                   LAMBDA p : fm_rows[Max(Counted(p))].points + ECOOBonus(p))

-----------------------------------------------------------------------------
(* Properties.                                                             *)

\* Every submission that has points was graded for them: none of them is waiting for, or
\* failed in, another grading.
Settled(p) == \A i \in RowsOf(p) : fm_rows[i].points > 0 => fm_rows[i].status = "D"

\* What the formats say of one participation fits together: the first scoring submission
\* is not after the last one; batches scored apart are worth no less than the best
\* submission and are complete no later than the last submission; AtCoder's time is at
\* most ICPC's; the tie-breaker is within the time.
FormatsAgree ==
    LET settled == \A p \in FmProblems : Settled(p)
        batched == \A p \in Played : 0 \notin Range(FmBatches[p]) IN
    /\ LegacyCumtime <= DefaultCumtime
    /\ AtCoderCumtime <= ICPCCumtime
    /\ settled /\ batched => /\ Total(Played, IOIPoints) >= DefaultScore
                             /\ IOICumtime <= DefaultCumtime
    /\ settled => ICPCTiebreaker <= ICPCCumtime
    /\ settled /\ (\A p \in Played : Cardinality(Counted(p)) = 1) => ECOOScore >= DefaultScore

\* Tries after the first best one are free: submitting, grading, failing or rejudging
\* one that does not raise the best points of its problem leaves time, penalty and
\* tie-breaker as they are.
LaterTriesAreFree ==
    \A p \in Scored :
        /\ \A q \in FmProblems \ {p} : RowsOf(q)' = RowsOf(q) /\ \A i \in RowsOf(q) : fm_rows'[i] = fm_rows[i]
        /\ \A i \in RowsOf(p) : i <= FirstBest(p) => fm_rows'[i] = fm_rows[i]
        /\ BestPoints(p)' = BestPoints(p)
        => /\ ICPCCumtime' = ICPCCumtime /\ ICPCTiebreaker' = ICPCTiebreaker
           /\ AtCoderCumtime' = AtCoderCumtime /\ LegacyCumtime' = LegacyCumtime
=============================================================================
