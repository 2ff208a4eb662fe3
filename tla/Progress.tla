------------------------------- MODULE Progress -------------------------------
(***************************************************************************)
(* What a connection to a judge keeps while a submission is graded: the    *)
(* batch of the cases that arrive, and how often their arrival is          *)
(* announced (judge/bridge/judge_handler.py).  The judge says where a      *)
(* batch begins and ends, but nothing when a grading is cut short inside   *)
(* one.                                                                    *)
(***************************************************************************)
EXTENDS Integers, FiniteSets, Sequences

CONSTANTS
    PrSubs,         \* Submissions graded on the connection.
    RateLimit,      \* UPDATE_RATE_LIMIT.
    RateTime,       \* UPDATE_RATE_TIME.
    MaxBatches,     \* Bound: batches of a grading.
    MaxPrCases,     \* Bound: cases of a grading.
    MaxGradings,    \* Bound: gradings, those of the same submission included.
    LastTick        \* Bound: of the clock.

\* What the constants are.
ProgressAssumption == RateLimit \in Nat \ {0} /\ RateTime \in Nat /\ LastTick \in Nat

NoBatch == 0
Nobody == [sub |-> "none"]

VARIABLES
    pr_judge,       \* The judge: the submission it grades, and the batch (in), batches and cases so far.
    pr_batch,       \* batch_id; 0 for None.
    pr_in,          \* in_batch.
    pr_rows,        \* Per submission: batch (Submission.batch), cases: SubmissionTestCase as <<case, batch>>,
                    \* where the judge had them, and when the last came.
    pr_counter,     \* update_counter: submission -> <<updates, reset>>.
    pr_clock,
    pr_gradings,
    pr_posts        \* History: per submission, the times at which its cases were announced.

prvars == <<pr_judge, pr_batch, pr_in, pr_rows, pr_counter, pr_clock, pr_gradings, pr_posts>>

PrInit ==
    /\ pr_judge = Nobody
    /\ pr_batch = NoBatch /\ pr_in = FALSE
    /\ pr_rows = [s \in PrSubs |-> [batch |-> FALSE, cases |-> {}, truth |-> {}, last |-> 0]]
    /\ pr_counter = [s \in PrSubs |-> <<>>]
    /\ pr_clock = 0 /\ pr_gradings = 0
    /\ pr_posts = [s \in PrSubs |-> <<>>]

\* Mutant: the batch of the grading before goes on.
KeptBatch == pr_batch

\* batch_id, when a grading begins.
FreshBatch == NoBatch

\* on_grading_begin.
GradingBegin(s) ==
    /\ pr_judge = Nobody /\ pr_gradings < MaxGradings
    /\ pr_gradings' = pr_gradings + 1
    /\ pr_judge' = [sub |-> s, in |-> NoBatch, batches |-> 0, cases |-> 0]
    /\ pr_batch' = FreshBatch
    /\ pr_rows' = [pr_rows EXCEPT ![s] = [batch |-> FALSE, cases |-> {}, truth |-> {}, last |-> 0]]
    /\ UNCHANGED <<pr_in, pr_counter, pr_clock, pr_posts>>

BatchBegin ==
    /\ pr_judge # Nobody /\ pr_judge.in = NoBatch /\ pr_judge.batches < MaxBatches
    /\ pr_judge' = [pr_judge EXCEPT !.in = pr_judge.batches + 1, !.batches = @ + 1]
    /\ pr_in' = TRUE
    /\ pr_batch' = pr_batch + 1
    /\ pr_rows' = IF pr_batch = NoBatch THEN [pr_rows EXCEPT ![pr_judge.sub].batch = TRUE] ELSE pr_rows
    /\ UNCHANGED <<pr_counter, pr_clock, pr_gradings, pr_posts>>

BatchEnd ==
    /\ pr_judge # Nobody /\ pr_judge.in # NoBatch
    /\ pr_judge' = [pr_judge EXCEPT !.in = NoBatch]
    /\ pr_in' = FALSE
    /\ UNCHANGED <<pr_batch, pr_rows, pr_counter, pr_clock, pr_gradings, pr_posts>>

\* Mutant: an update in a window that is over counts in it all the same.
NeverOver(reset) == FALSE

WindowOver(reset) == pr_clock - reset > RateTime

\* The counter after an update: a new window, or one more in the window.
CaseCounted(old) == IF old = <<>> \/ WindowOver(old[2]) THEN <<1, pr_clock>> ELSE <<old[1] + 1, old[2]>>

\* do_post.
Announced(new) == new[1] <= RateLimit

\* on_test_case.
TestCase ==
    LET s == pr_judge.sub
        case == pr_judge.cases + 1
        new == CaseCounted(pr_counter[s]) IN
    /\ pr_judge # Nobody /\ pr_judge.cases < MaxPrCases
    /\ pr_judge' = [pr_judge EXCEPT !.cases = case]
    /\ pr_rows' = [pr_rows EXCEPT ![s] =
          [batch |-> @.batch, last |-> pr_clock,
           cases |-> @.cases \cup {<<case, IF pr_in THEN pr_batch ELSE NoBatch>>},
           truth |-> @.truth \cup {<<case, pr_judge.in>>}]]
    /\ pr_counter' = [pr_counter EXCEPT ![s] = new]
    /\ pr_posts' = IF Announced(new) THEN [pr_posts EXCEPT ![s] = Append(@, pr_clock)] ELSE pr_posts
    /\ UNCHANGED <<pr_batch, pr_in, pr_clock, pr_gradings>>

\* on_grading_end, between batches.
GradingEnd ==
    /\ pr_judge # Nobody /\ pr_judge.in = NoBatch
    /\ pr_judge' = Nobody
    /\ pr_batch' = NoBatch
    /\ UNCHANGED <<pr_in, pr_rows, pr_counter, pr_clock, pr_gradings, pr_posts>>

\* on_compile_error, on_internal_error, on_submission_terminated: at any moment.
CutShort ==
    /\ pr_judge # Nobody
    /\ pr_judge' = Nobody
    /\ UNCHANGED <<pr_batch, pr_in, pr_rows, pr_counter, pr_clock, pr_gradings, pr_posts>>

PrTick == /\ pr_clock < LastTick
          /\ pr_clock' = pr_clock + 1
          /\ UNCHANGED <<pr_judge, pr_batch, pr_in, pr_rows, pr_counter, pr_gradings, pr_posts>>

PrNext == \/ \E s \in PrSubs : GradingBegin(s)
          \/ BatchBegin \/ BatchEnd \/ TestCase \/ GradingEnd \/ CutShort \/ PrTick

PrSpec == PrInit /\ [][PrNext]_prvars

-----------------------------------------------------------------------------
(* Properties.                                                             *)

\* Every case is stored in the batch the judge ran it in, and a submission says it has batches
\* when one of its cases is in one, whatever was cut short on this connection before.
BatchesAreTheJudges ==
    \A s \in PrSubs : /\ pr_rows[s].cases = pr_rows[s].truth
                      /\ (\E x \in pr_rows[s].cases : x[2] # NoBatch) => pr_rows[s].batch

\* In any interval as long as the window, a submission is announced fewer than twice the
\* limit.
AnnouncementsAreFew ==
    \A s \in PrSubs : \A t \in 0 .. LastTick :
      Cardinality({i \in DOMAIN pr_posts[s] : t <= pr_posts[s][i] /\ pr_posts[s][i] <= t + RateTime}) < 2 * RateLimit

\* Whenever a case arrives, one was announced no longer ago than the window is.
SilenceIsShort ==
    \A s \in PrSubs :
      pr_rows[s].cases # {} => \E i \in DOMAIN pr_posts[s] : pr_rows[s].last - pr_posts[s][i] <= RateTime

ProgressHolds == BatchesAreTheJudges /\ AnnouncementsAreFew /\ SilenceIsShort
=============================================================================
