---------------------------- MODULE SubmissionLife ----------------------------
(***************************************************************************)
(* What the site promises of a submission, whoever judges it and whatever  *)
(* is lost on the way.  A judging is asked for once and answered at most   *)
(* once, by a grade or a compile error; it goes forward from queue to      *)
(* processing to grading.  Internal errors and aborts are marks: they may  *)
(* come at any time, and a judging under way goes on below them.  One that *)
(* is only queued may fall out of the queue while it still shows as queued *)
(* (an abort whose reply is lost); one that has got further may not.       *)
(*                                                                         *)
(* Bridge implements this (SubmissionLifecycle): there a judging is a row, *)
(* entries of the scheduler, a packet to a judge and a result that a       *)
(* thread has still to write.                                              *)
(***************************************************************************)
CONSTANT Submissions

VARIABLES
    life,       \* [Submissions -> status shown]
    under,      \* submissions whose judging is under way
    whole,      \* submissions whose points count every test case
    lost,       \* submissions shown as queued that fell out of the queue
    free        \* submissions of which nothing is promised any more

lifeVars == <<life, under, whole, lost, free>>

Lives == {"QU", "P", "G", "D", "CE", "IE", "AB"}
Pending == {"QU", "P", "G"}
Marks == {"IE", "AB"}

LifeInit ==
    /\ life = [s \in Submissions |-> "D"]
    /\ under = {} /\ whole = Submissions /\ lost = {} /\ free = {}

Unchanged(s) == /\ life'[s] = life[s]
                /\ s \in under' <=> s \in under
                /\ s \in whole' <=> s \in whole
                /\ s \in lost' <=> s \in lost

\* A new judging is asked for; none is under way.
Ask(s) ==
    /\ s \notin under /\ s \in under'
    /\ life'[s] = "QU" /\ s \notin whole' /\ s \notin lost'

\* The judging goes forward, maybe below a mark.
Advance(s) ==
    /\ s \in under /\ s \in under' /\ s \notin lost'
    /\ \/ life[s] \in {"QU"} \cup Marks /\ life'[s] = "P"
       \/ life[s] \in {"P"} \cup Marks /\ life'[s] = "G"
    /\ s \in whole' <=> s \in whole

\* Its answer.
Answer(s) ==
    /\ s \in under /\ s \notin under' /\ s \notin lost'
    /\ \/ life[s] \in {"G"} \cup Marks /\ life'[s] = "D" /\ s \in whole'
       \/ /\ life[s] \in {"P"} \cup Marks /\ life'[s] = "CE"
          /\ s \in whole' <=> s \in whole

\* A mark, which may end the judging, and an abort clears the points.
Mark(s) ==
    /\ life'[s] \in Marks /\ s \notin lost'
    /\ s \in under' => s \in under
    /\ s \in whole' => s \in whole
    /\ life'[s] = "AB" => s \notin whole'

\* A judging that is still queued or below a mark is lost.  One that is shown as
\* queued then stays so, until it is asked for again or marked.
Forget(s) ==
    /\ life[s] \in {"QU"} \cup Marks /\ life'[s] = life[s]
    /\ s \in under /\ s \notin under'
    /\ s \in lost' <=> life[s] = "QU"
    /\ s \in whole' <=> s \in whole

Step(s) == Unchanged(s) \/ Ask(s) \/ Advance(s) \/ Answer(s) \/ Mark(s) \/ Forget(s)

\* Several submissions may move at once: the daemon starts, a judge acknowledges the
\* wrong one.
LifeNext ==
    /\ life' \in [Submissions -> Lives]
    /\ under' \subseteq Submissions /\ whole' \subseteq Submissions
    /\ lost' \subseteq Submissions
    /\ free \subseteq free' /\ free' \subseteq Submissions
    /\ \A s \in Submissions \ free' : Step(s)

LifeSpec == LifeInit /\ [][LifeNext]_lifeVars

-----------------------------------------------------------------------------
\* A submission shown as in progress has a judging under way, or is queued and fell out
\* of the queue; and one that is shown as graded has points that count every test case.
LifeHolds ==
    \A s \in Submissions \ free :
       /\ life[s] \in Pending => s \in under \/ (life[s] = "QU" /\ s \in lost)
       /\ life[s] = "D" => s \in whole

\* The shape of the abstract state.
LifeTypeOK ==
    /\ life \in [Submissions -> Lives]
    /\ under \subseteq Submissions /\ whole \subseteq Submissions
    /\ lost \subseteq Submissions /\ free \subseteq Submissions
=============================================================================
