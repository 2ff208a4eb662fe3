------------------------------- MODULE Bridge -------------------------------
(***************************************************************************)
(* The life of a submission: the scheduler of JudgeList composed with      *)
(*   - the submission rows and their test cases in the database,           *)
(*   - the requests of the web site (judge/judgeapi.py),                   *)
(*   - the packet handlers of a judge connection and what they write       *)
(*     (judge/bridge/judge_handler.py), and                                *)
(*   - the start of the daemon (judge/bridge/daemon.py).                   *)
(*                                                                         *)
(* Nothing holds the database and the scheduler's lock together.  A web    *)
(* request is three or two steps (its first query, its second, the packet  *)
(* to the bridge); a packet that ends a grading is two or three: it frees  *)
(* the judge under the lock, reads the database, writes the result.  In    *)
(* between, others run.                                                    *)
(*                                                                         *)
(* A judge grades one submission at a time and reports a final packet for  *)
(* each: acknowledgement, then a compile error, or every test case and the *)
(* end; an internal error at any point; `terminated' if it was told so.    *)
(***************************************************************************)
EXTENDS JudgeList

CONSTANTS
    Workers,      \* web processes that judge, rejudge and abort
    LastCase,     \* test cases of a problem: 1 .. LastCase
    Abortable,    \* bound: submissions that are ever aborted
    LosesReplies, \* whether a reply of the bridge to the web site may be lost
    MaxRestarts   \* bound: crashes of the bridge

ASSUME BridgeAssumption ==
    /\ Abortable \subseteq Subs
    /\ LastCase \in Nat \ {0}
    /\ LosesReplies \in BOOLEAN
    /\ MaxRestarts \in Nat

VARIABLES
    status,    \* Submission.status
    cases,     \* rows of SubmissionTestCase
    score,     \* the cases that the saved points were computed from
    web,       \* what each web process is in the middle of
    task,      \* the result a handler thread has still to write
    cur,       \* the submission the judge is grading
    prog,      \* the next test case it will report; 0 before grading-begin
    term,      \* judges told to terminate what they grade
    up,        \* the bridge is running
    restarts,  \* bound counter
    disputed,  \* history: submissions rejudged in another status than those
               \* that lock them, while something still held them
    dropped,   \* history: submissions taken out of the queue by an abort whose
               \* reply the web site never had, and not asked for again
    astray     \* history: submissions with a judge that works on another, or in
               \* the map for a judge that never had them

rows == <<status, cases, score>>
judging == <<cur, prog, term>>
daemon == <<up, restarts, dropped>>
bridgeVars == <<vars, rows, web, task, judging, daemon, disputed, astray>>

Statuses == {"QU", "P", "G", "D", "IE", "CE", "AB"}
IN_PROGRESS == {"QU", "P", "G"}

\* Submission.points is null, or zero by an abort: no test case is numbered 0.
NoScore == {0}
NoTask == <<>>
Resting == <<"idle">>

-----------------------------------------------------------------------------
(* The web site.                                                           *)

\* Web process w is inside judge_submission for s.
Judging(w, s) ==
    \E pc \in {"delete", "request", "failed"} : \E r \in Requests :
       r.id = s /\ web[w] = <<pc, r>>

\* The handler thread of j has still to write a result of s.
Owes(j, s) == task[j] # NoTask /\ task[j][2] = s

\* Something beside the database still refers to an earlier judging of s.
Held(s) ==
    \/ Known(s)
    \/ \E j \in Judges : s \in sent[j] \/ Owes(j, s)
    \/ \E w \in Workers : Judging(w, s)

\* Mutant: a submission that is being graded is accepted.
LockedNever == {}

\* Statuses in which judge_submission refuses.
Locked == {"P", "G"}

\* judge_submission up to its conditional update of the row.
JudgeUpdate(w, r) ==
    /\ web[w] = Resting
    /\ status[r.id] \notin Locked
    /\ status' = [status EXCEPT ![r.id] = "QU"]
    /\ score' = [score EXCEPT ![r.id] = NoScore]
    /\ web' = [web EXCEPT ![w] = <<"delete", r>>]
    /\ disputed' = IF status[r.id] \notin {"P", "G"} /\ Held(r.id)
                   THEN disputed \cup {r.id} ELSE disputed
    /\ UNCHANGED <<vars, cases, task, judging, daemon>>

\* It deletes the test cases of the earlier judging.
JudgeDelete(w) ==
    /\ \E r \in Requests :
          /\ web[w] = <<"delete", r>>
          /\ cases' = [cases EXCEPT ![r.id] = {}]
          /\ web' = [web EXCEPT ![w] = <<"request", r>>]
    /\ UNCHANGED <<vars, status, score, task, judging, daemon, disputed>>

\* It sends the submission to the bridge, whose handler runs to the reply.
JudgeRequest(w) ==
    /\ \E r \in Requests :
          /\ web[w] = <<"request", r>>
          /\ \/ up /\ Judge(r) /\ web' = [web EXCEPT ![w] = Resting]
             \/ /\ up /\ LosesReplies /\ Judge(r)
                /\ web' = [web EXCEPT ![w] = <<"failed", r>>]
             \/ /\ ~up /\ UNCHANGED vars
                /\ web' = [web EXCEPT ![w] = <<"failed", r>>]
          /\ dropped' = dropped \ {r.id}
    /\ UNCHANGED <<rows, task, judging, up, restarts, disputed>>

\* The exception handler of judge_submission.
JudgeFailed(w) ==
    /\ \E r \in Requests :
          /\ web[w] = <<"failed", r>>
          /\ status' = [status EXCEPT ![r.id] = "IE"]
    /\ web' = [web EXCEPT ![w] = Resting]
    /\ UNCHANGED <<vars, cases, score, task, judging, daemon, disputed>>

\* abort_submission up to its test of the row it has loaded.
AbortCheck(w, s) ==
    /\ web[w] = Resting
    /\ status[s] # "D"
    /\ web' = [web EXCEPT ![w] = <<"abort", s>>]
    /\ UNCHANGED <<vars, rows, task, judging, daemon, disputed>>

\* It asks the bridge: a dispatched submission is left to its judge, otherwise the
\* web site marks it.  A reply that is lost raises, whatever the bridge has done.
AbortRequest(w) ==
    /\ \E s \in Subs :
          /\ web[w] = <<"abort", s>>
          /\ \/ /\ up /\ Abort(s) /\ submission_map[s] # NoJudge
                /\ term' = term \cup {submission_map[s]}
                /\ web' = [web EXCEPT ![w] = Resting]
                /\ UNCHANGED dropped
             \/ /\ up /\ submission_map[s] = NoJudge
                /\ IF node_map[s] # NoNode THEN Abort(s) ELSE UNCHANGED vars
                /\ \/ /\ web' = [web EXCEPT ![w] = <<"mark", s>>]
                      /\ UNCHANGED dropped
                   \/ /\ LosesReplies
                      /\ web' = [web EXCEPT ![w] = Resting]
                      /\ dropped' = IF node_map[s] # NoNode THEN dropped \cup {s}
                                    ELSE dropped
                /\ UNCHANGED term
             \/ /\ ~up /\ UNCHANGED <<vars, term, dropped>>
                /\ web' = [web EXCEPT ![w] = Resting]
    /\ UNCHANGED <<rows, task, cur, prog, up, restarts, disputed>>

AbortMark(w) ==
    /\ \E s \in Subs :
          /\ web[w] = <<"mark", s>>
          /\ status' = [status EXCEPT ![s] = "AB"]
          /\ score' = [score EXCEPT ![s] = NoScore]
    /\ web' = [web EXCEPT ![w] = Resting]
    /\ UNCHANGED <<vars, cases, task, judging, daemon, disputed>>

-----------------------------------------------------------------------------
(* Packets of a judge.                                                     *)

\* The handler thread of j reads its next packet.
Reads(j) == up /\ Listening(j) /\ j \notin closed /\ task[j] = NoTask

\* on_submission_acknowledged.  After a wrong acknowledgement it closes the
\* connection but goes on to on_submission_processing.
Acknowledge(j, s) ==
    /\ Reads(j) /\ cur[j] = NoSub /\ s \in sent[j]
    /\ cur' = [cur EXCEPT ![j] = s]
    /\ prog' = [prog EXCEPT ![j] = 0]
    /\ \/ /\ working[j] = s
          /\ status' = [status EXCEPT ![s] = "P"]
          /\ UNCHANGED vars
       \/ /\ working[j] # s
          /\ status' = [x \in Subs |-> IF x = s THEN "P"
                                       ELSE IF x = working[j] THEN "IE"
                                       ELSE status[x]]
          /\ closed' = closed \cup {j}
          /\ UNCHANGED <<conn, scheduler, working, is_disabled, problems, updating,
                         sent, history>>
    /\ UNCHANGED <<cases, score, web, task, term, daemon, disputed>>

\* on_grading_begin deletes the test cases.
GradingBegin(j) ==
    LET s == cur[j] IN
    /\ Reads(j) /\ s # NoSub /\ prog[j] = 0
    /\ prog' = [prog EXCEPT ![j] = 1]
    /\ status' = [status EXCEPT ![s] = "G"]
    /\ cases' = [cases EXCEPT ![s] = {}]
    /\ UNCHANGED <<vars, score, web, task, cur, term, daemon, disputed>>

\* on_test_case.
TestCase(j) ==
    LET s == cur[j] IN
    /\ Reads(j) /\ s # NoSub /\ prog[j] \in 1 .. LastCase
    /\ prog' = [prog EXCEPT ![j] = @ + 1]
    /\ cases' = [cases EXCEPT ![s] = @ \cup {prog[j]}]
    /\ UNCHANGED <<vars, status, score, web, task, cur, term, daemon, disputed>>

\* The packets that may end the grading of j's submission, by the status they lead to.
Endings(j) ==
    {"IE"} \cup (IF prog[j] > LastCase THEN {"D"} ELSE {})
           \cup (IF prog[j] = 0 THEN {"CE"} ELSE {})
           \cup (IF j \in term THEN {"AB"} ELSE {})

\* on_grading_end, on_compile_error, on_internal_error, on_submission_terminated up
\* to the end of on_judge_free, which raises if the entry is missing.
End(j, kind) ==
    LET s == cur[j] IN
    /\ Reads(j) /\ s # NoSub /\ kind \in Endings(j)
    /\ OnJudgeFree(j, s)
    /\ task' = [task EXCEPT ![j] = IF submission_map[s] = NoJudge THEN NoTask
                                   ELSE <<kind, s>>]
    /\ cur' = [cur EXCEPT ![j] = NoSub]
    /\ term' = term \ {j}
    /\ UNCHANGED <<rows, web, prog, daemon, disputed>>

\* on_grading_end loads the row and the test cases it adds up.
Tally(j) ==
    /\ up
    /\ \E s \in Subs : /\ task[j] = <<"D", s>>
                        /\ task' = [task EXCEPT ![j] = <<"D", s, cases[s]>>]
    /\ UNCHANGED <<vars, rows, web, judging, daemon, disputed>>

\* What the handlers of final packets, and on_disconnect, then write.
Write(j) ==
    /\ up
    /\ \E s \in Subs :
          \/ \E sum \in SUBSET (1 .. LastCase) :
                /\ task[j] = <<"D", s, sum>>
                /\ status' = [status EXCEPT ![s] = "D"]
                /\ score' = [score EXCEPT ![s] = sum]
          \/ /\ task[j] = <<"AB", s>>
             /\ status' = [status EXCEPT ![s] = "AB"]
             /\ score' = [score EXCEPT ![s] = NoScore]
          \/ \E kind \in {"IE", "CE"} :
                /\ task[j] = <<kind, s>>
                /\ status' = [status EXCEPT ![s] = kind]
                /\ UNCHANGED score
    /\ task' = [task EXCEPT ![j] = NoTask]
    /\ UNCHANGED <<vars, cases, web, judging, daemon, disputed>>

\* Mutant: on_disconnect does not look at _working again.
LostNothing(j) == NoTask

\* Mutant: nor does it look at whether there was one.
LostAlways(j) == <<"IE", working[j]>>

\* Mutant: it goes by what the judge has acknowledged.
LostAcknowledged(j) == IF cur[j] = NoSub THEN NoTask ELSE <<"IE", cur[j]>>

\* What on_disconnect has still to write after it left the pool.
Lost(j) == IF working[j] = NoSub THEN NoTask ELSE <<"IE", working[j]>>

\* on_disconnect up to JudgeList.remove.
Leave(j) ==
    /\ up /\ task[j] = NoTask
    /\ Disconnect(j)
    /\ task' = [task EXCEPT ![j] = Lost(j)]
    /\ cur' = [cur EXCEPT ![j] = NoSub]
    /\ term' = term \ {j}
    /\ UNCHANGED <<rows, web, prog, daemon, disputed>>

\* What a connection does that touches no submission row.
Connection(j) ==
    /\ up /\ task[j] = NoTask
    /\ \/ \E kinds \in Offers : Handshake(j, kinds)
       \/ Register(j)
       \/ \E disabled \in BOOLEAN : Connected(j, disabled)
       \/ \E kinds \in Offers : j \in Updaters /\ SupportedProblems(j, kinds)
       \/ UpdateProblems(j)
    /\ UNCHANGED <<rows, web, task, judging, daemon, disputed>>

\* An administrator disconnects or disables a judge.
Administer(n) ==
    /\ up
    /\ \/ ForceDisconnect(n)
       \/ \E disabled \in BOOLEAN : UpdateDisableJudge(n, disabled)
    /\ UNCHANGED <<rows, web, task, judging, daemon, disputed>>

-----------------------------------------------------------------------------
(* The daemon.                                                             *)

\* The bridge stops: its memory and its connections are gone.  Judges connect
\* again, as new connections.
Crash ==
    /\ up /\ restarts < MaxRestarts
    /\ up' = FALSE /\ restarts' = restarts + 1
    /\ conn' = [j \in Judges |-> "connected"]
    /\ judges' = {}
    /\ queue' = [p \in Priorities |-> <<>>]
    /\ node_map' = [s \in Subs |-> NoNode]
    /\ submission_map' = [s \in Subs |-> NoJudge]
    /\ working' = [j \in Judges |-> NoSub]
    /\ is_disabled' = [j \in Judges |-> FALSE]
    /\ problems' = [j \in Judges |-> {}]
    /\ closed' = {} /\ updating' = {}
    /\ sent' = [j \in Judges |-> {}]
    /\ failed' = {} /\ raced' = {} /\ reenabled' = {}
    /\ task' = [j \in Judges |-> NoTask]
    /\ cur' = [j \in Judges |-> NoSub]
    /\ prog' = [j \in Judges |-> 0]
    /\ term' = {}
    /\ UNCHANGED <<rows, web, disputed, dropped>>

\* Mutant: queued submissions are forgotten.
InterruptedGrading == {"P", "G"}

\* Statuses that cannot have survived the stop.
Interrupted == IN_PROGRESS

\* judge_daemon.
Start ==
    /\ ~up /\ up' = TRUE
    /\ status' = [s \in Subs |-> IF status[s] \in Interrupted THEN "IE"
                                 ELSE status[s]]
    /\ dropped' = {}
    /\ UNCHANGED <<vars, cases, score, web, task, judging, restarts, disputed>>

-----------------------------------------------------------------------------
\* Every submission has been graded before; a first judging is a rejudge of one
\* that has never been.
BridgeInit ==
    /\ Init
    /\ status = [s \in Subs |-> "D"]
    /\ cases = [s \in Subs |-> 1 .. LastCase]
    /\ score = [s \in Subs |-> 1 .. LastCase]
    /\ web = [w \in Workers |-> Resting]
    /\ task = [j \in Judges |-> NoTask]
    /\ cur = [j \in Judges |-> NoSub]
    /\ prog = [j \in Judges |-> 0]
    /\ term = {}
    /\ up = TRUE /\ restarts = 0
    /\ disputed = {} /\ dropped = {} /\ astray = {}

WebStep(w) ==
    \/ JudgeDelete(w) \/ JudgeRequest(w) \/ JudgeFailed(w)
    \/ AbortRequest(w) \/ AbortMark(w)

JudgeStep(j) ==
    \/ \E s \in Subs : Acknowledge(j, s)
    \/ GradingBegin(j) \/ TestCase(j)
    \/ \E kind \in Statuses : End(j, kind)

\* s is with a judge that works on another, or in the map for one that never had it.
Strays(s) ==
    \E j \in Judges : \/ s \in sent[j] /\ working[j] # s
                      \/ submission_map[s] = j /\ s \notin sent[j]

\* What history notes of a step; a crash clears it with all the rest.
Noted ==
    astray' = (IF Crash THEN {} ELSE astray) \cup {s \in Subs : Strays(s)'}

Happens ==
    \/ \E w \in Workers :
          \/ \E r \in Requests : JudgeUpdate(w, r)
          \/ \E s \in Abortable : AbortCheck(w, s)
          \/ WebStep(w)
    \/ \E j \in Judges : JudgeStep(j) \/ Tally(j) \/ Write(j) \/ Leave(j) \/ Connection(j)
    \/ \E n \in Managed : Administer(n)
    \/ Crash
    \/ Start

BridgeNext == Happens /\ Noted

BridgeSpec == BridgeInit /\ [][BridgeNext]_bridgeVars

\* Web processes and handler threads run on, a judge that is grading goes on, the
\* daemon is started again.  Nobody is obliged to connect or to submit.
BridgeFairness ==
    /\ \A w \in Workers : WF_bridgeVars(WebStep(w) /\ Noted)
    /\ \A j \in Judges :
          /\ SF_bridgeVars(JudgeStep(j) /\ Noted)
          /\ WF_bridgeVars((Tally(j) \/ Write(j)) /\ Noted)
          /\ WF_bridgeVars(Connection(j) /\ conn[j] # "connected" /\ Noted)
    /\ WF_bridgeVars(Start /\ Noted)

BridgeFairSpec == BridgeSpec /\ BridgeFairness

-----------------------------------------------------------------------------
(* Properties.                                                             *)

\* The shape of the rows and of what the threads are in the middle of.
BridgeTypeOK ==
    /\ TypeOK
    /\ status \in [Subs -> Statuses]
    /\ cases \in [Subs -> SUBSET (1 .. LastCase)]
    /\ score \in [Subs -> {NoScore} \cup SUBSET (1 .. LastCase)]
    /\ web \in [Workers -> {Resting}
                  \cup {"delete", "request", "failed"} \X Requests
                  \cup {"abort", "mark"} \X Subs]
    /\ task \in [Judges -> {NoTask} \cup Statuses \X Subs
                             \cup {"D"} \X Subs \X SUBSET (1 .. LastCase)]
    /\ cur \in [Judges -> Subs \cup {NoSub}]
    /\ prog \in [Judges -> 0 .. LastCase + 1]
    /\ term \subseteq Judges
    /\ up \in BOOLEAN /\ restarts \in 0 .. MaxRestarts
    /\ disputed \subseteq Subs /\ dropped \subseteq Subs /\ astray \subseteq Subs

\* Something will still change the status of s.
Attended(s) ==
    \/ node_map[s] # NoNode
    \/ \E j \in Judges : s \in sent[j] \/ Owes(j, s)
    \/ \E w \in Workers : Judging(w, s) \/ web[w] = <<"mark", s>>

\* s still shows as queued, and an abort whose reply was lost has taken it out.
FellOut(s) == status[s] = "QU" /\ s \in dropped

\* No submission is shown as queued, processing or grading while nobody is going to
\* grade it, whatever fails, disconnects, is aborted or restarts; except one that an
\* abort took out of the queue while its reply was lost, which stays queued until it
\* is asked for again, and one that went astray: of two submissions given to one judge
\* only that in _working is looked after, and a failed dispatch leaves its entry.
NobodyIsForgotten ==
    up => \A s \in Subs \ astray :
             status[s] \in IN_PROGRESS => Attended(s) \/ FellOut(s)

\* A graded submission has a score that counts every test case, unless it was
\* rejudged after it was accepted and before it was acknowledged, or while a result
\* of the judging before was still to be written: refusing P and G is enough, even if
\* dispatches fail and the bridge crashes.
ScoreIsComplete ==
    \A s \in Subs \ disputed : status[s] = "D" => score[s] = 1 .. LastCase

\* A web process has still to mark s.
Marking(w, s) ==
    \/ web[w] = <<"mark", s>>
    \/ \E r \in Requests : r.id = s /\ web[w] = <<"failed", r>>

\* The judging of s is under way: it is on its way to the bridge or a judge, or a mark or
\* the start of the daemon is about to settle it.
Under(s) ==
    \/ Known(s)
    \/ \E j \in Judges : s \in sent[j] \/ Owes(j, s)
    \/ \E w \in Workers : Judging(w, s) /\ ~Marking(w, s)
    \/ /\ status[s] \in IN_PROGRESS /\ ~FellOut(s)
       /\ ~up \/ \E w \in Workers : Marking(w, s)

Life == INSTANCE SubmissionLife WITH
    Submissions <- Subs,
    life <- status,
    under <- {s \in Subs : Under(s)},
    whole <- {s \in Subs : score[s] = 1 .. LastCase},
    lost <- {s \in Subs : FellOut(s) /\ ~Under(s)},
    free <- disputed

\* Web processes, scheduler, judges and daemon together implement SubmissionLife, if no
\* dispatch fails: a judging is answered at most once, whatever is lost, and forward only.
SubmissionLifecycle == Life!LifeSpec

\* Every submission that is queued, processing or grading is settled, if an enabled
\* judge that can grade it stays connected and no dispatch fails, or an abort whose
\* reply is lost drops it.
SubmissionsSettle ==
    \A s \in Subs :
       status[s] \in IN_PROGRESS ~>
          \/ status[s] \notin IN_PROGRESS
          \/ ~Undisturbed \/ s \in dropped
          \/ \A j \in judges : is_disabled[j] \/ KindOf[s] \notin problems[j]

-----------------------------------------------------------------------------
(* What comments in the code promise.                                      *)

\* Rejudging while already queued "does not lead to data corruption"
\* (judgeapi.py:74-75): the score of a graded submission counts every test case.
RejudgeDoesNotCorrupt ==
    \A s \in Subs : status[s] = "D" => score[s] = 1 .. LastCase

\* The test of the status keeps "fully graded submissions" from being "marked as
\* aborted" (judgeapi.py:113-114).
GradedIsNotAborted ==
    [][\A s \in Subs : status[s] = "D" => status'[s] # "AB"]_bridgeVars
=============================================================================
