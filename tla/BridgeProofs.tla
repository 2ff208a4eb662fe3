---------------------------- MODULE BridgeProofs ----------------------------
(***************************************************************************)
(* Theorems about Bridge, for any number of judges, names, web processes,  *)
(* submissions, test cases, failures, crashes and lost replies:            *)
(*  - the types (BridgeTypeHolds);                                         *)
(*  - a submission that nobody disputes is graded with every test case     *)
(*    (GradedWithEveryCase), by GradingInv: it is in one place at a time   *)
(*    (OneGrading), so the rows that a grading adds up are those its own   *)
(*    judge has reported (CasesAreTold);                                   *)
(*  - what shows as in progress is attended to by somebody               *)
(*    (NobodyIsEverForgotten), unless it went astray itself or fell out of *)
(*    the queue by an abort whose reply was lost: what is not astray is    *)
(*    filed under its judge (FiledInv), leaves it only for a thread that   *)
(*    owes its result, and what is processing or grading is with a judge   *)
(*    or owed (Started);                                                   *)
(*  - while nothing fails, the bridge implements SubmissionLife            *)
(*    (BridgeImplementsLife), by OneHolder and Phases: a judging has one   *)
(*    holder, and the status tells how far that holder has come;           *)
(*  - whatever implements SubmissionLife keeps its promise                 *)
(*    (LifeAlwaysHolds).                                                   *)
(* The steps of Bridge are steps of the scheduler, crashes or sockets shut *)
(* down (SchedulerSteps), which carries over what JudgeListProofs proves.  *)
(***************************************************************************)
EXTENDS Bridge, JudgeListProofs, SubmissionLife

-----------------------------------------------------------------------------
(* What the scheduler does in a step of the bridge.                        *)

\* The shape of what Bridge adds to the scheduler.
RowsTypeOK ==
    /\ status \in [Subs -> Statuses]
    /\ cases \in [Subs -> SUBSET (1 .. LastCase)]
    /\ score \in [Subs -> {NoScore} \cup SUBSET (1 .. LastCase)]
    /\ web \in [Workers -> {Resting}
                  \cup {"delete", "request", "failed"} \X Requests
                  \cup {"abort", "mark"} \X Subs]
    /\ task \in [Judges -> {NoTask} \cup Statuses \X Subs
                             \cup {"D"} \X Subs \X SUBSET (1 .. LastCase)]
    /\ cur \in [Judges -> Subs \cup {NoSub}]
    /\ prog \in [Judges -> 0 .. LastCase + 1]
    /\ term \subseteq Judges
    /\ up \in BOOLEAN /\ restarts \in 0 .. MaxRestarts
    /\ disputed \subseteq Subs /\ dropped \subseteq Subs /\ astray \subseteq Subs

\* BridgeTypeOK is the typing of the scheduler and that of what Bridge adds.
LEMMA BridgeTypeSplits == BridgeTypeOK <=> TypeOK /\ RowsTypeOK
BY DEF BridgeTypeOK, RowsTypeOK

\* The bridge shuts down the socket of j after a wrong acknowledgement.
HangUp(j) ==
    /\ closed' = closed \cup {j}
    /\ UNCHANGED <<conn, scheduler, working, is_disabled, problems, updating,
                   sent, history>>

\* To the scheduler an acknowledgement is nothing, or the end of a socket.
LEMMA AcknowledgeHangsUp ==
    ASSUME NEW j \in Judges, NEW s \in Subs, Acknowledge(j, s)
    PROVE  UNCHANGED vars \/ HangUp(j)
BY DEF Acknowledge, HangUp

\* A socket shut down leaves the queue and its map as they are.
LEMMA HangUpKeepsQueueInv ==
    ASSUME QueueInv, NEW j \in Judges, HangUp(j)
    PROVE  QueueInv'
<1>1. TypeOK'
  BY DEF HangUp, scheduler, history, TypeOK, QueueInv
<1>2. QED
  BY <1>1 DEF HangUp, scheduler, QueueInv, QueueMatchesNodeMap,
              QueuedNotDispatched, FreshIsUnused

\* A crash leaves the scheduler as it is when it starts.
LEMMA CrashStartsAgain ==
    ASSUME Crash
    PROVE  Init'
BY DEF Crash, Init

\* The invariants of the scheduler hold when it starts again after a crash.
LEMMA InitAgain == Init' => QueueInv' /\ Flight' /\ Undisturbed'
<1>1. Init => QueueInv
  BY QueueInvInit
<1>2. Init => Flight /\ Undisturbed
  BY FlightInvInductive, FlightInvSplits DEF Init, Undisturbed
<1>3. QED
  BY <1>1, <1>2, PTL

\* Every step of the bridge is a step of the scheduler, a crash, or a socket shut down.
LEMMA SchedulerSteps ==
    ASSUME RowsTypeOK, [BridgeNext]_bridgeVars
    PROVE  [Next]_vars \/ Crash \/ \E j \in Judges : HangUp(j)
<1>1. CASE UNCHANGED vars
  BY <1>1
<1>2. CASE UNCHANGED bridgeVars
  BY <1>2 DEF bridgeVars
<1>3. ASSUME NEW w \in Workers, NEW r \in Requests, JudgeUpdate(w, r)
      PROVE  UNCHANGED vars
  BY <1>3 DEF JudgeUpdate
<1>4. ASSUME NEW w \in Workers, NEW s \in Abortable, AbortCheck(w, s)
      PROVE  UNCHANGED vars
  BY <1>4 DEF AbortCheck
<1>5. ASSUME NEW w \in Workers, WebStep(w)
      PROVE  [Next]_vars
  <2>1. ASSUME JudgeRequest(w)
        PROVE  [Next]_vars
    BY <2>1 DEF JudgeRequest, Next
  <2>2. ASSUME AbortRequest(w)
        PROVE  [Next]_vars
    BY <2>2 DEF AbortRequest, Next
  <2>3. ASSUME JudgeDelete(w) \/ JudgeFailed(w) \/ AbortMark(w)
        PROVE  UNCHANGED vars
    BY <2>3 DEF JudgeDelete, JudgeFailed, AbortMark
  <2>4. QED
    BY <1>5, <2>1, <2>2, <2>3 DEF WebStep
<1>6. ASSUME NEW j \in Judges, JudgeStep(j)
      PROVE  [Next]_vars \/ HangUp(j)
  <2>1. ASSUME NEW s \in Subs, Acknowledge(j, s)
        PROVE  UNCHANGED vars \/ HangUp(j)
    BY <2>1, AcknowledgeHangsUp
  <2>2. ASSUME GradingBegin(j) \/ TestCase(j)
        PROVE  UNCHANGED vars
    BY <2>2 DEF GradingBegin, TestCase
  <2>3. ASSUME NEW kind \in Statuses, End(j, kind)
        PROVE  Next
    <3>1. cur[j] \in Subs /\ OnJudgeFree(j, cur[j])
      BY <2>3 DEF End, RowsTypeOK
    <3>2. QED
      BY <3>1 DEF Next
  <2>4. QED
    BY <1>6, <2>1, <2>2, <2>3 DEF JudgeStep
<1>7. ASSUME NEW j \in Judges, Tally(j) \/ Write(j)
      PROVE  UNCHANGED vars
  BY <1>7 DEF Tally, Write
<1>8. ASSUME NEW j \in Judges, Leave(j)
      PROVE  Next
  BY <1>8 DEF Leave, Next
<1>9. ASSUME NEW j \in Judges, Connection(j)
      PROVE  Next
  BY <1>9 DEF Connection, Next
<1>10. ASSUME NEW n \in Managed, Administer(n)
       PROVE  Next
  BY <1>10 DEF Administer, Next
<1>11. ASSUME Start
       PROVE  UNCHANGED vars
  BY <1>11 DEF Start
<1>12. QED
  BY <1>1, <1>2, <1>3, <1>4, <1>5, <1>6, <1>7, <1>8, <1>9, <1>10, <1>11
     DEF BridgeNext, Happens

\* The inductive invariant of the scheduler alone holds in the bridge.
LEMMA SchedulerKeepsQueueInv ==
    ASSUME RowsTypeOK, QueueInv, [BridgeNext]_bridgeVars
    PROVE  QueueInv'
BY SchedulerSteps, QueueInvStep, CrashStartsAgain, InitAgain, HangUpKeepsQueueInv

\* While nothing fails, what is in flight stays exact; a crash starts again.
LEMMA SchedulerKeepsFlight ==
    ASSUME RowsTypeOK, QueueInv, Undisturbed => Flight, [BridgeNext]_bridgeVars,
           Undisturbed'
    PROVE  Flight'
<1>1. CASE [Next]_vars
  BY <1>1, HistoryGrows, FlightStep
<1>2. ASSUME NEW j \in Judges, HangUp(j)
      PROVE  Flight'
  BY <1>2 DEF HangUp, scheduler, history, Undisturbed, Flight, Exact, Pool
<1>3. QED
  BY <1>1, <1>2, SchedulerSteps, CrashStartsAgain, InitAgain

-----------------------------------------------------------------------------
(* Types.                                                                  *)

\* The initial rows, threads and judges have their types.
LEMMA RowsTypeInit ==
    ASSUME BridgeInit
    PROVE  RowsTypeOK
BY BridgeAssumption, NonesAssumption DEF BridgeInit, RowsTypeOK, Statuses

\* Every step of the bridge keeps the types.
LEMMA RowsTypeStep ==
    ASSUME TypeOK, RowsTypeOK, [BridgeNext]_bridgeVars
    PROVE  RowsTypeOK'
<1> USE BridgeAssumption, SetsAssumption DEF RowsTypeOK
<1>0. astray' \subseteq Subs
  BY DEF BridgeNext, Noted, bridgeVars
<1> USE <1>0
<1>1. CASE UNCHANGED <<rows, web, task, judging, daemon, disputed>>
  BY <1>1 DEF rows, judging, daemon
<1>2. CASE UNCHANGED bridgeVars
  BY <1>2 DEF bridgeVars, rows, judging, daemon
<1>3. ASSUME NEW w \in Workers, NEW r \in Requests, JudgeUpdate(w, r)
      PROVE  RowsTypeOK'
  BY <1>3 DEF JudgeUpdate, judging, daemon, Statuses
<1>4. ASSUME NEW w \in Workers, NEW s \in Abortable, AbortCheck(w, s)
      PROVE  RowsTypeOK'
  BY <1>4 DEF AbortCheck, rows, judging, daemon
<1>5. ASSUME NEW w \in Workers, WebStep(w)
      PROVE  RowsTypeOK'
  <2>1. ASSUME JudgeDelete(w)
        PROVE  RowsTypeOK'
    BY <2>1 DEF JudgeDelete, judging, daemon
  <2>2. ASSUME JudgeRequest(w)
        PROVE  RowsTypeOK'
    <3>1. \E r \in Requests : web' \in {[web EXCEPT ![w] = Resting],
                                        [web EXCEPT ![w] = <<"failed", r>>]}
      BY <2>2 DEF JudgeRequest
    <3>2. /\ UNCHANGED <<rows, task, judging, up, restarts, disputed>>
          /\ dropped' \subseteq dropped
      BY <2>2 DEF JudgeRequest
    <3>3. QED
      BY <3>1, <3>2 DEF rows, judging, daemon
  <2>3. ASSUME JudgeFailed(w)
        PROVE  RowsTypeOK'
    BY <2>3 DEF JudgeFailed, judging, daemon, Statuses
  <2>4. ASSUME AbortRequest(w)
        PROVE  RowsTypeOK'
    <3>1. \E s \in Subs :
             /\ web' \in {[web EXCEPT ![w] = Resting],
                          [web EXCEPT ![w] = <<"mark", s>>]}
             /\ \/ term' = term
                \/ submission_map[s] # NoJudge /\ term' = term \cup {submission_map[s]}
             /\ dropped' \in {dropped, dropped \cup {s}}
      BY <2>4 DEF AbortRequest
    <3>2. UNCHANGED <<rows, task, cur, prog, up, restarts, disputed>>
      BY <2>4 DEF AbortRequest
    <3>3. term' \subseteq Judges
      BY <3>1 DEF TypeOK
    <3>4. QED
      BY <3>1, <3>2, <3>3 DEF rows, daemon
  <2>5. ASSUME AbortMark(w)
        PROVE  RowsTypeOK'
    BY <2>5 DEF AbortMark, judging, daemon, Statuses
  <2>6. QED
    BY <1>5, <2>1, <2>2, <2>3, <2>4, <2>5 DEF WebStep
<1>6. ASSUME NEW j \in Judges, JudgeStep(j)
      PROVE  RowsTypeOK'
  <2>1. ASSUME NEW s \in Subs, Acknowledge(j, s)
        PROVE  RowsTypeOK'
    BY <2>1 DEF Acknowledge, daemon, Statuses
  <2>2. ASSUME GradingBegin(j)
        PROVE  RowsTypeOK'
    BY <2>2 DEF GradingBegin, daemon, Statuses
  <2>3. ASSUME TestCase(j)
        PROVE  RowsTypeOK'
    BY <2>3 DEF TestCase, daemon
  <2>4. ASSUME NEW kind \in Statuses, End(j, kind)
        PROVE  RowsTypeOK'
    BY <2>4 DEF End, rows, daemon
  <2>5. QED
    BY <1>6, <2>1, <2>2, <2>3, <2>4 DEF JudgeStep
<1>7. ASSUME NEW j \in Judges, Tally(j)
      PROVE  RowsTypeOK'
  BY <1>7 DEF Tally, rows, judging, daemon
<1>8. ASSUME NEW j \in Judges, Write(j)
      PROVE  RowsTypeOK'
  <2>1. /\ task' = [task EXCEPT ![j] = NoTask]
        /\ UNCHANGED <<cases, web, judging, daemon, disputed>>
    BY <1>8 DEF Write
  <2>2. \E s \in Subs, x \in {"D", "AB", "IE", "CE"} :
           status' = [status EXCEPT ![s] = x]
    BY <1>8 DEF Write
  <2>3. \/ score' = score
        \/ \E s \in Subs, sum \in {NoScore} \cup SUBSET (1 .. LastCase) :
              score' = [score EXCEPT ![s] = sum]
    BY <1>8 DEF Write
  <2>4. status' \in [Subs -> Statuses]
    BY <2>2 DEF Statuses
  <2>5. score' \in [Subs -> {NoScore} \cup SUBSET (1 .. LastCase)]
    BY <2>3
  <2>6. QED
    BY <2>1, <2>4, <2>5 DEF judging, daemon
<1>9. ASSUME NEW j \in Judges, Leave(j)
      PROVE  RowsTypeOK'
  BY <1>9 DEF Leave, Lost, rows, daemon, Statuses, TypeOK
<1>10. ASSUME NEW j \in Judges, Connection(j)
       PROVE  RowsTypeOK'
  BY <1>1, <1>10 DEF Connection
<1>11. ASSUME NEW n \in Managed, Administer(n)
       PROVE  RowsTypeOK'
  BY <1>1, <1>11 DEF Administer
<1>12. ASSUME Crash
       PROVE  RowsTypeOK'
  <2>1. /\ up' = FALSE /\ restarts' = restarts + 1 /\ restarts < MaxRestarts
        /\ task' = [k \in Judges |-> NoTask] /\ cur' = [k \in Judges |-> NoSub]
        /\ prog' = [k \in Judges |-> 0] /\ term' = {}
        /\ UNCHANGED <<status, cases, score, web, disputed, dropped>>
    BY <1>12 DEF Crash, rows
  <2>2. restarts' \in 0 .. MaxRestarts /\ 0 \in 0 .. LastCase + 1
    BY <2>1
  <2>3. QED
    BY <2>1, <2>2
<1>13. ASSUME Start
       PROVE  RowsTypeOK'
  BY <1>13 DEF Start, judging, Statuses
<1>14. QED
  BY <1>2, <1>3, <1>4, <1>5, <1>6, <1>7, <1>8, <1>9, <1>10, <1>11, <1>12, <1>13
     DEF BridgeNext, Happens

-----------------------------------------------------------------------------
(* Where a submission is.                                                  *)

\* A step that takes a submission nowhere but from the queue to judge j, or away.
Moves(j) ==
    /\ \A s \in Subs : node_map'[s] # NoNode => node_map[s] # NoNode
    /\ \A k \in Judges, s \in Subs : s \in sent'[k] =>
          \/ s \in sent[k]
          \/ k = j /\ node_map[s] # NoNode /\ node_map'[s] = NoNode

\* What a walk over the queue for j does to the queue and to the requests sn: a node
\* that leaves the queue is sent to j, and nothing else is sent.
LEMMA WalkMoves ==
    ASSUME TypeOK, QueueMatchesNodeMap, NEW j \in Judges, NEW js, NEW wk, NEW sm,
           NEW sn \in [Judges -> SUBSET Subs],
           HandleFreeJudge(j, js, wk, sm, sn)
    PROVE  /\ \A s \in Subs : node_map'[s] # NoNode => node_map[s] # NoNode
           /\ \A s \in Subs : node_map[s] # NoNode =>
                 node_map'[s] # NoNode \/ s \in sent'[j]
           /\ \A k \in Judges : sn[k] \subseteq sent'[k]
           /\ \A k \in Judges, s \in Subs : s \in sent'[k] =>
                 \/ s \in sn[k]
                 \/ k = j /\ node_map[s] # NoNode /\ node_map'[s] = NoNode
<1>1. CASE \E p \in Priorities : \E i \in 1 .. Len(queue[p]) :
              DispatchNode(j, p, i, js, wk, sm, sn)
  <2>1. PICK p \in Priorities : \E i \in 1 .. Len(queue[p]) :
           DispatchNode(j, p, i, js, wk, sm, sn)
    BY <1>1
  <2>2. PICK i \in 1 .. Len(queue[p]) : DispatchNode(j, p, i, js, wk, sm, sn)
    BY <2>1
  <2> DEFINE id == queue[p][i].id
  <2>3. id \in Subs /\ node_map[id] = p /\ p # NoNode
    <3>1. queue[p] \in Seq(Items)
      BY DEF TypeOK
    <3>2. queue[p][i] \in Items
      BY <3>1, ElementOfSeq
    <3>3. QED
      BY <3>2, NonesAssumption DEF Items, QueueMatchesNodeMap
  <2>4. CASE SubmitOk(j, id, wk, sn) /\ DropNode(p, i)
    <3>1. /\ sent' = [sn EXCEPT ![j] = sn[j] \cup {id}]
          /\ node_map' = [node_map EXCEPT ![id] = NoNode]
      BY <2>4 DEF SubmitOk, DropNode
    <3> HIDE DEF id
    <3>2. \A s \in Subs : node_map'[s] = IF s = id THEN NoNode ELSE node_map[s]
      BY <3>1 DEF TypeOK
    <3>3. \A k \in Judges : sent'[k] = IF k = j THEN sn[k] \cup {id} ELSE sn[k]
      BY <3>1
    <3>4. \A k \in Judges, s \in Subs :
             s \in sent'[k] <=> s \in sn[k] \/ (k = j /\ s = id)
      BY <3>3
    <3>5. \A k \in Judges : sn[k] \subseteq sent'[k]
      BY <3>3
    <3>6. QED
      BY <2>3, <3>2, <3>4, <3>5
  <2>5. CASE SubmitFails(j, id, wk, sn) /\ UNCHANGED <<queue, node_map>>
    BY <2>5 DEF SubmitFails
  <2>6. QED
    BY <2>2, <2>4, <2>5 DEF DispatchNode
<1>2. CASE sent' = sn /\ UNCHANGED <<queue, node_map, failed>>
  BY <1>2
<1>3. QED
  BY <1>1, <1>2 DEF HandleFreeJudge

\* What a judge is grading has been sent to it.
GradedWasSent == \A j \in Judges : cur[j] # NoSub => cur[j] \in sent[j]

\* The requests sent to k stay with it until a packet ends the grading of its own, the
\* connection ends or the bridge crashes.
Keeps(k) ==
    \/ sent[k] \subseteq sent'[k]
    \/ /\ \E kind \in Statuses : End(k, kind)
       /\ sent[k] \ {cur[k]} \subseteq sent'[k]
    \/ Leave(k)
    \/ Crash

\* Except for a request of the web site, no step brings a submission to the bridge;
\* and no step takes a submission from a judge that goes on grading.
LEMMA Carriage ==
    ASSUME TypeOK, RowsTypeOK, QueueMatchesNodeMap, [BridgeNext]_bridgeVars
    PROVE  /\ (\E j : Moves(j)) \/ (\E w \in Workers : JudgeRequest(w))
           /\ \A k \in Judges : sent[k] \subseteq sent'[k] \/ cur'[k] = NoSub
           /\ \A k \in Judges : Keeps(k)
<1> DEFINE Goal ==
       /\ (\E j : Moves(j)) \/ (\E w \in Workers : JudgeRequest(w))
       /\ \A k \in Judges : sent[k] \subseteq sent'[k] \/ cur'[k] = NoSub
       /\ \A k \in Judges : Keeps(k)
<1> USE DEF Keeps
<1>1. CASE UNCHANGED <<node_map, sent>>
  BY <1>1 DEF Moves
<1>2. CASE UNCHANGED bridgeVars
  BY <1>1, <1>2 DEF bridgeVars, vars, scheduler
<1>3. ASSUME NEW w \in Workers, NEW r \in Requests, JudgeUpdate(w, r)
      PROVE  Goal
  BY <1>1, <1>3 DEF JudgeUpdate, vars
<1>4. ASSUME NEW w \in Workers, NEW s \in Abortable, AbortCheck(w, s)
      PROVE  Goal
  BY <1>1, <1>4 DEF AbortCheck, vars
<1>5. ASSUME NEW w \in Workers, WebStep(w)
      PROVE  Goal
  <2>1. ASSUME JudgeRequest(w)
        PROVE  Goal
    <3>1. UNCHANGED vars \/ \E r \in Requests : Judge(r)
      BY <2>1 DEF JudgeRequest
    <3>2. ASSUME NEW r \in Requests, Judge(r)
          PROVE  \A k \in Judges : sent[k] \subseteq sent'[k]
      BY <3>2 DEF Judge, SubmitOk, SubmitFails, TypeOK
    <3>3. QED
      BY <2>1, <3>1, <3>2, <1>1 DEF vars
  <2>2. ASSUME AbortRequest(w)
        PROVE  Goal
    <3>1. UNCHANGED vars \/ \E s \in Subs : Abort(s)
      BY <2>2 DEF AbortRequest
    <3>2. ASSUME NEW s \in Subs, Abort(s)
          PROVE  UNCHANGED sent /\ Moves(NoJudge)
      <4>1. \A x \in Subs : node_map'[x] # NoNode => node_map[x] # NoNode
        <5>1. CASE UNCHANGED <<queue, node_map>>
          BY <5>1
        <5>2. ASSUME NEW i \in 1 .. Len(queue[node_map[s]]), DropNode(node_map[s], i)
              PROVE  \A x \in Subs : node_map'[x] # NoNode => node_map[x] # NoNode
          BY <5>2 DEF DropNode, TypeOK
        <5>3. QED
          BY <3>2, <5>1, <5>2 DEF Abort
      <4>2. QED
        BY <3>2, <4>1 DEF Abort, Moves
    <3>3. QED
      BY <3>1, <3>2, <1>1 DEF vars
  <2>3. ASSUME JudgeDelete(w) \/ JudgeFailed(w) \/ AbortMark(w)
        PROVE  UNCHANGED vars
    BY <2>3 DEF JudgeDelete, JudgeFailed, AbortMark
  <2>4. QED
    BY <1>1, <1>5, <2>1, <2>2, <2>3 DEF WebStep, vars
<1>6. ASSUME NEW j \in Judges, JudgeStep(j)
      PROVE  Goal
  <2>1. ASSUME NEW s \in Subs, Acknowledge(j, s)
        PROVE  Goal
    BY <1>1, <2>1, AcknowledgeHangsUp DEF HangUp, vars, scheduler
  <2>2. ASSUME GradingBegin(j) \/ TestCase(j)
        PROVE  UNCHANGED vars
    BY <2>2 DEF GradingBegin, TestCase
  <2>3. ASSUME NEW kind \in Statuses, End(j, kind)
        PROVE  Goal
    <3> DEFINE sn == [sent EXCEPT ![j] = @ \ {cur[j]}]
               wk == [working EXCEPT ![j] = NoSub]
    <3>1. /\ cur' = [cur EXCEPT ![j] = NoSub]
          /\ \/ HandleFreeJudge(j, judges, wk, Without(cur[j]), sn)
             \/ sent' = sn /\ UNCHANGED node_map
      BY <2>3 DEF End, OnJudgeFree, scheduler
    <3>2. /\ sn \in [Judges -> SUBSET Subs]
          /\ \A k \in Judges : sn[k] = IF k = j THEN sent[k] \ {cur[j]} ELSE sent[k]
          /\ cur'[j] = NoSub
      BY <3>1 DEF TypeOK, RowsTypeOK
    <3> HIDE DEF sn, wk
    <3>3. CASE HandleFreeJudge(j, judges, wk, Without(cur[j]), sn)
      <4>1. Moves(j) /\ \A k \in Judges : sn[k] \subseteq sent'[k]
        BY <3>2, <3>3, WalkMoves DEF Moves
      <4>2. QED
        BY <2>3, <3>2, <4>1
    <3>4. CASE sent' = sn /\ UNCHANGED node_map
      <4>1. Moves(j) /\ \A k \in Judges : sn[k] \subseteq sent'[k]
        BY <3>2, <3>4 DEF Moves
      <4>2. QED
        BY <2>3, <3>2, <4>1
    <3>5. QED
      BY <3>1, <3>3, <3>4
  <2>4. QED
    BY <1>1, <1>6, <2>1, <2>2, <2>3 DEF JudgeStep, vars
<1>7. ASSUME NEW j \in Judges, Tally(j) \/ Write(j)
      PROVE  Goal
  BY <1>1, <1>7 DEF Tally, Write, vars
<1>8. ASSUME NEW j \in Judges, Leave(j)
      PROVE  Goal
  <2> DEFINE sm == IF working[j] = NoSub THEN submission_map
                   ELSE Without(working[j])
             js == judges \ {j}
             sn == [sent EXCEPT ![j] = {}]
  <2>1. /\ cur' = [cur EXCEPT ![j] = NoSub]
        /\ \/ \E k \in js : HandleFreeJudge(k, js, working, sm, sn)
           \/ sent' = sn /\ UNCHANGED node_map
    BY <1>8 DEF Leave, Disconnect
  <2>2. /\ sn \in [Judges -> SUBSET Subs] /\ js \subseteq Judges
        /\ \A k \in Judges : sn[k] = IF k = j THEN {} ELSE sent[k]
        /\ cur'[j] = NoSub
    BY <2>1 DEF TypeOK, RowsTypeOK
  <2> HIDE DEF sn, js, sm
  <2>3. ASSUME NEW k \in js, HandleFreeJudge(k, js, working, sm, sn)
        PROVE  Goal
    <3>1. k \in Judges
      BY <2>2
    <3>2. Moves(k) /\ \A i \in Judges : sn[i] \subseteq sent'[i]
      BY <2>2, <2>3, <3>1, WalkMoves DEF Moves
    <3>3. QED
      BY <1>8, <2>2, <3>2
  <2>4. CASE sent' = sn /\ UNCHANGED node_map
    <3>1. Moves(j)
      BY <2>2, <2>4 DEF Moves
    <3>2. QED
      BY <1>8, <2>2, <2>4, <3>1
  <2>5. QED
    BY <2>1, <2>3, <2>4
<1>9. ASSUME NEW j \in Judges, Connection(j)
      PROVE  Goal
  <2>1. ASSUME NEW js, HandleFreeJudge(j, js, working, submission_map, sent)
        PROVE  Goal
    <3>1. sent \in [Judges -> SUBSET Subs]
      BY DEF TypeOK
    <3>2. QED
      BY <2>1, <3>1, WalkMoves DEF Moves
  <2>2. CASE Register(j) \/ UpdateProblems(j)
    BY <2>1, <2>2 DEF Register, UpdateProblems
  <2>3. CASE \/ \E kinds \in Offers : Handshake(j, kinds) \/ SupportedProblems(j, kinds)
             \/ \E disabled \in BOOLEAN : Connected(j, disabled)
    BY <1>1, <2>3 DEF Handshake, SupportedProblems, Connected, scheduler
  <2>4. QED
    BY <1>9, <2>2, <2>3 DEF Connection
<1>10. ASSUME NEW n \in Managed, Administer(n)
       PROVE  Goal
  BY <1>1, <1>10 DEF Administer, ForceDisconnect, UpdateDisableJudge, scheduler
<1>11. ASSUME Crash
       PROVE  Goal
  BY <1>11 DEF Crash, Moves
<1>12. ASSUME Start
       PROVE  Goal
  BY <1>1, <1>12 DEF Start, vars, scheduler
<1>13. QED
  BY <1>2, <1>3, <1>4, <1>5, <1>6, <1>7, <1>8, <1>9, <1>10, <1>11, <1>12
     DEF BridgeNext, Happens

-----------------------------------------------------------------------------
(* One judging at a time.                                                  *)

\* Web process w is about to send s to the bridge.
Asks(w, s) ==
    \E r \in Requests : r.id = s /\ web[w] \in {<<"delete", r>>, <<"request", r>>}

\* The handler thread of j has still to write the grade of s.
Grades(j, s) ==
    \/ task[j] = <<"D", s>>
    \/ \E sum \in SUBSET (1 .. LastCase) : task[j] = <<"D", s, sum>>

\* s is in one place at most: with a web process, in the queue, with a judge, or in
\* the hands of a thread that writes its grade.
Alone(s) ==
    /\ \A w \in Workers : Asks(w, s) =>
          /\ \A v \in Workers : Asks(v, s) => v = w
          /\ node_map[s] = NoNode
          /\ \A j \in Judges : s \notin sent[j] /\ ~Grades(j, s)
    /\ node_map[s] # NoNode => \A j \in Judges : s \notin sent[j] /\ ~Grades(j, s)
    /\ \A j, k \in Judges :
          /\ s \in sent[j] => (s \in sent[k] => j = k) /\ ~Grades(k, s)
          /\ Grades(j, s) /\ Grades(k, s) => j = k

OneGrading == \A s \in Subs \ disputed : Alone(s)

\* A submission is in dispute for ever, and a web process asks for one that is not
\* only when nobody held it.
LEMMA DisputesGrow ==
    ASSUME [BridgeNext]_bridgeVars
    PROVE  disputed \subseteq disputed'
<1>1. CASE UNCHANGED disputed
  BY <1>1
<1>2. ASSUME NEW w \in Workers, NEW r \in Requests, JudgeUpdate(w, r)
      PROVE  disputed \subseteq disputed'
  BY <1>2 DEF JudgeUpdate
<1>3. QED
  BY <1>1, <1>2 DEF BridgeNext, Happens, bridgeVars, AbortCheck, WebStep, JudgeDelete,
     JudgeRequest, JudgeFailed, AbortRequest, AbortMark, JudgeStep, Acknowledge,
     GradingBegin, TestCase, End, Tally, Write, Leave, Connection, Administer,
     Crash, Start

\* Only the start of a judging makes a process ask, and only the end of one makes a
\* thread owe a grade.
LEMMA AskersAndGraders ==
    ASSUME RowsTypeOK, [BridgeNext]_bridgeVars
    PROVE  /\ \/ \A w \in Workers, s \in Subs : Asks(w, s)' => Asks(w, s)
              \/ \E w \in Workers, r \in Requests : JudgeUpdate(w, r)
           /\ \/ \A j \in Judges, s \in Subs : Grades(j, s)' => Grades(j, s)
              \/ \E j \in Judges : End(j, "D")
<1> DEFINE A == \A w \in Workers, s \in Subs : Asks(w, s)' => Asks(w, s)
           G == \A j \in Judges, s \in Subs : Grades(j, s)' => Grades(j, s)
<1>1. web' = web => A
  BY DEF Asks
<1>2. task' = task => G
  BY DEF Grades
<1>3. ASSUME NEW w \in Workers, NEW x, web' = [web EXCEPT ![w] = x],
             \A r \in Requests : x \notin {<<"delete", r>>, <<"request", r>>}
      PROVE  A
  BY <1>3 DEF Asks, RowsTypeOK
<1>4. ASSUME NEW j \in Judges, NEW x, task' = [task EXCEPT ![j] = x],
             \A s \in Subs : x # <<"D", s>>,
             \A s \in Subs, sum \in SUBSET (1 .. LastCase) : x # <<"D", s, sum>>
      PROVE  G
  BY <1>4 DEF Grades, RowsTypeOK
<1>5. CASE UNCHANGED bridgeVars
  BY <1>1, <1>2, <1>5 DEF bridgeVars
<1>6. ASSUME NEW w \in Workers, NEW r \in Requests, JudgeUpdate(w, r)
      PROVE  G
  BY <1>2, <1>6 DEF JudgeUpdate
<1>7. ASSUME NEW w \in Workers, NEW s \in Abortable, AbortCheck(w, s)
      PROVE  A /\ G
  <2>1. web' = [web EXCEPT ![w] = <<"abort", s>>] /\ task' = task
    BY <1>7 DEF AbortCheck
  <2>2. \A r \in Requests : <<"abort", s>> \notin {<<"delete", r>>, <<"request", r>>}
    OBVIOUS
  <2> HIDE DEF A, G
  <2>3. QED
    BY <1>2, <1>3, <2>1, <2>2
<1>8. ASSUME NEW w \in Workers, WebStep(w)
      PROVE  A /\ G
  <2>1. task' = task
    BY <1>8 DEF WebStep, JudgeDelete, JudgeRequest, JudgeFailed, AbortRequest,
                AbortMark
  <2>2. CASE JudgeDelete(w)
    <3>1. PICK r \in Requests : /\ web[w] = <<"delete", r>>
                               /\ web' = [web EXCEPT ![w] = <<"request", r>>]
      BY <2>2 DEF JudgeDelete
    <3>2. \A v \in Workers : web'[v] = IF v = w THEN <<"request", r>> ELSE web[v]
      BY <3>1 DEF RowsTypeOK
    <3>3. ASSUME NEW v \in Workers, NEW s \in Subs, Asks(v, s)'
          PROVE  Asks(v, s)
      <4>1. CASE v # w
        BY <3>2, <3>3, <4>1 DEF Asks
      <4>2. CASE v = w
        <5>1. PICK q \in Requests : q.id = s /\ web'[w] \in {<<"delete", q>>, <<"request", q>>}
          BY <3>3, <4>2 DEF Asks
        <5>2. <<"request", r>> \in {<<"delete", q>>, <<"request", q>>}
          BY <3>2, <5>1
        <5>3. q = r
          BY <5>2
        <5>4. QED
          BY <3>1, <4>2, <5>1, <5>3 DEF Asks
      <4>3. QED
        BY <4>1, <4>2
    <3>4. QED
      BY <2>1, <1>2, <3>3
  <2>3. CASE JudgeRequest(w) \/ JudgeFailed(w) \/ AbortRequest(w) \/ AbortMark(w)
    <3>1. \/ web' = [web EXCEPT ![w] = Resting]
          \/ \E r \in Requests : web' = [web EXCEPT ![w] = <<"failed", r>>]
          \/ \E s \in Subs : web' = [web EXCEPT ![w] = <<"mark", s>>]
      BY <2>3 DEF JudgeRequest, JudgeFailed, AbortRequest, AbortMark
    <3>2. \A r \in Requests :
             /\ Resting \notin {<<"delete", r>>, <<"request", r>>}
             /\ \A q : /\ <<"failed", q>> \notin {<<"delete", r>>, <<"request", r>>}
                      /\ <<"mark", q>> \notin {<<"delete", r>>, <<"request", r>>}
      BY DEF Resting
    <3> HIDE DEF A, G
    <3>3. QED
      BY <1>2, <1>3, <2>1, <3>1, <3>2
  <2>4. QED
    BY <1>2, <1>8, <2>1, <2>2, <2>3 DEF WebStep
<1>9. ASSUME NEW j \in Judges, JudgeStep(j)
      PROVE  A /\ (G \/ End(j, "D"))
  <2>1. web' = web
    <3>1. ASSUME NEW s \in Subs, Acknowledge(j, s)
          PROVE  web' = web
      BY <3>1 DEF Acknowledge
    <3>2. ASSUME NEW kind \in Statuses, End(j, kind)
          PROVE  web' = web
      BY <3>2 DEF End
    <3>3. GradingBegin(j) \/ TestCase(j) => web' = web
      BY DEF GradingBegin, TestCase
    <3>4. QED
      BY <1>9, <3>1, <3>2, <3>3 DEF JudgeStep
  <2>2. CASE (\E s \in Subs : Acknowledge(j, s)) \/ GradingBegin(j) \/ TestCase(j)
    <3>1. ASSUME NEW s \in Subs, Acknowledge(j, s)
          PROVE  task' = task
      BY <3>1 DEF Acknowledge
    <3>2. GradingBegin(j) \/ TestCase(j) => task' = task
      BY DEF GradingBegin, TestCase
    <3> HIDE DEF A, G
    <3>3. QED
      BY <1>1, <1>2, <2>1, <2>2, <3>1, <3>2
  <2>3. ASSUME NEW kind \in Statuses, End(j, kind), kind # "D"
        PROVE  G
    <3>1. task' = [task EXCEPT ![j] = NoTask]
          \/ task' = [task EXCEPT ![j] = <<kind, cur[j]>>]
      BY <2>3 DEF End
    <3>2. QED
      BY <1>4, <2>3, <3>1 DEF NoTask
  <2>4. QED
    BY <1>1, <1>9, <2>1, <2>2, <2>3 DEF JudgeStep
<1>10. ASSUME NEW j \in Judges, Tally(j)
       PROVE  A /\ G
  BY <1>1, <1>10 DEF Tally, Grades, RowsTypeOK
<1>11. ASSUME NEW j \in Judges, Write(j)
       PROVE  A /\ G
  <2>1. web' = web /\ task' = [task EXCEPT ![j] = NoTask]
    BY <1>11 DEF Write
  <2>2. QED
    BY <1>1, <1>4, <2>1 DEF NoTask
<1>12. ASSUME NEW j \in Judges, Leave(j)
       PROVE  A /\ G
  <2>1. web' = web /\ \E x \in {NoTask, <<"IE", working[j]>>} :
                         task' = [task EXCEPT ![j] = x]
    BY <1>12 DEF Leave, Lost
  <2>2. QED
    BY <1>1, <1>4, <2>1 DEF NoTask
<1>13. ASSUME NEW j \in Judges, Connection(j)
       PROVE  A /\ G
  BY <1>1, <1>2, <1>13 DEF Connection
<1>14. ASSUME NEW n \in Managed, Administer(n)
       PROVE  A /\ G
  BY <1>1, <1>2, <1>14 DEF Administer
<1>15. ASSUME Crash
       PROVE  A /\ G
  <2>1. web' = web /\ task' = [j \in Judges |-> NoTask]
    BY <1>15 DEF Crash
  <2>2. QED
    BY <1>1, <2>1 DEF Grades, NoTask
<1>16. ASSUME Start
       PROVE  A /\ G
  BY <1>1, <1>2, <1>16 DEF Start
<1>17. QED
  BY <1>5, <1>6, <1>7, <1>8, <1>9, <1>10, <1>11, <1>12, <1>13, <1>14, <1>15,
     <1>16 DEF BridgeNext, Happens

\* A web process asks for a submission when its judging is started.
LEMMA AskedComesFrom ==
    ASSUME RowsTypeOK, [BridgeNext]_bridgeVars, NEW w \in Workers, NEW s \in Subs,
           Asks(w, s)'
    PROVE  Asks(w, s) \/ \E r \in Requests : r.id = s /\ JudgeUpdate(w, r)
<1>1. PICK q \in Requests : q.id = s /\ web'[w] \in {<<"delete", q>>, <<"request", q>>}
  BY DEF Asks
<1>2. ASSUME NEW v \in Workers, NEW r \in Requests, JudgeUpdate(v, r)
      PROVE  Asks(w, s) \/ (r = q /\ v = w)
  <2>1. web' = [web EXCEPT ![v] = <<"delete", r>>]
    BY <1>2 DEF JudgeUpdate
  <2>2. CASE w = v
    <3>1. <<"delete", r>> \in {<<"delete", q>>, <<"request", q>>}
      BY <1>1, <2>1, <2>2 DEF RowsTypeOK
    <3>2. QED
      BY <2>2, <3>1
  <2>3. CASE w # v
    BY <1>1, <2>1, <2>3 DEF RowsTypeOK, Asks
  <2>4. QED
    BY <2>2, <2>3
<1>3. QED
  BY <1>1, <1>2, AskersAndGraders

\* s stays in one place if the step moves it only from the queue to a judge, or away.
LEMMA AloneStays ==
    ASSUME NEW s \in Subs, Alone(s), NEW i, Moves(i),
           \A w \in Workers : Asks(w, s)' => Asks(w, s),
           \A j \in Judges : Grades(j, s)' => Grades(j, s)
    PROVE  Alone(s)'
<1>1. node_map'[s] # NoNode => node_map[s] # NoNode
  BY DEF Moves
<1>2. \A k \in Judges : s \in sent'[k] =>
         s \in sent[k] \/ (k = i /\ node_map[s] # NoNode /\ node_map'[s] = NoNode)
  BY DEF Moves
<1> DEFINE a(w) == Asks(w, s)  g(j) == Grades(j, s)
<1>3. /\ \A w \in Workers : a(w)' => a(w)
      /\ \A j \in Judges : g(j)' => g(j)
  OBVIOUS
<1>4. /\ \A w \in Workers : a(w) =>
            /\ \A v \in Workers : a(v) => v = w
            /\ node_map[s] = NoNode
            /\ \A j \in Judges : s \notin sent[j] /\ ~g(j)
      /\ node_map[s] # NoNode => \A j \in Judges : s \notin sent[j] /\ ~g(j)
      /\ \A j, k \in Judges :
            /\ s \in sent[j] => (s \in sent[k] => j = k) /\ ~g(k)
            /\ g(j) /\ g(k) => j = k
  BY DEF Alone
<1>5. /\ \A w \in Workers : a(w)' =>
            /\ \A v \in Workers : a(v)' => v = w
            /\ node_map'[s] = NoNode
            /\ \A j \in Judges : s \notin sent'[j] /\ ~g(j)'
      /\ node_map'[s] # NoNode => \A j \in Judges : s \notin sent'[j] /\ ~g(j)'
      /\ \A j, k \in Judges :
            /\ s \in sent'[j] => (s \in sent'[k] => j = k) /\ ~g(k)'
            /\ g(j)' /\ g(k)' => j = k
  <2> HIDE DEF a, g
  <2>1. QED
    BY <1>1, <1>2, <1>3, <1>4
<1>6. QED
  BY <1>5 DEF Alone

\* A request of the web site puts its submission in the queue, sends it to a judge, or
\* changes neither.
LEMMA RequestEffect ==
    ASSUME TypeOK, NEW r \in Requests, Judge(r)
    PROVE  \/ UNCHANGED <<node_map, sent>>
           \/ /\ node_map' = node_map
              /\ \E j \in Judges : sent' = [sent EXCEPT ![j] = @ \cup {r.id}]
           \/ /\ sent' = sent
              /\ node_map' = [node_map EXCEPT ![r.id] = r.priority]
<1>1. \A j \in Available(r) : j \in Judges
  BY DEF Available, Candidates, TypeOK
<1>2. QED
  BY <1>1 DEF Judge, SubmitOk, SubmitFails, scheduler, Section

\* Whoever asks, grades or crashes, a submission that is not in dispute stays in one
\* place.
LEMMA OneGradingStep ==
    ASSUME TypeOK, RowsTypeOK, QueueMatchesNodeMap, GradedWasSent, OneGrading,
           [BridgeNext]_bridgeVars
    PROVE  OneGrading'
<1> SUFFICES ASSUME NEW s \in Subs, s \notin disputed'
             PROVE  Alone(s)'
  BY DEF OneGrading
<1>1. s \notin disputed /\ Alone(s)
  BY DisputesGrow DEF OneGrading
<1>2. ASSUME NEW w \in Workers, NEW r \in Requests, JudgeUpdate(w, r)
      PROVE  Alone(s)'
  <2>1. /\ web' = [web EXCEPT ![w] = <<"delete", r>>] /\ web[w] = Resting
        /\ UNCHANGED <<node_map, sent, task>>
        /\ r.id = s => ~Held(s)
    BY <1>2 DEF JudgeUpdate, vars, scheduler, Locked
  <2>2. \A v \in Workers : web'[v] = IF v = w THEN <<"delete", r>> ELSE web[v]
    BY <2>1 DEF RowsTypeOK
  <2>3. CASE r.id # s
    <3>1. ASSUME NEW v \in Workers, Asks(v, s)'
          PROVE  Asks(v, s)
      <4>1. ASSUME NEW q \in Requests, JudgeUpdate(v, q), q.id = s
            PROVE  FALSE
        <5>1. v = w /\ <<"delete", q>> = <<"delete", r>>
          BY <2>1, <2>2, <4>1 DEF JudgeUpdate, RowsTypeOK, Resting
        <5>2. QED
          BY <2>3, <4>1, <5>1
      <4>2. QED
        BY <3>1, <4>1, AskedComesFrom
    <3>2. PICK i : Moves(i)
      BY <2>1 DEF Moves
    <3>3. \A j \in Judges : Grades(j, s)' => Grades(j, s)
      BY <2>1 DEF Grades
    <3>4. QED
      BY <1>1, <3>1, <3>2, <3>3, AloneStays
  <2>4. CASE r.id = s
    <3>1. /\ node_map[s] = NoNode
          /\ \A j \in Judges : s \notin sent[j] /\ ~Owes(j, s)
          /\ \A v \in Workers : ~Judging(v, s)
      BY <2>1, <2>4 DEF Held, Known
    <3>2. ASSUME NEW j \in Judges, Grades(j, s)
          PROVE  FALSE
      <4>1. task[j] # <<>> /\ task[j][2] = s
        BY <3>2 DEF Grades
      <4>2. QED
        BY <3>1, <4>1 DEF Owes, NoTask
    <3>3. \A v \in Workers : ~Asks(v, s)
      BY <3>1 DEF Asks, Judging
    <3>4. \A v \in Workers : Asks(v, s)' => v = w
      BY <2>2, <3>3 DEF Asks
    <3>5. \A j \in Judges : ~Grades(j, s)'
      BY <2>1, <3>2 DEF Grades
    <3>6. QED
      BY <2>1, <3>1, <3>4, <3>5 DEF Alone
  <2>5. QED
    BY <2>3, <2>4
<1>3. ASSUME NEW w \in Workers, JudgeRequest(w)
      PROVE  Alone(s)'
  <2>1. PICK r \in Requests :
           /\ web[w] = <<"request", r>>
           /\ web' \in {[web EXCEPT ![w] = Resting], [web EXCEPT ![w] = <<"failed", r>>]}
           /\ Judge(r) \/ UNCHANGED vars
    BY <1>3 DEF JudgeRequest
  <2>2. task' = task
    BY <1>3 DEF JudgeRequest
  <2>3. \A j \in Judges : Grades(j, s)' => Grades(j, s)
    BY <2>2 DEF Grades
  <2>4. /\ ~Asks(w, s)'
        /\ \A v \in Workers : Asks(v, s)' => Asks(v, s) /\ v # w
    <3>1. \A v \in Workers : v # w => web'[v] = web[v]
      BY <2>1 DEF RowsTypeOK
    <3>2. web'[w] \in {Resting, <<"failed", r>>}
      BY <2>1 DEF RowsTypeOK
    <3>3. \A q \in Requests : web'[w] \notin {<<"delete", q>>, <<"request", q>>}
      BY <3>2 DEF Resting
    <3>4. QED
      BY <3>1, <3>3 DEF Asks
  <2>5. CASE r.id # s \/ UNCHANGED vars
    <3>1. node_map'[s] = node_map[s] /\ \A j \in Judges : s \in sent'[j] => s \in sent[j]
      <4>1. CASE UNCHANGED vars
        BY <4>1 DEF vars, scheduler
      <4>2. ASSUME Judge(r), r.id # s
            PROVE  /\ node_map'[s] = node_map[s]
                   /\ \A j \in Judges : s \in sent'[j] => s \in sent[j]
        <5>1. r.id \in Subs
          BY SetsAssumption
        <5>2. CASE UNCHANGED <<node_map, sent>>
          BY <5>2
        <5>3. ASSUME NEW j \in Judges, node_map' = node_map,
                     sent' = [sent EXCEPT ![j] = @ \cup {r.id}]
              PROVE  \A k \in Judges : s \in sent'[k] => s \in sent[k]
          BY <4>2, <5>3 DEF TypeOK
        <5>4. CASE sent' = sent /\ node_map' = [node_map EXCEPT ![r.id] = r.priority]
          BY <4>2, <5>1, <5>4 DEF TypeOK
        <5>5. QED
          BY <4>2, <5>2, <5>3, <5>4, RequestEffect
      <4>3. QED
        BY <2>1, <2>5, <4>1, <4>2
    <3> DEFINE a(v) == Asks(v, s)  g(j) == Grades(j, s)
    <3>2. /\ \A v \in Workers : a(v)' => a(v)
          /\ \A j \in Judges : g(j)' => g(j)
      BY <2>3, <2>4
    <3>3. /\ \A v \in Workers : a(v) =>
                /\ \A u \in Workers : a(u) => u = v
                /\ node_map[s] = NoNode
                /\ \A j \in Judges : s \notin sent[j] /\ ~g(j)
          /\ node_map[s] # NoNode => \A j \in Judges : s \notin sent[j] /\ ~g(j)
          /\ \A j, k \in Judges :
                /\ s \in sent[j] => (s \in sent[k] => j = k) /\ ~g(k)
                /\ g(j) /\ g(k) => j = k
      BY <1>1 DEF Alone
    <3> HIDE DEF a, g
    <3>4. /\ \A v \in Workers : a(v)' =>
                /\ \A u \in Workers : a(u)' => u = v
                /\ node_map'[s] = NoNode
                /\ \A j \in Judges : s \notin sent'[j] /\ ~g(j)'
          /\ node_map'[s] # NoNode => \A j \in Judges : s \notin sent'[j] /\ ~g(j)'
          /\ \A j, k \in Judges :
                /\ s \in sent'[j] => (s \in sent'[k] => j = k) /\ ~g(k)'
                /\ g(j)' /\ g(k)' => j = k
      BY <3>1, <3>2, <3>3
    <3>5. QED
      BY <3>4 DEF a, g, Alone
  <2>6. CASE r.id = s /\ Judge(r)
    <3>1. Asks(w, s)
      BY <2>1, <2>6 DEF Asks
    <3>2. /\ \A v \in Workers : Asks(v, s) => v = w
          /\ node_map[s] = NoNode
          /\ \A j \in Judges : s \notin sent[j] /\ ~Grades(j, s)
      BY <1>1, <3>1 DEF Alone
    <3>3. \/ UNCHANGED <<node_map, sent>>
          \/ /\ node_map' = node_map
             /\ \E j \in Judges : sent' = [sent EXCEPT ![j] = @ \cup {s}]
          \/ sent' = sent
      BY <2>6, RequestEffect
    <3>4. \/ node_map'[s] = NoNode
          \/ \A j \in Judges : s \notin sent'[j]
      BY <3>2, <3>3
    <3>5. \A j, k \in Judges : s \in sent'[j] /\ s \in sent'[k] => j = k
      BY <3>2, <3>3 DEF TypeOK
    <3>6. /\ \A v \in Workers : ~Asks(v, s)'
          /\ \A j \in Judges : ~Grades(j, s)'
      BY <2>3, <2>4, <3>2
    <3>7. QED
      BY <3>4, <3>5, <3>6 DEF Alone
  <2>7. QED
    BY <2>1, <2>5, <2>6
<1>4. ASSUME NEW j \in Judges, End(j, "D"), ~ \E w \in Workers : JudgeRequest(w),
             ~ \E w \in Workers, r \in Requests : JudgeUpdate(w, r)
      PROVE  Alone(s)'
  <2>1. /\ cur[j] \in Subs /\ cur[j] \in sent[j]
        /\ task' \in {[task EXCEPT ![j] = NoTask], [task EXCEPT ![j] = <<"D", cur[j]>>]}
    BY <1>4 DEF End, RowsTypeOK, GradedWasSent
  <2>2. PICK i : Moves(i)
    BY <1>4, Carriage
  <2>3. \A w \in Workers : Asks(w, s)' => Asks(w, s)
    BY <1>4, AskersAndGraders
  <2>4. \A k \in Judges : Grades(k, s)' => Grades(k, s) \/ (k = j /\ s = cur[j])
    <3>1. ASSUME NEW k \in Judges, k # j, Grades(k, s)'
          PROVE  Grades(k, s)
      BY <2>1, <3>1 DEF Grades, RowsTypeOK
    <3>2. ASSUME Grades(j, s)'
          PROVE  s = cur[j]
      <4>1. task'[j] = <<"D", cur[j]>> \/ task'[j] = NoTask
        BY <2>1 DEF RowsTypeOK
      <4>2. QED
        BY <3>2, <4>1 DEF Grades, NoTask
    <3>3. QED
      BY <3>1, <3>2
  <2>5. CASE s # cur[j]
    BY <1>1, <2>2, <2>3, <2>4, <2>5, AloneStays
  <2>6. CASE s = cur[j]
    <3>1. /\ \A w \in Workers : ~Asks(w, s)
          /\ node_map[s] = NoNode
          /\ \A k \in Judges : ~Grades(k, s) /\ (s \in sent[k] => k = j)
      BY <1>1, <2>1, <2>6 DEF Alone
    <3>2. s \notin sent'[j]
      <4> DEFINE sn == [sent EXCEPT ![j] = @ \ {s}]
                 wk == [working EXCEPT ![j] = NoSub]
      <4>1. \/ HandleFreeJudge(j, judges, wk, Without(s), sn)
            \/ sent' = sn
        BY <1>4, <2>6 DEF End, OnJudgeFree
      <4>2. sn \in [Judges -> SUBSET Subs] /\ s \notin sn[j]
        BY DEF TypeOK
      <4> HIDE DEF sn, wk
      <4>3. QED
        BY <3>1, <4>1, <4>2, WalkMoves
    <3>3. /\ \A w \in Workers : ~Asks(w, s)'
          /\ node_map'[s] = NoNode
          /\ \A k \in Judges : s \notin sent'[k]
          /\ \A k \in Judges : Grades(k, s)' => k = j
      BY <2>2, <2>3, <2>4, <3>1, <3>2 DEF Moves
    <3>4. QED
      BY <3>3 DEF Alone
  <2>7. QED
    BY <2>5, <2>6
<1>5. ASSUME ~ \E w \in Workers : JudgeRequest(w),
             ~ \E w \in Workers, r \in Requests : JudgeUpdate(w, r),
             ~ \E j \in Judges : End(j, "D")
      PROVE  Alone(s)'
  <2>1. PICK i : Moves(i)
    BY <1>5, Carriage
  <2>2. /\ \A w \in Workers : Asks(w, s)' => Asks(w, s)
        /\ \A j \in Judges : Grades(j, s)' => Grades(j, s)
    BY <1>5, AskersAndGraders
  <2>3. QED
    BY <1>1, <2>1, <2>2, AloneStays
<1>6. QED
  BY <1>2, <1>3, <1>4, <1>5

-----------------------------------------------------------------------------
(* Test cases.                                                             *)

\* The rows of a submission being graded are the cases reported so far; those of one
\* whose grading has ended, and the sum taken of them, are all.
CasesAreTold ==
    \A j \in Judges, s \in Subs \ disputed :
       /\ cur[j] = s /\ prog[j] # 0 => cases[s] = 1 .. prog[j] - 1
       /\ task[j] = <<"D", s>> => cases[s] = 1 .. LastCase
       /\ \A sum \in SUBSET (1 .. LastCase) :
             task[j] = <<"D", s, sum>> => sum = 1 .. LastCase

GradingInv ==
    /\ TypeOK /\ RowsTypeOK /\ QueueInv
    /\ GradedWasSent /\ OneGrading /\ CasesAreTold /\ ScoreIsComplete

\* Every step keeps GradedWasSent: a judge acknowledges what was sent to it, and what it
\* was sent is forgotten together with what it grades.
LEMMA GradedWasSentStep ==
    ASSUME TypeOK, RowsTypeOK, QueueMatchesNodeMap, GradedWasSent,
           [BridgeNext]_bridgeVars
    PROVE  GradedWasSent'
<1>1. \A k \in Judges : sent[k] \subseteq sent'[k] \/ cur'[k] = NoSub
  BY Carriage
<1>2. ASSUME NEW j \in Judges, NEW s \in Subs, Acknowledge(j, s)
      PROVE  GradedWasSent'
  <2>1. /\ cur' = [cur EXCEPT ![j] = s] /\ s \in sent[j]
        /\ cur[j] = NoSub
    BY <1>2 DEF Acknowledge
  <2>2. sent' = sent
    BY <1>2, AcknowledgeHangsUp DEF HangUp, vars
  <2>3. QED
    BY <2>1, <2>2 DEF GradedWasSent, RowsTypeOK
<1>3. ASSUME \A k \in Judges : cur'[k] \in {cur[k], NoSub}
      PROVE  GradedWasSent'
  BY <1>1, <1>3 DEF GradedWasSent
<1>4. ASSUME NEW j \in Judges, cur' = [cur EXCEPT ![j] = NoSub]
      PROVE  GradedWasSent'
  BY <1>3, <1>4 DEF RowsTypeOK
<1>5. CASE cur' = cur
  BY <1>3, <1>5
<1>6. ASSUME NEW j \in Judges, JudgeStep(j)
      PROVE  GradedWasSent'
  <2>1. ASSUME NEW kind \in Statuses, End(j, kind)
        PROVE  GradedWasSent'
    BY <1>4, <2>1 DEF End
  <2>2. ASSUME GradingBegin(j) \/ TestCase(j)
        PROVE  GradedWasSent'
    BY <1>5, <2>2 DEF GradingBegin, TestCase
  <2>3. QED
    BY <1>2, <1>6, <2>1, <2>2 DEF JudgeStep
<1>7. ASSUME NEW j \in Judges, Leave(j)
      PROVE  GradedWasSent'
  BY <1>4, <1>7 DEF Leave
<1>8. ASSUME Crash
      PROVE  GradedWasSent'
  BY <1>3, <1>8 DEF Crash
<1>9. ASSUME NEW w \in Workers, WebStep(w)
      PROVE  GradedWasSent'
  BY <1>5, <1>9 DEF WebStep, JudgeDelete, JudgeRequest, JudgeFailed, AbortRequest,
                    AbortMark, judging
<1>10. CASE \/ UNCHANGED bridgeVars
            \/ \E w \in Workers :
                  \/ \E r \in Requests : JudgeUpdate(w, r)
                  \/ \E s \in Abortable : AbortCheck(w, s)
            \/ \E j \in Judges : Tally(j) \/ Write(j) \/ Connection(j)
            \/ \E n \in Managed : Administer(n)
            \/ Start
  BY <1>5, <1>10 DEF bridgeVars, judging, JudgeUpdate, AbortCheck, Tally, Write,
                     Connection, Administer, Start
<1>11. QED
  BY <1>6, <1>7, <1>8, <1>9, <1>10 DEF BridgeNext, Happens

\* What no step but those of its judging does to the rows of s.
LEMMA CasesStay ==
    ASSUME RowsTypeOK, GradedWasSent, OneGrading, [BridgeNext]_bridgeVars,
           NEW j \in Judges, NEW s \in Subs \ disputed,
           s \in sent[j] \/ Grades(j, s),
           ~(cur[j] = s /\ (GradingBegin(j) \/ TestCase(j)))
    PROVE  cases'[s] = cases[s]
<1>1. Alone(s)
  BY DEF OneGrading
<1>2. ASSUME NEW w \in Workers, JudgeDelete(w)
      PROVE  cases'[s] = cases[s]
  <2>1. PICK r \in Requests : /\ web[w] = <<"delete", r>>
                             /\ cases' = [cases EXCEPT ![r.id] = {}]
    BY <1>2 DEF JudgeDelete
  <2>2. r.id # s
    BY <1>1, <2>1 DEF Alone, Asks
  <2>3. QED
    BY <2>1, <2>2 DEF RowsTypeOK
<1>3. ASSUME NEW k \in Judges, GradingBegin(k) \/ TestCase(k)
      PROVE  cases'[s] = cases[s]
  <2>1. /\ cur[k] # NoSub
        /\ \A x \in Subs : x # cur[k] => cases'[x] = cases[x]
    BY <1>3 DEF GradingBegin, TestCase, RowsTypeOK
  <2>2. ASSUME cur[k] = s
        PROVE  FALSE
    <3>1. s \in sent[k]
      BY <2>1, <2>2 DEF GradedWasSent
    <3>2. k = j
      BY <1>1, <3>1 DEF Alone
    <3>3. QED
      BY <1>3, <2>2, <3>2
  <2>3. QED
    BY <2>1, <2>2
<1>4. CASE cases' = cases
  BY <1>4
<1>5. ASSUME NEW k \in Judges, JudgeStep(k)
      PROVE  cases'[s] = cases[s]
  <2>1. ASSUME NEW kind \in Statuses, End(k, kind)
        PROVE  cases' = cases
    BY <2>1 DEF End, rows
  <2>2. ASSUME NEW x \in Subs, Acknowledge(k, x)
        PROVE  cases' = cases
    BY <2>2 DEF Acknowledge
  <2>3. QED
    BY <1>3, <1>5, <2>1, <2>2 DEF JudgeStep
<1>6. ASSUME NEW w \in Workers, WebStep(w)
      PROVE  cases'[s] = cases[s]
  BY <1>2, <1>4, <1>6 DEF WebStep, JudgeRequest, JudgeFailed, AbortRequest,
                          AbortMark, rows
<1>7. CASE \/ UNCHANGED bridgeVars
           \/ \E w \in Workers :
                 \/ \E r \in Requests : JudgeUpdate(w, r)
                 \/ \E x \in Abortable : AbortCheck(w, x)
           \/ \E k \in Judges : Tally(k) \/ Write(k) \/ Leave(k) \/ Connection(k)
           \/ \E n \in Managed : Administer(n)
           \/ Crash
           \/ Start
  BY <1>4, <1>7 DEF bridgeVars, rows, JudgeUpdate, AbortCheck, Tally, Write, Leave,
                    Connection, Administer, Crash, Start
<1>8. QED
  BY <1>5, <1>6, <1>7 DEF BridgeNext, Happens

\* Where the tasks of the handler threads come from.
LEMMA TasksComeFrom ==
    ASSUME RowsTypeOK, [BridgeNext]_bridgeVars, NEW j \in Judges
    PROVE  \/ task'[j] \in {task[j], NoTask}
           \/ \E kind \in Statuses : End(j, kind) /\ task'[j] = <<kind, cur[j]>>
           \/ Tally(j)
           \/ Leave(j) /\ task'[j] = Lost(j)
<1>1. CASE task' = task
  BY <1>1
<1>2. ASSUME NEW k \in Judges, NEW x, task' = [task EXCEPT ![k] = x], x = NoTask \/ k # j
      PROVE  task'[j] \in {task[j], NoTask}
  BY <1>2 DEF RowsTypeOK
<1>3. ASSUME NEW x, task' = [task EXCEPT ![j] = x]
      PROVE  task'[j] = x
  BY <1>3 DEF RowsTypeOK
<1>4. ASSUME NEW k \in Judges, JudgeStep(k)
      PROVE  \/ task'[j] \in {task[j], NoTask}
             \/ \E kind \in Statuses : End(j, kind) /\ task'[j] = <<kind, cur[j]>>
  <2>1. ASSUME NEW s \in Subs, Acknowledge(k, s)
        PROVE  task' = task
    BY <2>1 DEF Acknowledge
  <2>2. ASSUME GradingBegin(k) \/ TestCase(k)
        PROVE  task' = task
    BY <2>2 DEF GradingBegin, TestCase
  <2>3. ASSUME NEW kind \in Statuses, End(k, kind)
        PROVE  \/ task'[j] \in {task[j], NoTask}
               \/ End(j, kind) /\ task'[j] = <<kind, cur[j]>>
    <3>1. \/ task' = [task EXCEPT ![k] = NoTask]
          \/ task' = [task EXCEPT ![k] = <<kind, cur[k]>>]
      BY <2>3 DEF End
    <3>2. QED
      BY <2>3, <3>1, <1>2, <1>3
  <2>4. QED
    BY <1>1, <1>4, <2>1, <2>2, <2>3 DEF JudgeStep
<1>5. ASSUME NEW k \in Judges, Tally(k)
      PROVE  task'[j] \in {task[j], NoTask} \/ Tally(j)
  <2>1. \E x : task' = [task EXCEPT ![k] = x]
    BY <1>5 DEF Tally
  <2>2. QED
    BY <1>2, <1>5, <2>1
<1>6. ASSUME NEW k \in Judges, Write(k)
      PROVE  task'[j] \in {task[j], NoTask}
  BY <1>2, <1>6 DEF Write
<1>7. ASSUME NEW k \in Judges, Leave(k)
      PROVE  task'[j] \in {task[j], NoTask} \/ (Leave(j) /\ task'[j] = Lost(j))
  <2>1. task' = [task EXCEPT ![k] = Lost(k)]
    BY <1>7 DEF Leave
  <2>2. QED
    BY <1>2, <1>3, <1>7, <2>1
<1>8. ASSUME Crash
      PROVE  task'[j] = NoTask
  BY <1>8 DEF Crash
<1>9. ASSUME NEW w \in Workers, WebStep(w)
      PROVE  task' = task
  BY <1>9 DEF WebStep, JudgeDelete, JudgeRequest, JudgeFailed, AbortRequest, AbortMark
<1>10. CASE \/ UNCHANGED bridgeVars
            \/ \E w \in Workers :
                  \/ \E r \in Requests : JudgeUpdate(w, r)
                  \/ \E x \in Abortable : AbortCheck(w, x)
            \/ \E k \in Judges : Connection(k)
            \/ \E n \in Managed : Administer(n)
            \/ Start
  BY <1>10 DEF bridgeVars, JudgeUpdate, AbortCheck, Connection, Administer, Start
<1>11. QED
  BY <1>1, <1>4, <1>5, <1>6, <1>7, <1>8, <1>9, <1>10 DEF BridgeNext, Happens

\* What a judge has reported changes by its own packets, and is forgotten when its
\* grading ends.
LEMMA ReportsStay ==
    ASSUME RowsTypeOK, [BridgeNext]_bridgeVars, NEW j \in Judges,
           cur'[j] # NoSub, prog'[j] # 0, ~GradingBegin(j), ~TestCase(j)
    PROVE  cur'[j] = cur[j] /\ prog'[j] = prog[j]
<1>1. CASE UNCHANGED <<cur, prog>>
  BY <1>1
<1>2. ASSUME NEW k \in Judges, JudgeStep(k)
      PROVE  cur'[j] = cur[j] /\ prog'[j] = prog[j]
  <2>1. ASSUME NEW s \in Subs, Acknowledge(k, s)
        PROVE  cur'[j] = cur[j] /\ prog'[j] = prog[j]
    BY <2>1 DEF Acknowledge, RowsTypeOK
  <2>2. ASSUME GradingBegin(k) \/ TestCase(k)
        PROVE  cur'[j] = cur[j] /\ prog'[j] = prog[j]
    BY <2>2 DEF GradingBegin, TestCase, RowsTypeOK
  <2>3. ASSUME NEW kind \in Statuses, End(k, kind)
        PROVE  cur'[j] = cur[j] /\ prog'[j] = prog[j]
    BY <2>3 DEF End, RowsTypeOK
  <2>4. QED
    BY <1>2, <2>1, <2>2, <2>3 DEF JudgeStep
<1>3. ASSUME NEW k \in Judges, Leave(k)
      PROVE  cur'[j] = cur[j] /\ prog'[j] = prog[j]
  BY <1>3 DEF Leave, RowsTypeOK
<1>4. ASSUME Crash
      PROVE  FALSE
  BY <1>4 DEF Crash
<1>5. ASSUME NEW w \in Workers, WebStep(w)
      PROVE  UNCHANGED <<cur, prog>>
  BY <1>5 DEF WebStep, JudgeDelete, JudgeRequest, JudgeFailed, AbortRequest,
              AbortMark, judging
<1>6. CASE \/ UNCHANGED bridgeVars
           \/ \E w \in Workers :
                 \/ \E r \in Requests : JudgeUpdate(w, r)
                 \/ \E x \in Abortable : AbortCheck(w, x)
           \/ \E k \in Judges : Tally(k) \/ Write(k) \/ Connection(k)
           \/ \E n \in Managed : Administer(n)
           \/ Start
  BY <1>6 DEF bridgeVars, judging, JudgeUpdate, AbortCheck, Tally, Write, Connection,
              Administer, Start
<1>7. QED
  BY <1>1, <1>2, <1>3, <1>4, <1>5, <1>6 DEF BridgeNext, Happens

\* Every step keeps CasesAreTold: since a judging is alone, nobody but its judge writes
\* test cases, and nobody deletes them before it has ended.
LEMMA CasesAreToldStep ==
    ASSUME RowsTypeOK, RowsTypeOK', GradedWasSent, OneGrading, CasesAreTold,
           [BridgeNext]_bridgeVars
    PROVE  CasesAreTold'
<1> USE BridgeAssumption, NonesAssumption
<1> SUFFICES ASSUME NEW j \in Judges, NEW s \in Subs, s \notin disputed'
             PROVE  /\ cur'[j] = s /\ prog'[j] # 0 => cases'[s] = 1 .. prog'[j] - 1
                    /\ task'[j] = <<"D", s>> => cases'[s] = 1 .. LastCase
                    /\ \A sum \in SUBSET (1 .. LastCase) :
                          task'[j] = <<"D", s, sum>> => sum = 1 .. LastCase
  BY DEF CasesAreTold
<1>1. s \in Subs \ disputed
  BY DisputesGrow
<1>2. ASSUME cur'[j] = s, prog'[j] # 0
      PROVE  cases'[s] = 1 .. prog'[j] - 1
  <2>1. CASE GradingBegin(j)
    <3>1. cur[j] = s /\ prog'[j] = 1 /\ cases'[s] = {}
      BY <1>2, <2>1 DEF GradingBegin, RowsTypeOK
    <3>2. QED
      BY <3>1
  <2>2. CASE TestCase(j)
    <3>1. /\ cur[j] = s /\ prog[j] \in 1 .. LastCase /\ prog'[j] = prog[j] + 1
          /\ cases'[s] = cases[s] \cup {prog[j]}
      BY <1>2, <2>2 DEF TestCase, RowsTypeOK
    <3>2. cases[s] = 1 .. prog[j] - 1
      BY <1>1, <3>1 DEF CasesAreTold
    <3>3. QED
      BY <3>1, <3>2
  <2>3. CASE ~GradingBegin(j) /\ ~TestCase(j)
    <3>1. cur[j] = s /\ prog'[j] = prog[j]
      BY <1>2, <2>3, ReportsStay
    <3>2. s \in sent[j]
      BY <3>1 DEF GradedWasSent
    <3>3. cases'[s] = cases[s]
      BY <1>1, <2>3, <3>2, CasesStay
    <3>4. QED
      BY <1>1, <1>2, <3>1, <3>3 DEF CasesAreTold
  <2>4. QED
    BY <2>1, <2>2, <2>3
<1>3. ASSUME task'[j] = <<"D", s>>
      PROVE  cases'[s] = 1 .. LastCase
  <2>1. CASE task[j] = <<"D", s>>
    <3>1. Grades(j, s) /\ task[j] # NoTask
      BY <2>1 DEF Grades, NoTask
    <3>2. ~GradingBegin(j) /\ ~TestCase(j)
      BY <3>1 DEF GradingBegin, TestCase, Reads
    <3>3. cases'[s] = cases[s]
      BY <1>1, <3>1, <3>2, CasesStay
    <3>4. QED
      BY <1>1, <2>1, <3>3 DEF CasesAreTold
  <2>2. ASSUME NEW kind \in Statuses, End(j, kind), task'[j] = <<kind, cur[j]>>
        PROVE  cases'[s] = 1 .. LastCase
    <3>1. kind = "D" /\ cur[j] = s
      BY <1>3, <2>2
    <3>2. prog[j] > LastCase /\ cases' = cases
      BY <2>2, <3>1 DEF End, Endings, rows
    <3>3. prog[j] = LastCase + 1
      BY <3>2 DEF RowsTypeOK
    <3>4. cases[s] = 1 .. prog[j] - 1
      BY <1>1, <3>1, <3>3 DEF CasesAreTold
    <3>5. QED
      BY <3>2, <3>3, <3>4
  <2>3. CASE Tally(j)
    <3>1. \E x \in Subs : task'[j] = <<"D", x, cases[x]>>
      BY <2>3 DEF Tally, RowsTypeOK
    <3>2. Len(task'[j]) = 3
      BY <3>1
    <3>3. QED
      BY <1>3, <3>2
  <2>4. ASSUME task'[j] = Lost(j) \/ task'[j] = NoTask
        PROVE  FALSE
    BY <1>3, <2>4 DEF Lost, NoTask
  <2>5. QED
    BY <1>3, <2>1, <2>2, <2>3, <2>4, TasksComeFrom
<1>4. ASSUME NEW sum \in SUBSET (1 .. LastCase), task'[j] = <<"D", s, sum>>
      PROVE  sum = 1 .. LastCase
  <2>1. CASE task[j] = <<"D", s, sum>>
    BY <1>1, <2>1 DEF CasesAreTold
  <2>2. ASSUME NEW kind \in Statuses, task'[j] = <<kind, cur[j]>>
        PROVE  FALSE
    BY <1>4, <2>2
  <2>3. CASE Tally(j)
    <3>1. PICK x \in Subs : task[j] = <<"D", x>> /\ task'[j] = <<"D", x, cases[x]>>
      BY <2>3 DEF Tally, RowsTypeOK
    <3>2. x = s /\ sum = cases[s]
      BY <1>4, <3>1
    <3>3. QED
      BY <1>1, <3>1, <3>2 DEF CasesAreTold
  <2>4. ASSUME task'[j] = Lost(j) \/ task'[j] = NoTask
        PROVE  FALSE
    BY <1>4, <2>4 DEF Lost, NoTask
  <2>5. QED
    BY <1>4, <2>1, <2>2, <2>3, <2>4, TasksComeFrom
<1>5. QED
  BY <1>2, <1>3, <1>4

\* A submission is shown as graded by the write of its sum, and only a new judging or
\* an abort, which show it as something else, clear it.
LEMMA ScoreIsCompleteStep ==
    ASSUME RowsTypeOK, CasesAreTold, ScoreIsComplete, [BridgeNext]_bridgeVars
    PROVE  ScoreIsComplete'
<1> SUFFICES ASSUME NEW s \in Subs, s \notin disputed', status'[s] = "D"
             PROVE  score'[s] = 1 .. LastCase
  BY DEF ScoreIsComplete
<1>1. s \in Subs \ disputed
  BY DisputesGrow
<1>2. ASSUME status[s] = "D", score'[s] = score[s]
      PROVE  score'[s] = 1 .. LastCase
  BY <1>1, <1>2 DEF ScoreIsComplete
<1>3. CASE UNCHANGED <<status, score>>
  BY <1>2, <1>3
<1>4. ASSUME NEW x \in Subs, NEW v, v # "D", status' = [status EXCEPT ![x] = v],
             NEW y, score' = score \/ score' = [score EXCEPT ![x] = y]
      PROVE  score'[s] = 1 .. LastCase
  BY <1>2, <1>4 DEF RowsTypeOK
<1>5. ASSUME NEW w \in Workers, NEW r \in Requests, JudgeUpdate(w, r)
      PROVE  score'[s] = 1 .. LastCase
  BY <1>4, <1>5, SetsAssumption DEF JudgeUpdate
<1>6. ASSUME NEW w \in Workers, WebStep(w)
      PROVE  score'[s] = 1 .. LastCase
  <2>1. CASE JudgeFailed(w)
    BY <1>4, <2>1, SetsAssumption DEF JudgeFailed
  <2>2. CASE AbortMark(w)
    BY <1>4, <2>2 DEF AbortMark
  <2>3. CASE JudgeDelete(w) \/ JudgeRequest(w) \/ AbortRequest(w)
    BY <1>3, <2>3 DEF JudgeDelete, JudgeRequest, AbortRequest, rows
  <2>4. QED
    BY <1>6, <2>1, <2>2, <2>3 DEF WebStep
<1>7. ASSUME NEW j \in Judges, JudgeStep(j)
      PROVE  score'[s] = 1 .. LastCase
  <2>1. ASSUME NEW x \in Subs, Acknowledge(j, x)
        PROVE  score'[s] = 1 .. LastCase
    BY <1>2, <2>1 DEF Acknowledge, RowsTypeOK
  <2>2. CASE GradingBegin(j)
    <3>1. cur[j] \in Subs /\ status' = [status EXCEPT ![cur[j]] = "G"] /\ score' = score
      BY <2>2 DEF GradingBegin, RowsTypeOK
    <3>2. QED
      BY <1>4, <3>1
  <2>3. CASE TestCase(j)
    BY <1>3, <2>3 DEF TestCase
  <2>4. ASSUME NEW kind \in Statuses, End(j, kind)
        PROVE  score'[s] = 1 .. LastCase
    BY <1>3, <2>4 DEF End, rows
  <2>5. QED
    BY <1>7, <2>1, <2>2, <2>3, <2>4 DEF JudgeStep
<1>8. ASSUME NEW j \in Judges, Write(j)
      PROVE  score'[s] = 1 .. LastCase
  <2>1. ASSUME NEW x \in Subs, NEW sum \in SUBSET (1 .. LastCase),
               task[j] = <<"D", x, sum>>,
               status' = [status EXCEPT ![x] = "D"],
               score' = [score EXCEPT ![x] = sum]
        PROVE  score'[s] = 1 .. LastCase
    <3>1. CASE x = s
      BY <1>1, <2>1, <3>1 DEF CasesAreTold, RowsTypeOK
    <3>2. CASE x # s
      BY <1>2, <2>1, <3>2 DEF RowsTypeOK
    <3>3. QED
      BY <3>1, <3>2
  <2>2. ASSUME NEW x \in Subs, NEW v \in {"AB", "IE", "CE"},
               status' = [status EXCEPT ![x] = v],
               score' = score \/ score' = [score EXCEPT ![x] = NoScore]
        PROVE  score'[s] = 1 .. LastCase
    BY <1>4, <2>2
  <2>3. QED
    BY <1>8, <2>1, <2>2 DEF Write
<1>9. CASE Start
  BY <1>2, <1>9 DEF Start, RowsTypeOK
<1>10. CASE \/ UNCHANGED bridgeVars
            \/ \E w \in Workers, x \in Abortable : AbortCheck(w, x)
            \/ \E k \in Judges : Tally(k) \/ Leave(k) \/ Connection(k)
            \/ \E n \in Managed : Administer(n)
            \/ Crash
  BY <1>3, <1>10 DEF bridgeVars, rows, AbortCheck, Tally, Leave, Connection,
                     Administer, Crash
<1>11. QED
  BY <1>5, <1>6, <1>7, <1>8, <1>9, <1>10 DEF BridgeNext, Happens

\* GradingInv holds initially.
LEMMA GradingInvInit ==
    ASSUME BridgeInit
    PROVE  GradingInv
<1>1. Init /\ QueueInv
  BY QueueInvInit DEF BridgeInit
<1>2. TypeOK /\ RowsTypeOK
  BY <1>1, RowsTypeInit DEF QueueInv
<1>3. GradedWasSent /\ CasesAreTold /\ ScoreIsComplete
  BY DEF BridgeInit, GradedWasSent, CasesAreTold, ScoreIsComplete, NoTask
<1>4. OneGrading
  BY <1>1 DEF BridgeInit, Init, OneGrading, Alone, Asks, Grades, Resting, NoTask
<1>5. QED
  BY <1>1, <1>2, <1>3, <1>4 DEF GradingInv

\* GradingInv is inductive.
LEMMA GradingInvStep ==
    ASSUME GradingInv, [BridgeNext]_bridgeVars
    PROVE  GradingInv'
<1> USE DEF GradingInv
<1>1. QueueInv'
  BY SchedulerKeepsQueueInv
<1>2. TypeOK' /\ RowsTypeOK'
  BY <1>1, RowsTypeStep DEF QueueInv
<1>3. QueueMatchesNodeMap
  BY DEF QueueInv
<1>4. GradedWasSent' /\ OneGrading'
  BY <1>3, GradedWasSentStep, OneGradingStep
<1>5. CasesAreTold' /\ ScoreIsComplete'
  BY <1>2, CasesAreToldStep, ScoreIsCompleteStep
<1>6. QED
  BY <1>1, <1>2, <1>4, <1>5

\* GradingInv is an invariant of the bridge.
LEMMA GradingInvHolds == BridgeSpec => []GradingInv
BY GradingInvInit, GradingInvStep, PTL DEF BridgeSpec

\* The rows and what the threads are in the middle of keep their shape.
THEOREM BridgeTypeHolds == BridgeSpec => []BridgeTypeOK
<1>1. GradingInv => BridgeTypeOK
  BY BridgeTypeSplits DEF GradingInv
<1>2. QED
  BY <1>1, GradingInvHolds, PTL

\* Whatever fails and crashes, a submission that is not in dispute is never shown as
\* graded with a part of its test cases: it is in one place at a time (OneGrading), and
\* the rows that are added up are those of that one judging (CasesAreTold).
THEOREM GradedWithEveryCase == BridgeSpec => []ScoreIsComplete
<1>1. GradingInv => ScoreIsComplete
  BY DEF GradingInv
<1>2. QED
  BY <1>1, GradingInvHolds, PTL

-----------------------------------------------------------------------------
(* Where a status comes from.                                              *)

\* Internal errors and aborts may be shown over any phase.
MARKS == {"IE", "AB"}

\* What a step does to the row of s.
LEMMA StatusComesFrom ==
    ASSUME RowsTypeOK, [BridgeNext]_bridgeVars, NEW s \in Subs
    PROVE  \/ status'[s] = status[s] /\ score'[s] = score[s]
           \/ /\ status'[s] \in MARKS
              /\ \/ status'[s] = "IE" /\ score'[s] = score[s]
                 \/ score'[s] = NoScore
           \/ \E w \in Workers, r \in Requests : JudgeUpdate(w, r) /\ r.id = s
           \/ \E j \in Judges : Acknowledge(j, s)
           \/ \E j \in Judges : GradingBegin(j) /\ cur[j] = s
           \/ \E j \in Judges : /\ Write(j) /\ Owes(j, s) /\ status'[s] = task[j][1]
                               /\ \/ status'[s] = "D"
                                  \/ status'[s] = "CE" /\ score'[s] = score[s]
<1> DEFINE Same == status'[s] = status[s] /\ score'[s] = score[s]
           Marked == /\ status'[s] \in MARKS
                     /\ \/ status'[s] = "IE" /\ score'[s] = score[s]
                        \/ score'[s] = NoScore
           Goal ==
              \/ Same \/ Marked
              \/ \E w \in Workers, r \in Requests : JudgeUpdate(w, r) /\ r.id = s
              \/ \E j \in Judges : Acknowledge(j, s)
              \/ \E j \in Judges : GradingBegin(j) /\ cur[j] = s
              \/ \E j \in Judges : /\ Write(j) /\ Owes(j, s) /\ status'[s] = task[j][1]
                                  /\ \/ status'[s] = "D"
                                     \/ status'[s] = "CE" /\ score'[s] = score[s]
<1> SUFFICES Goal
  OBVIOUS
<1> HIDE DEF Goal
<1> USE DEF MARKS
<1>1. UNCHANGED <<status, score>> => Same
  OBVIOUS
<1>2. ASSUME NEW w \in Workers, NEW r \in Requests, JudgeUpdate(w, r), r.id # s
      PROVE  Same
  BY <1>2 DEF JudgeUpdate, RowsTypeOK
<1>3. ASSUME NEW w \in Workers, WebStep(w)
      PROVE  Same \/ Marked
  <2>1. CASE JudgeFailed(w)
    BY <2>1 DEF JudgeFailed, RowsTypeOK
  <2>2. CASE AbortMark(w)
    BY <2>2 DEF AbortMark, RowsTypeOK
  <2>3. CASE JudgeDelete(w) \/ JudgeRequest(w) \/ AbortRequest(w)
    BY <2>3 DEF JudgeDelete, JudgeRequest, AbortRequest, rows
  <2>4. QED
    BY <1>3, <2>1, <2>2, <2>3 DEF WebStep
<1>4. ASSUME NEW j \in Judges, NEW x \in Subs, Acknowledge(j, x), x # s
      PROVE  Same \/ Marked
  BY <1>4 DEF Acknowledge, RowsTypeOK
<1>5. ASSUME NEW j \in Judges, GradingBegin(j), cur[j] # s
      PROVE  Same
  BY <1>5 DEF GradingBegin, RowsTypeOK
<1>6. ASSUME NEW j \in Judges, TestCase(j) \/ \E kind \in Statuses : End(j, kind)
      PROVE  Same
  BY <1>6 DEF TestCase, End, rows
<1>7. ASSUME NEW j \in Judges, Write(j)
      PROVE  \/ Same \/ Marked
             \/ /\ Owes(j, s) /\ status'[s] = task[j][1]
                /\ \/ status'[s] = "D"
                   \/ status'[s] = "CE" /\ score'[s] = score[s]
  <2>1. ASSUME NEW x \in Subs, NEW sum \in SUBSET (1 .. LastCase),
               task[j] = <<"D", x, sum>>,
               status' = [status EXCEPT ![x] = "D"],
               score' = [score EXCEPT ![x] = sum]
        PROVE  Same \/ (Owes(j, s) /\ status'[s] = task[j][1] /\ status'[s] = "D")
    <3>1. CASE x = s
      <4>1. Owes(j, s)
        BY <2>1, <3>1 DEF Owes, NoTask
      <4>2. status'[s] = "D" /\ task[j][1] = "D"
        BY <2>1, <3>1 DEF RowsTypeOK
      <4>3. QED
        BY <4>1, <4>2
    <3>2. CASE x # s
      BY <2>1, <3>2 DEF RowsTypeOK
    <3>3. QED
      BY <3>1, <3>2
  <2>2. ASSUME NEW x \in Subs, task[j] = <<"AB", x>>,
               status' = [status EXCEPT ![x] = "AB"],
               score' = [score EXCEPT ![x] = NoScore]
        PROVE  Same \/ Marked
    BY <2>2 DEF RowsTypeOK
  <2>3. ASSUME NEW x \in Subs, task[j] = <<"IE", x>>,
               status' = [status EXCEPT ![x] = "IE"], UNCHANGED score
        PROVE  Same \/ Marked
    BY <2>3 DEF RowsTypeOK
  <2>4. ASSUME NEW x \in Subs, task[j] = <<"CE", x>>,
               status' = [status EXCEPT ![x] = "CE"], UNCHANGED score
        PROVE  \/ Same
               \/ /\ Owes(j, s) /\ status'[s] = task[j][1]
                  /\ status'[s] = "CE" /\ score'[s] = score[s]
    <3>1. CASE x = s
      <4>1. Owes(j, s)
        BY <2>4, <3>1 DEF Owes, NoTask
      <4>2. status'[s] = "CE" /\ task[j][1] = "CE"
        BY <2>4, <3>1 DEF RowsTypeOK
      <4>3. QED
        BY <2>4, <4>1, <4>2
    <3>2. CASE x # s
      BY <2>4, <3>2 DEF RowsTypeOK
    <3>3. QED
      BY <3>1, <3>2
  <2> HIDE DEF Same, Marked
  <2>5. QED
    BY <1>7, <2>1, <2>2, <2>3, <2>4 DEF Write
<1>8. ASSUME Start
      PROVE  Same \/ Marked
  BY <1>8 DEF Start, RowsTypeOK
<1>9. ASSUME \/ UNCHANGED bridgeVars
             \/ \E w \in Workers, x \in Abortable : AbortCheck(w, x)
             \/ \E k \in Judges : Tally(k) \/ Leave(k) \/ Connection(k)
             \/ \E n \in Managed : Administer(n)
             \/ Crash
      PROVE  Same
  BY <1>1, <1>9 DEF bridgeVars, rows, AbortCheck, Tally, Leave, Connection,
                    Administer, Crash
<1> HIDE DEF Same, Marked
<1>10. CASE \E w \in Workers :
               (\E r \in Requests : JudgeUpdate(w, r)) \/ WebStep(w)
  BY <1>2, <1>3, <1>10 DEF Goal
<1>11. CASE \E j \in Judges : JudgeStep(j)
  BY <1>4, <1>5, <1>6, <1>11 DEF JudgeStep, Goal
<1>12. CASE \E j \in Judges : Write(j)
  BY <1>7, <1>12 DEF Goal
<1>13. CASE \/ Start \/ Crash \/ UNCHANGED bridgeVars
            \/ \E w \in Workers, x \in Abortable : AbortCheck(w, x)
            \/ \E k \in Judges : Tally(k) \/ Leave(k) \/ Connection(k)
            \/ \E n \in Managed : Administer(n)
  BY <1>8, <1>9, <1>13 DEF Goal
<1>14. QED
  BY <1>10, <1>11, <1>12, <1>13 DEF BridgeNext, Happens

-----------------------------------------------------------------------------
(* What did not go astray.                                                 *)

\* The map files s under the judge it was sent to, it is not queued besides, and who
\* works on it was sent it: for connections cn, work wk, map sm, requests sn, nodes nm.
FiledIn(s, cn, wk, sm, sn, nm) ==
    /\ \A j \in Judges : s \in sn[j] => sm[s] = j
    /\ nm[s] # NoNode => sm[s] = NoJudge
    /\ \A j \in Judges : cn[j] # "gone" /\ wk[j] = s => s \in sn[j]

Filed(s) == FiledIn(s, conn, working, submission_map, sent, node_map)

\* A walk over the queue after which s does not stray leaves it filed.
LEMMA WalkKeepsFiled ==
    ASSUME TypeOK, QueueMatchesNodeMap, NEW j \in Judges, NEW js, NEW cn,
           NEW wk \in [Judges -> Subs \cup {NoSub}],
           NEW sm \in [Subs -> Judges \cup {NoJudge}],
           NEW sn \in [Judges -> SUBSET Subs], NEW s \in Subs,
           FiledIn(s, cn, wk, sm, sn, node_map),
           HandleFreeJudge(j, js, wk, sm, sn), ~Strays(s)'
    PROVE  FiledIn(s, cn, working', submission_map', sent', node_map')
<1> USE NonesAssumption
<1>1. CASE \E p \in Priorities : \E i \in 1 .. Len(queue[p]) :
              DispatchNode(j, p, i, js, wk, sm, sn)
  <2>1. PICK p \in Priorities : \E i \in 1 .. Len(queue[p]) :
           DispatchNode(j, p, i, js, wk, sm, sn)
    BY <1>1
  <2>2. PICK i \in 1 .. Len(queue[p]) : DispatchNode(j, p, i, js, wk, sm, sn)
    BY <2>1
  <2> DEFINE id == queue[p][i].id
  <2>3. id \in Subs /\ node_map[id] # NoNode
    <3>1. queue[p] \in Seq(Items)
      BY DEF TypeOK
    <3>2. queue[p][i] \in Items
      BY <3>1, ElementOfSeq
    <3>3. QED
      BY <3>2 DEF Items, QueueMatchesNodeMap
  <2>4. submission_map' = [sm EXCEPT ![id] = j]
    BY <2>2 DEF DispatchNode
  <2>5. CASE SubmitOk(j, id, wk, sn) /\ DropNode(p, i)
    <3>1. /\ sent' = [sn EXCEPT ![j] = sn[j] \cup {id}]
          /\ working' = [wk EXCEPT ![j] = id]
          /\ node_map' = [node_map EXCEPT ![id] = NoNode]
      BY <2>5 DEF SubmitOk, DropNode
    <3> HIDE DEF id
    <3>2. \A k \in Judges : s \in sent'[k] <=> s \in sn[k] \/ (k = j /\ s = id)
      BY <3>1
    <3>3. \A k \in Judges : working'[k] = IF k = j THEN id ELSE wk[k]
      BY <3>1
    <3>4. node_map'[s] = IF s = id THEN NoNode ELSE node_map[s]
      BY <2>3, <3>1 DEF TypeOK
    <3>5. submission_map'[s] = IF s = id THEN j ELSE sm[s]
      BY <2>3, <2>4
    <3>6. QED
      BY <2>3, <3>2, <3>3, <3>4, <3>5 DEF FiledIn
  <2>6. CASE SubmitFails(j, id, wk, sn) /\ UNCHANGED <<queue, node_map>>
    <3>1. sent' = sn /\ (working' = wk \/ working' = [wk EXCEPT ![j] = id])
      BY <2>6 DEF SubmitFails
    <3> HIDE DEF id
    <3>2. s # id
      <4>1. ASSUME s = id
            PROVE  FALSE
        <5>1. sm[s] = NoJudge /\ s \notin sn[j]
          BY <2>3, <4>1 DEF FiledIn
        <5>2. submission_map'[s] = j
          BY <2>3, <2>4, <4>1
        <5>3. QED
          BY <3>1, <5>1, <5>2 DEF Strays
      <4>2. QED
        BY <4>1
    <3>3. submission_map'[s] = sm[s] /\ \A k \in Judges : working'[k] = s => wk[k] = s
      BY <2>3, <2>4, <3>1, <3>2
    <3>4. QED
      BY <2>6, <3>1, <3>3 DEF FiledIn
  <2>7. QED
    BY <2>2, <2>5, <2>6 DEF DispatchNode
<1>2. CASE /\ working' = wk /\ submission_map' = sm /\ sent' = sn
           /\ UNCHANGED node_map
  BY <1>2
<1>3. QED
  BY <1>1, <1>2 DEF HandleFreeJudge

\* So does every step of the scheduler.
LEMMA FiledStep ==
    ASSUME TypeOK, QueueMatchesNodeMap, [Next]_vars, NEW s \in Subs,
           Filed(s), ~Strays(s), ~Strays(s)'
    PROVE  Filed(s)'
<1> USE NonesAssumption
<1> DEFINE Kept == /\ UNCHANGED <<node_map, submission_map, working, sent>>
                   /\ \A j \in Judges : conn'[j] # "gone" => conn[j] # "gone"
<1>1. CASE Kept
  BY <1>1 DEF Filed, FiledIn
<1>2. /\ working \in [Judges -> Subs \cup {NoSub}]
      /\ submission_map \in [Subs -> Judges \cup {NoJudge}]
      /\ sent \in [Judges -> SUBSET Subs]
  BY DEF TypeOK
<1>3. ASSUME NEW j \in Judges, NEW js,
             HandleFreeJudge(j, js, working, submission_map, sent),
             \A k \in Judges : conn'[k] # "gone" => conn[k] # "gone"
      PROVE  Filed(s)'
  <2>1. FiledIn(s, conn', working, submission_map, sent, node_map)
    BY <1>3 DEF Filed, FiledIn
  <2>2. FiledIn(s, conn', working', submission_map', sent', node_map')
    BY <1>2, <1>3, <2>1, WalkKeepsFiled
  <2>3. QED
    BY <2>2 DEF Filed, FiledIn
<1>4. ASSUME NEW j \in Judges, NEW kinds \in Offers, Handshake(j, kinds)
      PROVE  Kept
  BY <1>4 DEF Handshake, scheduler, TypeOK
<1>5. ASSUME NEW j \in Judges, Register(j)
      PROVE  Filed(s)'
  BY <1>3, <1>5 DEF Register, TypeOK
<1>6. ASSUME NEW j \in Judges, NEW disabled \in BOOLEAN, Connected(j, disabled)
      PROVE  Kept
  BY <1>6 DEF Connected, scheduler, TypeOK
<1>7. ASSUME NEW j \in Judges, Disconnect(j)
      PROVE  Filed(s)'
  <2> DEFINE sm == IF working[j] = NoSub THEN submission_map
                   ELSE Without(working[j])
             js == judges \ {j}
             sn == [sent EXCEPT ![j] = {}]
  <2>1. /\ conn' = [conn EXCEPT ![j] = "gone"] /\ conn[j] # "gone"
        /\ \/ \E k \in js : HandleFreeJudge(k, js, working, sm, sn)
           \/ /\ submission_map' = sm /\ sent' = sn
              /\ UNCHANGED <<node_map, working>>
    BY <1>7 DEF Disconnect, Listening
  <2>2. /\ sm \in [Subs -> Judges \cup {NoJudge}] /\ sn \in [Judges -> SUBSET Subs]
        /\ sm[s] = IF working[j] = s THEN NoJudge ELSE submission_map[s]
        /\ \A k \in Judges : sn[k] = IF k = j THEN {} ELSE sent[k]
        /\ js \subseteq Judges
    BY <1>2 DEF Without, TypeOK
  <2>3. \A k \in Judges : conn'[k] # "gone" <=> k # j /\ conn[k] # "gone"
    BY <2>1 DEF TypeOK
  <2>4. working[j] = s => s \in sent[j] /\ submission_map[s] = j
    BY <2>1 DEF Filed, FiledIn
  <2> HIDE DEF sm, sn, js
  <2>5. FiledIn(s, conn', working, sm, sn, node_map)
    BY <2>2, <2>3, <2>4 DEF Filed, FiledIn
  <2>6. ASSUME NEW k \in js, HandleFreeJudge(k, js, working, sm, sn)
        PROVE  Filed(s)'
    <3>1. k \in Judges
      BY <2>2
    <3>2. FiledIn(s, conn', working', submission_map', sent', node_map')
      BY <1>2, <2>2, <2>5, <2>6, <3>1, WalkKeepsFiled
    <3>3. QED
      BY <3>2 DEF Filed, FiledIn
  <2>7. QED
    BY <2>1, <2>5, <2>6 DEF Filed, FiledIn
<1>8. ASSUME NEW j \in Judges, NEW kinds \in Offers, SupportedProblems(j, kinds)
      PROVE  Kept
  BY <1>8 DEF SupportedProblems, scheduler
<1>9. ASSUME NEW j \in Judges, UpdateProblems(j)
      PROVE  Filed(s)'
  BY <1>3, <1>9 DEF UpdateProblems
<1>10. ASSUME NEW j \in Judges, NEW x \in Subs, OnJudgeFree(j, x)
       PROVE  Filed(s)'
  <2> DEFINE sm == Without(x)
             wk == [working EXCEPT ![j] = NoSub]
             sn == [sent EXCEPT ![j] = @ \ {x}]
  <2>1. /\ UNCHANGED conn /\ x \in sent[j]
        /\ \/ HandleFreeJudge(j, judges, wk, sm, sn)
           \/ /\ submission_map[x] = NoJudge /\ sent' = sn
              /\ UNCHANGED <<node_map, submission_map, working>>
    BY <1>10 DEF OnJudgeFree, scheduler
  <2>2. /\ sm \in [Subs -> Judges \cup {NoJudge}] /\ sn \in [Judges -> SUBSET Subs]
        /\ wk \in [Judges -> Subs \cup {NoSub}]
        /\ sm[s] = IF x = s THEN NoJudge ELSE submission_map[s]
        /\ \A k \in Judges : wk[k] = IF k = j THEN NoSub ELSE working[k]
        /\ \A k \in Judges : s \in sn[k] <=> s \in sent[k] /\ ~(k = j /\ s = x)
    BY <1>2 DEF Without
  <2>3. x = s => submission_map[s] = j
    BY <2>1 DEF Filed, FiledIn
  <2> HIDE DEF sm, sn, wk
  <2>4. FiledIn(s, conn, wk, sm, sn, node_map)
    <3>1. \A k \in Judges : s \in sn[k] => sm[s] = k
      BY <2>2, <2>3 DEF Filed, FiledIn
    <3>2. node_map[s] # NoNode => sm[s] = NoJudge
      BY <2>2 DEF Filed, FiledIn
    <3>3. \A k \in Judges : conn[k] # "gone" /\ wk[k] = s => s \in sn[k]
      BY <2>2, <2>3 DEF Filed, FiledIn
    <3>4. QED
      BY <3>1, <3>2, <3>3 DEF FiledIn
  <2>5. CASE HandleFreeJudge(j, judges, wk, sm, sn)
    <3>1. FiledIn(s, conn, working', submission_map', sent', node_map')
      BY <2>2, <2>4, <2>5, WalkKeepsFiled
    <3>2. QED
      BY <2>1, <3>1 DEF Filed, FiledIn
  <2>6. CASE /\ submission_map[x] = NoJudge /\ sent' = sn
             /\ UNCHANGED <<node_map, submission_map, working>>
    BY <2>1, <2>2, <2>3, <2>6 DEF Filed, FiledIn
  <2>7. QED
    BY <2>1, <2>5, <2>6
<1>11. ASSUME NEW r \in Requests, Judge(r)
       PROVE  Filed(s)'
  <2>1. r.id \in Subs /\ r.priority \in Priorities /\ UNCHANGED conn
    BY <1>11, SetsAssumption DEF Judge
  <2>2. CASE UNCHANGED <<node_map, submission_map, working, sent>>
    BY <1>1, <2>1, <2>2
  <2>3. ASSUME NEW j \in Available(r), ~Known(r.id), UNCHANGED node_map,
               submission_map' = [submission_map EXCEPT ![r.id] = j],
               SubmitOk(j, r.id, working, sent)
        PROVE  Filed(s)'
    <3>1. j \in Judges
      BY <2>3 DEF Available, Candidates, TypeOK
    <3>2. /\ submission_map'[s] = IF s = r.id THEN j ELSE submission_map[s]
          /\ \A k \in Judges : working'[k] = IF k = j THEN r.id ELSE working[k]
          /\ \A k \in Judges : s \in sent'[k] <=> s \in sent[k] \/ (k = j /\ s = r.id)
      BY <1>2, <2>1, <2>3, <3>1 DEF SubmitOk
    <3>3. QED
      BY <2>1, <2>3, <3>1, <3>2 DEF Filed, FiledIn, Known
  <2>4. ASSUME NEW j \in Available(r), ~Known(r.id), UNCHANGED node_map,
               submission_map' = [submission_map EXCEPT ![r.id] = j],
               SubmitFails(j, r.id, working, sent)
        PROVE  Filed(s)'
    <3>1. j \in Judges
      BY <2>4 DEF Available, Candidates, TypeOK
    <3>2. /\ sent' = sent
          /\ \A k \in Judges : working'[k] \in {working[k], r.id}
      BY <1>2, <2>4, <3>1 DEF SubmitFails
    <3>3. s # r.id
      <4>1. ASSUME s = r.id
            PROVE  FALSE
        <5>1. s \notin sent[j] /\ submission_map'[s] = j
          BY <1>2, <2>4, <3>1, <4>1 DEF Filed, FiledIn, Known
        <5>2. QED
          BY <3>1, <3>2, <5>1 DEF Strays
      <4>2. QED
        BY <4>1
    <3>4. submission_map'[s] = submission_map[s]
      BY <1>2, <2>1, <2>4, <3>3
    <3>5. QED
      BY <2>1, <2>4, <3>2, <3>3, <3>4 DEF Filed, FiledIn
  <2>5. CASE /\ ~Known(r.id) /\ node_map' = [node_map EXCEPT ![r.id] = r.priority]
             /\ UNCHANGED <<submission_map, working, sent>>
    BY <2>1, <2>5 DEF Filed, FiledIn, Known, TypeOK
  <2>6. QED
    BY <1>11, <2>2, <2>3, <2>4, <2>5 DEF Judge, Section, scheduler
<1>12. ASSUME NEW x \in Subs, Abort(x)
       PROVE  Filed(s)'
  <2>1. /\ UNCHANGED <<conn, submission_map, working, sent>>
        /\ \/ UNCHANGED node_map
           \/ node_map' = [node_map EXCEPT ![x] = NoNode]
    <3>1. ASSUME NEW i \in 1 .. Len(queue[node_map[x]]),
                 queue[node_map[x]][i].id = x, DropNode(node_map[x], i)
          PROVE  node_map' = [node_map EXCEPT ![x] = NoNode]
      BY <3>1 DEF DropNode
    <3>2. QED
      BY <1>12, <3>1 DEF Abort
  <2>2. QED
    BY <2>1 DEF Filed, FiledIn, TypeOK
<1>13. ASSUME NEW n \in Managed,
              ForceDisconnect(n) \/ \E disabled \in BOOLEAN : UpdateDisableJudge(n, disabled)
       PROVE  Kept
  BY <1>13 DEF ForceDisconnect, UpdateDisableJudge, scheduler
<1>14. CASE UNCHANGED vars
  BY <1>1, <1>14 DEF vars
<1>15. QED
  BY <1>1, <1>4, <1>5, <1>6, <1>7, <1>8, <1>9, <1>10, <1>11, <1>12, <1>13, <1>14 DEF Next

\* What did not go astray is filed.
FiledInv == \A s \in Subs \ astray : ~Strays(s) /\ Filed(s)

\* History has noted all that stray; what it forgets it forgets in a crash.
LEMMA StraysAreNoted ==
    ASSUME [BridgeNext]_bridgeVars, FiledInv, NEW s \in Subs, s \notin astray'
    PROVE  ~Strays(s)' /\ (s \notin astray \/ Crash)
<1>1. CASE UNCHANGED bridgeVars
  BY <1>1 DEF bridgeVars, vars, FiledInv, Strays
<1>2. CASE Noted
  BY <1>2 DEF Noted
<1>3. QED
  BY <1>1, <1>2 DEF BridgeNext

\* Every step of the bridge leaves what did not go astray filed.
LEMMA FiledInvStep ==
    ASSUME TypeOK, RowsTypeOK, QueueMatchesNodeMap, FiledInv, [BridgeNext]_bridgeVars
    PROVE  FiledInv'
<1> SUFFICES ASSUME NEW s \in Subs, s \notin astray'
             PROVE  ~Strays(s)' /\ Filed(s)'
  BY DEF FiledInv
<1>1. ~Strays(s)' /\ (s \notin astray \/ Crash)
  BY StraysAreNoted
<1>2. CASE Crash
  BY <1>1, <1>2, NonesAssumption DEF Crash, Filed, FiledIn
<1>3. CASE ~Crash
  <2>1. ~Strays(s) /\ Filed(s)
    BY <1>1, <1>3 DEF FiledInv
  <2>2. ASSUME NEW j \in Judges, HangUp(j)
        PROVE  Filed(s)'
    BY <2>1, <2>2 DEF HangUp, scheduler, Filed, FiledIn
  <2>3. QED
    BY <1>1, <1>3, <2>1, <2>2, FiledStep, SchedulerSteps
<1>4. QED
  BY <1>2, <1>3

-----------------------------------------------------------------------------
(* Nobody is forgotten.                                                    *)

\* s is in the queue or with a judge.
Carried(s) == node_map[s] # NoNode \/ \E j \in Judges : s \in sent[j]

\* A submission leaves the queue for a judge, or by an abort; and it leaves a judge by
\* the end of its grading, with the connection, or in a crash.
LEMMA CarriedUntil ==
    ASSUME TypeOK, RowsTypeOK, QueueMatchesNodeMap, [BridgeNext]_bridgeVars,
           NEW s \in Subs, Carried(s)
    PROVE  \/ Carried(s)'
           \/ \E j \in Judges, kind \in Statuses : End(j, kind) /\ cur[j] = s
           \/ \E j \in Judges : Leave(j) /\ s \in sent[j]
           \/ \E w \in Workers : /\ AbortRequest(w)
                                 /\ web'[w] = <<"mark", s>> \/ s \in dropped'
                                 /\ submission_map[s] = NoJudge
           \/ Crash
<1> USE DEF Carried
<1>1. CASE UNCHANGED <<node_map, sent>>
  BY <1>1
<1>2. CASE UNCHANGED bridgeVars
  BY <1>1, <1>2 DEF bridgeVars, vars, scheduler
<1>3. ASSUME NEW w \in Workers, JudgeRequest(w)
      PROVE  Carried(s)'
  <2>1. UNCHANGED vars \/ \E r \in Requests : Judge(r)
    BY <1>3 DEF JudgeRequest
  <2>2. ASSUME NEW r \in Requests, Judge(r)
        PROVE  Carried(s)'
    <3>1. r.id \in Subs /\ r.priority \in Priorities
      BY SetsAssumption
    <3>2. CASE UNCHANGED <<node_map, sent>>
      BY <3>2
    <3>3. ASSUME NEW j \in Judges, node_map' = node_map,
                 sent' = [sent EXCEPT ![j] = @ \cup {r.id}]
          PROVE  Carried(s)'
      BY <3>3 DEF TypeOK
    <3>4. CASE sent' = sent /\ node_map' = [node_map EXCEPT ![r.id] = r.priority]
      BY <3>1, <3>4, NonesAssumption DEF TypeOK
    <3>5. QED
      BY <2>2, <3>2, <3>3, <3>4, RequestEffect
  <2>3. QED
    BY <1>1, <2>1, <2>2 DEF vars, scheduler
<1>4. ASSUME NEW w \in Workers, AbortRequest(w), ~Carried(s)'
      PROVE  /\ web'[w] = <<"mark", s>> \/ s \in dropped'
             /\ submission_map[s] = NoJudge
  <2>1. PICK x \in Subs :
           \/ UNCHANGED vars
           \/ Abort(x) /\ submission_map[x] # NoJudge
           \/ /\ submission_map[x] = NoJudge /\ Abort(x)
              /\ \/ web' = [web EXCEPT ![w] = <<"mark", x>>]
                 \/ x \in dropped'
    BY <1>4 DEF AbortRequest
  <2>2. ASSUME Abort(x), submission_map[x] # NoJudge
        PROVE  FALSE
    BY <1>1, <1>4, <2>2 DEF Abort
  <2>3. ASSUME Abort(x), submission_map[x] = NoJudge, x # s
        PROVE  FALSE
    <3>1. sent' = sent
      BY <2>3 DEF Abort
    <3>2. node_map' = [node_map EXCEPT ![x] = NoNode]
      BY <2>3 DEF Abort, DropNode
    <3>3. QED
      BY <1>4, <2>3, <3>1, <3>2 DEF TypeOK
  <2>4. QED
    BY <1>1, <1>4, <2>1, <2>2, <2>3 DEF RowsTypeOK, vars, scheduler
<1>5. ASSUME NEW j \in Judges, NEW kind \in Statuses, End(j, kind), cur[j] # s
      PROVE  Carried(s)'
  <2> DEFINE sn == [sent EXCEPT ![j] = @ \ {cur[j]}]
             wk == [working EXCEPT ![j] = NoSub]
  <2>1. \/ HandleFreeJudge(j, judges, wk, Without(cur[j]), sn)
        \/ sent' = sn /\ UNCHANGED node_map
    BY <1>5 DEF End, OnJudgeFree, scheduler
  <2>2. /\ sn \in [Judges -> SUBSET Subs]
        /\ \A k \in Judges : s \in sent[k] => s \in sn[k]
    BY <1>5 DEF TypeOK
  <2> HIDE DEF sn, wk
  <2>3. QED
    BY <2>1, <2>2, WalkMoves
<1>6. ASSUME NEW j \in Judges, Leave(j), s \notin sent[j]
      PROVE  Carried(s)'
  <2> DEFINE sm == IF working[j] = NoSub THEN submission_map
                   ELSE Without(working[j])
             js == judges \ {j}
             sn == [sent EXCEPT ![j] = {}]
  <2>1. \/ \E k \in js : HandleFreeJudge(k, js, working, sm, sn)
        \/ sent' = sn /\ UNCHANGED node_map
    BY <1>6 DEF Leave, Disconnect
  <2>2. /\ sn \in [Judges -> SUBSET Subs] /\ js \subseteq Judges
        /\ \A k \in Judges : s \in sent[k] => s \in sn[k]
    BY <1>6 DEF TypeOK
  <2> HIDE DEF sn, js, sm
  <2>3. QED
    BY <2>1, <2>2, WalkMoves
<1>7. ASSUME NEW j \in Judges, Connection(j)
      PROVE  Carried(s)'
  <2>1. ASSUME NEW js, HandleFreeJudge(j, js, working, submission_map, sent)
        PROVE  Carried(s)'
    <3>1. sent \in [Judges -> SUBSET Subs]
      BY DEF TypeOK
    <3>2. QED
      BY <2>1, <3>1, WalkMoves
  <2>2. CASE Register(j) \/ UpdateProblems(j)
    BY <2>1, <2>2 DEF Register, UpdateProblems
  <2>3. CASE \/ \E kinds \in Offers : Handshake(j, kinds) \/ SupportedProblems(j, kinds)
             \/ \E disabled \in BOOLEAN : Connected(j, disabled)
    BY <1>1, <2>3 DEF Handshake, SupportedProblems, Connected, scheduler
  <2>4. QED
    BY <1>7, <2>2, <2>3 DEF Connection
<1>8. ASSUME NEW n \in Managed, Administer(n)
      PROVE  Carried(s)'
  BY <1>1, <1>8 DEF Administer, ForceDisconnect, UpdateDisableJudge, scheduler
<1>9. ASSUME NEW j \in Judges, NEW x \in Subs, Acknowledge(j, x)
      PROVE  Carried(s)'
  BY <1>1, <1>9, AcknowledgeHangsUp DEF HangUp, vars, scheduler
<1>10. CASE \/ \E w \in Workers :
                  \/ \E r \in Requests : JudgeUpdate(w, r)
                  \/ \E x \in Abortable : AbortCheck(w, x)
                  \/ JudgeDelete(w) \/ JudgeFailed(w) \/ AbortMark(w)
            \/ \E j \in Judges : GradingBegin(j) \/ TestCase(j) \/ Tally(j) \/ Write(j)
            \/ Start
  <2>1. UNCHANGED vars
    BY <1>10 DEF JudgeUpdate, AbortCheck, JudgeDelete, JudgeFailed, AbortMark,
                 GradingBegin, TestCase, Tally, Write, Start
  <2>2. QED
    BY <1>1, <2>1 DEF vars, scheduler
<1> HIDE DEF Carried
<1>11. QED
  BY <1>2, <1>3, <1>4, <1>5, <1>6, <1>7, <1>8, <1>9, <1>10
     DEF BridgeNext, Happens, WebStep, JudgeStep

\* A result is owed until it is written, or the bridge crashes.
LEMMA OwedUntil ==
    ASSUME RowsTypeOK, [BridgeNext]_bridgeVars, NEW j \in Judges, NEW s \in Subs,
           Owes(j, s)
    PROVE  Owes(j, s)' \/ Write(j) \/ Crash
<1>1. task[j] # NoTask
  BY DEF Owes
<1>2. CASE task' = task
  BY <1>2 DEF Owes
<1>3. ASSUME NEW k \in Judges, k # j, NEW x, task' = [task EXCEPT ![k] = x]
      PROVE  Owes(j, s)'
  BY <1>3 DEF Owes, RowsTypeOK
<1>4. ASSUME NEW k \in Judges, JudgeStep(k)
      PROVE  task' = task \/ Owes(j, s)'
  <2>1. ASSUME NEW x \in Subs, Acknowledge(k, x)
        PROVE  task' = task
    BY <2>1 DEF Acknowledge
  <2>2. ASSUME GradingBegin(k) \/ TestCase(k)
        PROVE  task' = task
    BY <2>2 DEF GradingBegin, TestCase
  <2>3. ASSUME NEW kind \in Statuses, End(k, kind)
        PROVE  Owes(j, s)'
    <3>1. k # j /\ \E x : task' = [task EXCEPT ![k] = x]
      BY <1>1, <2>3 DEF End, Reads
    <3>2. QED
      BY <1>3, <3>1
  <2>4. QED
    BY <1>4, <2>1, <2>2, <2>3 DEF JudgeStep
<1>5. ASSUME NEW k \in Judges, Tally(k)
      PROVE  Owes(j, s)'
  <2>1. PICK x \in Subs : /\ task[k] = <<"D", x>>
                         /\ task' = [task EXCEPT ![k] = <<"D", x, cases[x]>>]
    BY <1>5 DEF Tally
  <2>2. CASE k # j
    BY <1>3, <2>1, <2>2
  <2>3. CASE k = j
    <3>1. x = s
      BY <2>1, <2>3 DEF Owes
    <3>2. task'[j] = <<"D", s, cases[s]>>
      BY <2>1, <2>3, <3>1 DEF RowsTypeOK
    <3>3. QED
      BY <3>2 DEF Owes, NoTask
  <2>4. QED
    BY <2>2, <2>3
<1>6. ASSUME NEW k \in Judges, Write(k), k # j
      PROVE  Owes(j, s)'
  BY <1>3, <1>6 DEF Write
<1>7. ASSUME NEW k \in Judges, Leave(k)
      PROVE  Owes(j, s)'
  <2>1. k # j /\ task' = [task EXCEPT ![k] = Lost(k)]
    BY <1>1, <1>7 DEF Leave
  <2>2. QED
    BY <1>3, <2>1
<1>8. ASSUME NEW w \in Workers, WebStep(w)
      PROVE  task' = task
  BY <1>8 DEF WebStep, JudgeDelete, JudgeRequest, JudgeFailed, AbortRequest, AbortMark
<1>9. CASE \/ UNCHANGED bridgeVars
           \/ \E w \in Workers :
                 \/ \E r \in Requests : JudgeUpdate(w, r)
                 \/ \E x \in Abortable : AbortCheck(w, x)
           \/ \E k \in Judges : Connection(k)
           \/ \E n \in Managed : Administer(n)
           \/ Start
  BY <1>2, <1>9 DEF bridgeVars, JudgeUpdate, AbortCheck, Connection, Administer, Start
<1>10. QED
  BY <1>2, <1>4, <1>5, <1>6, <1>7, <1>8, <1>9 DEF BridgeNext, Happens

\* A web process that judges s or is about to mark it goes on with that, until it has
\* heard from the bridge or written the mark.
LEMMA ProcessesGoOn ==
    ASSUME RowsTypeOK, [BridgeNext]_bridgeVars, NEW w \in Workers, NEW s \in Subs,
           Judging(w, s) \/ web[w] = <<"mark", s>>
    PROVE  \/ (Judging(w, s) \/ web[w] = <<"mark", s>>)'
           \/ \E r \in Requests : /\ r.id = s /\ web[w] = <<"request", r>>
                                 /\ JudgeRequest(w) /\ up /\ Judge(r)
           \/ status'[s] \in {"IE", "AB"} /\ (JudgeFailed(w) \/ AbortMark(w))
<1> DEFINE Goes(v) == Judging(v, s) \/ web[v] = <<"mark", s>>
<1>1. web'[w] = web[w] => Goes(w)'
  BY DEF Judging
<1>2. CASE web' = web
  BY <1>1, <1>2
<1>3. ASSUME NEW v \in Workers, NEW x, web' = [web EXCEPT ![v] = x], v # w
      PROVE  Goes(w)'
  BY <1>1, <1>3 DEF RowsTypeOK
<1>4. web[w] # Resting /\ \A x : web[w] # <<"abort", x>>
  BY DEF Judging, Resting
<1>5. ASSUME NEW v \in Workers, NEW r \in Requests, JudgeUpdate(v, r)
      PROVE  Goes(w)'
  <2>1. v # w /\ web' = [web EXCEPT ![v] = <<"delete", r>>]
    BY <1>4, <1>5 DEF JudgeUpdate
  <2> HIDE DEF Goes
  <2>2. QED
    BY <1>3, <2>1
<1>6. ASSUME NEW v \in Workers, NEW x \in Abortable, AbortCheck(v, x)
      PROVE  Goes(w)'
  <2>1. v # w /\ web' = [web EXCEPT ![v] = <<"abort", x>>]
    BY <1>4, <1>6 DEF AbortCheck
  <2> HIDE DEF Goes
  <2>2. QED
    BY <1>3, <2>1
<1>7. ASSUME NEW v \in Workers, WebStep(v), v # w
      PROVE  Goes(w)'
  <2>1. \E x : web' = [web EXCEPT ![v] = x]
    BY <1>7 DEF WebStep, JudgeDelete, JudgeRequest, JudgeFailed, AbortRequest,
                AbortMark
  <2> HIDE DEF Goes
  <2>2. QED
    BY <1>3, <1>7, <2>1
<1>8. ASSUME JudgeDelete(w)
      PROVE  Judging(w, s)'
  <2>1. PICK r \in Requests : /\ web[w] = <<"delete", r>>
                             /\ web' = [web EXCEPT ![w] = <<"request", r>>]
    BY <1>8 DEF JudgeDelete
  <2>2. r.id = s
    BY <2>1 DEF Judging
  <2>3. web'[w] = <<"request", r>>
    BY <2>1 DEF RowsTypeOK
  <2>4. QED
    BY <2>2, <2>3 DEF Judging
<1>9. ASSUME JudgeRequest(w)
      PROVE  \/ Judging(w, s)'
             \/ \E r \in Requests : /\ r.id = s /\ web[w] = <<"request", r>>
                                   /\ JudgeRequest(w) /\ up /\ Judge(r)
  <2>1. PICK r \in Requests :
           /\ web[w] = <<"request", r>>
           /\ \/ up /\ Judge(r)
              \/ web' = [web EXCEPT ![w] = <<"failed", r>>]
    BY <1>9 DEF JudgeRequest
  <2>2. r.id = s
    BY <2>1 DEF Judging
  <2>3. CASE web' = [web EXCEPT ![w] = <<"failed", r>>]
    <3>1. web'[w] = <<"failed", r>>
      BY <2>3 DEF RowsTypeOK
    <3>2. QED
      BY <2>2, <3>1 DEF Judging
  <2>4. QED
    BY <1>9, <2>1, <2>2, <2>3
<1>10. ASSUME JudgeFailed(w)
       PROVE  status'[s] = "IE"
  <2>1. PICK r \in Requests : /\ web[w] = <<"failed", r>>
                             /\ status' = [status EXCEPT ![r.id] = "IE"]
    BY <1>10 DEF JudgeFailed
  <2>2. r.id = s
    BY <2>1 DEF Judging
  <2>3. QED
    BY <2>1, <2>2 DEF RowsTypeOK
<1>11. ASSUME AbortMark(w)
       PROVE  status'[s] = "AB"
  <2>1. PICK x \in Subs : /\ web[w] = <<"mark", x>>
                         /\ status' = [status EXCEPT ![x] = "AB"]
    BY <1>11 DEF AbortMark
  <2>2. x = s
    BY <2>1 DEF Judging
  <2>3. QED
    BY <2>1, <2>2 DEF RowsTypeOK
<1>12. ~AbortRequest(w)
  BY <1>4 DEF AbortRequest
<1>13. ASSUME NEW j \in Judges, JudgeStep(j)
       PROVE  web' = web
  <2>1. ASSUME NEW x \in Subs, Acknowledge(j, x)
        PROVE  web' = web
    BY <2>1 DEF Acknowledge
  <2>2. ASSUME NEW kind \in Statuses, End(j, kind)
        PROVE  web' = web
    BY <2>2 DEF End
  <2>3. GradingBegin(j) \/ TestCase(j) => web' = web
    BY DEF GradingBegin, TestCase
  <2>4. QED
    BY <1>13, <2>1, <2>2, <2>3 DEF JudgeStep
<1>14. CASE \/ UNCHANGED bridgeVars
            \/ \E j \in Judges : Tally(j) \/ Write(j) \/ Leave(j) \/ Connection(j)
            \/ \E n \in Managed : Administer(n)
            \/ Crash
            \/ Start
  BY <1>2, <1>14 DEF bridgeVars, Tally, Write, Leave, Connection, Administer, Crash,
                     Start
<1>15. QED
  <2>1. CASE \E v \in Workers : WebStep(v)
    BY <2>1, <1>7, <1>8, <1>9, <1>10, <1>11, <1>12 DEF WebStep
  <2>2. QED
    BY <2>1, <1>2, <1>5, <1>6, <1>13, <1>14 DEF BridgeNext, Happens

\* While nothing fails, what the scheduler has filed under a judge the judge was sent,
\* and it works on nothing else.
LEMMA FiledWasSent ==
    ASSUME TypeOK, Flight, NEW s \in Subs
    PROVE  /\ submission_map[s] # NoJudge => s \in sent[submission_map[s]]
           /\ \A j \in Judges : s \in sent[j] =>
                 submission_map[s] = j /\ working[j] = s /\ submission_map[s] # NoJudge
           /\ Known(s) <=> Carried(s)
<1>1. \A j \in Judges : s \in sent[j] <=> submission_map[s] = j
  BY DEF Flight, Exact
<1>2. \A j \in Judges : submission_map[s] = j => working[j] = s
  BY DEF Flight, Exact
<1>3. submission_map[s] \in Judges \cup {NoJudge}
  BY DEF TypeOK
<1>4. QED
  BY <1>1, <1>2, <1>3, NonesAssumption DEF Known, Carried

\* A step after which nothing has failed, but a crash, is one after which nothing had.
LEMMA DisturbanceStays ==
    ASSUME RowsTypeOK, [BridgeNext]_bridgeVars, Undisturbed', up'
    PROVE  Undisturbed
<1>1. ASSUME NEW j \in Judges, HangUp(j)
      PROVE  Undisturbed
  BY <1>1 DEF HangUp, history, Undisturbed
<1>2. CASE Crash
  BY <1>2 DEF Crash
<1>3. QED
  BY <1>1, <1>2, SchedulerSteps, HistoryGrows

\* A submission becomes queued, processing or grading when somebody attends to it.
LEMMA ProgressIsAttended ==
    ASSUME TypeOK, RowsTypeOK, GradedWasSent, [BridgeNext]_bridgeVars,
           NEW s \in Subs, status'[s] \in IN_PROGRESS
    PROVE  status[s] \in IN_PROGRESS \/ Attended(s)'
<1> DEFINE Goal == status[s] \in IN_PROGRESS \/ Attended(s)'
<1> USE DEF IN_PROGRESS
<1>1. CASE status' = status
  BY <1>1
<1>2. ASSUME NEW x \in Subs, NEW v, status' = [status EXCEPT ![x] = v],
             v \notin {"QU", "P", "G"}
      PROVE  status[s] \in IN_PROGRESS
  BY <1>2 DEF RowsTypeOK
<1>3. ASSUME NEW w \in Workers, NEW r \in Requests, JudgeUpdate(w, r)
      PROVE  Goal
  <2>1. CASE r.id = s
    <3>1. web'[w] = <<"delete", r>>
      BY <1>3 DEF JudgeUpdate, RowsTypeOK
    <3>2. Judging(w, s)'
      BY <2>1, <3>1 DEF Judging
    <3>3. QED
      BY <3>2 DEF Attended
  <2>2. CASE r.id # s
    BY <1>3, <2>2 DEF JudgeUpdate, RowsTypeOK
  <2>3. QED
    BY <2>1, <2>2
<1>4. ASSUME NEW j \in Judges, NEW x \in Subs, Acknowledge(j, x)
      PROVE  Goal
  <2>1. x = s => s \in sent'[j]
    BY <1>4, AcknowledgeHangsUp DEF Acknowledge, HangUp, vars
  <2>2. x # s => status[s] \in IN_PROGRESS
    BY <1>4 DEF Acknowledge, RowsTypeOK
  <2>3. QED
    BY <2>1, <2>2 DEF Attended
<1>5. ASSUME NEW j \in Judges, GradingBegin(j)
      PROVE  Goal
  <2>1. /\ cur[j] \in Subs /\ cur[j] \in sent'[j]
        /\ status' = [status EXCEPT ![cur[j]] = "G"]
    BY <1>5 DEF GradingBegin, GradedWasSent, vars, RowsTypeOK
  <2>2. QED
    BY <2>1 DEF Attended, RowsTypeOK
<1>6. ASSUME NEW w \in Workers, WebStep(w)
      PROVE  status[s] \in IN_PROGRESS
  <2>1. CASE JudgeFailed(w)
    BY <1>2, <2>1, SetsAssumption DEF JudgeFailed
  <2>2. CASE AbortMark(w)
    BY <1>2, <2>2 DEF AbortMark
  <2>3. CASE JudgeDelete(w) \/ JudgeRequest(w) \/ AbortRequest(w)
    BY <1>1, <2>3 DEF JudgeDelete, JudgeRequest, AbortRequest, rows
  <2>4. QED
    BY <1>6, <2>1, <2>2, <2>3 DEF WebStep
<1>7. ASSUME NEW j \in Judges, Write(j)
      PROVE  status[s] \in IN_PROGRESS
  <2>1. \E x \in Subs, v \in {"D", "AB", "IE", "CE"} :
           status' = [status EXCEPT ![x] = v]
    BY <1>7 DEF Write
  <2>2. QED
    BY <1>2, <2>1
<1>8. ASSUME Start
      PROVE  status[s] \in IN_PROGRESS
  BY <1>8 DEF Start, RowsTypeOK
<1>9. ASSUME NEW j \in Judges, TestCase(j) \/ \E kind \in Statuses : End(j, kind)
      PROVE  status' = status
  BY <1>9 DEF TestCase, End, rows
<1>10. CASE \/ UNCHANGED bridgeVars
            \/ \E w \in Workers, x \in Abortable : AbortCheck(w, x)
            \/ \E k \in Judges : Tally(k) \/ Leave(k) \/ Connection(k)
            \/ \E n \in Managed : Administer(n)
            \/ Crash
  BY <1>1, <1>10 DEF bridgeVars, rows, AbortCheck, Tally, Leave, Connection,
                     Administer, Crash
<1>11. QED
  BY <1>1, <1>3, <1>4, <1>5, <1>6, <1>7, <1>8, <1>9, <1>10 DEF BridgeNext, Happens, JudgeStep

\* Only the start of the daemon makes it run.
LEMMA OnlyStartStarts ==
    ASSUME [BridgeNext]_bridgeVars, ~up, up'
    PROVE  Start
<1>1. ~UNCHANGED daemon /\ ~Crash
  BY DEF daemon, Crash
<1>2. ASSUME NEW w \in Workers,
             \/ \E r \in Requests : JudgeUpdate(w, r)
             \/ \E s \in Abortable : AbortCheck(w, s)
             \/ WebStep(w)
      PROVE  UNCHANGED daemon
  BY <1>2 DEF JudgeUpdate, AbortCheck, WebStep, JudgeDelete, JudgeRequest, JudgeFailed,
              AbortRequest, AbortMark
<1>3. ASSUME NEW j \in Judges, JudgeStep(j)
      PROVE  UNCHANGED daemon
  BY <1>3 DEF JudgeStep, Acknowledge, GradingBegin, TestCase, End
<1>4. ASSUME NEW j \in Judges, Tally(j) \/ Write(j) \/ Leave(j) \/ Connection(j)
      PROVE  UNCHANGED daemon
  BY <1>4 DEF Tally, Write, Leave, Connection
<1>5. ASSUME NEW n \in Managed, Administer(n)
      PROVE  UNCHANGED daemon
  BY <1>5 DEF Administer
<1>6. UNCHANGED bridgeVars => UNCHANGED daemon
  BY DEF bridgeVars
<1>7. QED
  BY <1>1, <1>2, <1>3, <1>4, <1>5, <1>6 DEF BridgeNext, Happens

\* What has not gone astray and leaves its judge is owed.
LEMMA LeavesOwed ==
    ASSUME TypeOK, RowsTypeOK, NEW s \in Subs, Filed(s), ~Strays(s),
           NEW j \in Judges, s \in sent[j],
           Leave(j) \/ \E kind \in Statuses : End(j, kind) /\ cur[j] = s
    PROVE  Owes(j, s)'
<1>1. working[j] = s /\ submission_map[s] = j /\ s # NoSub
  BY NonesAssumption DEF Strays, Filed, FiledIn
<1>2. CASE Leave(j)
  <2>1. task'[j] = <<"IE", s>>
    BY <1>1, <1>2 DEF Leave, Lost, RowsTypeOK
  <2>2. QED
    BY <2>1 DEF Owes, NoTask
<1>3. ASSUME NEW kind \in Statuses, End(j, kind), cur[j] = s
      PROVE  Owes(j, s)'
  <2>1. task'[j] = <<kind, s>>
    BY <1>1, <1>3, NonesAssumption DEF End, RowsTypeOK
  <2>2. QED
    BY <2>1 DEF Owes, NoTask
<1>4. QED
  BY <1>2, <1>3

\* A judge has s, or a thread owes its result.
WithJudge(s) == \E j \in Judges : s \in sent[j] \/ Owes(j, s)

\* That stays so until the result is written.
LEMMA WithJudgeUntil ==
    ASSUME TypeOK, RowsTypeOK, QueueMatchesNodeMap, [BridgeNext]_bridgeVars, up',
           NEW s \in Subs, Filed(s), ~Strays(s), WithJudge(s)
    PROVE  WithJudge(s)' \/ status'[s] \notin IN_PROGRESS
<1>1. ~Crash
  BY DEF Crash
<1>2. ASSUME NEW j \in Judges, s \in sent[j]
      PROVE  WithJudge(s)'
  <2>1. Keeps(j)
    BY Carriage
  <2>2. CASE s \in sent'[j]
    BY <2>2 DEF WithJudge
  <2>3. CASE s \notin sent'[j]
    <3>1. Leave(j) \/ \E kind \in Statuses : End(j, kind) /\ cur[j] = s
      BY <1>1, <1>2, <2>1, <2>3 DEF Keeps
    <3>2. QED
      BY <1>2, <3>1, LeavesOwed DEF WithJudge
  <2>4. QED
    BY <2>2, <2>3
<1>3. ASSUME NEW j \in Judges, Owes(j, s)
      PROVE  WithJudge(s)' \/ status'[s] \notin IN_PROGRESS
  <2>1. CASE Write(j)
    <3>1. \E v \in {"D", "AB", "IE", "CE"} : status' = [status EXCEPT ![s] = v]
      BY <1>3, <2>1 DEF Write, Owes
    <3>2. QED
      BY <3>1 DEF RowsTypeOK, IN_PROGRESS
  <2>2. QED
    BY <1>1, <1>3, <2>1, OwedUntil DEF WithJudge
<1>4. QED
  BY <1>2, <1>3 DEF WithJudge

\* What shows as processing or grading is with a judge, or its result is owed.
Started == up => \A s \in Subs \ astray : status[s] \in {"P", "G"} => WithJudge(s)

\* Every step keeps that: a judge that has s writes those statuses.
LEMMA StartedStep ==
    ASSUME TypeOK, RowsTypeOK, QueueMatchesNodeMap, GradedWasSent, FiledInv, Started,
           [BridgeNext]_bridgeVars
    PROVE  Started'
<1> SUFFICES ASSUME up', NEW s \in Subs, s \notin astray', status'[s] \in {"P", "G"}
             PROVE  WithJudge(s)'
  BY DEF Started
<1>1. ~Crash
  BY DEF Crash
<1>2. ~Strays(s) /\ Filed(s) /\ s \notin astray
  BY <1>1, StraysAreNoted DEF FiledInv
<1>3. CASE status'[s] = status[s]
  <2>1. CASE up
    BY <1>2, <1>3, <2>1, WithJudgeUntil DEF Started, IN_PROGRESS
  <2>2. CASE ~up
    BY <1>3, <2>2, OnlyStartStarts DEF Start, RowsTypeOK, Interrupted, IN_PROGRESS
  <2>3. QED
    BY <2>1, <2>2
<1>4. ASSUME NEW j \in Judges, Acknowledge(j, s)
      PROVE  WithJudge(s)'
  <2>1. s \in sent'[j]
    BY <1>4, AcknowledgeHangsUp DEF Acknowledge, HangUp, vars
  <2>2. QED
    BY <2>1 DEF WithJudge
<1>5. ASSUME NEW j \in Judges, GradingBegin(j), cur[j] = s
      PROVE  WithJudge(s)'
  <2>1. s \in sent'[j]
    BY <1>5 DEF GradingBegin, GradedWasSent, vars
  <2>2. QED
    BY <2>1 DEF WithJudge
<1>6. ASSUME NEW w \in Workers, NEW r \in Requests, JudgeUpdate(w, r), r.id = s
      PROVE  FALSE
  BY <1>6 DEF JudgeUpdate, RowsTypeOK
<1>7. QED
  BY <1>3, <1>4, <1>5, <1>6, StatusComesFrom DEF MARKS

\* A submission stays among those that fell out of the queue until it is asked for
\* again or the daemon starts.
LEMMA DroppedUntil ==
    ASSUME RowsTypeOK, [BridgeNext]_bridgeVars, NEW s \in dropped
    PROVE  \/ s \in dropped'
           \/ Start
           \/ \E w \in Workers : Asks(w, s)
<1>1. CASE UNCHANGED dropped
  BY <1>1
<1>2. ASSUME NEW w \in Workers, WebStep(w)
      PROVE  s \in dropped' \/ Asks(w, s)
  <2>1. CASE JudgeRequest(w)
    BY <2>1 DEF JudgeRequest, Asks
  <2>2. CASE AbortRequest(w)
    BY <2>2 DEF AbortRequest
  <2>3. CASE JudgeDelete(w) \/ JudgeFailed(w) \/ AbortMark(w)
    BY <2>3 DEF JudgeDelete, JudgeFailed, AbortMark, daemon
  <2>4. QED
    BY <1>2, <2>1, <2>2, <2>3 DEF WebStep
<1>3. ASSUME NEW j \in Judges, JudgeStep(j)
      PROVE  UNCHANGED dropped
  BY <1>3 DEF JudgeStep, Acknowledge, GradingBegin, TestCase, End, daemon
<1>4. ASSUME NEW j \in Judges, Tally(j) \/ Write(j) \/ Leave(j) \/ Connection(j)
      PROVE  UNCHANGED dropped
  BY <1>4 DEF Tally, Write, Leave, Connection, daemon
<1>5. CASE \/ UNCHANGED bridgeVars
           \/ \E w \in Workers :
                 \/ \E r \in Requests : JudgeUpdate(w, r)
                 \/ \E x \in Abortable : AbortCheck(w, x)
           \/ \E n \in Managed : Administer(n)
           \/ Crash
  BY <1>1, <1>5 DEF bridgeVars, JudgeUpdate, AbortCheck, Administer, Crash, daemon
<1>6. QED
  BY <1>1, <1>2, <1>3, <1>4, <1>5 DEF BridgeNext, Happens

\* Who attends to a submission goes on or hands it over, until it is no longer in
\* progress, or falls out of the queue.
LEMMA AttentionStays ==
    ASSUME TypeOK, RowsTypeOK, QueueMatchesNodeMap, up', [BridgeNext]_bridgeVars,
           NEW s \in Subs, Filed(s), ~Strays(s), ~Strays(s)', Attended(s)
    PROVE  Attended(s)' \/ status'[s] \notin IN_PROGRESS \/ s \in dropped'
<1>1. ~Crash
  BY DEF Crash
<1>2. ASSUME Carried(s)
      PROVE  Attended(s)' \/ s \in dropped'
  <2>1. CASE Carried(s)'
    BY <2>1 DEF Carried, Attended
  <2>2. ASSUME NEW j \in Judges, NEW kind \in Statuses, End(j, kind), cur[j] = s
        PROVE  Owes(j, s)'
    <3>1. s \in sent[j]
      BY <2>2 DEF End, OnJudgeFree
    <3>2. QED
      BY <2>2, <3>1, LeavesOwed
  <2>3. ASSUME NEW j \in Judges, Leave(j), s \in sent[j]
        PROVE  Owes(j, s)'
    BY <2>3, LeavesOwed
  <2>4. ASSUME NEW w \in Workers, web'[w] = <<"mark", s>>
        PROVE  Attended(s)'
    BY <2>4 DEF Attended
  <2>5. QED
    BY <1>1, <1>2, <2>1, <2>2, <2>3, <2>4, CarriedUntil DEF Attended
<1>3. CASE WithJudge(s)
  BY <1>3, WithJudgeUntil DEF WithJudge, Attended
<1>4. ASSUME NEW w \in Workers, Judging(w, s) \/ web[w] = <<"mark", s>>
      PROVE  Attended(s)' \/ status'[s] \notin IN_PROGRESS
  <2>1. CASE (Judging(w, s) \/ web[w] = <<"mark", s>>)'
    BY <2>1 DEF Attended
  <2>2. ASSUME NEW r \in Requests, r.id = s, Judge(r)
        PROVE  Attended(s)'
    <3>1. CASE Known(s)
      <4>1. UNCHANGED <<node_map, sent>>
        BY <2>2, <3>1 DEF Judge, scheduler
      <4>2. CASE node_map[s] # NoNode
        BY <4>1, <4>2 DEF Attended
      <4>3. CASE submission_map[s] # NoJudge
        <5>1. submission_map[s] \in Judges /\ s \in sent[submission_map[s]]
          BY <4>3 DEF Strays, TypeOK
        <5>2. QED
          BY <4>1, <5>1 DEF Attended
      <4>4. QED
        BY <3>1, <4>2, <4>3 DEF Known
    <3>2. ASSUME NEW j \in Available(r), SubmitOk(j, s, working, sent)
          PROVE  Attended(s)'
      BY <3>2 DEF SubmitOk, Available, Candidates, TypeOK, Attended
    <3>3. ASSUME NEW j \in Available(r), SubmitFails(j, s, working, sent),
                 submission_map' = [submission_map EXCEPT ![s] = j], ~Known(s)
          PROVE  FALSE
      <4>1. j \in Judges /\ s \notin sent[j]
        BY <3>3, NonesAssumption
           DEF Available, Candidates, TypeOK, Known, Filed, FiledIn
      <4>2. submission_map'[s] = j /\ s \notin sent'[j]
        BY <3>3, <4>1 DEF SubmitFails, TypeOK
      <4>3. QED
        BY <4>1, <4>2 DEF Strays
    <3>4. CASE node_map' = [node_map EXCEPT ![s] = r.priority]
      <4>1. r.priority # NoNode
        BY NonesAssumption, SetsAssumption
      <4>2. QED
        BY <3>4, <4>1 DEF Attended, TypeOK
    <3>5. QED
      BY <2>2, <3>1, <3>2, <3>3, <3>4 DEF Judge, Section
  <2>3. CASE status'[s] \in {"IE", "AB"}
    BY <2>3 DEF IN_PROGRESS
  <2>4. QED
    BY <1>4, <2>1, <2>2, <2>3, ProcessesGoOn
<1>5. QED
  BY <1>2, <1>3, <1>4 DEF Attended, Carried, WithJudge

\* Every step keeps NobodyIsForgotten: a submission newly in progress is attended, and
\* whoever attends one that stays in progress goes on, or hands it on.
LEMMA NobodyIsForgottenStep ==
    ASSUME GradingInv, FiledInv, Started, Started', NobodyIsForgotten,
           [BridgeNext]_bridgeVars
    PROVE  NobodyIsForgotten'
<1> SUFFICES ASSUME up', NEW s \in Subs, s \notin astray', status'[s] \in IN_PROGRESS
             PROVE  Attended(s)' \/ FellOut(s)'
  BY DEF NobodyIsForgotten
<1> USE DEF GradingInv
<1>1. QueueMatchesNodeMap /\ ~Crash
  BY DEF QueueInv, Crash
<1>2. ~Strays(s)' /\ ~Strays(s) /\ Filed(s) /\ s \notin astray
  BY <1>1, StraysAreNoted DEF FiledInv
<1>3. CASE ~up
  <2>1. Start
    BY <1>3, OnlyStartStarts
  <2>2. QED
    BY <2>1 DEF Start, RowsTypeOK, Interrupted, IN_PROGRESS
<1>4. ASSUME s \in dropped'
      PROVE  Attended(s)' \/ FellOut(s)'
  <2>1. CASE status'[s] = "QU"
    BY <1>4, <2>1 DEF FellOut
  <2>2. CASE status'[s] \in {"P", "G"}
    BY <2>2 DEF Started, WithJudge, Attended
  <2>3. QED
    BY <2>1, <2>2 DEF IN_PROGRESS
<1>5. CASE up
  <2>1. CASE Attended(s)
    BY <1>1, <1>2, <1>4, <2>1, AttentionStays
  <2>2. CASE ~Attended(s) /\ status[s] \notin IN_PROGRESS
    BY <2>2, ProgressIsAttended
  <2>3. CASE ~Attended(s) /\ FellOut(s)
    <3>1. ~Start /\ \A w \in Workers : ~Asks(w, s)
      BY <1>5, <2>3 DEF Start, Attended, Asks, Judging
    <3>2. QED
      BY <1>4, <2>3, <3>1, DroppedUntil DEF FellOut
  <2>4. QED
    BY <1>2, <1>5, <2>1, <2>2, <2>3 DEF NobodyIsForgotten
<1>6. QED
  BY <1>3, <1>5

\* The scheduler of the bridge keeps FlightInv, also across crashes.
LEMMA FlightInvOfBridge == BridgeSpec => [](Undisturbed => Flight)
<1>1. BridgeInit => (Undisturbed => Flight)
  BY FlightInvInductive, FlightInvSplits DEF BridgeInit
<1>2. GradingInv /\ (Undisturbed => Flight) /\ [BridgeNext]_bridgeVars
         => (Undisturbed => Flight)'
  BY SchedulerKeepsFlight DEF GradingInv
<1>3. QED
  BY <1>1, <1>2, GradingInvHolds, PTL DEF BridgeSpec

\* Somebody still attends to each submission shown as queued, processing or grading,
\* whatever fails, is disconnected, aborted, lost on the way to the web site, given to a
\* busy judge or restarted; but for those that went astray themselves, and those that an
\* abort whose reply was lost took out of the queue.
THEOREM NobodyIsEverForgotten == BridgeSpec => []NobodyIsForgotten
<1>1. BridgeInit => FiledInv /\ Started /\ NobodyIsForgotten
  BY NonesAssumption DEF BridgeInit, Init, NobodyIsForgotten, IN_PROGRESS, Started,
                         FiledInv, Strays, Filed, FiledIn
<1>2. GradingInv /\ FiledInv /\ Started /\ [BridgeNext]_bridgeVars
         => FiledInv' /\ Started'
  BY FiledInvStep, StartedStep DEF GradingInv, QueueInv
<1>3. GradingInv /\ FiledInv /\ Started /\ Started' /\ NobodyIsForgotten
         /\ [BridgeNext]_bridgeVars => NobodyIsForgotten'
  BY NobodyIsForgottenStep
<1>4. QED
  BY <1>1, <1>2, <1>3, GradingInvHolds, PTL DEF BridgeSpec

-----------------------------------------------------------------------------
(* The phases of a judging.                                                *)

\* A submission comes to the queue or to a judge from a web process that asks for it.
LEMMA CarriedComesFrom ==
    ASSUME TypeOK, RowsTypeOK, QueueMatchesNodeMap, [BridgeNext]_bridgeVars,
           NEW s \in Subs, Carried(s)'
    PROVE  Carried(s) \/ \E w \in Workers : Asks(w, s)
<1>1. ASSUME NEW j, Moves(j)
      PROVE  Carried(s)
  BY <1>1 DEF Moves, Carried
<1>2. ASSUME NEW w \in Workers, JudgeRequest(w)
      PROVE  Carried(s) \/ Asks(w, s)
  <2>1. PICK r \in Requests : web[w] = <<"request", r>> /\ (Judge(r) \/ UNCHANGED vars)
    BY <1>2 DEF JudgeRequest
  <2>2. CASE UNCHANGED vars
    BY <2>2 DEF vars, scheduler, Carried
  <2>3. CASE r.id = s
    BY <2>1, <2>3 DEF Asks
  <2>4. CASE Judge(r) /\ r.id # s
    <3>1. CASE UNCHANGED <<node_map, sent>>
      BY <3>1 DEF Carried
    <3>2. ASSUME NEW j \in Judges, node_map' = node_map,
                 sent' = [sent EXCEPT ![j] = @ \cup {r.id}]
          PROVE  Carried(s)
      BY <2>4, <3>2 DEF TypeOK, Carried
    <3>3. CASE sent' = sent /\ node_map' = [node_map EXCEPT ![r.id] = r.priority]
      BY <2>4, <3>3 DEF TypeOK, Carried
    <3>4. QED
      BY <2>4, <3>1, <3>2, <3>3, RequestEffect
  <2>5. QED
    BY <2>1, <2>2, <2>3, <2>4
<1>3. QED
  BY <1>1, <1>2, Carriage

\* A result is owed because a packet ended the grading, or the connection did.
LEMMA OwedComesFrom ==
    ASSUME RowsTypeOK, [BridgeNext]_bridgeVars, NEW j \in Judges, NEW s \in Subs,
           Owes(j, s)'
    PROVE  \/ Owes(j, s) /\ task'[j][1] = task[j][1]
           \/ \E kind \in Statuses :
                 End(j, kind) /\ cur[j] = s /\ task'[j] = <<kind, s>>
           \/ Leave(j) /\ working[j] = s /\ task'[j] = <<"IE", s>>
<1>1. task'[j] # NoTask /\ task'[j][2] = s
  BY DEF Owes
<1>2. CASE task'[j] = task[j]
  BY <1>1, <1>2 DEF Owes
<1>3. ASSUME NEW kind \in Statuses, End(j, kind), task'[j] = <<kind, cur[j]>>
      PROVE  cur[j] = s
  BY <1>1, <1>3
<1>4. CASE Tally(j)
  <2>1. PICK x \in Subs : task[j] = <<"D", x>> /\ task'[j] = <<"D", x, cases[x]>>
    BY <1>4 DEF Tally, RowsTypeOK
  <2>2. QED
    BY <1>1, <2>1 DEF Owes, NoTask
<1>5. CASE Leave(j) /\ task'[j] = Lost(j)
  BY <1>1, <1>5 DEF Lost
<1>6. QED
  BY <1>1, <1>2, <1>3, <1>4, <1>5, TasksComeFrom

\* When its grading ends, or its connection, nobody carries it any more.
LEMMA EndedIsNotCarried ==
    ASSUME TypeOK, RowsTypeOK, QueueMatchesNodeMap, NEW s \in Subs, Alone(s),
           NEW j \in Judges, s \in sent[j],
           Leave(j) \/ \E kind \in Statuses : End(j, kind) /\ cur[j] = s
    PROVE  ~Carried(s)'
<1>1. node_map[s] = NoNode /\ \A k \in Judges : s \in sent[k] => k = j
  BY DEF Alone
<1>2. ASSUME NEW kind \in Statuses, End(j, kind), cur[j] = s
      PROVE  ~Carried(s)'
  <2> DEFINE sn == [sent EXCEPT ![j] = @ \ {cur[j]}]
             wk == [working EXCEPT ![j] = NoSub]
  <2>1. \/ HandleFreeJudge(j, judges, wk, Without(cur[j]), sn)
        \/ sent' = sn /\ UNCHANGED node_map
    BY <1>2 DEF End, OnJudgeFree, scheduler
  <2>2. /\ sn \in [Judges -> SUBSET Subs]
        /\ \A k \in Judges : s \notin sn[k]
    BY <1>1, <1>2 DEF TypeOK
  <2> HIDE DEF sn, wk
  <2>3. node_map'[s] = NoNode /\ \A k \in Judges : s \notin sent'[k]
    BY <1>1, <2>1, <2>2, WalkMoves
  <2>4. QED
    BY <2>3 DEF Carried
<1>3. ASSUME Leave(j)
      PROVE  ~Carried(s)'
  <2> DEFINE sm == IF working[j] = NoSub THEN submission_map
                   ELSE Without(working[j])
             js == judges \ {j}
             sn == [sent EXCEPT ![j] = {}]
  <2>1. \/ \E k \in js : HandleFreeJudge(k, js, working, sm, sn)
        \/ sent' = sn /\ UNCHANGED node_map
    BY <1>3 DEF Leave, Disconnect
  <2>2. /\ sn \in [Judges -> SUBSET Subs] /\ js \subseteq Judges
        /\ \A k \in Judges : s \notin sn[k]
    BY <1>1, <1>3 DEF TypeOK
  <2> HIDE DEF sn, js, sm
  <2>3. node_map'[s] = NoNode /\ \A k \in Judges : s \notin sent'[k]
    BY <1>1, <2>1, <2>2, WalkMoves
  <2>4. QED
    BY <2>3 DEF Carried
<1>4. QED
  BY <1>2, <1>3

\* A submission whose result is owed is owed by one thread, and is nowhere else.
OneHolder ==
    \A s \in Subs \ disputed, j \in Judges : Owes(j, s) =>
       /\ ~Carried(s)
       /\ \A k \in Judges : Owes(k, s) => k = j
       /\ \A w \in Workers : ~Asks(w, s)

\* Every step keeps OneHolder: a result is owed when the judge lets go of the submission.
LEMMA OneHolderStep ==
    ASSUME GradingInv, GradingInv', Flight, OneHolder, [BridgeNext]_bridgeVars
    PROVE  OneHolder'
<1> SUFFICES ASSUME NEW s \in Subs, s \notin disputed', NEW j \in Judges, Owes(j, s)'
             PROVE  /\ ~Carried(s)'
                    /\ \A k \in Judges : Owes(k, s)' => k = j
                    /\ \A w \in Workers : ~Asks(w, s)'
  BY DEF OneHolder
<1> USE DEF GradingInv
<1>1. s \in Subs \ disputed /\ QueueMatchesNodeMap
  BY DisputesGrow DEF QueueInv
<1>2. Alone(s)
  BY <1>1 DEF OneGrading
<1>3. \A k \in Judges : Owes(k, s)' =>
         \/ Owes(k, s)
         \/ s \in sent[k] /\ \/ Leave(k)
                             \/ \E kind \in Statuses : End(k, kind) /\ cur[k] = s
  <2>1. ASSUME NEW k \in Judges, NEW kind \in Statuses, End(k, kind), cur[k] = s
        PROVE  s \in sent[k]
    BY <2>1 DEF End, OnJudgeFree
  <2>2. ASSUME NEW k \in Judges, Leave(k), working[k] = s
        PROVE  s \in sent[k]
    <3>1. conn[k] # "gone"
      BY <2>2 DEF Leave, Disconnect, Listening
    <3>2. QED
      BY <2>2, <3>1 DEF Flight, Exact
  <2>3. QED
    BY <2>1, <2>2, OwedComesFrom
<1>4. ~Carried(s)'
  <2>1. CASE Owes(j, s)
    <3>1. ~Carried(s) /\ \A w \in Workers : ~Asks(w, s)
      BY <1>1, <2>1 DEF OneHolder
    <3>2. QED
      BY <1>1, <3>1, CarriedComesFrom
  <2>2. QED
    BY <1>1, <1>2, <1>3, <2>1, EndedIsNotCarried
<1>5. ASSUME NEW k \in Judges, Owes(k, s)'
      PROVE  k = j
  <2>1. CASE Owes(j, s) \/ Owes(k, s)
    <3>1. ~Carried(s)
      BY <1>1, <2>1 DEF OneHolder
    <3>2. Owes(j, s) /\ Owes(k, s)
      BY <1>3, <1>5, <3>1 DEF Carried
    <3>3. QED
      BY <1>1, <3>2 DEF OneHolder
  <2>2. CASE s \in sent[j] /\ s \in sent[k]
    BY <1>2, <2>2 DEF Alone
  <2>3. QED
    BY <1>3, <1>5, <2>1, <2>2
<1>6. ASSUME NEW w \in Workers, Asks(w, s)'
      PROVE  FALSE
  <2>1. ASSUME NEW v \in Workers, Asks(v, s)
        PROVE  FALSE
    <3>1. ~Owes(j, s) /\ s \notin sent[j]
      BY <1>1, <1>2, <2>1 DEF OneHolder, Alone
    <3>2. QED
      BY <1>3, <3>1
  <2>2. ASSUME NEW v \in Workers, NEW r \in Requests, JudgeUpdate(v, r), r.id = s
        PROVE  FALSE
    <3>1. ~Held(s) /\ task' = task
      BY <2>2 DEF JudgeUpdate, Locked
    <3>2. Owes(j, s)
      BY <3>1 DEF Owes
    <3>3. QED
      BY <3>1, <3>2 DEF Held
  <2>3. QED
    BY <1>6, <2>1, <2>2, AskedComesFrom
<1>7. QED
  BY <1>4, <1>5, <1>6

\* The phase of a judging tells its status, if no mark covers it: queued while a web
\* process, the queue or a judge that has not acknowledged it has it, and so on until
\* a thread owes the result.
Phase(s) ==
    /\ status[s] = "QU" => score[s] = NoScore
    /\ \A w \in Workers : Asks(w, s) => status[s] \in {"QU"} \cup MARKS
    /\ Carried(s) => \/ status[s] \in {"QU"} \cup MARKS
                     \/ \E j \in Judges : cur[j] = s
    /\ \A j \in Judges : cur[j] = s =>
          status[s] \in (IF prog[j] = 0 THEN {"P"} ELSE {"G"}) \cup MARKS
    /\ \A j \in Judges : Owes(j, s) =>
          /\ status[s] \in IN_PROGRESS \cup MARKS
          /\ task[j][1] = "D" => status[s] \in {"G"} \cup MARKS
          /\ task[j][1] = "CE" => status[s] \in {"P"} \cup MARKS

Phases == \A s \in Subs \ disputed : Phase(s)

\* A judge grades what it has acknowledged, and the beginning of the grading is told
\* once.
LEMMA GradedComesFrom ==
    ASSUME RowsTypeOK, [BridgeNext]_bridgeVars, NEW j \in Judges, NEW s \in Subs,
           cur'[j] = s
    PROVE  \/ Acknowledge(j, s)
           \/ cur[j] = s /\ (GradingBegin(j) \/ (prog'[j] = 0 <=> prog[j] = 0))
<1> USE NonesAssumption, BridgeAssumption
<1>1. CASE UNCHANGED <<cur, prog>>
  BY <1>1
<1>2. ASSUME NEW k \in Judges, JudgeStep(k)
      PROVE  \/ Acknowledge(j, s)
             \/ cur[j] = s /\ (GradingBegin(j) \/ (prog'[j] = 0 <=> prog[j] = 0))
  <2>1. ASSUME NEW x \in Subs, Acknowledge(k, x)
        PROVE  Acknowledge(j, s) \/ (cur[j] = s /\ prog'[j] = prog[j])
    <3>1. CASE k = j
      <4>1. x = s
        BY <2>1, <3>1 DEF Acknowledge, RowsTypeOK
      <4>2. QED
        BY <2>1, <3>1, <4>1
    <3>2. CASE k # j
      BY <2>1, <3>2 DEF Acknowledge, RowsTypeOK
    <3>3. QED
      BY <3>1, <3>2
  <2>2. ASSUME GradingBegin(k)
        PROVE  cur[j] = s /\ (GradingBegin(j) \/ prog'[j] = prog[j])
    <3>1. cur' = cur /\ (k # j => prog'[j] = prog[j])
      BY <2>2 DEF GradingBegin, RowsTypeOK
    <3>2. QED
      BY <2>2, <3>1
  <2>3. ASSUME TestCase(k)
        PROVE  cur[j] = s /\ (prog'[j] = 0 <=> prog[j] = 0)
    BY <2>3 DEF TestCase, RowsTypeOK
  <2>4. ASSUME NEW kind \in Statuses, End(k, kind)
        PROVE  cur[j] = s /\ prog'[j] = prog[j]
    BY <2>4 DEF End, RowsTypeOK
  <2>5. QED
    BY <1>2, <2>1, <2>2, <2>3, <2>4 DEF JudgeStep
<1>3. ASSUME NEW k \in Judges, Leave(k)
      PROVE  cur[j] = s /\ prog'[j] = prog[j]
  BY <1>3 DEF Leave, RowsTypeOK
<1>4. ASSUME Crash
      PROVE  FALSE
  BY <1>4 DEF Crash
<1>5. ASSUME NEW w \in Workers, WebStep(w)
      PROVE  UNCHANGED <<cur, prog>>
  BY <1>5 DEF WebStep, JudgeDelete, JudgeRequest, JudgeFailed, AbortRequest,
              AbortMark, judging
<1>6. CASE \/ UNCHANGED bridgeVars
           \/ \E w \in Workers :
                 \/ \E r \in Requests : JudgeUpdate(w, r)
                 \/ \E x \in Abortable : AbortCheck(w, x)
           \/ \E k \in Judges : Tally(k) \/ Write(k) \/ Connection(k)
           \/ \E n \in Managed : Administer(n)
           \/ Start
  BY <1>6 DEF bridgeVars, judging, JudgeUpdate, AbortCheck, Tally, Write, Connection,
              Administer, Start
<1>7. QED
  BY <1>1, <1>2, <1>3, <1>4, <1>5, <1>6 DEF BridgeNext, Happens

\* It grades that until the grading ends, or the connection.
LEMMA GradedUntil ==
    ASSUME RowsTypeOK, [BridgeNext]_bridgeVars, NEW j \in Judges, NEW s \in Subs,
           cur[j] = s
    PROVE  \/ cur'[j] = s
           \/ Leave(j) \/ \E kind \in Statuses : End(j, kind)
           \/ Crash
<1> USE NonesAssumption
<1>1. CASE UNCHANGED cur
  BY <1>1
<1>2. ASSUME NEW k \in Judges, JudgeStep(k)
      PROVE  cur'[j] = s \/ \E kind \in Statuses : End(j, kind)
  <2>1. ASSUME NEW x \in Subs, Acknowledge(k, x)
        PROVE  cur'[j] = s
    BY <2>1 DEF Acknowledge, RowsTypeOK
  <2>2. ASSUME GradingBegin(k) \/ TestCase(k)
        PROVE  cur'[j] = s
    BY <2>2 DEF GradingBegin, TestCase
  <2>3. ASSUME NEW kind \in Statuses, End(k, kind)
        PROVE  cur'[j] = s \/ End(j, kind)
    <3>1. k # j => cur'[j] = cur[j]
      BY <2>3 DEF End, RowsTypeOK
    <3>2. QED
      BY <2>3, <3>1
  <2>4. QED
    BY <1>2, <2>1, <2>2, <2>3 DEF JudgeStep
<1>3. ASSUME NEW k \in Judges, Leave(k)
      PROVE  cur'[j] = s \/ Leave(j)
  <2>1. k # j => cur'[j] = cur[j]
    BY <1>3 DEF Leave, RowsTypeOK
  <2>2. QED
    BY <1>3, <2>1
<1>4. ASSUME NEW w \in Workers, WebStep(w)
      PROVE  UNCHANGED cur
  BY <1>4 DEF WebStep, JudgeDelete, JudgeRequest, JudgeFailed, AbortRequest,
              AbortMark, judging
<1>5. CASE \/ UNCHANGED bridgeVars
           \/ \E w \in Workers :
                 \/ \E r \in Requests : JudgeUpdate(w, r)
                 \/ \E x \in Abortable : AbortCheck(w, x)
           \/ \E k \in Judges : Tally(k) \/ Write(k) \/ Connection(k)
           \/ \E n \in Managed : Administer(n)
           \/ Start
  BY <1>5 DEF bridgeVars, judging, JudgeUpdate, AbortCheck, Tally, Write, Connection,
              Administer, Start
<1>6. QED
  BY <1>1, <1>2, <1>3, <1>4, <1>5 DEF BridgeNext, Happens

\* Every step keeps the phases: whoever moves a judging on is the one who has it, and
\* writes the status of the phase it comes to.
LEMMA PhasesStep ==
    ASSUME GradingInv, GradingInv', Flight, OneHolder, OneHolder', Phases,
           [BridgeNext]_bridgeVars
    PROVE  Phases'
<1> SUFFICES ASSUME NEW s \in Subs, s \notin disputed'
             PROVE  Phase(s)'
  BY DEF Phases
<1> USE DEF GradingInv, MARKS
<1>1. s \in Subs \ disputed /\ QueueMatchesNodeMap
  BY DisputesGrow DEF QueueInv
<1>2. Alone(s) /\ Alone(s)' /\ Phase(s)
  BY <1>1 DEF OneGrading, Phases
<1>3. CASE status'[s] \in MARKS
  BY <1>3 DEF Phase
<1>4. ASSUME NEW w \in Workers, NEW r \in Requests, JudgeUpdate(w, r), r.id = s
      PROVE  Phase(s)'
  <2>1. /\ status'[s] = "QU" /\ score'[s] = NoScore
        /\ ~Held(s)
        /\ UNCHANGED <<task, cur, sent>>
    BY <1>4 DEF JudgeUpdate, Locked, RowsTypeOK, vars, judging
  <2>2. ASSUME NEW j \in Judges
        PROVE  cur'[j] # s /\ ~Owes(j, s)'
    <3>1. s \notin sent[j] /\ ~Owes(j, s)
      BY <2>1 DEF Held
    <3>2. cur[j] # s
      BY <3>1, NonesAssumption DEF GradedWasSent
    <3>3. QED
      BY <2>1, <3>1, <3>2 DEF Owes
  <2>3. QED
    BY <2>1, <2>2 DEF Phase
<1>5. ASSUME NEW j \in Judges, s \in sent'[j]
      PROVE  /\ \A w \in Workers : ~Asks(w, s)'
             /\ \A k \in Judges : ~Owes(k, s)'
             /\ \A k \in Judges : cur'[k] = s => k = j
  <2>1. Carried(s)'
    BY <1>5 DEF Carried
  <2>2. \A k \in Judges : ~Owes(k, s)'
    BY <2>1 DEF OneHolder
  <2>3. \A k \in Judges : cur'[k] = s => s \in sent'[k]
    BY NonesAssumption DEF GradedWasSent
  <2>4. QED
    BY <1>2, <1>5, <2>2, <2>3 DEF Alone
<1>6. ASSUME NEW j \in Judges, Acknowledge(j, s)
      PROVE  Phase(s)'
  <2>1. /\ cur' = [cur EXCEPT ![j] = s] /\ prog' = [prog EXCEPT ![j] = 0]
        /\ s \in sent[j]
        /\ status'[s] = "P"
    BY <1>6 DEF Acknowledge, RowsTypeOK
  <2>2. s \in sent'[j]
    BY <1>6, <2>1, AcknowledgeHangsUp DEF HangUp, vars
  <2>3. cur'[j] = s /\ prog'[j] = 0
    BY <2>1 DEF RowsTypeOK
  <2>4. QED
    BY <1>5, <2>1, <2>2, <2>3 DEF Phase
<1>7. ASSUME NEW j \in Judges, GradingBegin(j), cur[j] = s
      PROVE  Phase(s)'
  <2>1. /\ cur' = cur /\ prog' = [prog EXCEPT ![j] = 1] /\ UNCHANGED vars
        /\ status'[s] = "G"
    BY <1>7 DEF GradingBegin, RowsTypeOK
  <2>2. s \in sent'[j]
    BY <1>7, <2>1, NonesAssumption DEF GradedWasSent, vars
  <2>3. cur'[j] = s /\ prog'[j] = 1
    BY <1>7, <2>1 DEF RowsTypeOK
  <2>4. QED
    BY <1>5, <2>1, <2>2, <2>3 DEF Phase
<1>8. ASSUME NEW j \in Judges, Write(j), Owes(j, s), status'[s] \in {"D", "CE"}
      PROVE  Phase(s)'
  <2>1. /\ UNCHANGED <<vars, web, cur>>
        /\ task' = [task EXCEPT ![j] = NoTask]
    BY <1>8 DEF Write, judging
  <2>2. /\ ~Carried(s) /\ \A w \in Workers : ~Asks(w, s)
        /\ \A k \in Judges : Owes(k, s) => k = j
    BY <1>1, <1>8 DEF OneHolder
  <2>3. ~Carried(s)' /\ \A w \in Workers : ~Asks(w, s)'
    BY <2>1, <2>2 DEF Carried, Asks, vars, scheduler
  <2>4. ASSUME NEW k \in Judges
        PROVE  ~Owes(k, s)'
    <3>1. task'[k] = NoTask \/ (k # j /\ task'[k] = task[k])
      BY <2>1 DEF RowsTypeOK
    <3>2. QED
      BY <2>2, <3>1 DEF Owes
  <2>5. \A k \in Judges : cur'[k] # s
    BY <2>3, NonesAssumption DEF GradedWasSent, Carried
  <2>6. QED
    BY <1>8, <2>3, <2>4, <2>5 DEF Phase
<1>9. ASSUME status'[s] = status[s], score'[s] = score[s],
             \A w \in Workers, r \in Requests : ~(JudgeUpdate(w, r) /\ r.id = s),
             \A j \in Judges : ~Acknowledge(j, s),
             \A j \in Judges : ~(GradingBegin(j) /\ cur[j] = s)
      PROVE  Phase(s)'
  <2>1. status[s] = "QU" => score'[s] = NoScore
    BY <1>2, <1>9 DEF Phase
  <2>2. \A w \in Workers : Asks(w, s)' => status[s] \in {"QU"} \cup MARKS
    BY <1>2, <1>9, AskedComesFrom DEF Phase
  <2>3. ASSUME Carried(s)'
        PROVE  status[s] \in {"QU"} \cup MARKS \/ \E j \in Judges : cur'[j] = s
    <3>1. CASE \E w \in Workers : Asks(w, s)
      BY <1>2, <3>1 DEF Phase
    <3>2. ASSUME NEW j \in Judges, cur[j] = s
          PROVE  cur'[j] = s
      <4>1. s \in sent[j]
        BY <3>2, NonesAssumption DEF GradedWasSent
      <4>2. ~Crash
        BY <2>3 DEF Crash, Carried
      <4>3. QED
        BY <1>1, <1>2, <2>3, <3>2, <4>1, <4>2, GradedUntil, EndedIsNotCarried
    <3>3. CASE Carried(s)
      BY <1>2, <3>2, <3>3 DEF Phase
    <3>4. QED
      BY <1>1, <2>3, <3>1, <3>3, CarriedComesFrom
  <2>4. ASSUME NEW j \in Judges, cur'[j] = s
        PROVE  status[s] \in (IF prog'[j] = 0 THEN {"P"} ELSE {"G"}) \cup MARKS
    <3>1. cur[j] = s /\ (prog'[j] = 0 <=> prog[j] = 0)
      BY <1>9, <2>4, GradedComesFrom
    <3>2. QED
      BY <1>2, <3>1 DEF Phase
  <2>5. ASSUME NEW j \in Judges, Owes(j, s)'
        PROVE  /\ status[s] \in IN_PROGRESS \cup MARKS
               /\ task'[j][1] = "D" => status[s] \in {"G"} \cup MARKS
               /\ task'[j][1] = "CE" => status[s] \in {"P"} \cup MARKS
    <3>1. CASE Owes(j, s) /\ task'[j][1] = task[j][1]
      BY <1>2, <3>1 DEF Phase
    <3>2. ASSUME NEW kind \in Statuses, End(j, kind), cur[j] = s, task'[j] = <<kind, s>>
          PROVE  /\ status[s] \in IN_PROGRESS \cup MARKS
                 /\ task'[j][1] = "D" => status[s] \in {"G"} \cup MARKS
                 /\ task'[j][1] = "CE" => status[s] \in {"P"} \cup MARKS
      <4>1. status[s] \in (IF prog[j] = 0 THEN {"P"} ELSE {"G"}) \cup MARKS
        BY <1>2, <3>2 DEF Phase
      <4>2. /\ kind = "D" => prog[j] # 0
            /\ kind = "CE" => prog[j] = 0
        BY <3>2, BridgeAssumption DEF End, Endings
      <4>3. task'[j][1] = kind
        BY <3>2
      <4>4. QED
        BY <4>1, <4>2, <4>3 DEF IN_PROGRESS
    <3>3. ASSUME Leave(j), working[j] = s, task'[j] = <<"IE", s>>
          PROVE  /\ status[s] \in IN_PROGRESS \cup MARKS
                 /\ task'[j][1] = "IE"
      <4>1. conn[j] # "gone"
        BY <3>3 DEF Leave, Disconnect, Listening
      <4>2. Carried(s)
        BY <3>3, <4>1 DEF Flight, Exact, Carried
      <4>3. status[s] \in IN_PROGRESS \cup MARKS
        BY <1>2, <4>2 DEF Phase, IN_PROGRESS
      <4>4. QED
        BY <3>3, <4>3
    <3>4. QED
      BY <2>5, <3>1, <3>2, <3>3, OwedComesFrom
  <2>6. QED
    BY <1>9, <2>1, <2>2, <2>3, <2>4, <2>5 DEF Phase
<1>10. QED
  BY <1>3, <1>4, <1>6, <1>7, <1>8, <1>9, StatusComesFrom

-----------------------------------------------------------------------------
(* Bridge implements SubmissionLife.                                       *)

\* s is with a web process that asks, in the queue, with a judge, or owed.
Busy(s) ==
    \/ Carried(s)
    \/ \E j \in Judges : Owes(j, s)
    \/ \E w \in Workers : Asks(w, s)

\* While nothing fails, what is under way is what somebody is busy with, and what is
\* still to be settled.
LEMMA UnderIsBusy ==
    ASSUME TypeOK, Flight, NEW s \in Subs
    PROVE  /\ Busy(s) => Under(s)
           /\ Under(s) /\ (status[s] \notin IN_PROGRESS \/ FellOut(s)) => Busy(s)
<1>1. Known(s) <=> Carried(s)
  BY FiledWasSent
<1>2. ASSUME NEW w \in Workers
      PROVE  Judging(w, s) /\ ~Marking(w, s) <=> Asks(w, s)
  <2>1. ASSUME Asks(w, s)
        PROVE  Judging(w, s) /\ ~Marking(w, s)
    BY <2>1 DEF Asks, Judging, Marking
  <2>2. ASSUME Judging(w, s), ~Marking(w, s)
        PROVE  Asks(w, s)
    BY <2>2 DEF Asks, Judging, Marking
  <2>3. QED
    BY <2>1, <2>2
<1>3. QED
  BY <1>1, <1>2 DEF Under, Busy, Carried

\* What shows as in progress is under way, or fell out of the queue: somebody attends
\* to it.
LEMMA InProgressIsUnder ==
    ASSUME NobodyIsForgotten, NEW s \in Subs \ astray, status[s] \in IN_PROGRESS,
           ~FellOut(s)
    PROVE  Under(s)
<1>1. CASE ~up
  BY <1>1 DEF Under
<1>2. CASE up
  <2>1. Attended(s)
    BY <1>2 DEF NobodyIsForgotten
  <2>2. ASSUME NEW w \in Workers, Judging(w, s) \/ web[w] = <<"mark", s>>
        PROVE  Under(s)
    BY <2>2 DEF Under, Marking
  <2>3. QED
    BY <2>1, <2>2 DEF Attended, Under, Known
<1>3. QED
  BY <1>1, <1>2

\* What is graded or failed to compile is not under way.
LEMMA SettledIsNotUnder ==
    ASSUME TypeOK, Flight, NEW s \in Subs, Phase(s), status[s] \in {"D", "CE"}
    PROVE  ~Under(s)
<1>1. status[s] \notin IN_PROGRESS
  BY DEF IN_PROGRESS
<1>2. ~Busy(s)
  BY <1>1 DEF Phase, Busy, MARKS, IN_PROGRESS
<1>3. QED
  BY <1>1, <1>2, UnderIsBusy

\* Nobody becomes busy with a submission but by a request to judge it.
LEMMA BusyComesFrom ==
    ASSUME GradingInv, Flight, [BridgeNext]_bridgeVars, NEW s \in Subs, Busy(s)'
    PROVE  Busy(s) \/ \E w \in Workers, r \in Requests : JudgeUpdate(w, r) /\ r.id = s
<1> USE DEF GradingInv
<1>1. ASSUME Carried(s)'
      PROVE  Busy(s)
  BY <1>1, CarriedComesFrom DEF QueueInv, Busy
<1>2. ASSUME NEW j \in Judges, Owes(j, s)'
      PROVE  Busy(s)
  <2>1. ASSUME NEW kind \in Statuses, End(j, kind), cur[j] = s
        PROVE  Carried(s)
    BY <2>1 DEF End, OnJudgeFree, Carried
  <2>2. ASSUME Leave(j), working[j] = s
        PROVE  Carried(s)
    <3>1. conn[j] # "gone"
      BY <2>2 DEF Leave, Disconnect, Listening
    <3>2. QED
      BY <2>2, <3>1 DEF Flight, Exact, Carried
  <2>3. QED
    BY <1>2, <2>1, <2>2, OwedComesFrom DEF Busy
<1>3. ASSUME NEW w \in Workers, Asks(w, s)'
      PROVE  Busy(s) \/ \E r \in Requests : JudgeUpdate(w, r) /\ r.id = s
  BY <1>3, AskedComesFrom DEF Busy
<1>4. QED
  BY <1>1, <1>2, <1>3 DEF Busy

\* Nothing strays, and nothing has.
NobodyStrays == \A s \in Subs : ~Strays(s)
NobodyStrayed == astray = {}

\* What the refinement rests on.
LifeInv ==
    /\ GradingInv /\ NobodyIsForgotten /\ NobodyStrayed /\ Flight
    /\ OneHolder /\ Phases

\* The status tells what is under way, unless a mark is shown.
UnderTold ==
    \A s \in Subs \ disputed :
       /\ status[s] \in IN_PROGRESS => Under(s) \/ FellOut(s)
       /\ status[s] \in {"D", "CE"} => ~Under(s)
       /\ Busy(s) => Under(s)
       /\ status[s] \in MARKS \/ FellOut(s) => (Under(s) => Busy(s))

\* The invariants give UnderTold, before and after a step.
LEMMA UnderIsTold == /\ LifeInv => UnderTold
                     /\ LifeInv' => UnderTold'
<1>1. LifeInv => UnderTold
  <2> SUFFICES ASSUME LifeInv, NEW s \in Subs \ disputed
               PROVE  /\ status[s] \in IN_PROGRESS => Under(s) \/ FellOut(s)
                      /\ status[s] \in {"D", "CE"} => ~Under(s)
                      /\ Busy(s) => Under(s)
                      /\ status[s] \in MARKS \/ FellOut(s) => (Under(s) => Busy(s))
    BY DEF UnderTold
  <2> USE DEF LifeInv, GradingInv, NobodyStrayed
  <2>1. status[s] \in IN_PROGRESS => Under(s) \/ FellOut(s)
    BY InProgressIsUnder
  <2>2. status[s] \in {"D", "CE"} => ~Under(s)
    BY SettledIsNotUnder DEF Phases
  <2>3. Busy(s) => Under(s)
    BY UnderIsBusy
  <2>4. status[s] \in MARKS \/ FellOut(s) => (Under(s) => Busy(s))
    BY UnderIsBusy DEF MARKS, IN_PROGRESS
  <2>5. QED
    BY <2>1, <2>2, <2>3, <2>4
<1>2. QED
  BY <1>1, PTL

\* Every step is, for each submission that is not in dispute, one of its judging.
LEMMA StepsOfLife ==
    ASSUME LifeInv, LifeInv', [BridgeNext]_bridgeVars,
           NEW s \in Subs, s \notin disputed'
    PROVE  Life!Step(s)
<1> USE BridgeAssumption
<1>1. s \in Subs \ disputed
  BY DisputesGrow
<1>2. Alone(s) /\ Phase(s)
  BY <1>1 DEF OneGrading, Phases, LifeInv, GradingInv
<1> DEFINE U == Under(s)
           W == score[s] = 1 .. LastCase
           L == FellOut(s) /\ ~U
<1>3. /\ status[s] \in {"P", "G"} => U
      /\ status'[s] \in {"P", "G"} => U'
      /\ status[s] = "QU" => (L <=> ~U)
      /\ status'[s] = "QU" => (L' <=> ~U')
      /\ status[s] # "QU" => ~L
      /\ status'[s] # "QU" => ~L'
      /\ status[s] \in {"D", "CE"} => ~U
      /\ status'[s] \in {"D", "CE"} => ~U'
  BY <1>1, UnderIsTold DEF UnderTold, FellOut, IN_PROGRESS
<1>4. ASSUME NEW j \in Judges, s \in sent[j] \/ Owes(j, s)
      PROVE  U
  BY <1>1, <1>4, UnderIsTold DEF UnderTold, Busy, Carried
<1>5. ASSUME \A w \in Workers, r \in Requests : ~(JudgeUpdate(w, r) /\ r.id = s),
             status'[s] \in MARKS, U'
      PROVE  U
  <2>1. Busy(s)'
    BY <1>5, UnderIsTold DEF UnderTold
  <2>2. Busy(s)
    BY <1>5, <2>1, BusyComesFrom DEF LifeInv
  <2>3. QED
    BY <1>1, <2>2, UnderIsTold DEF UnderTold
<1>5a. ASSUME \A w \in Workers, r \in Requests : ~(JudgeUpdate(w, r) /\ r.id = s),
              status[s] = "QU", status'[s] = "QU", U'
       PROVE  U
  <2>1. CASE Busy(s)'
    <3>1. Busy(s)
      BY <1>5a, <2>1, BusyComesFrom DEF LifeInv
    <3>2. QED
      BY <1>1, <3>1, UnderIsTold DEF UnderTold
  <2>2. CASE FellOut(s)'
    BY <1>1, <1>5a, <2>1, <2>2, UnderIsTold DEF UnderTold
  <2>3. CASE FellOut(s) /\ ~FellOut(s)'
    <3>1. s \in dropped /\ s \notin dropped' /\ ~Start
      BY <1>5a, <2>3 DEF FellOut, Start, Interrupted, IN_PROGRESS, RowsTypeOK, LifeInv,
                         GradingInv
    <3>2. Busy(s)
      BY <3>1, DroppedUntil DEF Busy, LifeInv, GradingInv
    <3>3. QED
      BY <1>1, <3>2, UnderIsTold DEF UnderTold
  <2>4. CASE ~FellOut(s)
    BY <1>1, <1>5a, <2>4, UnderIsTold DEF UnderTold, IN_PROGRESS
  <2>5. QED
    BY <2>2, <2>3, <2>4
<1>6. /\ score'[s] = score[s] => (W' <=> W)
      /\ score[s] = NoScore => ~W
      /\ score'[s] = NoScore => ~W'
  <2>1. NoScore # 1 .. LastCase
    BY DEF NoScore
  <2>2. QED
    BY <2>1
<1> HIDE DEF U, W, L
<1>7. CASE status'[s] = status[s] /\ (U' <=> U) /\ (W' <=> W)
  <2>1. L' <=> L
    BY <1>3, <1>7
  <2>2. QED
    BY <1>7, <2>1 DEF U, W, L, Life!Step, Life!Unchanged
<1>8. ASSUME NEW w \in Workers, NEW r \in Requests, JudgeUpdate(w, r), r.id = s
      PROVE  Life!Step(s)
  <2>1. /\ status'[s] = "QU" /\ score'[s] = NoScore
        /\ ~Held(s)
        /\ status[s] \notin {"P", "G"}
    BY <1>8 DEF JudgeUpdate, Locked, RowsTypeOK, LifeInv, GradingInv
  <2>2. U'
    <3>1. web'[w] = <<"delete", r>>
      BY <1>8 DEF JudgeUpdate, RowsTypeOK, LifeInv, GradingInv
    <3>2. Busy(s)'
      BY <1>8, <3>1 DEF Busy, Asks
    <3>3. QED
      BY <3>2, UnderIsTold DEF UnderTold, U
  <2>3. CASE status[s] = "QU" /\ U
    BY <1>2, <1>6, <1>7, <2>1, <2>2, <2>3 DEF Phase
  <2>4. CASE ~U
    <3>1. ~W' /\ ~L'
      BY <1>3, <1>6, <2>1, <2>2
    <3>2. QED
      BY <2>1, <2>2, <2>4, <3>1 DEF U, W, L, Life!Step, Life!Ask
  <2>5. CASE status[s] # "QU"
    <3>1. ~U
      BY <2>1, <2>5 DEF U, Under, Held, IN_PROGRESS
    <3>2. QED
      BY <2>4, <3>1
  <2>6. QED
    BY <2>3, <2>4, <2>5
<1>9. ASSUME \A w \in Workers, r \in Requests : ~(JudgeUpdate(w, r) /\ r.id = s),
             status'[s] = status[s], score'[s] = score[s]
      PROVE  Life!Step(s)
  <2>1. CASE U' <=> U
    BY <1>6, <1>7, <1>9, <2>1
  <2>2. CASE ~(U' <=> U)
    <3>1. status[s] \in {"QU"} \cup MARKS
      BY <1>3, <1>9, <2>2 DEF MARKS, LifeInv, GradingInv, RowsTypeOK, Statuses
    <3>2. U /\ ~U' /\ (W' <=> W)
      BY <1>5, <1>5a, <1>6, <1>9, <2>2, <3>1
    <3>3. L' <=> status[s] = "QU"
      BY <1>3, <1>9, <3>2
    <3>4. QED
      BY <1>9, <3>1, <3>2, <3>3
         DEF U, W, L, Life!Step, Life!Forget, Life!Marks, MARKS
  <2>3. QED
    BY <2>1, <2>2
<1>10. ASSUME \A w \in Workers, r \in Requests : ~(JudgeUpdate(w, r) /\ r.id = s),
              status'[s] \in MARKS,
              \/ status'[s] = "IE" /\ score'[s] = score[s]
              \/ score'[s] = NoScore
       PROVE  Life!Step(s)
  <2>1. (U' => U) /\ (W' => W) /\ (status'[s] = "AB" => ~W')
    BY <1>5, <1>6, <1>10
  <2>2. ~L'
    BY <1>3, <1>10 DEF MARKS
  <2>3. QED
    BY <1>10, <2>1, <2>2 DEF U, W, L, Life!Step, Life!Mark, Life!Marks, MARKS
<1>11. ASSUME NEW j \in Judges, Acknowledge(j, s)
       PROVE  Life!Step(s)
  <2>1. /\ status'[s] = "P" /\ score'[s] = score[s]
        /\ s \in sent[j] /\ cur[j] = NoSub
    BY <1>11 DEF Acknowledge, RowsTypeOK, LifeInv, GradingInv
  <2>2. \A k \in Judges : cur[k] # s
    <3>1. \A k \in Judges : cur[k] = s => s \in sent[k]
      BY NonesAssumption DEF GradedWasSent, LifeInv, GradingInv
    <3>2. QED
      BY <1>2, <2>1, <3>1, NonesAssumption DEF Alone
  <2>3. status[s] \in {"QU"} \cup MARKS
    BY <1>2, <2>1, <2>2 DEF Phase, Carried
  <2>4. U /\ U' /\ (W' <=> W) /\ ~L'
    BY <1>3, <1>4, <1>6, <2>1
  <2>5. QED
    BY <2>1, <2>3, <2>4 DEF U, W, L, Life!Step, Life!Advance, Life!Marks, MARKS
<1>12. ASSUME NEW j \in Judges, GradingBegin(j), cur[j] = s
       PROVE  Life!Step(s)
  <2>1. /\ status'[s] = "G" /\ score'[s] = score[s] /\ prog[j] = 0
        /\ s \in sent[j]
    BY <1>12 DEF GradingBegin, RowsTypeOK, GradedWasSent, LifeInv, GradingInv
  <2>2. status[s] \in {"P"} \cup MARKS
    BY <1>2, <1>12, <2>1 DEF Phase
  <2>3. U /\ U' /\ (W' <=> W) /\ ~L'
    BY <1>3, <1>4, <1>6, <2>1
  <2>4. QED
    BY <2>1, <2>2, <2>3 DEF U, W, L, Life!Step, Life!Advance, Life!Marks, MARKS
<1>13. ASSUME NEW j \in Judges, Owes(j, s), status'[s] = task[j][1],
              \/ status'[s] = "D"
              \/ status'[s] = "CE" /\ score'[s] = score[s]
       PROVE  Life!Step(s)
  <2>1. U /\ ~U' /\ ~L'
    BY <1>3, <1>4, <1>13
  <2>2. status'[s] = "D" => W'
    BY DEF W, LifeInv, GradingInv, ScoreIsComplete
  <2>3. /\ status'[s] = "D" => status[s] \in {"G"} \cup MARKS
        /\ status'[s] = "CE" => status[s] \in {"P"} \cup MARKS
    BY <1>2, <1>13 DEF Phase
  <2>4. status'[s] = "CE" => (W' <=> W)
    BY <1>6, <1>13
  <2>5. QED
    BY <1>13, <2>1, <2>2, <2>3, <2>4 DEF U, W, L, Life!Step, Life!Answer, Life!Marks, MARKS
<1>14. RowsTypeOK
  BY DEF LifeInv, GradingInv
<1>15. QED
  BY <1>8, <1>9, <1>10, <1>11, <1>12, <1>13, <1>14, StatusComesFrom

\* What the refinement rests on is an invariant while nothing fails.
LEMMA LifeInvHolds == BridgeSpec /\ []Undisturbed => []LifeInv
<1>1. BridgeInit => OneHolder /\ Phases
  <2>1. ASSUME BridgeInit
        PROVE  OneHolder /\ Phases
    <3>1. \A j \in Judges, s \in Subs : ~Owes(j, s) /\ cur[j] # s
      BY <2>1, NonesAssumption DEF BridgeInit, Owes
    <3>2. \A s \in Subs : ~Carried(s) /\ status[s] = "D"
      BY <2>1 DEF BridgeInit, Init, Carried
    <3>3. \A w \in Workers, s \in Subs : ~Asks(w, s)
      BY <2>1 DEF BridgeInit, Asks, Resting
    <3>4. QED
      BY <3>1, <3>2, <3>3 DEF OneHolder, Phases, Phase
  <2>2. QED
    BY <2>1
<1>2. GradingInv /\ GradingInv' /\ Flight /\ OneHolder /\ Phases
      /\ [BridgeNext]_bridgeVars => (OneHolder /\ Phases)'
  BY OneHolderStep, PhasesStep
<1>3. Flight => NobodyStrays
  BY DEF Flight, Exact, Strays, NobodyStrays
<1>4. Flight' => NobodyStrays'
  BY <1>3, PTL
<1>5. BridgeInit => NobodyStrayed
  BY DEF BridgeInit, NobodyStrayed
<1>6. Flight' /\ NobodyStrayed /\ [BridgeNext]_bridgeVars => NobodyStrayed'
  BY <1>4 DEF BridgeNext, Noted, bridgeVars, NobodyStrays, NobodyStrayed
<1>7. QED
  BY <1>1, <1>2, <1>5, <1>6, GradingInvHolds, FlightInvOfBridge, NobodyIsEverForgotten,
     PTL DEF BridgeSpec, LifeInv

\* Web processes, scheduler, judges and daemon implement SubmissionLife, while no
\* dispatch fails and no judge is given two submissions: every step of theirs is, for
\* each submission, a step of its life or none.
THEOREM BridgeImplementsLife == BridgeSpec /\ []Undisturbed => SubmissionLifecycle
<1>1. BridgeInit => Life!LifeInit
  <2>1. ASSUME BridgeInit
        PROVE  Life!LifeInit
    <3>1. ASSUME NEW s \in Subs
          PROVE  ~Under(s)
      <4>1. ~Known(s) /\ status[s] \notin IN_PROGRESS
        BY <2>1 DEF BridgeInit, Init, Known, IN_PROGRESS
      <4>2. \A j \in Judges : s \notin sent[j] /\ ~Owes(j, s)
        BY <2>1 DEF BridgeInit, Init, Owes
      <4>3. \A w \in Workers : ~Judging(w, s)
        BY <2>1 DEF BridgeInit, Judging, Resting
      <4>4. QED
        BY <4>1, <4>2, <4>3 DEF Under
    <3>2. /\ status = [s \in Subs |-> "D"]
          /\ {s \in Subs : score[s] = 1 .. LastCase} = Subs
          /\ disputed = {} /\ \A s \in Subs : ~FellOut(s)
      BY <2>1 DEF BridgeInit, FellOut
    <3>3. QED
      BY <3>1, <3>2 DEF Life!LifeInit
  <2>2. QED
    BY <2>1
<1>2. LifeInv /\ LifeInv' /\ [BridgeNext]_bridgeVars => Life!LifeNext
  <2> SUFFICES ASSUME LifeInv, LifeInv', [BridgeNext]_bridgeVars
               PROVE  Life!LifeNext
    OBVIOUS
  <2>1. status' \in [Subs -> Life!Lives] /\ disputed' \subseteq Subs
    BY DEF LifeInv, GradingInv, RowsTypeOK, Statuses, Life!Lives
  <2>2. disputed \subseteq disputed'
    BY DisputesGrow
  <2>3. \A s \in Subs \ disputed' : Life!Step(s)
    BY StepsOfLife
  <2>4. QED
    BY <2>1, <2>2, <2>3 DEF Life!LifeNext
<1>3. QED
  BY <1>1, <1>2, LifeInvHolds, PTL DEF BridgeSpec, SubmissionLifecycle, Life!LifeSpec

-----------------------------------------------------------------------------
(* What SubmissionLife promises.                                           *)

\* A step of one submission keeps what is promised of it.
LEMMA StepKeeps ==
    ASSUME NEW s \in Submissions, Step(s),
           life[s] \in Pending => s \in under \/ (life[s] = "QU" /\ s \in lost),
           life[s] = "D" => s \in whole
    PROVE  /\ life'[s] \in Pending => s \in under' \/ (life'[s] = "QU" /\ s \in lost')
           /\ life'[s] = "D" => s \in whole'
<1>1. CASE Unchanged(s)
  BY <1>1 DEF Unchanged
<1>2. CASE Ask(s)
  BY <1>2 DEF Ask
<1>3. CASE Advance(s)
  BY <1>3 DEF Advance
<1>4. CASE Answer(s)
  BY <1>4 DEF Answer, Pending
<1>5. CASE Mark(s)
  BY <1>5 DEF Mark, Marks, Pending
<1>6. CASE Forget(s)
  BY <1>6 DEF Forget, Marks, Pending
<1>7. QED
  BY <1>1, <1>2, <1>3, <1>4, <1>5, <1>6 DEF Step

\* Whatever implements SubmissionLife, as Bridge does, shows no submission as in progress
\* that nobody judges and grades none by a part of its test cases.
THEOREM LifeAlwaysHolds == LifeSpec => [](LifeTypeOK /\ LifeHolds)
<1>1. LifeInit => LifeTypeOK /\ LifeHolds
  BY DEF LifeInit, LifeTypeOK, LifeHolds, Lives, Pending
<1>2. LifeTypeOK /\ LifeHolds /\ [LifeNext]_lifeVars => LifeTypeOK' /\ LifeHolds'
  <2> SUFFICES ASSUME LifeTypeOK, LifeHolds, [LifeNext]_lifeVars
               PROVE  LifeTypeOK' /\ LifeHolds'
    OBVIOUS
  <2>1. CASE LifeNext
    <3>1. LifeTypeOK'
      BY <2>1 DEF LifeNext, LifeTypeOK
    <3>2. ASSUME NEW s \in Submissions \ free'
          PROVE  /\ life'[s] \in Pending =>
                       s \in under' \/ (life'[s] = "QU" /\ s \in lost')
                 /\ life'[s] = "D" => s \in whole'
      <4>1. Step(s) /\ s \in Submissions \ free
        BY <2>1, <3>2 DEF LifeNext
      <4>2. QED
        BY <4>1, StepKeeps DEF LifeHolds
    <3>3. QED
      BY <3>1, <3>2 DEF LifeHolds
  <2>2. CASE UNCHANGED lifeVars
    BY <2>2 DEF lifeVars, LifeTypeOK, LifeHolds
  <2>3. QED
    BY <2>1, <2>2
<1>3. QED
  BY <1>1, <1>2, PTL DEF LifeSpec
=============================================================================
