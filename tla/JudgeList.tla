------------------------------ MODULE JudgeList ------------------------------
(***************************************************************************)
(* The dispatcher of the judge bridge: class JudgeList of                  *)
(* judge/bridge/judge_list.py, with the part of class JudgeHandler of      *)
(* judge/bridge/judge_handler.py that it calls and that calls it.          *)
(*                                                                         *)
(* Every judge connection is served by a thread of its own, and so is      *)
(* every request of the web site.  All of them share one JudgeList, whose  *)
(* methods run under one lock, so one action is one critical section plus  *)
(* the thread-local code around it.  Two sections of one handler are two   *)
(* actions: registering and then reading is_disabled from the database,    *)
(* and looking at `working' before taking the lock in the handler of a     *)
(* supported-problems packet.                                              *)
(*                                                                         *)
(* A submission's (problem, language) pair is its Kind; `load' is whatever *)
(* the judges report, so the least loaded judge is any available one.      *)
(***************************************************************************)
EXTENDS Integers, FiniteSets, SequencesExt

CONSTANTS
    Judges,      \* judge connections (JudgeHandler objects); each is used once
    Names,       \* names a judge may authenticate with
    NameOf,      \* the name each connection uses: several may share one
    Subs,        \* submission ids
    Kinds,       \* (problem, language) pairs
    KindOf,      \* the kind of each submission
    Requests,    \* submission-request packets the web site may send
    Managed,     \* bound: names an administrator disconnects or disables
    Updaters,    \* bound: judges that send supported-problems packets
    Offers,      \* bound: the sets of kinds a judge may say it supports
    NoName,      \* judge_id of a request that names no judge
    NoSub,       \* _working = False
    NoJudge,     \* the submission has no entry in submission_map
    NoNode,      \* the submission has no entry in node_map
    MaxFailures  \* bound: judges to which a dispatch may fail spontaneously

Priorities == 0 .. 3
REJUDGE_PRIORITY == 2

ASSUME SetsAssumption ==
    /\ NameOf \in [Judges -> Names]
    /\ KindOf \in [Subs -> Kinds]
    /\ Requests \subseteq [id : Subs, judge_id : Names \cup {NoName},
                           priority : Priorities]
    /\ Managed \subseteq Names
    /\ Updaters \subseteq Judges
    /\ Offers \subseteq SUBSET Kinds
    /\ IsFiniteSet(Judges)
    /\ MaxFailures \in Nat
ASSUME NonesAssumption ==
    /\ NoName \notin Names
    /\ NoSub \notin Subs
    /\ NoJudge \notin Judges
    /\ NoNode \notin Priorities

VARIABLES
    conn,            \* life of each connection
    judges,          \* JudgeList.judges
    queue,           \* JudgeList.queue: for each marker, the nodes before it
    node_map,        \* JudgeList.node_map: the section that holds the node
    submission_map,  \* JudgeList.submission_map
    working,         \* JudgeHandler._working
    is_disabled,     \* JudgeHandler.is_disabled
    problems,        \* JudgeHandler.problems and executors: kinds it accepts
    closed,          \* sockets the bridge itself has shut down
    updating,        \* handlers about to call JudgeList.update_problems
    sent,            \* requests delivered to the judge, not yet answered
    failed,          \* history: judges whose submit() raised
    raced,           \* history: judges given work by update_problems while busy
    reenabled        \* history: judges whose is_disabled was turned off

scheduler == <<judges, queue, node_map, submission_map>>
history == <<failed, raced, reenabled>>
vars == <<conn, judges, queue, node_map, submission_map, working, is_disabled,
          problems, closed, updating, sent, failed, raced, reenabled>>

Items == [id : Subs, judge_id : Names \cup {NoName}]

-----------------------------------------------------------------------------
(* What the dispatcher asks of a judge.                                    *)

CanJudge(j, item) ==
    /\ KindOf[item.id] \in problems[j]
    /\ \/ item.judge_id = NoName /\ ~is_disabled[j]
       \/ item.judge_id = NameOf[j]

CountNotDisabled(js) == Cardinality({j \in js : ~is_disabled[j]})

Idle(js, wk) == {j \in js : wk[j] = NoSub /\ ~is_disabled[j]}

\* Mutant: the last free judge is given away too.
ReservedLate(js, wk) ==
    CountNotDisabled(js) > 1 /\ Cardinality(Idle(js, wk)) < 1

\* The last free judge is kept for submissions that are not rejudges.
Reserved(js, wk) ==
    CountNotDisabled(js) > 1 /\ Cardinality(Idle(js, wk)) <= 1

\* Mutant: the test of the priority is forgotten.
MayTakeUnreserved(p, js, wk) == ~Reserved(js, wk)

\* A free judge may be given a node of section p.
MayTake(p, js, wk) == p < REJUDGE_PRIORITY \/ ~Reserved(js, wk)

\* Mutant: the least urgent section first.
BeforeReversed(p, i, q, k) == p > q \/ (p = q /\ i < k)

\* The walk over the queue reaches node i of section p before node k of section q.
Before(p, i, q, k) == p < q \/ (p = q /\ i < k)

FirstRunnable(j, p, i) ==
    /\ CanJudge(j, queue[p][i])
    /\ \A q \in Priorities : \A k \in 1 .. Len(queue[q]) :
          Before(q, k, p, i) => ~CanJudge(j, queue[q][k])

-----------------------------------------------------------------------------
(* JudgeHandler.submit: it may raise before _working is set (the queries   *)
(* for the submission's data), after it (the submission vanished, or the   *)
(* socket is broken), or succeed.  On a socket the bridge has shut down it *)
(* cannot succeed.                                                         *)

SubmitOk(j, id, wk, sn) ==
    /\ j \notin closed
    /\ working' = [wk EXCEPT ![j] = id]
    /\ sent' = [sn EXCEPT ![j] = @ \cup {id}]
    /\ UNCHANGED failed

SubmitFails(j, id, wk, sn) ==
    /\ j \in closed \/ Cardinality(failed \ closed) < MaxFailures
    /\ \/ working' = wk
       \/ working' = [wk EXCEPT ![j] = id]
    /\ sent' = sn
    /\ failed' = failed \cup {j}

\* Mutant: the entry of node_map is forgotten.
DropNodeOnly(p, i) ==
    /\ queue' = [queue EXCEPT ![p] = RemoveAt(@, i)]
    /\ UNCHANGED node_map

\* queue.remove(node) and the deletion of its entry in node_map.
DropNode(p, i) ==
    /\ queue' = [queue EXCEPT ![p] = RemoveAt(@, i)]
    /\ node_map' = [node_map EXCEPT ![queue[p][i].id] = NoNode]

\* judge takes node i of section p: the node leaves only if submit() returns.
DispatchNode(j, p, i, js, wk, sm, sn) ==
    LET id == queue[p][i].id IN
    /\ submission_map' = [sm EXCEPT ![id] = j]
    /\ \/ /\ SubmitOk(j, id, wk, sn)
          /\ judges' = js
          /\ DropNode(p, i)
       \/ /\ SubmitFails(j, id, wk, sn)
          /\ judges' = js \ {j}
          /\ UNCHANGED <<queue, node_map>>

\* _handle_free_judge, called when the judges are js, their _working is wk, the
\* submission map is sm and the outstanding requests are sn.
HandleFreeJudge(j, js, wk, sm, sn) ==
    \/ \E p \in Priorities : \E i \in 1 .. Len(queue[p]) :
          /\ FirstRunnable(j, p, i)
          /\ MayTake(p, js, wk)
          /\ DispatchNode(j, p, i, js, wk, sm, sn)
    \/ /\ \A p \in Priorities : \A i \in 1 .. Len(queue[p]) :
             CanJudge(j, queue[p][i]) => ~MayTake(p, js, wk)
       /\ judges' = js /\ working' = wk /\ submission_map' = sm /\ sent' = sn
       /\ UNCHANGED <<queue, node_map, failed>>

-----------------------------------------------------------------------------
(* Judge connections.                                                      *)

\* on_handshake before it takes the lock: what the judge supports is recorded.
Handshake(j, kinds) ==
    /\ conn[j] = "connected"
    /\ conn' = [conn EXCEPT ![j] = "authenticated"]
    /\ problems' = [problems EXCEPT ![j] = kinds]
    /\ UNCHANGED <<scheduler, working, is_disabled, closed, updating, sent,
                   history>>

\* JudgeList.disconnect: the registered judges whose name equals the argument.
Named(arg) == {k \in judges : NameOf[k] = arg}

\* JudgeList.register.  It passes the handler itself to disconnect.
Register(j) ==
    /\ conn[j] = "authenticated"
    /\ conn' = [conn EXCEPT ![j] = "registered"]
    /\ closed' = closed \cup Named(j)
    /\ HandleFreeJudge(j, judges \cup {j}, working, submission_map, sent)
    /\ UNCHANGED <<is_disabled, problems, updating, raced, reenabled>>

\* _connected: the flag is read from the database only now.
Connected(j, disabled) ==
    /\ conn[j] = "registered"
    /\ conn' = [conn EXCEPT ![j] = "up"]
    /\ is_disabled' = [is_disabled EXCEPT ![j] = disabled]
    /\ reenabled' = IF is_disabled[j] /\ ~disabled
                    THEN reenabled \cup {j} ELSE reenabled
    /\ UNCHANGED <<scheduler, working, problems, closed, updating, sent,
                   failed, raced>>

\* The handler thread of j is waiting for a packet.
Listening(j) == conn[j] = "up" /\ j \notin updating

\* Mutant: the entry of submission_map is left behind.
WithoutKept(s) == submission_map

\* submission_map without the entry of s.
Without(s) == [submission_map EXCEPT ![s] = NoJudge]

\* on_disconnect: JudgeList.remove, also run by a connection that never
\* authenticated.  If one judge is left and it is free it is given work.
Disconnect(j) ==
    LET sm == IF working[j] = NoSub THEN submission_map ELSE Without(working[j])
        js == judges \ {j}
        sn == [sent EXCEPT ![j] = {}]
    IN
    /\ conn[j] \in {"connected", "authenticated"} \/ Listening(j)
    /\ conn' = [conn EXCEPT ![j] = "gone"]
    /\ \/ \E k \in js : /\ js = {k} /\ working[k] = NoSub
                        /\ HandleFreeJudge(k, js, working, sm, sn)
       \/ /\ \A k \in js : js = {k} => working[k] # NoSub
          /\ judges' = js /\ submission_map' = sm /\ sent' = sn
          /\ UNCHANGED <<queue, node_map, working, failed>>
    /\ UNCHANGED <<is_disabled, problems, closed, updating, raced, reenabled>>

-----------------------------------------------------------------------------
(* Packets of a registered judge.                                          *)

\* on_supported_problems up to its test of `working', which takes no lock.
SupportedProblems(j, kinds) ==
    /\ Listening(j) /\ j \notin closed
    /\ problems' = [problems EXCEPT ![j] = kinds]
    /\ updating' = IF working[j] = NoSub THEN updating \cup {j} ELSE updating
    /\ UNCHANGED <<conn, scheduler, working, is_disabled, closed, sent, history>>

\* JudgeList.update_problems.
UpdateProblems(j) ==
    /\ j \in updating
    /\ updating' = updating \ {j}
    /\ HandleFreeJudge(j, judges, working, submission_map, sent)
    /\ raced' = IF working[j] # NoSub THEN raced \cup {j} ELSE raced
    /\ UNCHANGED <<conn, is_disabled, problems, closed, reenabled>>

\* A packet that ends the grading of s: JudgeList.on_judge_free.  A missing entry
\* raises before _working is reset; whose entry it is, is not looked at.
OnJudgeFree(j, s) ==
    LET sn == [sent EXCEPT ![j] = @ \ {s}] IN
    /\ Listening(j) /\ j \notin closed
    /\ s \in sent[j]
    /\ \/ /\ submission_map[s] # NoJudge
          /\ HandleFreeJudge(j, judges, [working EXCEPT ![j] = NoSub],
                             Without(s), sn)
       \/ /\ submission_map[s] = NoJudge
          /\ sent' = sn
          /\ UNCHANGED <<scheduler, working, failed>>
    /\ UNCHANGED <<conn, is_disabled, problems, closed, updating, raced,
                   reenabled>>

-----------------------------------------------------------------------------
(* Packets of the web site.                                                *)

Candidates(r) == {j \in judges : CanJudge(j, r)}

Available(r) == Candidates(r) \cap Idle(judges, working)

\* With one free judge among several, a rejudge waits.
HeldBack(r) ==
    /\ Cardinality(Candidates(r)) > 1
    /\ Cardinality(Available(r)) = 1
    /\ r.priority >= REJUDGE_PRIORITY

\* Mutant: only the queue is looked at.
KnownQueued(id) == node_map[id] # NoNode

Known(id) == submission_map[id] # NoJudge \/ node_map[id] # NoNode

\* Mutant: the node goes before the marker of the next section.
SectionAfter(r) == r.priority + 1

\* The section of the queue, or marker, a request goes to.
Section(r) == r.priority

\* JudgeList.judge.  The retry after a failed submit() finds the submission in
\* submission_map and returns.
Judge(r) ==
    /\ \/ /\ Known(r.id)
          /\ UNCHANGED <<scheduler, working, sent, failed>>
       \/ /\ ~Known(r.id) /\ ~HeldBack(r)
          /\ \E j \in Available(r) :
                /\ submission_map' = [submission_map EXCEPT ![r.id] = j]
                /\ \/ SubmitOk(j, r.id, working, sent) /\ UNCHANGED judges
                   \/ /\ SubmitFails(j, r.id, working, sent)
                      /\ judges' = judges \ {j}
          /\ UNCHANGED <<queue, node_map>>
       \/ /\ ~Known(r.id) /\ (HeldBack(r) \/ Available(r) = {})
          /\ queue' = [queue EXCEPT ![Section(r)] =
                          Append(@, [id |-> r.id, judge_id |-> r.judge_id])]
          /\ node_map' = [node_map EXCEPT ![r.id] = Section(r)]
          /\ UNCHANGED <<judges, submission_map, working, sent, failed>>
    /\ UNCHANGED <<conn, is_disabled, problems, closed, updating, raced,
                   reenabled>>

\* JudgeList.abort: a dispatched submission is left to its judge, which is told
\* to terminate it; a queued one is dropped.
Abort(s) ==
    /\ \/ /\ submission_map[s] # NoJudge
          /\ UNCHANGED <<queue, node_map>>
       \/ /\ submission_map[s] = NoJudge /\ node_map[s] # NoNode
          /\ \E i \in 1 .. Len(queue[node_map[s]]) :
                queue[node_map[s]][i].id = s /\ DropNode(node_map[s], i)
    /\ UNCHANGED <<conn, judges, submission_map, working, is_disabled, problems,
                   closed, updating, sent, history>>

\* JudgeList.disconnect(name, force=True): the socket is shut down, the thread
\* notices later.  Without force the judge is asked to leave: Disconnect.
ForceDisconnect(n) ==
    /\ closed' = closed \cup Named(n)
    /\ UNCHANGED <<conn, scheduler, working, is_disabled, problems, updating,
                   sent, history>>

\* JudgeList.update_disable_judge: only the flag changes.
UpdateDisableJudge(n, disabled) ==
    /\ is_disabled' = [j \in Judges |-> IF j \in Named(n) THEN disabled
                                        ELSE is_disabled[j]]
    /\ reenabled' = IF disabled THEN reenabled
                    ELSE reenabled \cup {j \in Named(n) : is_disabled[j]}
    /\ UNCHANGED <<conn, scheduler, working, problems, closed, updating, sent,
                   failed, raced>>

-----------------------------------------------------------------------------
Init ==
    /\ conn = [j \in Judges |-> "connected"]
    /\ judges = {}
    /\ queue = [p \in Priorities |-> <<>>]
    /\ node_map = [s \in Subs |-> NoNode]
    /\ submission_map = [s \in Subs |-> NoJudge]
    /\ working = [j \in Judges |-> NoSub]
    /\ is_disabled = [j \in Judges |-> FALSE]
    /\ problems = [j \in Judges |-> {}]
    /\ closed = {}
    /\ updating = {}
    /\ sent = [j \in Judges |-> {}]
    /\ failed = {} /\ raced = {} /\ reenabled = {}

Next ==
    \/ \E j \in Judges :
          \/ \E kinds \in Offers : Handshake(j, kinds)
          \/ Register(j)
          \/ \E disabled \in BOOLEAN : Connected(j, disabled)
          \/ Disconnect(j)
          \/ \E kinds \in Offers : j \in Updaters /\ SupportedProblems(j, kinds)
          \/ UpdateProblems(j)
          \/ \E s \in Subs : OnJudgeFree(j, s)
    \/ \E r \in Requests : Judge(r)
    \/ \E s \in Subs : Abort(s)
    \/ \E n \in Managed : ForceDisconnect(n)
    \/ \E n \in Managed, disabled \in BOOLEAN : UpdateDisableJudge(n, disabled)

Spec == Init /\ [][Next]_vars

\* Handler threads run on, and a judge ends the grading of whatever it was sent:
\* its packets are read in order, so other packets only delay the final one.
Fairness ==
    \A j \in Judges :
       /\ WF_vars(\E disabled \in BOOLEAN : Connected(j, disabled))
       /\ WF_vars(UpdateProblems(j))
       /\ SF_vars(\E s \in Subs : OnJudgeFree(j, s))

FairSpec == Spec /\ Fairness

-----------------------------------------------------------------------------
(* Properties.                                                             *)

\* The shape of every variable of the bridge.
TypeOK ==
    /\ conn \in [Judges -> {"connected", "authenticated", "registered", "up",
                           "gone"}]
    /\ judges \subseteq Judges
    /\ queue \in [Priorities -> Seq(Items)]
    /\ node_map \in [Subs -> Priorities \cup {NoNode}]
    /\ submission_map \in [Subs -> Judges \cup {NoJudge}]
    /\ working \in [Judges -> Subs \cup {NoSub}]
    /\ is_disabled \in [Judges -> BOOLEAN]
    /\ problems \in [Judges -> SUBSET Kinds]
    /\ sent \in [Judges -> SUBSET Subs]
    /\ closed \subseteq Judges /\ updating \subseteq Judges
    /\ failed \subseteq Judges /\ raced \subseteq Judges
    /\ reenabled \subseteq Judges

\* node_map and the queue agree: each node is filed under its own submission, in
\* the section node_map says, and no submission is queued twice.  Requests,
\* aborts, and judges becoming free edit the two structures independently, and
\* failed dispatches leave the node where it is.
QueueMatchesNodeMap ==
    /\ \A p \in Priorities : \A i \in 1 .. Len(queue[p]) :
          node_map[queue[p][i].id] = p
    /\ \A p \in Priorities : \A i, k \in 1 .. Len(queue[p]) :
          queue[p][i].id = queue[p][k].id => i = k
    /\ \A s \in Subs : node_map[s] # NoNode =>
          \E i \in 1 .. Len(queue[node_map[s]]) : queue[node_map[s]][i].id = s

\* A submission that a judge of the pool has been given is not in the queue, even
\* after dispatches failed: a node that outlives its dispatch belongs to a judge
\* that was dropped from the pool.  (judge_list.py:42-51, 129-132, 148-154)
QueuedNotDispatched ==
    \A s \in Subs : node_map[s] # NoNode => submission_map[s] \notin judges

\* No dispatch has failed, and no update_problems has overtaken a dispatch.
Undisturbed == failed = {} /\ raced = {}

\* Until a dispatch fails, or a problem update overtakes one, submission_map,
\* _working and what the judges were really sent are the same relation, it is
\* one to one, and only judges of the pool are in it.
InFlightExact ==
    Undisturbed =>
      /\ \A j \in Judges, s \in Subs :
            submission_map[s] = j <=> working[j] = s /\ conn[j] # "gone"
      /\ \A j \in Judges : sent[j] = {s \in Subs : submission_map[s] = j}
      /\ \A s \in Subs : submission_map[s] \in judges \cup {NoJudge}
      /\ \A s \in Subs : node_map[s] # NoNode => submission_map[s] = NoJudge

\* A free judge leaves no contest or first-time submission it could run in the
\* queue: registering, finishing, and problem updates all look at the queue.
\* Turning is_disabled off does not, nor does a failed dispatch.
FreeJudgeLeavesNoWork ==
    Undisturbed =>
      \A j \in Idle(judges, working) \ (reenabled \cup updating) :
         \A p \in 0 .. REJUDGE_PRIORITY - 1 : \A i \in 1 .. Len(queue[p]) :
            ~CanJudge(j, queue[p][i])

\* s is given to judge j by this step.
Given(j, s) == s \in sent'[j] /\ s \notin sent[j]

\* A rejudge never takes the last free judge when another enabled judge of the
\* pool could have taken it later ("we reserve a judge for high priority
\* submissions when there are more than one", judge_list.py:91), whether it comes
\* from the queue or straight from the web site.
RejudgeLeavesAFreeJudge ==
    [][\A j \in judges', s \in Subs :
          (/\ Given(j, s)
           /\ \/ node_map[s] \in REJUDGE_PRIORITY .. 3
              \/ \E r \in Requests : /\ r.id = s /\ r.judge_id = NoName
                                     /\ r.priority >= REJUDGE_PRIORITY
                                     /\ node_map[s] = NoNode /\ Judge(r)
           /\ ~is_disabled[j])
          => \/ Idle(judges', working') # {}
             \/ \A k \in judges' \ {j} :
                   is_disabled[k] \/ KindOf[s] \notin problems[k]]_vars

\* s waits in section p, and an enabled judge of the pool could run it.  (A judge
\* that is disabled is never free for the web site, though a request that names it
\* passes can_judge: such a request waits for the judge to reconnect.)
WaitingFor(s, p) ==
    /\ node_map[s] = p
    /\ \E i \in 1 .. Len(queue[p]) : /\ queue[p][i].id = s
                                    /\ \E j \in judges :
                                          /\ ~is_disabled[j]
                                          /\ CanJudge(j, queue[p][i])

\* A contest submission does not wait for ever behind other submissions while
\* some judge can run it: it is judged, aborted, or that judge leaves.
ContestSubmissionIsServed ==
    \A s \in Subs : WaitingFor(s, 0) ~> ~WaitingFor(s, 0)

-----------------------------------------------------------------------------
(* What comments in the code promise.                                      *)

\* "Already judging, don't queue again" (judge_list.py:130): no submission waits
\* in the queue while a judge of the pool is grading it.
JudgedIsNotQueuedAgain ==
    \A s \in Subs : node_map[s] # NoNode => \A j \in judges : s \notin sent[j]

\* "Disconnect all judges with the same name" (judge_list.py:60): of two judges of
\* the pool with one name, the earlier has been disconnected.
SameNameDisconnected ==
    \A j, k \in judges : j # k /\ NameOf[j] = NameOf[k] => {j, k} \cap closed # {}
=============================================================================
