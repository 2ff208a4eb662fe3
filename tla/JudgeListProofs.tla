-------------------------- MODULE JudgeListProofs --------------------------
(***************************************************************************)
(* Theorems about JudgeList, for any number of judges, submissions and     *)
(* failures: the types, the agreement of the queue with node_map, that no  *)
(* judge of the pool has been given a submission that is still queued,     *)
(* that the three records of what is in flight are one, that a free judge  *)
(* leaves no work it could do, and that a rejudge leaves a free judge.     *)
(***************************************************************************)
EXTENDS JudgeList, FiniteSetTheorems, SequenceTheorems, TLAPS

-----------------------------------------------------------------------------
(* Nodes of the queue.                                                     *)

\* Removing node i moves the later nodes one place forward.
LEMMA RemoveAtProperties ==
    ASSUME NEW S, NEW s \in Seq(S), NEW i \in 1 .. Len(s)
    PROVE  /\ RemoveAt(s, i) \in Seq(S)
           /\ Len(RemoveAt(s, i)) = Len(s) - 1
           /\ \A k \in 1 .. Len(s) - 1 :
                 RemoveAt(s, i)[k] = IF k < i THEN s[k] ELSE s[k + 1]
<1> DEFINE front == SubSeq(s, 1, i - 1)
           back == SubSeq(s, i + 1, Len(s))
<1>1. /\ front \in Seq(S) /\ Len(front) = i - 1
      /\ \A k \in 1 .. i - 1 : front[k] = s[k]
  OBVIOUS
<1>2. /\ back \in Seq(S) /\ Len(back) = Len(s) - i
      /\ \A k \in 1 .. Len(s) - i : back[k] = s[i + k]
  OBVIOUS
<1>3. RemoveAt(s, i) = front \o back
  BY DEF RemoveAt
<1> HIDE DEF front, back
<1>4. /\ front \o back \in Seq(S)
      /\ Len(front \o back) = Len(front) + Len(back)
      /\ \A k \in 1 .. Len(front) + Len(back) :
            (front \o back)[k] =
               IF k <= Len(front) THEN front[k] ELSE back[k - Len(front)]
  BY <1>1, <1>2, ConcatProperties
<1>5. Len(front) + Len(back) = Len(s) - 1
  BY <1>1, <1>2
<1>6. ASSUME NEW k \in 1 .. Len(s) - 1
      PROVE  (front \o back)[k] = IF k < i THEN s[k] ELSE s[k + 1]
  <2>1. CASE k < i
    BY <2>1, <1>1, <1>4, <1>5
  <2>2. CASE k >= i
    <3>1. /\ (front \o back)[k] = back[k - (i - 1)]
          /\ k - (i - 1) \in 1 .. Len(s) - i
      BY <2>2, <1>1, <1>4, <1>5
    <3>2. back[k - (i - 1)] = s[i + (k - (i - 1))]
      BY <3>1, <1>2
    <3>3. /\ i + (k - (i - 1)) = k + 1
          /\ ~(k < i)
      BY <2>2
    <3>4. (front \o back)[k] = s[k + 1]
      BY <3>1, <3>2, <3>3
    <3>5. QED
      BY <3>3, <3>4
  <2>3. k < i \/ k >= i
    <3>1. k \in Int /\ i \in Int
      OBVIOUS
    <3>2. QED
      BY <3>1
  <2>4. QED
    BY <2>1, <2>2, <2>3, Zenon
<1>7. QED
  BY <1>3, <1>4, <1>5, <1>6

\* The part of the type invariant that is about the queue.
QueueType ==
    /\ queue \in [Priorities -> Seq(Items)]
    /\ node_map \in [Subs -> Priorities \cup {NoNode}]

\* Dropping a node together with its entry keeps the queue and node_map in
\* agreement, and removes exactly one submission from it.
LEMMA DropNodeKeepsAgreement ==
    ASSUME QueueType, QueueMatchesNodeMap,
           NEW p \in Priorities, NEW i \in 1 .. Len(queue[p]), DropNode(p, i)
    PROVE  /\ QueueType'
           /\ QueueMatchesNodeMap'
           /\ queue[p][i].id \in Subs
           /\ node_map' = [node_map EXCEPT ![queue[p][i].id] = NoNode]
<1> DEFINE id == queue[p][i].id
<1>1. queue[p] \in Seq(Items) /\ queue[p][i] \in Items /\ id \in Subs
  <2>1. queue[p] \in Seq(Items)
    BY DEF QueueType
  <2>2. queue[p][i] \in Items
    BY <2>1, ElementOfSeq
  <2>3. QED
    BY <2>1, <2>2 DEF Items
<1>2. /\ queue' = [queue EXCEPT ![p] = RemoveAt(queue[p], i)]
      /\ node_map' = [node_map EXCEPT ![id] = NoNode]
  BY DEF DropNode
<1>3. /\ RemoveAt(queue[p], i) \in Seq(Items)
      /\ Len(RemoveAt(queue[p], i)) = Len(queue[p]) - 1
      /\ \A k \in 1 .. Len(queue[p]) - 1 :
            RemoveAt(queue[p], i)[k] =
               IF k < i THEN queue[p][k] ELSE queue[p][k + 1]
  BY <1>1, RemoveAtProperties
<1>4. QueueType'
  BY <1>1, <1>2, <1>3 DEF QueueType
<1> DEFINE from(k) == IF k < i THEN k ELSE k + 1
<1>5. \A k \in 1 .. Len(queue'[p]) :
         /\ from(k) \in 1 .. Len(queue[p])
         /\ from(k) # i
         /\ queue'[p][k] = queue[p][from(k)]
  <2>1. queue'[p] = RemoveAt(queue[p], i) /\ Len(queue[p]) \in Nat
    BY <1>1, <1>2 DEF QueueType
  <2>2. QED
    BY <1>3, <2>1
<1>6. \A q \in Priorities \ {p} : queue'[q] = queue[q]
  BY <1>2 DEF QueueType
<1>7. node_map[id] = p
  BY DEF QueueMatchesNodeMap
<1>8. \A s \in Subs : node_map'[s] = IF s = id THEN NoNode ELSE node_map[s]
  BY <1>2 DEF QueueType
<1>9. \A q \in Priorities : \A k \in 1 .. Len(queue'[q]) :
         node_map'[queue'[q][k].id] = q
  <2> TAKE q \in Priorities
  <2> TAKE k \in 1 .. Len(queue'[q])
  <2>1. CASE q = p
    <3>1. /\ queue'[p][k].id = queue[p][from(k)].id
          /\ from(k) \in 1 .. Len(queue[p]) /\ from(k) # i
      BY <2>1, <1>5
    <3>2. queue[p][from(k)].id # id
      BY <3>1 DEF QueueMatchesNodeMap
    <3>3. queue[p][from(k)].id \in Subs /\ node_map[queue[p][from(k)].id] = p
      <4>1. queue[p][from(k)] \in Items
        BY <3>1, <1>1, ElementOfSeq
      <4>2. QED
        BY <3>1, <4>1 DEF QueueMatchesNodeMap, Items
    <3>4. QED
      BY <2>1, <3>1, <3>2, <3>3, <1>8
  <2>2. CASE q # p
    <3>1. queue'[q] = queue[q] /\ queue[q][k] \in Items
      BY <2>2, <1>6 DEF QueueType
    <3>2. node_map[queue[q][k].id] = q /\ queue[q][k].id \in Subs
      BY <3>1 DEF QueueMatchesNodeMap, Items
    <3>3. QED
      BY <2>2, <3>1, <3>2, <1>7, <1>8
  <2>3. QED
    BY <2>1, <2>2
<1>10. \A q \in Priorities : \A k, l \in 1 .. Len(queue'[q]) :
          queue'[q][k].id = queue'[q][l].id => k = l
  <2> TAKE q \in Priorities
  <2> TAKE k, l \in 1 .. Len(queue'[q])
  <2> HAVE queue'[q][k].id = queue'[q][l].id
  <2>1. CASE q = p
    <3>1. from(k) = from(l)
      <4>1. /\ from(k) \in 1 .. Len(queue[p]) /\ from(l) \in 1 .. Len(queue[p])
            /\ queue[p][from(k)].id = queue[p][from(l)].id
        BY <2>1, <1>5
      <4> HIDE DEF from
      <4>2. QED
        BY <4>1 DEF QueueMatchesNodeMap
    <3>2. k \in Int /\ l \in Int
      OBVIOUS
    <3>3. QED
      BY <3>1, <3>2
  <2>2. CASE q # p
    BY <2>2, <1>6 DEF QueueMatchesNodeMap
  <2>3. QED
    BY <2>1, <2>2
<1>11. \A s \in Subs : node_map'[s] # NoNode =>
          \E k \in 1 .. Len(queue'[node_map'[s]]) :
             queue'[node_map'[s]][k].id = s
  <2> TAKE s \in Subs
  <2> HAVE node_map'[s] # NoNode
  <2>1. s # id /\ node_map'[s] = node_map[s] /\ node_map[s] # NoNode
    BY <1>8
  <2>2. PICK l \in 1 .. Len(queue[node_map[s]]) : queue[node_map[s]][l].id = s
    BY <2>1 DEF QueueMatchesNodeMap
  <2>3. CASE node_map[s] = p
    <3>1. l # i /\ l \in 1 .. Len(queue[p]) /\ queue[p][l].id = s
      BY <2>1, <2>2, <2>3
    <3> DEFINE k == IF l < i THEN l ELSE l - 1
    <3>2. queue'[p] = RemoveAt(queue[p], i) /\ Len(queue[p]) \in Nat
      BY <1>1, <1>2 DEF QueueType
    <3>3. k \in 1 .. Len(queue'[p]) /\ from(k) = l
      BY <3>1, <3>2, <1>3
    <3>4. queue'[p][k].id = s
      BY <3>1, <3>3, <1>5
    <3>5. QED
      BY <2>1, <2>3, <3>3, <3>4
  <2>4. CASE node_map[s] # p
    <3>1. queue'[node_map[s]] = queue[node_map[s]]
      BY <2>1, <2>4, <1>6 DEF QueueType
    <3>2. QED
      BY <2>1, <2>2, <3>1
  <2>5. QED
    BY <2>3, <2>4
<1>12. QueueMatchesNodeMap'
  BY <1>9, <1>10, <1>11 DEF QueueMatchesNodeMap
<1>13. QED
  BY <1>1, <1>2, <1>4, <1>12

\* Appending the node of a submission that is not queued, together with its entry,
\* keeps the two in agreement.
LEMMA AppendNodeKeepsAgreement ==
    ASSUME QueueType, QueueMatchesNodeMap,
           NEW p \in Priorities, NEW item \in Items, node_map[item.id] = NoNode,
           queue' = [queue EXCEPT ![p] = Append(@, item)],
           node_map' = [node_map EXCEPT ![item.id] = p]
    PROVE  QueueType' /\ QueueMatchesNodeMap'
<1>1. item.id \in Subs /\ queue[p] \in Seq(Items)
  BY DEF Items, QueueType
<1>2. /\ Append(queue[p], item) \in Seq(Items)
      /\ Len(Append(queue[p], item)) = Len(queue[p]) + 1
      /\ \A k \in 1 .. Len(queue[p]) : Append(queue[p], item)[k] = queue[p][k]
      /\ Append(queue[p], item)[Len(queue[p]) + 1] = item
  BY <1>1, AppendProperties
<1>3. queue'[p] = Append(queue[p], item) /\ Len(queue[p]) \in Nat
  BY <1>1 DEF QueueType
<1>4. QueueType'
  BY <1>1, <1>2 DEF QueueType
<1>5. \A q \in Priorities \ {p} : queue'[q] = queue[q]
  BY DEF QueueType
<1>6. \A s \in Subs : node_map'[s] = IF s = item.id THEN p ELSE node_map[s]
  BY DEF QueueType
<1>7. \A q \in Priorities : \A k \in 1 .. Len(queue[q]) :
         queue[q][k].id \in Subs /\ queue[q][k].id # item.id
  <2> TAKE q \in Priorities
  <2> TAKE k \in 1 .. Len(queue[q])
  <2>1. queue[q] \in Seq(Items)
    BY DEF QueueType
  <2>2. queue[q][k] \in Items
    BY <2>1, ElementOfSeq
  <2>3. node_map[queue[q][k].id] = q /\ q # NoNode
    BY NonesAssumption DEF QueueMatchesNodeMap
  <2>4. QED
    BY <2>2, <2>3 DEF Items
<1>8. \A k \in 1 .. Len(queue'[p]) :
         \/ k \in 1 .. Len(queue[p]) /\ queue'[p][k] = queue[p][k]
         \/ k = Len(queue[p]) + 1 /\ queue'[p][k] = item
  BY <1>2, <1>3
<1>9. \A q \in Priorities : \A k \in 1 .. Len(queue'[q]) :
         node_map'[queue'[q][k].id] = q
  <2> TAKE q \in Priorities
  <2> TAKE k \in 1 .. Len(queue'[q])
  <2>1. CASE q = p
    BY <2>1, <1>1, <1>6, <1>7, <1>8 DEF QueueMatchesNodeMap
  <2>2. CASE q # p
    BY <2>2, <1>5, <1>6, <1>7 DEF QueueMatchesNodeMap
  <2>3. QED
    BY <2>1, <2>2
<1>10. \A q \in Priorities : \A k, l \in 1 .. Len(queue'[q]) :
          queue'[q][k].id = queue'[q][l].id => k = l
  <2> TAKE q \in Priorities
  <2> TAKE k, l \in 1 .. Len(queue'[q])
  <2>1. CASE q = p
    BY <2>1, <1>7, <1>8 DEF QueueMatchesNodeMap
  <2>2. CASE q # p
    BY <2>2, <1>5 DEF QueueMatchesNodeMap
  <2>3. QED
    BY <2>1, <2>2
<1>11. \A s \in Subs : node_map'[s] # NoNode =>
          \E k \in 1 .. Len(queue'[node_map'[s]]) :
             queue'[node_map'[s]][k].id = s
  <2> TAKE s \in Subs
  <2> HAVE node_map'[s] # NoNode
  <2>1. CASE s = item.id
    <3>1. node_map'[s] = p /\ Len(queue[p]) + 1 \in 1 .. Len(queue'[p])
      BY <2>1, <1>2, <1>3, <1>6
    <3>2. queue'[p][Len(queue[p]) + 1].id = s
      BY <2>1, <1>2, <1>3
    <3>3. QED
      BY <3>1, <3>2
  <2>2. CASE s # item.id
    <3>1. node_map'[s] = node_map[s] /\ node_map[s] # NoNode
      BY <2>2, <1>6
    <3>2. PICK l \in 1 .. Len(queue[node_map[s]]) : queue[node_map[s]][l].id = s
      BY <3>1 DEF QueueMatchesNodeMap
    <3>3. CASE node_map[s] = p
      <4>1. l \in 1 .. Len(queue'[p]) /\ queue'[p][l] = queue[p][l]
        BY <3>2, <3>3, <1>2, <1>3
      <4>2. QED
        BY <3>1, <3>2, <3>3, <4>1
    <3>4. CASE node_map[s] # p
      <4>1. queue'[node_map[s]] = queue[node_map[s]]
        BY <3>1, <3>4, <1>5 DEF QueueType
      <4>2. QED
        BY <3>1, <3>2, <4>1
    <3>5. QED
      BY <3>3, <3>4
  <2>3. QED
    BY <2>1, <2>2
<1>12. QED
  BY <1>4, <1>9, <1>10, <1>11 DEF QueueMatchesNodeMap

-----------------------------------------------------------------------------
(* The walk over the queue.                                                *)

\* What _handle_free_judge does to the scheduler, whatever submit() does: it only
\* takes judges out of the pool, keeps the types and the agreement of the queue
\* with node_map, files entries under j only, and leaves no queued submission
\* filed under a judge of the pool.
LEMMA HandleFreeJudgeIsSafe ==
    ASSUME TypeOK, QueueMatchesNodeMap,
           NEW j \in Judges, NEW js \in SUBSET Judges,
           NEW wk \in [Judges -> Subs \cup {NoSub}],
           NEW sm \in [Subs -> Judges \cup {NoJudge}],
           NEW sn \in [Judges -> SUBSET Subs],
           \A s \in Subs : node_map[s] # NoNode => sm[s] \notin js,
           HandleFreeJudge(j, js, wk, sm, sn)
    PROVE  /\ judges' \subseteq js
           /\ QueueType' /\ QueueMatchesNodeMap'
           /\ submission_map' \in [Subs -> Judges \cup {NoJudge}]
           /\ working' \in [Judges -> Subs \cup {NoSub}]
           /\ sent' \in [Judges -> SUBSET Subs]
           /\ failed' \subseteq Judges
           /\ \A s \in Subs : node_map'[s] # NoNode =>
                                 submission_map'[s] \notin judges'
           /\ \A s \in Subs : submission_map'[s] \in {sm[s], j}
<1>1. QueueType
  BY DEF TypeOK, QueueType
<1>2. CASE \E p \in Priorities : \E i \in 1 .. Len(queue[p]) :
              DispatchNode(j, p, i, js, wk, sm, sn)
  <2>0. PICK p \in Priorities : \E i \in 1 .. Len(queue[p]) :
           DispatchNode(j, p, i, js, wk, sm, sn)
    BY <1>2
  <2>1. PICK i \in 1 .. Len(queue[p]) : DispatchNode(j, p, i, js, wk, sm, sn)
    BY <2>0
  <2> DEFINE id == queue[p][i].id
  <2>2. id \in Subs
    <3>1. queue[p] \in Seq(Items)
      BY <1>1 DEF QueueType
    <3>2. queue[p][i] \in Items
      BY <3>1, ElementOfSeq
    <3>3. QED
      BY <3>2 DEF Items
  <2>3. submission_map' = [sm EXCEPT ![id] = j]
    BY <2>1 DEF DispatchNode
  <2>4. CASE SubmitOk(j, id, wk, sn) /\ judges' = js /\ DropNode(p, i)
    <3>1. /\ QueueType' /\ QueueMatchesNodeMap'
          /\ node_map' = [node_map EXCEPT ![id] = NoNode]
      BY <2>4, <1>1, DropNodeKeepsAgreement
    <3>2. /\ working' = [wk EXCEPT ![j] = id]
          /\ sent' = [sn EXCEPT ![j] = sn[j] \cup {id}]
          /\ failed' = failed
      BY <2>4 DEF SubmitOk
    <3>3. \A s \in Subs : node_map'[s] # NoNode => node_map[s] # NoNode /\ s # id
      BY <3>1, <1>1 DEF QueueType
    <3>4. QED
      BY <2>2, <2>3, <2>4, <3>1, <3>2, <3>3 DEF TypeOK
  <2>5. CASE /\ SubmitFails(j, id, wk, sn) /\ judges' = js \ {j}
             /\ UNCHANGED <<queue, node_map>>
    <3>1. /\ working' \in {wk, [wk EXCEPT ![j] = id]}
          /\ sent' = sn
          /\ failed' = failed \cup {j}
      BY <2>5 DEF SubmitFails
    <3>2. QueueType' /\ QueueMatchesNodeMap'
      BY <2>5, <1>1 DEF QueueType, QueueMatchesNodeMap
    <3>3. working' \in [Judges -> Subs \cup {NoSub}]
      BY <2>2, <3>1
    <3>4. QED
      BY <2>2, <2>3, <2>5, <3>1, <3>2, <3>3 DEF TypeOK
  <2>6. QED
    BY <2>1, <2>4, <2>5 DEF DispatchNode
<1>3. CASE /\ judges' = js /\ working' = wk /\ submission_map' = sm
           /\ sent' = sn /\ UNCHANGED <<queue, node_map, failed>>
  BY <1>1, <1>3 DEF QueueType, QueueMatchesNodeMap, TypeOK
<1>4. QED
  BY <1>2, <1>3 DEF HandleFreeJudge

-----------------------------------------------------------------------------
(* The inductive invariant.                                                *)

\* A connection that has not registered is not in the pool, is about to update
\* nothing, and no submission is filed under it: registering adds to the pool a
\* judge that has no history.
FreshIsUnused ==
    \A j \in Judges :
       conn[j] \in {"connected", "authenticated"} =>
          /\ j \notin judges /\ j \notin updating
          /\ \A s \in Subs : submission_map[s] # j

QueueInv ==
    TypeOK /\ QueueMatchesNodeMap /\ QueuedNotDispatched /\ FreshIsUnused

\* The invariant holds when the bridge starts.
LEMMA QueueInvInit ==
    ASSUME Init
    PROVE  QueueInv
<1>1. \A p \in Priorities : queue[p] = <<>> /\ Len(queue[p]) = 0
  BY DEF Init
<1>2. TypeOK
  BY <1>1 DEF Init, TypeOK
<1>3. QueueMatchesNodeMap
  BY <1>1 DEF Init, QueueMatchesNodeMap
<1>4. QueuedNotDispatched /\ FreshIsUnused
  BY NonesAssumption DEF Init, QueuedNotDispatched, FreshIsUnused
<1>5. QED
  BY <1>2, <1>3, <1>4 DEF QueueInv

\* What a step leaves behind when it only walks over the queue for a judge j that
\* has registered, or is doing so.
LEMMA WalkKeepsQueueInv ==
    ASSUME QueueInv,
           NEW j \in Judges, NEW js \in SUBSET Judges,
           NEW wk \in [Judges -> Subs \cup {NoSub}],
           NEW sm \in [Subs -> Judges \cup {NoJudge}],
           NEW sn \in [Judges -> SUBSET Subs],
           HandleFreeJudge(j, js, wk, sm, sn),
           js \subseteq judges \cup {j},
           \A s \in Subs : sm[s] \in {submission_map[s], NoJudge},
           j \in js \ judges => \A s \in Subs : submission_map[s] # j,
           /\ conn' \in [Judges -> {"connected", "authenticated", "registered",
                                    "up", "gone"}]
           /\ is_disabled' \in [Judges -> BOOLEAN]
           /\ problems' \in [Judges -> SUBSET Kinds]
           /\ closed' \subseteq Judges /\ updating' \subseteq updating
           /\ raced' \subseteq Judges /\ reenabled' \subseteq Judges,
           conn'[j] \notin {"connected", "authenticated"},
           \A k \in Judges : conn'[k] \in {"connected", "authenticated"} =>
                                conn'[k] = conn[k]
    PROVE  QueueInv'
<1> USE NonesAssumption DEF QueueInv
<1>1. \A s \in Subs : node_map[s] # NoNode => sm[s] \notin js
  BY DEF QueuedNotDispatched
<1>2. /\ judges' \subseteq js
      /\ QueueType' /\ QueueMatchesNodeMap'
      /\ submission_map' \in [Subs -> Judges \cup {NoJudge}]
      /\ working' \in [Judges -> Subs \cup {NoSub}]
      /\ sent' \in [Judges -> SUBSET Subs]
      /\ failed' \subseteq Judges
      /\ \A s \in Subs : node_map'[s] # NoNode => submission_map'[s] \notin judges'
      /\ \A s \in Subs : submission_map'[s] \in {sm[s], j}
  BY <1>1, HandleFreeJudgeIsSafe
<1>3. TypeOK'
  BY <1>2 DEF TypeOK, QueueType
<1>4. FreshIsUnused'
  BY <1>2 DEF FreshIsUnused
<1>5. QED
  BY <1>2, <1>3, <1>4 DEF QueuedNotDispatched

\* Every step keeps the invariant.
LEMMA QueueInvStep ==
    ASSUME QueueInv, [Next]_vars
    PROVE  QueueInv'
<1> USE NonesAssumption, SetsAssumption DEF QueueInv
<1>1. CASE UNCHANGED vars
  BY <1>1 DEF vars, TypeOK, QueueMatchesNodeMap, QueuedNotDispatched, FreshIsUnused
<1>2. ASSUME NEW j \in Judges, NEW kinds \in Offers, Handshake(j, kinds)
      PROVE  QueueInv'
  <2>1. TypeOK'
    BY <1>2 DEF Handshake, scheduler, history, TypeOK
  <2>2. QED
    BY <1>2, <2>1 DEF Handshake, scheduler, TypeOK, QueueMatchesNodeMap,
                      QueuedNotDispatched, FreshIsUnused
<1>3. ASSUME NEW j \in Judges, Register(j)
      PROVE  QueueInv'
  <2>1. /\ conn[j] = "authenticated"
        /\ conn' = [conn EXCEPT ![j] = "registered"]
        /\ closed' = closed \cup Named(j)
        /\ HandleFreeJudge(j, judges \cup {j}, working, submission_map, sent)
        /\ UNCHANGED <<is_disabled, problems, updating, raced, reenabled>>
    BY <1>3 DEF Register
  <2>2. \A s \in Subs : submission_map[s] # j
    BY <2>1 DEF FreshIsUnused
  <2>3. Named(j) \subseteq Judges
    BY DEF Named, TypeOK
  <2>4. /\ conn' \in [Judges -> {"connected", "authenticated", "registered",
                                 "up", "gone"}]
        /\ \A k \in Judges : conn'[k] = IF k = j THEN "registered" ELSE conn[k]
        /\ closed' \subseteq Judges
        /\ judges \cup {j} \in SUBSET Judges
    BY <2>1, <2>3 DEF TypeOK
  <2>5. /\ submission_map \in [Subs -> Judges \cup {NoJudge}]
        /\ working \in [Judges -> Subs \cup {NoSub}]
        /\ sent \in [Judges -> SUBSET Subs]
        /\ is_disabled' \in [Judges -> BOOLEAN]
        /\ problems' \in [Judges -> SUBSET Kinds]
        /\ updating' \subseteq updating
        /\ raced' \subseteq Judges /\ reenabled' \subseteq Judges
    BY <2>1 DEF TypeOK
  <2>6. /\ conn'[j] \notin {"connected", "authenticated"}
        /\ \A k \in Judges : conn'[k] \in {"connected", "authenticated"} =>
                                conn'[k] = conn[k]
    BY <2>4
  <2>7. /\ judges \cup {j} \subseteq judges \cup {j}
        /\ \A s \in Subs : submission_map[s] \in {submission_map[s], NoJudge}
        /\ j \in (judges \cup {j}) \ judges =>
              \A s \in Subs : submission_map[s] # j
    BY <2>2
  <2> DEFINE js == judges \cup {j}
  <2>8. HandleFreeJudge(j, js, working, submission_map, sent)
    BY <2>1
  <2> HIDE DEF js
  <2>9. QED
    BY <2>4, <2>5, <2>6, <2>7, <2>8, WalkKeepsQueueInv DEF js
<1>4. ASSUME NEW j \in Judges, NEW disabled \in BOOLEAN, Connected(j, disabled)
      PROVE  QueueInv'
  <2>1. TypeOK'
    <3>1. reenabled' \subseteq Judges
      BY <1>4 DEF Connected, TypeOK
    <3>2. is_disabled' \in [Judges -> BOOLEAN]
      BY <1>4 DEF Connected, TypeOK
    <3>3. QED
      BY <1>4, <3>1, <3>2 DEF Connected, scheduler, TypeOK
  <2>2. \A k \in Judges : conn'[k] \in {"connected", "authenticated"} =>
                             conn'[k] = conn[k]
    BY <1>4 DEF Connected, TypeOK
  <2>3. FreshIsUnused'
    BY <1>4, <2>2 DEF Connected, scheduler, FreshIsUnused
  <2>4. QED
    BY <1>4, <2>1, <2>3 DEF Connected, scheduler, QueueMatchesNodeMap,
                            QueuedNotDispatched
<1>5. ASSUME NEW j \in Judges, Disconnect(j)
      PROVE  QueueInv'
  <2> DEFINE sm == IF working[j] = NoSub THEN submission_map
                   ELSE Without(working[j])
             js == judges \ {j}
             sn == [sent EXCEPT ![j] = {}]
  <2>1. /\ sm \in [Subs -> Judges \cup {NoJudge}]
        /\ sn \in [Judges -> SUBSET Subs]
        /\ js \in SUBSET Judges
        /\ \A s \in Subs : sm[s] \in {submission_map[s], NoJudge}
    BY DEF TypeOK, Without
  <2>2. /\ conn' = [conn EXCEPT ![j] = "gone"]
        /\ UNCHANGED <<is_disabled, problems, closed, updating, raced, reenabled>>
        /\ \/ \E k \in js : HandleFreeJudge(k, js, working, sm, sn)
           \/ /\ judges' = js /\ submission_map' = sm /\ sent' = sn
              /\ UNCHANGED <<queue, node_map, working, failed>>
    BY <1>5 DEF Disconnect
  <2>3. /\ conn' \in [Judges -> {"connected", "authenticated", "registered",
                                 "up", "gone"}]
        /\ \A k \in Judges : conn'[k] = IF k = j THEN "gone" ELSE conn[k]
    BY <2>2 DEF TypeOK
  <2>4. ASSUME NEW k \in js, HandleFreeJudge(k, js, working, sm, sn)
        PROVE  QueueInv'
    <3>1. k \in Judges /\ k \in judges
      BY DEF TypeOK
    <3>2. conn'[k] \notin {"connected", "authenticated"}
      BY <2>3, <3>1 DEF FreshIsUnused
    <3> HIDE DEF sm, js, sn
    <3>3. js \subseteq judges
      BY DEF js
    <3>4. QED
      BY <2>1, <2>2, <2>3, <2>4, <3>1, <3>2, <3>3, WalkKeepsQueueInv DEF TypeOK
  <2>5. CASE /\ judges' = js /\ submission_map' = sm /\ sent' = sn
             /\ UNCHANGED <<queue, node_map, working, failed>>
    <3> HIDE DEF sm, sn
    <3>1. TypeOK'
      BY <2>1, <2>2, <2>3, <2>5 DEF TypeOK
    <3>2. QueueMatchesNodeMap'
      BY <2>5 DEF QueueMatchesNodeMap
    <3>3. QueuedNotDispatched'
      BY <2>1, <2>5 DEF QueuedNotDispatched, TypeOK
    <3>4. FreshIsUnused'
      BY <2>1, <2>2, <2>3, <2>5 DEF FreshIsUnused
    <3>5. QED
      BY <3>1, <3>2, <3>3, <3>4
  <2>6. QED
    BY <2>2, <2>4, <2>5
<1>6. ASSUME NEW j \in Judges, NEW kinds \in Offers, SupportedProblems(j, kinds)
      PROVE  QueueInv'
  <2>1. TypeOK'
    BY <1>6 DEF SupportedProblems, scheduler, history, TypeOK
  <2>2. QED
    BY <1>6, <2>1 DEF SupportedProblems, Listening, scheduler, TypeOK,
                      QueueMatchesNodeMap, QueuedNotDispatched, FreshIsUnused
<1>7. ASSUME NEW j \in Judges, UpdateProblems(j)
      PROVE  QueueInv'
  <2>1. /\ j \in updating /\ updating' = updating \ {j}
        /\ HandleFreeJudge(j, judges, working, submission_map, sent)
        /\ raced' = IF working[j] # NoSub THEN raced \cup {j} ELSE raced
        /\ UNCHANGED <<conn, is_disabled, problems, closed, reenabled>>
    BY <1>7 DEF UpdateProblems
  <2>2. conn'[j] \notin {"connected", "authenticated"}
    BY <2>1 DEF FreshIsUnused
  <2>3. QED
    BY <2>1, <2>2, WalkKeepsQueueInv DEF TypeOK
<1>8. ASSUME NEW j \in Judges, NEW s \in Subs, OnJudgeFree(j, s)
      PROVE  QueueInv'
  <2> DEFINE sn == [sent EXCEPT ![j] = sent[j] \ {s}]
             wk == [working EXCEPT ![j] = NoSub]
  <2>1. /\ conn[j] = "up"
        /\ UNCHANGED <<conn, is_disabled, problems, closed, updating, raced,
                       reenabled>>
        /\ \/ HandleFreeJudge(j, judges, wk, Without(s), sn)
           \/ /\ sent' = sn
              /\ UNCHANGED <<scheduler, working, failed>>
    BY <1>8 DEF OnJudgeFree, Listening
  <2>2. /\ sn \in [Judges -> SUBSET Subs]
        /\ wk \in [Judges -> Subs \cup {NoSub}]
        /\ Without(s) \in [Subs -> Judges \cup {NoJudge}]
        /\ \A x \in Subs : Without(s)[x] \in {submission_map[x], NoJudge}
    BY DEF TypeOK, Without
  <2> HIDE DEF sn, wk
  <2>3. CASE HandleFreeJudge(j, judges, wk, Without(s), sn)
    BY <2>1, <2>2, <2>3, WalkKeepsQueueInv DEF TypeOK
  <2>4. CASE sent' = sn /\ UNCHANGED <<scheduler, working, failed>>
    <3>1. TypeOK'
      BY <2>1, <2>2, <2>4 DEF TypeOK, scheduler
    <3>2. QED
      BY <2>1, <2>4, <3>1 DEF scheduler, QueueMatchesNodeMap,
                              QueuedNotDispatched, FreshIsUnused
  <2>5. QED
    BY <2>1, <2>3, <2>4
<1>9. ASSUME NEW r \in Requests, Judge(r)
      PROVE  QueueInv'
  <2>1. /\ r.id \in Subs /\ r.judge_id \in Names \cup {NoName}
        /\ r.priority \in Priorities
    OBVIOUS
  <2>2. UNCHANGED <<conn, is_disabled, problems, closed, updating, raced,
                    reenabled>>
    BY <1>9 DEF Judge
  <2>3. CASE UNCHANGED <<scheduler, working, sent, failed>>
    BY <2>2, <2>3 DEF scheduler, TypeOK, QueueMatchesNodeMap,
                      QueuedNotDispatched, FreshIsUnused
  <2>4. ASSUME ~Known(r.id), NEW j \in Available(r),
               submission_map' = [submission_map EXCEPT ![r.id] = j],
               \/ SubmitOk(j, r.id, working, sent) /\ UNCHANGED judges
               \/ /\ SubmitFails(j, r.id, working, sent)
                  /\ judges' = judges \ {j},
               UNCHANGED <<queue, node_map>>
        PROVE  QueueInv'
    <3>1. j \in judges /\ j \in Judges
      BY DEF Available, Candidates, TypeOK
    <3>2. node_map[r.id] = NoNode
      BY <2>4 DEF Known
    <3>3. /\ working' \in [Judges -> Subs \cup {NoSub}]
          /\ sent' \in [Judges -> SUBSET Subs]
          /\ failed' \subseteq Judges
          /\ judges' \subseteq judges
      <4>1. CASE SubmitOk(j, r.id, working, sent) /\ UNCHANGED judges
        BY <2>1, <3>1, <4>1 DEF SubmitOk, TypeOK
      <4>2. CASE SubmitFails(j, r.id, working, sent) /\ judges' = judges \ {j}
        BY <2>1, <3>1, <4>2 DEF SubmitFails, TypeOK
      <4>3. QED
        BY <2>4, <4>1, <4>2
    <3>4. TypeOK'
      BY <2>1, <2>2, <2>4, <3>1, <3>3 DEF TypeOK
    <3>5. QueueMatchesNodeMap'
      BY <2>4 DEF QueueMatchesNodeMap
    <3>6. QueuedNotDispatched' /\ FreshIsUnused'
      BY <2>1, <2>2, <2>4, <3>1, <3>2, <3>3
         DEF QueuedNotDispatched, FreshIsUnused, TypeOK
    <3>7. QED
      BY <3>4, <3>5, <3>6
  <2>5. CASE /\ ~Known(r.id)
             /\ queue' = [queue EXCEPT ![Section(r)] =
                             Append(@, [id |-> r.id, judge_id |-> r.judge_id])]
             /\ node_map' = [node_map EXCEPT ![r.id] = Section(r)]
             /\ UNCHANGED <<judges, submission_map, working, sent, failed>>
    <3> DEFINE item == [id |-> r.id, judge_id |-> r.judge_id]
    <3>1. item \in Items /\ item.id = r.id
      BY <2>1 DEF Items
    <3>2. Section(r) \in Priorities
      BY <2>1 DEF Section
    <3>3. node_map[r.id] = NoNode /\ submission_map[r.id] = NoJudge
      BY <2>5 DEF Known
    <3>4. QueueType' /\ QueueMatchesNodeMap'
      <4>1. QueueType
        BY DEF TypeOK, QueueType
      <4> HIDE DEF item
      <4>2. /\ queue' = [queue EXCEPT ![Section(r)] = Append(@, item)]
            /\ node_map' = [node_map EXCEPT ![item.id] = Section(r)]
            /\ node_map[item.id] = NoNode
        BY <2>5, <3>1, <3>3 DEF item
      <4>3. QED
        BY <4>1, <4>2, <3>1, <3>2, AppendNodeKeepsAgreement
    <3>5. TypeOK'
      BY <2>2, <2>5, <3>4 DEF TypeOK, QueueType
    <3>6. QueuedNotDispatched' /\ FreshIsUnused'
      BY <2>1, <2>2, <2>5, <3>3 DEF QueuedNotDispatched, FreshIsUnused, TypeOK
    <3>7. QED
      BY <3>4, <3>5, <3>6
  <2>6. QED
    BY <1>9, <2>3, <2>4, <2>5 DEF Judge
<1>10. ASSUME NEW s \in Subs, Abort(s)
       PROVE  QueueInv'
  <2>1. UNCHANGED <<conn, judges, submission_map, working, is_disabled, problems,
                    closed, updating, sent, history>>
    BY <1>10 DEF Abort
  <2>2. CASE UNCHANGED <<queue, node_map>>
    BY <2>1, <2>2 DEF history, TypeOK, QueueMatchesNodeMap, QueuedNotDispatched,
                      FreshIsUnused
  <2>3. ASSUME node_map[s] # NoNode,
               NEW i \in 1 .. Len(queue[node_map[s]]), DropNode(node_map[s], i)
        PROVE  QueueInv'
    <3>1. node_map[s] \in Priorities /\ QueueType
      BY <2>3 DEF TypeOK, QueueType
    <3>2. /\ QueueType' /\ QueueMatchesNodeMap'
          /\ queue[node_map[s]][i].id \in Subs
          /\ node_map' = [node_map EXCEPT ![queue[node_map[s]][i].id] = NoNode]
      BY <2>3, <3>1, DropNodeKeepsAgreement
    <3>3. TypeOK'
      BY <2>1, <3>2 DEF history, TypeOK, QueueType
    <3>4. QueuedNotDispatched' /\ FreshIsUnused'
      BY <2>1, <3>1, <3>2 DEF QueuedNotDispatched, FreshIsUnused, QueueType
    <3>5. QED
      BY <3>2, <3>3, <3>4
  <2>4. QED
    BY <1>10, <2>2, <2>3 DEF Abort
<1>11. ASSUME NEW n \in Managed, ForceDisconnect(n)
       PROVE  QueueInv'
  <2>1. Named(n) \subseteq Judges
    BY DEF Named, TypeOK
  <2>2. TypeOK'
    BY <1>11, <2>1 DEF ForceDisconnect, scheduler, history, TypeOK
  <2>3. QED
    BY <1>11, <2>2 DEF ForceDisconnect, scheduler, QueueMatchesNodeMap,
                       QueuedNotDispatched, FreshIsUnused
<1>12. ASSUME NEW n \in Managed, NEW disabled \in BOOLEAN,
              UpdateDisableJudge(n, disabled)
       PROVE  QueueInv'
  <2>1. TypeOK'
    BY <1>12 DEF UpdateDisableJudge, scheduler, TypeOK, Named
  <2>2. QED
    BY <1>12, <2>1 DEF UpdateDisableJudge, scheduler, QueueMatchesNodeMap,
                       QueuedNotDispatched, FreshIsUnused
<1>13. QED
  BY <1>1, <1>2, <1>3, <1>4, <1>5, <1>6, <1>7, <1>8, <1>9, <1>10, <1>11, <1>12
     DEF Next

-----------------------------------------------------------------------------
(* While nothing has failed and no problem update has overtaken a dispatch. *)

\* The relation between submissions and judges that InFlightExact describes, for
\* given connections, pool, _working, submission map, requests and node_map.
Exact(cn, js, wk, sm, sn, nm) ==
    /\ \A j \in Judges, s \in Subs : sm[s] = j <=> wk[j] = s /\ cn[j] # "gone"
    /\ \A j \in Judges : sn[j] = {s \in Subs : sm[s] = j}
    /\ \A s \in Subs : sm[s] \in js \cup {NoJudge}
    /\ \A s \in Subs : nm[s] # NoNode => sm[s] = NoJudge

\* The pool is the set of connections that have registered and not gone; before
\* that a judge works on nothing, and only a judge that is up updates problems.
PoolExact ==
    Undisturbed =>
      \A j \in Judges :
         /\ j \in judges <=> conn[j] \in {"registered", "up"}
         /\ conn[j] \in {"connected", "authenticated"} => working[j] = NoSub
         /\ j \in updating => conn[j] = "up"

FlightInv == QueueInv /\ InFlightExact /\ PoolExact

\* Walking over the queue for a free judge of the pool keeps the relation exact,
\* unless submit() raises.
LEMMA WalkKeepsExact ==
    ASSUME TypeOK, QueueMatchesNodeMap,
           NEW j \in Judges, NEW js \in SUBSET Judges, NEW cn,
           NEW wk \in [Judges -> Subs \cup {NoSub}],
           NEW sm \in [Subs -> Judges \cup {NoJudge}],
           NEW sn \in [Judges -> SUBSET Subs],
           j \in js, wk[j] = NoSub, cn[j] # "gone",
           Exact(cn, js, wk, sm, sn, node_map),
           HandleFreeJudge(j, js, wk, sm, sn), failed' = {}
    PROVE  /\ Exact(cn, js, working', submission_map', sent', node_map')
           /\ judges' = js
           /\ \A k \in Judges \ {j} : working'[k] = wk[k]
<1> USE NonesAssumption
<1>1. CASE \E p \in Priorities : \E i \in 1 .. Len(queue[p]) :
              DispatchNode(j, p, i, js, wk, sm, sn)
  <2>1. PICK p \in Priorities : \E i \in 1 .. Len(queue[p]) :
           DispatchNode(j, p, i, js, wk, sm, sn)
    BY <1>1
  <2>2. PICK i \in 1 .. Len(queue[p]) : DispatchNode(j, p, i, js, wk, sm, sn)
    BY <2>1
  <2> DEFINE id == queue[p][i].id
  <2>3. id \in Subs
    <3>1. queue[p] \in Seq(Items)
      BY DEF TypeOK
    <3>2. queue[p][i] \in Items
      BY <3>1, ElementOfSeq
    <3>3. QED
      BY <3>2 DEF Items
  <2>4. ~SubmitFails(j, id, wk, sn)
    BY DEF SubmitFails
  <2>5. /\ submission_map' = [sm EXCEPT ![id] = j]
        /\ SubmitOk(j, id, wk, sn) /\ judges' = js /\ DropNode(p, i)
    BY <2>2, <2>4 DEF DispatchNode
  <2>6. /\ working' = [wk EXCEPT ![j] = id]
        /\ sent' = [sn EXCEPT ![j] = sn[j] \cup {id}]
        /\ node_map' = [node_map EXCEPT ![id] = NoNode]
    BY <2>5 DEF SubmitOk, DropNode
  <2>7. /\ \A s \in Subs : sm[s] # j
        /\ sn[j] = {}
    BY <2>3 DEF Exact
  <2> HIDE DEF id
  <2>8. sm[id] = NoJudge
    <3>1. node_map[id] = p /\ p # NoNode
      BY <2>2 DEF QueueMatchesNodeMap, id
    <3>2. QED
      BY <2>3, <3>1 DEF Exact
  <2>9. \A k \in Judges, s \in Subs :
           submission_map'[s] = k <=> working'[k] = s /\ cn[k] # "gone"
    <3> TAKE k \in Judges, s \in Subs
    <3>1. sm[s] = k <=> wk[k] = s /\ cn[k] # "gone"
      BY DEF Exact
    <3>2. submission_map'[s] = IF s = id THEN j ELSE sm[s]
      BY <2>5
    <3>3. working'[k] = IF k = j THEN id ELSE wk[k]
      BY <2>6
    <3>4. CASE k = j
      BY <3>1, <3>2, <3>3, <3>4, <2>7
    <3>5. CASE k # j
      BY <3>1, <3>2, <3>3, <3>5, <2>8
    <3>6. QED
      BY <3>4, <3>5
  <2>10. \A k \in Judges : sent'[k] = {s \in Subs : submission_map'[s] = k}
    <3> TAKE k \in Judges
    <3>1. sn[k] = {s \in Subs : sm[s] = k}
      BY DEF Exact
    <3>2. \A s \in Subs : submission_map'[s] = IF s = id THEN j ELSE sm[s]
      BY <2>5
    <3>3. sent'[k] = IF k = j THEN {id} ELSE sn[k]
      BY <2>6, <2>7
    <3>4. CASE k = j
      BY <3>2, <3>3, <3>4, <2>3, <2>7
    <3>5. CASE k # j
      BY <3>1, <3>2, <3>3, <3>5, <2>8
    <3>6. QED
      BY <3>4, <3>5
  <2>11. /\ \A s \in Subs : submission_map'[s] \in js \cup {NoJudge}
         /\ \A s \in Subs : node_map'[s] # NoNode => submission_map'[s] = NoJudge
    BY <2>3, <2>5, <2>6 DEF Exact, TypeOK
  <2>12. QED
    BY <2>5, <2>6, <2>9, <2>10, <2>11 DEF Exact
<1>2. CASE /\ judges' = js /\ working' = wk /\ submission_map' = sm
           /\ sent' = sn /\ UNCHANGED <<queue, node_map, failed>>
  BY <1>2 DEF Exact
<1>3. QED
  BY <1>1, <1>2 DEF HandleFreeJudge

\* The history of failed dispatches only grows.
LEMMA WalkKeepsFailures ==
    ASSUME NEW j, NEW js, NEW wk, NEW sm, NEW sn, HandleFreeJudge(j, js, wk, sm, sn)
    PROVE  failed \subseteq failed'
<1>1. ASSUME NEW p, NEW i, DispatchNode(j, p, i, js, wk, sm, sn)
      PROVE  failed \subseteq failed'
  BY <1>1 DEF DispatchNode, SubmitOk, SubmitFails
<1>2. QED
  BY <1>1 DEF HandleFreeJudge

LEMMA HistoryGrows ==
    ASSUME [Next]_vars, Undisturbed'
    PROVE  Undisturbed
<1> USE DEF Undisturbed
<1>1. CASE UNCHANGED vars
  BY <1>1 DEF vars
<1>2. ASSUME NEW j \in Judges, NEW kinds \in Offers,
             Handshake(j, kinds) \/ SupportedProblems(j, kinds)
      PROVE  Undisturbed
  BY <1>2 DEF Handshake, SupportedProblems, history
<1>3. ASSUME NEW j \in Judges, Register(j)
      PROVE  Undisturbed
  BY <1>3, WalkKeepsFailures DEF Register
<1>4. ASSUME NEW j \in Judges, NEW disabled \in BOOLEAN, Connected(j, disabled)
      PROVE  Undisturbed
  BY <1>4 DEF Connected
<1>5. ASSUME NEW j \in Judges, Disconnect(j)
      PROVE  Undisturbed
  BY <1>5, WalkKeepsFailures DEF Disconnect
<1>6. ASSUME NEW j \in Judges, UpdateProblems(j)
      PROVE  Undisturbed
  BY <1>6, WalkKeepsFailures DEF UpdateProblems
<1>7. ASSUME NEW j \in Judges, NEW s \in Subs, OnJudgeFree(j, s)
      PROVE  Undisturbed
  BY <1>7, WalkKeepsFailures DEF OnJudgeFree
<1>8. ASSUME NEW r \in Requests, Judge(r)
      PROVE  Undisturbed
  BY <1>8 DEF Judge, SubmitOk, SubmitFails
<1>9. ASSUME NEW s \in Subs, Abort(s)
      PROVE  Undisturbed
  BY <1>9 DEF Abort, history
<1>10. ASSUME NEW n \in Managed, ForceDisconnect(n)
       PROVE  Undisturbed
  BY <1>10 DEF ForceDisconnect, history
<1>11. ASSUME NEW n \in Managed, NEW disabled \in BOOLEAN,
              UpdateDisableJudge(n, disabled)
       PROVE  Undisturbed
  BY <1>11 DEF UpdateDisableJudge
<1>12. QED
  BY <1>1, <1>2, <1>3, <1>4, <1>5, <1>6, <1>7, <1>8, <1>9, <1>10, <1>11 DEF Next

\* The two facts of FlightInv, without their hypothesis.
Pool(cn, js, wk, up) ==
    \A j \in Judges :
       /\ j \in js <=> cn[j] \in {"registered", "up"}
       /\ cn[j] \in {"connected", "authenticated"} => wk[j] = NoSub
       /\ j \in up => cn[j] = "up"

Flight ==
    /\ Exact(conn, judges, working, submission_map, sent, node_map)
    /\ Pool(conn, judges, working, updating)

LEMMA FlightInvSplits == FlightInv <=> QueueInv /\ (Undisturbed => Flight)
BY DEF FlightInv, InFlightExact, PoolExact, Flight, Exact, Pool

\* A walk for a free judge of the pool, after changes that keep the relation
\* exact, keeps Flight.
LEMMA WalkKeepsFlight ==
    ASSUME TypeOK, QueueMatchesNodeMap, Undisturbed',
           NEW j \in Judges, NEW js \in SUBSET Judges,
           NEW wk \in [Judges -> Subs \cup {NoSub}],
           NEW sm \in [Subs -> Judges \cup {NoJudge}],
           NEW sn \in [Judges -> SUBSET Subs],
           j \in js, wk[j] = NoSub,
           Exact(conn', js, wk, sm, sn, node_map),
           Pool(conn', js, wk, updating'),
           HandleFreeJudge(j, js, wk, sm, sn)
    PROVE  Flight'
<1>1. conn'[j] \in {"registered", "up"}
  BY DEF Pool
<1>2. conn'[j] # "gone" /\ failed' = {}
  BY <1>1 DEF Undisturbed
<1>3. /\ Exact(conn', js, working', submission_map', sent', node_map')
      /\ judges' = js
      /\ \A k \in Judges \ {j} : working'[k] = wk[k]
  BY <1>2, WalkKeepsExact
<1>4. Pool(conn', js, working', updating')
  BY <1>1, <1>3 DEF Pool
<1>5. QED
  BY <1>3, <1>4 DEF Flight

\* Every step keeps the relation exact, as long as nothing has failed.
LEMMA FlightStep ==
    ASSUME QueueInv, Flight, Undisturbed, Undisturbed', [Next]_vars
    PROVE  Flight'
<1> USE NonesAssumption, SetsAssumption
<1>1. TypeOK /\ QueueMatchesNodeMap
  BY DEF QueueInv
<1>2. CASE UNCHANGED vars
  BY <1>2 DEF vars, Flight, Exact, Pool
<1>3. ASSUME NEW j \in Judges, NEW kinds \in Offers, Handshake(j, kinds)
      PROVE  Flight'
  <2>1. /\ conn[j] = "connected" /\ conn' = [conn EXCEPT ![j] = "authenticated"]
        /\ UNCHANGED <<scheduler, working, updating, sent>>
    BY <1>3 DEF Handshake
  <2>2. \A k \in Judges : conn'[k] = IF k = j THEN "authenticated" ELSE conn[k]
    BY <2>1, <1>1 DEF TypeOK
  <2>3. Exact(conn', judges', working', submission_map', sent', node_map')
    BY <2>1, <2>2 DEF Flight, Exact, scheduler
  <2>4. Pool(conn', judges', working', updating')
    BY <2>1, <2>2 DEF Flight, Pool, scheduler
  <2>5. QED
    BY <2>3, <2>4 DEF Flight
<1>4. ASSUME NEW j \in Judges, Register(j)
      PROVE  Flight'
  <2> DEFINE js == judges \cup {j}
  <2>1. /\ conn[j] = "authenticated" /\ conn' = [conn EXCEPT ![j] = "registered"]
        /\ HandleFreeJudge(j, js, working, submission_map, sent)
        /\ UNCHANGED updating
    BY <1>4 DEF Register
  <2>2. \A k \in Judges : conn'[k] = IF k = j THEN "registered" ELSE conn[k]
    BY <2>1, <1>1 DEF TypeOK
  <2>3. working[j] = NoSub /\ js \in SUBSET Judges /\ j \in js
    BY <2>1, <1>1 DEF Flight, Pool, TypeOK
  <2>4. Exact(conn', js, working, submission_map, sent, node_map)
    BY <2>1, <2>2 DEF Flight, Exact
  <2>5. Pool(conn', js, working, updating')
    BY <2>1, <2>2, <2>3 DEF Flight, Pool
  <2> HIDE DEF js
  <2>6. QED
    BY <1>1, <2>1, <2>3, <2>4, <2>5, WalkKeepsFlight DEF TypeOK
<1>5. ASSUME NEW j \in Judges, NEW disabled \in BOOLEAN, Connected(j, disabled)
      PROVE  Flight'
  <2>1. /\ conn[j] = "registered" /\ conn' = [conn EXCEPT ![j] = "up"]
        /\ UNCHANGED <<scheduler, working, updating, sent>>
    BY <1>5 DEF Connected
  <2>2. \A k \in Judges : conn'[k] = IF k = j THEN "up" ELSE conn[k]
    BY <2>1, <1>1 DEF TypeOK
  <2>3. Exact(conn', judges', working', submission_map', sent', node_map')
    BY <2>1, <2>2 DEF Flight, Exact, scheduler
  <2>4. Pool(conn', judges', working', updating')
    BY <2>1, <2>2 DEF Flight, Pool, scheduler
  <2>5. QED
    BY <2>3, <2>4 DEF Flight
<1>6. ASSUME NEW j \in Judges, Disconnect(j)
      PROVE  Flight'
  <2> DEFINE sm == IF working[j] = NoSub THEN submission_map
                   ELSE Without(working[j])
             js == judges \ {j}
             sn == [sent EXCEPT ![j] = {}]
  <2>1. /\ conn[j] \in {"connected", "authenticated", "up"} /\ j \notin updating
        /\ conn' = [conn EXCEPT ![j] = "gone"] /\ updating' = updating
        /\ \/ \E k \in js : /\ working[k] = NoSub
                            /\ HandleFreeJudge(k, js, working, sm, sn)
           \/ /\ judges' = js /\ submission_map' = sm /\ sent' = sn
              /\ UNCHANGED <<queue, node_map, working, failed>>
    BY <1>6 DEF Disconnect, Listening, QueueInv, FreshIsUnused
  <2>2. \A k \in Judges : conn'[k] = IF k = j THEN "gone" ELSE conn[k]
    BY <2>1, <1>1 DEF TypeOK
  <2>3. /\ sm \in [Subs -> Judges \cup {NoJudge}]
        /\ sn \in [Judges -> SUBSET Subs]
        /\ js \in SUBSET Judges
    BY <1>1 DEF TypeOK, Without
  <2>4. \A s \in Subs : sm[s] = IF submission_map[s] = j THEN NoJudge
                                ELSE submission_map[s]
    <3> TAKE s \in Subs
    <3>1. submission_map[s] = j <=> working[j] = s
      BY <2>1 DEF Flight, Exact
    <3>2. sm[s] = IF working[j] = s THEN NoJudge ELSE submission_map[s]
      BY <1>1 DEF TypeOK, Without
    <3>3. QED
      BY <3>1, <3>2
  <2>5. \A k \in Judges : sn[k] = IF k = j THEN {} ELSE sent[k]
    BY <1>1 DEF TypeOK
  <2> HIDE DEF sm, sn
  <2>6. Exact(conn', js, working, sm, sn, node_map)
    <3>1. \A k \in Judges, s \in Subs :
             sm[s] = k <=> working[k] = s /\ conn'[k] # "gone"
      BY <2>2, <2>4 DEF Flight, Exact
    <3>2. \A k \in Judges : sn[k] = {s \in Subs : sm[s] = k}
      BY <2>4, <2>5 DEF Flight, Exact
    <3>3. /\ \A s \in Subs : sm[s] \in js \cup {NoJudge}
          /\ \A s \in Subs : node_map[s] # NoNode => sm[s] = NoJudge
      BY <2>4 DEF Flight, Exact
    <3>4. QED
      BY <3>1, <3>2, <3>3 DEF Exact
  <2>7. Pool(conn', js, working, updating')
    BY <2>1, <2>2 DEF Flight, Pool
  <2>8. ASSUME NEW k \in js, working[k] = NoSub,
               HandleFreeJudge(k, js, working, sm, sn)
        PROVE  Flight'
    <3>1. k \in Judges
      BY <2>3
    <3> HIDE DEF js
    <3>2. QED
      BY <1>1, <2>3, <2>6, <2>7, <2>8, <3>1, WalkKeepsFlight DEF TypeOK
  <2>9. CASE /\ judges' = js /\ submission_map' = sm /\ sent' = sn
             /\ UNCHANGED <<queue, node_map, working, failed>>
    BY <2>6, <2>7, <2>9 DEF Flight
  <2>10. QED
    BY <2>1, <2>8, <2>9
<1>7. ASSUME NEW j \in Judges, NEW kinds \in Offers, SupportedProblems(j, kinds)
      PROVE  Flight'
  <2>1. /\ conn[j] = "up" /\ updating' \subseteq updating \cup {j}
        /\ UNCHANGED <<conn, scheduler, working, sent>>
    BY <1>7 DEF SupportedProblems, Listening
  <2>2. Exact(conn', judges', working', submission_map', sent', node_map')
    BY <2>1 DEF Flight, Exact, scheduler
  <2>3. Pool(conn', judges', working', updating')
    BY <2>1 DEF Flight, Pool, scheduler
  <2>4. QED
    BY <2>2, <2>3 DEF Flight
<1>8. ASSUME NEW j \in Judges, UpdateProblems(j)
      PROVE  Flight'
  <2>1. /\ j \in updating /\ updating' = updating \ {j} /\ UNCHANGED conn
        /\ HandleFreeJudge(j, judges, working, submission_map, sent)
        /\ working[j] = NoSub
    BY <1>8 DEF UpdateProblems, Undisturbed
  <2>2. j \in judges /\ judges \in SUBSET Judges
    BY <2>1, <1>1 DEF Flight, Pool, TypeOK
  <2>3. Pool(conn', judges, working, updating')
    BY <2>1 DEF Flight, Pool
  <2>4. Exact(conn', judges, working, submission_map, sent, node_map)
    BY <2>1 DEF Flight
  <2>5. QED
    BY <1>1, <2>1, <2>2, <2>3, <2>4, WalkKeepsFlight DEF TypeOK
<1>9. ASSUME NEW j \in Judges, NEW s \in Subs, OnJudgeFree(j, s)
      PROVE  Flight'
  <2> DEFINE sn == [sent EXCEPT ![j] = sent[j] \ {s}]
             wk == [working EXCEPT ![j] = NoSub]
             sm == Without(s)
  <2>1. /\ s \in sent[j] /\ conn[j] = "up"
        /\ UNCHANGED <<conn, updating>>
        /\ \/ HandleFreeJudge(j, judges, wk, sm, sn)
           \/ submission_map[s] = NoJudge
    BY <1>9 DEF OnJudgeFree, Listening
  <2>2. submission_map[s] = j /\ working[j] = s /\ sent[j] = {s} /\ j \in judges
    <3>1. submission_map[s] = j
      BY <2>1 DEF Flight, Exact
    <3>2. working[j] = s
      BY <3>1 DEF Flight, Exact
    <3>3. \A x \in sent[j] : x = s
      BY <3>2 DEF Flight, Exact
    <3>4. j \in judges
      BY <2>1 DEF Flight, Pool
    <3>5. QED
      BY <2>1, <3>1, <3>2, <3>3, <3>4
  <2>3. HandleFreeJudge(j, judges, wk, sm, sn)
    BY <2>1, <2>2
  <2>4. /\ sm \in [Subs -> Judges \cup {NoJudge}]
        /\ sn \in [Judges -> SUBSET Subs]
        /\ wk \in [Judges -> Subs \cup {NoSub}]
        /\ wk[j] = NoSub
        /\ judges \in SUBSET Judges
    BY <1>1 DEF TypeOK, Without
  <2>5. /\ \A x \in Subs : sm[x] = IF x = s THEN NoJudge ELSE submission_map[x]
        /\ \A k \in Judges : sn[k] = IF k = j THEN {} ELSE sent[k]
        /\ \A k \in Judges : wk[k] = IF k = j THEN NoSub ELSE working[k]
    BY <1>1, <2>2 DEF TypeOK, Without
  <2> HIDE DEF sm, sn, wk
  <2>6. Exact(conn, judges, wk, sm, sn, node_map)
    <3>1. \A k \in Judges, x \in Subs :
             sm[x] = k <=> wk[k] = x /\ conn[k] # "gone"
      <4> TAKE k \in Judges, x \in Subs
      <4>1. submission_map[x] = k <=> working[k] = x /\ conn[k] # "gone"
        BY DEF Flight, Exact
      <4>2. CASE x = s
        BY <4>1, <4>2, <2>2, <2>5
      <4>3. CASE x # s
        BY <4>1, <4>3, <2>2, <2>5
      <4>4. QED
        BY <4>2, <4>3
    <3>2. \A k \in Judges : sn[k] = {x \in Subs : sm[x] = k}
      <4> TAKE k \in Judges
      <4>1. sent[k] = {x \in Subs : submission_map[x] = k}
        BY DEF Flight, Exact
      <4>2. CASE k = j
        BY <4>1, <4>2, <2>2, <2>5
      <4>3. CASE k # j
        BY <4>1, <4>3, <2>2, <2>5
      <4>4. QED
        BY <4>2, <4>3
    <3>3. /\ \A x \in Subs : sm[x] \in judges \cup {NoJudge}
          /\ \A x \in Subs : node_map[x] # NoNode => sm[x] = NoJudge
      BY <2>5 DEF Flight, Exact
    <3>4. QED
      BY <3>1, <3>2, <3>3 DEF Exact
  <2>7. Pool(conn, judges, wk, updating)
    BY <2>1, <2>5 DEF Flight, Pool
  <2>8. Exact(conn', judges, wk, sm, sn, node_map)
    BY <2>1, <2>6
  <2>9. Pool(conn', judges, wk, updating')
    BY <2>1, <2>7
  <2>10. QED
    BY <1>1, <2>2, <2>3, <2>4, <2>8, <2>9, WalkKeepsFlight
<1>10. ASSUME NEW r \in Requests, Judge(r)
       PROVE  Flight'
  <2>1. r.id \in Subs /\ UNCHANGED <<conn, updating>>
    BY <1>10 DEF Judge
  <2>2. CASE UNCHANGED <<scheduler, working, sent, failed>>
    BY <2>1, <2>2 DEF scheduler, Flight, Exact, Pool
  <2>3. ASSUME ~Known(r.id), NEW j \in Available(r),
               submission_map' = [submission_map EXCEPT ![r.id] = j],
               \/ SubmitOk(j, r.id, working, sent) /\ UNCHANGED judges
               \/ /\ SubmitFails(j, r.id, working, sent)
                  /\ judges' = judges \ {j},
               UNCHANGED <<queue, node_map>>
        PROVE  Flight'
    <3>1. j \in judges /\ j \in Judges /\ working[j] = NoSub
      BY <1>1 DEF Available, Candidates, Idle, TypeOK
    <3>2. SubmitOk(j, r.id, working, sent) /\ UNCHANGED judges
      BY <2>3 DEF SubmitFails, Undisturbed
    <3>3. /\ node_map[r.id] = NoNode /\ submission_map[r.id] = NoJudge
          /\ conn[j] \in {"registered", "up"}
      BY <2>3, <3>1 DEF Known, Flight, Pool
    <3>4. /\ \A s \in Subs : submission_map[s] # j
          /\ sent[j] = {}
      BY <3>1 DEF Flight, Exact
    <3>5. /\ \A s \in Subs :
                submission_map'[s] = IF s = r.id THEN j ELSE submission_map[s]
          /\ \A k \in Judges : working'[k] = IF k = j THEN r.id ELSE working[k]
          /\ \A k \in Judges : sent'[k] = IF k = j THEN {r.id} ELSE sent[k]
      BY <1>1, <2>3, <3>1, <3>2, <3>4 DEF SubmitOk, TypeOK
    <3>6. \A k \in Judges, s \in Subs :
             submission_map'[s] = k <=> working'[k] = s /\ conn'[k] # "gone"
      <4> TAKE k \in Judges, s \in Subs
      <4>1. submission_map[s] = k <=> working[k] = s /\ conn[k] # "gone"
        BY DEF Flight, Exact
      <4>2. CASE k = j
        BY <4>1, <4>2, <2>1, <3>3, <3>4, <3>5
      <4>3. CASE k # j
        BY <4>1, <4>3, <2>1, <3>3, <3>5
      <4>4. QED
        BY <4>2, <4>3
    <3>7. \A k \in Judges : sent'[k] = {s \in Subs : submission_map'[s] = k}
      <4> TAKE k \in Judges
      <4>1. sent[k] = {s \in Subs : submission_map[s] = k}
        BY DEF Flight, Exact
      <4>2. CASE k = j
        BY <4>1, <4>2, <2>1, <3>4, <3>5
      <4>3. CASE k # j
        BY <4>1, <4>3, <3>3, <3>5
      <4>4. QED
        BY <4>2, <4>3
    <3>8. /\ \A s \in Subs : submission_map'[s] \in judges' \cup {NoJudge}
          /\ \A s \in Subs : node_map'[s] # NoNode => submission_map'[s] = NoJudge
      BY <2>3, <3>1, <3>2, <3>3, <3>5 DEF Flight, Exact
    <3>9. Pool(conn', judges', working', updating')
      BY <2>1, <3>2, <3>3, <3>5 DEF Flight, Pool
    <3>10. QED
      BY <3>6, <3>7, <3>8, <3>9 DEF Flight, Exact
  <2>4. CASE /\ ~Known(r.id)
             /\ node_map' = [node_map EXCEPT ![r.id] = Section(r)]
             /\ UNCHANGED <<judges, submission_map, working, sent, failed>>
    <3>1. submission_map[r.id] = NoJudge
      BY <2>4 DEF Known
    <3>2. \A s \in Subs : s # r.id => node_map'[s] = node_map[s]
      BY <2>1, <2>4, <1>1 DEF TypeOK
    <3>3. QED
      BY <2>1, <2>4, <3>1, <3>2 DEF Flight, Exact, Pool
  <2>5. QED
    BY <1>10, <2>2, <2>3, <2>4 DEF Judge
<1>11. ASSUME NEW s \in Subs, Abort(s)
       PROVE  Flight'
  <2>1. UNCHANGED <<conn, judges, submission_map, working, updating, sent>>
    BY <1>11 DEF Abort
  <2>2. \A x \in Subs : node_map'[x] # NoNode => node_map[x] # NoNode
    <3>1. CASE UNCHANGED <<queue, node_map>>
      BY <3>1
    <3>2. ASSUME node_map[s] # NoNode,
                 NEW i \in 1 .. Len(queue[node_map[s]]), DropNode(node_map[s], i)
          PROVE  \A x \in Subs : node_map'[x] # NoNode => node_map[x] # NoNode
      BY <1>1, <3>2 DEF DropNode, TypeOK
    <3>3. QED
      BY <1>11, <3>1, <3>2 DEF Abort
  <2>3. QED
    BY <2>1, <2>2 DEF Flight, Exact, Pool
<1>12. ASSUME NEW n \in Managed, ForceDisconnect(n)
       PROVE  Flight'
  BY <1>12 DEF ForceDisconnect, scheduler, Flight, Exact, Pool
<1>13. ASSUME NEW n \in Managed, NEW disabled \in BOOLEAN,
              UpdateDisableJudge(n, disabled)
       PROVE  Flight'
  BY <1>13 DEF UpdateDisableJudge, scheduler, Flight, Exact, Pool
<1>14. QED
  BY <1>2, <1>3, <1>4, <1>5, <1>6, <1>7, <1>8, <1>9, <1>10, <1>11, <1>12, <1>13
     DEF Next

\* The strengthened invariant is inductive.
LEMMA FlightInvInductive ==
    /\ Init => FlightInv
    /\ FlightInv /\ [Next]_vars => FlightInv'
<1>1. ASSUME Init
      PROVE  FlightInv
  <2>1. Exact(conn, judges, working, submission_map, sent, node_map)
    BY <1>1, NonesAssumption DEF Init, Exact
  <2>2. Pool(conn, judges, working, updating)
    BY <1>1 DEF Init, Pool
  <2>3. QED
    BY <1>1, <2>1, <2>2, QueueInvInit, FlightInvSplits DEF Flight
<1>2. ASSUME FlightInv, [Next]_vars
      PROVE  FlightInv'
  <2>1. QueueInv'
    BY <1>2, QueueInvStep DEF FlightInv
  <2>2. ASSUME Undisturbed'
        PROVE  Flight'
    <3>1. Undisturbed
      BY <1>2, <2>2, HistoryGrows
    <3>2. QED
      BY <1>2, <2>2, <3>1, FlightInvSplits, FlightStep
  <2>3. QED
    BY <2>1, <2>2 DEF FlightInv, InFlightExact, PoolExact, Flight, Exact, Pool
<1>3. QED
  BY <1>1, <1>2

\* Whatever fails and however the threads interleave, the bridge's variables keep
\* their shapes.
THEOREM TypeCorrect == Spec => []TypeOK
<1>1. Init => QueueInv
  BY QueueInvInit
<1>2. QueueInv /\ [Next]_vars => QueueInv'
  BY QueueInvStep
<1>3. QueueInv => TypeOK
  BY DEF QueueInv
<1>4. QED
  BY <1>1, <1>2, <1>3, PTL DEF Spec

\* Requests, aborts, judges becoming free and dispatches that fail half way leave
\* the queue and node_map in agreement.
THEOREM QueueAgreement == Spec => []QueueMatchesNodeMap
<1>1. Init => QueueInv
  BY QueueInvInit
<1>2. QueueInv /\ [Next]_vars => QueueInv'
  BY QueueInvStep
<1>3. QueueInv => QueueMatchesNodeMap
  BY DEF QueueInv
<1>4. QED
  BY <1>1, <1>2, <1>3, PTL DEF Spec

\* No judge of the pool has been given a submission that is still queued, so a
\* submission is never handed out a second time from the queue while the pool is
\* grading it under its entry.
THEOREM QueuedIsNotDispatched == Spec => []QueuedNotDispatched
<1>1. Init => QueueInv
  BY QueueInvInit
<1>2. QueueInv /\ [Next]_vars => QueueInv'
  BY QueueInvStep
<1>3. QueueInv => QueuedNotDispatched
  BY DEF QueueInv
<1>4. QED
  BY <1>1, <1>2, <1>3, PTL DEF Spec

\* Until a dispatch fails or a problem update overtakes one, the submission map,
\* the judges' _working and the requests really sent are one relation, one to one
\* and within the pool: whatever the order of registrations, disconnections,
\* gradings, rejudges and aborts, and for any number of judges and submissions.
THEOREM InFlightIsExact == Spec => []InFlightExact
<1>1. Init => FlightInv
  BY FlightInvInductive
<1>2. FlightInv /\ [Next]_vars => FlightInv'
  BY FlightInvInductive
<1>3. FlightInv => InFlightExact
  BY DEF FlightInv
<1>4. QED
  BY <1>1, <1>2, <1>3, PTL DEF Spec

-----------------------------------------------------------------------------
(* Free judges and waiting work.                                           *)

\* No node is new: every node of the queue after the step was there before, in
\* the same section.
NoNewNodes ==
    \A p \in Priorities : \A i \in 1 .. Len(queue'[p]) :
       \E k \in 1 .. Len(queue[p]) : queue'[p][i] = queue[p][k]

\* Judge k could not run any contest or first-time submission of the queue.
NoWorkFor(k) ==
    \A p \in 0 .. REJUDGE_PRIORITY - 1 : \A i \in 1 .. Len(queue[p]) :
       ~CanJudge(k, queue[p][i])

\* k is in the pool, enabled and not working, and nothing is about to look at the
\* queue for it.
Free(k) ==
    /\ k \in judges /\ working[k] = NoSub /\ ~is_disabled[k]
    /\ k \notin reenabled /\ k \notin updating

FreeIdle == \A k \in Judges : Free(k) => NoWorkFor(k)

LEMMA FreeIdleIsTheProperty ==
    ASSUME TypeOK
    PROVE  FreeJudgeLeavesNoWork <=> (Undisturbed => FreeIdle)
<1>1. \A k : k \in Idle(judges, working) \ (reenabled \cup updating) <=>
                k \in Judges /\ Free(k)
  BY DEF TypeOK, Idle, Free
<1>2. QED
  BY <1>1 DEF FreeJudgeLeavesNoWork, FreeIdle, NoWorkFor

\* Dropping a node adds none.
LEMMA DropNodeAddsNone ==
    ASSUME QueueType, NEW p \in Priorities, NEW i \in 1 .. Len(queue[p]),
           DropNode(p, i)
    PROVE  NoNewNodes
<1>1. queue[p] \in Seq(Items)
  BY DEF QueueType
<1>2. queue' = [queue EXCEPT ![p] = RemoveAt(queue[p], i)]
  BY DEF DropNode
<1>3. /\ Len(RemoveAt(queue[p], i)) = Len(queue[p]) - 1
      /\ \A k \in 1 .. Len(queue[p]) - 1 :
            RemoveAt(queue[p], i)[k] =
               IF k < i THEN queue[p][k] ELSE queue[p][k + 1]
  BY <1>1, RemoveAtProperties
<1>4. ASSUME NEW q \in Priorities, NEW m \in 1 .. Len(queue'[q])
      PROVE  \E k \in 1 .. Len(queue[q]) : queue'[q][m] = queue[q][k]
  <2>1. CASE q = p
    <3>1. queue'[p] = RemoveAt(queue[p], i) /\ Len(queue[p]) \in Nat
      BY <1>1, <1>2 DEF QueueType
    <3>2. /\ m \in 1 .. Len(queue[p]) /\ m + 1 \in 1 .. Len(queue[p])
          /\ queue'[p][m] = queue[p][m] \/ queue'[p][m] = queue[p][m + 1]
      BY <1>3, <2>1, <3>1
    <3>3. QED
      BY <2>1, <3>2
  <2>2. CASE q # p
    <3>1. queue'[q] = queue[q]
      BY <1>2, <2>2 DEF QueueType
    <3>2. QED
      BY <3>1
  <2>3. QED
    BY <2>1, <2>2
<1>5. QED
  BY <1>4 DEF NoNewNodes

\* After a walk for j in which no submit() raised, j has work or there is none for
\* it in the first two sections; nobody else is touched and no node is new.
LEMMA WalkServesTheJudge ==
    ASSUME TypeOK, NEW j \in Judges, NEW js, NEW wk \in [Judges -> Subs \cup {NoSub}],
           NEW sm, NEW sn, HandleFreeJudge(j, js, wk, sm, sn), failed' = {},
           UNCHANGED <<is_disabled, problems>>
    PROVE  /\ judges' = js
           /\ NoNewNodes
           /\ \A k \in Judges \ {j} : working'[k] = wk[k]
           /\ working'[j] # NoSub \/ NoWorkFor(j)'
<1>1. QueueType
  BY DEF TypeOK, QueueType
<1>2. CASE \E p \in Priorities : \E i \in 1 .. Len(queue[p]) :
              DispatchNode(j, p, i, js, wk, sm, sn)
  <2>1. PICK p \in Priorities : \E i \in 1 .. Len(queue[p]) :
           DispatchNode(j, p, i, js, wk, sm, sn)
    BY <1>2
  <2>2. PICK i \in 1 .. Len(queue[p]) : DispatchNode(j, p, i, js, wk, sm, sn)
    BY <2>1
  <2> DEFINE id == queue[p][i].id
  <2>3. id \in Subs
    <3>1. queue[p] \in Seq(Items)
      BY <1>1 DEF QueueType
    <3>2. queue[p][i] \in Items
      BY <3>1, ElementOfSeq
    <3>3. QED
      BY <3>2 DEF Items
  <2>4. ~SubmitFails(j, id, wk, sn)
    BY DEF SubmitFails
  <2>5. SubmitOk(j, id, wk, sn) /\ judges' = js /\ DropNode(p, i)
    BY <2>2, <2>4 DEF DispatchNode
  <2>6. working' = [wk EXCEPT ![j] = id] /\ NoNewNodes
    BY <1>1, <2>5, DropNodeAddsNone DEF SubmitOk
  <2>7. QED
    BY <2>3, <2>5, <2>6, NonesAssumption
<1>3. CASE /\ \A p \in Priorities : \A i \in 1 .. Len(queue[p]) :
                 CanJudge(j, queue[p][i]) => ~MayTake(p, js, wk)
           /\ judges' = js /\ working' = wk /\ queue' = queue
  <2>1. NoNewNodes
    BY <1>3 DEF NoNewNodes
  <2>2. \A p \in 0 .. REJUDGE_PRIORITY - 1 : p \in Priorities /\ MayTake(p, js, wk)
    BY DEF REJUDGE_PRIORITY, Priorities, MayTake
  <2>3. NoWorkFor(j)'
    BY <1>3, <2>2 DEF NoWorkFor, CanJudge
  <2>4. QED
    BY <1>3, <2>1, <2>3
<1>4. QED
  BY <1>2, <1>3 DEF HandleFreeJudge

\* A judge that was free and still is, with the kinds it accepted, is left without
\* work by a step that adds no node.
LEMMA FreeStaysWithoutWork ==
    ASSUME FreeIdle, NEW k \in Judges, Free(k), ~is_disabled'[k], NoNewNodes,
           problems'[k] = problems[k]
    PROVE  NoWorkFor(k)'
<1>1. NoWorkFor(k)
  BY DEF FreeIdle
<1>2. ASSUME NEW p \in 0 .. REJUDGE_PRIORITY - 1, NEW i \in 1 .. Len(queue'[p]),
             CanJudge(k, queue[p][i])'
      PROVE  FALSE
  <2>1. p \in Priorities
    BY DEF Priorities, REJUDGE_PRIORITY
  <2>2. PICK m \in 1 .. Len(queue[p]) : queue'[p][i] = queue[p][m]
    BY <2>1 DEF NoNewNodes
  <2>3. CanJudge(k, queue[p][m])
    BY <1>2, <2>2 DEF CanJudge, Free
  <2>4. QED
    BY <1>1, <2>3 DEF NoWorkFor
<1>3. QED
  BY <1>2 DEF NoWorkFor

\* A walk for j keeps the promise to every free judge.
LEMMA WalkKeepsFreeIdle ==
    ASSUME TypeOK, FreeIdle,
           NEW j \in Judges, NEW js, NEW wk \in [Judges -> Subs \cup {NoSub}],
           NEW sm, NEW sn, HandleFreeJudge(j, js, wk, sm, sn), failed' = {},
           UNCHANGED <<is_disabled, problems, reenabled>>,
           updating \subseteq updating' \cup {j},
           js \subseteq judges \cup {j},
           \A k \in Judges \ {j} : wk[k] = working[k]
    PROVE  FreeIdle'
<1>1. /\ judges' = js
      /\ NoNewNodes
      /\ \A k \in Judges \ {j} : working'[k] = wk[k]
      /\ working'[j] # NoSub \/ NoWorkFor(j)'
  BY WalkServesTheJudge
<1>2. ASSUME NEW k \in Judges, Free(k)'
      PROVE  NoWorkFor(k)'
  <2>1. CASE k = j
    BY <1>1, <1>2, <2>1 DEF Free
  <2>2. CASE k # j
    <3>1. Free(k) /\ ~is_disabled'[k]
      BY <1>1, <1>2, <2>2 DEF Free
    <3>2. QED
      BY <1>1, <3>1, FreeStaysWithoutWork
  <2>3. QED
    BY <2>1, <2>2
<1>3. QED
  BY <1>2 DEF FreeIdle

LEMMA FreeIdleStep ==
    ASSUME QueueInv, Flight, Undisturbed, Undisturbed', FreeIdle, [Next]_vars
    PROVE  FreeIdle'
<1> USE NonesAssumption, SetsAssumption
<1>1. TypeOK /\ QueueType
  BY DEF QueueInv, TypeOK, QueueType
<1>2. failed' = {}
  BY DEF Undisturbed
<1>3. ASSUME UNCHANGED queue,
             \A k \in Judges : Free(k)' => Free(k) /\ problems'[k] = problems[k]
      PROVE  FreeIdle'
  <2>1. NoNewNodes
    BY <1>3 DEF NoNewNodes
  <2>2. ASSUME NEW k \in Judges, Free(k)'
        PROVE  NoWorkFor(k)'
    BY <1>3, <2>1, <2>2, FreeStaysWithoutWork DEF Free
  <2>3. QED
    BY <2>2 DEF FreeIdle
<1>4. CASE UNCHANGED vars
  BY <1>3, <1>4 DEF vars, Free
<1>5. ASSUME NEW j \in Judges, NEW kinds \in Offers, Handshake(j, kinds)
      PROVE  FreeIdle'
  <2>1. j \notin judges
    BY <1>5 DEF Handshake, Flight, Pool
  <2>2. \A k \in Judges : Free(k)' => Free(k) /\ problems'[k] = problems[k]
    BY <1>1, <1>5, <2>1 DEF Handshake, scheduler, history, Free, TypeOK
  <2>3. QED
    BY <1>3, <1>5, <2>2 DEF Handshake, scheduler
<1>6. ASSUME NEW j \in Judges, Register(j)
      PROVE  FreeIdle'
  <2> DEFINE js == judges \cup {j}
  <2>1. /\ HandleFreeJudge(j, js, working, submission_map, sent)
        /\ UNCHANGED <<is_disabled, problems, updating, reenabled>>
    BY <1>6 DEF Register
  <2>2. js \subseteq judges \cup {j}
    OBVIOUS
  <2> HIDE DEF js
  <2>3. QED
    BY <1>1, <1>2, <2>1, <2>2, WalkKeepsFreeIdle DEF TypeOK
<1>7. ASSUME NEW j \in Judges, NEW disabled \in BOOLEAN, Connected(j, disabled)
      PROVE  FreeIdle'
  <2>1. UNCHANGED <<queue, judges, working, problems, updating>>
    BY <1>7 DEF Connected, scheduler
  <2>2. \A k \in Judges : Free(k)' => Free(k)
    <3> TAKE k \in Judges
    <3>1. CASE k = j
      BY <1>1, <1>7, <2>1, <3>1 DEF Connected, Free, TypeOK
    <3>2. CASE k # j
      BY <1>1, <1>7, <2>1, <3>2 DEF Connected, Free, TypeOK
    <3>3. QED
      BY <3>1, <3>2
  <2>3. QED
    BY <1>3, <2>1, <2>2
<1>8. ASSUME NEW j \in Judges, Disconnect(j)
      PROVE  FreeIdle'
  <2> DEFINE sm == IF working[j] = NoSub THEN submission_map
                   ELSE Without(working[j])
             js == judges \ {j}
             sn == [sent EXCEPT ![j] = {}]
  <2>1. /\ UNCHANGED <<is_disabled, problems, updating, reenabled>>
        /\ \/ \E k \in js : HandleFreeJudge(k, js, working, sm, sn)
           \/ judges' = js /\ UNCHANGED <<queue, working>>
    BY <1>8 DEF Disconnect
  <2>2. ASSUME NEW k \in js, HandleFreeJudge(k, js, working, sm, sn)
        PROVE  FreeIdle'
    <3>1. k \in Judges /\ js \subseteq judges \cup {k}
      BY <1>1 DEF TypeOK
    <3> HIDE DEF js, sm, sn
    <3>2. QED
      BY <1>1, <1>2, <2>1, <2>2, <3>1, WalkKeepsFreeIdle DEF TypeOK
  <2>3. CASE judges' = js /\ UNCHANGED <<queue, working>>
    BY <1>3, <2>1, <2>3 DEF Free
  <2>4. QED
    BY <2>1, <2>2, <2>3
<1>9. ASSUME NEW j \in Judges, NEW kinds \in Offers, SupportedProblems(j, kinds)
      PROVE  FreeIdle'
  <2>1. \A k \in Judges : Free(k)' => Free(k) /\ problems'[k] = problems[k]
    <3> TAKE k \in Judges
    <3>1. CASE k = j
      BY <1>9, <3>1 DEF SupportedProblems, scheduler, history, Free
    <3>2. CASE k # j
      BY <1>1, <1>9, <3>2 DEF SupportedProblems, scheduler, history, Free, TypeOK
    <3>3. QED
      BY <3>1, <3>2
  <2>2. QED
    BY <1>3, <1>9, <2>1 DEF SupportedProblems, scheduler
<1>10. ASSUME NEW j \in Judges, UpdateProblems(j)
       PROVE  FreeIdle'
  <2>1. /\ updating' = updating \ {j}
        /\ HandleFreeJudge(j, judges, working, submission_map, sent)
        /\ UNCHANGED <<is_disabled, problems, reenabled>>
    BY <1>10 DEF UpdateProblems
  <2>2. QED
    BY <1>1, <1>2, <2>1, WalkKeepsFreeIdle DEF TypeOK
<1>11. ASSUME NEW j \in Judges, NEW s \in Subs, OnJudgeFree(j, s)
       PROVE  FreeIdle'
  <2> DEFINE sn == [sent EXCEPT ![j] = @ \ {s}]
             wk == [working EXCEPT ![j] = NoSub]
  <2>1. /\ UNCHANGED <<is_disabled, problems, updating, reenabled>>
        /\ \/ HandleFreeJudge(j, judges, wk, Without(s), sn)
           \/ UNCHANGED <<scheduler, working>>
    BY <1>11 DEF OnJudgeFree
  <2>2. /\ wk \in [Judges -> Subs \cup {NoSub}]
        /\ \A k \in Judges \ {j} : wk[k] = working[k]
    BY <1>1 DEF TypeOK
  <2> HIDE DEF wk, sn
  <2>3. CASE HandleFreeJudge(j, judges, wk, Without(s), sn)
    BY <1>1, <1>2, <2>1, <2>2, <2>3, WalkKeepsFreeIdle
  <2>4. CASE UNCHANGED <<scheduler, working>>
    BY <1>3, <2>1, <2>4 DEF scheduler, Free
  <2>5. QED
    BY <2>1, <2>3, <2>4
<1>12. ASSUME NEW r \in Requests, Judge(r)
       PROVE  FreeIdle'
  <2>1. /\ r.id \in Subs /\ r.priority \in Priorities
        /\ UNCHANGED <<is_disabled, problems, updating, reenabled>>
    BY <1>12 DEF Judge
  <2>2. CASE UNCHANGED <<scheduler, working>>
    BY <1>3, <2>1, <2>2 DEF scheduler, Free
  <2>3. ASSUME NEW j \in Available(r), UNCHANGED <<queue, node_map>>,
               \/ SubmitOk(j, r.id, working, sent) /\ UNCHANGED judges
               \/ /\ SubmitFails(j, r.id, working, sent)
                  /\ judges' = judges \ {j}
        PROVE  FreeIdle'
    <3>1. SubmitOk(j, r.id, working, sent) /\ UNCHANGED judges
      BY <1>2, <2>3 DEF SubmitFails
    <3>2. \A k \in Judges : Free(k)' => Free(k)
      BY <1>1, <2>1, <3>1 DEF SubmitOk, Free, TypeOK
    <3>3. QED
      BY <1>3, <2>1, <2>3, <3>2
  <2>4. CASE /\ HeldBack(r) \/ Available(r) = {}
             /\ queue' = [queue EXCEPT ![Section(r)] =
                             Append(@, [id |-> r.id, judge_id |-> r.judge_id])]
             /\ UNCHANGED <<judges, working>>
    <3> DEFINE item == [id |-> r.id, judge_id |-> r.judge_id]
    <3>1. ASSUME NEW k \in Judges, Free(k)', NEW p \in 0 .. REJUDGE_PRIORITY - 1,
                 NEW i \in 1 .. Len(queue'[p]), CanJudge(k, queue[p][i])'
          PROVE  FALSE
      <4>1. Free(k) /\ NoWorkFor(k) /\ p \in Priorities
        BY <2>1, <2>4, <3>1 DEF Free, FreeIdle, Priorities, REJUDGE_PRIORITY
      <4>2. CASE p # r.priority
        <5>1. queue'[p] = queue[p]
          BY <2>4, <4>1, <4>2, <1>1 DEF Section, QueueType
        <5>2. QED
          BY <3>1, <4>1, <5>1, <2>1 DEF NoWorkFor, CanJudge
      <4>3. CASE p = r.priority
        <5>1. /\ queue[p] \in Seq(Items) /\ item \in Items
              /\ queue'[p] = Append(queue[p], item)
          BY <2>1, <2>4, <4>1, <4>3, <1>1 DEF Section, QueueType, Items
        <5>2. \/ i \in 1 .. Len(queue[p]) /\ queue'[p][i] = queue[p][i]
              \/ queue'[p][i] = item
          BY <5>1, AppendProperties
        <5>3. ~CanJudge(k, item)
          <6>1. Available(r) = {}
            BY <2>4, <4>3 DEF HeldBack, REJUDGE_PRIORITY
          <6>2. ~CanJudge(k, r)
            BY <4>1, <6>1 DEF Available, Candidates, Idle, Free
          <6>3. QED
            BY <6>2 DEF CanJudge
        <5>4. CanJudge(k, queue'[p][i])
          BY <2>1, <3>1 DEF CanJudge
        <5>5. QED
          BY <4>1, <5>2, <5>3, <5>4 DEF NoWorkFor
      <4>4. QED
        BY <4>2, <4>3
    <3>2. QED
      BY <3>1 DEF FreeIdle, NoWorkFor
  <2>5. QED
    BY <1>12, <2>2, <2>3, <2>4 DEF Judge
<1>13. ASSUME NEW s \in Subs, Abort(s)
       PROVE  FreeIdle'
  <2>1. UNCHANGED <<judges, working, is_disabled, problems, updating, history>>
    BY <1>13 DEF Abort
  <2>2. NoNewNodes
    <3>1. CASE UNCHANGED <<queue, node_map>>
      BY <3>1 DEF NoNewNodes
    <3>2. ASSUME node_map[s] # NoNode,
                 NEW i \in 1 .. Len(queue[node_map[s]]), DropNode(node_map[s], i)
          PROVE  NoNewNodes
      BY <1>1, <3>2, DropNodeAddsNone DEF QueueType
    <3>3. QED
      BY <1>13, <3>1, <3>2 DEF Abort
  <2>3. ASSUME NEW k \in Judges, Free(k)'
        PROVE  NoWorkFor(k)'
    BY <2>1, <2>2, <2>3, FreeStaysWithoutWork DEF Free, history
  <2>4. QED
    BY <2>3 DEF FreeIdle
<1>14. ASSUME NEW n \in Managed, ForceDisconnect(n)
       PROVE  FreeIdle'
  BY <1>3, <1>14 DEF ForceDisconnect, scheduler, history, Free
<1>15. ASSUME NEW n \in Managed, NEW disabled \in BOOLEAN,
              UpdateDisableJudge(n, disabled)
       PROVE  FreeIdle'
  <2>1. UNCHANGED <<queue, judges, working, problems, updating>>
    BY <1>15 DEF UpdateDisableJudge, scheduler
  <2>2. \A k \in Judges : Free(k)' => Free(k)
    BY <1>1, <1>15, <2>1 DEF UpdateDisableJudge, Free, TypeOK
  <2>3. QED
    BY <1>3, <2>1, <2>2
<1>16. QED
  BY <1>4, <1>5, <1>6, <1>7, <1>8, <1>9, <1>10, <1>11, <1>12, <1>13, <1>14, <1>15
     DEF Next

\* A free judge that is enabled leaves no contest or first-time submission in the
\* queue that it could run: in whatever order judges register, finish, leave and
\* change what they support, and submissions come, are aborted or are given away.
THEOREM FreeJudgesHaveNoWork == Spec => []FreeJudgeLeavesNoWork
<1>1. Init => FlightInv /\ FreeJudgeLeavesNoWork
  BY FlightInvInductive DEF Init, FreeJudgeLeavesNoWork, Idle
<1>2. FlightInv /\ FreeJudgeLeavesNoWork /\ [Next]_vars =>
         FlightInv' /\ FreeJudgeLeavesNoWork'
  <2> SUFFICES ASSUME FlightInv, FreeJudgeLeavesNoWork, [Next]_vars
               PROVE  FlightInv' /\ FreeJudgeLeavesNoWork'
    OBVIOUS
  <2>1. FlightInv'
    BY FlightInvInductive
  <2>2. QueueInv /\ TypeOK /\ TypeOK'
    BY <2>1 DEF FlightInv, QueueInv
  <2>3. ASSUME Undisturbed'
        PROVE  FreeIdle'
    <3>1. Undisturbed
      BY <2>3, HistoryGrows
    <3>2. Flight /\ FreeIdle
      BY <2>2, <3>1, FlightInvSplits, FreeIdleIsTheProperty
    <3>3. QED
      BY <2>2, <2>3, <3>1, <3>2, FreeIdleStep
  <2>4. (FreeJudgeLeavesNoWork <=> (Undisturbed => FreeIdle))'
    <3>1. \A k : (k \in Idle(judges, working) \ (reenabled \cup updating))' <=>
                    k \in Judges /\ Free(k)'
      BY <2>2 DEF TypeOK, Idle, Free
    <3>2. QED
      BY <3>1 DEF FreeJudgeLeavesNoWork, FreeIdle, NoWorkFor
  <2>5. QED
    BY <2>1, <2>3, <2>4
<1>3. QED
  BY <1>1, <1>2, PTL DEF Spec

-----------------------------------------------------------------------------
(* The reserved judge.                                                     *)

\* A set of more than one element has another one; a set of at most one has not.
LEMMA OneOrMore ==
    ASSUME NEW S, IsFiniteSet(S), NEW x
    PROVE  /\ Cardinality(S) \in Nat
           /\ Cardinality(S) > 1 => \E y \in S : y # x
           /\ Cardinality(S) <= 1 /\ x \in S => \A y \in S : y = x
<1>1. Cardinality(S) \in Nat
  BY FS_CardinalityType
<1>2. ASSUME Cardinality(S) > 1, \A y \in S : y = x
      PROVE  FALSE
  <2>1. S \subseteq {x} /\ IsFiniteSet({x}) /\ Cardinality({x}) = 1
    BY <1>2, FS_Singleton
  <2>2. Cardinality(S) <= 1
    BY <2>1, FS_Subset
  <2>3. QED
    BY <1>1, <1>2, <2>2
<1>3. ASSUME Cardinality(S) <= 1, x \in S, NEW y \in S, y # x
      PROVE  FALSE
  <2>1. IsFiniteSet({x}) /\ Cardinality({x}) = 1
    BY FS_Singleton
  <2>2. Cardinality({x} \cup {y}) = 2
    BY <1>3, <2>1, FS_AddElement
  <2>3. {x} \cup {y} \subseteq S
    BY <1>3
  <2>4. Cardinality({x} \cup {y}) <= Cardinality(S)
    BY <2>3, FS_Subset
  <2>5. QED
    BY <1>1, <1>3, <2>2, <2>4
<1>4. QED
  BY <1>1, <1>2, <1>3

\* What RejudgeLeavesAFreeJudge says of s being given to j.
LeavesAFreeJudge(j, s) ==
    \/ Idle(judges', working') # {}
    \/ \A k \in judges' \ {j} : is_disabled[k] \/ KindOf[s] \notin problems[k]

\* A walk gives j a node of the last two sections only if it leaves a free judge, or
\* no other judge of the pool is enabled.
LEMMA WalkLeavesAFreeJudge ==
    ASSUME TypeOK, QueueMatchesNodeMap, UNCHANGED is_disabled,
           NEW k \in Judges, NEW js \in SUBSET Judges,
           NEW wk \in [Judges -> Subs \cup {NoSub}], NEW sm,
           NEW sn \in [Judges -> SUBSET Subs],
           \A j \in Judges : sn[j] \subseteq sent[j],
           HandleFreeJudge(k, js, wk, sm, sn),
           NEW j \in judges', NEW s \in Subs, Given(j, s),
           node_map[s] \in REJUDGE_PRIORITY .. 3, ~is_disabled[j]
    PROVE  LeavesAFreeJudge(j, s)
<1>1. CASE \E p \in Priorities : \E i \in 1 .. Len(queue[p]) :
              MayTake(p, js, wk) /\ DispatchNode(k, p, i, js, wk, sm, sn)
  <2>1. PICK p \in Priorities : \E i \in 1 .. Len(queue[p]) :
           MayTake(p, js, wk) /\ DispatchNode(k, p, i, js, wk, sm, sn)
    BY <1>1
  <2>2. PICK i \in 1 .. Len(queue[p]) :
           MayTake(p, js, wk) /\ DispatchNode(k, p, i, js, wk, sm, sn)
    BY <2>1
  <2> DEFINE id == queue[p][i].id
  <2>3. node_map[id] = p
    BY <2>2 DEF QueueMatchesNodeMap
  <2> HIDE DEF id
  <2>4. judges' \subseteq js
    BY <2>2 DEF DispatchNode
  <2>5. j \in Judges /\ s \notin sn[j]
    BY <2>4 DEF Given
  <2>6. SubmitOk(k, id, wk, sn) /\ judges' = js
    BY <2>2, <2>5 DEF DispatchNode, SubmitFails, Given, id
  <2>7. /\ sent' = [sn EXCEPT ![k] = sn[k] \cup {id}]
        /\ working' = [wk EXCEPT ![k] = id]
    BY <2>6 DEF SubmitOk
  <2>8. j = k /\ s = id
    BY <2>5, <2>7 DEF Given
  <2>9. ~(p < REJUDGE_PRIORITY)
    BY <2>3, <2>8 DEF REJUDGE_PRIORITY
  <2>10. ~Reserved(js, wk)
    BY <2>2, <2>9 DEF MayTake
  <2> DEFINE enabled == {x \in js : ~is_disabled[x]}
  <2>11. IsFiniteSet(enabled) /\ IsFiniteSet(Idle(js, wk))
    <3>1. enabled \subseteq Judges /\ Idle(js, wk) \subseteq Judges
      BY DEF Idle
    <3>2. QED
      BY <3>1, SetsAssumption, FS_Subset
  <2>12. CASE ~(Cardinality(enabled) > 1)
    <3>1. Cardinality(enabled) <= 1 /\ j \in enabled
      <4>1. j \in enabled
        BY <2>6
      <4>2. Cardinality(enabled) \in Nat
        BY <2>11, OneOrMore
      <4> HIDE DEF enabled
      <4>3. QED
        BY <2>12, <4>1, <4>2
    <3>2. \A y \in enabled : y = j
      <4> HIDE DEF enabled
      <4>1. QED
        BY <2>11, <3>1, OneOrMore
    <3>3. QED
      BY <2>6, <3>2 DEF LeavesAFreeJudge
  <2>13. CASE ~(Cardinality(Idle(js, wk)) <= 1)
    <3>1. Cardinality(Idle(js, wk)) > 1
      <4>1. Cardinality(Idle(js, wk)) \in Nat
        BY <2>11, OneOrMore
      <4>2. QED
        BY <2>13, <4>1
    <3>2. PICK y \in Idle(js, wk) : y # k
      BY <2>11, <3>1, OneOrMore
    <3>3. y \in Idle(judges', working')
      BY <2>6, <2>7, <3>2 DEF Idle
    <3>4. QED
      BY <3>3 DEF LeavesAFreeJudge
  <2>14. QED
    BY <2>10, <2>12, <2>13 DEF Reserved, CountNotDisabled
<1>2. CASE sent' = sn /\ judges' = js
  BY <1>2 DEF Given
<1>3. QED
  BY <1>1, <1>2 DEF HandleFreeJudge

\* A rejudge that comes straight from the web site is given away only if it leaves a
\* free judge, or no other judge of the pool could take it.
LEMMA RequestLeavesAFreeJudge ==
    ASSUME TypeOK, NEW r \in Requests, Judge(r), r.judge_id = NoName,
           r.priority >= REJUDGE_PRIORITY,
           NEW j \in judges', Given(j, r.id)
    PROVE  LeavesAFreeJudge(j, r.id)
<1>1. /\ ~HeldBack(r) /\ UNCHANGED is_disabled
      /\ \E k \in Available(r) :
            \/ SubmitOk(k, r.id, working, sent) /\ UNCHANGED judges
            \/ SubmitFails(k, r.id, working, sent)
  BY DEF Judge, Given
<1>2. PICK k \in Available(r) :
         \/ SubmitOk(k, r.id, working, sent) /\ UNCHANGED judges
         \/ SubmitFails(k, r.id, working, sent)
  BY <1>1
<1>3. SubmitOk(k, r.id, working, sent) /\ UNCHANGED judges
  BY <1>2 DEF SubmitFails, Given
<1>4. /\ sent' = [sent EXCEPT ![k] = sent[k] \cup {r.id}]
      /\ working' = [working EXCEPT ![k] = r.id]
      /\ judges' = judges /\ j \in Judges /\ k \in Judges
  BY <1>3 DEF SubmitOk, TypeOK, Available, Candidates
<1>5. j = k
  BY <1>4 DEF Given, TypeOK
<1>6. IsFiniteSet(Candidates(r)) /\ IsFiniteSet(Available(r))
  <2>1. Candidates(r) \subseteq Judges /\ Available(r) \subseteq Judges
    BY DEF Candidates, Available, TypeOK
  <2>2. QED
    BY <2>1, SetsAssumption, FS_Subset
<1>7. CASE ~(Cardinality(Candidates(r)) > 1)
  <2>1. Cardinality(Candidates(r)) <= 1 /\ j \in Candidates(r)
    <3>1. Cardinality(Candidates(r)) \in Nat
      BY <1>6, OneOrMore
    <3>2. QED
      BY <1>2, <1>5, <1>7, <3>1 DEF Available
  <2>2. \A y \in Candidates(r) : y = j
    BY <1>6, <2>1, OneOrMore
  <2>3. \A y \in judges \ {j} : is_disabled[y] \/ KindOf[r.id] \notin problems[y]
    BY <2>2 DEF Candidates, CanJudge
  <2>4. QED
    BY <1>4, <2>3 DEF LeavesAFreeJudge
<1>8. CASE Cardinality(Available(r)) # 1
  <2>1. Cardinality(Available(r)) \in Nat /\ Cardinality(Available(r)) # 0
    BY <1>2, <1>6, FS_CardinalityType, FS_EmptySet
  <2>2. Cardinality(Available(r)) > 1
    BY <1>8, <2>1
  <2>3. PICK y \in Available(r) : y # k
    BY <1>6, <2>2, OneOrMore
  <2>4. y \in Idle(judges', working')
    BY <1>1, <1>4, <2>3 DEF Available, Idle, TypeOK
  <2>5. QED
    BY <2>4 DEF LeavesAFreeJudge
<1>9. QED
  BY <1>1, <1>7, <1>8 DEF HeldBack

\* No step gives a rejudge of the queue to the last free judge.
LEMMA StepLeavesAFreeJudge ==
    ASSUME QueueInv, Next, NEW j \in judges', NEW s \in Subs, Given(j, s),
           node_map[s] \in REJUDGE_PRIORITY .. 3, ~is_disabled[j]
    PROVE  LeavesAFreeJudge(j, s)
<1> USE NonesAssumption, SetsAssumption
<1>1. TypeOK /\ QueueMatchesNodeMap
  BY DEF QueueInv
<1>2. CASE UNCHANGED sent
  BY <1>2 DEF Given
<1>3. ASSUME NEW k \in Judges, Register(k)
      PROVE  LeavesAFreeJudge(j, s)
  <2> DEFINE js == judges \cup {k}
  <2>1. /\ HandleFreeJudge(k, js, working, submission_map, sent)
        /\ UNCHANGED is_disabled
    BY <1>3 DEF Register
  <2>2. js \in SUBSET Judges
    BY <1>1 DEF TypeOK
  <2> HIDE DEF js
  <2>3. QED
    BY <1>1, <2>1, <2>2, WalkLeavesAFreeJudge DEF TypeOK
<1>4. ASSUME NEW k \in Judges, Disconnect(k)
      PROVE  LeavesAFreeJudge(j, s)
  <2> DEFINE sm == IF working[k] = NoSub THEN submission_map
                   ELSE Without(working[k])
             js == judges \ {k}
             sn == [sent EXCEPT ![k] = {}]
  <2>1. /\ UNCHANGED is_disabled
        /\ \/ \E x \in js : HandleFreeJudge(x, js, working, sm, sn)
           \/ sent' = sn /\ judges' = js
    BY <1>4 DEF Disconnect
  <2>2. /\ js \in SUBSET Judges /\ sn \in [Judges -> SUBSET Subs]
        /\ \A x \in Judges : sn[x] \subseteq sent[x]
    BY <1>1 DEF TypeOK
  <2> HIDE DEF sm, sn, js
  <2>3. ASSUME NEW x \in js, HandleFreeJudge(x, js, working, sm, sn)
        PROVE  LeavesAFreeJudge(j, s)
    <3>1. x \in Judges
      BY <2>2
    <3>2. QED
      BY <1>1, <2>1, <2>2, <2>3, <3>1, WalkLeavesAFreeJudge DEF TypeOK
  <2>4. CASE sent' = sn /\ judges' = js
    BY <2>2, <2>4 DEF Given
  <2>5. QED
    BY <2>1, <2>3, <2>4
<1>5. ASSUME NEW k \in Judges, UpdateProblems(k)
      PROVE  LeavesAFreeJudge(j, s)
  <2>1. /\ HandleFreeJudge(k, judges, working, submission_map, sent)
        /\ UNCHANGED is_disabled
    BY <1>5 DEF UpdateProblems
  <2>2. QED
    BY <1>1, <2>1, WalkLeavesAFreeJudge DEF TypeOK
<1>6. ASSUME NEW k \in Judges, NEW x \in Subs, OnJudgeFree(k, x)
      PROVE  LeavesAFreeJudge(j, s)
  <2> DEFINE sn == [sent EXCEPT ![k] = @ \ {x}]
             wk == [working EXCEPT ![k] = NoSub]
  <2>1. /\ UNCHANGED is_disabled
        /\ \/ HandleFreeJudge(k, judges, wk, Without(x), sn)
           \/ sent' = sn /\ judges' = judges
    BY <1>6 DEF OnJudgeFree, scheduler
  <2>2. /\ wk \in [Judges -> Subs \cup {NoSub}] /\ sn \in [Judges -> SUBSET Subs]
        /\ \A y \in Judges : sn[y] \subseteq sent[y]
        /\ judges \in SUBSET Judges
    BY <1>1 DEF TypeOK
  <2> HIDE DEF wk, sn
  <2>3. CASE HandleFreeJudge(k, judges, wk, Without(x), sn)
    BY <1>1, <2>1, <2>2, <2>3, WalkLeavesAFreeJudge
  <2>4. CASE sent' = sn /\ judges' = judges
    BY <2>2, <2>4 DEF Given
  <2>5. QED
    BY <2>1, <2>3, <2>4
<1>7. ASSUME NEW r \in Requests, Judge(r)
      PROVE  LeavesAFreeJudge(j, s)
  <2>1. CASE ~Known(r.id)
    <3>1. s # r.id
      BY <2>1 DEF Known, REJUDGE_PRIORITY, Priorities
    <3>2. \E k \in Available(r) : SubmitOk(k, r.id, working, sent)
      BY <1>7 DEF Judge, Given, SubmitFails, scheduler
    <3>3. QED
      BY <1>1, <3>1, <3>2 DEF SubmitOk, Given, TypeOK, Available, Candidates
  <2>2. CASE Known(r.id)
    BY <1>2, <1>7, <2>2 DEF Judge
  <2>3. QED
    BY <2>1, <2>2
<1>8. CASE \/ \E k \in Judges :
                 \/ \E kinds \in Offers : Handshake(k, kinds)
                                          \/ SupportedProblems(k, kinds)
                 \/ \E disabled \in BOOLEAN : Connected(k, disabled)
           \/ \E x \in Subs : Abort(x)
           \/ \E n \in Managed : ForceDisconnect(n)
           \/ \E n \in Managed, disabled \in BOOLEAN :
                 UpdateDisableJudge(n, disabled)
  BY <1>2, <1>8 DEF Handshake, SupportedProblems, Connected, Abort,
                    ForceDisconnect, UpdateDisableJudge
<1>9. QED
  BY <1>3, <1>4, <1>5, <1>6, <1>7, <1>8 DEF Next

\* However judges come, go and finish, and whatever else waits, no rejudge takes the
\* last free judge of the pool while another enabled one could take it later.
THEOREM RejudgesLeaveAFreeJudge == Spec => RejudgeLeavesAFreeJudge
<1>1. Init => QueueInv
  BY QueueInvInit
<1>2. QueueInv /\ [Next]_vars => QueueInv'
  BY QueueInvStep
<1> DEFINE A == \A j \in judges', s \in Subs :
          (/\ Given(j, s)
           /\ \/ node_map[s] \in REJUDGE_PRIORITY .. 3
              \/ \E r \in Requests : /\ r.id = s /\ r.judge_id = NoName
                                     /\ r.priority >= REJUDGE_PRIORITY
                                     /\ node_map[s] = NoNode /\ Judge(r)
           /\ ~is_disabled[j])
          => \/ Idle(judges', working') # {}
             \/ \A k \in judges' \ {j} :
                   is_disabled[k] \/ KindOf[s] \notin problems[k]
<1>3. QueueInv /\ [Next]_vars => [A]_vars
  <2> SUFFICES ASSUME QueueInv, Next
               PROVE  A
    OBVIOUS
  <2>1. ASSUME NEW j \in judges', NEW s \in Subs, Given(j, s), ~is_disabled[j],
               node_map[s] \in REJUDGE_PRIORITY .. 3
        PROVE  LeavesAFreeJudge(j, s)
    BY <2>1, StepLeavesAFreeJudge
  <2>2. ASSUME NEW j \in judges', NEW r \in Requests, Given(j, r.id),
               r.judge_id = NoName, r.priority >= REJUDGE_PRIORITY, Judge(r)
        PROVE  LeavesAFreeJudge(j, r.id)
    BY <2>2, RequestLeavesAFreeJudge DEF QueueInv
  <2>3. QED
    BY <2>1, <2>2 DEF LeavesAFreeJudge
<1>4. QED
  BY <1>1, <1>2, <1>3, PTL DEF Spec, RejudgeLeavesAFreeJudge
=============================================================================
