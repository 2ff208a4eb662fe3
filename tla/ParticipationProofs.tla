------------------------- MODULE ParticipationProofs -------------------------
(***************************************************************************)
(* Theorems about Participation, for any number of users, workers,         *)
(* submissions and virtual participations.                                 *)
(***************************************************************************)
EXTENDS Participation, FiniteSetTheorems, TLAPS

-----------------------------------------------------------------------------
(* The inductive invariant about rows and requests.                        *)

\* Request r may still create a participation of u: it is one of Joins(u).
MayCreate(r, u) ==
    /\ \/ r.pc \in {"join", "virtual", "create", "take", "createlive"}
       \/ r.pc = "middleware" /\ r.op = "join"
    /\ r.user = u

\* What request r has loaded is among the rows E, and a number it has read for a new
\* virtual participation follows a number in use.
Fits(r, E) ==
    /\ r \in Requests
    /\ r.pc \in {"enrol", "store", "recompute", "save", "eject", "ban"} => r.part \in E
    /\ r.pc \in {"middleware", "join", "leave", "submit", "edit"} => r.cur \in {Nowhere} \cup E
    /\ r.pc \in {"take", "createlive"} => r.part[2] \in {LIVE, SPECTATE}
    /\ r.pc = "create" =>
          /\ r.part[1] = r.user /\ r.part[2] > 0
          /\ r.part[2] = 1 \/ <<r.user, r.part[2] - 1>> \in E

WorkFits == \A w \in Workers : Fits(work[w], exists)

Numbered == \A u \in Users : \E n \in Nat : VirtualIds(u) = 1 .. n

Room == \A u \in Users : Cardinality(VirtualIds(u)) + Cardinality(Joins(u)) <= MaxVirtual

RowsInv == TypeOK /\ WorkFits /\ Numbered /\ Room

-----------------------------------------------------------------------------
(* Requests.                                                               *)

\* The fields of a request, by what it is about to do.
LEMMA RequestShape ==
    ASSUME NEW r \in Requests
    PROVE  /\ r.pc = "middleware" =>
                /\ r.op \in {"join", "leave", "submit", "edit"} /\ r.user \in Users
                /\ r.cur \in Participations \cup {Nowhere}
           /\ r.pc \in {"join", "leave", "submit", "edit"} =>
                /\ r.user \in Users /\ r.cur \in Participations \cup {Nowhere}
           /\ r.pc = "virtual" => r.user \in Users
           /\ r.pc \in {"create", "take", "createlive", "enrol"} =>
                /\ r = [pc |-> r.pc, user |-> r.user, part |-> r.part]
                /\ r.user \in Users /\ r.part \in Participations
           /\ r.pc = "savecount" => r.n \in Nat
           /\ r.pc = "store" => r.part \in Participations
           /\ r.pc = "recompute" => /\ r.part \in Participations
                                    /\ r.flag \in BOOLEAN /\ r.staff \in BOOLEAN
           /\ r.pc = "save" => /\ r.part \in Participations
                               /\ r.flag \in BOOLEAN /\ r.staff \in BOOLEAN
                               /\ r.sum \in SUBSET Subs
           /\ r.pc \in {"eject", "ban"} =>
                /\ r = [pc |-> r.pc, part |-> r.part, flag |-> r.flag]
                /\ r.part \in Participations /\ r.flag \in BOOLEAN
BY DEF Requests, Idle

\* A participation is a user and a number.
LEMMA PartShape ==
    ASSUME NEW k \in Participations
    PROVE  /\ k = <<k[1], k[2]>> /\ k[1] \in Users
           /\ k[2] \in SPECTATE .. MaxVirtual /\ k[2] \in Int
BY ParticipationAssumption DEF Participations, SPECTATE

\* A user and a number in range are a participation.
LEMMA PartIntro ==
    ASSUME NEW u \in Users, NEW n \in SPECTATE .. MaxVirtual
    PROVE  <<u, n>> \in Participations
BY DEF Participations

\* Nothing is read or created by an idle request.
LEMMA IdleFits == \A E : Fits(Idle, E)
BY DEF Fits, Idle, Requests

LEMMA IdleCreatesNothing == \A u : ~MayCreate(Idle, u)
BY DEF Idle, MayCreate

\* More rows do no harm to a request.
LEMMA FitsMore ==
    ASSUME NEW E, NEW F, E \subseteq F, NEW r, Fits(r, E)
    PROVE  Fits(r, F)
BY DEF Fits

\* One worker goes on to r, while no row disappears.
LEMMA WorkGoesOn ==
    ASSUME TypeOK, WorkFits, exists \subseteq exists',
           NEW w \in Workers, NEW r, Fits(r, exists'),
           work' = [work EXCEPT ![w] = r]
    PROVE  WorkFits' /\ work' \in [Workers -> Requests]
<1>1. \A v \in Workers : work'[v] = IF v = w THEN r ELSE work[v]
  BY DEF TypeOK
<1>2. \A v \in Workers : Fits(work'[v], exists')
  BY <1>1, FitsMore DEF WorkFits
<1>3. work' \in [Workers -> Requests]
  BY DEF TypeOK, Fits
<1>4. QED
  BY <1>2, <1>3 DEF WorkFits

-----------------------------------------------------------------------------
(* Virtual participations.                                                 *)

\* The numbers of a user are those of the rows of the user.
LEMMA VirtualIn ==
    ASSUME NEW u \in Users, exists \subseteq Participations, NEW n
    PROVE  n \in VirtualIds(u) <=> <<u, n>> \in exists /\ n > 0
<1>1. ASSUME n \in VirtualIds(u) PROVE <<u, n>> \in exists /\ n > 0
  <2>1. PICK k \in exists : k[1] = u /\ k[2] > 0 /\ n = k[2]
    BY <1>1 DEF VirtualIds
  <2>2. k = <<u, n>>
    BY <2>1, PartShape
  <2>3. QED
    BY <2>1, <2>2
<1>2. ASSUME <<u, n>> \in exists, n > 0 PROVE n \in VirtualIds(u)
  <2>1. <<u, n>>[1] = u /\ <<u, n>>[2] = n
    OBVIOUS
  <2>2. QED
    BY <1>2, <2>1 DEF VirtualIds
<1>3. QED
  BY <1>1, <1>2

\* The same after a step.
LEMMA VirtualInNext ==
    ASSUME NEW u \in Users, exists' \subseteq Participations, NEW n
    PROVE  n \in VirtualIds(u)' <=> <<u, n>> \in exists' /\ n > 0
<1>1. ASSUME n \in VirtualIds(u)' PROVE <<u, n>> \in exists' /\ n > 0
  <2>1. PICK k \in exists' : k[1] = u /\ k[2] > 0 /\ n = k[2]
    BY <1>1 DEF VirtualIds
  <2>2. k = <<u, n>>
    BY <2>1, PartShape
  <2>3. QED
    BY <2>1, <2>2
<1>2. ASSUME <<u, n>> \in exists', n > 0 PROVE n \in VirtualIds(u)'
  <2>1. <<u, n>>[1] = u /\ <<u, n>>[2] = n
    OBVIOUS
  <2>2. QED
    BY <1>2, <2>1 DEF VirtualIds
<1>3. QED
  BY <1>1, <1>2

\* The rows are finitely many.
LEMMA RowsFinite ==
    ASSUME TypeOK
    PROVE  IsFiniteSet(exists)
<1>1. IsFiniteSet(SPECTATE .. MaxVirtual)
  BY FS_Interval, ParticipationAssumption DEF SPECTATE
<1>2. IsFiniteSet(Participations)
  BY <1>1, FS_Product, ParticipationAssumption DEF Participations
<1>3. QED
  BY <1>2, FS_Subset DEF TypeOK

\* So are the live participations that count as users.
LEMMA CountedFinite ==
    ASSUME TypeOK
    PROVE  IsFiniteSet(Counted) /\ Cardinality(Counted) \in Nat
BY RowsFinite, FS_Subset, FS_CardinalityType DEF Counted

\* Numbers 1 .. n are n in number.
LEMMA NumberedCardinality ==
    ASSUME NEW u \in Users, NEW n \in Nat, VirtualIds(u) = 1 .. n
    PROVE  Cardinality(VirtualIds(u)) = n
<1>1. Cardinality(1 .. n) = IF 1 > n THEN 0 ELSE n - 1 + 1
  BY FS_Interval
<1>2. QED
  BY <1>1

\* The requests that may create a participation are finitely many.
LEMMA JoinsFinite ==
    ASSUME NEW u
    PROVE  IsFiniteSet(Joins(u)) /\ Cardinality(Joins(u)) \in Nat
<1>1. Joins(u) \in SUBSET Workers
  BY DEF Joins
<1>2. QED
  BY <1>1, FS_Subset, FS_CardinalityType, ParticipationAssumption

\* The same after a step.
LEMMA JoinsFiniteNext ==
    ASSUME NEW u
    PROVE  IsFiniteSet(Joins(u)') /\ Cardinality(Joins(u)') \in Nat
<1>1. Joins(u)' \in SUBSET Workers
  BY DEF Joins
<1>2. QED
  BY <1>1, FS_Subset, FS_CardinalityType, ParticipationAssumption

\* A request that goes on to r joins the others only if it was one of them.
LEMMA JoinsShrink ==
    ASSUME TypeOK, NEW w \in Workers, NEW r, work' = [work EXCEPT ![w] = r],
           NEW u, MayCreate(r, u) => MayCreate(work[w], u)
    PROVE  Joins(u)' \subseteq Joins(u) /\ Cardinality(Joins(u)') <= Cardinality(Joins(u))
<1>1. \A v \in Workers : work'[v] = IF v = w THEN r ELSE work[v]
  BY DEF TypeOK
<1>2. Joins(u) = {v \in Workers : MayCreate(work[v], u)}
  BY DEF Joins, MayCreate
<1>3. Joins(u)' = {v \in Workers : MayCreate(work'[v], u)}
  BY DEF Joins, MayCreate
<1>4. Joins(u)' \subseteq Joins(u)
  BY <1>1, <1>2, <1>3
<1>5. QED
  BY <1>4, JoinsFinite, FS_Subset

\* Without a new virtual participation there stays room, and numbers stay in order.
LEMMA SameNumbers ==
    ASSUME RowsInv, NEW w \in Workers, NEW r, work' = [work EXCEPT ![w] = r],
           \A u \in Users : VirtualIds(u)' = VirtualIds(u),
           \A u \in Users : MayCreate(r, u) => MayCreate(work[w], u)
    PROVE  Numbered' /\ Room'
<1>1. Numbered'
  BY DEF RowsInv, Numbered
<1>2. ASSUME NEW u \in Users
      PROVE  Cardinality(VirtualIds(u)') + Cardinality(Joins(u)') <= MaxVirtual
  <2>1. PICK n \in Nat : VirtualIds(u) = 1 .. n
    BY DEF RowsInv, Numbered
  <2>2. Cardinality(VirtualIds(u)) = n
    BY <2>1, NumberedCardinality
  <2>3. Cardinality(Joins(u)') <= Cardinality(Joins(u))
    BY JoinsShrink DEF RowsInv
  <2>4. n + Cardinality(Joins(u)) <= MaxVirtual
    BY <2>2 DEF RowsInv, Room
  <2>5. Cardinality(VirtualIds(u)') = n
    BY <2>2
  <2>6. QED
    BY <2>3, <2>4, <2>5, JoinsFinite, JoinsFiniteNext, ParticipationAssumption
<1>3. QED
  BY <1>1, <1>2 DEF Room

\* Steps that create no row leave the numbers alone.
LEMMA SameRows ==
    ASSUME exists' = exists
    PROVE  \A u \in Users : VirtualIds(u)' = VirtualIds(u)
BY DEF VirtualIds

\* A live or spectating participation has no number of its own.
LEMMA NotVirtualRow ==
    ASSUME TypeOK, NEW k \in Participations, k[2] \in {LIVE, SPECTATE},
           exists' = exists \cup {k}
    PROVE  \A u \in Users : VirtualIds(u)' = VirtualIds(u)
<1>1. exists \subseteq Participations /\ exists' \subseteq Participations
  BY DEF TypeOK
<1>2. ASSUME NEW u \in Users, NEW n PROVE n \in VirtualIds(u)' <=> n \in VirtualIds(u)
  <2>1. ASSUME n > 0 PROVE <<u, n>> # k
    <3>1. <<u, n>>[2] = n
      OBVIOUS
    <3>2. QED
      BY <2>1, <3>1 DEF LIVE, SPECTATE
  <2>2. QED
    BY <1>1, <2>1, VirtualIn, VirtualInNext
<1>3. QED
  BY <1>2

\* The row of a virtual participation whose number was free is the next one, however
\* long ago the number was read.
LEMMA NewVirtualRow ==
    ASSUME RowsInv, NEW w \in Workers, work[w].pc = "create", work[w].part \notin exists,
           exists' = exists \cup {work[w].part}, EnrolAs(w, work[w].part)
    PROVE  Numbered' /\ Room'
<1> SUFFICES ASSUME NEW k, NEW u, NEW m, k = work[w].part, u = k[1], m = k[2]
             PROVE  Numbered' /\ Room'
  OBVIOUS
<1>1. work[w] \in Requests /\ Fits(work[w], exists)
  BY DEF RowsInv, WorkFits, Fits
<1>2. k \in Participations /\ k = <<u, m>> /\ u \in Users /\ m \in Int
  BY <1>1, RequestShape, PartShape
<1>3. u = work[w].user /\ m > 0 /\ (m = 1 \/ <<u, m - 1>> \in exists)
  BY <1>1 DEF Fits
<1>4. exists \subseteq Participations /\ exists' \subseteq Participations
  BY <1>2 DEF RowsInv, TypeOK
<1>5. PICK n \in Nat : VirtualIds(u) = 1 .. n
  BY <1>2 DEF RowsInv, Numbered
<1>6. m = n + 1
  <2>1. m \notin 1 .. n
    BY <1>2, <1>4, <1>5, VirtualIn
  <2>2. m = 1 \/ m - 1 \in 1 .. n
    <3>1. CASE m = 1
      BY <3>1
    <3>2. CASE m # 1 /\ <<u, m - 1>> \in exists
      <4>1. m - 1 > 0
        BY <1>2, <1>3, <3>2
      <4>2. m - 1 \in VirtualIds(u)
        BY <1>2, <1>4, <3>2, <4>1, VirtualIn
      <4>3. QED
        BY <4>2, <1>5
    <3>3. QED
      BY <1>3, <3>1, <3>2
  <2>3. QED
    BY <1>2, <1>3, <2>1, <2>2
<1>7. VirtualIds(u)' = 1 .. (n + 1)
  <2>1. ASSUME NEW i PROVE i \in VirtualIds(u)' <=> i \in 1 .. (n + 1)
    <3>1. i \in VirtualIds(u)' <=> <<u, i>> \in exists' /\ i > 0
      BY <1>2, <1>4, VirtualInNext
    <3>2. <<u, i>> \in exists' <=> <<u, i>> \in exists \/ i = m
      BY <1>2
    <3>3. i \in 1 .. n <=> <<u, i>> \in exists /\ i > 0
      BY <1>2, <1>4, <1>5, VirtualIn
    <3>4. i \in 1 .. (n + 1) <=> i \in 1 .. n \/ i = n + 1
      OBVIOUS
    <3>5. QED
      BY <1>6, <3>1, <3>2, <3>3, <3>4
  <2>2. QED
    BY <2>1
<1>8. ASSUME NEW v \in Users, v # u PROVE VirtualIds(v)' = VirtualIds(v)
  <2>1. ASSUME NEW i PROVE i \in VirtualIds(v)' <=> i \in VirtualIds(v)
    <3>1. <<v, i>> # k
      BY <1>2, <1>8
    <3>2. QED
      BY <3>1, <1>4, VirtualIn, VirtualInNext
  <2>2. QED
    BY <2>1
<1>9. Numbered'
  <2>1. ASSUME NEW v \in Users PROVE \E i \in Nat : VirtualIds(v)' = 1 .. i
    <3>1. CASE v = u
      BY <3>1, <1>7
    <3>2. CASE v # u
      BY <3>2, <1>8 DEF RowsInv, Numbered
    <3>3. QED
      BY <3>1, <3>2
  <2>2. QED
    BY <2>1 DEF Numbered
<1>10. /\ Joins(u)' \subseteq Joins(u) \ {w}
       /\ w \in Joins(u)
  <2>1. \A v \in Workers : work'[v] = IF v = w THEN [pc |-> "enrol", user |-> u, part |-> k]
                                     ELSE work[v]
    BY DEF RowsInv, TypeOK, EnrolAs
  <2>2. QED
    BY <2>1, <1>3 DEF Joins
<1>11. Cardinality(Joins(u)') <= Cardinality(Joins(u)) - 1
  <2>1. Cardinality(Joins(u) \ {w}) = Cardinality(Joins(u)) - 1
    BY <1>10, JoinsFinite, FS_RemoveElement
  <2>2. IsFiniteSet(Joins(u) \ {w})
    BY JoinsFinite, FS_RemoveElement
  <2>3. QED
    BY <1>10, <2>1, <2>2, FS_Subset
<1>12. ASSUME NEW v \in Users
       PROVE  Cardinality(VirtualIds(v)') + Cardinality(Joins(v)') <= MaxVirtual
  <2>1. CASE v = u
    <3>1. Cardinality(VirtualIds(u)) = n
      BY <1>2, <1>5, NumberedCardinality
    <3>2. Cardinality(VirtualIds(u)') = n + 1
      BY <1>7, FS_Interval
    <3>3. n + Cardinality(Joins(u)) <= MaxVirtual
      BY <1>2, <3>1 DEF RowsInv, Room
    <3>4. QED
      BY <2>1, <3>2, <3>3, <1>11, JoinsFinite, JoinsFiniteNext, ParticipationAssumption
  <2>2. CASE v # u
    <3>1. ~MayCreate([pc |-> "enrol", user |-> u, part |-> k], v)
      BY DEF MayCreate
    <3>2. Cardinality(Joins(v)') <= Cardinality(Joins(v))
      BY <3>1, JoinsShrink DEF RowsInv, EnrolAs
    <3>3. Cardinality(VirtualIds(v)') = Cardinality(VirtualIds(v))
      BY <2>2, <1>8
    <3>4. PICK i \in Nat : VirtualIds(v) = 1 .. i
      BY DEF RowsInv, Numbered
    <3>5. Cardinality(VirtualIds(v)) = i
      BY <3>4, NumberedCardinality
    <3>6. i + Cardinality(Joins(v)) <= MaxVirtual
      BY <3>5 DEF RowsInv, Room
    <3>7. QED
      BY <3>2, <3>3, <3>5, <3>6, JoinsFinite, JoinsFiniteNext, ParticipationAssumption
  <2>3. QED
    BY <2>1, <2>2
<1>13. QED
  BY <1>9, <1>12 DEF Room

\* A request to join enters only while there is room for its participation.
LEMMA EnterKeepsRoom ==
    ASSUME RowsInv, NEW w \in Workers, NEW u \in Users, NEW op \in Asked, Enter(w, u, op)
    PROVE  Numbered' /\ Room'
<1> DEFINE r == [pc |-> "middleware", op |-> op, user |-> u, cur |-> current[u]]
<1>1. work' = [work EXCEPT ![w] = r] /\ exists' = exists
  BY DEF Enter, rows
<1>2. \A v \in Users : VirtualIds(v)' = VirtualIds(v)
  BY <1>1, SameRows
<1>3. CASE op # "join"
  <2>1. \A v \in Users : ~MayCreate(r, v)
    BY <1>3 DEF MayCreate
  <2>2. QED
    BY <1>1, <1>2, <2>1, SameNumbers
<1>4. CASE op = "join"
  <2>1. Numbered'
    BY <1>2 DEF RowsInv, Numbered
  <2>2. ASSUME NEW v \in Users
        PROVE  Cardinality(VirtualIds(v)') + Cardinality(Joins(v)') <= MaxVirtual
    <3>1. PICK n \in Nat : VirtualIds(v) = 1 .. n
      BY DEF RowsInv, Numbered
    <3>2. Cardinality(VirtualIds(v)) = n /\ Cardinality(VirtualIds(v)') = n
      BY <3>1, <1>2, NumberedCardinality
    <3>3. CASE v = u
      <4>1. n + Cardinality(Joins(u)) < MaxVirtual
        BY <1>4, <3>2, <3>3 DEF Enter
      <4>2. \A x \in Workers : work'[x] = IF x = w THEN r ELSE work[x]
        BY <1>1 DEF RowsInv, TypeOK
      <4>3. Joins(u)' \subseteq Joins(u) \cup {w}
        BY <4>2 DEF Joins
      <4>4. Cardinality(Joins(u) \cup {w}) <= Cardinality(Joins(u)) + 1
            /\ IsFiniteSet(Joins(u) \cup {w})
        <5>1. IsFiniteSet(Joins(u)) /\ Cardinality(Joins(u)) \in Nat
          BY JoinsFinite
        <5>2. /\ IsFiniteSet(Joins(u) \cup {w})
              /\ Cardinality(Joins(u) \cup {w}) = IF w \in Joins(u) THEN Cardinality(Joins(u))
                                                  ELSE Cardinality(Joins(u)) + 1
          BY <5>1, FS_AddElement
        <5>3. QED
          BY <5>1, <5>2
      <4>5. Cardinality(Joins(u)') <= Cardinality(Joins(u) \cup {w})
        BY <4>3, <4>4, FS_Subset
      <4>6. Cardinality(Joins(u) \cup {w}) \in Nat
        BY <4>4, FS_CardinalityType
      <4>7. QED
        BY <3>2, <3>3, <4>1, <4>4, <4>5, <4>6, JoinsFinite, JoinsFiniteNext,
           ParticipationAssumption
    <3>4. CASE v # u
      <4>1. ~MayCreate(r, v)
        BY <3>4 DEF MayCreate
      <4>2. Cardinality(Joins(v)') <= Cardinality(Joins(v))
        BY <1>1, <4>1, JoinsShrink DEF RowsInv
      <4>3. n + Cardinality(Joins(v)) <= MaxVirtual
        BY <3>2 DEF RowsInv, Room
      <4>4. QED
        BY <3>2, <4>2, <4>3, JoinsFinite, JoinsFiniteNext, ParticipationAssumption
    <3>5. QED
      BY <3>3, <3>4
  <2>3. QED
    BY <2>1, <2>2 DEF Room
<1>5. QED
  BY <1>3, <1>4

-----------------------------------------------------------------------------
(* The invariant is kept.  Steps that add no row are told apart from those *)
(* that do.                                                                *)

\* What is left to show of a step of worker w that goes on to r.
LEMMA StepKeepsRows ==
    ASSUME RowsInv, exists' = exists, NEW w \in Workers, NEW r,
           work' = [work EXCEPT ![w] = r], Fits(r, exists),
           \A u \in Users : MayCreate(r, u) => MayCreate(work[w], u),
           phase' \in {"before", "running", "over"}, expired' = expired, dq' \subseteq exists,
           score' \in [Participations -> {Disqualified} \cup SUBSET Subs],
           current' \in [Users -> {Nowhere} \cup exists],
           banned' \subseteq Users, user_count' \in Nat,
           csub' \in [Subs -> {Nowhere} \cup exists], graded' \subseteq Subs
    PROVE  RowsInv'
<1>1. WorkFits' /\ work' \in [Workers -> Requests]
  BY WorkGoesOn DEF RowsInv
<1>2. Numbered' /\ Room'
  BY SameRows, SameNumbers
<1>3. TypeOK'
  BY <1>1 DEF RowsInv, TypeOK
<1>4. QED
  BY <1>1, <1>2, <1>3 DEF RowsInv

\* Worker w creates the row of k, or finds it, and goes on to r.
LEMMA NewKeepsRows ==
    ASSUME RowsInv, NEW k \in Participations, New(k), NEW w \in Workers, NEW r,
           work' = [work EXCEPT ![w] = r], Fits(r, exists'), UNCHANGED clock,
           Numbered', Room'
    PROVE  RowsInv'
<1>1. exists' = exists \cup {k} /\ exists \subseteq exists'
  BY DEF New
<1>2. WorkFits' /\ work' \in [Workers -> Requests]
  BY <1>1, WorkGoesOn DEF RowsInv
<1>3. TypeOK'
  BY <1>1, <1>2 DEF RowsInv, TypeOK, New, clock
<1>4. QED
  BY <1>2, <1>3 DEF RowsInv

\* What is left of a join after its row is there.
LEMMA EnrolFits ==
    ASSUME NEW E, NEW k \in E, E \subseteq Participations
    PROVE  Fits([pc |-> "enrol", user |-> k[1], part |-> k], E)
BY PartShape DEF Fits, Requests

\* Requests of a user.
LEMMA RequestsKeepRows ==
    ASSUME RowsInv, NEW w \in Workers,
           \/ Middleware(w) \/ JoinCheck(w) \/ ReadVirtual(w) \/ Enrol(w)
           \/ CountUsers(w) \/ SaveCount(w) \/ Leave(w) \/ SaveProfile(w)
           \/ SubmitCheck(w) \/ Store(w)
    PROVE  RowsInv'
<1> DEFINE r == work[w]
<1> USE RequestShape
<1>1. TypeOK /\ r \in Requests /\ Fits(r, exists)
  BY DEF RowsInv, TypeOK, WorkFits
<1>2. CASE Middleware(w)
  <2> DEFINE ended == r.cur # Nowhere /\ Ended(r.cur)
             next == [pc |-> r.op, user |-> r.user, cur |-> IF ended THEN Nowhere ELSE r.cur]
  <2>1. Fits(next, exists)
    BY <1>1, <1>2 DEF Middleware, Fits, Requests
  <2>2. \A u \in Users : MayCreate(next, u) => MayCreate(r, u)
    BY <1>1, <1>2 DEF Middleware, MayCreate
  <2>3. current' \in [Users -> {Nowhere} \cup exists]
    BY <1>1, <1>2 DEF Middleware, TypeOK
  <2>4. QED
    BY <1>1, <1>2, <2>1, <2>2, <2>3, StepKeepsRows DEF Middleware, TypeOK, clock
<1>3. CASE JoinCheck(w)
  <2>1. PICK next : /\ work' = [work EXCEPT ![w] = next]
                    /\ \/ next = [pc |-> "virtual", user |-> r.user]
                       \/ next = [pc |-> "take", user |-> r.user, part |-> <<r.user, LIVE>>]
                       \/ next = [pc |-> "take", user |-> r.user, part |-> <<r.user, SPECTATE>>]
                       \/ next = Idle
    BY <1>3 DEF JoinCheck
  <2>2. r.user \in Users /\ r.pc = "join"
    BY <1>1, <1>3 DEF JoinCheck
  <2>3. <<r.user, LIVE>> \in Participations /\ <<r.user, SPECTATE>> \in Participations
    BY <2>2, ParticipationAssumption DEF Participations, LIVE, SPECTATE
  <2>4. Fits(next, exists)
    BY <2>1, <2>2, <2>3, IdleFits DEF Fits, Requests
  <2>5. \A u \in Users : MayCreate(next, u) => MayCreate(r, u)
    BY <2>1, <2>2 DEF MayCreate, Idle
  <2>6. QED
    BY <1>1, <1>3, <2>1, <2>4, <2>5, StepKeepsRows DEF JoinCheck, TypeOK, clock, rows
<1>4. CASE ReadVirtual(w)
  <2>1. r.user \in Users /\ r.pc = "virtual"
    BY <1>1, <1>4 DEF ReadVirtual
  <2> SUFFICES ASSUME NEW u \in Users, u = r.user PROVE RowsInv'
    BY <2>1
  <2>2. PICK n \in Nat : VirtualIds(u) = 1 .. n
    BY DEF RowsInv, Numbered
  <2>3. NextVirtual(u) = n + 1
    <3>1. n \in VirtualIds(u) \cup {0} /\ \A y \in VirtualIds(u) \cup {0} : n >= y
      BY <2>2
    <3>2. \A x \in VirtualIds(u) \cup {0} :
             (\A y \in VirtualIds(u) \cup {0} : x >= y) => x = n
      BY <2>2, <3>1
    <3>3. Max(VirtualIds(u) \cup {0}) = n
      BY <3>1, <3>2 DEF Max
    <3>4. QED
      BY <3>3 DEF NextVirtual
  <2>4. n + 1 <= MaxVirtual
    <3>1. w \in Joins(u)
      BY <2>1 DEF Joins
    <3>2. Cardinality(Joins(u)) # 0
      BY <3>1, JoinsFinite, FS_EmptySet
    <3>3. n + Cardinality(Joins(u)) <= MaxVirtual
      BY <2>2, NumberedCardinality DEF RowsInv, Room
    <3>4. QED
      BY <3>2, <3>3, JoinsFinite, ParticipationAssumption
  <2> DEFINE next == [pc |-> "create", user |-> u, part |-> <<u, NextVirtual(u)>>]
  <2>5. <<u, n + 1>> \in Participations
    BY <2>4, ParticipationAssumption DEF Participations, SPECTATE
  <2>6. n + 1 = 1 \/ <<u, n>> \in exists
    BY <2>2, <1>1, VirtualIn DEF TypeOK
  <2>7. Fits(next, exists)
    <3>1. next \in Requests
      BY <2>3, <2>5 DEF Requests
    <3>2. next.part[1] = u /\ next.part[2] = n + 1 /\ n + 1 > 0 /\ n + 1 - 1 = n
      BY <2>3
    <3>3. QED
      BY <3>1, <3>2, <2>6 DEF Fits
  <2>8. \A v \in Users : MayCreate(next, v) => MayCreate(r, v)
    BY <2>1 DEF MayCreate
  <2>9. work' = [work EXCEPT ![w] = next]
    BY <1>4 DEF ReadVirtual
  <2>10. QED
    BY <1>1, <1>4, <2>7, <2>8, <2>9, StepKeepsRows DEF ReadVirtual, TypeOK, clock, rows
<1>5. CASE Enrol(w)
  <2>1. Fits([pc |-> "count"], exists)
    BY DEF Fits, Requests
  <2>2. \A u \in Users : ~MayCreate([pc |-> "count"], u)
    BY DEF MayCreate
  <2>3. r.part \in exists
    BY <1>1, <1>5 DEF Enrol, Fits
  <2>4. QED
    BY <1>1, <1>5, <2>1, <2>2, <2>3, StepKeepsRows DEF Enrol, TypeOK, clock
<1>6. CASE CountUsers(w)
  <2> DEFINE next == [pc |-> "savecount", n |-> Cardinality(Counted)]
  <2>1. Cardinality(Counted) \in Nat
    BY <1>1, CountedFinite
  <2>2. Fits(next, exists)
    BY <2>1 DEF Fits, Requests
  <2>3. \A u \in Users : ~MayCreate(next, u)
    BY DEF MayCreate
  <2>4. QED
    BY <1>1, <1>6, <2>2, <2>3, StepKeepsRows DEF CountUsers, TypeOK, clock, rows
<1>7. CASE SaveCount(w)
  <2>1. r.n \in Nat
    BY <1>1, <1>7 DEF SaveCount
  <2>2. QED
    BY <1>1, <1>7, <2>1, IdleFits, IdleCreatesNothing, StepKeepsRows
       DEF SaveCount, TypeOK, clock
<1>8. CASE Leave(w)
  BY <1>1, <1>8, IdleFits, IdleCreatesNothing, StepKeepsRows DEF Leave, TypeOK, clock
<1>11. CASE SaveProfile(w)
  <2>1. current' \in [Users -> {Nowhere} \cup exists]
    BY <1>1, <1>11 DEF SaveProfile, TypeOK, Fits
  <2>2. QED
    BY <1>1, <1>11, <2>1, IdleFits, IdleCreatesNothing, StepKeepsRows
       DEF SaveProfile, TypeOK, clock
<1>9. CASE SubmitCheck(w)
  <2> DEFINE next == IF r.cur # Nowhere /\ Cardinality(SubmissionsOf(r.cur)) < MaxSubmissions
                     THEN [pc |-> "store", part |-> r.cur] ELSE Idle
  <2>1. r.cur \in {Nowhere} \cup exists /\ r.cur \in Participations \cup {Nowhere}
    BY <1>1, <1>9 DEF SubmitCheck, Fits
  <2>2. Fits(next, exists)
    BY <2>1, IdleFits DEF Fits, Requests
  <2>3. \A u \in Users : ~MayCreate(next, u)
    BY DEF MayCreate, Idle
  <2>4. QED
    BY <1>1, <1>9, <2>2, <2>3, StepKeepsRows DEF SubmitCheck, TypeOK, clock, rows
<1>10. CASE Store(w)
  <2>1. r.part \in exists
    BY <1>1, <1>10 DEF Store, Fits
  <2>2. csub' \in [Subs -> {Nowhere} \cup exists]
    BY <1>1, <1>10, <2>1 DEF Store, TypeOK
  <2>3. QED
    BY <1>1, <1>10, <2>2, IdleFits, IdleCreatesNothing, StepKeepsRows DEF Store, TypeOK, clock
<1>12. QED
  BY <1>2, <1>3, <1>4, <1>5, <1>6, <1>7, <1>8, <1>9, <1>10, <1>11

\* Requests that create a row.
LEMMA CreationsKeepRows ==
    ASSUME RowsInv, NEW w \in Workers, CreateVirtual(w) \/ TakePart(w) \/ CreateLive(w)
    PROVE  RowsInv'
<1> SUFFICES ASSUME NEW k, k = work[w].part PROVE RowsInv'
  OBVIOUS
<1>1. TypeOK /\ work[w] \in Requests /\ Fits(work[w], exists) /\ exists \subseteq Participations
  BY DEF RowsInv, TypeOK, WorkFits
<1>2. /\ work[w].pc \in {"create", "take", "createlive"}
      /\ k \in Participations /\ k[1] \in Users
  BY <1>1, RequestShape, PartShape DEF CreateVirtual, TakePart, CreateLive
<1> DEFINE enrol(x) == [pc |-> "enrol", user |-> x[1], part |-> x]
<1>3. \A x : \A v \in Users : ~MayCreate(enrol(x), v)
  BY DEF MayCreate
<1>4. CASE CreateVirtual(w)
  <2>1. CASE k \in exists
    <3> DEFINE next == [pc |-> "virtual", user |-> k[1]]
    <3>1. work[w].pc = "create" /\ work[w].user = k[1]
      BY <1>1, <1>4 DEF CreateVirtual, Fits
    <3>2. Fits(next, exists)
      BY <1>2 DEF Fits, Requests
    <3>3. \A v \in Users : MayCreate(next, v) => MayCreate(work[w], v)
      BY <3>1 DEF MayCreate
    <3>4. QED
      BY <1>1, <1>4, <2>1, <3>2, <3>3, StepKeepsRows DEF CreateVirtual, TypeOK, clock, rows
  <2>2. CASE k \notin exists
    <3>1. New(k) /\ EnrolAs(w, k) /\ UNCHANGED clock /\ work[w].pc = "create"
      BY <1>4, <2>2 DEF CreateVirtual
    <3>2. exists' = exists \cup {k}
      BY <3>1 DEF New
    <3>3. Numbered' /\ Room'
      BY <2>2, <3>1, <3>2, NewVirtualRow
    <3>4. Fits(enrol(k), exists')
      BY <1>1, <1>2, <3>2, EnrolFits
    <3>5. QED
      BY <1>2, <3>1, <3>3, <3>4, NewKeepsRows DEF EnrolAs
  <2>3. QED
    BY <2>1, <2>2
<1>5. CASE TakePart(w)
  <2> SUFFICES ASSUME NEW s, s = <<k[1], SPECTATE>> PROVE RowsInv'
    OBVIOUS
  <2>1. /\ s \in Participations /\ s[2] = SPECTATE
        /\ UNCHANGED clock
    BY <1>2, <1>5, ParticipationAssumption DEF Participations, TakePart, SPECTATE
  <2>2. CASE k \in exists /\ EnrolAs(w, k) /\ UNCHANGED rows
    <3>1. Fits(enrol(k), exists)
      BY <1>1, <2>2, EnrolFits
    <3>2. QED
      BY <1>1, <1>3, <2>1, <2>2, <3>1, StepKeepsRows DEF EnrolAs, TypeOK, clock, rows
  <2>3. CASE EnrolAs(w, s) /\ New(s)
    <3>1. exists' = exists \cup {s}
      BY <2>3 DEF New
    <3>2. \A v \in Users : VirtualIds(v)' = VirtualIds(v)
      BY <1>1, <2>1, <3>1, NotVirtualRow
    <3>3. Numbered' /\ Room'
      BY <1>3, <2>3, <3>2, SameNumbers DEF EnrolAs
    <3>4. Fits(enrol(s), exists')
      BY <1>1, <2>1, <3>1, EnrolFits
    <3>5. QED
      BY <2>1, <2>3, <3>3, <3>4, NewKeepsRows DEF EnrolAs
  <2>4. CASE /\ work[w].pc = "take" /\ UNCHANGED rows
             /\ work' = [work EXCEPT ![w].pc = "createlive"]
    <3> DEFINE next == [work[w] EXCEPT !.pc = "createlive"]
    <3>1. next = [pc |-> "createlive", user |-> work[w].user, part |-> k]
      BY <1>1, <2>4, RequestShape
    <3>2. Fits(next, exists)
      BY <1>1, <1>2, <2>4, <3>1, RequestShape DEF Fits, Requests
    <3>3. \A v \in Users : MayCreate(next, v) => MayCreate(work[w], v)
      BY <2>4, <3>1 DEF MayCreate
    <3>4. work' = [work EXCEPT ![w] = next]
      BY <2>4
    <3>5. QED
      BY <1>1, <2>1, <2>4, <3>2, <3>3, <3>4, StepKeepsRows DEF TypeOK, clock, rows
  <2>5. CASE UNCHANGED rows /\ work' = [work EXCEPT ![w] = Idle]
    BY <1>1, <2>1, <2>5, IdleFits, IdleCreatesNothing, StepKeepsRows DEF TypeOK, clock, rows
  <2>6. QED
    BY <1>5, <2>2, <2>3, <2>4, <2>5 DEF TakePart
<1>6. CASE CreateLive(w)
  <2>1. UNCHANGED clock /\ k[2] \in {LIVE, SPECTATE}
    BY <1>1, <1>6 DEF CreateLive, Fits
  <2>2. CASE k \in exists
    BY <1>1, <1>6, <2>1, <2>2, IdleFits, IdleCreatesNothing, StepKeepsRows
       DEF CreateLive, TypeOK, clock, rows
  <2>3. CASE k \notin exists
    <3>1. New(k) /\ EnrolAs(w, k)
      BY <1>6, <2>3 DEF CreateLive
    <3>2. exists' = exists \cup {k}
      BY <3>1 DEF New
    <3>3. \A v \in Users : VirtualIds(v)' = VirtualIds(v)
      BY <1>1, <1>2, <2>1, <3>2, NotVirtualRow
    <3>4. Numbered' /\ Room'
      BY <1>3, <3>1, <3>3, SameNumbers DEF EnrolAs
    <3>5. Fits(enrol(k), exists')
      BY <1>1, <1>2, <3>2, EnrolFits
    <3>6. QED
      BY <1>2, <2>1, <3>1, <3>4, <3>5, NewKeepsRows DEF EnrolAs
  <2>4. QED
    BY <2>2, <2>3
<1>7. QED
  BY <1>4, <1>5, <1>6

\* Scores and disqualification.
LEMMA ScoringKeepsRows ==
    ASSUME RowsInv, NEW w \in Workers,
           \/ \E s \in Subs : Grade(w, s)
           \/ \E k \in Rescored : Rescore(w, k)
           \/ \E k \in Judged : Toggle(w, k)
           \/ AddUp(w) \/ Save(w) \/ Eject(w) \/ Ban(w)
    PROVE  RowsInv'
<1> USE RequestShape
<1>1. TypeOK /\ work[w] \in Requests /\ Fits(work[w], exists) /\ exists \subseteq Participations
  BY DEF RowsInv, TypeOK, WorkFits
<1>2. ASSUME NEW k \in exists, NEW flag \in BOOLEAN, NEW staff \in BOOLEAN,
             Recompute(w, k, flag, staff), UNCHANGED clock,
             UNCHANGED <<exists, dq, score, current, banned, user_count, csub>>,
             graded' \subseteq Subs
      PROVE  RowsInv'
  <2> DEFINE next == [pc |-> "recompute", part |-> k, flag |-> flag, staff |-> staff]
  <2>1. Fits(next, exists)
    BY <1>1 DEF Fits, Requests
  <2>2. \A u \in Users : ~MayCreate(next, u)
    BY DEF MayCreate
  <2>3. QED
    BY <1>1, <1>2, <2>1, <2>2, StepKeepsRows DEF Recompute, TypeOK, clock
<1>3. CASE \E s \in Subs : Grade(w, s)
  <2>1. PICK s \in Subs : Grade(w, s)
    BY <1>3
  <2>2. csub[s] \in exists
    BY <1>1, <2>1 DEF Grade, TypeOK
  <2>3. (csub[s] \in dq) \in BOOLEAN /\ FALSE \in BOOLEAN
    OBVIOUS
  <2>4. graded' \subseteq Subs
    BY <1>1, <2>1 DEF Grade, TypeOK
  <2>5. QED
    BY <1>2, <2>1, <2>2, <2>3, <2>4 DEF Grade
<1>4. CASE \E k \in Rescored : Rescore(w, k)
  <2>1. PICK k \in exists : Rescore(w, k)
    BY <1>4 DEF Rescore
  <2>2. (k \in dq) \in BOOLEAN /\ FALSE \in BOOLEAN
    OBVIOUS
  <2>3. QED
    BY <1>1, <1>2, <2>1, <2>2 DEF Rescore, rows, TypeOK
<1>5. CASE \E k \in Judged : Toggle(w, k)
  <2>1. PICK k \in exists : Toggle(w, k)
    BY <1>5 DEF Toggle
  <2>2. (k \notin dq) \in BOOLEAN /\ TRUE \in BOOLEAN
    OBVIOUS
  <2>3. QED
    BY <1>1, <1>2, <2>1, <2>2 DEF Toggle, rows, TypeOK
<1>6. CASE AddUp(w)
  <2> DEFINE r == work[w]
             next == [pc |-> "save", part |-> r.part, flag |-> r.flag, staff |-> r.staff,
                      sum |-> Counting(r.part)]
  <2>1. Counting(r.part) \in SUBSET Subs
    BY DEF Counting, SubmissionsOf
  <2>2. Fits(next, exists)
    BY <1>1, <1>6, <2>1 DEF AddUp, Fits, Requests
  <2>3. \A u \in Users : ~MayCreate(next, u)
    BY DEF MayCreate
  <2>4. QED
    BY <1>1, <1>6, <2>2, <2>3, StepKeepsRows DEF AddUp, TypeOK, clock, rows
<1>7. CASE Save(w)
  <2> DEFINE r == work[w]
             next == IF r.staff THEN [pc |-> "eject", part |-> r.part, flag |-> r.flag]
                     ELSE Idle
  <2>1. r.pc = "save" /\ r.part \in exists
    BY <1>1, <1>7 DEF Save, Fits
  <2>2. Fits(next, exists)
    BY <1>1, <2>1, IdleFits DEF Fits, Requests
  <2>3. \A u \in Users : ~MayCreate(next, u)
    BY DEF MayCreate, Idle
  <2>4. dq' \subseteq exists
    BY <1>1, <1>7, <2>1 DEF Save, Flagged, TypeOK
  <2>5. score' \in [Participations -> {Disqualified} \cup SUBSET Subs]
    <3>1. ScoreOf(r.flag, r.sum) \in {Disqualified} \cup SUBSET Subs
      BY <1>1, <2>1 DEF ScoreOf
    <3>2. QED
      BY <1>1, <1>7, <3>1 DEF Save, TypeOK
  <2>6. QED
    BY <1>1, <1>7, <2>2, <2>3, <2>4, <2>5, StepKeepsRows DEF Save, TypeOK, clock
<1>8. CASE Eject(w)
  <2> DEFINE next == [work[w] EXCEPT !.pc = "ban"]
  <2>1. next = [pc |-> "ban", part |-> work[w].part, flag |-> work[w].flag]
    BY <1>1, <1>8 DEF Eject
  <2>2. Fits(next, exists)
    BY <1>1, <1>8, <2>1 DEF Eject, Fits, Requests
  <2>3. \A u \in Users : ~MayCreate(next, u)
    BY <2>1 DEF MayCreate
  <2>4. work' = [work EXCEPT ![w] = next]
    BY <1>8 DEF Eject
  <2>5. current' \in [Users -> {Nowhere} \cup exists]
    BY <1>1, <1>8 DEF Eject, TypeOK
  <2>6. QED
    BY <1>1, <1>8, <2>2, <2>3, <2>4, <2>5, StepKeepsRows DEF Eject, TypeOK, clock
<1>9. CASE Ban(w)
  <2>1. work[w].part[1] \in Users
    BY <1>1, <1>9, PartShape DEF Ban
  <2>2. banned' \subseteq Users
    BY <1>1, <1>9, <2>1 DEF Ban, TypeOK
  <2>3. QED
    BY <1>1, <1>9, <2>2, IdleFits, IdleCreatesNothing, StepKeepsRows DEF Ban, TypeOK, clock
<1>10. QED
  BY <1>3, <1>4, <1>5, <1>6, <1>7, <1>8, <1>9

\* Nothing happens to requests when time goes on.
LEMMA TimeKeepsRows ==
    ASSUME RowsInv, Tick \/ \E k \in Participations : Expire(k)
    PROVE  RowsInv'
<1>1. UNCHANGED <<rows, work>>
  BY DEF Tick, Expire
<1>2. TypeOK'
  BY <1>1 DEF RowsInv, TypeOK, Tick, Expire, rows
<1>3. WorkFits'
  BY <1>1 DEF RowsInv, WorkFits, rows
<1>4. Numbered' /\ Room'
  BY <1>1 DEF RowsInv, Numbered, Room, VirtualIds, Joins, rows
<1>5. QED
  BY <1>2, <1>3, <1>4 DEF RowsInv

\* A request arrives.
LEMMA EnterKeepsRows ==
    ASSUME RowsInv, NEW w \in Workers, NEW u \in Users, NEW op \in Asked, Enter(w, u, op)
    PROVE  RowsInv'
<1> DEFINE r == [pc |-> "middleware", op |-> op, user |-> u, cur |-> current[u]]
<1>1. Numbered' /\ Room'
  BY EnterKeepsRoom
<1>2. Fits(r, exists)
  BY BoundsAssumption DEF Fits, Requests, RowsInv, TypeOK
<1>3. work' = [work EXCEPT ![w] = r] /\ UNCHANGED <<clock, rows>>
  BY DEF Enter
<1>4. WorkFits' /\ work' \in [Workers -> Requests]
  BY <1>2, <1>3, WorkGoesOn DEF RowsInv, rows
<1>5. TypeOK'
  BY <1>3, <1>4 DEF RowsInv, TypeOK, rows, clock
<1>6. QED
  BY <1>1, <1>4, <1>5 DEF RowsInv

LEMMA RowsInit == Init => RowsInv
<1> SUFFICES ASSUME Init PROVE RowsInv
  OBVIOUS
<1>1. TypeOK
  BY DEF Init, TypeOK, Requests
<1>2. WorkFits
  BY IdleFits DEF Init, WorkFits
<1>3. \A u \in Users : VirtualIds(u) = {} /\ Joins(u) = {}
  BY DEF Init, VirtualIds, Joins, Idle
<1>4. Numbered
  <2>1. 1 .. 0 = {}
    OBVIOUS
  <2>2. QED
    BY <1>3, <2>1 DEF Numbered
<1>5. Room
  BY <1>3, FS_EmptySet, ParticipationAssumption DEF Room
<1>6. QED
  BY <1>1, <1>2, <1>4, <1>5 DEF RowsInv

LEMMA RowsStep == RowsInv /\ [Next]_vars => RowsInv'
<1> SUFFICES ASSUME RowsInv, [Next]_vars PROVE RowsInv'
  OBVIOUS
<1>1. CASE UNCHANGED vars
  BY <1>1 DEF vars, RowsInv, TypeOK, WorkFits, Numbered, Room, VirtualIds, Joins
<1>2. CASE Tick \/ \E k \in Participations : Expire(k)
  BY <1>2, TimeKeepsRows
<1>3. ASSUME NEW w \in Workers, \E u \in Users, op \in Asked : Enter(w, u, op)
      PROVE  RowsInv'
  BY <1>3, EnterKeepsRows
<1>4. ASSUME NEW w \in Workers,
             \/ \E s \in Subs : Grade(w, s)
             \/ \E k \in Rescored : Rescore(w, k)
             \/ \E k \in Judged : Toggle(w, k)
      PROVE  RowsInv'
  BY <1>4, ScoringKeepsRows
<1>5. ASSUME NEW w \in Workers, Step(w) PROVE RowsInv'
  BY <1>5, RequestsKeepRows, CreationsKeepRows, ScoringKeepsRows DEF Step
<1>6. QED
  BY <1>1, <1>2, <1>3, <1>4, <1>5 DEF Next

\* Every request works on rows that exist, and virtual numbers stay in order with room
\* for the joins under way.
THEOREM RowsInvariant == Spec => []RowsInv
<1>1. Init => RowsInv
  BY RowsInit
<1>2. RowsInv /\ [Next]_vars => RowsInv'
  BY RowsStep
<1>3. QED
  BY <1>1, <1>2, PTL DEF Spec

\* The shape of rows and requests, for any number of users, workers and participations.
THEOREM TypeCorrect == Spec => []TypeOK
<1>1. RowsInv => TypeOK
  BY DEF RowsInv
<1>2. QED
  BY <1>1, RowsInvariant, PTL

\* Virtual participations are numbered without a gap, however many requests race.
THEOREM NumbersAreContiguous == Spec => []VirtualIdsAreContiguous
<1>1. RowsInv => VirtualIdsAreContiguous
  <2>1. ASSUME RowsInv, NEW u \in Users
        PROVE  VirtualIds(u) = 1 .. Cardinality(VirtualIds(u))
    <3>1. PICK n \in Nat : VirtualIds(u) = 1 .. n
      BY <2>1 DEF RowsInv, Numbered
    <3>2. QED
      BY <3>1, NumberedCardinality
  <2>2. QED
    BY <2>1 DEF VirtualIdsAreContiguous
<1>2. QED
  BY <1>1, RowsInvariant, PTL

-----------------------------------------------------------------------------
(* The inductive invariant about scores.  It follows the one worker that is *)
(* recomputing a participation, as long as there is only one.              *)

\* Rows that do not exist have left no trace.
NothingBefore ==
    /\ decided \subseteq exists
    /\ \A s \in graded : csub[s] # Nowhere
    /\ \A k \in Participations \ exists : score[k] = {}

ScoreMatchesFlag == \A k \in Participations : k \in dq <=> score[k] = Disqualified

OneWorker ==
    \A k \in exists \ overlapped : \A v, w \in Workers :
       Recomputing(v, k) /\ Recomputing(w, k) => v = w

\* What the one worker loaded is still true.
LoadedIsTrue ==
    \A w \in Workers :
       work[w].pc \in {"recompute", "save"} /\ work[w].part \notin overlapped =>
          /\ ~work[w].staff => (work[w].flag <=> work[w].part \in dq)
          /\ work[w].pc = "save" => work[w].sum = Counting(work[w].part)

\* Worker w is about to put the user out of k.
Ejecting(w, k) == work[w].pc = "eject" /\ work[w].part = k /\ work[w].flag

Out ==
    \A k \in dq \ (slipped \cup overlapped) :
       current[k[1]] = k => \E w \in Workers : Ejecting(w, k)

ScoreInv ==
    /\ NothingBefore /\ ScoreMatchesFlag /\ OneWorker /\ LoadedIsTrue
    /\ ScoreCountsSubmissions /\ StaffDecisionStands /\ Out

\* A request that is recomputing or ejecting.
Scoring == {"recompute", "save", "eject"}

\* A row that appears has no submissions.
LEMMA NewRowIsEmpty ==
    ASSUME RowsInv, RowsInv', ScoreInv, NEW k \in exists', k \notin exists,
           UNCHANGED <<score, graded>>, \A x \in Participations : Counting(x)' = Counting(x)
    PROVE  score'[k] = Counting(k)'
<1>1. k \in Participations /\ score[k] = {}
  BY DEF RowsInv, TypeOK, ScoreInv, NothingBefore
<1>2. \A s \in Subs : csub[s] # k
  BY NonesAssumption, <1>1 DEF RowsInv, TypeOK
<1>3. Counting(k) = {}
  BY <1>2 DEF Counting, SubmissionsOf
<1>4. QED
  BY <1>1, <1>3

\* A step of a request that neither recomputes nor ejects.
LEMMA QuietKeepsScores ==
    ASSUME RowsInv, RowsInv', ScoreInv, NEW w \in Workers, NEW r,
           work' = [work EXCEPT ![w] = r], work[w].pc \notin Scoring, r.pc \notin Scoring,
           exists \subseteq exists', UNCHANGED <<dq, score, graded, overlapped, decided>>,
           slipped \subseteq slipped',
           \A k \in Participations : Counting(k)' = Counting(k),
           \A s \in Subs : csub[s] # Nowhere => csub'[s] # Nowhere,
           \A u \in Users : current'[u] \in dq \ slipped' => current'[u] = current[u]
    PROVE  ScoreInv'
<1>1. \A v \in Workers : work'[v] = IF v = w THEN r ELSE work[v]
  BY DEF RowsInv, TypeOK
<1>2. /\ exists' \subseteq Participations /\ dq \subseteq exists /\ graded \subseteq Subs
      /\ \A k \in Participations : k[1] \in Users
  BY PartShape DEF RowsInv, TypeOK
<1>3. ASSUME NEW v \in Workers, NEW k
      PROVE  /\ Recomputing(v, k)' <=> Recomputing(v, k)
             /\ Ejecting(v, k)' <=> Ejecting(v, k)
  BY <1>1 DEF Recomputing, Ejecting, Scoring
<1>4. NothingBefore'
  BY <1>2 DEF ScoreInv, NothingBefore
<1>5. ScoreMatchesFlag'
  BY DEF ScoreInv, ScoreMatchesFlag
<1>6. OneWorker'
  <2>1. ASSUME NEW k \in exists' \ overlapped, NEW v \in Workers, NEW x \in Workers,
               Recomputing(v, k), Recomputing(x, k)
        PROVE  v = x
    <3>1. k \in exists
      <4>1. work[v].pc \in {"recompute", "save"} /\ work[v].part = k
        BY <2>1 DEF Recomputing
      <4>2. QED
        BY <4>1 DEF RowsInv, WorkFits, Fits
    <3>2. QED
      BY <2>1, <3>1 DEF ScoreInv, OneWorker
  <2>2. QED
    BY <1>3, <2>1 DEF OneWorker
<1>7. LoadedIsTrue'
  <2>1. ASSUME NEW v \in Workers, work'[v].pc \in {"recompute", "save"},
               work'[v].part \notin overlapped
        PROVE  /\ ~work'[v].staff => (work'[v].flag <=> work'[v].part \in dq)
               /\ work'[v].pc = "save" => work'[v].sum = Counting(work[v].part)
               /\ work'[v] = work[v] /\ work[v].part \in Participations
    <3>1. work'[v] = work[v]
      BY <1>1, <2>1 DEF Scoring
    <3>2. work[v].part \in exists
      BY <2>1, <3>1 DEF RowsInv, WorkFits, Fits
    <3>3. QED
      BY <2>1, <3>1, <3>2 DEF ScoreInv, LoadedIsTrue, RowsInv, TypeOK
  <2>2. ASSUME NEW v \in Workers, work'[v].pc = "save", work'[v].part \notin overlapped
        PROVE  work'[v].sum = Counting(work[v].part)' /\ work'[v] = work[v]
    BY <2>1, <2>2
  <2>3. QED
    BY <2>1, <2>2 DEF LoadedIsTrue
<1>8. ScoreCountsSubmissions'
  <2>1. ASSUME NEW k \in exists' \ (dq \cup overlapped), Settled(k)'
        PROVE  score'[k] = Counting(k)'
    <3>1. CASE k \notin exists
      BY <3>1, NewRowIsEmpty
    <3>2. CASE k \in exists
      <4>1. Settled(k)
        BY <1>3, <2>1 DEF Settled
      <4>2. score[k] = Counting(k)
        BY <2>1, <3>2, <4>1 DEF ScoreInv, ScoreCountsSubmissions, Counting
      <4>3. QED
        BY <1>2, <4>2
    <3>3. QED
      BY <3>1, <3>2
  <2>2. QED
    BY <2>1 DEF ScoreCountsSubmissions, Counting
<1>9. StaffDecisionStands'
  BY <1>2 DEF ScoreInv, NothingBefore, StaffDecisionStands
<1>10. Out'
  <2>1. ASSUME NEW k \in dq \ (slipped' \cup overlapped), current'[k[1]] = k
        PROVE  \E v \in Workers : Ejecting(v, k)'
    <3>1. k[1] \in Users
      BY <1>2
    <3>2. current[k[1]] = k
      BY <2>1, <3>1
    <3>3. QED
      BY <1>3, <2>1, <3>2 DEF ScoreInv, Out
  <2>2. QED
    BY <2>1 DEF Out
<1>11. QED
  BY <1>4, <1>5, <1>6, <1>7, <1>8, <1>9, <1>10 DEF ScoreInv

\* Requests that have nothing to do with scores.
LEMMA NotScoring ==
    /\ Idle.pc \notin Scoring
    /\ \A u, k : [pc |-> "enrol", user |-> u, part |-> k].pc \notin Scoring
    /\ \A u, op, k : [pc |-> "middleware", op |-> op, user |-> u, cur |-> k].pc \notin Scoring
    /\ \A k : [pc |-> "store", part |-> k].pc \notin Scoring
    /\ \A u, k : [pc |-> "create", user |-> u, part |-> k].pc \notin Scoring
    /\ \A x : [pc |-> "savecount", n |-> x].pc \notin Scoring
    /\ [pc |-> "count"].pc \notin Scoring
BY DEF Scoring, Idle

\* The steps to which that applies.
LEMMA RequestsKeepScores ==
    ASSUME RowsInv, RowsInv', ScoreInv, NEW w \in Workers,
           \/ \E u \in Users, op \in Asked : Enter(w, u, op)
           \/ Middleware(w) \/ JoinCheck(w) \/ ReadVirtual(w) \/ CreateVirtual(w)
           \/ TakePart(w) \/ CreateLive(w) \/ Enrol(w) \/ CountUsers(w) \/ SaveCount(w)
           \/ Leave(w) \/ SaveProfile(w) \/ SubmitCheck(w) \/ Store(w) \/ Ban(w)
    PROVE  ScoreInv'
<1>1. TypeOK /\ work[w] \in Requests /\ Fits(work[w], exists)
  BY DEF RowsInv, TypeOK, WorkFits
<1>2. work[w].pc \notin Scoring
  BY DEF Scoring, Idle, Enter, Middleware, JoinCheck, ReadVirtual, CreateVirtual, TakePart,
         CreateLive, Enrol, CountUsers, SaveCount, Leave, SaveProfile, SubmitCheck, Store, Ban
<1>3. PICK r : work' = [work EXCEPT ![w] = r] /\ r.pc \notin Scoring
  <2>1. CASE Middleware(w)
    <3>1. work[w].op \notin Scoring
      BY <1>1, <2>1, RequestShape DEF Middleware, Scoring
    <3>2. PICK next : work' = [work EXCEPT ![w] = next] /\ next.pc = work[w].op
      <4> DEFINE ended == work[w].cur # Nowhere /\ Ended(work[w].cur)
                 next == [pc |-> work[w].op, user |-> work[w].user,
                          cur |-> IF ended THEN Nowhere ELSE work[w].cur]
      <4>1. work' = [work EXCEPT ![w] = next]
        BY <2>1 DEF Middleware
      <4>2. next.pc = work[w].op
        OBVIOUS
      <4>3. QED
        BY <4>1, <4>2, Zenon
    <3>3. QED
      BY <3>1, <3>2, Zenon
  <2>2. CASE TakePart(w)
    <3>1. CASE work' = [work EXCEPT ![w].pc = "createlive"]
      <4> DEFINE next == [work[w] EXCEPT !.pc = "createlive"]
      <4>1. next = [pc |-> "createlive", user |-> work[w].user, part |-> work[w].part]
        BY <1>1, <2>2, RequestShape DEF TakePart
      <4>2. work' = [work EXCEPT ![w] = next]
        BY <3>1
      <4>3. QED
        BY <4>1, <4>2 DEF Scoring
    <3>2. CASE work' = [work EXCEPT ![w] = Idle]
      BY <3>2, NotScoring, Zenon
    <3>3. CASE \E k : EnrolAs(w, k)
      BY <3>3, NotScoring, Zenon DEF EnrolAs
    <3>4. QED
      BY <2>2, <3>1, <3>2, <3>3 DEF TakePart
  <2>3. CASE JoinCheck(w)
    BY <2>3 DEF JoinCheck, Scoring, Idle
  <2>4. CASE CreateVirtual(w) \/ CreateLive(w)
    BY <2>4 DEF CreateVirtual, CreateLive, EnrolAs, Scoring, Idle
  <2>5. CASE \E u \in Users, op \in Asked : Enter(w, u, op)
    <3>1. PICK u \in Users, op \in Asked : Enter(w, u, op)
      BY <2>5
    <3>2. work' = [work EXCEPT ![w] = [pc |-> "middleware", op |-> op, user |-> u,
                                       cur |-> current[u]]]
      BY <3>1 DEF Enter
    <3>3. QED
      BY <3>2, NotScoring, Zenon
  <2>6. CASE ReadVirtual(w) \/ Enrol(w) \/ CountUsers(w) \/ SaveCount(w)
          \/ Leave(w) \/ SaveProfile(w)
    <3>1. CASE ReadVirtual(w)
      BY <3>1, NotScoring, Zenon DEF ReadVirtual
    <3>2. CASE Enrol(w)
      BY <3>2, NotScoring, Zenon DEF Enrol
    <3>3. CASE CountUsers(w)
      BY <3>3, NotScoring, Zenon DEF CountUsers
    <3>4. CASE SaveCount(w) \/ Leave(w) \/ SaveProfile(w)
      BY <3>4, NotScoring, Zenon DEF SaveCount, Leave, SaveProfile
    <3>5. QED
      BY <2>6, <3>1, <3>2, <3>3, <3>4
  <2>7. CASE SubmitCheck(w)
    <3>1. \/ work' = [work EXCEPT ![w] = Idle]
          \/ work' = [work EXCEPT ![w] = [pc |-> "store", part |-> work[w].cur]]
      BY <2>7 DEF SubmitCheck
    <3>2. QED
      BY <3>1, NotScoring, Zenon
  <2>8. CASE Store(w) \/ Ban(w)
    BY <2>8 DEF Store, Ban, Scoring, Idle
  <2>9. QED
    BY <2>1, <2>2, <2>3, <2>4, <2>5, <2>6, <2>7, <2>8
<1>4. /\ exists \subseteq exists' /\ UNCHANGED <<dq, score, graded, overlapped, decided>>
      /\ slipped \subseteq slipped'
  BY DEF New, Enter, Middleware, JoinCheck, ReadVirtual, CreateVirtual, TakePart, CreateLive,
         Enrol, CountUsers, SaveCount, Leave, SaveProfile, SubmitCheck, Store, Ban, rows, history
<1>5. /\ \A k \in Participations : Counting(k)' = Counting(k)
      /\ \A s \in Subs : csub[s] # Nowhere => csub'[s] # Nowhere
  <2>1. CASE Store(w)
    <3>1. \A s \in Subs : csub'[s] # csub[s] => csub[s] = Nowhere /\ csub'[s] = work[w].part
      BY <1>1, <2>1 DEF Store, TypeOK
    <3>2. \A s \in Subs : csub'[s] # csub[s] => s \notin graded
      BY <3>1 DEF ScoreInv, NothingBefore
    <3>3. ASSUME NEW k \in Participations PROVE Counting(k)' = Counting(k)
      BY <1>4, <3>2 DEF Counting, SubmissionsOf
    <3>4. QED
      BY <3>1, <3>3
  <2>2. CASE UNCHANGED csub
    BY <1>4, <2>2 DEF Counting, SubmissionsOf
  <2>3. QED
    BY <2>1, <2>2 DEF New, Enter, Middleware, JoinCheck, ReadVirtual, CreateVirtual, TakePart,
                      CreateLive, Enrol, CountUsers, SaveCount, Leave, SaveProfile, SubmitCheck, Ban, rows
<1>6. \A u \in Users : current'[u] \in dq \ slipped' => current'[u] = current[u]
  <2>1. Nowhere \notin dq
    BY <1>1, NonesAssumption DEF TypeOK
  <2>2. CASE Middleware(w) \/ Leave(w)
    BY <1>1, <2>1, <2>2 DEF Middleware, Leave, TypeOK
  <2>3. CASE Enrol(w) \/ SaveProfile(w)
    BY <1>1, <2>3 DEF Enrol, SaveProfile, TypeOK
  <2>4. CASE UNCHANGED current
    BY <2>4
  <2>5. QED
    BY <2>2, <2>3, <2>4 DEF New, Enter, JoinCheck, ReadVirtual, CreateVirtual, TakePart,
                            CreateLive, CountUsers, SaveCount, SubmitCheck, Store, Ban, rows
<1>7. QED
  BY <1>2, <1>3, <1>4, <1>5, <1>6, QuietKeepsScores

\* A worker starts to recompute k.  A submission it has just graded is one of k.
LEMMA RecomputeKeepsScores ==
    ASSUME RowsInv, RowsInv', ScoreInv, NEW w \in Workers, work[w] = Idle,
           NEW k \in exists, NEW flag \in BOOLEAN, NEW staff \in BOOLEAN,
           Recompute(w, k, flag, staff), ~staff => (flag <=> k \in dq),
           UNCHANGED <<exists, dq, score, current, csub>>,
           graded \subseteq graded', \A s \in graded' \ graded : csub[s] = k
    PROVE  ScoreInv'
<1> DEFINE r == [pc |-> "recompute", part |-> k, flag |-> flag, staff |-> staff]
<1>1. /\ \A v \in Workers : work'[v] = IF v = w THEN r ELSE work[v]
      /\ overlapped \subseteq overlapped' /\ overlapped' \subseteq overlapped \cup {k}
      /\ UNCHANGED <<slipped, decided>>
  BY DEF RowsInv, TypeOK, Recompute
<1>2. exists \subseteq Participations /\ dq \subseteq exists /\ k # Nowhere
  BY NonesAssumption DEF RowsInv, TypeOK
<1>3. ASSUME NEW v \in Workers, NEW x
      PROVE  /\ Recomputing(v, x)' <=> Recomputing(v, x) \/ (v = w /\ x = k)
             /\ Ejecting(v, x)' <=> Ejecting(v, x)
  BY <1>1 DEF Recomputing, Ejecting, Idle
<1>4. k \notin overlapped' => \A v \in Workers : ~Recomputing(v, k)
  BY DEF Recompute
<1>5. ASSUME NEW x \in Participations, x # k PROVE Counting(x)' = Counting(x)
  BY <1>5 DEF Counting, SubmissionsOf
<1>6. NothingBefore'
  BY <1>1, <1>2 DEF ScoreInv, NothingBefore
<1>7. ScoreMatchesFlag'
  BY DEF ScoreInv, ScoreMatchesFlag
<1>8. OneWorker'
  BY <1>1, <1>3, <1>4 DEF ScoreInv, OneWorker
<1>9. LoadedIsTrue'
  <2>1. ASSUME NEW v \in Workers, work'[v].pc \in {"recompute", "save"},
               work'[v].part \notin overlapped'
        PROVE  /\ ~work'[v].staff => (work'[v].flag <=> work'[v].part \in dq)
               /\ work'[v].pc = "save" =>
                     \E x \in Participations : /\ work'[v].part = x
                                              /\ work'[v].sum = Counting(x)'
    <3>1. CASE v = w
      BY <1>1, <3>1
    <3>2. CASE v # w
      <4>1. work'[v] = work[v]
        BY <1>1, <3>2
      <4>2. work[v].part # k
        BY <1>4, <2>1, <4>1 DEF Recomputing
      <4>3. work[v].part \in Participations
        BY <1>2, <2>1, <4>1 DEF RowsInv, WorkFits, Fits
      <4>4. PICK x \in Participations : x = work[v].part
        BY <4>3
      <4>5. Counting(x)' = Counting(x)
        BY <1>5, <4>2, <4>4
      <4>6. work[v].pc = "save" => work[v].sum = Counting(x)
        BY <1>1, <2>1, <4>1, <4>4 DEF ScoreInv, LoadedIsTrue
      <4>7. ~work[v].staff => (work[v].flag <=> work[v].part \in dq)
        BY <1>1, <2>1, <4>1 DEF ScoreInv, LoadedIsTrue
      <4>8. QED
        BY <4>1, <4>4, <4>5, <4>6, <4>7
    <3>3. QED
      BY <3>1, <3>2
  <2>2. QED
    BY <2>1 DEF LoadedIsTrue, Counting, SubmissionsOf
<1>10. ScoreCountsSubmissions'
  <2>1. ASSUME NEW x \in exists \ (dq \cup overlapped'), Settled(x)'
        PROVE  score[x] = Counting(x)'
    <3>1. x # k /\ Settled(x)
      BY <1>3, <2>1 DEF Settled
    <3>2. score[x] = Counting(x)
      BY <1>1, <2>1, <3>1 DEF ScoreInv, ScoreCountsSubmissions, Counting
    <3>3. QED
      BY <1>2, <1>5, <3>1, <3>2
  <2>2. QED
    BY <2>1 DEF ScoreCountsSubmissions, Counting
<1>11. StaffDecisionStands'
  BY <1>1 DEF ScoreInv, StaffDecisionStands
<1>12. Out'
  BY <1>1, <1>3 DEF ScoreInv, Out
<1>13. QED
  BY <1>6, <1>7, <1>8, <1>9, <1>10, <1>11, <1>12 DEF ScoreInv

\* The three ways in which a recomputation starts.
LEMMA StartsKeepScores ==
    ASSUME RowsInv, RowsInv', ScoreInv, NEW w \in Workers,
           \/ \E s \in Subs : Grade(w, s)
           \/ \E k \in Rescored : Rescore(w, k)
           \/ \E k \in Judged : Toggle(w, k)
    PROVE  ScoreInv'
<1>1. CASE \E s \in Subs : Grade(w, s)
  <2>1. PICK s \in Subs : Grade(w, s)
    BY <1>1
  <2>2. PICK k \in exists : k = csub[s]
    BY <2>1 DEF Grade, RowsInv, TypeOK
  <2>3. PICK flag \in BOOLEAN : flag <=> k \in dq
    OBVIOUS
  <2>4. flag = (k \in dq)
    BY <2>3
  <2>5. Recompute(w, k, flag, FALSE)
    BY <2>1, <2>2, <2>4 DEF Grade
  <2>6. /\ work[w] = Idle /\ UNCHANGED <<exists, dq, score, current, csub>>
        /\ graded \subseteq graded' /\ \A x \in graded' \ graded : csub[x] = k
    BY <2>1, <2>2 DEF Grade
  <2>7. QED
    BY <2>3, <2>5, <2>6, RecomputeKeepsScores
<1>2. CASE \E k \in Rescored : Rescore(w, k)
  <2>1. PICK k \in exists : Rescore(w, k)
    BY <1>2 DEF Rescore
  <2>2. PICK flag \in BOOLEAN : flag <=> k \in dq
    OBVIOUS
  <2>3. flag = (k \in dq)
    BY <2>2
  <2>4. Recompute(w, k, flag, FALSE)
    BY <2>1, <2>3 DEF Rescore
  <2>5. work[w] = Idle /\ UNCHANGED <<exists, dq, score, current, csub, graded>>
    BY <2>1 DEF Rescore, rows
  <2>6. QED
    BY <2>2, <2>4, <2>5, RecomputeKeepsScores
<1>3. CASE \E k \in Judged : Toggle(w, k)
  <2>1. PICK k \in exists : Toggle(w, k)
    BY <1>3 DEF Toggle
  <2>2. PICK flag \in BOOLEAN : flag = (k \notin dq)
    OBVIOUS
  <2>3. Recompute(w, k, flag, TRUE)
    BY <2>1, <2>2 DEF Toggle
  <2>4. work[w] = Idle /\ UNCHANGED <<exists, dq, score, current, csub, graded>>
    BY <2>1 DEF Toggle, rows
  <2>5. QED
    BY <2>3, <2>4, RecomputeKeepsScores
<1>4. QED
  BY <1>1, <1>2, <1>3

\* The scores are added up: the sum is kept with the request.
LEMMA AddUpKeepsScores ==
    ASSUME RowsInv, ScoreInv, NEW w \in Workers, AddUp(w)
    PROVE  ScoreInv'
<1> SUFFICES ASSUME NEW k, k = work[w].part PROVE ScoreInv'
  OBVIOUS
<1> DEFINE r == work[w]
           next == [pc |-> "save", part |-> k, flag |-> r.flag, staff |-> r.staff,
                    sum |-> Counting(k)]
<1>1. /\ \A v \in Workers : work'[v] = IF v = w THEN next ELSE work[v]
      /\ r.pc = "recompute" /\ r.part = k
      /\ UNCHANGED <<exists, dq, score, current, csub, graded, overlapped, slipped, decided>>
  BY DEF AddUp, RowsInv, TypeOK, rows, history
<1>2. ASSUME NEW v \in Workers, NEW x
      PROVE  /\ Recomputing(v, x)' <=> Recomputing(v, x)
             /\ Ejecting(v, x)' <=> Ejecting(v, x)
  BY <1>1 DEF Recomputing, Ejecting
<1>3. \A x : Counting(x)' = Counting(x)
  BY <1>1 DEF Counting, SubmissionsOf
<1>4. NothingBefore' /\ ScoreMatchesFlag'
  BY <1>1 DEF ScoreInv, NothingBefore, ScoreMatchesFlag
<1>5. OneWorker'
  BY <1>1, <1>2 DEF ScoreInv, OneWorker
<1>6. LoadedIsTrue'
  <2>1. ASSUME NEW v \in Workers, work'[v].pc \in {"recompute", "save"},
               work'[v].part \notin overlapped
        PROVE  /\ ~work'[v].staff => (work'[v].flag <=> work'[v].part \in dq)
               /\ work'[v].pc = "save" => \E x : /\ work'[v].part = x
                                                /\ work'[v].sum = Counting(x)
    <3>1. CASE v = w
      <4>1. ~r.staff => (r.flag <=> k \in dq)
        BY <1>1, <2>1, <3>1 DEF ScoreInv, LoadedIsTrue
      <4>2. QED
        BY <1>1, <3>1, <4>1
    <3>2. CASE v # w
      BY <1>1, <2>1, <3>2 DEF ScoreInv, LoadedIsTrue
    <3>3. QED
      BY <3>1, <3>2
  <2>2. QED
    BY <1>1, <2>1 DEF LoadedIsTrue, Counting, SubmissionsOf
<1>7. ScoreCountsSubmissions'
  BY <1>1, <1>2 DEF ScoreInv, ScoreCountsSubmissions, Settled, SubmissionsOf
<1>8. StaffDecisionStands'
  BY <1>1 DEF ScoreInv, StaffDecisionStands
<1>9. Out'
  BY <1>1, <1>2 DEF ScoreInv, Out
<1>10. QED
  BY <1>4, <1>5, <1>6, <1>7, <1>8, <1>9 DEF ScoreInv

\* The sum and the flag are stored.
LEMMA SaveKeepsScores ==
    ASSUME RowsInv, ScoreInv, NEW w \in Workers, Save(w)
    PROVE  ScoreInv'
<1> SUFFICES ASSUME NEW k, NEW flag, NEW staff, NEW sum,
                    k = work[w].part, flag = work[w].flag, staff = work[w].staff,
                    sum = work[w].sum
             PROVE  ScoreInv'
  OBVIOUS
<1> DEFINE next == IF staff THEN [pc |-> "eject", part |-> k, flag |-> flag] ELSE Idle
<1>1. /\ work[w].pc = "save" /\ k \in exists /\ k \in Participations
      /\ flag \in BOOLEAN /\ staff \in BOOLEAN /\ sum \in SUBSET Subs
  <2>1. work[w].pc = "save" /\ work[w] \in Requests /\ Fits(work[w], exists)
    BY DEF Save, RowsInv, TypeOK, WorkFits
  <2>2. QED
    BY <2>1, RequestShape DEF Fits
<1>2. /\ \A v \in Workers : work'[v] = IF v = w THEN next ELSE work[v]
      /\ dq' = IF flag THEN dq \cup {k} ELSE dq \ {k}
      /\ score' = [score EXCEPT ![k] = IF flag THEN Disqualified ELSE sum]
      /\ decided' = IF ~staff THEN decided
                    ELSE IF flag THEN decided \cup {k} ELSE decided \ {k}
      /\ UNCHANGED <<exists, current, csub, graded, overlapped, slipped>>
  BY DEF Save, Flagged, ScoreOf, RowsInv, TypeOK
<1>3. \A x \in Participations : score'[x] = IF x = k THEN IF flag THEN Disqualified ELSE sum
                                           ELSE score[x]
  BY <1>2 DEF RowsInv, TypeOK
<1>4. ASSUME NEW v \in Workers, NEW x
      PROVE  /\ Recomputing(v, x)' <=> Recomputing(v, x) /\ v # w
             /\ Ejecting(v, x)' <=> Ejecting(v, x) \/ (v = w /\ x = k /\ staff /\ flag)
  BY <1>1, <1>2 DEF Recomputing, Ejecting, Idle
<1>5. \A x : Counting(x)' = Counting(x)
  BY <1>2 DEF Counting, SubmissionsOf
<1>6. /\ exists \subseteq Participations /\ Recomputing(w, k)
      /\ \A x : x # k => ~Recomputing(w, x)
  BY <1>1 DEF RowsInv, TypeOK, Recomputing
<1>7. k \notin overlapped =>
         /\ \A v \in Workers : Recomputing(v, k) => v = w
         /\ ~staff => (flag <=> k \in dq)
         /\ sum = Counting(k)
  BY <1>1, <1>6 DEF ScoreInv, OneWorker, LoadedIsTrue
<1>8. NothingBefore'
  BY <1>1, <1>2, <1>3 DEF ScoreInv, NothingBefore
<1>9. ScoreMatchesFlag'
  <2>1. sum # Disqualified
    BY <1>1, NonesAssumption
  <2>2. QED
    BY <1>1, <1>2, <1>3, <2>1 DEF ScoreInv, ScoreMatchesFlag
<1>10. OneWorker'
  BY <1>2, <1>4 DEF ScoreInv, OneWorker
<1>11. LoadedIsTrue'
  <2>1. ASSUME NEW v \in Workers, work'[v].pc \in {"recompute", "save"},
               work'[v].part \notin overlapped
        PROVE  /\ ~work'[v].staff => (work'[v].flag <=> work'[v].part \in dq')
               /\ work'[v].pc = "save" => \E x : /\ work'[v].part = x
                                                /\ work'[v].sum = Counting(x)
    <3>1. v # w /\ work'[v] = work[v]
      BY <1>2, <2>1 DEF Idle
    <3>2. work[v].part # k
      BY <1>7, <2>1, <3>1 DEF Recomputing
    <3>3. QED
      BY <1>2, <2>1, <3>1, <3>2 DEF ScoreInv, LoadedIsTrue
  <2>2. QED
    BY <1>2, <2>1 DEF LoadedIsTrue, Counting, SubmissionsOf
<1>12. ScoreCountsSubmissions'
  <2>1. ASSUME NEW x \in exists \ (dq' \cup overlapped), Settled(x)'
        PROVE  score'[x] = Counting(x)
    <3>1. CASE x = k
      BY <1>1, <1>2, <1>3, <1>7, <2>1, <3>1
    <3>2. CASE x # k
      <4>1. Settled(x)
        BY <1>4, <1>6, <2>1, <3>2 DEF Settled
      <4>2. score[x] = Counting(x)
        BY <1>2, <2>1, <3>2, <4>1 DEF ScoreInv, ScoreCountsSubmissions, Counting
      <4>3. QED
        BY <1>3, <1>6, <3>2, <4>2
    <3>3. QED
      BY <3>1, <3>2
  <2>2. QED
    BY <1>2, <2>1 DEF ScoreCountsSubmissions, Counting, SubmissionsOf
<1>13. StaffDecisionStands'
  BY <1>1, <1>2, <1>7 DEF ScoreInv, StaffDecisionStands
<1>14. Out'
  <2>1. ASSUME NEW x \in dq' \ (slipped \cup overlapped), current[x[1]] = x
        PROVE  \E v \in Workers : Ejecting(v, x)'
    <3>1. CASE x \in dq
      BY <1>4, <2>1, <3>1 DEF ScoreInv, Out
    <3>2. CASE x \notin dq
      <4>1. x = k /\ flag /\ staff
        BY <1>1, <1>2, <1>7, <2>1, <3>2
      <4>2. QED
        BY <1>4, <4>1
    <3>3. QED
      BY <3>1, <3>2
  <2>2. QED
    BY <1>2, <2>1 DEF Out
<1>15. QED
  BY <1>8, <1>9, <1>10, <1>11, <1>12, <1>13, <1>14 DEF ScoreInv

\* The user of a disqualified participation is put out of it.
LEMMA EjectKeepsScores ==
    ASSUME RowsInv, ScoreInv, NEW w \in Workers, Eject(w)
    PROVE  ScoreInv'
<1> SUFFICES ASSUME NEW k, k = work[w].part PROVE ScoreInv'
  OBVIOUS
<1>1. /\ work[w].pc = "eject" /\ k \in Participations /\ k[1] \in Users
      /\ exists \subseteq Participations /\ dq \subseteq exists /\ Nowhere \notin dq
      /\ current \in [Users -> {Nowhere} \cup exists]
  <2>1. work[w].pc = "eject" /\ work[w] \in Requests
    BY DEF Eject, RowsInv, TypeOK
  <2>2. QED
    BY <2>1, RequestShape, PartShape, NonesAssumption DEF RowsInv, TypeOK
<1>2. /\ \A v \in Workers : v # w => work'[v] = work[v]
      /\ work'[w].pc = "ban"
      /\ current' = IF work[w].flag /\ current[k[1]] = k
                    THEN [current EXCEPT ![k[1]] = Nowhere] ELSE current
      /\ slipped' = IF work[w].flag THEN slipped \ {k} ELSE slipped
      /\ UNCHANGED <<exists, dq, score, csub, graded, overlapped, decided>>
  <2> DEFINE next == [work[w] EXCEPT !.pc = "ban"]
  <2>1. work[w] = [pc |-> "eject", part |-> work[w].part, flag |-> work[w].flag]
    BY <1>1, RequestShape DEF RowsInv, TypeOK
  <2>2. next.pc = "ban"
    BY <2>1
  <2>3. work' = [work EXCEPT ![w] = next]
    BY DEF Eject
  <2>4. QED
    BY <2>2, <2>3 DEF Eject, ThrownOut, RowsInv, TypeOK, history
<1>3. ASSUME NEW v \in Workers, NEW x
      PROVE  /\ Recomputing(v, x)' <=> Recomputing(v, x)
             /\ Ejecting(v, x)' <=> Ejecting(v, x) /\ v # w
  BY <1>1, <1>2 DEF Recomputing, Ejecting
<1>4. NothingBefore' /\ ScoreMatchesFlag'
  BY <1>2 DEF ScoreInv, NothingBefore, ScoreMatchesFlag
<1>5. OneWorker'
  BY <1>2, <1>3 DEF ScoreInv, OneWorker
<1>6. LoadedIsTrue'
  <2>1. \A v \in Workers : work'[v].pc \in {"recompute", "save"} => work'[v] = work[v]
    BY <1>2
  <2>2. QED
    BY <1>2, <2>1 DEF ScoreInv, LoadedIsTrue, Counting, SubmissionsOf
<1>7. ScoreCountsSubmissions'
  BY <1>2, <1>3 DEF ScoreInv, ScoreCountsSubmissions, Settled, SubmissionsOf
<1>8. StaffDecisionStands'
  BY <1>2 DEF ScoreInv, StaffDecisionStands
<1>9. Out'
  <2>1. ASSUME NEW x \in dq \ (slipped' \cup overlapped), current'[x[1]] = x
        PROVE  \E v \in Workers : Ejecting(v, x)'
    <3>1. x # Nowhere /\ x[1] \in Users
      BY <1>1, PartShape
    <3>2. current[x[1]] = x /\ ~(work[w].flag /\ x = k)
      BY <1>1, <1>2, <2>1, <3>1
    <3>6. x \notin slipped
      BY <1>2, <2>1, <3>2
    <3>3. PICK v \in Workers : Ejecting(v, x)
      BY <2>1, <3>2, <3>6 DEF ScoreInv, Out
    <3>4. v # w
      BY <1>1, <1>2, <2>1, <3>1, <3>2, <3>3 DEF Ejecting
    <3>5. QED
      BY <1>3, <3>3, <3>4
  <2>2. QED
    BY <1>2, <2>1 DEF Out
<1>10. QED
  BY <1>4, <1>5, <1>6, <1>7, <1>8, <1>9 DEF ScoreInv

\* Time alone changes neither scores nor requests.
LEMMA TimeKeepsScores ==
    ASSUME ScoreInv, UNCHANGED <<rows, work, history>>
    PROVE  ScoreInv'
BY DEF ScoreInv, NothingBefore, ScoreMatchesFlag, OneWorker, LoadedIsTrue,
       ScoreCountsSubmissions, StaffDecisionStands, Out, Recomputing, Ejecting, Settled,
       Counting, SubmissionsOf, rows, history

LEMMA ScoreInit == Init => ScoreInv
<1> SUFFICES ASSUME Init PROVE ScoreInv
  OBVIOUS
<1>1. NothingBefore /\ StaffDecisionStands /\ Out /\ ScoreCountsSubmissions /\ OneWorker
  BY DEF Init, NothingBefore, StaffDecisionStands, Out, ScoreCountsSubmissions, OneWorker
<1>2. ScoreMatchesFlag
  <2>1. {} # Disqualified
    BY NonesAssumption
  <2>2. QED
    BY <2>1 DEF Init, ScoreMatchesFlag
<1>3. LoadedIsTrue
  BY DEF Init, LoadedIsTrue, Idle
<1>4. QED
  BY <1>1, <1>2, <1>3 DEF ScoreInv

LEMMA ScoreStep == RowsInv /\ RowsInv' /\ ScoreInv /\ [Next]_vars => ScoreInv'
<1> SUFFICES ASSUME RowsInv, RowsInv', ScoreInv, [Next]_vars PROVE ScoreInv'
  OBVIOUS
<1>1. CASE UNCHANGED vars
  BY <1>1, TimeKeepsScores DEF vars, rows, history
<1>2. CASE Tick \/ \E k \in Participations : Expire(k)
  BY <1>2, TimeKeepsScores DEF Tick, Expire
<1>3. ASSUME NEW w \in Workers, \E u \in Users, op \in Asked : Enter(w, u, op)
      PROVE  ScoreInv'
  BY <1>3, RequestsKeepScores
<1>4. ASSUME NEW w \in Workers,
             \/ \E s \in Subs : Grade(w, s)
             \/ \E k \in Rescored : Rescore(w, k)
             \/ \E k \in Judged : Toggle(w, k)
      PROVE  ScoreInv'
  BY <1>4, StartsKeepScores
<1>5. ASSUME NEW w \in Workers, Step(w) PROVE ScoreInv'
  BY <1>5, RequestsKeepScores, AddUpKeepsScores, SaveKeepsScores, EjectKeepsScores DEF Step
<1>6. QED
  BY <1>1, <1>2, <1>3, <1>4, <1>5 DEF Next

\* Scores, flags and bans agree with the last recomputation of a participation, and with
\* the one under way.
THEOREM ScoreInvariant == Spec => []ScoreInv
<1>1. Init => ScoreInv
  BY ScoreInit
<1>2. RowsInv /\ RowsInv' /\ ScoreInv /\ [Next]_vars => ScoreInv'
  BY ScoreStep
<1>3. QED
  BY <1>1, <1>2, RowsInvariant, PTL DEF Spec

\* A stored participation is disqualified exactly if its score says so, whatever
\* workers overlap.
THEOREM FlagAndScoreAreSaved == Spec => []FlagAndScoreAgree
<1>1. RowsInv /\ ScoreInv => FlagAndScoreAgree
  BY DEF RowsInv, TypeOK, ScoreInv, ScoreMatchesFlag, FlagAndScoreAgree
<1>2. QED
  BY <1>1, RowsInvariant, ScoreInvariant, PTL

\* A participation that was never recomputed twice at a time counts exactly its graded
\* submissions, whenever nobody is scoring it.
THEOREM ScoresAreExact == Spec => []ScoreCountsSubmissions
<1>1. ScoreInv => ScoreCountsSubmissions
  BY DEF ScoreInv
<1>2. QED
  BY <1>1, ScoreInvariant, PTL

\* Grading and rescoring do not undo what staff decided about such a participation.
THEOREM DecisionsStand == Spec => []StaffDecisionStands
<1>1. ScoreInv => StaffDecisionStands
  BY DEF ScoreInv
<1>2. QED
  BY <1>1, ScoreInvariant, PTL

\* Nobody stays inside a participation they were disqualified from, unless they joined
\* it afterwards.
THEOREM NobodyStaysInside == Spec => []DisqualifiedIsOut
<1>1. ScoreInv => DisqualifiedIsOut
  BY DEF ScoreInv, Out, Ejecting, DisqualifiedIsOut
<1>2. QED
  BY <1>1, ScoreInvariant, PTL

-----------------------------------------------------------------------------
(* The count of users.                                                     *)

CountInv ==
    /\ user_count <= Cardinality(Counted)
    /\ \A w \in Workers : work[w].pc = "savecount" => work[w].n <= Cardinality(Counted)

\* No step deletes a row.
LEMMA RowsGrow ==
    ASSUME [Next]_vars
    PROVE  exists \subseteq exists'
BY DEF Next, vars, Tick, Expire, Enter, Grade, Rescore, Toggle, Step, Middleware, JoinCheck,
       ReadVirtual, CreateVirtual, TakePart, CreateLive, Enrol, CountUsers, SaveCount, Leave, SaveProfile,
       SubmitCheck, Store, AddUp, Save, Eject, Ban, New, rows

\* Only CountUsers makes a request save a count.
LEMMA CountingWorker ==
    ASSUME RowsInv, [Next]_vars, NEW w \in Workers,
           work'[w].pc = "savecount", work'[w] # work[w]
    PROVE  CountUsers(w)
<1>1. \A r : \A v \in Workers : work' = [work EXCEPT ![v] = r] => v = w /\ work'[w] = r
  BY DEF RowsInv, TypeOK
<1>2. \A v \in Workers : work[v] \in Requests
  BY DEF RowsInv, TypeOK
<1>3. ASSUME NEW v \in Workers, Step(v) PROVE CountUsers(w)
  <2>1. CASE Middleware(v)
    <3>1. work[v].op # "savecount"
      BY <1>2, <2>1, RequestShape DEF Middleware
    <3>2. QED
      BY <1>1, <2>1, <3>1 DEF Middleware
  <2>2. CASE TakePart(v) \/ Eject(v)
    <3>1. work[v].pc \in {"take", "eject"}
      BY <2>2 DEF TakePart, Eject
    <3>2. \A pc : [work[v] EXCEPT !.pc = pc].pc = pc
      BY <1>2, <3>1, RequestShape
    <3>3. \A pc : work' = [work EXCEPT ![v].pc = pc] => v = w /\ work'[w].pc = pc
      BY <1>1, <3>2
    <3>4. QED
      BY <1>1, <2>2, <3>3 DEF TakePart, Eject, EnrolAs, Idle
  <2>3. CASE CountUsers(v)
    BY <1>1, <2>3 DEF CountUsers
  <2>4. CASE JoinCheck(v) \/ ReadVirtual(v) \/ CreateVirtual(v) \/ CreateLive(v) \/ Enrol(v)
    BY <1>1, <2>4 DEF JoinCheck, ReadVirtual, CreateVirtual, CreateLive, Enrol, EnrolAs, Idle
  <2>5. CASE SaveCount(v) \/ Leave(v) \/ SaveProfile(v) \/ SubmitCheck(v) \/ Store(v)
    BY <1>1, <2>5 DEF SaveCount, Leave, SaveProfile, SubmitCheck, Store, Idle
  <2>6. CASE AddUp(v) \/ Save(v) \/ Ban(v)
    BY <1>1, <2>6 DEF AddUp, Save, Ban, Idle
  <2>7. QED
    BY <1>3, <2>1, <2>2, <2>3, <2>4, <2>5, <2>6 DEF Step
<1>4. CASE \E v \in Workers : \E u \in Users, op \in Asked : Enter(v, u, op)
  BY <1>1, <1>4 DEF Enter
<1>5. ASSUME NEW v \in Workers,
             \/ \E s \in Subs : Grade(v, s)
             \/ \E k \in Rescored : Rescore(v, k)
             \/ \E k \in Judged : Toggle(v, k)
      PROVE  CountUsers(w)
  BY <1>1, <1>5 DEF Grade, Rescore, Toggle, Recompute
<1>6. CASE UNCHANGED work
  BY <1>6
<1>7. CASE Tick \/ \E k \in Participations : Expire(k)
  <2>1. UNCHANGED work
    BY <1>7 DEF Tick, Expire
  <2>2. QED
    BY <1>6, <2>1
<1>8. CASE Next
  <2>1. ASSUME NEW v \in Workers,
               \/ \E u \in Users, op \in Asked : Enter(v, u, op)
               \/ \E s \in Subs : Grade(v, s)
               \/ \E k \in Rescored : Rescore(v, k)
               \/ \E k \in Judged : Toggle(v, k)
               \/ Step(v)
        PROVE  CountUsers(w)
    <3>1. CASE Step(v)
      BY <1>3, <3>1
    <3>2. CASE \E u \in Users, op \in Asked : Enter(v, u, op)
      BY <1>4, <3>2
    <3>3. CASE \/ \E s \in Subs : Grade(v, s)
               \/ \E k \in Rescored : Rescore(v, k)
               \/ \E k \in Judged : Toggle(v, k)
      BY <1>5, <3>3
    <3>4. QED
      BY <2>1, <3>1, <3>2, <3>3
  <2>2. QED
    BY <1>7, <1>8, <2>1 DEF Next
<1>9. CASE UNCHANGED vars
  <2>1. UNCHANGED work
    BY <1>9 DEF vars
  <2>2. QED
    BY <1>6, <2>1
<1>10. QED
  BY <1>8, <1>9

\* A count read earlier is at most a count read now.
LEMMA CountStep == RowsInv /\ RowsInv' /\ CountInv /\ [Next]_vars => CountInv'
<1> SUFFICES ASSUME RowsInv, RowsInv', CountInv, [Next]_vars PROVE CountInv'
  OBVIOUS
<1>1. /\ Cardinality(Counted) \in Nat /\ Cardinality(Counted') \in Nat
      /\ Cardinality(Counted) <= Cardinality(Counted')
  <2>1. IsFiniteSet(Counted) /\ Cardinality(Counted) \in Nat
    BY CountedFinite DEF RowsInv
  <2>2. IsFiniteSet(Counted') /\ Cardinality(Counted') \in Nat
    <3>1. IsFiniteSet(SPECTATE .. MaxVirtual)
      BY FS_Interval, ParticipationAssumption DEF SPECTATE
    <3>2. IsFiniteSet(Participations)
      BY <3>1, FS_Product, ParticipationAssumption DEF Participations
    <3>3. Counted' \in SUBSET Participations
      BY DEF RowsInv, TypeOK, Counted
    <3>4. QED
      BY <3>2, <3>3, FS_Subset, FS_CardinalityType
  <2>3. Counted \subseteq Counted'
    BY RowsGrow DEF Counted
  <2>4. QED
    BY <2>1, <2>2, <2>3, FS_Subset
<1>2. ASSUME NEW w \in Workers, work'[w].pc = "savecount"
      PROVE  work'[w].n \in Nat /\ work'[w].n <= Cardinality(Counted')
  <2>1. work'[w] \in Requests /\ work[w] \in Requests
    BY DEF RowsInv, TypeOK
  <2>2. work'[w].n \in Nat
    BY <1>2, <2>1, RequestShape
  <2>3. CASE work'[w] = work[w]
    BY <1>1, <1>2, <2>2, <2>3 DEF CountInv
  <2>4. CASE work'[w] # work[w]
    <3>1. CountUsers(w)
      BY <1>2, <2>1, <2>4, CountingWorker
    <3>2. work'[w].n = Cardinality(Counted)
      BY <3>1 DEF CountUsers, RowsInv, TypeOK
    <3>3. QED
      BY <1>1, <2>2, <3>2
  <2>5. QED
    BY <2>3, <2>4
<1>3. user_count' <= Cardinality(Counted')
  <2>1. user_count \in Nat
    BY DEF RowsInv, TypeOK
  <2>2. CASE user_count' = user_count
    BY <1>1, <2>1, <2>2 DEF CountInv
  <2>3. CASE \E w \in Workers : SaveCount(w)
    <3>1. PICK w \in Workers : SaveCount(w)
      BY <2>3
    <3>2. work[w] \in Requests /\ work[w].pc = "savecount" /\ user_count' = work[w].n
      BY <3>1 DEF SaveCount, RowsInv, TypeOK
    <3>3. work[w].n \in Nat
      BY <3>2, RequestShape
    <3>4. QED
      BY <1>1, <3>2, <3>3 DEF CountInv
  <2>4. user_count' = user_count \/ \E w \in Workers : SaveCount(w)
    BY DEF Next, vars, Tick, Expire, Enter, Grade, Rescore, Toggle, Step, Middleware,
           JoinCheck, ReadVirtual, CreateVirtual, TakePart, CreateLive, Enrol, CountUsers,
           Leave, SaveProfile, SubmitCheck, Store, AddUp, Save, Eject, Ban, New, rows
  <2>5. QED
    BY <2>2, <2>3, <2>4
<1>4. QED
  BY <1>2, <1>3 DEF CountInv

\* The saved count of users never exceeds the live participations, however late it is
\* saved.
THEOREM UserCountIsBounded == Spec => []UserCountIsNotTooHigh
<1>1. Init => CountInv
  <2>1. ASSUME Init PROVE Counted = {}
    BY <2>1 DEF Init, Counted
  <2>2. QED
    BY <2>1, FS_EmptySet DEF Init, CountInv, Idle
<1>2. RowsInv /\ RowsInv' /\ CountInv /\ [Next]_vars => CountInv'
  BY CountStep
<1>3. CountInv => UserCountIsNotTooHigh
  BY DEF CountInv, UserCountIsNotTooHigh, Counted
<1>4. QED
  BY <1>1, <1>2, <1>3, RowsInvariant, PTL DEF Spec
=============================================================================
