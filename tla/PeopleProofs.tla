--------------------------- MODULE PeopleProofs ----------------------------
(***************************************************************************)
(* What Site says of organizations, courses, second factors, sign-up,      *)
(* tokens, archives and clones holds for every value of their constants.   *)
(* Each has its own inductive invariant; they meet in the last theorems.   *)
(***************************************************************************)
EXTENDS Site, TLAPS, FiniteSetTheorems

-----------------------------------------------------------------------------
(* Organizations.                                                          *)

JoinRequest == [user : OrgUsers, org : Orgs, cls : BOOLEAN, state : {"P", "A", "R", "gone"}]

\* A review is about requests that there are, of its organization.
ReviewTyped(r) ==
    LET review == org_review[r] IN
    /\ review.at \in {"idle", "checked", "saved"}
    /\ review.at # "idle" => review.org \in Orgs
    /\ review.at = "checked" =>
          /\ review.states \in [DOMAIN review.states -> {"A", "R", "gone"}]
          /\ \A i \in DOMAIN review.states : i \in RequestIds /\ org_requests[i].org = review.org
    /\ review.at = "saved" => IsFiniteSet(review.add) /\ review.add \subseteq RequestIds
    /\ review.at # "saved" => review.add = {}

OrganizationsTypeOK ==
    /\ org_open \in [Orgs -> BOOLEAN]
    /\ org_members \in [Orgs -> SUBSET OrgUsers] /\ \A o \in Orgs : IsFiniteSet(org_members[o])
    /\ org_requests \in Seq(JoinRequest)
    /\ DOMAIN org_review = Reviewers
    /\ \A r \in Reviewers : ReviewTyped(r)
    /\ org_raced \subseteq Orgs

\* The reviewers at work on an organization.
Reviewing(o) == {r \in Reviewers : org_review[r].at # "idle" /\ org_review[r].org = o}

\* One review at a time: what it decides is undecided, and there is room for whom it admits.
ReviewHasRoom(r, o) ==
    /\ org_review[r].at = "checked" =>
          /\ \A i \in DOMAIN org_review[r].states : org_requests[i].state = "P"
          /\ Cardinality(org_members[o]) + Cardinality(Approved(org_review[r].states)) <= Slots
    /\ org_review[r].at = "saved" => Cardinality(org_members[o]) + Cardinality(org_review[r].add) <= Slots

OneReview ==
    \A o \in Orgs \ org_raced :
        /\ ~org_open[o]
        /\ \A r, q \in Reviewing(o) : r = q
        /\ \A r \in Reviewing(o) : ReviewHasRoom(r, o)

OrganizationsInv == OrganizationsTypeOK /\ OneReview /\ SlotsHold

\* Before anyone asked to join there are the members there were.
LEMMA OrganizationsInit == OrganizationsAssumption /\ OrgInit => OrganizationsInv
<1> SUFFICES ASSUME OrganizationsAssumption, OrgInit PROVE OrganizationsInv
  OBVIOUS
<1>1. \A r \in Reviewers : org_review[r].at = "idle" /\ org_review[r].add = {}
  BY DEF OrgInit, NoReview
<1>2. \A o \in Orgs : Reviewing(o) = {}
  BY <1>1 DEF Reviewing
<1>3. \A o \in Orgs : IsFiniteSet(org_members[o]) /\ Cardinality(org_members[o]) = 0
  BY FS_EmptySet DEF OrgInit
<1>4. OrganizationsTypeOK
  BY <1>1, <1>3 DEF OrgInit, OrganizationsTypeOK, ReviewTyped
<1> QED
  BY <1>2, <1>3, <1>4 DEF OrgInit, OrganizationsInv, OneReview, SlotsHold, OrganizationsAssumption

\* Who joins takes one place at most, who leaves frees it.
LEMMA PlacesTaken ==
    ASSUME NEW S, IsFiniteSet(S), NEW u
    PROVE  /\ IsFiniteSet(S \cup {u}) /\ IsFiniteSet(S \ {u})
           /\ Cardinality(S) \in Nat /\ Cardinality(S \cup {u}) \in Nat /\ Cardinality(S \ {u}) \in Nat
           /\ Cardinality(S \cup {u}) <= Cardinality(S) + 1
           /\ Cardinality(S \ {u}) <= Cardinality(S)
           /\ u \in S => Cardinality(S \ {u}) = Cardinality(S) - 1
<1>1. IsFiniteSet(S \cup {u}) /\ IsFiniteSet(S \ {u}) /\ Cardinality(S) \in Nat
      /\ Cardinality(S \cup {u}) \in Nat /\ Cardinality(S \ {u}) \in Nat
  BY FS_AddElement, FS_RemoveElement, FS_CardinalityType
<1>2. Cardinality(S \cup {u}) = IF u \in S THEN Cardinality(S) ELSE Cardinality(S) + 1
  BY FS_AddElement
<1>3. Cardinality(S \ {u}) = IF u \in S THEN Cardinality(S) - 1 ELSE Cardinality(S)
  BY FS_RemoveElement
<1> QED
  BY <1>1, <1>2, <1>3

\* What fits beside more fits beside less.
LEMMA LessRoom == ASSUME NEW a \in Nat, NEW b \in Nat, NEW c \in Nat, NEW d \in Nat, a <= b, b + c <= d PROVE a + c <= d
OBVIOUS

\* Who is admitted was counted among those to admit.
LEMMA OneMoreOneLess ==
    ASSUME NEW a \in Nat, NEW b \in Nat, NEW c \in Nat, NEW d \in Nat, a <= b + 1, b + c <= d PROVE a + (c - 1) <= d
OBVIOUS

\* What a review approves, or has yet to admit, is finite.
LEMMA ReviewsAreFinite ==
    ASSUME NEW r \in Reviewers, OrganizationsTypeOK
    PROVE  /\ org_review[r].at = "checked" => IsFiniteSet(Approved(org_review[r].states))
                                              /\ Cardinality(Approved(org_review[r].states)) \in Nat
           /\ org_review[r].at = "saved" => Cardinality(org_review[r].add) \in Nat
<1>1. ASSUME org_review[r].at = "checked" PROVE IsFiniteSet(Approved(org_review[r].states))
  <2>1. Approved(org_review[r].states) \subseteq 1 .. Len(org_requests)
    BY <1>1 DEF Approved, OrganizationsTypeOK, ReviewTyped, RequestIds
  <2>2. Len(org_requests) \in Nat
    BY DEF OrganizationsTypeOK
  <2>3. IsFiniteSet(1 .. Len(org_requests))
    BY <2>2, FS_Interval
  <2> QED
    BY <2>1, <2>3, FS_Subset
<1>2. org_review[r].at = "saved" => IsFiniteSet(org_review[r].add)
  BY DEF OrganizationsTypeOK, ReviewTyped
<1> QED
  BY <1>1, <1>2, FS_CardinalityType

\* Requests, reviews in two queries and a loop, kicks and the class of a member keep room for all that is approved.
LEMMA OrganizationsStep == OrganizationsAssumption /\ OrganizationsInv /\ [OrgNext]_orgvars => OrganizationsInv'
<1> SUFFICES ASSUME OrganizationsAssumption, OrganizationsInv, [OrgNext]_orgvars
             PROVE  OrganizationsInv'
  OBVIOUS
<1>s. Slots \in Nat /\ OrganizationsTypeOK
  BY DEF OrganizationsAssumption, OrganizationsInv
<1>c. \A o \in Orgs : org_members[o] \in SUBSET OrgUsers /\ IsFiniteSet(org_members[o]) /\ Cardinality(org_members[o]) \in Nat
  BY FS_CardinalityType DEF OrganizationsInv, OrganizationsTypeOK
<1>d. Len(org_requests) \in Nat /\ DOMAIN org_requests = RequestIds /\ \A i \in RequestIds : org_requests[i] \in JoinRequest
  BY DEF OrganizationsInv, OrganizationsTypeOK, RequestIds
\* Reviews as they were, of requests in the same state, and no more members.
<1>r. ASSUME UNCHANGED org_review, org_raced \subseteq org_raced', org_raced' \subseteq Orgs,
             \A q \in Orgs \ org_raced' : org_open'[q] = org_open[q]
                                          /\ Cardinality(org_members'[q]) <= Cardinality(org_members[q]),
             \A q \in Orgs : Cardinality(org_members'[q]) \in Nat,
             \A i \in RequestIds : org_requests'[i].state = org_requests[i].state
      PROVE  OneReview' /\ SlotsHold'
  <2>1. ASSUME NEW q \in Orgs \ org_raced', NEW r \in Reviewing(q)
        PROVE  ReviewHasRoom(r, q)'
    <3>1. ReviewHasRoom(r, q) /\ r \in Reviewers
      BY <1>r, <2>1 DEF OrganizationsInv, OneReview, Reviewing
    <3>2. org_review[r].at = "checked" => \A i \in DOMAIN org_review[r].states : i \in RequestIds
      BY <3>1, <1>s DEF OrganizationsTypeOK, ReviewTyped
    <3>3. ASSUME org_review[r].at = "checked"
          PROVE  Cardinality(org_members'[q]) + Cardinality(Approved(org_review[r].states)) <= Slots
      BY <1>r, <1>c, <1>s, <2>1, <3>1, <3>3, ReviewsAreFinite, LessRoom DEF ReviewHasRoom
    <3>4. ASSUME org_review[r].at = "saved"
          PROVE  Cardinality(org_members'[q]) + Cardinality(org_review[r].add) <= Slots
      BY <1>r, <1>c, <1>s, <2>1, <3>1, <3>4, ReviewsAreFinite, LessRoom DEF ReviewHasRoom
    <3> QED
      BY <1>r, <3>1, <3>2, <3>3, <3>4 DEF ReviewHasRoom
  <2>2. \A q \in Orgs : Reviewing(q)' = Reviewing(q)
    BY <1>r DEF Reviewing
  <2>3. OneReview'
    BY <1>r, <2>1, <2>2 DEF OneReview, OrganizationsInv
  <2>4. SlotsHold'
    BY <1>r, <1>s, <1>c DEF OrganizationsInv, SlotsHold
  <2> QED
    BY <2>3, <2>4
<1>1. ASSUME NEW u \in OrgUsers, NEW o \in Orgs,
             LeaveOrganization(u, o) \/ RemoveMember(u, o) \/ JoinOrganization(u, o)
      PROVE  OrganizationsInv'
  <2>1. /\ UNCHANGED <<org_open, org_requests, org_review, org_raced>>
        /\ \/ org_members' = [org_members EXCEPT ![o] = org_members[o] \ {u}]
           \/ org_members' = [org_members EXCEPT ![o] = org_members[o] \cup {u}] /\ org_open[o]
    BY <1>1 DEF LeaveOrganization, RemoveMember, JoinOrganization
  <2>a. /\ IsFiniteSet(org_members[o] \ {u}) /\ IsFiniteSet(org_members[o] \cup {u})
        /\ Cardinality(org_members[o] \ {u}) \in Nat /\ Cardinality(org_members[o] \cup {u}) \in Nat
        /\ Cardinality(org_members[o] \ {u}) <= Cardinality(org_members[o])
    BY <1>c, PlacesTaken
  <2>b. \A q \in Orgs : q # o => org_members'[q] = org_members[q]
    BY <2>1, <1>s DEF OrganizationsTypeOK
  <2>c. \/ org_members'[o] = org_members[o] \ {u}
        \/ org_members'[o] = org_members[o] \cup {u} /\ org_open[o]
    <3>1. o \in DOMAIN org_members
      BY <1>s DEF OrganizationsTypeOK
    <3>2. CASE org_members' = [org_members EXCEPT ![o] = org_members[o] \ {u}]
      <4>1. org_members'[o] = org_members[o] \ {u}
        BY <3>1, <3>2, Zenon
      <4> QED
        BY <4>1
    <3>3. CASE org_members' = [org_members EXCEPT ![o] = org_members[o] \cup {u}] /\ org_open[o]
      <4>1. org_members'[o] = org_members[o] \cup {u}
        BY <3>1, <3>3, Zenon
      <4> QED
        BY <3>3, <4>1
    <3> QED
      BY <2>1, <3>2, <3>3
  <2>2. \A q \in Orgs : IsFiniteSet(org_members'[q]) /\ Cardinality(org_members'[q]) \in Nat
    BY <2>a, <2>b, <2>c, <1>c
  <2>3. org_open[o] => o \in org_raced
    BY DEF OrganizationsInv, OneReview
  <2>4. \A q \in Orgs \ org_raced : Cardinality(org_members'[q]) <= Cardinality(org_members[q])
    <3> SUFFICES ASSUME NEW q \in Orgs \ org_raced PROVE Cardinality(org_members'[q]) <= Cardinality(org_members[q])
      OBVIOUS
    <3>1. ASSUME q = o PROVE org_members'[q] = org_members[q] \ {u}
      BY <3>1, <2>c, <2>3
    <3>2. ASSUME q = o PROVE Cardinality(org_members'[q]) <= Cardinality(org_members[q])
      BY <3>1, <3>2, <2>a
    <3>3. ASSUME q # o PROVE org_members'[q] = org_members[q] /\ Cardinality(org_members[q]) \in Nat
      BY <3>3, <2>b, <1>c
    <3> QED
      BY <3>2, <3>3
  <2>5. OrganizationsTypeOK'
    BY <2>1, <2>2, <1>s DEF OrganizationsTypeOK, ReviewTyped, RequestIds
  <2>6. OneReview' /\ SlotsHold'
    BY <2>1, <2>2, <2>4, <1>r, <1>s DEF OrganizationsTypeOK
  <2> QED
    BY <2>5, <2>6 DEF OrganizationsInv
<1>2. ASSUME NEW o \in Orgs, ToggleOpen(o)
      PROVE  OrganizationsInv'
  <2>1. /\ UNCHANGED <<org_members, org_requests, org_review>> /\ org_raced' = org_raced \cup {o}
        /\ org_open' = [org_open EXCEPT ![o] = ~org_open[o]]
    BY <1>2 DEF ToggleOpen
  <2>2. OrganizationsTypeOK'
    BY <2>1, <1>s DEF OrganizationsTypeOK, ReviewTyped, RequestIds
  <2>3. \A q \in Orgs \ org_raced' : org_open'[q] = org_open[q]
    BY <2>1, <1>s DEF OrganizationsTypeOK
  <2>4. OneReview' /\ SlotsHold'
    BY <2>1, <2>2, <2>3, <1>r, <1>c DEF OrganizationsTypeOK
  <2> QED
    BY <2>2, <2>4 DEF OrganizationsInv
<1>3. ASSUME NEW u \in OrgUsers, NEW o \in Orgs, RequestJoinOrganization(u, o) \/ RequestJoinClass(u, o)
      PROVE  OrganizationsInv'
  <2>1. PICK cls \in BOOLEAN : AddRequest(u, o, cls)
    BY <1>3 DEF RequestJoinOrganization, RequestJoinClass
  <2>2. /\ org_requests' = Append(org_requests, [user |-> u, org |-> o, cls |-> cls, state |-> "P"])
        /\ UNCHANGED <<org_open, org_members, org_review, org_raced>>
    BY <2>1 DEF AddRequest
  <2>3. /\ org_requests' \in Seq(JoinRequest) /\ Len(org_requests') = Len(org_requests) + 1
        /\ \A i \in RequestIds : org_requests'[i] = org_requests[i]
    BY <2>2, <1>s DEF OrganizationsTypeOK, JoinRequest, RequestIds
  <2>4. RequestIds \subseteq RequestIds'
    BY <2>3, <1>d DEF RequestIds
  <2>5. \A r \in Reviewers : ReviewTyped(r)'
    <3> SUFFICES ASSUME NEW r \in Reviewers PROVE ReviewTyped(r)'
      OBVIOUS
    <3>1. ReviewTyped(r)
      BY <1>s DEF OrganizationsTypeOK
    <3> QED
      BY <3>1, <2>2, <2>3, <2>4 DEF ReviewTyped
  <2>6. OrganizationsTypeOK'
    BY <2>2, <2>3, <2>5, <1>s DEF OrganizationsTypeOK
  <2>7. OneReview' /\ SlotsHold'
    <3>1. org_raced \subseteq Orgs /\ org_raced' = org_raced /\ UNCHANGED org_review
      BY <2>2, <1>s DEF OrganizationsTypeOK
    <3>2. \A q \in Orgs : Cardinality(org_members'[q]) \in Nat /\ Cardinality(org_members'[q]) <= Cardinality(org_members[q])
                          /\ org_open'[q] = org_open[q]
      BY <2>2, <1>c
    <3> QED
      BY <2>3, <3>1, <3>2, <1>r
  <2> QED
    BY <2>6, <2>7 DEF OrganizationsInv
<1>4. ASSUME NEW r \in Reviewers, NEW o \in Orgs, Review(r, o)
      PROVE  OrganizationsInv'
  <2>0. PICK decided \in SUBSET Pending(r, o) : \E states \in [decided -> {"A", "R", "gone"}] :
             /\ ~ExceedsSlots(o, Cardinality(Approved(states)))
             /\ org_review' = [org_review EXCEPT ![r] = [org |-> o, states |-> states, add |-> {}, at |-> "checked"]]
    BY <1>4 DEF Review
  <2>1. PICK states \in [decided -> {"A", "R", "gone"}] :
             /\ ~ExceedsSlots(o, Cardinality(Approved(states)))
             /\ org_review' = [org_review EXCEPT ![r] = [org |-> o, states |-> states, add |-> {}, at |-> "checked"]]
    BY <2>0
  <2>2. /\ org_review[r].at = "idle"
        /\ org_raced' = IF Reviewing(o) # {} THEN org_raced \cup {o} ELSE org_raced
        /\ UNCHANGED <<org_open, org_members, org_requests>>
    BY <1>4 DEF Review, Reviewing
  <2>3. DOMAIN states = decided /\ \A i \in decided : i \in RequestIds /\ org_requests[i].org = o /\ org_requests[i].state = "P"
    BY DEF Pending
  <2>4. org_review'[r] = [org |-> o, states |-> states, add |-> {}, at |-> "checked"]
        /\ DOMAIN org_review' = Reviewers /\ \A q \in Reviewers : q # r => org_review'[q] = org_review[q]
    BY <2>1, <1>s DEF OrganizationsTypeOK
  <2>5. OrganizationsTypeOK'
    <3>1. ASSUME NEW q \in Reviewers PROVE ReviewTyped(q)'
      <4>1. CASE q = r
        BY <4>1, <2>2, <2>3, <2>4 DEF ReviewTyped, RequestIds
      <4>2. CASE q # r
        BY <4>2, <2>2, <2>4, <1>s DEF OrganizationsTypeOK, ReviewTyped, RequestIds
      <4> QED
        BY <4>1, <4>2
    <3> QED
      BY <3>1, <2>2, <2>4, <1>s DEF OrganizationsTypeOK
  <2>6. ASSUME NEW q \in Orgs \ org_raced'
        PROVE  /\ ~org_open'[q]
               /\ \A p, x \in Reviewing(q)' : p = x
               /\ \A p \in Reviewing(q)' : ReviewHasRoom(p, q)'
    <3>1. q \notin org_raced
      BY <2>2, <2>6
    <3>2. CASE q = o
      <4>1. Reviewing(q) = {}
        BY <2>2, <2>6, <3>2
      <4>2. Reviewing(q)' \subseteq {r}
        BY <4>1, <2>4 DEF Reviewing
      <4>3. ReviewTyped(r)'
        BY <2>5 DEF OrganizationsTypeOK
      <4>4. Cardinality(Approved(states)) \in Nat
        <5>1. IsFiniteSet(1 .. Len(org_requests))
          BY <1>d, FS_Interval
        <5>2. Approved(states) \subseteq 1 .. Len(org_requests)
          BY <2>3 DEF Approved, RequestIds
        <5> QED
          BY <5>1, <5>2, FS_Subset, FS_CardinalityType
      <4>5. ~(Cardinality(Approved(states)) > Slots - Cardinality(org_members[o]))
        BY <2>1 DEF ExceedsSlots
      <4>6. Cardinality(org_members[o]) + Cardinality(Approved(states)) <= Slots
        BY <4>4, <4>5, <1>c, <1>s
      <4>7. ReviewHasRoom(r, q)'
        BY <4>6, <3>2, <2>2, <2>3, <2>4 DEF ReviewHasRoom
      <4> QED
        BY <3>1, <4>2, <4>7, <2>2 DEF OrganizationsInv, OneReview
    <3>3. CASE q # o
      <4>1. Reviewing(q)' = Reviewing(q) /\ r \notin Reviewing(q)
        BY <3>3, <2>2, <2>4 DEF Reviewing
      <4>2. \A p \in Reviewing(q) : ReviewHasRoom(p, q) => ReviewHasRoom(p, q)'
        BY <4>1, <2>2, <2>4 DEF ReviewHasRoom, Reviewing
      <4> QED
        BY <4>1, <4>2, <3>1, <2>2 DEF OrganizationsInv, OneReview
    <3> QED
      BY <3>2, <3>3
  <2>7. SlotsHold'
    BY <2>2 DEF OrganizationsInv, SlotsHold
  <2> QED
    BY <2>5, <2>6, <2>7 DEF OrganizationsInv, OneReview
<1>5. ASSUME NEW r \in Reviewers, SaveDecisions(r)
      PROVE  OrganizationsInv'
  <2> DEFINE review == org_review[r]
  <2>1. /\ review.at = "checked"
        /\ org_requests' = [i \in RequestIds |->
              IF i \in DOMAIN review.states
              THEN [org_requests[i] EXCEPT !.state = review.states[i]] ELSE org_requests[i]]
        /\ org_review' = [org_review EXCEPT ![r] =
              IF Approved(review.states) = {} THEN NoReview
              ELSE [review EXCEPT !.add = Approved(review.states), !.at = "saved"]]
        /\ UNCHANGED <<org_open, org_members, org_raced>>
    BY <1>5 DEF SaveDecisions
  <2> HIDE DEF review
  <2>2. /\ ReviewTyped(r) /\ review.org \in Orgs /\ review.states \in [DOMAIN review.states -> {"A", "R", "gone"}]
        /\ \A i \in DOMAIN review.states : i \in RequestIds /\ org_requests[i].org = review.org
    BY <2>1, <1>s DEF OrganizationsTypeOK, ReviewTyped, review
  <2>3. /\ org_requests' \in Seq(JoinRequest) /\ Len(org_requests') = Len(org_requests)
        /\ \A i \in RequestIds : org_requests'[i].org = org_requests[i].org
        /\ \A i \in RequestIds : i \notin DOMAIN review.states => org_requests'[i].state = org_requests[i].state
    <3>1. \A i \in RequestIds : org_requests'[i] \in JoinRequest /\ org_requests'[i].org = org_requests[i].org
      BY <2>1, <2>2, <1>d DEF JoinRequest
    <3>2. org_requests' \in [1 .. Len(org_requests) -> JoinRequest]
      BY <2>1, <3>1 DEF RequestIds
    <3> QED
      BY <2>1, <3>1, <3>2, <1>d DEF RequestIds
  <2>4. RequestIds' = RequestIds
    BY <2>3 DEF RequestIds
  <2>5. /\ DOMAIN org_review' = Reviewers /\ \A q \in Reviewers : q # r => org_review'[q] = org_review[q]
        /\ \/ org_review'[r].at = "idle" /\ org_review'[r].add = {}
           \/ /\ org_review'[r].at = "saved" /\ org_review'[r].org = review.org
              /\ org_review'[r].add = Approved(review.states)
    BY <2>1, <2>2, <1>s DEF OrganizationsTypeOK, NoReview, ReviewTyped, review
  <2>6. IsFiniteSet(Approved(review.states)) /\ Approved(review.states) \subseteq RequestIds
    BY <2>1, <2>2, <1>s, ReviewsAreFinite DEF Approved, review
  <2>7. OrganizationsTypeOK'
    <3>1. ASSUME NEW q \in Reviewers PROVE ReviewTyped(q)'
      <4>1. CASE q = r
        BY <4>1, <2>2, <2>4, <2>5, <2>6 DEF ReviewTyped
      <4>2. CASE q # r
        <5>1. ReviewTyped(q) /\ org_review'[q] = org_review[q]
          BY <4>2, <2>5, <1>s DEF OrganizationsTypeOK
        <5> QED
          BY <5>1, <2>3, <2>4 DEF ReviewTyped
      <4> QED
        BY <4>1, <4>2
    <3> QED
      BY <3>1, <2>1, <2>3, <2>5, <1>s DEF OrganizationsTypeOK
  <2>8. ASSUME NEW q \in Orgs \ org_raced'
        PROVE  /\ ~org_open'[q]
               /\ \A p, x \in Reviewing(q)' : p = x
               /\ \A p \in Reviewing(q)' : ReviewHasRoom(p, q)'
    <3>1. /\ ~org_open[q] /\ \A p, x \in Reviewing(q) : p = x
          /\ \A p \in Reviewing(q) : ReviewHasRoom(p, q)
      BY <2>1, <2>8 DEF OrganizationsInv, OneReview
    <3>2. Reviewing(q)' \subseteq Reviewing(q)
      BY <2>1, <2>5 DEF Reviewing, review
    <3>3. ASSUME NEW p \in Reviewing(q)' PROVE ReviewHasRoom(p, q)'
      <4>1. CASE p = r
        <5>1. review.org = q /\ org_review'[r].at = "saved" /\ org_review'[r].add = Approved(review.states)
          BY <2>5, <4>1, <3>3 DEF Reviewing
        <5>2. ReviewHasRoom(r, q)
          BY <3>1, <3>2, <3>3, <4>1
        <5> QED
          BY <2>1, <4>1, <5>1, <5>2 DEF ReviewHasRoom, review
      <4>2. CASE p # r
        <5>1. p \in Reviewing(q) /\ p \in Reviewers /\ org_review'[p] = org_review[p] /\ ReviewHasRoom(p, q)
          BY <3>1, <3>2, <3>3, <4>2, <2>5 DEF Reviewing
        <5>2. r \notin Reviewing(q)
          BY <3>1, <5>1, <4>2
        <5>3. review.org # q
          BY <5>2, <2>1 DEF Reviewing, review
        <5>4. ASSUME org_review[p].at = "checked", NEW i \in DOMAIN org_review[p].states
              PROVE  org_requests'[i].state = "P"
          <6>1. org_requests[i].org = q /\ i \in RequestIds
            BY <5>1, <5>4, <1>s DEF OrganizationsTypeOK, ReviewTyped, Reviewing
          <6>2. i \notin DOMAIN review.states
            BY <6>1, <5>3, <2>2
          <6> QED
            BY <6>1, <6>2, <5>1, <5>4, <2>3 DEF ReviewHasRoom
        <5> QED
          BY <5>1, <5>4, <2>1 DEF ReviewHasRoom
      <4> QED
        BY <4>1, <4>2
    <3> QED
      BY <3>1, <3>2, <3>3, <2>1
  <2>9. SlotsHold'
    BY <2>1 DEF OrganizationsInv, SlotsHold
  <2> QED
    BY <2>7, <2>8, <2>9 DEF OrganizationsInv, OneReview
<1>6. ASSUME NEW r \in Reviewers, Admit(r)
      PROVE  OrganizationsInv'
  <2> DEFINE review == org_review[r]
  <2>1. PICK i \in review.add :
        /\ org_members' = [org_members EXCEPT ![review.org] = @ \cup {org_requests[i].user}]
        /\ org_review' = [org_review EXCEPT ![r] =
              IF review.add = {i} THEN NoReview ELSE [review EXCEPT !.add = review.add \ {i}]]
        /\ UNCHANGED <<org_open, org_requests, org_raced>>
    BY <1>6 DEF Admit
  <2> HIDE DEF review
  <2>2. /\ ReviewTyped(r) /\ review.at = "saved" /\ review.org \in Orgs
        /\ IsFiniteSet(review.add) /\ review.add \subseteq RequestIds /\ Cardinality(review.add) \in Nat
    BY <2>1, <1>s, ReviewsAreFinite DEF OrganizationsTypeOK, ReviewTyped, review
  <2>3. /\ i \in RequestIds /\ org_requests[i].user \in OrgUsers
        /\ Cardinality(review.add \ {i}) = Cardinality(review.add) - 1 /\ IsFiniteSet(review.add \ {i})
    BY <2>1, <2>2, <1>d, PlacesTaken DEF JoinRequest
  <2>4. /\ DOMAIN org_review' = Reviewers /\ \A q \in Reviewers : q # r => org_review'[q] = org_review[q]
        /\ \/ org_review'[r].at = "idle" /\ org_review'[r].add = {}
           \/ /\ org_review'[r].at = "saved" /\ org_review'[r].org = review.org
              /\ org_review'[r].add = review.add \ {i}
    BY <2>1, <2>2, <1>s DEF OrganizationsTypeOK, NoReview, review, ReviewTyped
  <2>5. /\ org_members'[review.org] = org_members[review.org] \cup {org_requests[i].user}
        /\ \A q \in Orgs : q # review.org => org_members'[q] = org_members[q]
        /\ org_members' \in [Orgs -> SUBSET OrgUsers]
    BY <2>1, <2>2, <2>3, <1>s DEF OrganizationsTypeOK
  <2>6. /\ IsFiniteSet(org_members'[review.org]) /\ Cardinality(org_members'[review.org]) \in Nat
        /\ Cardinality(org_members'[review.org]) <= Cardinality(org_members[review.org]) + 1
    <3> DEFINE there == org_members[review.org]
               user == org_requests[i].user
    <3>1. IsFiniteSet(there)
      BY <2>2, <1>c
    <3>2. org_members'[review.org] = there \cup {user}
      BY <2>5
    <3> HIDE DEF there, user
    <3>3. IsFiniteSet(there \cup {user}) /\ Cardinality(there \cup {user}) \in Nat
          /\ Cardinality(there \cup {user}) <= Cardinality(there) + 1
      BY <3>1, PlacesTaken
    <3> QED
      BY <3>2, <3>3 DEF there
  <2>7. OrganizationsTypeOK'
    <3>1. ASSUME NEW q \in Reviewers PROVE ReviewTyped(q)'
      <4>1. CASE q = r
        BY <4>1, <2>1, <2>2, <2>3, <2>4 DEF ReviewTyped, RequestIds
      <4>2. CASE q # r
        <5>1. ReviewTyped(q) /\ org_review'[q] = org_review[q]
          BY <4>2, <2>4, <1>s DEF OrganizationsTypeOK
        <5> QED
          BY <5>1, <2>1 DEF ReviewTyped, RequestIds
      <4> QED
        BY <4>1, <4>2
    <3>2. \A q \in Orgs : IsFiniteSet(org_members'[q])
      BY <2>5, <2>6, <1>c
    <3> QED
      BY <3>1, <3>2, <2>1, <2>4, <2>5, <1>s DEF OrganizationsTypeOK
  <2>8. ASSUME NEW q \in Orgs \ org_raced'
        PROVE  /\ ~org_open'[q] /\ Cardinality(org_members'[q]) <= Slots
               /\ \A p, x \in Reviewing(q)' : p = x
               /\ \A p \in Reviewing(q)' : ReviewHasRoom(p, q)'
    <3>1. /\ ~org_open[q] /\ Cardinality(org_members[q]) <= Slots /\ \A p, x \in Reviewing(q) : p = x
          /\ \A p \in Reviewing(q) : ReviewHasRoom(p, q)
      BY <2>1, <2>8 DEF OrganizationsInv, OneReview, SlotsHold
    <3>2. Reviewing(q)' \subseteq Reviewing(q)
      BY <2>2, <2>4 DEF Reviewing, review
    <3>3. CASE q = review.org
      <4>1. Reviewing(q) = {r} /\ ReviewHasRoom(r, q)
        BY <3>1, <3>3, <2>2 DEF Reviewing, review
      <4>2. Cardinality(org_members[q]) + Cardinality(review.add) <= Slots
        BY <4>1, <2>2 DEF ReviewHasRoom, review
      <4>3. Cardinality(org_members'[q]) + (Cardinality(review.add) - 1) <= Slots
        BY <4>2, <3>3, <2>2, <2>6, <1>c, <1>s, OneMoreOneLess
      <4>4. Cardinality(review.add) >= 1
        BY <2>1, <2>2, <2>3, FS_CardinalityType
      <4>5. Cardinality(org_members'[q]) <= Slots
        BY <4>3, <4>4, <3>3, <2>2, <2>6, <1>s
      <4>6. ReviewHasRoom(r, q)' \/ org_review'[r].at = "idle"
        BY <4>3, <2>3, <2>4 DEF ReviewHasRoom
      <4> QED
        BY <4>1, <4>5, <4>6, <3>1, <3>2, <2>1 DEF Reviewing
    <3>4. CASE q # review.org
      <4>1. r \notin Reviewing(q)
        BY <3>4 DEF Reviewing, review
      <4>2. \A p \in Reviewing(q)' : org_review'[p] = org_review[p] /\ p \in Reviewing(q)
        BY <4>1, <3>2, <2>4 DEF Reviewing
      <4> QED
        BY <4>2, <3>1, <3>2, <3>4, <2>1, <2>5 DEF ReviewHasRoom
    <3> QED
      BY <3>3, <3>4
  <2> QED
    BY <2>7, <2>8 DEF OrganizationsInv, OneReview, SlotsHold
<1>7. CASE UNCHANGED orgvars
  <2>1. UNCHANGED <<org_open, org_members, org_requests, org_review, org_raced>>
    BY <1>7 DEF orgvars
  <2>2. OrganizationsTypeOK'
    BY <2>1, <1>s DEF OrganizationsTypeOK, ReviewTyped, RequestIds
  <2>3. OneReview' /\ SlotsHold'
    BY <2>1, <1>r, <1>c, <1>s DEF OrganizationsTypeOK
  <2> QED
    BY <2>2, <2>3 DEF OrganizationsInv
<1> QED
  BY <1>1, <1>2, <1>3, <1>4, <1>5, <1>6, <1>7 DEF OrgNext

\* A decided request is decided again only by a review that another had overtaken.
LEMMA DecisionsKept == OrganizationsInv /\ [OrgNext]_orgvars => DecisionsAreFinal
<1> SUFFICES ASSUME OrganizationsInv, [OrgNext]_orgvars, NEW i \in RequestIds, org_requests[i].state # "P",
                    org_requests'[i].state # org_requests[i].state
             PROVE  org_requests[i].org \in org_raced
  BY DEF DecisionsAreFinal
<1>1. org_requests \in Seq(JoinRequest) /\ org_requests[i] \in JoinRequest
  BY DEF OrganizationsInv, OrganizationsTypeOK, RequestIds
<1>2. ASSUME NEW row \in JoinRequest, org_requests' = Append(org_requests, row) PROVE FALSE
  <2>1. org_requests'[i] = org_requests[i]
    BY <1>1, <1>2 DEF RequestIds
  <2> QED
    BY <2>1
<1>3. \A u \in OrgUsers, o \in Orgs, cls \in BOOLEAN : ~AddRequest(u, o, cls)
  BY <1>2 DEF AddRequest, JoinRequest
<1>4. ~UNCHANGED org_requests
  OBVIOUS
<1>5. PICK r \in Reviewers : SaveDecisions(r)
  BY <1>3, <1>4 DEF OrgNext, orgvars, JoinOrganization, LeaveOrganization, RemoveMember, RequestJoinOrganization,
     RequestJoinClass, ToggleOpen, Review, Admit
<1>6. org_review[r].at = "checked" /\ i \in DOMAIN org_review[r].states
  BY <1>5 DEF SaveDecisions
<1>7. org_requests[i].org = org_review[r].org /\ org_review[r].org \in Orgs
  BY <1>6 DEF OrganizationsInv, OrganizationsTypeOK, ReviewTyped
<1>8. org_review[r].org \notin org_raced => org_requests[i].state = "P"
  BY <1>6, <1>7 DEF OrganizationsInv, OneReview, ReviewHasRoom, Reviewing
<1> QED
  BY <1>7, <1>8

\* The slots of an organization (views/organization.py, OrganizationRequestView): members are not more than
\* the slots, but for reviews that overlapped and members who came another way, whatever the slots are.
THEOREM SlotsAreKept == ASSUME OrganizationsAssumption PROVE OrgSpec => []SlotsHold
<1>1. OrgInit => OrganizationsInv
  BY OrganizationsInit
<1>2. OrganizationsInv /\ [OrgNext]_orgvars => OrganizationsInv'
  BY OrganizationsStep
<1>3. OrganizationsInv => SlotsHold
  BY DEF OrganizationsInv
<1> QED
  BY <1>1, <1>2, <1>3, PTL DEF OrgSpec

\* A request that was approved or rejected stays so, but for a review that loaded it before
\* (views/organization.py, get and post of the review load their own formset).
THEOREM DecidedForGood == ASSUME OrganizationsAssumption PROVE OrgSpec => [][DecisionsAreFinal]_orgvars
<1>1. OrgInit => OrganizationsInv
  BY OrganizationsInit
<1>2. OrganizationsInv /\ [OrgNext]_orgvars => OrganizationsInv'
  BY OrganizationsStep
<1>3. OrganizationsInv /\ [OrgNext]_orgvars => [DecisionsAreFinal]_orgvars
  BY DecisionsKept
<1> QED
  BY <1>1, <1>2, <1>3, PTL DEF OrgSpec

-----------------------------------------------------------------------------
(* Courses.                                                                *)

CoursePart == [start : Nat, disq : BOOLEAN]
CourseRow == [course : Int, contest : BOOLEAN]
CourseJoin == [at : {"find", "create", "profile", "count", "course"}, user : CsUsers, row : CourseRow,
                kind : {"live", "virtual", "spectate"}, part : Int, count : Nat]
SaveRequest == [at : {"save"}, user : CsUsers, row : CourseRow, what : {"leave", "contest", "nocontest"}]
FlagRequest == [at : {"flag", "kick", "ban"}, part : CsUsers \X Int, user : CsUsers, disq : BOOLEAN, row : CourseRow]
CourseRequest == CourseJoin \cup SaveRequest \cup FlagRequest \cup {CsIdle}

CoursesTypeOK ==
    /\ cs_parts \in [DOMAIN cs_parts -> CoursePart]
    /\ DOMAIN cs_parts \subseteq CsUsers \X Int /\ IsFiniteSet(DOMAIN cs_parts)
    /\ cs_rows \in [CsUsers -> CourseRow]
    /\ cs_clock \in Nat
    /\ cs_requests \in [CsRequests -> CourseRequest]

PartThere(parts, u, c) == c = NoPart \/ <<u, c>> \in DOMAIN parts

VirtualsIn(parts, u) == {n \in 1 .. MaxCsRequests : <<u, n>> \in DOMAIN parts}

\* Who may spectate: editors and testers, and users whose live participation is over.
MaySpectate(parts, now, u) ==
    u \in CsEditors \/ (<<u, LIVE>> \in DOMAIN parts /\ EndOf(parts[<<u, LIVE>>].start, LIVE) < now)

PartsSound(parts, now) ==
    \A u \in CsUsers : /\ \E k \in Nat : VirtualsIn(parts, u) = 1 .. k
                       /\ <<u, SPECTATE>> \in DOMAIN parts => MaySpectate(parts, now, u)

\* What a request knows of the participations.
RequestKnows(parts, now, q) ==
    /\ q.at # "idle" => PartThere(parts, q.user, q.row.course)
    /\ q.at = "find" /\ q.kind = "spectate" => MaySpectate(parts, now, q.user)
    /\ q.at = "create" /\ q.part = SPECTATE => MaySpectate(parts, now, q.user)
    /\ q.at = "create" /\ q.part > 0 => q.part = 1 \/ q.part - 1 \in VirtualsIn(parts, q.user)
    /\ q.at = "profile" => <<q.user, q.part>> \in DOMAIN parts
    /\ q.at \in {"flag", "kick", "ban"} => q.part \in DOMAIN parts /\ q.user = q.part[1]
    /\ q.at = "kick" => q.disq

CoursesInv ==
    /\ CoursesTypeOK
    /\ PartsSound(cs_parts, cs_clock)
    /\ \A r \in CsRequests : RequestKnows(cs_parts, cs_clock, cs_requests[r])
    /\ \A u \in CsUsers : PartThere(cs_parts, u, cs_rows[u].course)

\* A disqualified user is banned, or is being banned, or was pardoned; and who is in a course
\* with a disqualified participation is on the way out.
OutInv ==
    /\ \A p \in DOMAIN cs_parts : cs_parts[p].disq => Barred(p[1]) \/ p[1] \in cs_pardoned
    /\ \A u \in CsUsers : cs_rows[u].course # NoPart /\ cs_parts[<<u, cs_rows[u].course>>].disq =>
          \/ u \in cs_late \cup cs_pardoned
          \/ \E r \in CsRequests : cs_requests[r].at = "kick" /\ cs_requests[r].user = u

\* The number of users is right, or someone is about to count.
CountInv ==
    \/ cs_count = LiveUsers \/ cs_miscounted
    \/ \E r \in CsRequests : cs_requests[r].at \in {"profile", "count", "course"}

\* Requests are told apart by how far they are.
LEMMA RequestKinds ==
    ASSUME NEW q \in CourseRequest
    PROVE  /\ q.at \in {"find", "create", "profile", "count", "course", "save", "flag", "kick", "ban", "idle"}
           /\ q.at = "idle" <=> q = CsIdle
           /\ q.at \in {"find", "create", "profile", "count", "course"} => q \in CourseJoin
           /\ q.at = "save" => q \in SaveRequest
           /\ q.at \in {"flag", "kick", "ban"} => q \in FlagRequest
           /\ q # CsIdle => q.user \in CsUsers /\ q.row \in CourseRow
BY DEF CourseRequest, CourseJoin, SaveRequest, FlagRequest, CsIdle

\* A live participation has an end.
LEMMA LiveEnds == ASSUME CoursesAssumption, NEW start \in Nat PROVE EndOf(start, LIVE) \in Int
<1>1. CASE Limit = 0
  BY <1>1 DEF EndOf, LIVE, SPECTATE, CoursesAssumption
<1>2. CASE Limit # 0
  <2>1. EndOf(start, LIVE) = Min({start + Limit, EndAt})
    BY <1>2 DEF EndOf, LIVE, SPECTATE
  <2>2. \E x \in {start + Limit, EndAt} : \A y \in {start + Limit, EndAt} : x <= y
    BY DEF CoursesAssumption
  <2>3. Min({start + Limit, EndAt}) \in {start + Limit, EndAt}
    BY <2>2 DEF Min
  <2> QED
    BY <2>1, <2>3 DEF CoursesAssumption
<1> QED
  BY <1>1, <1>2

\* What is known stays known while participations are added and time passes.
LEMMA CoursesKnown ==
    ASSUME CoursesAssumption, NEW parts, NEW later, NEW now \in Nat, NEW soon \in Nat, now <= soon,
           DOMAIN parts \subseteq DOMAIN later,
           \A p \in DOMAIN parts : later[p].start = parts[p].start /\ parts[p].start \in Nat
    PROVE  /\ \A u : MaySpectate(parts, now, u) => MaySpectate(later, soon, u)
           /\ \A u, c : PartThere(parts, u, c) => PartThere(later, u, c)
           /\ \A q \in CourseRequest : RequestKnows(parts, now, q) => RequestKnows(later, soon, q)
<1>1. ASSUME NEW u, MaySpectate(parts, now, u) PROVE MaySpectate(later, soon, u)
  <2>1. CASE u \in CsEditors
    BY <2>1 DEF MaySpectate
  <2>2. CASE <<u, LIVE>> \in DOMAIN parts /\ EndOf(parts[<<u, LIVE>>].start, LIVE) < now
    <3>1. EndOf(parts[<<u, LIVE>>].start, LIVE) \in Int
      BY <2>2, LiveEnds
    <3>2. EndOf(parts[<<u, LIVE>>].start, LIVE) < soon
      BY <2>2, <3>1
    <3> QED
      BY <2>2, <3>2 DEF MaySpectate
  <2> QED
    BY <1>1, <2>1, <2>2 DEF MaySpectate
<1>2. \A u, c : PartThere(parts, u, c) => PartThere(later, u, c)
  BY DEF PartThere
<1>3. \A u : VirtualsIn(parts, u) \subseteq VirtualsIn(later, u)
  BY DEF VirtualsIn
<1>4. ASSUME NEW q \in CourseRequest, RequestKnows(parts, now, q) PROVE RequestKnows(later, soon, q)
  BY <1>1, <1>2, <1>3, <1>4 DEF RequestKnows
<1> QED
  BY <1>1, <1>2, <1>4

\* Before anyone joined.
LEMMA CoursesInit == CoursesAssumption /\ CsInit => CoursesInv /\ OutInv /\ CountInv
<1> SUFFICES ASSUME CoursesAssumption, CsInit PROVE CoursesInv /\ OutInv /\ CountInv
  OBVIOUS
<1>1. DOMAIN cs_parts = {} /\ cs_parts \in [DOMAIN cs_parts -> CoursePart]
  BY DEF CsInit
<1>2. \A u \in CsUsers : cs_rows[u].course = NoPart
  BY DEF CsInit
<1>3. cs_rows \in [CsUsers -> CourseRow]
  BY DEF CsInit, CourseRow, NoPart
<1>4. CoursesTypeOK
  BY <1>1, <1>3, FS_EmptySet DEF CsInit, CoursesTypeOK, CourseRequest
<1>5. PartsSound(cs_parts, cs_clock)
  <2>1. \A u \in CsUsers : VirtualsIn(cs_parts, u) = 1 .. 0
    BY <1>1 DEF VirtualsIn
  <2> QED
    BY <1>1, <2>1 DEF PartsSound
<1>6. \A r \in CsRequests : RequestKnows(cs_parts, cs_clock, cs_requests[r])
  BY DEF CsInit, RequestKnows, CsIdle
<1>7. LiveUsers = 0
  <2>1. {p \in DOMAIN cs_parts : p[2] = LIVE} = {}
    BY <1>1
  <2> QED
    BY <2>1, FS_EmptySet DEF LiveUsers
<1> QED
  BY <1>1, <1>2, <1>4, <1>5, <1>6, <1>7 DEF CoursesInv, OutInv, CountInv, PartThere, CsInit

\* The next number of a user.
LEMMA NextIsNew ==
    ASSUME NEW u, NEW k \in Nat, VirtualsOf(u) = 1 .. k
    PROVE  NextVirtual(u) = k + 1
<1>1. \A x \in {0} \cup (1 .. k) : (\A y \in {0} \cup (1 .. k) : x >= y) <=> x = k
  OBVIOUS
<1>2. k \in {0} \cup (1 .. k)
  OBVIOUS
<1>3. Max({0} \cup (1 .. k)) = k
  BY <1>1, <1>2 DEF Max
<1> QED
  BY <1>3 DEF NextVirtual

\* Every request, step by step, keeps what it knows of the participations true.
LEMMA CoursesStep == CoursesAssumption /\ CoursesInv /\ [CsNext]_csvars => CoursesInv'
<1> SUFFICES ASSUME CoursesAssumption, CoursesInv, [CsNext]_csvars
             PROVE  CoursesInv'
  OBVIOUS
<1>t. /\ cs_parts \in [DOMAIN cs_parts -> CoursePart]
      /\ DOMAIN cs_parts \subseteq CsUsers \X Int /\ IsFiniteSet(DOMAIN cs_parts)
      /\ cs_rows \in [CsUsers -> CourseRow]
      /\ cs_clock \in Nat
      /\ cs_requests \in [CsRequests -> CourseRequest]
  BY DEF CoursesInv, CoursesTypeOK
<1>k. /\ PartsSound(cs_parts, cs_clock)
      /\ \A r \in CsRequests : RequestKnows(cs_parts, cs_clock, cs_requests[r])
      /\ \A u \in CsUsers : PartThere(cs_parts, u, cs_rows[u].course)
  BY DEF CoursesInv
<1>s. \A p \in DOMAIN cs_parts : cs_parts[p].start \in Nat /\ cs_parts[p].disq \in BOOLEAN
  BY <1>t DEF CoursePart
\* A step of a request that leaves the participations alone.
<1>a. ASSUME NEW r \in CsRequests, NEW q \in CourseRequest, cs_requests' = [cs_requests EXCEPT ![r] = q],
             UNCHANGED <<cs_parts, cs_clock>>, RequestKnows(cs_parts, cs_clock, q),
             cs_rows' \in [CsUsers -> CourseRow], \A u \in CsUsers : PartThere(cs_parts, u, cs_rows'[u].course)
      PROVE  CoursesInv'
  <2>1. CoursesTypeOK'
    BY <1>a, <1>t DEF CoursesTypeOK
  <2>2. \A o \in CsRequests : RequestKnows(cs_parts, cs_clock, cs_requests'[o])
    BY <1>a, <1>k, <1>t
  <2> QED
    BY <1>a, <1>k, <2>1, <2>2 DEF CoursesInv
\* A step of a request that adds a participation or flags one.
<1>b. ASSUME NEW r \in CsRequests, NEW q \in CourseRequest, cs_requests' = [cs_requests EXCEPT ![r] = q],
             UNCHANGED <<cs_rows, cs_clock>>,
             cs_parts' \in [DOMAIN cs_parts' -> CoursePart],
             DOMAIN cs_parts' \subseteq CsUsers \X Int, IsFiniteSet(DOMAIN cs_parts'),
             DOMAIN cs_parts \subseteq DOMAIN cs_parts',
             \A p \in DOMAIN cs_parts : cs_parts'[p].start = cs_parts[p].start,
             PartsSound(cs_parts', cs_clock), RequestKnows(cs_parts', cs_clock, q)
      PROVE  CoursesInv'
  <2>1. CoursesTypeOK'
    BY <1>b, <1>t DEF CoursesTypeOK
  <2>2. /\ \A u, c : PartThere(cs_parts, u, c) => PartThere(cs_parts', u, c)
        /\ \A o \in CourseRequest : RequestKnows(cs_parts, cs_clock, o) => RequestKnows(cs_parts', cs_clock, o)
    <3>1. cs_clock <= cs_clock
      BY <1>t
    <3> QED
      BY <1>b, <1>s, <1>t, <3>1, CoursesKnown
  <2>3. \A o \in CsRequests : RequestKnows(cs_parts', cs_clock, cs_requests'[o])
    BY <1>b, <1>k, <1>t, <2>2
  <2>4. \A u \in CsUsers : PartThere(cs_parts', u, cs_rows[u].course)
    BY <1>k, <2>2
  <2> QED
    BY <1>b, <2>1, <2>3, <2>4 DEF CoursesInv
<1>i. CsIdle \in CourseRequest /\ RequestKnows(cs_parts, cs_clock, CsIdle) /\ RequestKnows(cs_parts', cs_clock, CsIdle)
  BY DEF CourseRequest, CsIdle, RequestKnows
<1>1. ASSUME NEW r \in CsRequests, NEW u \in CsUsers, JoinStart(r, u)
      PROVE  CoursesInv'
  <2> DEFINE kind == CASE cs_clock > EndAt -> "virtual"
                       [] cs_clock <= EndAt /\ u \notin CsEditors /\ ~HasCompleted(u, cs_clock) -> "live"
                       [] OTHER -> "spectate"
             q == [at |-> "find", user |-> u, row |-> cs_rows[u], kind |-> kind, part |-> NoPart, count |-> 0]
  <2>1. cs_requests' = [cs_requests EXCEPT ![r] = q] /\ UNCHANGED <<cs_parts, cs_rows, cs_clock>>
    BY <1>1 DEF JoinStart, CsStart
  <2>2. kind \in {"live", "virtual", "spectate"} /\ (kind = "spectate" => u \in CsEditors \/ HasCompleted(u, cs_clock))
    BY <1>t DEF CoursesAssumption
  <2> HIDE DEF kind
  <2>3. q \in CourseJoin /\ q.at = "find" /\ q.user = u /\ q.kind = kind /\ q.row = cs_rows[u]
    BY <1>t, <2>2 DEF CourseJoin, NoPart
  <2> HIDE DEF q
  <2>4. kind = "spectate" => MaySpectate(cs_parts, cs_clock, u)
    BY <2>2 DEF MaySpectate, HasCompleted, PartEnded, LIVE
  <2>5. RequestKnows(cs_parts, cs_clock, q)
    BY <1>k, <2>3, <2>4 DEF RequestKnows
  <2> QED
    BY <1>a, <1>k, <1>t, <2>1, <2>3, <2>5 DEF CourseRequest
<1>2. ASSUME NEW r \in CsRequests, FindPart(r)
      PROVE  CoursesInv'
  <2> DEFINE q == cs_requests[r]
             wanted == CASE q.kind = "virtual" -> NextVirtual(q.user)
                         [] q.kind = "spectate" -> SPECTATE
                         [] q.kind = "live" -> IF HasCompleted(q.user, cs_clock) THEN SPECTATE ELSE LIVE
             at == IF <<q.user, wanted>> \in DOMAIN cs_parts THEN "profile" ELSE "create"
             next == [q EXCEPT !.part = wanted, !.at = at]
  <2>1. /\ q.at = "find" /\ UNCHANGED <<cs_parts, cs_rows, cs_clock>>
        /\ cs_requests' = [cs_requests EXCEPT ![r] = next]
    BY <1>2 DEF FindPart, CsStep
  <2>2. q \in CourseJoin /\ RequestKnows(cs_parts, cs_clock, q)
    BY <1>k, <1>t, <2>1, RequestKinds
  <2>3. q.kind \in {"live", "virtual", "spectate"} /\ q.user \in CsUsers
    BY <2>2 DEF CourseJoin
  <2>4. PICK k \in Nat : VirtualsIn(cs_parts, q.user) = 1 .. k
    BY <1>k, <2>3 DEF PartsSound
  <2>5. VirtualsOf(q.user) = VirtualsIn(cs_parts, q.user)
    BY DEF VirtualsOf, VirtualsIn
  <2>6. NextVirtual(q.user) = k + 1
    BY <2>4, <2>5, NextIsNew
  <2>w. \/ wanted = k + 1
        \/ wanted = SPECTATE /\ MaySpectate(cs_parts, cs_clock, q.user)
        \/ wanted = LIVE
    <3>1. CASE q.kind = "virtual"
      BY <2>6, <3>1
    <3>2. CASE q.kind = "spectate"
      BY <2>1, <2>2, <3>2 DEF RequestKnows
    <3>3. CASE q.kind = "live"
      <4>1. wanted = IF HasCompleted(q.user, cs_clock) THEN SPECTATE ELSE LIVE
        BY <3>3
      <4>2. HasCompleted(q.user, cs_clock) => MaySpectate(cs_parts, cs_clock, q.user)
        BY DEF MaySpectate, HasCompleted, PartEnded, LIVE
      <4> HIDE DEF wanted
      <4> QED
        BY <4>1, <4>2
    <3> QED
      BY <2>3, <3>1, <3>2, <3>3
  <2> HIDE DEF wanted
  <2>7. /\ wanted \in Int
        /\ wanted = SPECTATE => MaySpectate(cs_parts, cs_clock, q.user)
        /\ wanted > 0 => wanted = 1 \/ wanted - 1 \in VirtualsIn(cs_parts, q.user)
    BY <2>4, <2>w DEF SPECTATE, LIVE
  <2>8. /\ next \in CourseJoin /\ next.at = at /\ at \in {"profile", "create"} /\ next.user = q.user
        /\ next.row = q.row /\ next.part = wanted
        /\ at = "profile" => <<q.user, wanted>> \in DOMAIN cs_parts
    BY <2>2, <2>7 DEF CourseJoin
  <2>9. PartThere(cs_parts, q.user, q.row.course)
    BY <2>1, <2>2 DEF RequestKnows
  <2> HIDE DEF next, at, q
  <2>10. RequestKnows(cs_parts, cs_clock, next)
    BY <2>7, <2>8, <2>9 DEF RequestKnows
  <2> QED
    BY <1>a, <1>k, <1>t, <2>1, <2>8, <2>10 DEF CourseRequest
<1>3. ASSUME NEW r \in CsRequests, CreatePart(r)
      PROVE  CoursesInv'
  <2> DEFINE q == cs_requests[r]
             key == <<q.user, q.part>>
             new == [start |-> cs_clock, disq |-> FALSE]
  <2>1. q.at = "create" /\ UNCHANGED <<cs_rows, cs_clock>>
    BY <1>3 DEF CreatePart
  <2>2. q \in CourseJoin /\ RequestKnows(cs_parts, cs_clock, q)
    BY <1>k, <1>t, <2>1, RequestKinds
  <2>3. CASE key \in DOMAIN cs_parts
    <3>1. /\ UNCHANGED cs_parts
          /\ cs_requests' = [cs_requests EXCEPT ![r] = IF q.kind = "virtual" THEN [q EXCEPT !.at = "find"] ELSE CsIdle]
      BY <1>3, <2>3 DEF CreatePart, CsStep
    <3>2. CASE q.kind = "virtual"
      <4>1. [q EXCEPT !.at = "find"] \in CourseJoin /\ [q EXCEPT !.at = "find"].at = "find"
            /\ [q EXCEPT !.at = "find"].kind = "virtual" /\ [q EXCEPT !.at = "find"].user = q.user
            /\ [q EXCEPT !.at = "find"].row = q.row
        BY <2>2, <3>2 DEF CourseJoin
      <4>2. RequestKnows(cs_parts, cs_clock, [q EXCEPT !.at = "find"])
        BY <2>1, <2>2, <4>1 DEF RequestKnows
      <4> QED
        BY <1>a, <1>k, <1>t, <2>1, <3>1, <3>2, <4>1, <4>2 DEF CourseRequest
    <3>3. CASE q.kind # "virtual"
      BY <1>a, <1>i, <1>k, <1>t, <2>1, <3>1, <3>3
    <3> QED
      BY <3>2, <3>3
  <2>4. CASE key \notin DOMAIN cs_parts
    <3> DEFINE next == [q EXCEPT !.at = "profile"]
    <3>1. /\ cs_parts' = [p \in DOMAIN cs_parts \cup {key} |-> IF p = key THEN new ELSE cs_parts[p]]
          /\ cs_requests' = [cs_requests EXCEPT ![r] = next]
      BY <1>3, <2>4 DEF CreatePart, CsStep
    <3>2. /\ DOMAIN cs_parts' = DOMAIN cs_parts \cup {key}
          /\ cs_parts' \in [DOMAIN cs_parts' -> CoursePart]
          /\ \A p \in DOMAIN cs_parts : cs_parts'[p] = cs_parts[p]
          /\ cs_parts'[key] = new
      <4>1. new \in CoursePart
        BY <1>t DEF CoursePart
      <4> QED
        BY <1>t, <2>4, <3>1, <4>1
    <3>3. next \in CourseJoin /\ next.at = "profile" /\ next.user = q.user /\ next.row = q.row /\ next.part = q.part
      BY <2>2 DEF CourseJoin
    <3>4. q.user \in CsUsers /\ q.part \in Int
      BY <2>2 DEF CourseJoin
    <3>5. DOMAIN cs_parts' \subseteq CsUsers \X Int /\ IsFiniteSet(DOMAIN cs_parts')
      <4>1. key \in CsUsers \X Int
        BY <3>4
      <4> HIDE DEF key
      <4>2. IsFiniteSet(DOMAIN cs_parts \cup {key})
        BY <1>t, FS_AddElement
      <4> QED
        BY <1>t, <3>2, <4>1, <4>2
    <3>6. cs_clock <= cs_clock
      BY <1>t
    <3>7. /\ \A u : MaySpectate(cs_parts, cs_clock, u) => MaySpectate(cs_parts', cs_clock, u)
          /\ \A u, c : PartThere(cs_parts, u, c) => PartThere(cs_parts', u, c)
      BY <1>s, <1>t, <3>2, <3>6, CoursesKnown
    <3>8. RequestKnows(cs_parts', cs_clock, next)
      BY <2>1, <2>2, <3>2, <3>3, <3>7 DEF RequestKnows
    <3>9. ASSUME NEW u \in CsUsers
          PROVE  /\ \E k \in Nat : VirtualsIn(cs_parts', u) = 1 .. k
                 /\ <<u, SPECTATE>> \in DOMAIN cs_parts' => MaySpectate(cs_parts', cs_clock, u)
      <4>1. PICK k \in Nat : VirtualsIn(cs_parts, u) = 1 .. k
        BY <1>k DEF PartsSound
      <4>2. \E m \in Nat : VirtualsIn(cs_parts', u) = 1 .. m
        <5>1. CASE u = q.user /\ q.part \in 1 .. MaxCsRequests
          <6>1. q.part \notin 1 .. k
            BY <2>4, <4>1, <5>1 DEF VirtualsIn
          <6>2. q.part = 1 \/ q.part - 1 \in 1 .. k
            BY <2>1, <2>2, <3>4, <4>1, <5>1 DEF RequestKnows, CoursesAssumption
          <6>3. q.part = k + 1
            BY <3>4, <5>1, <6>1, <6>2
          <6>4. VirtualsIn(cs_parts', u) = VirtualsIn(cs_parts, u) \cup {q.part}
            BY <3>2, <5>1 DEF VirtualsIn
          <6>5. (1 .. k) \cup {k + 1} = 1 .. (k + 1)
            OBVIOUS
          <6> QED
            BY <4>1, <6>3, <6>4, <6>5
        <5>2. CASE ~(u = q.user /\ q.part \in 1 .. MaxCsRequests)
          <6>1. VirtualsIn(cs_parts', u) = VirtualsIn(cs_parts, u)
            BY <3>2, <5>2 DEF VirtualsIn
          <6> QED
            BY <4>1, <6>1
        <5> QED
          BY <5>1, <5>2
      <4>3. ASSUME <<u, SPECTATE>> \in DOMAIN cs_parts' PROVE MaySpectate(cs_parts', cs_clock, u)
        <5>1. CASE <<u, SPECTATE>> \in DOMAIN cs_parts
          BY <1>k, <3>7, <5>1 DEF PartsSound
        <5>2. CASE <<u, SPECTATE>> = key
          BY <2>1, <2>2, <3>7, <5>2 DEF RequestKnows
        <5> QED
          BY <3>2, <4>3, <5>1, <5>2
      <4> QED
        BY <4>2, <4>3
    <3>10. PartsSound(cs_parts', cs_clock)
      BY <3>9 DEF PartsSound
    <3> HIDE DEF next, new, key, q
    <3> QED
      BY <1>b, <2>1, <3>1, <3>2, <3>3, <3>5, <3>8, <3>10 DEF CourseRequest
  <2> QED
    BY <2>3, <2>4
\* A profile is saved with a current course that is there.
<1>c. ASSUME NEW r \in CsRequests, NEW row \in CourseRow, NEW next \in CourseRequest, cs_requests[r] # CsIdle,
             SaveProfile(r, row, next), PartThere(cs_parts, cs_requests[r].user, row.course),
             RequestKnows(cs_parts, cs_clock, next)
      PROVE  CoursesInv'
  <2>1. /\ cs_requests' = [cs_requests EXCEPT ![r] = next] /\ UNCHANGED <<cs_parts, cs_clock>>
        /\ cs_rows' = [cs_rows EXCEPT ![cs_requests[r].user] = row]
    BY <1>c DEF SaveProfile, CsStep
  <2>2. cs_rows' \in [CsUsers -> CourseRow]
    BY <1>t, <2>1
  <2>3. \A u \in CsUsers : PartThere(cs_parts, u, cs_rows'[u].course)
    BY <1>c, <1>k, <1>t, <2>1
  <2> QED
    BY <1>a, <1>c, <2>1, <2>2, <2>3
<1>4. ASSUME NEW r \in CsRequests, EnterPart(r)
      PROVE  CoursesInv'
  <2> DEFINE q == cs_requests[r]
             row == [q.row EXCEPT !.course = q.part]
             next == [q EXCEPT !.at = "count"]
  <2>1. q.at = "profile" /\ SaveProfile(r, row, next)
    BY <1>4 DEF EnterPart
  <2>2. q \in CourseJoin /\ RequestKnows(cs_parts, cs_clock, q) /\ q # CsIdle
    BY <1>k, <1>t, <2>1, RequestKinds DEF CsIdle
  <2>3. row \in CourseRow /\ row.course = q.part
    BY <2>2 DEF CourseJoin, CourseRow
  <2>4. next \in CourseJoin /\ next.at = "count" /\ next.user = q.user /\ next.row = q.row
    BY <2>2 DEF CourseJoin
  <2>5. PartThere(cs_parts, q.user, row.course)
    BY <2>1, <2>2, <2>3 DEF RequestKnows, PartThere
  <2> HIDE DEF row, next
  <2>6. RequestKnows(cs_parts, cs_clock, next)
    BY <2>1, <2>2, <2>4 DEF RequestKnows
  <2> QED
    BY <1>c, <2>1, <2>2, <2>3, <2>4, <2>5, <2>6 DEF CourseRequest
<1>5. ASSUME NEW r \in CsRequests, CountUsers(r)
      PROVE  CoursesInv'
  <2> DEFINE q == cs_requests[r]
             next == [q EXCEPT !.at = "course", !.count = LiveUsers]
  <2>1. q.at = "count" /\ cs_requests' = [cs_requests EXCEPT ![r] = next] /\ UNCHANGED <<cs_parts, cs_rows, cs_clock>>
    BY <1>5 DEF CountUsers, CsStep
  <2>2. q \in CourseJoin /\ RequestKnows(cs_parts, cs_clock, q)
    BY <1>k, <1>t, <2>1, RequestKinds
  <2>3. LiveUsers \in Nat
    <3>1. IsFiniteSet({p \in DOMAIN cs_parts : p[2] = LIVE})
      BY <1>t, FS_Subset
    <3> QED
      BY <3>1, FS_CardinalityType DEF LiveUsers
  <2>4. next \in CourseJoin /\ next.at = "course" /\ next.user = q.user /\ next.row = q.row
    BY <2>2, <2>3 DEF CourseJoin
  <2> HIDE DEF next
  <2>5. RequestKnows(cs_parts, cs_clock, next)
    BY <2>1, <2>2, <2>4 DEF RequestKnows
  <2> QED
    BY <1>a, <1>k, <1>t, <2>1, <2>4, <2>5 DEF CourseRequest
<1>6. ASSUME NEW r \in CsRequests, SaveCourse(r)
      PROVE  CoursesInv'
  BY <1>6, <1>a, <1>i, <1>k, <1>t DEF SaveCourse, CsStep
<1>7. ASSUME NEW r \in CsRequests, NEW u \in CsUsers, NEW what \in {"leave", "contest", "nocontest"}, ProfileStart(r, u, what)
      PROVE  CoursesInv'
  <2> DEFINE q == [at |-> "save", user |-> u, row |-> cs_rows[u], what |-> what]
  <2>1. cs_requests' = [cs_requests EXCEPT ![r] = q] /\ UNCHANGED <<cs_parts, cs_rows, cs_clock>>
    BY <1>7 DEF ProfileStart, CsStart
  <2>2. q \in SaveRequest /\ q.at = "save" /\ q.user = u /\ q.row = cs_rows[u]
    BY <1>t DEF SaveRequest
  <2> HIDE DEF q
  <2>3. RequestKnows(cs_parts, cs_clock, q)
    BY <1>k, <2>2 DEF RequestKnows
  <2> QED
    BY <1>a, <1>k, <1>t, <2>1, <2>2, <2>3 DEF CourseRequest
<1>8. ASSUME NEW r \in CsRequests, ProfileSave(r)
      PROVE  CoursesInv'
  <2> DEFINE q == cs_requests[r]
             row == CASE q.what = "leave" -> [q.row EXCEPT !.course = NoPart]
                      [] q.what = "contest" -> [q.row EXCEPT !.contest = TRUE]
                      [] q.what = "nocontest" -> [q.row EXCEPT !.contest = FALSE]
  <2>1. q.at = "save" /\ SaveProfile(r, row, CsIdle)
    BY <1>8 DEF ProfileSave
  <2>2. q \in SaveRequest /\ RequestKnows(cs_parts, cs_clock, q) /\ q # CsIdle
    BY <1>k, <1>t, <2>1, RequestKinds DEF CsIdle
  <2>3. row \in CourseRow /\ row.course \in {NoPart, q.row.course}
    <3>1. q.what \in {"leave", "contest", "nocontest"} /\ q.row \in CourseRow
      BY <2>2 DEF SaveRequest
    <3>2. CASE q.what = "leave"
      <4>1. row = [q.row EXCEPT !.course = NoPart]
        BY <3>2
      <4> QED
        BY <3>1, <4>1 DEF CourseRow, NoPart
    <3>3. CASE q.what = "contest"
      <4>1. row = [q.row EXCEPT !.contest = TRUE]
        BY <3>3
      <4> QED
        BY <3>1, <4>1 DEF CourseRow
    <3>4. CASE q.what = "nocontest"
      <4>1. row = [q.row EXCEPT !.contest = FALSE]
        BY <3>4
      <4> QED
        BY <3>1, <4>1 DEF CourseRow
    <3> QED
      BY <3>1, <3>2, <3>3, <3>4
  <2>4. PartThere(cs_parts, q.user, row.course)
    BY <2>1, <2>2, <2>3 DEF RequestKnows, PartThere
  <2> HIDE DEF row
  <2> QED
    BY <1>c, <1>i, <2>1, <2>2, <2>3, <2>4
<1>9. ASSUME NEW r \in CsRequests, NEW p \in DOMAIN cs_parts, DisqualifyStart(r, p)
      PROVE  CoursesInv'
  <2> DEFINE q == [at |-> "flag", part |-> p, user |-> p[1], disq |-> ~cs_parts[p].disq,
                   row |-> cs_rows[p[1]]]
  <2>1. cs_requests' = [cs_requests EXCEPT ![r] = q] /\ UNCHANGED <<cs_parts, cs_rows, cs_clock>>
    BY <1>9 DEF DisqualifyStart, CsStart
  <2>2. p[1] \in CsUsers
    BY <1>t
  <2>3. q \in FlagRequest /\ q.at = "flag" /\ q.user = p[1] /\ q.row = cs_rows[p[1]] /\ q.part = p
    BY <1>s, <1>t, <2>2 DEF FlagRequest
  <2> HIDE DEF q
  <2>4. RequestKnows(cs_parts, cs_clock, q)
    BY <1>k, <2>2, <2>3 DEF RequestKnows
  <2> QED
    BY <1>a, <1>k, <1>t, <2>1, <2>3, <2>4 DEF CourseRequest
<1>10. ASSUME NEW r \in CsRequests, Flag(r)
       PROVE  CoursesInv'
  <2> DEFINE q == cs_requests[r]
             row == cs_rows[q.user]
             at == IF q.disq /\ Kicked(q.part, row) THEN "kick" ELSE "ban"
             next == [q EXCEPT !.row = row, !.at = at]
  <2>1. /\ q.at = "flag" /\ cs_requests' = [cs_requests EXCEPT ![r] = next] /\ UNCHANGED <<cs_rows, cs_clock>>
        /\ cs_parts' = [cs_parts EXCEPT ![q.part].disq = q.disq]
    BY <1>10 DEF Flag, CsStep
  <2>2. q \in FlagRequest /\ RequestKnows(cs_parts, cs_clock, q)
    BY <1>k, <1>t, <2>1, RequestKinds
  <2>3. q.part \in DOMAIN cs_parts /\ q.user = q.part[1] /\ q.user \in CsUsers /\ q.disq \in BOOLEAN
    BY <2>1, <2>2 DEF RequestKnows, FlagRequest
  <2>4. /\ DOMAIN cs_parts' = DOMAIN cs_parts
        /\ cs_parts' \in [DOMAIN cs_parts -> CoursePart]
        /\ \A p \in DOMAIN cs_parts : cs_parts'[p].start = cs_parts[p].start
    BY <1>t, <2>1, <2>3 DEF CoursePart
  <2>5. next \in FlagRequest /\ next.at = at /\ next.user = q.user /\ next.row = row /\ next.part = q.part /\ next.disq = q.disq
    BY <1>t, <2>2, <2>3 DEF FlagRequest
  <2>6. at \in {"kick", "ban"} /\ (at = "kick" => q.disq)
    OBVIOUS
  <2>7. cs_clock <= cs_clock
    BY <1>t
  <2>8. /\ \A u : MaySpectate(cs_parts, cs_clock, u) => MaySpectate(cs_parts', cs_clock, u)
        /\ \A u, c : PartThere(cs_parts, u, c) => PartThere(cs_parts', u, c)
    BY <1>s, <1>t, <2>4, <2>7, CoursesKnown
  <2>9. \A u : VirtualsIn(cs_parts', u) = VirtualsIn(cs_parts, u)
    BY <2>4 DEF VirtualsIn
  <2>10. PartsSound(cs_parts', cs_clock)
    BY <1>k, <2>4, <2>8, <2>9 DEF PartsSound
  <2>11. PartThere(cs_parts, q.user, row.course)
    BY <1>k, <2>3
  <2> HIDE DEF next, at, row, q
  <2>12. RequestKnows(cs_parts', cs_clock, next)
    BY <2>3, <2>4, <2>5, <2>6, <2>8, <2>11 DEF RequestKnows
  <2> QED
    BY <1>b, <1>t, <2>1, <2>4, <2>5, <2>10, <2>12 DEF CourseRequest
<1>11. ASSUME NEW r \in CsRequests, Kick(r)
       PROVE  CoursesInv'
  <2> DEFINE q == cs_requests[r]
             row == [q.row EXCEPT !.course = NoPart]
             next == [q EXCEPT !.at = "ban"]
  <2>1. q.at = "kick" /\ SaveProfile(r, row, next)
    BY <1>11 DEF Kick
  <2>2. q \in FlagRequest /\ RequestKnows(cs_parts, cs_clock, q) /\ q # CsIdle
    BY <1>k, <1>t, <2>1, RequestKinds DEF CsIdle
  <2>3. row \in CourseRow /\ row.course = NoPart
    BY <2>2 DEF FlagRequest, CourseRow, NoPart
  <2>4. next \in FlagRequest /\ next.at = "ban" /\ next.user = q.user /\ next.row = q.row /\ next.part = q.part
    BY <2>2 DEF FlagRequest
  <2>5. PartThere(cs_parts, q.user, row.course)
    BY <2>3 DEF PartThere
  <2> HIDE DEF row, next
  <2>6. RequestKnows(cs_parts, cs_clock, next)
    BY <2>1, <2>2, <2>4 DEF RequestKnows
  <2> QED
    BY <1>c, <2>1, <2>2, <2>3, <2>4, <2>5, <2>6 DEF CourseRequest
<1>12. ASSUME NEW r \in CsRequests, Ban(r)
       PROVE  CoursesInv'
  BY <1>12, <1>a, <1>i, <1>k, <1>t DEF Ban, CsStep
<1>13. ASSUME NEW u \in CsUsers, AdminBan(u)
       PROVE  CoursesInv'
  <2>1. UNCHANGED <<cs_parts, cs_clock, cs_requests>> /\ cs_rows' = [cs_rows EXCEPT ![u].course = NoPart]
    BY <1>13 DEF AdminBan
  <2>2. \A o \in CsUsers : cs_rows'[o].course \in {NoPart, cs_rows[o].course}
    BY <1>t, <2>1 DEF CourseRow
  <2>3. cs_rows' \in [CsUsers -> CourseRow]
    BY <1>t, <2>1 DEF CourseRow, NoPart
  <2>4. \A o \in CsUsers : PartThere(cs_parts, o, cs_rows'[o].course)
    BY <1>k, <2>2 DEF PartThere
  <2>5. CoursesTypeOK'
    BY <1>t, <2>1, <2>3 DEF CoursesTypeOK
  <2> QED
    BY <1>k, <2>1, <2>4, <2>5 DEF CoursesInv
<1>14. ASSUME CsTick
       PROVE  CoursesInv'
  <2>1. UNCHANGED <<cs_parts, cs_rows, cs_requests>> /\ cs_clock' = cs_clock + 1
    BY <1>14 DEF CsTick
  <2>2. cs_clock' \in Nat /\ cs_clock <= cs_clock'
    BY <1>t, <2>1
  <2>3. /\ \A u : MaySpectate(cs_parts, cs_clock, u) => MaySpectate(cs_parts, cs_clock', u)
        /\ \A q \in CourseRequest : RequestKnows(cs_parts, cs_clock, q) => RequestKnows(cs_parts, cs_clock', q)
    BY <1>s, <1>t, <2>2, CoursesKnown
  <2>4. PartsSound(cs_parts, cs_clock')
    BY <1>k, <2>3 DEF PartsSound
  <2>5. CoursesTypeOK'
    BY <1>t, <2>1, <2>2 DEF CoursesTypeOK
  <2> QED
    BY <1>k, <1>t, <2>1, <2>3, <2>4, <2>5 DEF CoursesInv
<1>15. CASE UNCHANGED csvars
  <2>1. UNCHANGED <<cs_parts, cs_rows, cs_requests, cs_clock>>
    BY <1>15 DEF csvars
  <2>2. CoursesTypeOK'
    BY <1>t, <2>1 DEF CoursesTypeOK
  <2> QED
    BY <1>k, <2>1, <2>2 DEF CoursesInv
<1> QED
  BY <1>1, <1>2, <1>3, <1>4, <1>5, <1>6, <1>7, <1>8, <1>9, <1>10, <1>11, <1>12, <1>13, <1>14, <1>15 DEF CsNext

\* Only a request that joins changes the number of live users.
LEMMA CountStep == CoursesInv /\ CountInv /\ [CsNext]_csvars => CountInv'
<1> SUFFICES ASSUME CoursesInv, CountInv, [CsNext]_csvars PROVE CountInv'
  OBVIOUS
<1>t. cs_requests \in [CsRequests -> CourseRequest]
  BY DEF CoursesInv, CoursesTypeOK
\* Participations and the number are left alone, and so are those who are about to count.
<1>a. ASSUME DOMAIN cs_parts' = DOMAIN cs_parts, UNCHANGED <<cs_count, cs_miscounted>>,
             \A r \in CsRequests : cs_requests[r].at \in {"profile", "count", "course"}
                                   => cs_requests'[r].at \in {"profile", "count", "course"}
      PROVE  CountInv'
  <2>1. LiveUsers' = LiveUsers
    BY <1>a DEF LiveUsers
  <2> QED
    BY <1>a, <2>1 DEF CountInv
\* A request goes on.
<1>b. ASSUME NEW r \in CsRequests, NEW next, cs_requests' = [cs_requests EXCEPT ![r] = next]
      PROVE  \A o \in CsRequests : cs_requests'[o] = IF o = r THEN next ELSE cs_requests[o]
  BY <1>b, <1>t
<1>1. ASSUME NEW r \in CsRequests, NEW u \in CsUsers, JoinStart(r, u) PROVE CountInv'
  BY <1>1, <1>a, <1>t DEF JoinStart, CsStart, CsIdle
<1>2. ASSUME NEW r \in CsRequests, FindPart(r) PROVE CountInv'
  BY <1>2, <1>a, <1>t DEF FindPart, CsStep
<1>3. ASSUME NEW r \in CsRequests, CreatePart(r) PROVE CountInv'
  <2>1. cs_requests[r].at = "create" /\ UNCHANGED <<cs_count, cs_miscounted>>
    BY <1>3 DEF CreatePart
  <2>2. cs_requests[r] \in CourseJoin
    BY <1>t, <2>1, RequestKinds
  <2>3. CASE <<cs_requests[r].user, cs_requests[r].part>> \in DOMAIN cs_parts
    BY <1>3, <1>a, <1>t, <2>1, <2>3 DEF CreatePart, CsStep
  <2>4. CASE <<cs_requests[r].user, cs_requests[r].part>> \notin DOMAIN cs_parts
    <3>1. cs_requests' = [cs_requests EXCEPT ![r] = [cs_requests[r] EXCEPT !.at = "profile"]]
      BY <1>3, <2>4 DEF CreatePart, CsStep
    <3>2. cs_requests'[r].at = "profile"
      BY <1>t, <2>2, <3>1 DEF CourseJoin
    <3> QED
      BY <3>2 DEF CountInv
  <2> QED
    BY <2>3, <2>4
<1>4. ASSUME NEW r \in CsRequests, EnterPart(r) PROVE CountInv'
  <2>1. /\ cs_requests[r].at = "profile"
        /\ cs_requests' = [cs_requests EXCEPT ![r] = [cs_requests[r] EXCEPT !.at = "count"]]
    BY <1>4 DEF EnterPart, SaveProfile, CsStep
  <2>2. cs_requests[r] \in CourseJoin
    BY <1>t, <2>1, RequestKinds
  <2>3. cs_requests'[r].at = "count"
    BY <1>t, <2>1, <2>2 DEF CourseJoin
  <2> QED
    BY <2>3 DEF CountInv
<1>5. ASSUME NEW r \in CsRequests, CountUsers(r) PROVE CountInv'
  <2>1. /\ cs_requests[r].at = "count"
        /\ cs_requests' = [cs_requests EXCEPT ![r] = [cs_requests[r] EXCEPT !.at = "course", !.count = LiveUsers]]
    BY <1>5 DEF CountUsers, CsStep
  <2>2. cs_requests[r] \in CourseJoin
    BY <1>t, <2>1, RequestKinds
  <2>3. cs_requests'[r].at = "course"
    BY <1>t, <2>1, <2>2 DEF CourseJoin
  <2> QED
    BY <2>3 DEF CountInv
<1>6. ASSUME NEW r \in CsRequests, SaveCourse(r) PROVE CountInv'
  <2>1. UNCHANGED cs_parts /\ cs_count' = cs_requests[r].count /\ cs_miscounted' = (cs_requests[r].count # LiveUsers)
    BY <1>6 DEF SaveCourse
  <2>2. LiveUsers' = LiveUsers
    BY <2>1 DEF LiveUsers
  <2> QED
    BY <2>1, <2>2 DEF CountInv
<1>7. ASSUME NEW r \in CsRequests, NEW u \in CsUsers, NEW what \in {"leave", "contest", "nocontest"}, ProfileStart(r, u, what)
      PROVE  CountInv'
  BY <1>7, <1>a, <1>t DEF ProfileStart, CsStart, CsIdle
<1>8. ASSUME NEW r \in CsRequests, ProfileSave(r) PROVE CountInv'
  BY <1>8, <1>a, <1>t DEF ProfileSave, SaveProfile, CsStep
<1>9. ASSUME NEW r \in CsRequests, NEW p \in DOMAIN cs_parts, DisqualifyStart(r, p) PROVE CountInv'
  BY <1>9, <1>a, <1>t DEF DisqualifyStart, CsStart, CsIdle
<1>10. ASSUME NEW r \in CsRequests, Flag(r) PROVE CountInv'
  <2>1. cs_requests[r].at = "flag" /\ UNCHANGED <<cs_count, cs_miscounted>>
        /\ \E next : cs_requests' = [cs_requests EXCEPT ![r] = next]
        /\ DOMAIN cs_parts' = DOMAIN cs_parts
    BY <1>10 DEF Flag, CsStep
  <2> QED
    BY <1>a, <1>t, <2>1
<1>11. ASSUME NEW r \in CsRequests, Kick(r) PROVE CountInv'
  BY <1>11, <1>a, <1>t DEF Kick, SaveProfile, CsStep
<1>12. ASSUME NEW r \in CsRequests, Ban(r) PROVE CountInv'
  BY <1>12, <1>a, <1>t DEF Ban, CsStep
<1>13. ASSUME NEW u \in CsUsers, AdminBan(u) PROVE CountInv'
  BY <1>13, <1>a DEF AdminBan
<1>14. ASSUME CsTick PROVE CountInv'
  BY <1>14, <1>a DEF CsTick
<1>15. CASE UNCHANGED csvars
  BY <1>15, <1>a DEF csvars
<1> QED
  BY <1>1, <1>2, <1>3, <1>4, <1>5, <1>6, <1>7, <1>8, <1>9, <1>10, <1>11, <1>12, <1>13, <1>14, <1>15 DEF CsNext

\* A disqualified user does not come back unnoticed.
LEMMA OutStep == CoursesInv /\ OutInv /\ [CsNext]_csvars => OutInv'
<1> SUFFICES ASSUME CoursesInv, OutInv, [CsNext]_csvars PROVE OutInv'
  OBVIOUS
<1>t. /\ cs_parts \in [DOMAIN cs_parts -> CoursePart]
      /\ DOMAIN cs_parts \subseteq CsUsers \X Int
      /\ cs_rows \in [CsUsers -> CourseRow]
      /\ cs_requests \in [CsRequests -> CourseRequest]
      /\ \A r \in CsRequests : RequestKnows(cs_parts, cs_clock, cs_requests[r])
      /\ \A u \in CsUsers : PartThere(cs_parts, u, cs_rows[u].course)
  BY DEF CoursesInv, CoursesTypeOK
<1>o. /\ \A p \in DOMAIN cs_parts : cs_parts[p].disq => Barred(p[1]) \/ p[1] \in cs_pardoned
      /\ \A u \in CsUsers : cs_rows[u].course # NoPart /\ cs_parts[<<u, cs_rows[u].course>>].disq =>
            \/ u \in cs_late \cup cs_pardoned
            \/ \E r \in CsRequests : cs_requests[r].at = "kick" /\ cs_requests[r].user = u
  BY DEF OutInv
\* A request that bans nobody goes on to one that bans nobody.
<1>b. ASSUME NEW r \in CsRequests, NEW next, cs_requests' = [cs_requests EXCEPT ![r] = next],
             cs_requests[r].at \notin {"kick", "ban"}
      PROVE  /\ \A o \in CsRequests : cs_requests[o].at \in {"kick", "ban"} => cs_requests'[o] = cs_requests[o]
             /\ cs_banned \subseteq cs_banned' => \A u : Barred(u) => Barred(u)'
  <2>1. \A o \in CsRequests : cs_requests[o].at \in {"kick", "ban"} => cs_requests'[o] = cs_requests[o]
    BY <1>b, <1>t
  <2> QED
    BY <2>1 DEF Barred
\* Nothing is saved and nobody is banned or flagged.
<1>a. ASSUME NEW r \in CsRequests, NEW next, cs_requests' = [cs_requests EXCEPT ![r] = next],
             cs_requests[r].at \notin {"kick", "ban"}, UNCHANGED <<cs_rows, cs_banned, cs_late, cs_pardoned>>,
             DOMAIN cs_parts \subseteq DOMAIN cs_parts',
             \A p \in DOMAIN cs_parts' : cs_parts'[p].disq => p \in DOMAIN cs_parts /\ cs_parts[p].disq
      PROVE  OutInv'
  <2>1. \A u : Barred(u) => Barred(u)'
    BY <1>a, <1>b
  <2>2. \A o \in CsRequests : cs_requests[o].at \in {"kick", "ban"} => cs_requests'[o] = cs_requests[o]
    BY <1>a, <1>b
  <2>3. \A p \in DOMAIN cs_parts' : cs_parts'[p].disq => Barred(p[1])' \/ p[1] \in cs_pardoned'
    BY <1>a, <1>o, <2>1
  <2>4. ASSUME NEW u \in CsUsers, cs_rows'[u].course # NoPart, cs_parts'[<<u, cs_rows'[u].course>>].disq
        PROVE  \/ u \in cs_late' \cup cs_pardoned'
               \/ \E o \in CsRequests : cs_requests'[o].at = "kick" /\ cs_requests'[o].user = u
    <3>1. <<u, cs_rows[u].course>> \in DOMAIN cs_parts
      BY <1>a, <1>t, <2>4 DEF PartThere
    <3>2. cs_parts[<<u, cs_rows[u].course>>].disq
      BY <1>a, <2>4, <3>1
    <3> QED
      BY <1>a, <1>o, <2>2, <2>4, <3>2
  <2> QED
    BY <2>3, <2>4 DEF OutInv
\* A profile is saved, not to remove its user.
<1>c. ASSUME NEW r \in CsRequests, NEW row, NEW next, cs_requests[r] # CsIdle, SaveProfile(r, row, next), cs_requests[r].at \notin {"kick", "ban"},
             \/ row.course \in {NoPart, cs_requests[r].row.course}
             \/ cs_requests[r].at = "profile" /\ row.course = cs_requests[r].part
      PROVE  OutInv'
  <2> DEFINE q == cs_requests[r]
  <2>1. /\ cs_requests' = [cs_requests EXCEPT ![r] = next]
        /\ cs_rows' = [cs_rows EXCEPT ![q.user] = row] /\ UNCHANGED <<cs_parts, cs_banned, cs_pardoned>>
        /\ cs_late' = IF cs_rows[q.user] # q.row \/ (q.at = "profile" /\ Barred(q.user))
                      THEN cs_late \cup {q.user} ELSE cs_late
    BY <1>c DEF SaveProfile, CsStep
  <2>2. \A u : Barred(u) => Barred(u)'
    BY <1>c, <1>b, <2>1
  <2>3. \A o \in CsRequests : cs_requests[o].at \in {"kick", "ban"} => cs_requests'[o] = cs_requests[o]
    BY <1>c, <1>b, <2>1
  <2>4. \A p \in DOMAIN cs_parts' : cs_parts'[p].disq => Barred(p[1])' \/ p[1] \in cs_pardoned'
    BY <1>o, <2>1, <2>2
  <2>5. q.user \in CsUsers
    BY <1>c, <1>t, RequestKinds
  <2>6. ASSUME NEW u \in CsUsers, cs_rows'[u].course # NoPart, cs_parts'[<<u, cs_rows'[u].course>>].disq
        PROVE  \/ u \in cs_late' \cup cs_pardoned'
               \/ \E o \in CsRequests : cs_requests'[o].at = "kick" /\ cs_requests'[o].user = u
    <3>1. CASE u # q.user
      BY <1>o, <1>t, <2>1, <2>3, <2>6, <3>1
    <3>2. CASE u = q.user /\ row.course = q.row.course /\ cs_rows[q.user] = q.row
      BY <1>o, <1>t, <2>1, <2>3, <2>6, <3>2
    <3>3. CASE u = q.user /\ cs_rows[q.user] # q.row
      BY <2>1, <3>3
    <3>4. CASE u = q.user /\ q.at = "profile" /\ row.course = q.part
      <4>1. <<u, q.part>> \in DOMAIN cs_parts
        BY <1>t, <3>4 DEF RequestKnows
      <4>2. cs_parts[<<u, q.part>>].disq
        BY <1>t, <2>1, <2>6, <3>4
      <4>3. Barred(u) \/ u \in cs_pardoned
        BY <1>o, <4>1, <4>2
      <4> QED
        BY <2>1, <3>4, <4>3
    <3>5. u = q.user => row.course # NoPart
      BY <1>t, <2>1, <2>6
    <3> QED
      BY <1>c, <3>1, <3>2, <3>3, <3>4, <3>5
  <2> QED
    BY <2>4, <2>6 DEF OutInv
<1>p. \A p \in DOMAIN cs_parts : cs_parts[p].disq => p \in DOMAIN cs_parts /\ cs_parts[p].disq
  OBVIOUS
<1>1. ASSUME NEW r \in CsRequests, NEW u \in CsUsers, JoinStart(r, u) PROVE OutInv'
  <2>s. \E next : CsStart(r, next)
    BY <1>1, Zenon DEF JoinStart
  <2>n. PICK next : cs_requests' = [cs_requests EXCEPT ![r] = next] /\ cs_requests[r] = CsIdle
    BY <2>s, Zenon DEF CsStart
  <2>1. cs_requests[r].at = "idle"
    BY <2>n DEF CsIdle
  <2>2. UNCHANGED <<cs_parts, cs_rows, cs_banned, cs_late, cs_pardoned>>
    BY <1>1 DEF JoinStart
  <2> QED
    BY <1>a, <2>n, <2>1, <2>2
<1>2. ASSUME NEW r \in CsRequests, FindPart(r) PROVE OutInv'
  BY <1>2, <1>a DEF FindPart, CsStep
<1>3. ASSUME NEW r \in CsRequests, CreatePart(r) PROVE OutInv'
  <2> DEFINE key == <<cs_requests[r].user, cs_requests[r].part>>
  <2>1. /\ cs_requests[r].at = "create" /\ UNCHANGED <<cs_rows, cs_banned, cs_late, cs_pardoned>>
        /\ \E next : cs_requests' = [cs_requests EXCEPT ![r] = next]
    BY <1>3 DEF CreatePart, CsStep
  <2>2. CASE key \in DOMAIN cs_parts
    BY <1>3, <1>a, <2>1, <2>2 DEF CreatePart
  <2>3. CASE key \notin DOMAIN cs_parts
    <3>1. cs_parts' = [p \in DOMAIN cs_parts \cup {key} |->
                          IF p = key THEN [start |-> cs_clock, disq |-> FALSE] ELSE cs_parts[p]]
      BY <1>3, <2>3 DEF CreatePart
    <3>2. DOMAIN cs_parts \subseteq DOMAIN cs_parts'
          /\ \A p \in DOMAIN cs_parts' : cs_parts'[p].disq => p \in DOMAIN cs_parts /\ cs_parts[p].disq
      BY <2>3, <3>1
    <3> QED
      BY <1>a, <2>1, <3>2
  <2> QED
    BY <2>2, <2>3
<1>4. ASSUME NEW r \in CsRequests, EnterPart(r) PROVE OutInv'
  <2> DEFINE q == cs_requests[r]
  <2>1. q.at = "profile" /\ SaveProfile(r, [q.row EXCEPT !.course = q.part], [q EXCEPT !.at = "count"])
    BY <1>4 DEF EnterPart
  <2>2. q \in CourseJoin /\ q # CsIdle
    BY <1>t, <2>1, RequestKinds DEF CsIdle
  <2>3. [q.row EXCEPT !.course = q.part].course = q.part
    BY <2>2 DEF CourseJoin, CourseRow
  <2> QED
    BY <1>c, <2>1, <2>2, <2>3
<1>5. ASSUME NEW r \in CsRequests, CountUsers(r) PROVE OutInv'
  BY <1>5, <1>a DEF CountUsers, CsStep
<1>6. ASSUME NEW r \in CsRequests, SaveCourse(r) PROVE OutInv'
  BY <1>6, <1>a DEF SaveCourse, CsStep
<1>7. ASSUME NEW r \in CsRequests, NEW u \in CsUsers, NEW what \in {"leave", "contest", "nocontest"}, ProfileStart(r, u, what)
      PROVE  OutInv'
  <2>s. \E next : CsStart(r, next)
    BY <1>7, Zenon DEF ProfileStart
  <2>n. PICK next : cs_requests' = [cs_requests EXCEPT ![r] = next] /\ cs_requests[r] = CsIdle
    BY <2>s, Zenon DEF CsStart
  <2>1. cs_requests[r].at = "idle"
    BY <2>n DEF CsIdle
  <2>2. UNCHANGED <<cs_parts, cs_rows, cs_banned, cs_late, cs_pardoned>>
    BY <1>7 DEF ProfileStart
  <2> QED
    BY <1>a, <2>n, <2>1, <2>2
<1>8. ASSUME NEW r \in CsRequests, ProfileSave(r) PROVE OutInv'
  <2> DEFINE q == cs_requests[r]
             row == CASE q.what = "leave" -> [q.row EXCEPT !.course = NoPart]
                      [] q.what = "contest" -> [q.row EXCEPT !.contest = TRUE]
                      [] q.what = "nocontest" -> [q.row EXCEPT !.contest = FALSE]
  <2>1. q.at = "save" /\ SaveProfile(r, row, CsIdle)
    BY <1>8 DEF ProfileSave
  <2>2. q \in SaveRequest /\ q # CsIdle
    BY <1>t, <2>1, RequestKinds DEF CsIdle
  <2>3. row.course \in {NoPart, q.row.course}
    <3>1. q.what \in {"leave", "contest", "nocontest"} /\ q.row \in CourseRow
      BY <2>2 DEF SaveRequest
    <3>2. CASE q.what = "leave"
      <4>1. row = [q.row EXCEPT !.course = NoPart]
        BY <3>2
      <4> QED
        BY <3>1, <4>1 DEF CourseRow
    <3>3. CASE q.what = "contest"
      <4>1. row = [q.row EXCEPT !.contest = TRUE]
        BY <3>3
      <4> QED
        BY <3>1, <4>1 DEF CourseRow
    <3>4. CASE q.what = "nocontest"
      <4>1. row = [q.row EXCEPT !.contest = FALSE]
        BY <3>4
      <4> QED
        BY <3>1, <4>1 DEF CourseRow
    <3> QED
      BY <3>1, <3>2, <3>3, <3>4
  <2> HIDE DEF row
  <2> QED
    BY <1>c, <2>1, <2>2, <2>3
<1>9. ASSUME NEW r \in CsRequests, NEW p \in DOMAIN cs_parts, DisqualifyStart(r, p) PROVE OutInv'
  <2>s. \E next : CsStart(r, next)
    BY <1>9, Zenon DEF DisqualifyStart
  <2>n. PICK next : cs_requests' = [cs_requests EXCEPT ![r] = next] /\ cs_requests[r] = CsIdle
    BY <2>s, Zenon DEF CsStart
  <2>1. cs_requests[r].at = "idle"
    BY <2>n DEF CsIdle
  <2>2. UNCHANGED <<cs_parts, cs_rows, cs_banned, cs_late, cs_pardoned>>
    BY <1>9 DEF DisqualifyStart
  <2> QED
    BY <1>a, <2>n, <2>1, <2>2
<1>10. ASSUME NEW r \in CsRequests, Flag(r) PROVE OutInv'
  <2> DEFINE q == cs_requests[r]
             row == cs_rows[q.user]
             at == IF q.disq /\ Kicked(q.part, row) THEN "kick" ELSE "ban"
             next == [q EXCEPT !.row = row, !.at = at]
  <2>1. /\ q.at = "flag" /\ cs_requests' = [cs_requests EXCEPT ![r] = next]
        /\ UNCHANGED <<cs_rows, cs_banned, cs_late, cs_pardoned>>
        /\ cs_parts' = [cs_parts EXCEPT ![q.part].disq = q.disq]
    BY <1>10 DEF Flag, CsStep
  <2>2. q \in FlagRequest
    BY <1>t, <2>1, RequestKinds
  <2>3. q.part \in DOMAIN cs_parts /\ q.user = q.part[1] /\ q.user \in CsUsers /\ q.disq \in BOOLEAN
        /\ q.part = <<q.part[1], q.part[2]>>
    <3>1. q.part \in DOMAIN cs_parts /\ q.user = q.part[1]
      BY <1>t, <2>1 DEF RequestKnows
    <3>2. q.part \in CsUsers \X Int /\ q.user \in CsUsers /\ q.disq \in BOOLEAN
      BY <2>2 DEF FlagRequest
    <3> QED
      BY <3>1, <3>2
  <2>4. /\ next.at = at /\ next.user = q.user /\ next.disq = q.disq
        /\ at \in {"kick", "ban"} /\ (q.disq /\ row.course = q.part[2] => at = "kick")
    BY <2>2 DEF FlagRequest, Kicked
  <2>5. /\ DOMAIN cs_parts' = DOMAIN cs_parts
        /\ \A p \in DOMAIN cs_parts : cs_parts'[p].disq = IF p = q.part THEN q.disq ELSE cs_parts[p].disq
    BY <1>t, <2>1, <2>3 DEF CoursePart
  <2> HIDE DEF next, at
  <2>6. cs_requests'[r] = next
    BY <1>t, <2>1
  <2>7. /\ \A u : Barred(u) => Barred(u)'
        /\ \A o \in CsRequests : cs_requests[o].at \in {"kick", "ban"} => cs_requests'[o] = cs_requests[o]
    BY <1>b, <2>1
  <2>8. \A u : u = q.user /\ q.disq => Barred(u)'
    BY <2>4, <2>6 DEF Barred
  <2>9. \A p \in DOMAIN cs_parts' : cs_parts'[p].disq => Barred(p[1])' \/ p[1] \in cs_pardoned'
    BY <1>o, <2>1, <2>3, <2>5, <2>7, <2>8
  <2>10. ASSUME NEW u \in CsUsers, cs_rows'[u].course # NoPart, cs_parts'[<<u, cs_rows'[u].course>>].disq
         PROVE  \/ u \in cs_late' \cup cs_pardoned'
                \/ \E o \in CsRequests : cs_requests'[o].at = "kick" /\ cs_requests'[o].user = u
    <3>1. <<u, cs_rows[u].course>> \in DOMAIN cs_parts
      BY <1>t, <2>1, <2>10 DEF PartThere
    <3>2. CASE <<u, cs_rows[u].course>> = q.part
      <4>1. u = q.user /\ cs_rows[u].course = q.part[2] /\ q.disq
        BY <2>1, <2>3, <2>5, <2>10, <3>1, <3>2
      <4> QED
        BY <2>4, <2>6, <4>1
    <3>3. CASE <<u, cs_rows[u].course>> # q.part
      <4>1. cs_parts[<<u, cs_rows[u].course>>].disq
        BY <2>1, <2>5, <2>10, <3>1, <3>3
      <4> QED
        BY <1>o, <2>1, <2>7, <2>10, <4>1
    <3> QED
      BY <3>2, <3>3
  <2> QED
    BY <2>9, <2>10 DEF OutInv
<1>11. ASSUME NEW r \in CsRequests, Kick(r) PROVE OutInv'
  <2> DEFINE q == cs_requests[r]
             next == [q EXCEPT !.at = "ban"]
             row == [q.row EXCEPT !.course = NoPart]
  <2>1. q.at = "kick" /\ SaveProfile(r, row, next)
    BY <1>11 DEF Kick
  <2>2. q \in FlagRequest /\ q.disq
    BY <1>t, <2>1, RequestKinds DEF RequestKnows
  <2>3. next.at = "ban" /\ next.user = q.user /\ next.disq = q.disq /\ row.course = NoPart /\ q.user \in CsUsers
    BY <2>2 DEF FlagRequest, CourseRow
  <2>4. /\ cs_requests' = [cs_requests EXCEPT ![r] = next]
        /\ cs_rows' = [cs_rows EXCEPT ![q.user] = row] /\ UNCHANGED <<cs_parts, cs_banned, cs_pardoned>>
        /\ cs_late \subseteq cs_late'
    BY <2>1 DEF SaveProfile, CsStep
  <2> HIDE DEF next, row
  <2>5. \A o \in CsRequests : cs_requests'[o] = IF o = r THEN next ELSE cs_requests[o]
    BY <1>t, <2>4
  <2>6. \A u : Barred(u) => Barred(u)'
    BY <2>2, <2>3, <2>4, <2>5 DEF Barred
  <2>7. \A p \in DOMAIN cs_parts' : cs_parts'[p].disq => Barred(p[1])' \/ p[1] \in cs_pardoned'
    BY <1>o, <2>4, <2>6
  <2>8. ASSUME NEW u \in CsUsers, cs_rows'[u].course # NoPart, cs_parts'[<<u, cs_rows'[u].course>>].disq
        PROVE  \/ u \in cs_late' \cup cs_pardoned'
               \/ \E o \in CsRequests : cs_requests'[o].at = "kick" /\ cs_requests'[o].user = u
    <3>1. u # q.user
      BY <1>t, <2>3, <2>4, <2>8
    <3>2. cs_rows'[u] = cs_rows[u]
      BY <1>t, <2>4, <3>1
    <3> QED
      BY <1>o, <2>4, <2>5, <2>8, <3>1, <3>2
  <2> QED
    BY <2>7, <2>8 DEF OutInv
<1>12. ASSUME NEW r \in CsRequests, Ban(r) PROVE OutInv'
  <2> DEFINE q == cs_requests[r]
  <2>1. /\ q.at = "ban" /\ cs_requests' = [cs_requests EXCEPT ![r] = CsIdle]
        /\ UNCHANGED <<cs_parts, cs_rows, cs_late>>
        /\ cs_banned' = IF q.disq THEN cs_banned \cup {q.user} ELSE cs_banned \ {q.user}
        /\ cs_pardoned' = IF ~q.disq /\ \E p \in DOMAIN cs_parts : p[1] = q.user /\ cs_parts[p].disq
                          THEN cs_pardoned \cup {q.user} ELSE cs_pardoned
    BY <1>12 DEF Ban, CsStep
  <2>2. \A o \in CsRequests : o # r => cs_requests'[o] = cs_requests[o]
    BY <1>t, <2>1
  <2>3. ASSUME NEW p \in DOMAIN cs_parts, cs_parts[p].disq PROVE Barred(p[1])' \/ p[1] \in cs_pardoned'
    <3>1. CASE p[1] = q.user
      BY <2>1, <2>3, <3>1 DEF Barred
    <3>2. CASE p[1] # q.user
      <4>1. Barred(p[1]) => Barred(p[1])'
        BY <2>1, <2>2, <3>2 DEF Barred
      <4> QED
        BY <1>o, <2>1, <2>3, <4>1
    <3> QED
      BY <3>1, <3>2
  <2>4. ASSUME NEW u \in CsUsers, cs_rows'[u].course # NoPart, cs_parts'[<<u, cs_rows'[u].course>>].disq
        PROVE  \/ u \in cs_late' \cup cs_pardoned'
               \/ \E o \in CsRequests : cs_requests'[o].at = "kick" /\ cs_requests'[o].user = u
    <3>1. \A o \in CsRequests : cs_requests[o].at = "kick" => cs_requests'[o] = cs_requests[o]
      BY <2>1, <2>2
    <3> QED
      BY <1>o, <2>1, <2>4, <3>1
  <2> QED
    BY <2>1, <2>3, <2>4 DEF OutInv
<1>13. ASSUME NEW u \in CsUsers, AdminBan(u) PROVE OutInv'
  <2>1. /\ UNCHANGED <<cs_parts, cs_requests, cs_late, cs_pardoned>> /\ cs_rows' = [cs_rows EXCEPT ![u].course = NoPart]
        /\ cs_banned \subseteq cs_banned'
    BY <1>13 DEF AdminBan
  <2>2. \A v : Barred(v) => Barred(v)'
    BY <2>1 DEF Barred
  <2>3. \A v \in CsUsers : cs_rows'[v].course \in {NoPart, cs_rows[v].course}
    BY <1>t, <2>1 DEF CourseRow
  <2>4. \A p \in DOMAIN cs_parts' : cs_parts'[p].disq => Barred(p[1])' \/ p[1] \in cs_pardoned'
    BY <1>o, <2>1, <2>2
  <2> QED
    BY <1>o, <2>1, <2>3, <2>4 DEF OutInv
<1>14. CASE CsTick \/ UNCHANGED csvars
  <2>1. UNCHANGED <<cs_parts, cs_rows, cs_requests, cs_banned, cs_late, cs_pardoned>>
    BY <1>14 DEF CsTick, csvars
  <2>2. \A v : Barred(v)' <=> Barred(v)
    BY <2>1 DEF Barred
  <2> QED
    BY <1>o, <2>1, <2>2 DEF OutInv
<1> QED
  BY <1>1, <1>2, <1>3, <1>4, <1>5, <1>6, <1>7, <1>8, <1>9, <1>10, <1>11, <1>12, <1>13, <1>14 DEF CsNext

\* What requests know is enough for what is said of courses.
LEMMA CoursesSafe == CoursesInv /\ OutInv /\ CountInv => CoursesHold
<1> SUFFICES ASSUME CoursesInv, OutInv, CountInv PROVE CoursesHold
  OBVIOUS
<1>i. ASSUME \A r \in CsRequests : cs_requests[r] = CsIdle
      PROVE  \A r \in CsRequests : cs_requests[r].at = "idle"
  BY <1>i DEF CsIdle
<1>1. VirtualsAreNumbered
  <2>1. ASSUME NEW u \in CsUsers
        PROVE  /\ VirtualsOf(u) = 1 .. Cardinality(VirtualsOf(u))
               /\ <<u, SPECTATE>> \in DOMAIN cs_parts => u \in CsEditors \/ HasCompleted(u, cs_clock)
    <3>1. PICK k \in Nat : VirtualsIn(cs_parts, u) = 1 .. k
      BY DEF CoursesInv, PartsSound
    <3>2. VirtualsOf(u) = 1 .. k
      BY <3>1 DEF VirtualsOf, VirtualsIn
    <3>3. Cardinality(1 .. k) = k
      BY FS_Interval
    <3>4. <<u, SPECTATE>> \in DOMAIN cs_parts => u \in CsEditors \/ HasCompleted(u, cs_clock)
      BY DEF CoursesInv, PartsSound, MaySpectate, HasCompleted, PartEnded, LIVE
    <3> QED
      BY <3>2, <3>3, <3>4
  <2> QED
    BY <2>1 DEF VirtualsAreNumbered
<1>2. DisqualifiedAreOut
  <2> SUFFICES ASSUME \A r \in CsRequests : cs_requests[r] = CsIdle, NEW u \in CsUsers, cs_rows[u].course # NoPart
               PROVE  /\ <<u, cs_rows[u].course>> \in DOMAIN cs_parts
                      /\ cs_parts[<<u, cs_rows[u].course>>].disq => u \in cs_late \cup cs_pardoned
    BY DEF DisqualifiedAreOut
  <2>1. <<u, cs_rows[u].course>> \in DOMAIN cs_parts
    BY DEF CoursesInv, PartThere
  <2> QED
    BY <1>i, <2>1 DEF OutInv
<1>3. UsersAreCounted
  BY <1>i DEF UsersAreCounted, CountInv
<1> QED
  BY <1>1, <1>2, <1>3 DEF CoursesHold

\* Joining, leaving and disqualifying (views/courses.py, models/course.py): attempts are numbered without
\* gaps, spectators may spectate, banned users are out and the count is that of live users, but for the overlaps
\* the model names; for any limit of time, number of users and of requests.
THEOREM ParticipationsAreNumbered == ASSUME CoursesAssumption PROVE CsSpec => []CoursesHold
<1>1. CsInit => CoursesInv /\ OutInv /\ CountInv
  BY CoursesInit
<1>2. CoursesInv /\ OutInv /\ CountInv /\ [CsNext]_csvars => (CoursesInv /\ OutInv /\ CountInv)'
  BY CoursesStep, OutStep, CountStep
<1> QED
  BY <1>1, <1>2, CoursesSafe, PTL DEF CsSpec

-----------------------------------------------------------------------------
(* Accounts.                                                               *)

SettingsRow == [totp : BOOLEAN, key : AcSessions \cup {NoKey}, codes : BOOLEAN, webauthn : BOOLEAN]
AccountRequest == [kind : Kinds \cup {"mark", "count"}, row : SettingsRow, device : AcDevices]

AccountsTypeOK ==
    /\ ac_row \in SettingsRow
    /\ ac_devices \subseteq AcDevices /\ IsFiniteSet(ac_devices)
    /\ ac_sessions \in [AcSessions -> [passed : BOOLEAN, key : AcSessions \cup {NoKey}]]
    /\ \A s \in AcSessions : ac_sessions[s].key \in {NoKey, s}
    /\ ac_requests \in [AcSessions -> AccountRequest \cup {NoRequest}]
    /\ ac_lapped \in BOOLEAN /\ ac_cleared \subseteq AcSessions

\* A row has a key when it has an app, also one that was loaded before.
Keyed(row) == row.totp <=> row.key # NoKey
RowsAreKeyed == Keyed(ac_row) /\ \A s \in AcSessions : ac_requests[s] # NoRequest => Keyed(ac_requests[s].row)

\* Requests between the two halves of a change of devices.
Halfway == {s \in AcSessions : ac_requests[s].kind \in {"mark", "count"}}

\* While requests do not overlap: a request works on the row as it is; a session that has a key has seen spare
\* codes, unless they were cleared since; and the flag follows the devices, or will.
NothingIsStale ==
    /\ \A s \in AcSessions : ac_requests[s] # NoRequest => ac_requests[s].row = ac_row
    /\ \A s \in AcSessions : ac_sessions[s].key # NoKey => ac_row.codes \/ s \in ac_cleared
    /\ ac_row.totp => ac_row.codes \/ ac_row.key \in ac_cleared
    /\ Halfway = {} => (ac_row.webauthn <=> ac_devices # {})
    /\ \A s \in Halfway : Halfway = {s} =>
          /\ ac_requests[s].kind = "mark" => ac_devices # {}
          /\ ac_requests[s].kind = "count" => /\ ac_devices # {} => ac_row.webauthn
                                              /\ AcStaff => ac_row.totp \/ ac_devices # {}

AccountsInv == AccountsTypeOK /\ RowsAreKeyed /\ (~ac_lapped => NothingIsStale)

\* A session without a request is told from the others by what it asks.
LEMMA RequestsAreTold ==
    ASSUME AccountsTypeOK, NEW s \in AcSessions
    PROVE  /\ ac_requests[s] = NoRequest <=> ac_requests[s].kind = "none"
           /\ ac_requests[s] # NoRequest => ac_requests[s] \in AccountRequest
BY DEF AccountsTypeOK, NoRequest, AccountRequest, Kinds

\* An account without a second factor.
LEMMA AccountsInit == AcInit => AccountsInv
<1> SUFFICES ASSUME AcInit PROVE AccountsInv
  OBVIOUS
<1>1. \A s \in AcSessions : ac_requests[s] = NoRequest /\ ac_requests[s].kind = "none"
  BY DEF AcInit, NoRequest
<1>2. Halfway = {}
  BY <1>1 DEF Halfway
<1>3. IsFiniteSet(ac_devices)
  BY FS_EmptySet DEF AcInit
<1> QED
  BY <1>1, <1>2, <1>3 DEF AcInit, AccountsInv, AccountsTypeOK, SettingsRow, RowsAreKeyed, Keyed, NothingIsStale, HasFactor

\* Requests of several sessions that read, check and store the settings of one user.
LEMMA AccountsStep == AccountsAssumption /\ AccountsInv /\ [AcNext]_acvars => AccountsInv'
<1> SUFFICES ASSUME AccountsAssumption, AccountsInv, [AcNext]_acvars
             PROVE  AccountsInv'
  OBVIOUS
<1> USE DEF AccountsInv
<1>n. NoRequest.kind = "none" /\ NoRequest \notin AccountRequest
  BY DEF NoRequest, AccountRequest, Kinds
<1>k. \A s \in AcSessions : /\ ac_requests[s] = NoRequest <=> ac_requests[s].kind = "none"
                            /\ ac_requests[s] # NoRequest => ac_requests[s] \in AccountRequest
  BY RequestsAreTold
\* A request ends and the settings are as they were.
<1>a. ASSUME NEW s \in AcSessions, ac_requests' = [ac_requests EXCEPT ![s] = NoRequest], s \notin Halfway,
             UNCHANGED <<ac_row, ac_devices, ac_lapped, ac_cleared>>,
             \A o \in AcSessions : ac_sessions'[o].key \in {NoKey, ac_sessions[o].key},
             ac_sessions' \in [AcSessions -> [passed : BOOLEAN, key : AcSessions \cup {NoKey}]]
      PROVE  AccountsInv'
  <2>1. AccountsTypeOK'
    BY <1>a DEF AccountsTypeOK
  <2>2. \A o \in AcSessions : ac_requests'[o] = IF o = s THEN NoRequest ELSE ac_requests[o]
    BY <1>a DEF AccountsTypeOK
  <2>3. Halfway' = Halfway
    BY <1>a, <1>n, <2>2 DEF Halfway
  <2>4. RowsAreKeyed'
    BY <1>a, <2>2 DEF RowsAreKeyed, Keyed
  <2>5. ASSUME NothingIsStale PROVE NothingIsStale'
    <3>1. \A o \in Halfway : ac_requests'[o] = ac_requests[o]
      BY <1>a, <2>2 DEF Halfway
    <3>2. \A o \in AcSessions : ac_requests'[o] # NoRequest => ac_requests'[o].row = ac_row'
      BY <1>a, <2>2, <2>5 DEF NothingIsStale
    <3>3. \A o \in AcSessions : ac_sessions'[o].key # NoKey => ac_row'.codes \/ o \in ac_cleared'
      BY <1>a, <2>5 DEF NothingIsStale
    <3> QED
      BY <1>a, <2>3, <2>5, <3>1, <3>2, <3>3 DEF NothingIsStale
  <2> QED
    BY <1>a, <2>1, <2>4, <2>5
\* A request ends that changed settings.
<1>b. ASSUME NEW s \in AcSessions, EndRequest(s), ac_requests[s] # NoRequest, UNCHANGED ac_devices,
             ac_row' \in SettingsRow, Keyed(ac_row'), ac_cleared' \subseteq AcSessions,
             ac_sessions' \in [AcSessions -> [passed : BOOLEAN, key : AcSessions \cup {NoKey}]],
             \A o \in AcSessions : ac_sessions'[o].key \in {NoKey, o},
             ~ac_lapped /\ NothingIsStale /\ Halfway \subseteq {s} /\ ac_requests[s].row = ac_row
             => /\ \A o \in AcSessions : ac_sessions'[o].key # NoKey => ac_row'.codes \/ o \in ac_cleared'
                /\ ac_row'.totp => ac_row'.codes \/ ac_row'.key \in ac_cleared'
                /\ ac_row'.webauthn <=> ac_devices # {}
      PROVE  AccountsInv'
  <2>1. /\ ac_requests' = [ac_requests EXCEPT ![s] = NoRequest]
        /\ ac_lapped' = (ac_lapped \/ \E o \in AcSessions \ {s} : ac_requests[o] # NoRequest)
    BY <1>b DEF EndRequest
  <2>2. AccountsTypeOK'
    BY <1>b, <2>1 DEF AccountsTypeOK
  <2>3. \A o \in AcSessions : ac_requests'[o] = IF o = s THEN NoRequest ELSE ac_requests[o]
    BY <2>1 DEF AccountsTypeOK
  <2>4. RowsAreKeyed'
    BY <1>b, <2>3 DEF RowsAreKeyed, Keyed
  <2>5. ASSUME ~ac_lapped' PROVE NothingIsStale'
    <3>1. ~ac_lapped /\ NothingIsStale /\ \A o \in AcSessions \ {s} : ac_requests[o] = NoRequest
      BY <2>1, <2>5 DEF AccountsTypeOK
    <3>2. \A o \in AcSessions : ac_requests'[o] = NoRequest
      BY <2>3, <3>1
    <3>3. Halfway \subseteq {s} /\ Halfway' = {} /\ ac_requests[s].row = ac_row
      BY <1>b, <1>n, <3>1, <3>2 DEF Halfway, NothingIsStale
    <3> QED
      BY <1>b, <3>1, <3>2, <3>3 DEF NothingIsStale
  <2> QED
    BY <2>2, <2>4, <2>5
\* A request that ended without being halfway finds the flag true to the devices.
<1>c. ASSUME NEW s \in AcSessions, s \notin Halfway, ~ac_lapped, NothingIsStale, Halfway \subseteq {s}
      PROVE  ac_row.webauthn <=> ac_devices # {}
  <2>1. Halfway = {}
    BY <1>c
  <2> QED
    BY <1>c, <2>1 DEF NothingIsStale
<1>d. \A s \in AcSessions : ac_requests[s] # NoRequest => ac_requests[s].row \in SettingsRow /\ Keyed(ac_requests[s].row)
  BY <1>k DEF AccountRequest, RowsAreKeyed
<1>e. ac_row \in SettingsRow /\ Keyed(ac_row)
  BY DEF AccountsTypeOK, RowsAreKeyed
<1>1. ASSUME NEW s \in AcSessions, NEW kind \in Kinds, NEW device \in AcDevices, BeginRequest(s, kind, device)
      PROVE  AccountsInv'
  <2>1. /\ ac_requests[s] = NoRequest
        /\ ac_requests' = [ac_requests EXCEPT ![s] = [kind |-> kind, row |-> ac_row, device |-> device]]
        /\ UNCHANGED <<ac_row, ac_devices, ac_sessions, ac_lapped, ac_cleared>>
    BY <1>1 DEF BeginRequest
  <2>2. [kind |-> kind, row |-> ac_row, device |-> device] \in AccountRequest /\ kind \notin {"mark", "count"}
    BY <1>e DEF AccountRequest, Kinds
  <2>3. AccountsTypeOK'
    BY <2>1, <2>2 DEF AccountsTypeOK
  <2>4. \A o \in AcSessions : ac_requests'[o] = IF o = s THEN [kind |-> kind, row |-> ac_row, device |-> device]
                                                ELSE ac_requests[o]
    BY <2>1 DEF AccountsTypeOK
  <2>5. Halfway' = Halfway /\ s \notin Halfway
    BY <1>n, <2>1, <2>2, <2>4 DEF Halfway
  <2>6. RowsAreKeyed'
    BY <1>e, <2>1, <2>4 DEF RowsAreKeyed, Keyed
  <2>7. ASSUME NothingIsStale PROVE NothingIsStale'
    <3>1. \A o \in Halfway : ac_requests'[o] = ac_requests[o]
      BY <2>4, <2>5 DEF Halfway
    <3>2. \A o \in AcSessions : ac_requests'[o] # NoRequest => ac_requests'[o].row = ac_row'
      BY <2>1, <2>4, <2>7 DEF NothingIsStale
    <3> QED
      BY <2>1, <2>5, <2>7, <3>1, <3>2 DEF NothingIsStale
  <2> QED
    BY <2>1, <2>3, <2>6, <2>7
<1>2. ASSUME NEW s \in AcSessions, Skip(s) \/ NoKeyYet(s)
      PROVE  AccountsInv'
  <2>1. /\ ac_requests' = [ac_requests EXCEPT ![s] = NoRequest]
        /\ UNCHANGED <<ac_row, ac_devices, ac_sessions, ac_lapped, ac_cleared>>
        /\ ac_requests[s].kind \notin {"mark", "count"}
    BY <1>2 DEF Skip, NoKeyYet, Skipped, Doing
  <2>2. s \notin Halfway
    BY <2>1 DEF Halfway
  <2> QED
    BY <1>a, <2>1, <2>2 DEF AccountsTypeOK
<1>3. ASSUME NEW s \in AcSessions, NoDevice(s)
      PROVE  AccountsInv'
  <2>1. /\ ac_requests' = [ac_requests EXCEPT ![s] = NoRequest]
        /\ UNCHANGED <<ac_row, ac_devices, ac_sessions, ac_lapped, ac_cleared>>
        /\ ac_requests[s].kind \notin {"mark", "count"}
    BY <1>3 DEF NoDevice, Doing
  <2>2. s \notin Halfway
    BY <2>1 DEF Halfway
  <2> QED
    BY <1>a, <2>1, <2>2 DEF AccountsTypeOK
<1>4. ASSUME NEW s \in AcSessions, LeaveSession(s)
      PROVE  AccountsInv'
  <2>1. /\ ac_requests' = [ac_requests EXCEPT ![s] = NoRequest]
        /\ UNCHANGED <<ac_row, ac_devices, ac_lapped, ac_cleared>>
        /\ ac_sessions' = [ac_sessions EXCEPT ![s] = [passed |-> FALSE, key |-> NoKey]]
        /\ ac_requests[s].kind \notin {"mark", "count"}
    BY <1>4, <1>n DEF LeaveSession, Doing
  <2>2. s \notin Halfway
    BY <2>1 DEF Halfway
  <2> QED
    BY <1>a, <2>1, <2>2 DEF AccountsTypeOK
<1>5. ASSUME NEW s \in AcSessions, KeyPage(s)
      PROVE  AccountsInv'
  <2>1. /\ ac_requests[s].kind \in {"enable_page", "refresh_page"} /\ EndRequest(s) /\ UNCHANGED ac_devices
        /\ ac_sessions' = [ac_sessions EXCEPT ![s].key = IF ac_sessions[s].key = NoKey THEN s ELSE ac_sessions[s].key]
        /\ ac_row' = [ac_row EXCEPT !.codes = ac_row.codes \/ ~ac_requests[s].row.codes]
        /\ ac_cleared' = ac_cleared \ {s}
    BY <1>5 DEF KeyPage, Doing, SetSession, SetRow
  <2>2. s \notin Halfway /\ ac_requests[s] # NoRequest
    BY <2>1, <1>n DEF Halfway
  <2>3. ac_row' \in SettingsRow /\ Keyed(ac_row')
    BY <1>d, <1>e, <2>1, <2>2 DEF SettingsRow, Keyed
  <2>4. ac_row'.webauthn = ac_row.webauthn /\ (ac_requests[s].row = ac_row => ac_row'.codes)
    BY <1>e, <2>1 DEF SettingsRow
  <2>5. /\ ac_sessions' \in [AcSessions -> [passed : BOOLEAN, key : AcSessions \cup {NoKey}]]
        /\ \A o \in AcSessions : ac_sessions'[o].key \in {NoKey, o}
        /\ ac_cleared' \subseteq AcSessions
    BY <2>1 DEF AccountsTypeOK
  <2> QED
    BY <1>b, <1>c, <2>1, <2>2, <2>3, <2>4, <2>5
<1>6. ASSUME NEW s \in AcSessions, EnableTOTP(s)
      PROVE  AccountsInv'
  <2>1. /\ ac_requests[s].kind \in {"enable", "refresh"} /\ EndRequest(s) /\ UNCHANGED <<ac_devices, ac_cleared>>
        /\ ac_sessions[s].key # NoKey
        /\ ac_sessions' = [ac_sessions EXCEPT ![s] = [passed |-> TRUE, key |-> NoKey]]
        /\ ac_row' = [ac_row EXCEPT !.totp = TRUE, !.key = ac_sessions[s].key]
    BY <1>6 DEF EnableTOTP, Doing, KeySaved, SetRow
  <2>2. s \notin Halfway /\ ac_requests[s] # NoRequest
    BY <2>1, <1>n DEF Halfway
  <2>3. ac_sessions[s].key = s
    BY <2>1 DEF AccountsTypeOK
  <2>4. ac_row' \in SettingsRow /\ Keyed(ac_row') /\ ac_row'.webauthn = ac_row.webauthn /\ ac_row'.codes = ac_row.codes
        /\ ac_row'.key = s
    BY <1>e, <2>1, <2>3 DEF SettingsRow, Keyed
  <2>5. /\ ac_sessions' \in [AcSessions -> [passed : BOOLEAN, key : AcSessions \cup {NoKey}]]
        /\ \A o \in AcSessions : ac_sessions'[o].key \in {NoKey, ac_sessions[o].key}
        /\ \A o \in AcSessions : ac_sessions'[o].key \in {NoKey, o}
        /\ ac_cleared' \subseteq AcSessions
    BY <2>1 DEF AccountsTypeOK
  <2>6. NothingIsStale => /\ \A o \in AcSessions : ac_sessions[o].key # NoKey => ac_row.codes \/ o \in ac_cleared
                          /\ ac_row.codes \/ s \in ac_cleared
    BY <2>1 DEF NothingIsStale
  <2> QED
    BY <1>b, <1>c, <2>1, <2>2, <2>4, <2>5, <2>6
<1>7. ASSUME NEW s \in AcSessions, DisableTOTP(s)
      PROVE  AccountsInv'
  <2>1. /\ ac_requests[s].kind = "disable" /\ EndRequest(s) /\ UNCHANGED <<ac_devices, ac_sessions>>
        /\ ac_row' = [ac_requests[s].row EXCEPT !.totp = FALSE, !.key = NoKey, !.codes = FALSE]
        /\ ac_cleared' = {o \in AcSessions : ac_sessions[o].key # NoKey}
    BY <1>7 DEF DisableTOTP, Doing, SetRow
  <2>2. s \notin Halfway /\ ac_requests[s] # NoRequest
    BY <2>1, <1>n DEF Halfway
  <2>3. ac_row' \in SettingsRow /\ Keyed(ac_row') /\ ac_row'.webauthn = ac_requests[s].row.webauthn /\ ~ac_row'.totp
    BY <1>d, <2>1, <2>2 DEF SettingsRow, Keyed
  <2>4. /\ ac_sessions' \in [AcSessions -> [passed : BOOLEAN, key : AcSessions \cup {NoKey}]]
        /\ \A o \in AcSessions : ac_sessions'[o].key \in {NoKey, o}
        /\ \A o \in AcSessions : ac_sessions'[o].key # NoKey => o \in ac_cleared'
        /\ ac_cleared' \subseteq AcSessions
    BY <2>1 DEF AccountsTypeOK
  <2> QED
    BY <1>b, <1>c, <2>1, <2>2, <2>3, <2>4
<1>8. ASSUME NEW s \in AcSessions, NewCodes(s)
      PROVE  AccountsInv'
  <2>1. /\ ac_requests[s].kind = "codes" /\ EndRequest(s) /\ UNCHANGED <<ac_devices, ac_sessions, ac_cleared>>
        /\ ac_row' = [ac_row EXCEPT !.codes = TRUE]
    BY <1>8 DEF NewCodes, Doing, SetRow
  <2>2. s \notin Halfway /\ ac_requests[s] # NoRequest
    BY <2>1, <1>n DEF Halfway
  <2>3. ac_row' \in SettingsRow /\ Keyed(ac_row') /\ ac_row'.webauthn = ac_row.webauthn /\ ac_row'.codes
    BY <1>e, <2>1 DEF SettingsRow, Keyed
  <2>4. /\ ac_sessions' \in [AcSessions -> [passed : BOOLEAN, key : AcSessions \cup {NoKey}]]
        /\ \A o \in AcSessions : ac_sessions'[o].key \in {NoKey, o}
        /\ ac_cleared' \subseteq AcSessions
    BY <2>1 DEF AccountsTypeOK
  <2> QED
    BY <1>b, <1>c, <2>1, <2>2, <2>3, <2>4
<1>9. ASSUME NEW s \in AcSessions, SaveWhole(s) \/ PassSecond(s)
      PROVE  AccountsInv'
  <2>1. /\ ac_requests[s].kind \in {"whole", "second"} /\ EndRequest(s) /\ UNCHANGED <<ac_devices, ac_cleared>>
        /\ ac_row' \in {ac_row, ac_requests[s].row}
        /\ \/ UNCHANGED ac_sessions
           \/ ac_sessions' = [ac_sessions EXCEPT ![s].passed = HasFactor(ac_requests[s].row)]
    BY <1>9 DEF SaveWhole, PassSecond, Doing, SetRow, SetSession
  <2>2. s \notin Halfway /\ ac_requests[s] # NoRequest
    BY <2>1, <1>n DEF Halfway
  <2>3. ac_row' \in SettingsRow /\ Keyed(ac_row') /\ (ac_requests[s].row = ac_row => ac_row' = ac_row)
    BY <1>d, <1>e, <2>1, <2>2
  <2>a. HasFactor(ac_requests[s].row) \in BOOLEAN
    BY <1>d, <2>2 DEF HasFactor, SettingsRow
  <2>4. /\ ac_sessions' \in [AcSessions -> [passed : BOOLEAN, key : AcSessions \cup {NoKey}]]
        /\ \A o \in AcSessions : ac_sessions'[o].key = ac_sessions[o].key
        /\ \A o \in AcSessions : ac_sessions'[o].key \in {NoKey, o}
        /\ ac_cleared' \subseteq AcSessions
    BY <2>1, <2>a DEF AccountsTypeOK
  <2>5. NothingIsStale => /\ \A o \in AcSessions : ac_sessions[o].key # NoKey => ac_row.codes \/ o \in ac_cleared
                          /\ ac_row.totp => ac_row.codes \/ ac_row.key \in ac_cleared
    BY DEF NothingIsStale
  <2> QED
    BY <1>b, <1>c, <2>1, <2>2, <2>3, <2>4, <2>5
\* The first half of a change of devices.
<1>f. ASSUME NEW s \in AcSessions, NEW kind \in {"mark", "count"}, ac_requests[s].kind \in {"register", "delete"},
             ac_requests' = [ac_requests EXCEPT ![s].kind = kind],
             UNCHANGED <<ac_row, ac_sessions, ac_lapped, ac_cleared>>,
             ac_devices' \subseteq AcDevices, IsFiniteSet(ac_devices'),
             NothingIsStale /\ Halfway = {} =>
                /\ kind = "mark" => ac_devices' # {}
                /\ kind = "count" => (ac_devices' # {} => ac_row.webauthn) /\ (AcStaff => ac_row.totp \/ ac_devices' # {})
      PROVE  AccountsInv'
  <2>1. ac_requests[s] \in AccountRequest
    BY <1>f, <1>k
  <2>2. PICK r \in AccountRequest : /\ ac_requests' = [ac_requests EXCEPT ![s] = r]
                                   /\ r.kind = kind /\ r.row = ac_requests[s].row
    <3>1. [ac_requests[s] EXCEPT !.kind = kind] \in AccountRequest
      BY <2>1, <1>f DEF AccountRequest
    <3>2. ac_requests' = [ac_requests EXCEPT ![s] = [ac_requests[s] EXCEPT !.kind = kind]]
      BY <1>f DEF AccountsTypeOK
    <3>3. [ac_requests[s] EXCEPT !.kind = kind].kind = kind /\ [ac_requests[s] EXCEPT !.kind = kind].row = ac_requests[s].row
      BY <2>1 DEF AccountRequest
    <3> QED
      BY <3>1, <3>2, <3>3
  <2>3. AccountsTypeOK'
    BY <1>f, <2>2 DEF AccountsTypeOK
  <2>4. \A o \in AcSessions : ac_requests'[o] = IF o = s THEN r ELSE ac_requests[o]
    BY <2>2 DEF AccountsTypeOK
  <2>5. ac_requests[s] # NoRequest
    BY <1>f, <1>n
  <2>6. RowsAreKeyed'
    BY <1>f, <2>2, <2>4, <2>5 DEF RowsAreKeyed, Keyed
  <2>7. s \notin Halfway /\ Halfway' = Halfway \cup {s}
    BY <1>f, <2>2, <2>4 DEF Halfway
  <2>8. ASSUME NothingIsStale PROVE NothingIsStale'
    <3>1. \A o \in AcSessions : ac_requests'[o] # NoRequest => ac_requests'[o].row = ac_row'
      BY <1>f, <2>2, <2>4, <2>5, <2>8 DEF NothingIsStale
    <3>2. ASSUME NEW o \in Halfway', Halfway' = {o}
          PROVE  o = s /\ Halfway = {}
      BY <3>2, <2>7
    <3>3. Halfway' # {}
      BY <2>7
    <3>4. \A o \in Halfway' : Halfway' = {o} =>
             /\ ac_requests'[o].kind = "mark" => ac_devices' # {}
             /\ ac_requests'[o].kind = "count" => /\ ac_devices' # {} => ac_row'.webauthn
                                                  /\ AcStaff => ac_row'.totp \/ ac_devices' # {}
      BY <1>f, <2>2, <2>4, <2>8, <3>2
    <3>5. /\ \A o \in AcSessions : ac_sessions'[o].key # NoKey => ac_row'.codes \/ o \in ac_cleared'
          /\ ac_row'.totp => ac_row'.codes \/ ac_row'.key \in ac_cleared'
      BY <1>f, <2>8 DEF NothingIsStale
    <3> QED
      BY <3>1, <3>3, <3>4, <3>5 DEF NothingIsStale
  <2> QED
    BY <1>f, <2>3, <2>6, <2>8
<1>10. ASSUME NEW s \in AcSessions, StoreDevice(s)
       PROVE  AccountsInv'
  <2>1. /\ ac_requests[s].kind = "register" /\ ac_requests' = [ac_requests EXCEPT ![s].kind = "mark"]
        /\ ac_devices' = ac_devices \cup {ac_requests[s].device}
        /\ UNCHANGED <<ac_row, ac_sessions, ac_lapped, ac_cleared>>
    BY <1>10 DEF StoreDevice, Doing
  <2>2. ac_requests[s].device \in AcDevices
    BY <2>1, <1>k DEF AccountRequest
  <2>3. IsFiniteSet(ac_devices')
    BY <2>1, FS_AddElement DEF AccountsTypeOK
  <2>4. ac_devices' \subseteq AcDevices /\ ac_devices' # {}
    BY <2>1, <2>2 DEF AccountsTypeOK
  <2> QED
    BY <1>f, <2>1, <2>3, <2>4
<1>11. ASSUME NEW s \in AcSessions, DeleteDevice(s)
       PROVE  AccountsInv'
  <2>1. /\ ac_requests[s].kind = "delete" /\ ac_requests[s].device \in ac_devices
        /\ UNCHANGED <<ac_row, ac_sessions, ac_lapped, ac_cleared>>
        /\ IF LastFactor(s)
           THEN ac_requests' = [ac_requests EXCEPT ![s] = NoRequest] /\ ac_devices' = ac_devices
           ELSE /\ ac_devices' = ac_devices \ {ac_requests[s].device}
                /\ ac_requests' = [ac_requests EXCEPT ![s].kind = "count"]
    BY <1>11 DEF DeleteDevice, Doing
  <2>2. CASE LastFactor(s)
    <3>1. s \notin Halfway
      BY <2>1 DEF Halfway
    <3> QED
      BY <1>a, <2>1, <2>2, <3>1 DEF AccountsTypeOK
  <2>3. CASE ~LastFactor(s)
    <3>1. /\ IsFiniteSet(ac_devices) /\ IsFiniteSet(ac_devices') /\ ac_devices' \subseteq AcDevices
          /\ Cardinality(ac_devices') = Cardinality(ac_devices) - 1
      BY <2>1, <2>3, FS_RemoveElement DEF AccountsTypeOK
    <3>2. ac_requests[s] # NoRequest
      BY <2>1, <1>n
    <3>3. Cardinality(ac_devices) \in Nat
      BY <3>1, FS_CardinalityType
    <3>4. NothingIsStale => (AcStaff => ac_row.totp \/ ac_devices' # {})
      <4>1. NothingIsStale => ac_requests[s].row = ac_row
        BY <3>2 DEF NothingIsStale
      <4>2. Cardinality(ac_devices) > 1 => ac_devices' # {}
        BY <3>1, <3>3, FS_EmptySet
      <4> QED
        BY <2>3, <3>3, <4>1, <4>2 DEF LastFactor
    <3>5. NothingIsStale /\ Halfway = {} => ac_row.webauthn
      BY <2>1 DEF NothingIsStale
    <3> QED
      BY <1>f, <2>1, <2>3, <3>1, <3>4, <3>5
  <2> QED
    BY <2>2, <2>3
<1>12. ASSUME NEW s \in AcSessions, MarkDevice(s)
       PROVE  AccountsInv'
  <2>1. /\ ac_requests[s].kind = "mark" /\ EndRequest(s) /\ UNCHANGED <<ac_devices, ac_sessions, ac_cleared>>
        /\ ac_row' = [ac_row EXCEPT !.webauthn = ac_row.webauthn \/ ~ac_requests[s].row.webauthn]
    BY <1>12 DEF MarkDevice, Doing, SetRow
  <2>2. s \in Halfway /\ ac_requests[s] # NoRequest
    BY <2>1, <1>n DEF Halfway
  <2>3. ac_row' \in SettingsRow /\ Keyed(ac_row') /\ (ac_requests[s].row = ac_row => ac_row'.webauthn)
        /\ ac_row'.codes = ac_row.codes /\ ac_row'.totp = ac_row.totp /\ ac_row'.key = ac_row.key
    BY <1>d, <1>e, <2>1, <2>2 DEF SettingsRow, Keyed
  <2>4. /\ ac_sessions' \in [AcSessions -> [passed : BOOLEAN, key : AcSessions \cup {NoKey}]]
        /\ \A o \in AcSessions : ac_sessions'[o].key \in {NoKey, o}
        /\ ac_cleared' \subseteq AcSessions
    BY <2>1 DEF AccountsTypeOK
  <2>5. NothingIsStale => /\ \A o \in AcSessions : ac_sessions[o].key # NoKey => ac_row.codes \/ o \in ac_cleared
                          /\ ac_row.totp => ac_row.codes \/ ac_row.key \in ac_cleared
    BY DEF NothingIsStale
  <2>6. NothingIsStale /\ Halfway \subseteq {s} => ac_devices # {}
    <3>1. Halfway \subseteq {s} => Halfway = {s}
      BY <2>2
    <3> QED
      BY <3>1, <2>1, <2>2 DEF NothingIsStale
  <2> QED
    BY <1>b, <2>1, <2>2, <2>3, <2>4, <2>5, <2>6
<1>13. ASSUME NEW s \in AcSessions, UnmarkDevice(s)
       PROVE  AccountsInv'
  <2>1. /\ ac_requests[s].kind = "count" /\ EndRequest(s) /\ UNCHANGED <<ac_devices, ac_sessions, ac_cleared>>
        /\ ac_row' = [ac_row EXCEPT !.webauthn = ac_row.webauthn /\ ac_devices # {}]
    BY <1>13 DEF UnmarkDevice, Doing, SetRow
  <2>2. s \in Halfway /\ ac_requests[s] # NoRequest
    BY <2>1, <1>n DEF Halfway
  <2>3. ac_row' \in SettingsRow /\ Keyed(ac_row') /\ (ac_row'.webauthn <=> ac_row.webauthn /\ ac_devices # {})
        /\ ac_row'.codes = ac_row.codes /\ ac_row'.totp = ac_row.totp /\ ac_row'.key = ac_row.key
    BY <1>e, <2>1 DEF SettingsRow, Keyed
  <2>4. /\ ac_sessions' \in [AcSessions -> [passed : BOOLEAN, key : AcSessions \cup {NoKey}]]
        /\ \A o \in AcSessions : ac_sessions'[o].key \in {NoKey, o}
        /\ ac_cleared' \subseteq AcSessions
    BY <2>1 DEF AccountsTypeOK
  <2>5. NothingIsStale => /\ \A o \in AcSessions : ac_sessions[o].key # NoKey => ac_row.codes \/ o \in ac_cleared
                          /\ ac_row.totp => ac_row.codes \/ ac_row.key \in ac_cleared
    BY DEF NothingIsStale
  <2>6. NothingIsStale /\ Halfway \subseteq {s} => (ac_devices # {} => ac_row.webauthn)
    <3>1. Halfway \subseteq {s} => Halfway = {s}
      BY <2>2
    <3> QED
      BY <3>1, <2>1, <2>2 DEF NothingIsStale
  <2> QED
    BY <1>b, <2>1, <2>2, <2>3, <2>4, <2>5, <2>6
<1>14. CASE UNCHANGED acvars
  <2>1. UNCHANGED <<ac_row, ac_devices, ac_sessions, ac_requests, ac_lapped, ac_cleared>>
    BY <1>14 DEF acvars
  <2>2. Halfway' = Halfway
    BY <2>1 DEF Halfway
  <2> QED
    BY <2>1, <2>2 DEF AccountsTypeOK, RowsAreKeyed, NothingIsStale
<1> QED
  BY <1>1, <1>2, <1>3, <1>4, <1>5, <1>6, <1>7, <1>8, <1>9, <1>10, <1>11, <1>12, <1>13, <1>14 DEF AcNext

\* Rows that are keyed, and requests that are not stale, keep the second factors.
LEMMA AccountsSafe == AccountsInv => AccountsHold
<1> SUFFICES ASSUME AccountsInv PROVE AccountsHold
  OBVIOUS
<1>1. KeyWithApp
  BY DEF AccountsInv, RowsAreKeyed, Keyed, KeyWithApp
<1>2. CodesWithApp
  BY DEF AccountsInv, AccountsTypeOK, NothingIsStale, CodesWithApp
<1>3. NoneBetween => Halfway = {}
  BY DEF NoneBetween, Halfway
<1>4. FlagWithDevices
  BY <1>3 DEF AccountsInv, NothingIsStale, FlagWithDevices
<1> QED
  BY <1>1, <1>2, <1>4 DEF AccountsHold

\* No request takes the last second factor of a member of staff.
LEMMA FactorKept == AccountsAssumption /\ AccountsInv /\ [AcNext]_acvars => StaffKeepFactor
<1> SUFFICES ASSUME AccountsAssumption, AccountsInv, [AcNext]_acvars, AcStaff, HasFactor(ac_row), ~ac_lapped'
             PROVE  HasFactor(ac_row')
  BY DEF StaffKeepFactor
<1>n. NoRequest.kind = "none"
  BY DEF NoRequest
<1>e. ac_row \in SettingsRow
  BY DEF AccountsInv, AccountsTypeOK
<1>k. \A s \in AcSessions : ac_requests[s] # NoRequest => ac_requests[s].row \in SettingsRow
  BY RequestsAreTold DEF AccountRequest, AccountsInv
\* When no other request is under way, the one that ends has loaded the row as it is.
<1>a. ASSUME NEW s \in AcSessions, EndRequest(s), ac_requests[s] # NoRequest
      PROVE  NothingIsStale /\ ac_requests[s].row = ac_row /\ Halfway \subseteq {s}
  <2>1. ~ac_lapped /\ \A o \in AcSessions \ {s} : ac_requests[o] = NoRequest
    BY <1>a DEF EndRequest, AccountsInv, AccountsTypeOK
  <2> QED
    BY <1>a, <1>n, <2>1 DEF AccountsInv, NothingIsStale, Halfway
<1>1. CASE ac_row' = ac_row
  BY <1>1
<1>2. ASSUME NEW s \in AcSessions, KeyPage(s) \/ EnableTOTP(s) \/ NewCodes(s) \/ MarkDevice(s)
      PROVE  HasFactor(ac_row')
  <2>1. CASE KeyPage(s)
    BY <1>e, <2>1 DEF KeyPage, SetRow, SettingsRow, HasFactor
  <2>2. CASE EnableTOTP(s)
    BY <1>e, <2>2 DEF EnableTOTP, KeySaved, SetRow, SettingsRow, HasFactor
  <2>3. CASE NewCodes(s)
    BY <1>e, <2>3 DEF NewCodes, SetRow, SettingsRow, HasFactor
  <2>4. CASE MarkDevice(s)
    BY <1>e, <2>4 DEF MarkDevice, SetRow, SettingsRow, HasFactor
  <2> QED
    BY <1>2, <2>1, <2>2, <2>3, <2>4
<1>3. ASSUME NEW s \in AcSessions, DisableTOTP(s)
      PROVE  HasFactor(ac_row')
  <2>1. /\ ac_requests[s].kind = "disable" /\ EndRequest(s) /\ ac_requests[s].row.webauthn
        /\ ac_row' = [ac_requests[s].row EXCEPT !.totp = FALSE, !.key = NoKey, !.codes = FALSE]
    BY <1>3 DEF DisableTOTP, Doing, Skipped, SetRow
  <2>2. ac_requests[s] # NoRequest
    BY <2>1, <1>n
  <2>3. ac_row'.webauthn
    BY <1>k, <2>1, <2>2 DEF SettingsRow
  <2> QED
    BY <2>3 DEF HasFactor
<1>4. ASSUME NEW s \in AcSessions, SaveWhole(s)
      PROVE  HasFactor(ac_row')
  <2>1. ac_requests[s].kind = "whole" /\ EndRequest(s) /\ ac_row' = ac_requests[s].row
    BY <1>4 DEF SaveWhole, Doing, SetRow
  <2>2. ac_requests[s] # NoRequest
    BY <2>1, <1>n
  <2> QED
    BY <1>a, <2>1, <2>2
<1>5. ASSUME NEW s \in AcSessions, UnmarkDevice(s)
      PROVE  HasFactor(ac_row')
  <2>1. /\ ac_requests[s].kind = "count" /\ EndRequest(s)
        /\ ac_row' = [ac_row EXCEPT !.webauthn = ac_row.webauthn /\ ac_devices # {}]
    BY <1>5 DEF UnmarkDevice, Doing, SetRow
  <2>2. ac_requests[s] # NoRequest
    BY <2>1, <1>n
  <2>3. NothingIsStale /\ s \in Halfway /\ Halfway = {s}
    BY <1>a, <2>1, <2>2 DEF Halfway
  <2>4. (ac_devices # {} => ac_row.webauthn) /\ (ac_row.totp \/ ac_devices # {})
    BY <2>1, <2>3 DEF NothingIsStale
  <2>5. ac_row'.totp = ac_row.totp /\ (ac_row'.webauthn <=> ac_row.webauthn /\ ac_devices # {})
    BY <1>e, <2>1 DEF SettingsRow
  <2> QED
    BY <2>4, <2>5 DEF HasFactor
<1>6. ASSUME NEW s \in AcSessions, \/ \E kind \in Kinds, device \in AcDevices : BeginRequest(s, kind, device)
                                   \/ Skip(s) \/ NoKeyYet(s) \/ PassSecond(s) \/ LeaveSession(s)
                                   \/ StoreDevice(s) \/ NoDevice(s) \/ DeleteDevice(s)
      PROVE  ac_row' = ac_row
  BY <1>6 DEF BeginRequest, Skip, NoKeyYet, PassSecond, LeaveSession, StoreDevice, NoDevice, DeleteDevice
<1>7. CASE UNCHANGED acvars
  BY <1>1, <1>7 DEF acvars
<1> QED
  BY <1>1, <1>2, <1>3, <1>4, <1>5, <1>6, <1>7 DEF AcNext

\* The second factors of a user (views/two_factor.py): a key with its codes, devices with the flag that
\* says there are some, but for requests that overlapped; for any number of sessions and devices.
THEOREM SecondFactorsAreKept == ASSUME AccountsAssumption PROVE AcSpec => []AccountsHold
<1>1. AcInit => AccountsInv
  BY AccountsInit
<1>2. AccountsInv /\ [AcNext]_acvars => AccountsInv'
  BY AccountsStep
<1> QED
  BY <1>1, <1>2, AccountsSafe, PTL DEF AcSpec

\* A member of staff who has a second factor keeps one, whatever is disabled or deleted.
THEOREM StaffStayProtected == ASSUME AccountsAssumption PROVE AcSpec => [][StaffKeepFactor]_acvars
<1>1. AcInit => AccountsInv
  BY AccountsInit
<1>2. AccountsInv /\ [AcNext]_acvars => AccountsInv'
  BY AccountsStep
<1>3. AccountsInv /\ [AcNext]_acvars => [StaffKeepFactor]_acvars
  BY FactorKept
<1> QED
  BY <1>1, <1>2, <1>3, PTL DEF AcSpec

-----------------------------------------------------------------------------
(* Signing up.                                                             *)

SignedUser == [email : SuEmails, active : BOOLEAN, profile : BOOLEAN, orgs : SUBSET SuOrgs, seen : SUBSET SuNames]
Signing == [at : {"none", "refused", "checked", "created", "profile", "done", "failed",
                  "naming", "named", "new", "asking", "made", "in"},
            name : SuNames \cup {""}, email : SuEmails \cup {""}, orgs : SUBSET SuOrgs, seen : SUBSET SuNames]

SignUpTypeOK ==
    /\ su_users \in [SuNames -> SignedUser \cup {NoUser}]
    /\ su_links \in [SuEmails -> SUBSET SuNames]
    /\ su_forms \in [SuForms -> Signing] /\ su_flows \in [SuFlows -> Signing]

\* Of the names that were there when an address was looked for, all are there, and none has it.
AddressFree(users, e, seen) == \A n \in seen : users[n] # NoUser /\ users[n].email # e

\* What a form knows: the address it checked was free then; the user it made is there.
FormSound(users, form) ==
    /\ form.at \in {"checked", "created", "profile"} => form.name \in SuNames /\ form.email \in SuEmails
    /\ form.at = "checked" => AddressFree(users, form.email, form.seen)
    /\ form.at \in {"created", "profile"} => users[form.name] # NoUser

\* What a login by way of another site knows.
FlowSound(users, flow) ==
    /\ flow.at \in {"naming", "named", "new", "asking", "made"} => flow.email \in SuEmails
    /\ flow.at \in {"named", "new", "asking", "made"} => flow.name \in SuNames
    /\ flow.at \in {"naming", "named"} => AddressFree(users, flow.email, flow.seen)
    /\ flow.at \in {"new", "asking", "made"} => users[flow.name] # NoUser /\ users[flow.name].email = flow.email

UserSound(users, n) == n \notin users[n].seen /\ AddressFree(users, users[n].email, users[n].seen)

LinkSound(users, link, e) ==
    /\ \A n \in link : users[n] # NoUser /\ users[n].email = e
    /\ \A m, n \in link : m = n

SignUpInv ==
    /\ SignUpTypeOK
    /\ \A n \in SuNames : su_users[n] # NoUser => UserSound(su_users, n)
    /\ \A r \in SuForms : FormSound(su_users, su_forms[r])
    /\ \A f \in SuFlows : FlowSound(su_users, su_flows[f])
    /\ \A e \in SuEmails : LinkSound(su_users, su_links[e], e)
    /\ ProfilesMade

\* Users stay, with their addresses.
Stays(users, later) ==
    \A n \in SuNames : users[n] # NoUser =>
        /\ later[n] # NoUser
        /\ later[n].email = users[n].email /\ later[n].seen = users[n].seen
        /\ users[n].profile => later[n].profile

\* What a form, a login or a link knows of the users stays known while users are added and confirmed.
LEMMA KnowledgeStays ==
    ASSUME NEW users, NEW later, Stays(users, later)
    PROVE  /\ \A form \in Signing : FormSound(users, form) => FormSound(later, form)
           /\ \A flow \in Signing : FlowSound(users, flow) => FlowSound(later, flow)
           /\ \A e \in SuEmails : \A link \in SUBSET SuNames : LinkSound(users, link, e) => LinkSound(later, link, e)
<1>1. ASSUME NEW e, NEW seen \in SUBSET SuNames, AddressFree(users, e, seen)
      PROVE  AddressFree(later, e, seen)
  BY <1>1 DEF AddressFree, Stays
<1>2. ASSUME NEW form \in Signing, FormSound(users, form)
      PROVE  FormSound(later, form)
  <2>1. form.seen \in SUBSET SuNames
    BY DEF Signing
  <2> QED
    BY <1>1, <1>2, <2>1 DEF FormSound, Stays
<1>3. ASSUME NEW flow \in Signing, FlowSound(users, flow)
      PROVE  FlowSound(later, flow)
  <2>1. flow.seen \in SUBSET SuNames
    BY DEF Signing
  <2> QED
    BY <1>1, <1>3, <2>1 DEF FlowSound, Stays
<1>4. ASSUME NEW e \in SuEmails, NEW link \in SUBSET SuNames, LinkSound(users, link, e)
      PROVE  LinkSound(later, link, e)
  BY <1>4 DEF LinkSound, Stays
<1> QED
  BY <1>2, <1>3, <1>4

\* What is right of a user stays right while others are added.
LEMMA UsersStaySound ==
    ASSUME NEW users \in [SuNames -> SignedUser \cup {NoUser}], NEW later, Stays(users, later), NEW n \in SuNames,
           users[n] # NoUser, UserSound(users, n)
    PROVE  UserSound(later, n)
<1>1. users[n].seen \subseteq SuNames
  BY DEF SignedUser
<1> QED
  BY <1>1 DEF UserSound, AddressFree, Stays

\* Nobody has signed up.
LEMMA SignUpInit == SignUpAssumption /\ SuInit => SignUpInv
<1> SUFFICES ASSUME SignUpAssumption, SuInit PROVE SignUpInv
  OBVIOUS
<1>1. NotSigning \in Signing /\ NotSigning.at = "none"
  BY DEF NotSigning, Signing
<1>2. SignUpTypeOK
  BY <1>1 DEF SuInit, SignUpTypeOK
<1>3. UsersThere = {}
  BY DEF SuInit, UsersThere, UserExists
<1>4. ProfilesMade
  BY <1>3 DEF ProfilesMade
<1> QED
  BY <1>1, <1>2, <1>4 DEF SuInit, SignUpInv, FormSound, FlowSound, LinkSound

\* Forms, logins by way of other sites, links by mail and confirmations, step by step.
LEMMA SignUpStep == SignUpAssumption /\ SignUpInv /\ [SuNext]_suvars => SignUpInv'
<1> SUFFICES ASSUME SignUpAssumption, SignUpInv, [SuNext]_suvars
             PROVE  SignUpInv'
  OBVIOUS
<1>t. /\ su_users \in [SuNames -> SignedUser \cup {NoUser}]
      /\ su_links \in [SuEmails -> SUBSET SuNames]
      /\ su_forms \in [SuForms -> Signing] /\ su_flows \in [SuFlows -> Signing]
  BY DEF SignUpInv, SignUpTypeOK
<1>i. /\ \A n \in SuNames : su_users[n] # NoUser => UserSound(su_users, n)
      /\ \A r \in SuForms : FormSound(su_users, su_forms[r])
      /\ \A f \in SuFlows : FlowSound(su_users, su_flows[f])
      /\ \A e \in SuEmails : LinkSound(su_users, su_links[e], e)
  BY DEF SignUpInv
<1>p. \A n \in SuNames : su_users[n] # NoUser =>
         \/ su_users[n].profile \/ n \in su_died
         \/ \E r \in SuForms : su_forms[r].at = "created" /\ su_forms[r].name = n
         \/ \E f \in SuFlows : su_flows[f].at = "new" /\ su_flows[f].name = n
  BY DEF SignUpInv, ProfilesMade, UsersThere, UserExists
<1>n. NoUser \notin SignedUser
  BY DEF NoUser, SignedUser, SignUpAssumption
\* Users who stay and those who are new are sound.
<1>u. ASSUME su_users' \in [SuNames -> SignedUser \cup {NoUser}], Stays(su_users, su_users'),
             \A n \in SuNames : su_users[n] = NoUser /\ su_users'[n] # NoUser => UserSound(su_users', n)
      PROVE  \A n \in SuNames : su_users'[n] # NoUser => UserSound(su_users', n)
  BY <1>t, <1>i, <1>u, UsersStaySound
\* A step of a form.
<1>a. ASSUME NEW r \in SuForms, NEW form \in Signing, su_forms' = [su_forms EXCEPT ![r] = form], UNCHANGED <<su_flows, su_links>>,
             su_users' \in [SuNames -> SignedUser \cup {NoUser}], Stays(su_users, su_users'), FormSound(su_users', form),
             \A n \in SuNames : su_users[n] = NoUser /\ su_users'[n] # NoUser =>
                                   UserSound(su_users', n) /\ form.at = "created" /\ form.name = n,
             su_died \subseteq su_died',
             su_forms[r].at = "created" => \/ form.at = "created" /\ form.name = su_forms[r].name
                                           \/ su_users'[su_forms[r].name].profile
                                           \/ su_forms[r].name \in su_died'
      PROVE  SignUpInv'
  <2>1. SignUpTypeOK'
    BY <1>a, <1>t DEF SignUpTypeOK
  <2>2. \A o \in SuForms : su_forms'[o] = IF o = r THEN form ELSE su_forms[o]
    BY <1>a, <1>t
  <2>3. \A o \in SuForms : FormSound(su_users', su_forms'[o])
    BY <1>a, <1>i, <1>t, <2>2, KnowledgeStays
  <2>4. (\A f \in SuFlows : FlowSound(su_users', su_flows'[f])) /\ \A e \in SuEmails : LinkSound(su_users', su_links'[e], e)
    BY <1>a, <1>i, <1>t, KnowledgeStays
  <2>5. ASSUME NEW n \in SuNames, su_users'[n] # NoUser
        PROVE  \/ su_users'[n].profile \/ n \in su_died'
               \/ \E o \in SuForms : su_forms'[o].at = "created" /\ su_forms'[o].name = n
               \/ \E f \in SuFlows : su_flows'[f].at = "new" /\ su_flows'[f].name = n
    <3>1. CASE su_users[n] = NoUser
      BY <1>a, <2>2, <2>5, <3>1
    <3>2. CASE su_users[n] # NoUser
      <4>1. CASE su_users[n].profile \/ n \in su_died
        BY <1>a, <3>2, <4>1 DEF Stays
      <4>2. CASE \E o \in SuForms : su_forms[o].at = "created" /\ su_forms[o].name = n
        BY <1>a, <2>2, <4>2
      <4>3. CASE \E f \in SuFlows : su_flows[f].at = "new" /\ su_flows[f].name = n
        BY <1>a, <4>3
      <4> QED
        BY <1>p, <3>2, <4>1, <4>2, <4>3
    <3> QED
      BY <3>1, <3>2
  <2>6. ProfilesMade'
    BY <2>5 DEF ProfilesMade, UsersThere, UserExists
  <2> QED
    BY <1>a, <1>u, <2>1, <2>3, <2>4, <2>6 DEF SignUpInv
\* A step of a login by way of another site.
<1>b. ASSUME NEW f \in SuFlows, NEW flow \in Signing, su_flows' = [su_flows EXCEPT ![f] = flow], UNCHANGED su_forms,
             su_users' \in [SuNames -> SignedUser \cup {NoUser}], Stays(su_users, su_users'), FlowSound(su_users', flow),
             \A n \in SuNames : su_users[n] = NoUser /\ su_users'[n] # NoUser =>
                                   UserSound(su_users', n) /\ flow.at = "new" /\ flow.name = n,
             su_links' \in [SuEmails -> SUBSET SuNames],
             \A e \in SuEmails : su_links'[e] = su_links[e] \/ LinkSound(su_users', su_links'[e], e),
             su_died \subseteq su_died',
             su_flows[f].at = "new" => \/ flow.at = "new" /\ flow.name = su_flows[f].name
                                       \/ su_users'[su_flows[f].name].profile
                                       \/ su_flows[f].name \in su_died'
      PROVE  SignUpInv'
  <2>1. SignUpTypeOK'
    BY <1>b, <1>t DEF SignUpTypeOK
  <2>2. \A o \in SuFlows : su_flows'[o] = IF o = f THEN flow ELSE su_flows[o]
    BY <1>b, <1>t
  <2>3. \A o \in SuFlows : FlowSound(su_users', su_flows'[o])
    BY <1>b, <1>i, <1>t, <2>2, KnowledgeStays
  <2>4. (\A r \in SuForms : FormSound(su_users', su_forms'[r])) /\ \A e \in SuEmails : LinkSound(su_users', su_links'[e], e)
    BY <1>b, <1>i, <1>t, KnowledgeStays
  <2>5. ASSUME NEW n \in SuNames, su_users'[n] # NoUser
        PROVE  \/ su_users'[n].profile \/ n \in su_died'
               \/ \E r \in SuForms : su_forms'[r].at = "created" /\ su_forms'[r].name = n
               \/ \E o \in SuFlows : su_flows'[o].at = "new" /\ su_flows'[o].name = n
    <3>1. CASE su_users[n] = NoUser
      BY <1>b, <2>2, <2>5, <3>1
    <3>2. CASE su_users[n] # NoUser
      <4>1. CASE su_users[n].profile \/ n \in su_died
        BY <1>b, <3>2, <4>1 DEF Stays
      <4>2. CASE \E r \in SuForms : su_forms[r].at = "created" /\ su_forms[r].name = n
        BY <1>b, <4>2
      <4>3. CASE \E o \in SuFlows : su_flows[o].at = "new" /\ su_flows[o].name = n
        BY <1>b, <2>2, <4>3
      <4> QED
        BY <1>p, <3>2, <4>1, <4>2, <4>3
    <3> QED
      BY <3>1, <3>2
  <2>6. ProfilesMade'
    BY <2>5 DEF ProfilesMade, UsersThere, UserExists
  <2> QED
    BY <1>b, <1>u, <2>1, <2>3, <2>4, <2>6 DEF SignUpInv
<1>s. Stays(su_users, su_users)
  BY DEF Stays
\* A form or a flow goes on to a state in which it knows nothing.
<1>o. ASSUME NEW actor \in Signing, NEW at \in {"refused", "failed", "done", "in", "none"}
      PROVE  /\ [actor EXCEPT !.at = at] \in Signing /\ [actor EXCEPT !.at = at].at = at
             /\ \A users : FormSound(users, [actor EXCEPT !.at = at]) /\ FlowSound(users, [actor EXCEPT !.at = at])
  <2>1. [actor EXCEPT !.at = at] \in Signing /\ [actor EXCEPT !.at = at].at = at
    BY DEF Signing
  <2> QED
    BY <2>1 DEF FormSound, FlowSound
<1>z. NotSigning \in Signing
  BY DEF NotSigning, Signing
\* One user is made.
<1>c. ASSUME NEW actor \in Signing, NEW active \in BOOLEAN, actor.name \in SuNames, actor.email \in SuEmails,
             su_users[actor.name] = NoUser, AddressFree(su_users, actor.email, actor.seen),
             su_users' = [su_users EXCEPT ![actor.name] = NewUser(actor, active)]
      PROVE  /\ su_users' \in [SuNames -> SignedUser \cup {NoUser}] /\ Stays(su_users, su_users')
             /\ su_users'[actor.name] # NoUser /\ su_users'[actor.name].email = actor.email
             /\ \A n \in SuNames : su_users[n] = NoUser /\ su_users'[n] # NoUser =>
                                      UserSound(su_users', n) /\ n = actor.name
  <2>1. NewUser(actor, active) \in SignedUser /\ NewUser(actor, active).email = actor.email
        /\ NewUser(actor, active).seen = actor.seen
    BY <1>c DEF NewUser, SignedUser, Signing
  <2>2. \A n \in SuNames : su_users'[n] = IF n = actor.name THEN NewUser(actor, active) ELSE su_users[n]
    BY <1>c, <1>t
  <2>3. su_users' \in [SuNames -> SignedUser \cup {NoUser}]
    BY <1>c, <1>t, <2>1
  <2>4. Stays(su_users, su_users')
    BY <1>c, <2>2 DEF Stays
  <2>5. NewUser(actor, active) # NoUser
    BY <2>1, <1>n
  <2>6. actor.seen \subseteq SuNames
    BY DEF Signing
  <2>7. UserSound(su_users', actor.name)
    BY <1>c, <2>1, <2>2, <2>6 DEF UserSound, AddressFree
  <2> QED
    BY <1>c, <2>1, <2>2, <2>3, <2>4, <2>5, <2>7
\* A user's row is filled.
<1>d. ASSUME NEW n \in SuNames, su_users[n] # NoUser, NEW user \in SignedUser, su_users' = [su_users EXCEPT ![n] = user],
             user.email = su_users[n].email, user.seen = su_users[n].seen, su_users[n].profile => user.profile
      PROVE  /\ su_users' \in [SuNames -> SignedUser \cup {NoUser}] /\ Stays(su_users, su_users')
             /\ su_users'[n] = user
             /\ \A m \in SuNames : ~(su_users[m] = NoUser /\ su_users'[m] # NoUser)
  <2>1. \A m \in SuNames : su_users'[m] = IF m = n THEN user ELSE su_users[m]
    BY <1>d, <1>t
  <2>2. su_users' \in [SuNames -> SignedUser \cup {NoUser}]
    BY <1>d, <1>t
  <2> QED
    BY <1>d, <1>n, <2>1, <2>2 DEF Stays
<1>1. ASSUME NEW r \in SuForms, NEW n \in SuNames, NEW e \in SuEmails, NEW orgs \in SUBSET SuOrgs,
             PostRegistration(r, n, e, orgs)
      PROVE  SignUpInv'
  <2>1. UNCHANGED <<su_users, su_links, su_flows, su_died>> /\ su_forms[r].at = "none"
    BY <1>1 DEF PostRegistration
  <2>2. CASE CleanRegistration(n, e, orgs)
    <3> DEFINE form == [at |-> "checked", name |-> n, email |-> e, orgs |-> orgs, seen |-> UsersThere]
    <3>1. su_forms' = [su_forms EXCEPT ![r] = form]
      BY <1>1, <2>2 DEF PostRegistration, SetForm
    <3>2. form \in Signing /\ form.at = "checked" /\ form.name = n /\ form.email = e /\ form.seen = UsersThere
      BY DEF Signing, UsersThere
    <3>3. AddressFree(su_users, e, UsersThere)
      BY <2>2 DEF AddressFree, CleanRegistration, UsersOf, UsersThere, UserExists
    <3>4. FormSound(su_users, form)
      BY <3>2, <3>3 DEF FormSound
    <3> HIDE DEF form
    <3> QED
      BY <1>a, <1>s, <1>t, <2>1, <3>1, <3>2, <3>4
  <2>3. CASE ~CleanRegistration(n, e, orgs)
    <3>1. su_forms' = [su_forms EXCEPT ![r] = [NotSigning EXCEPT !.at = "refused"]]
      BY <1>1, <2>3 DEF PostRegistration, SetForm
    <3>2. /\ [NotSigning EXCEPT !.at = "refused"] \in Signing /\ [NotSigning EXCEPT !.at = "refused"].at = "refused"
          /\ FormSound(su_users, [NotSigning EXCEPT !.at = "refused"])
      BY <1>o, <1>z
    <3> QED
      BY <1>a, <1>s, <1>t, <2>1, <3>1, <3>2
  <2> QED
    BY <2>2, <2>3
<1>2. ASSUME NEW r \in SuForms, CreateInactive(r)
      PROVE  SignUpInv'
  <2>1. /\ UNCHANGED <<su_links, su_flows, su_died>> /\ su_forms[r].at = "checked" /\ su_forms[r] \in Signing
        /\ su_forms[r].name \in SuNames /\ su_forms[r].email \in SuEmails
        /\ AddressFree(su_users, su_forms[r].email, su_forms[r].seen)
    BY <1>2, <1>i, <1>t DEF CreateInactive, FormSound
  <2>2. CASE su_users[su_forms[r].name] # NoUser
    <3>1. su_forms' = [su_forms EXCEPT ![r] = [su_forms[r] EXCEPT !.at = "failed"]] /\ UNCHANGED su_users
      BY <1>2, <2>2 DEF CreateInactive, UserExists, SetForm
    <3>2. /\ [su_forms[r] EXCEPT !.at = "failed"] \in Signing
          /\ FormSound(su_users, [su_forms[r] EXCEPT !.at = "failed"])
      BY <1>o, <2>1
    <3> QED
      BY <1>a, <1>s, <1>t, <2>1, <3>1, <3>2
  <2>3. CASE su_users[su_forms[r].name] = NoUser
    <3> DEFINE form == [su_forms[r] EXCEPT !.at = "created"]
    <3>1. /\ su_forms' = [su_forms EXCEPT ![r] = form]
          /\ su_users' = [su_users EXCEPT ![su_forms[r].name] = NewUser(su_forms[r], FALSE)]
      BY <1>2, <2>3 DEF CreateInactive, UserExists, SetForm, SetUser
    <3>2. form \in Signing /\ form.at = "created" /\ form.name = su_forms[r].name /\ form.email = su_forms[r].email
      BY <2>1 DEF Signing
    <3> HIDE DEF form
    <3>3. /\ su_users' \in [SuNames -> SignedUser \cup {NoUser}] /\ Stays(su_users, su_users')
          /\ su_users'[su_forms[r].name] # NoUser
          /\ \A n \in SuNames : su_users[n] = NoUser /\ su_users'[n] # NoUser =>
                                   UserSound(su_users', n) /\ n = su_forms[r].name
      BY <1>c, <2>1, <2>3, <3>1
    <3>4. FormSound(su_users', form)
      BY <2>1, <3>2, <3>3 DEF FormSound
    <3> QED
      BY <1>a, <2>1, <3>1, <3>2, <3>3, <3>4
  <2> QED
    BY <2>2, <2>3
\* A form goes on and fills the row of its user.
<1>f. ASSUME NEW r \in SuForms, NEW at \in {"profile", "done"}, su_forms[r].at \in {"created", "profile"},
             su_forms' = [su_forms EXCEPT ![r] = [su_forms[r] EXCEPT !.at = at]],
             NEW user, su_users[su_forms[r].name] \in SignedUser =>
                /\ user \in SignedUser
                /\ user.email = su_users[su_forms[r].name].email /\ user.seen = su_users[su_forms[r].name].seen
                /\ su_users[su_forms[r].name].profile => user.profile
                /\ su_forms[r].at = "created" => user.profile,
             su_users' = [su_users EXCEPT ![su_forms[r].name] = user],
             UNCHANGED <<su_links, su_flows, su_died>>
      PROVE  SignUpInv'
  <2>1. su_forms[r].name \in SuNames /\ su_forms[r].email \in SuEmails /\ su_users[su_forms[r].name] # NoUser
        /\ su_forms[r] \in Signing
    BY <1>f, <1>i, <1>t DEF FormSound
  <2>2. su_users[su_forms[r].name] \in SignedUser
    BY <1>t, <2>1
  <2>3. /\ su_users' \in [SuNames -> SignedUser \cup {NoUser}] /\ Stays(su_users, su_users')
        /\ su_users'[su_forms[r].name] = user
        /\ \A m \in SuNames : ~(su_users[m] = NoUser /\ su_users'[m] # NoUser)
    BY <1>d, <1>f, <2>1, <2>2
  <2>4. /\ [su_forms[r] EXCEPT !.at = at] \in Signing /\ [su_forms[r] EXCEPT !.at = at].at = at
        /\ [su_forms[r] EXCEPT !.at = at].name = su_forms[r].name
        /\ [su_forms[r] EXCEPT !.at = at].email = su_forms[r].email
    BY <2>1 DEF Signing
  <2>5. FormSound(su_users', [su_forms[r] EXCEPT !.at = at])
    BY <1>n, <1>f, <2>1, <2>2, <2>3, <2>4 DEF FormSound
  <2>6. su_forms[r].at = "created" => su_users'[su_forms[r].name].profile
    BY <1>f, <2>2, <2>3
  <2> QED
    BY <1>a, <1>f, <2>3, <2>4, <2>5, <2>6
<1>3. ASSUME NEW r \in SuForms, RegisterProfile(r)
      PROVE  SignUpInv'
  <2> DEFINE user == [su_users[su_forms[r].name] EXCEPT !.profile = TRUE]
  <2>1. /\ su_forms[r].at = "created" /\ su_forms' = [su_forms EXCEPT ![r] = [su_forms[r] EXCEPT !.at = "profile"]]
        /\ su_users' = [su_users EXCEPT ![su_forms[r].name] = user]
        /\ UNCHANGED <<su_links, su_flows, su_died>>
    BY <1>3 DEF RegisterProfile, SetUser, SetForm
  <2>2. su_users[su_forms[r].name] \in SignedUser =>
                /\ user \in SignedUser
                /\ user.email = su_users[su_forms[r].name].email /\ user.seen = su_users[su_forms[r].name].seen
                /\ user.profile
    BY DEF SignedUser
  <2> HIDE DEF user
  <2> QED
    BY <1>f, <2>1, <2>2
<1>4. ASSUME NEW r \in SuForms, RegisterOrgs(r)
      PROVE  SignUpInv'
  <2> DEFINE user == [su_users[su_forms[r].name] EXCEPT !.orgs = su_users[su_forms[r].name].orgs \cup su_forms[r].orgs]
  <2>1. /\ su_forms[r].at = "profile" /\ su_forms' = [su_forms EXCEPT ![r] = [su_forms[r] EXCEPT !.at = "done"]]
        /\ su_users' = [su_users EXCEPT ![su_forms[r].name] = user]
        /\ UNCHANGED <<su_links, su_flows, su_died>>
    BY <1>4 DEF RegisterOrgs, SetUser, SetForm
  <2>2. su_forms[r].orgs \subseteq SuOrgs
    BY <1>t DEF Signing
  <2>3. su_users[su_forms[r].name] \in SignedUser =>
                /\ user \in SignedUser
                /\ user.email = su_users[su_forms[r].name].email /\ user.seen = su_users[su_forms[r].name].seen
                /\ user.profile = su_users[su_forms[r].name].profile
    BY <2>2 DEF SignedUser
  <2> HIDE DEF user
  <2> QED
    BY <1>f, <2>1, <2>3
<1>5. ASSUME NEW r \in SuForms, FormDies(r)
      PROVE  SignUpInv'
  <2>1. /\ su_forms' = [su_forms EXCEPT ![r] = [su_forms[r] EXCEPT !.at = "failed"]]
        /\ UNCHANGED <<su_users, su_links, su_flows>> /\ su_died \subseteq su_died'
        /\ su_forms[r].at = "created" => su_forms[r].name \in su_died'
    BY <1>5 DEF FormDies, SetForm
  <2>2. /\ [su_forms[r] EXCEPT !.at = "failed"] \in Signing
        /\ FormSound(su_users, [su_forms[r] EXCEPT !.at = "failed"])
    BY <1>o, <1>t
  <2> QED
    BY <1>a, <1>s, <1>t, <2>1, <2>2
<1>6. ASSUME NEW n \in SuNames, Activate(n)
      PROVE  SignUpInv'
  <2> DEFINE user == [su_users[n] EXCEPT !.active = TRUE]
  <2>1. /\ su_users[n] # NoUser /\ su_users' = [su_users EXCEPT ![n] = user]
        /\ UNCHANGED <<su_links, su_forms, su_flows, su_died>>
    BY <1>6 DEF Activate, UserExists, SetUser
  <2>2. user \in SignedUser /\ user.email = su_users[n].email /\ user.seen = su_users[n].seen
        /\ user.profile = su_users[n].profile
    BY <1>t, <2>1 DEF SignedUser
  <2> HIDE DEF user
  <2>3. /\ su_users' \in [SuNames -> SignedUser \cup {NoUser}] /\ Stays(su_users, su_users')
        /\ \A m \in SuNames : ~(su_users[m] = NoUser /\ su_users'[m] # NoUser)
    BY <1>d, <2>1, <2>2
  <2>4. SignUpTypeOK'
    BY <1>t, <2>1, <2>3 DEF SignUpTypeOK
  <2>5. /\ \A r \in SuForms : FormSound(su_users', su_forms'[r])
        /\ \A f \in SuFlows : FlowSound(su_users', su_flows'[f])
        /\ \A e \in SuEmails : LinkSound(su_users', su_links'[e], e)
    BY <1>i, <1>t, <2>1, <2>3, KnowledgeStays
  <2>6. ProfilesMade'
    BY <1>p, <2>1, <2>3 DEF ProfilesMade, UsersThere, UserExists, Stays
  <2> QED
    BY <1>u, <2>3, <2>4, <2>5, <2>6 DEF SignUpInv
<1>7. ASSUME NEW f \in SuFlows, NEW e \in SuEmails, StartFlow(f, e)
      PROVE  SignUpInv'
  <2>1. UNCHANGED <<su_users, su_links, su_forms, su_died>> /\ su_flows[f].at = "none"
    BY <1>7 DEF StartFlow
  <2>2. CASE FoundUsers(e) = {}
    <3> DEFINE flow == [NotSigning EXCEPT !.at = "naming", !.email = e, !.seen = UsersThere]
    <3>c. Cardinality(FoundUsers(e)) # 1
      BY <2>2, FS_EmptySet
    <3>1. su_flows' = [su_flows EXCEPT ![f] = flow]
      BY <1>7, <2>2, <3>c DEF StartFlow, SetFlow
    <3>2. flow \in Signing /\ flow.at = "naming" /\ flow.email = e /\ flow.seen = UsersThere
      BY DEF Signing, UsersThere, NotSigning
    <3>3. AddressFree(su_users, e, UsersThere)
      BY <2>2 DEF AddressFree, FoundUsers, UsersOf, UsersThere, UserExists
    <3>4. FlowSound(su_users, flow)
      BY <3>2, <3>3 DEF FlowSound
    <3> HIDE DEF flow
    <3> QED
      BY <1>b, <1>s, <1>t, <2>1, <3>1, <3>2, <3>4
  <2>3. CASE FoundUsers(e) # {} /\ Cardinality(FoundUsers(e)) = 1
    <3> DEFINE name == CHOOSE n \in FoundUsers(e) : TRUE
               flow == [NotSigning EXCEPT !.at = "made", !.email = e, !.name = name]
    <3>1. su_flows' = [su_flows EXCEPT ![f] = flow]
      BY <1>7, <2>3 DEF StartFlow, SetFlow
    <3>2. name \in FoundUsers(e)
      BY <2>3
    <3>3. name \in SuNames /\ su_users[name] # NoUser /\ su_users[name].email = e
      BY <1>i, <1>t, <3>2 DEF FoundUsers, LinkSound, UsersOf, UsersThere, UserExists
    <3> HIDE DEF name
    <3>4. flow \in Signing /\ flow.at = "made" /\ flow.email = e /\ flow.name = name
      BY <3>3 DEF Signing, NotSigning
    <3> HIDE DEF flow
    <3>5. FlowSound(su_users, flow)
      BY <3>3, <3>4 DEF FlowSound
    <3> QED
      BY <1>b, <1>s, <1>t, <2>1, <3>1, <3>4, <3>5
  <2>4. CASE FoundUsers(e) # {} /\ Cardinality(FoundUsers(e)) # 1
    <3>1. su_flows' = [su_flows EXCEPT ![f] = [NotSigning EXCEPT !.at = "refused"]]
      BY <1>7, <2>4 DEF StartFlow, SetFlow
    <3>2. /\ [NotSigning EXCEPT !.at = "refused"] \in Signing
          /\ FlowSound(su_users, [NotSigning EXCEPT !.at = "refused"])
      BY <1>o, <1>z
    <3> QED
      BY <1>b, <1>s, <1>t, <2>1, <3>1, <3>2
  <2> QED
    BY <2>2, <2>3, <2>4
<1>8. ASSUME NEW f \in SuFlows, NEW n \in SuNames, ChooseUsername(f, n)
      PROVE  SignUpInv'
  <2> DEFINE flow == [su_flows[f] EXCEPT !.at = "named", !.name = n]
  <2>1. /\ su_flows[f].at = "naming" /\ su_flows' = [su_flows EXCEPT ![f] = flow]
        /\ UNCHANGED <<su_users, su_links, su_forms, su_died>>
    BY <1>8 DEF ChooseUsername, SetFlow
  <2>2. flow \in Signing /\ flow.at = "named" /\ flow.name = n /\ flow.email = su_flows[f].email /\ flow.seen = su_flows[f].seen
    BY <1>t DEF Signing
  <2> HIDE DEF flow
  <2>3. FlowSound(su_users, flow)
    BY <1>i, <2>1, <2>2 DEF FlowSound
  <2> QED
    BY <1>b, <1>s, <1>t, <2>1, <2>2, <2>3
<1>9. ASSUME NEW f \in SuFlows, CreateUser(f)
      PROVE  SignUpInv'
  <2>1. /\ UNCHANGED <<su_links, su_forms, su_died>> /\ su_flows[f].at = "named" /\ su_flows[f] \in Signing
        /\ su_flows[f].name \in SuNames /\ su_flows[f].email \in SuEmails
        /\ AddressFree(su_users, su_flows[f].email, su_flows[f].seen)
    BY <1>9, <1>i, <1>t DEF CreateUser, FlowSound
  <2>2. CASE su_users[su_flows[f].name] # NoUser
    <3>1. su_flows' = [su_flows EXCEPT ![f] = [su_flows[f] EXCEPT !.at = "refused"]] /\ UNCHANGED su_users
      BY <1>9, <2>2 DEF CreateUser, UserExists, SetFlow
    <3>2. /\ [su_flows[f] EXCEPT !.at = "refused"] \in Signing
          /\ FlowSound(su_users, [su_flows[f] EXCEPT !.at = "refused"])
      BY <1>o, <2>1
    <3> QED
      BY <1>b, <1>s, <1>t, <2>1, <3>1, <3>2
  <2>3. CASE su_users[su_flows[f].name] = NoUser
    <3> DEFINE flow == [su_flows[f] EXCEPT !.at = "new"]
    <3>1. /\ su_flows' = [su_flows EXCEPT ![f] = flow]
          /\ su_users' = [su_users EXCEPT ![su_flows[f].name] = NewUser(su_flows[f], TRUE)]
      BY <1>9, <2>3 DEF CreateUser, UserExists, SetFlow, SetUser
    <3>2. flow \in Signing /\ flow.at = "new" /\ flow.name = su_flows[f].name /\ flow.email = su_flows[f].email
      BY <2>1 DEF Signing
    <3> HIDE DEF flow
    <3>3. /\ su_users' \in [SuNames -> SignedUser \cup {NoUser}] /\ Stays(su_users, su_users')
          /\ su_users'[su_flows[f].name] # NoUser /\ su_users'[su_flows[f].name].email = su_flows[f].email
          /\ \A n \in SuNames : su_users[n] = NoUser /\ su_users'[n] # NoUser =>
                                   UserSound(su_users', n) /\ n = su_flows[f].name
      BY <1>c, <2>1, <2>3, <3>1
    <3>4. FlowSound(su_users', flow)
      BY <2>1, <3>2, <3>3 DEF FlowSound
    <3> QED
      BY <1>b, <1>t, <2>1, <3>1, <3>2, <3>3, <3>4
  <2> QED
    BY <2>2, <2>3
\* A login goes on and fills the row of its user.
<1>g. ASSUME NEW f \in SuFlows, NEW at \in {"asking", "made"}, su_flows[f].at \in {"new", "asking"},
             su_flows' = [su_flows EXCEPT ![f] = [su_flows[f] EXCEPT !.at = at]],
             NEW user, su_users[su_flows[f].name] \in SignedUser =>
                /\ user \in SignedUser
                /\ user.email = su_users[su_flows[f].name].email /\ user.seen = su_users[su_flows[f].name].seen
                /\ su_users[su_flows[f].name].profile => user.profile
                /\ su_flows[f].at = "new" => user.profile,
             su_users' = [su_users EXCEPT ![su_flows[f].name] = user],
             UNCHANGED <<su_links, su_forms, su_died>>
      PROVE  SignUpInv'
  <2>1. su_flows[f].name \in SuNames /\ su_flows[f].email \in SuEmails /\ su_users[su_flows[f].name] # NoUser
        /\ su_flows[f] \in Signing /\ su_users[su_flows[f].name].email = su_flows[f].email
    BY <1>g, <1>i, <1>t DEF FlowSound
  <2>2. su_users[su_flows[f].name] \in SignedUser
    BY <1>t, <2>1
  <2>3. /\ su_users' \in [SuNames -> SignedUser \cup {NoUser}] /\ Stays(su_users, su_users')
        /\ su_users'[su_flows[f].name] = user
        /\ \A m \in SuNames : ~(su_users[m] = NoUser /\ su_users'[m] # NoUser)
    BY <1>d, <1>g, <2>1, <2>2
  <2>4. /\ [su_flows[f] EXCEPT !.at = at] \in Signing /\ [su_flows[f] EXCEPT !.at = at].at = at
        /\ [su_flows[f] EXCEPT !.at = at].name = su_flows[f].name
        /\ [su_flows[f] EXCEPT !.at = at].email = su_flows[f].email
    BY <2>1 DEF Signing
  <2>5. FlowSound(su_users', [su_flows[f] EXCEPT !.at = at])
    BY <1>n, <1>g, <2>1, <2>2, <2>3, <2>4 DEF FlowSound
  <2>6. su_flows[f].at = "new" => su_users'[su_flows[f].name].profile
    BY <1>g, <2>2, <2>3
  <2> QED
    BY <1>b, <1>g, <1>t, <2>3, <2>4, <2>5, <2>6
<1>10. ASSUME NEW f \in SuFlows, MakeProfile(f)
       PROVE  SignUpInv'
  <2> DEFINE user == [su_users[su_flows[f].name] EXCEPT !.profile = TRUE]
  <2>1. /\ su_flows[f].at = "new" /\ su_flows' = [su_flows EXCEPT ![f] = [su_flows[f] EXCEPT !.at = "asking"]]
        /\ su_users' = [su_users EXCEPT ![su_flows[f].name] = user]
        /\ UNCHANGED <<su_links, su_forms, su_died>>
    BY <1>10 DEF MakeProfile, WithProfile, SetUser, SetFlow
  <2>2. su_users[su_flows[f].name] \in SignedUser =>
                /\ user \in SignedUser
                /\ user.email = su_users[su_flows[f].name].email /\ user.seen = su_users[su_flows[f].name].seen
                /\ user.profile
    BY DEF SignedUser
  <2> HIDE DEF user
  <2> QED
    BY <1>g, <2>1, <2>2
<1>11. ASSUME NEW f \in SuFlows, NEW orgs \in SUBSET SuOrgs, FillProfile(f, orgs)
       PROVE  SignUpInv'
  <2> DEFINE user == [su_users[su_flows[f].name] EXCEPT !.orgs = orgs]
  <2>1. /\ su_flows[f].at = "asking" /\ su_flows' = [su_flows EXCEPT ![f] = [su_flows[f] EXCEPT !.at = "made"]]
        /\ su_users' = [su_users EXCEPT ![su_flows[f].name] = user]
        /\ UNCHANGED <<su_links, su_forms, su_died>>
    BY <1>11 DEF FillProfile, SetUser, SetFlow
  <2>2. su_users[su_flows[f].name] \in SignedUser =>
                /\ user \in SignedUser
                /\ user.email = su_users[su_flows[f].name].email /\ user.seen = su_users[su_flows[f].name].seen
                /\ user.profile = su_users[su_flows[f].name].profile
    BY DEF SignedUser
  <2> HIDE DEF user
  <2> QED
    BY <1>g, <2>1, <2>2
<1>12. ASSUME NEW f \in SuFlows, AssociateUser(f)
       PROVE  SignUpInv'
  <2>1. /\ UNCHANGED <<su_users, su_forms, su_died>> /\ su_flows[f].at = "made" /\ su_flows[f] \in Signing
        /\ su_flows[f].name \in SuNames /\ su_flows[f].email \in SuEmails
        /\ su_users[su_flows[f].name] # NoUser /\ su_users[su_flows[f].name].email = su_flows[f].email
    BY <1>12, <1>i, <1>t DEF AssociateUser, FlowSound
  <2>2. PICK at \in {"in", "refused"} :
           /\ su_flows' = [su_flows EXCEPT ![f] = [su_flows[f] EXCEPT !.at = at]]
           /\ su_links' \in {su_links, [su_links EXCEPT ![su_flows[f].email] = {su_flows[f].name}]}
    BY <1>12 DEF AssociateUser, SetFlow
  <2>3. /\ [su_flows[f] EXCEPT !.at = at] \in Signing
        /\ FlowSound(su_users, [su_flows[f] EXCEPT !.at = at])
    BY <1>o, <2>1
  <2>4. su_links' \in [SuEmails -> SUBSET SuNames]
    BY <1>t, <2>1, <2>2
  <2>5. LinkSound(su_users, {su_flows[f].name}, su_flows[f].email)
    BY <2>1 DEF LinkSound
  <2>6. \A e \in SuEmails : su_links'[e] = su_links[e] \/ LinkSound(su_users', su_links'[e], e)
    BY <1>t, <2>1, <2>2, <2>5
  <2> QED
    BY <1>b, <1>s, <1>t, <2>1, <2>2, <2>3, <2>4, <2>6
<1>13. ASSUME NEW f \in SuFlows, FlowEnds(f)
       PROVE  SignUpInv'
  <2>1. /\ su_flows' = [su_flows EXCEPT ![f] = [su_flows[f] EXCEPT !.at = "refused"]]
        /\ UNCHANGED <<su_users, su_links, su_forms>> /\ su_died \subseteq su_died'
        /\ su_flows[f].at = "new" => su_flows[f].name \in su_died'
    BY <1>13 DEF FlowEnds, SetFlow
  <2>2. /\ [su_flows[f] EXCEPT !.at = "refused"] \in Signing
        /\ FlowSound(su_users, [su_flows[f] EXCEPT !.at = "refused"])
    BY <1>o, <1>t
  <2> QED
    BY <1>b, <1>s, <1>t, <2>1, <2>2
<1>14. CASE UNCHANGED suvars
  <2>1. UNCHANGED <<su_users, su_links, su_forms, su_flows, su_died>>
    BY <1>14 DEF suvars
  <2>2. SignUpTypeOK'
    BY <1>t, <2>1 DEF SignUpTypeOK
  <2>3. ProfilesMade'
    BY <1>p, <2>1 DEF ProfilesMade, UsersThere, UserExists
  <2> QED
    BY <1>i, <2>1, <2>2, <2>3 DEF SignUpInv
<1> QED
  BY <1>1, <1>2, <1>3, <1>4, <1>5, <1>6, <1>7, <1>8, <1>9, <1>10, <1>11, <1>12, <1>13, <1>14 DEF SuNext

\* Addresses that were free when a user was made are of one user.
LEMMA SignUpSafe == SignUpInv => SignUpHolds
<1> SUFFICES ASSUME SignUpInv PROVE SignUpHolds
  OBVIOUS
<1>1. OneAccountPerAddress
  <2>1. \A m \in SuNames : su_users[m] # NoUser => AddressFree(su_users, su_users[m].email, su_users[m].seen)
    BY DEF SignUpInv, UserSound
  <2> QED
    BY <2>1 DEF OneAccountPerAddress, UsersThere, UserExists, AddressFree
<1>2. ASSUME NEW e \in SuEmails
      PROVE  Cardinality(su_links[e]) <= 1 /\ su_links[e] \subseteq UsersOf(e)
  <2>1. LinkSound(su_users, su_links[e], e) /\ su_links[e] \subseteq SuNames
    BY DEF SignUpInv, SignUpTypeOK
  <2>2. su_links[e] \subseteq UsersOf(e)
    BY <2>1 DEF LinkSound, UsersOf, UsersThere, UserExists
  <2>3. su_links[e] = {} \/ \E n \in su_links[e] : su_links[e] = {n}
    BY <2>1 DEF LinkSound
  <2>4. Cardinality(su_links[e]) <= 1
    <3>1. CASE su_links[e] = {}
      BY <3>1, FS_EmptySet
    <3>2. ASSUME NEW n \in su_links[e], su_links[e] = {n} PROVE Cardinality(su_links[e]) <= 1
      <4>1. Cardinality({n}) = 1
        BY FS_Singleton
      <4> QED
        BY <3>2, <4>1
    <3> QED
      BY <2>3, <3>1, <3>2
  <2> QED
    BY <2>2, <2>4
<1> QED
  BY <1>1, <1>2 DEF SignUpHolds, SignUpInv, LinksHold

\* Signing up (views/register.py, social_auth.py): an address is of one user, but for those made while
\* neither saw the other, and every user of a finished form has a profile; for any number of forms and logins.
THEOREM OneAccountEach == ASSUME SignUpAssumption PROVE SuSpec => []SignUpHolds
<1>1. SuInit => SignUpInv
  BY SignUpInit
<1>2. SignUpInv /\ [SuNext]_suvars => SignUpInv'
  BY SignUpStep
<1> QED
  BY <1>1, <1>2, SignUpSafe, PTL DEF SuSpec

-----------------------------------------------------------------------------
(* Tokens.                                                                 *)

TokenRow == [token : Nat, points : Nat, about : Nat]

TokenRequest == [kind : {"none", "generate", "remove", "edit", "checked"}, row : TokenRow,
                 orgs : SUBSET (OpenOrgs \cup ClosedOrgs), had : SUBSET (OpenOrgs \cup ClosedOrgs), about : Nat]

TokensTypeOK ==
    /\ tn_row \in TokenRow /\ tn_last \in [token : Nat, points : Nat]
    /\ tn_tokens \in Nat
    /\ tn_requests \in [TnRequests -> TokenRequest]
    /\ tn_orgs \subseteq OpenOrgs \cup ClosedOrgs

\* What nobody put back is as it was last given.
FieldsFollow == /\ "token" \notin tn_stale => tn_row.token = tn_last.token
                /\ "points" \notin tn_stale => tn_row.points = tn_last.points

\* A form that passed names open organizations, not too many, and those the user had then.
FormsAreClean ==
    \A r \in TnRequests : tn_requests[r].kind = "checked" =>
        /\ tn_requests[r].orgs \subseteq OpenOrgs \cup tn_requests[r].had
        /\ Cardinality(tn_requests[r].orgs \cap OpenOrgs) <= MaxOpenOrgs

TokensInv == TokensTypeOK /\ FieldsFollow /\ FormsAreClean /\ OrgsWereAdmitted

\* A row that nobody changed.
LEMMA TokensInit == TokensAssumption /\ TnInit => TokensInv
<1> SUFFICES ASSUME TokensAssumption, TnInit PROVE TokensInv
  OBVIOUS
<1>1. Cardinality(tn_orgs \cap OpenOrgs) = 0
  BY FS_EmptySet DEF TnInit
<1> QED
  BY <1>1 DEF TnInit, TokensInv, TokensTypeOK, FieldsFollow, FormsAreClean, OrgsWereAdmitted, NoRequestOfToken,
     TokenRequest, TokenRow, TokensAssumption

\* Tokens made and removed, points counted and profiles edited, each from the row it loaded.
LEMMA TokensStep == TokensAssumption /\ TokensInv /\ [TnNext]_tnvars => TokensInv'
<1> SUFFICES ASSUME TokensAssumption, TokensInv, [TnNext]_tnvars
             PROVE  TokensInv'
  OBVIOUS
<1> USE DEF TokensInv, TokensTypeOK
<1>n. NoRequestOfToken \in TokenRequest /\ NoRequestOfToken.kind = "none"
  BY DEF NoRequestOfToken, TokenRow, TokenRequest
<1>e. ASSUME NEW r \in TnRequests, EndTn(r)
      PROVE  tn_requests' \in [TnRequests -> TokenRequest] /\ FormsAreClean'
  BY <1>e, <1>n DEF EndTn, FormsAreClean
<1>1. CASE CountPoints
  <2>1. tn_row' = [tn_row EXCEPT !.points = tn_last.points + 1]
        /\ tn_last' = [tn_last EXCEPT !.points = tn_last.points + 1]
    BY <1>1 DEF CountPoints
  <2> QED
    BY <1>1, <2>1 DEF CountPoints, TokenRow, FieldsFollow, FormsAreClean, OrgsWereAdmitted
<1>2. ASSUME NEW o \in ClosedOrgs, AdmittedTo(o) \/ KickedFrom(o)
      PROVE  TokensInv'
  <2>1. tn_orgs' \cap OpenOrgs = tn_orgs \cap OpenOrgs
    BY <1>2 DEF AdmittedTo, KickedFrom, TokensAssumption
  <2>2. OrgsWereAdmitted'
    BY <1>2, <2>1 DEF AdmittedTo, KickedFrom, OrgsWereAdmitted
  <2> QED
    BY <1>2, <2>2 DEF AdmittedTo, KickedFrom, FieldsFollow, FormsAreClean
<1>3. ASSUME NEW r \in TnRequests, GenerateApiToken(r)
      PROVE  TokensInv'
  <2>1. tn_row' = [tn_row EXCEPT !.token = tn_tokens + 1] /\ tn_last' = [tn_last EXCEPT !.token = tn_tokens + 1]
    BY <1>3 DEF GenerateApiToken, OnlyToken, TokenRow
  <2> QED
    BY <1>3, <1>e, <2>1 DEF GenerateApiToken, TokenRow, FieldsFollow, OrgsWereAdmitted
<1>4. ASSUME NEW r \in TnRequests, RemoveApiToken(r)
      PROVE  TokensInv'
  <2>1. /\ tn_row' = [tn_requests[r].row EXCEPT !.token = 0] /\ tn_last' = [tn_last EXCEPT !.token = 0]
        /\ tn_stale' = tn_stale \cup {field \in {"points", "about"} : tn_requests[r].row[field] # tn_row[field]}
    BY <1>4 DEF RemoveApiToken, SaveLoadedProfile
  <2>a. tn_row' \in TokenRow /\ tn_last' \in [token : Nat, points : Nat]
    BY <2>1 DEF TokenRow, TokenRequest
  <2>2. FieldsFollow'
    BY <2>1 DEF FieldsFollow, TokenRow, TokenRequest
  <2>3. OrgsWereAdmitted'
    BY <1>4, <2>1 DEF RemoveApiToken, OrgsWereAdmitted
  <2> QED
    BY <1>4, <1>e, <2>1, <2>2, <2>3, <2>a DEF RemoveApiToken
<1>5. ASSUME NEW r \in TnRequests, EditProfile(r)
      PROVE  TokensInv'
  <2>1. /\ tn_row' = [tn_requests[r].row EXCEPT !.about = tn_requests[r].about]
        /\ tn_stale' = tn_stale \cup {field \in {"token", "points"} : tn_requests[r].row[field] # tn_row[field]}
                                \cup ((tn_requests[r].orgs \cap tn_requests[r].had) \ tn_put)
        /\ tn_orgs' = tn_requests[r].orgs /\ tn_requests[r].kind = "checked"
        /\ UNCHANGED <<tn_tokens, tn_last, tn_put>>
    BY <1>5 DEF EditProfile
  <2>a. tn_row' \in TokenRow /\ tn_last' \in [token : Nat, points : Nat]
    BY <2>1 DEF TokenRow, TokenRequest
  <2>2. FieldsFollow'
    BY <2>1 DEF FieldsFollow, TokenRow, TokenRequest
  <2>3. OrgsWereAdmitted'
    BY <2>1 DEF FormsAreClean, OrgsWereAdmitted, TokensAssumption, TokenRequest
  <2> QED
    <3>1. EndTn(r) /\ tn_orgs' \subseteq OpenOrgs \cup ClosedOrgs
      BY <1>5, <2>1 DEF EditProfile, TokenRequest
    <3> QED
      BY <3>1, <1>e, <2>1, <2>2, <2>3, <2>a
<1>6. ASSUME NEW r \in TnRequests, NEW kind \in {"generate", "remove", "edit"}, LoadProfile(r, kind)
      PROVE  TokensInv'
  <2>1. tn_requests' = [tn_requests EXCEPT ![r] = [NoRequestOfToken EXCEPT !.kind = kind, !.row = tn_row]]
    BY <1>6 DEF LoadProfile
  <2>2. tn_requests' \in [TnRequests -> TokenRequest]
    BY <2>1, <1>n DEF TokenRequest
  <2> QED
    BY <1>6, <2>1, <2>2 DEF LoadProfile, FieldsFollow, FormsAreClean, OrgsWereAdmitted, TokenRequest
<1>7. ASSUME NEW r \in TnRequests, NEW orgs \in SUBSET (OpenOrgs \cup ClosedOrgs), NEW about \in {1},
             CheckProfileForm(r, orgs, about)
      PROVE  TokensInv'
  <2>1. /\ tn_requests' = [tn_requests EXCEPT ![r] =
              [tn_requests[r] EXCEPT !.kind = "checked", !.orgs = orgs, !.had = tn_orgs, !.about = about]]
        /\ orgs \subseteq OpenOrgs \cup tn_orgs /\ Cardinality(orgs \cap OpenOrgs) <= MaxOpenOrgs
    BY <1>7 DEF CheckProfileForm, CleanOrgs
  <2>2. tn_requests' \in [TnRequests -> TokenRequest]
    <3>1. about \in Nat /\ tn_requests[r] \in TokenRequest
      OBVIOUS
    <3>2. [tn_requests[r] EXCEPT !.kind = "checked", !.orgs = orgs, !.had = tn_orgs, !.about = about] \in TokenRequest
      BY <3>1 DEF TokenRequest
    <3> QED
      BY <2>1, <3>2
  <2>3. FormsAreClean'
    BY <2>1 DEF FormsAreClean, TokenRequest
  <2> QED
    BY <1>7, <2>2, <2>3 DEF CheckProfileForm, FieldsFollow, OrgsWereAdmitted
<1>8. CASE UNCHANGED tnvars
  BY <1>8 DEF tnvars, FieldsFollow, FormsAreClean, OrgsWereAdmitted
<1> QED
  BY <1>1, <1>2, <1>3, <1>4, <1>5, <1>6, <1>7, <1>8 DEF TnNext

\* Fields that follow their last writer are those the user saw.
LEMMA TokensSafe == TokensInv => TokensHold
BY DEF TokensInv, TokensTypeOK, FieldsFollow, TokensHold, LastTokenOnly, PointsKept, TokenAccepted, TokenRow

\* The row of a profile (views/api/, views/user.py): a token, points and the text last stored are there,
\* but for requests that stored a row loaded before; organizations are those that admitted the user.
THEOREM TokensAreKept == ASSUME TokensAssumption PROVE TnSpec => []TokensHold
<1>1. TnInit => TokensInv
  BY TokensInit
<1>2. TokensInv /\ [TnNext]_tnvars => TokensInv'
  BY TokensStep
<1> QED
  BY <1>1, <1>2, TokensSafe, PTL DEF TnSpec

-----------------------------------------------------------------------------
(* Downloads.                                                              *)

DownloadsTypeOK ==
    /\ dd_now \in Nat /\ dd_last \in Nat \cup {NeverAsked}
    /\ dd_tasks \in [DdTasks -> {"none", "PENDING", "PROGRESS", "SUCCESS", "FAILURE"}]
    /\ dd_file \in [at : {"absent", "partial", "whole"}, by : DdTasks \cup {NoTask}]
    /\ dd_requests \in [DdRequests -> {NoAsking} \cup [at : {"loaded"}, last : Nat \cup {NeverAsked}]
                            \cup [at : {"saved"}] \cup [at : {"sent"}, task : DdTasks]]
    /\ dd_starts \in (Nat \cup {NeverAsked}) \X (Nat \cup {NeverAsked}) /\ dd_crossed \in BOOLEAN

\* Requests that have passed the test and not yet put their task in the cache.
Passed == {r \in DdRequests : dd_requests[r].at \in {"saved", "sent"}}

\* One request, task or both at a time; the task under way is in the cache or its request is to put it there.
OneAtATime ==
    /\ \A r, q \in Passed : r = q
    /\ \A r \in Passed : \A t \in UnderWay : dd_requests[r].at = "sent" /\ dd_requests[r].task = t
    /\ \A t \in UnderWay : dd_key = t \/ \E r \in Passed : dd_requests[r].at = "sent" /\ dd_requests[r].task = t
    /\ \A s, t \in UnderWay : s = t

\* An archive is whole when the task that opened it last succeeded.
FileFollows ==
    /\ dd_file.at # "absent" => dd_file.by \in DdTasks
    /\ dd_file.at = "partial" => dd_tasks[dd_file.by] \in {"PROGRESS", "FAILURE"}
    /\ dd_file.at = "whole" => dd_tasks[dd_file.by] = "SUCCESS"

DownloadsInv == DownloadsTypeOK /\ (~dd_crossed => OneAtATime) /\ FileFollows /\ RateHolds /\ SentIsWhole

\* A moment past the limit is that much later.
LEMMA Later == ASSUME NEW a \in Int, NEW b \in Int, NEW g \in Nat, a + g < b PROVE b - a > g
OBVIOUS

\* Nothing was asked for.
LEMMA DownloadsInit == DownloadsAssumption /\ DdInit => DownloadsInv
<1> SUFFICES ASSUME DdInit PROVE DownloadsInv
  OBVIOUS
<1>1. Passed = {} /\ UnderWay = {}
  BY DEF DdInit, Passed, UnderWay, NoAsking
<1>2. DownloadsTypeOK
  BY DEF DdInit, DownloadsTypeOK, NoAsking, NeverAsked
<1> QED
  BY <1>1, <1>2 DEF DdInit, DownloadsInv, OneAtATime, FileFollows, RateHolds, SentIsWhole

\* Requests in two steps, tasks, and files written, deleted and sent.
LEMMA DownloadsStep == DownloadsAssumption /\ DownloadsInv /\ [DdNext]_ddvars => DownloadsInv'
<1> SUFFICES ASSUME DownloadsAssumption, DownloadsInv, [DdNext]_ddvars
             PROVE  DownloadsInv'
  OBVIOUS
<1> USE DEF DownloadsInv, DownloadsAssumption
<1>t. DownloadsTypeOK'
  <2> USE DEF DownloadsTypeOK, NoAsking, NeverAsked
  <2>1. CASE DdTick \/ SendArchive
    BY <2>1 DEF DdTick, SendArchive
  <2>7. CASE KeyExpires
    BY <2>7 DEF KeyExpires
  <2>2. ASSUME NEW r \in DdRequests, LoadAsker(r) \/ SetKey(r)
        PROVE  DownloadsTypeOK'
    BY <2>2 DEF LoadAsker, SetKey, Asking
  <2>3. ASSUME NEW r \in DdRequests, CheckAsker(r)
        PROVE  DownloadsTypeOK'
    <3>1. dd_requests' \in [DdRequests -> {NoAsking} \cup [at : {"loaded"}, last : Nat \cup {NeverAsked}]
                            \cup [at : {"saved"}] \cup [at : {"sent"}, task : DdTasks]]
      BY <2>3 DEF CheckAsker, Asking
    <3>2. dd_last' \in Nat \cup {NeverAsked} /\ dd_crossed' \in BOOLEAN
      BY <2>3 DEF CheckAsker
    <3>3. dd_starts' \in (Nat \cup {NeverAsked}) \X (Nat \cup {NeverAsked})
      BY <2>3 DEF CheckAsker
    <3> QED
      BY <2>3, <3>1, <3>2, <3>3 DEF CheckAsker
  <2>4. ASSUME NEW r \in DdRequests, NEW t \in DdTasks, Delay(r, t)
        PROVE  DownloadsTypeOK'
    BY <2>4 DEF Delay, Asking
  <2>5. ASSUME NEW t \in DdTasks, OpenArchive(t) \/ CloseArchive(t) \/ TaskFails(t)
        PROVE  DownloadsTypeOK'
    BY <2>5 DEF OpenArchive, CloseArchive, TaskFails
  <2>6. CASE UNCHANGED ddvars
    BY <2>6 DEF ddvars
  <2> QED
    BY <2>1, <2>2, <2>3, <2>4, <2>5, <2>6, <2>7 DEF DdNext
<1>1. CASE DdTick \/ SendArchive
  <2>1. UNCHANGED <<dd_key, dd_tasks, dd_file, dd_requests, dd_starts, dd_crossed>>
    BY <1>1 DEF DdTick, SendArchive
  <2>2. UnderWay' = UnderWay /\ Passed' = Passed
    BY <2>1 DEF UnderWay, Passed
  <2>3. SentIsWhole'
    BY <1>1 DEF DdTick, SendArchive, SentIsWhole, FileFollows, DownloadsTypeOK, UnderWay
  <2> QED
    BY <1>t, <2>1, <2>2, <2>3 DEF OneAtATime, FileFollows, RateHolds
<1>2. CASE KeyExpires
  <2>1. /\ UNCHANGED <<dd_tasks, dd_file, dd_requests, dd_starts, dd_sent>>
        /\ dd_crossed' = (dd_crossed \/ dd_key \in UnderWay)
    BY <1>2 DEF KeyExpires
  <2>2. UnderWay' = UnderWay /\ Passed' = Passed
    BY <2>1 DEF UnderWay, Passed
  <2>3. ~dd_crossed' => OneAtATime'
    BY <2>1, <2>2 DEF OneAtATime
  <2> QED
    BY <1>t, <2>1, <2>3 DEF FileFollows, RateHolds, SentIsWhole
<1>3. ASSUME NEW r \in DdRequests, LoadAsker(r)
      PROVE  DownloadsInv'
  <2>1. /\ dd_requests' = [dd_requests EXCEPT ![r] = [at |-> "loaded", last |-> dd_last]]
        /\ dd_requests[r] = NoAsking
        /\ UNCHANGED <<dd_now, dd_last, dd_key, dd_tasks, dd_file, dd_starts, dd_crossed, dd_sent>>
    BY <1>3 DEF LoadAsker, Asking
  <2>2. Passed' = Passed /\ r \notin Passed /\ UnderWay' = UnderWay
    BY <2>1 DEF Passed, NoAsking, UnderWay, DownloadsTypeOK
  <2>3. \A q \in Passed : dd_requests'[q] = dd_requests[q]
    BY <2>1, <2>2 DEF Passed, DownloadsTypeOK
  <2>4. ~dd_crossed' => OneAtATime'
    BY <2>1, <2>2, <2>3 DEF OneAtATime
  <2> QED
    BY <1>t, <2>1, <2>4 DEF FileFollows, RateHolds, SentIsWhole
<1>4. ASSUME NEW r \in DdRequests, CheckAsker(r)
      PROVE  DownloadsInv'
  <2>1. /\ UNCHANGED <<dd_now, dd_key, dd_tasks, dd_file, dd_sent>> /\ dd_requests[r].at = "loaded"
        /\ dd_crossed => dd_crossed'
    BY <1>4 DEF CheckAsker, DownloadsTypeOK
  <2>2. UnderWay' = UnderWay /\ FileFollows' /\ SentIsWhole'
    BY <2>1 DEF UnderWay, FileFollows, SentIsWhole
  <2>3. CASE CanPrepareData(dd_requests[r].last) /\ ~InProgress
    <3>1. /\ dd_requests' = [dd_requests EXCEPT ![r] = [at |-> "saved"]] /\ dd_last' = dd_now
          /\ dd_crossed' = (dd_crossed \/ dd_last # dd_requests[r].last
                            \/ \E o \in DdRequests \ {r} : dd_requests[o].at \in {"saved", "sent"})
          /\ dd_starts' = IF dd_file.at = "absent" THEN dd_starts ELSE <<dd_last, dd_now>>
      BY <1>4, <2>3 DEF CheckAsker, Asking
    <3>2. ASSUME ~dd_crossed' PROVE OneAtATime'
      <4>1. OneAtATime /\ Passed = {} /\ Passed' = {r}
        <5>1. ~dd_crossed /\ \A o \in DdRequests \ {r} : dd_requests[o].at \notin {"saved", "sent"}
          BY <3>1, <3>2
        <5>2. dd_requests'[r].at = "saved" /\ \A o \in DdRequests \ {r} : dd_requests'[o] = dd_requests[o]
          BY <3>1 DEF DownloadsTypeOK
        <5> QED
          BY <2>1, <5>1, <5>2 DEF Passed
      <4>2. UnderWay = {}
        BY <2>3, <4>1 DEF OneAtATime, InProgress, UnderWay, DownloadsTypeOK
      <4> QED
        BY <2>2, <4>1, <4>2 DEF OneAtATime
    <3>3. ASSUME ~dd_crossed', dd_starts'[1] # NeverAsked PROVE dd_starts'[2] - dd_starts'[1] > RateGap
      <4>1. CASE dd_file.at = "absent"
        BY <3>1, <3>3, <4>1 DEF RateHolds
      <4>2. CASE dd_file.at # "absent"
        <5>1. dd_starts' = <<dd_last, dd_now>> /\ dd_last = dd_requests[r].last /\ dd_last # NeverAsked
          BY <3>1, <3>3, <4>2
        <5>2. dd_last + RateGap < dd_now
          BY <2>3, <4>2, <5>1 DEF CanPrepareData
        <5>3. dd_now - dd_last > RateGap
          BY <5>1, <5>2, Later DEF DownloadsTypeOK
        <5> QED
          BY <5>1, <5>3
      <4> QED
        BY <4>1, <4>2
    <3> QED
      BY <1>t, <2>2, <3>2, <3>3 DEF RateHolds
  <2>4. CASE ~(CanPrepareData(dd_requests[r].last) /\ ~InProgress)
    <3>1. dd_requests' = [dd_requests EXCEPT ![r] = NoAsking] /\ UNCHANGED <<dd_crossed, dd_starts>>
      BY <1>4, <2>4 DEF CheckAsker, Asking
    <3>2. Passed' = Passed /\ r \notin Passed
      BY <2>1, <3>1 DEF Passed, NoAsking, DownloadsTypeOK
    <3>3. \A q \in Passed : dd_requests'[q] = dd_requests[q]
      BY <3>1, <3>2 DEF Passed, DownloadsTypeOK
    <3>4. ~dd_crossed' => OneAtATime'
      BY <2>1, <2>2, <3>1, <3>2, <3>3 DEF OneAtATime
    <3> QED
      BY <1>t, <2>2, <3>1, <3>4 DEF RateHolds
  <2> QED
    BY <2>3, <2>4
<1>5. ASSUME NEW r \in DdRequests, NEW t \in DdTasks, Delay(r, t)
      PROVE  DownloadsInv'
  <2>1. /\ dd_requests' = [dd_requests EXCEPT ![r] = [at |-> "sent", task |-> t]]
        /\ dd_tasks' = [dd_tasks EXCEPT ![t] = "PENDING"]
        /\ dd_requests[r].at = "saved" /\ dd_tasks[t] = "none"
        /\ UNCHANGED <<dd_key, dd_file, dd_starts, dd_crossed, dd_sent>>
    BY <1>5 DEF Delay, Asking
  <2>2. Passed' = Passed /\ r \in Passed /\ UnderWay' = UnderWay \cup {t}
    BY <2>1 DEF Passed, UnderWay, DownloadsTypeOK
  <2>3. ASSUME ~dd_crossed' PROVE OneAtATime'
    <3>1. Passed = {r} /\ UnderWay = {}
      BY <2>1, <2>2, <2>3 DEF OneAtATime
    <3>2. dd_requests'[r].at = "sent" /\ dd_requests'[r].task = t
      BY <2>1 DEF DownloadsTypeOK
    <3> QED
      BY <2>2, <3>1, <3>2 DEF OneAtATime
  <2>4. FileFollows'
    BY <2>1 DEF FileFollows, DownloadsTypeOK
  <2> QED
    BY <1>t, <2>1, <2>3, <2>4 DEF RateHolds, SentIsWhole
<1>6. ASSUME NEW r \in DdRequests, SetKey(r)
      PROVE  DownloadsInv'
  <2>1. /\ dd_requests' = [dd_requests EXCEPT ![r] = NoAsking] /\ dd_requests[r].at = "sent"
        /\ dd_key' = dd_requests[r].task
        /\ UNCHANGED <<dd_tasks, dd_file, dd_starts, dd_crossed, dd_sent>>
    BY <1>6 DEF SetKey, Asking
  <2>2. Passed' = Passed \ {r} /\ r \in Passed /\ UnderWay' = UnderWay
    BY <2>1 DEF Passed, NoAsking, UnderWay, DownloadsTypeOK
  <2>3. ~dd_crossed' => OneAtATime'
    BY <2>1, <2>2 DEF OneAtATime
  <2> QED
    BY <1>t, <2>1, <2>3 DEF FileFollows, RateHolds, SentIsWhole
<1>7. ASSUME NEW t \in DdTasks, OpenArchive(t) \/ CloseArchive(t) \/ TaskFails(t)
      PROVE  DownloadsInv'
  <2>1. UNCHANGED <<dd_key, dd_requests, dd_starts, dd_crossed, dd_sent>>
    BY <1>7 DEF OpenArchive, CloseArchive, TaskFails
  <2>2. UnderWay' \subseteq UnderWay /\ Passed' = Passed
    BY <1>7, <2>1 DEF OpenArchive, CloseArchive, TaskFails, UnderWay, Passed, DownloadsTypeOK
  <2>3. ~dd_crossed' => OneAtATime'
    BY <2>1, <2>2 DEF OneAtATime
  <2>4. FileFollows'
    BY <1>7 DEF OpenArchive, CloseArchive, TaskFails, FileFollows, UnderWay, DownloadsTypeOK
  <2> QED
    BY <1>t, <2>1, <2>3, <2>4 DEF RateHolds, SentIsWhole
<1>8. CASE UNCHANGED ddvars
  <2>1. UnderWay' = UnderWay /\ Passed' = Passed
    BY <1>8 DEF ddvars, UnderWay, Passed
  <2> QED
    BY <1>8, <1>t, <2>1 DEF ddvars, OneAtATime, FileFollows, RateHolds, SentIsWhole
<1> QED
  BY <1>1, <1>2, <1>3, <1>4, <1>5, <1>6, <1>7, <1>8 DEF DdNext

\* Tasks that are apart send whole files.
LEMMA DownloadsSafe == DownloadsInv => DownloadsHold
<1> SUFFICES ASSUME DownloadsInv, ~dd_crossed PROVE Cardinality(UnderWay) <= 1
  BY DEF DownloadsInv, DownloadsHold, OneWriter
<1>1. UnderWay = {} \/ \E t : UnderWay = {t}
  BY DEF DownloadsInv, OneAtATime
<1>2. Cardinality(UnderWay) = 0 \/ Cardinality(UnderWay) = 1
  BY <1>1, FS_EmptySet, FS_Singleton
<1> QED
  BY <1>2

\* An archive to download (views/user.py, tasks/user.py): it is sent whole and of the task that made it, and
\* no more than one is made in the time the limit says, but for requests that overlapped.
THEOREM ArchivesAreWhole == ASSUME DownloadsAssumption PROVE DdSpec => []DownloadsHold
<1>1. DdInit => DownloadsInv
  BY DownloadsInit
<1>2. DownloadsInv /\ [DdNext]_ddvars => DownloadsInv'
  BY DownloadsStep
<1> QED
  BY <1>1, <1>2, DownloadsSafe, PTL DEF DdSpec

-----------------------------------------------------------------------------
(* Clones.                                                                 *)

CloneItem == [public : BOOLEAN, orgs : SUBSET CnOrgs, there : BOOLEAN]
CloneRequest == [at : {"none", "loaded", "failed", "done"}, from : CnCodes, to : CnCodes]

ShownInv ==
    /\ cn_items \in [CnCodes -> CloneItem]
    /\ cn_requests \in [CnRequests -> CloneRequest]
    /\ cn_edits \in Nat

\* The first problem is there, the codes of its clones are free.
LEMMA ClonesInit == ClonesAssumption /\ CnInit => ShownInv
<1> SUFFICES ASSUME ClonesAssumption, CnInit PROVE ShownInv
  OBVIOUS
<1>1. NoItem \in CloneItem /\ [NoItem EXCEPT !.there = TRUE] \in CloneItem
  BY DEF NoItem, CloneItem
<1>2. NotCloning \in CloneRequest
  BY DEF NotCloning, CloneRequest, ClonesAssumption
<1>3. cn_items \in [CnCodes -> CloneItem]
  BY <1>1 DEF CnInit
<1> QED
  BY <1>2, <1>3 DEF CnInit, ShownInv

\* Clones and edits.
LEMMA ClonesStep == ShownInv /\ [CnNext]_cnvars => ShownInv'
<1> SUFFICES ASSUME ShownInv, [CnNext]_cnvars PROVE ShownInv'
  OBVIOUS
<1> USE DEF ShownInv
<1>1. ASSUME NEW r \in CnRequests, FormValid(r) PROVE ShownInv'
  <2>1. cn_requests' \in [CnRequests -> CloneRequest]
    BY <1>1 DEF FormValid, EndClone, CloneRequest
  <2>2. \/ UNCHANGED cn_items
        \/ cn_items' = [cn_items EXCEPT ![cn_requests[r].to] = [cn_items[cn_requests[r].from] EXCEPT !.public = FALSE]]
    BY <1>1 DEF FormValid, HiddenItem
  <2>3. cn_requests[r].from \in CnCodes
    BY DEF CloneRequest
  <2>4. [cn_items[cn_requests[r].from] EXCEPT !.public = FALSE] \in CloneItem
    BY <2>3 DEF CloneItem
  <2>5. cn_items' \in [CnCodes -> CloneItem]
    BY <2>2, <2>4
  <2> QED
    BY <1>1, <2>1, <2>5 DEF FormValid
<1>2. ASSUME NEW r \in CnRequests, NEW from \in CnCodes, NEW to \in CnCodes, LoadClone(r, from, to) PROVE ShownInv'
  BY <1>2 DEF LoadClone, CloneRequest
<1>3. ASSUME NEW c \in CnCodes, NEW public \in BOOLEAN, NEW orgs \in SUBSET CnOrgs, NEW parts \in SUBSET CnParts,
             EditItem(c, public, orgs, parts)
      PROVE  ShownInv'
  <2>1. [cn_items[c] EXCEPT !.public = public, !.orgs = orgs] \in CloneItem
    BY DEF CloneItem
  <2> QED
    BY <1>3, <2>1 DEF EditItem
<1>4. CASE UNCHANGED cnvars
  BY <1>4 DEF cnvars
<1> QED
  BY <1>1, <1>2, <1>3, <1>4 DEF CnNext

\* A clone is stored hidden, and saving its relations leaves it so.
LEMMA ClonesHidden == ShownInv /\ [CnNext]_cnvars => ShownByEditors
<1> SUFFICES ASSUME ShownInv, [CnNext]_cnvars, NEW c \in CnCodes, cn_items'[c].public, ~cn_items[c].public
             PROVE  cn_edits' > cn_edits
  BY DEF ShownByEditors
<1> USE DEF ShownInv
<1>1. ASSUME NEW r \in CnRequests, FormValid(r) PROVE FALSE
  <2>1. cn_items' = [cn_items EXCEPT ![cn_requests[r].to] = [cn_items[cn_requests[r].from] EXCEPT !.public = FALSE]]
    BY <1>1 DEF FormValid, HiddenItem
  <2>2. cn_requests[r].from \in CnCodes
    BY DEF CloneRequest
  <2>3. ~[cn_items[cn_requests[r].from] EXCEPT !.public = FALSE].public
    BY <2>2 DEF CloneItem
  <2> QED
    BY <2>1, <2>3
<1>2. ASSUME NEW r \in CnRequests, NEW from \in CnCodes, NEW to \in CnCodes, LoadClone(r, from, to) PROVE FALSE
  BY <1>2 DEF LoadClone
<1>3. ASSUME NEW d \in CnCodes, NEW public \in BOOLEAN, NEW orgs \in SUBSET CnOrgs, NEW parts \in SUBSET CnParts,
             EditItem(d, public, orgs, parts)
      PROVE  cn_edits' > cn_edits
  BY <1>3 DEF EditItem
<1>4. CASE UNCHANGED cnvars
  BY <1>4 DEF cnvars
<1> QED
  BY <1>1, <1>2, <1>3, <1>4 DEF CnNext

\* Cloning a problem or a contest (views/problem.py, views/contests.py): what was not public becomes public
\* by an edit alone, also when the request fails half-way or two use the same code.
THEOREM OnlyEditorsShow == ASSUME ClonesAssumption PROVE CnSpec => [][ShownByEditors]_cnvars
<1>1. CnInit => ShownInv
  BY ClonesInit
<1>2. ShownInv /\ [CnNext]_cnvars => ShownInv'
  BY ClonesStep
<1>3. ShownInv /\ [CnNext]_cnvars => [ShownByEditors]_cnvars
  BY ClonesHidden
<1> QED
  BY <1>1, <1>2, <1>3, PTL DEF CnSpec

-----------------------------------------------------------------------------
(* Side by side.                                                           *)

\* What is invariant of the component a behaviour is of.
PeopleInv ==
    /\ part = "organizations" => OrganizationsInv
    /\ part = "courses" => CoursesInv /\ OutInv /\ CountInv
    /\ part = "accounts" => AccountsInv
    /\ part = "sign-up" => SignUpInv
    /\ part = "tokens" => TokensInv
    /\ part = "downloads" => DownloadsInv
    /\ part = "clones" => ShownInv

\* A step is of the component the behaviour is of, or of none.
LEMMA PeopleSteps ==
    ASSUME [PeopleNext]_ppvars
    PROVE  /\ part' = part
           /\ part = "organizations" => [OrgNext]_orgvars
           /\ part = "courses" => [CsNext]_csvars
           /\ part = "accounts" => [AcNext]_acvars
           /\ part = "sign-up" => [SuNext]_suvars
           /\ part = "tokens" => [TnNext]_tnvars
           /\ part = "downloads" => [DdNext]_ddvars
           /\ part = "clones" => [CnNext]_cnvars
BY DEF PeopleNext, ppvars

\* What is invariant of a component is kept by its steps.
LEMMA PeopleStep == PeopleAssumption /\ PeopleInv /\ [PeopleNext]_ppvars => PeopleInv'
<1> SUFFICES ASSUME PeopleAssumption, PeopleInv, [PeopleNext]_ppvars
             PROVE  PeopleInv'
  OBVIOUS
<1> QED
  BY PeopleSteps, OrganizationsStep, CoursesStep, OutStep, CountStep, AccountsStep, SignUpStep, TokensStep,
     DownloadsStep, ClonesStep DEF PeopleInv, PeopleAssumption

\* Before the first request of any of them.
LEMMA PeopleStart == PeopleAssumption /\ PeopleInit => PeopleInv
BY OrganizationsInit, CoursesInit, AccountsInit, SignUpInit, TokensInit, DownloadsInit, ClonesInit
   DEF PeopleInit, PeopleInv, PeopleAssumption

\* Whichever component a behaviour is of, what is said of it holds: slots, attempts and bans, second
\* factors, one account for an address, tokens and archives, for any number of users and requests.
THEOREM PeopleIsRight == ASSUME PeopleAssumption PROVE PeopleSpec => []PeopleHold
<1>1. PeopleInit => PeopleInv
  BY PeopleStart
<1>2. PeopleInv /\ [PeopleNext]_ppvars => PeopleInv'
  BY PeopleStep
<1>3. PeopleInv => PeopleHold
  BY CoursesSafe, AccountsSafe, SignUpSafe, TokensSafe, DownloadsSafe DEF PeopleInv, PeopleHold, OrganizationsInv
<1> QED
  BY <1>1, <1>2, <1>3, PTL DEF PeopleSpec

\* What is decided stays so (views/organization.py, views/two_factor.py, views/problem.py): requests to
\* join, the last second factor of staff, and that what was cloned is hidden until an editor shows it.
THEOREM DecisionsAreKept == ASSUME PeopleAssumption PROVE PeopleSpec => DecisionsStay
<1> DEFINE Decided == /\ part = "organizations" => DecisionsAreFinal
                      /\ part = "accounts" => StaffKeepFactor
                      /\ part = "clones" => ShownByEditors
<1>1. PeopleInit => PeopleInv
  BY PeopleStart
<1>2. PeopleInv /\ [PeopleNext]_ppvars => PeopleInv'
  BY PeopleStep
<1>3. PeopleInv /\ [PeopleNext]_ppvars => Decided
  BY PeopleSteps, DecisionsKept, FactorKept, ClonesHidden DEF PeopleInv, PeopleAssumption
<1>4. DecisionsStay <=> [][Decided]_ppvars
  BY DEF DecisionsStay
<1> HIDE DEF Decided
<1> QED
  BY <1>1, <1>2, <1>3, <1>4, PTL DEF PeopleSpec
=============================================================================
