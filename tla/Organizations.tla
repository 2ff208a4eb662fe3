---------------------------- MODULE Organizations ----------------------------
(***************************************************************************)
(* Membership of organizations: joining open ones, asking to join closed   *)
(* ones and their classes, and the page on which administrators decide     *)
(* several requests at once (judge/views/organization.py).                 *)
(*                                                                         *)
(* A review takes steps that other reviews may come between: the pending   *)
(* rows are read and the free slots counted, the states are saved, the     *)
(* approved users are added one by one.                                    *)
(***************************************************************************)
EXTENDS Integers, FiniteSets, Sequences

CONSTANTS
    OrgUsers, Orgs,     \* Accounts; organizations.
    Reviewers,          \* Administrators deciding at the same time;
    ClassReviewers,     \* those who administer the class only.
    Slots,              \* Members that an organization may have.
    MaxOpen,            \* DMOJ_USER_MAX_ORGANIZATION_COUNT.
    MaxRequests,        \* Bound: requests ever made.
    MaxToggles          \* Bound: how often organizations are opened or closed.

\* What the constants are.
OrganizationsAssumption == Slots \in Nat

VARIABLES
    org_open, org_members,  \* Of an organization.
    org_classes,            \* Members of its class.
    org_requests,           \* Rows of OrganizationRequest: user, org, cls, state, where
                            \* the state is "P", "A", "R" or "gone".
    org_review,             \* Of a reviewer: org, states (decided, of each request),
                            \* add (requests yet to be carried out), at.
    org_toggles,
    org_raced               \* History: an organization's slots were counted during
                            \* another review, or it was open to all.

orgvars == <<org_open, org_members, org_classes, org_requests, org_review, org_toggles, org_raced>>

RequestIds == 1 .. Len(org_requests)
NoReview == [org |-> CHOOSE o \in Orgs : TRUE, states |-> <<>>, add |-> {}, at |-> "idle"]

OrgInit ==
    /\ org_open = [o \in Orgs |-> FALSE]
    /\ org_members = [o \in Orgs |-> {}]
    /\ org_classes = [o \in Orgs |-> {}]
    /\ org_requests = <<>>
    /\ org_review = [r \in Reviewers |-> NoReview]
    /\ org_toggles = 0
    /\ org_raced = {}

-----------------------------------------------------------------------------
(* Open organizations.                                                     *)

\* JoinOrganization.handle.
JoinOrganization(u, o) ==
    /\ u \notin org_members[o]
    /\ org_open[o]
    /\ Cardinality({q \in Orgs : org_open[q] /\ u \in org_members[q]}) < MaxOpen
    /\ org_members' = [org_members EXCEPT ![o] = @ \cup {u}]
    /\ UNCHANGED <<org_open, org_classes, org_requests, org_review, org_toggles, org_raced>>

\* LeaveOrganization.handle; the classes are not left.
LeaveOrganization(u, o) ==
    /\ u \in org_members[o]
    /\ org_members' = [org_members EXCEPT ![o] = @ \ {u}]
    /\ UNCHANGED <<org_open, org_classes, org_requests, org_review, org_toggles, org_raced>>

\* KickUserWidgetView.post.
RemoveMember(u, o) ==
    /\ u \in org_members[o]
    /\ org_members' = [org_members EXCEPT ![o] = @ \ {u}]
    /\ UNCHANGED <<org_open, org_classes, org_requests, org_review, org_toggles, org_raced>>

\* The administration of organizations opens or closes one.
ToggleOpen(o) ==
    /\ org_toggles < MaxToggles
    /\ org_toggles' = org_toggles + 1
    /\ org_open' = [org_open EXCEPT ![o] = ~@]
    /\ org_raced' = org_raced \cup {o}
    /\ UNCHANGED <<org_members, org_classes, org_requests, org_review>>

-----------------------------------------------------------------------------
(* Requests.                                                               *)

AddRequest(u, o, cls) ==
    /\ Len(org_requests) < MaxRequests
    /\ org_requests' = Append(org_requests, [user |-> u, org |-> o, cls |-> cls, state |-> "P"])
    /\ UNCHANGED <<org_open, org_members, org_classes, org_review, org_toggles, org_raced>>

\* RequestJoinOrganization, with or without a class; members may ask again.
RequestJoinOrganization(u, o) ==
    /\ \A i \in RequestIds :
          ~(org_requests[i].user = u /\ org_requests[i].org = o /\ org_requests[i].state = "P")
    /\ ~org_open[o]
    /\ \E cls \in BOOLEAN : AddRequest(u, o, cls)

\* RequestJoinClass, for members.
RequestJoinClass(u, o) ==
    /\ u \in org_members[o]
    /\ \A i \in RequestIds :
          ~(org_requests[i].user = u /\ org_requests[i].org = o /\ org_requests[i].cls
            /\ org_requests[i].state = "P")
    /\ AddRequest(u, o, TRUE)

-----------------------------------------------------------------------------
(* OrganizationRequestView.post.                                           *)

\* Mutant: the formset is built on all requests, decided ones too.
PendingAll(r, o) == {i \in RequestIds : org_requests[i].org = o /\ org_requests[i].state # "gone"}

\* OrganizationRequestView.get_requests: what the posted forms may be about.
Pending(r, o) == {i \in RequestIds : /\ org_requests[i].org = o /\ org_requests[i].state = "P"
                                     /\ r \in ClassReviewers => org_requests[i].cls}

\* Mutant: the members that there are do not count.
ExceedsSlotsAlone(o, approved) == approved > Slots

\* More than can be added; below zero free slots, no decision passes at all.
ExceedsSlots(o, approved) == approved > Slots - Cardinality(org_members[o])

Approved(states) == {i \in DOMAIN states : states[i] = "A"}

\* The reviewer decides some of the pending requests: "A", "R", or "gone" for a deletion.
\* Forms left as they were are not saved.
Review(r, o) ==
    /\ org_review[r].at = "idle"
    /\ \E decided \in SUBSET Pending(r, o) \ {{}} : \E states \in [decided -> {"A", "R", "gone"}] :
          /\ ~ExceedsSlots(o, Cardinality(Approved(states)))
          /\ org_review' = [org_review EXCEPT ![r] =
                [org |-> o, states |-> states, add |-> {}, at |-> "checked"]]
    /\ org_raced' = IF \E q \in Reviewers : org_review[q].at # "idle" /\ org_review[q].org = o
                    THEN org_raced \cup {o} ELSE org_raced
    /\ UNCHANGED <<org_open, org_members, org_classes, org_requests, org_toggles>>

\* formset.save; a row that was deleted meanwhile is inserted again.
SaveDecisions(r) ==
    LET review == org_review[r] IN
    /\ review.at = "checked"
    /\ org_requests' = [i \in RequestIds |->
          IF i \in DOMAIN review.states
          THEN [org_requests[i] EXCEPT !.state = review.states[i]] ELSE org_requests[i]]
    /\ org_review' = [org_review EXCEPT ![r] =
          IF Approved(review.states) = {} THEN NoReview
          ELSE [@ EXCEPT !.add = Approved(review.states), !.at = "saved"]]
    /\ UNCHANGED <<org_open, org_members, org_classes, org_toggles, org_raced>>

\* The loop over what was saved adds one approved user, to the class as well.
Admit(r) ==
    LET review == org_review[r] IN
    \E i \in review.add :
        /\ org_members' = [org_members EXCEPT ![review.org] = @ \cup {org_requests[i].user}]
        /\ org_classes' = IF org_requests[i].cls
                          THEN [org_classes EXCEPT ![review.org] = @ \cup {org_requests[i].user}]
                          ELSE org_classes
        /\ org_review' = [org_review EXCEPT ![r] =
              IF review.add = {i} THEN NoReview ELSE [review EXCEPT !.add = @ \ {i}]]
        /\ UNCHANGED <<org_open, org_requests, org_toggles, org_raced>>

OrgNext ==
    \/ \E u \in OrgUsers, o \in Orgs :
          \/ JoinOrganization(u, o) \/ LeaveOrganization(u, o) \/ RemoveMember(u, o)
          \/ RequestJoinOrganization(u, o) \/ RequestJoinClass(u, o)
    \/ \E o \in Orgs : ToggleOpen(o)
    \/ \E r \in Reviewers :
          \/ \E o \in Orgs : Review(r, o)
          \/ SaveDecisions(r) \/ Admit(r)

OrgSpec == OrgInit /\ [][OrgNext]_orgvars

-----------------------------------------------------------------------------
(* Properties.                                                             *)

\* A closed organization has no more members than slots, unless two reviews overlapped
\* or it was open for a time.
SlotsHold == \A o \in Orgs \ org_raced : Cardinality(org_members[o]) <= Slots

\* A decision is final, unless two reviews overlapped: pages that were loaded before it
\* and are posted after it do not change it.
DecisionsAreFinal ==
    \A i \in RequestIds :
        org_requests[i].state # "P" /\ org_requests'[i].state # org_requests[i].state =>
            org_requests[i].org \in org_raced
=============================================================================
