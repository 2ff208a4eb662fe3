--------------------------- MODULE Participation ---------------------------
(***************************************************************************)
(* Taking part in one contest: joining, leaving, submitting, scoring and   *)
(* disqualifying (judge/models/contest.py, judge/views/contests.py,        *)
(* judge/views/problem.py, judge/models/profile.py, judge/middleware.py).  *)
(*                                                                         *)
(* A worker is a web process, a bridge thread or a task.  It runs one      *)
(* request at a time; a step is one statement that touches the database,   *)
(* and what it loaded stays with it: objects are not locked, are not read  *)
(* again, and are saved with all their columns.  The two saves of          *)
(* recompute_results are one transaction and so one step.                  *)
(*                                                                         *)
(* A participation is a user and a number: 0 is live, -1 spectates, n is   *)
(* the n-th virtual one.  Its score is the set of submissions it adds up.  *)
(***************************************************************************)
EXTENDS Integers, FiniteSets, FiniteSetsExt

CONSTANTS
    Users,
    Editors,        \* users who edit or test the contest
    Outsiders,      \* users outside the organizations that may join
    Superusers,
    Workers,
    Subs,           \* bound: submissions ever made to the contest's problem
    TimeLimit,      \* whether live participations have a window of their own
    MaxSubmissions, \* ContestProblem.max_submissions
    MaxVirtual,     \* bound: virtual participations of a user
    Asked,          \* bound: what users ask for
    Judged,         \* bound: participations staff disqualifies or reinstates
    Rescored,       \* bound: participations that are rescored
    Nowhere,        \* no participation
    Disqualified    \* the score -9999

ASSUME ParticipationAssumption ==
    /\ Editors \subseteq Users /\ Outsiders \subseteq Users
    /\ Superusers \subseteq Users
    /\ IsFiniteSet(Users) /\ IsFiniteSet(Workers)
    /\ TimeLimit \in BOOLEAN
    /\ MaxSubmissions \in Nat \ {0} /\ MaxVirtual \in Nat \ {0}

LIVE == 0
SPECTATE == -1

Participations == Users \X (SPECTATE .. MaxVirtual)

ASSUME NonesAssumption ==
    /\ Nowhere \notin Participations
    /\ \A S \in SUBSET Subs : S # Disqualified

ASSUME BoundsAssumption ==
    /\ Asked \subseteq {"join", "leave", "submit", "edit"}
    /\ Judged \subseteq Participations /\ Rescored \subseteq Participations

VARIABLES
    phase,      \* of the contest: before, running, over
    expired,    \* participations whose own window has closed
    exists,     \* rows of ContestParticipation
    dq,         \* those whose is_disqualified is set
    score,      \* their score
    current,    \* Profile.current_contest
    banned,     \* Contest.banned_users
    user_count, \* Contest.user_count
    csub,       \* rows of ContestSubmission: the participation of a submission
    graded,     \* submissions whose ContestSubmission.points is saved
    work,       \* what each worker is in the middle of
    overlapped, \* history: participations recomputed by two workers at a time
    slipped,    \* history: participations in which a user was put while disqualified
    decided     \* history: participations that staff last disqualified

rows == <<exists, dq, score, current, banned, user_count, csub, graded>>
clock == <<phase, expired>>
history == <<overlapped, slipped, decided>>
vars == <<phase, expired, exists, dq, score, current, banned, user_count, csub,
          graded, work, overlapped, slipped, decided>>

Idle == [pc |-> "idle"]

-----------------------------------------------------------------------------
(* Time, and what it decides.                                              *)

Tick ==
    /\ \/ phase = "before" /\ phase' = "running"
       \/ phase = "running" /\ phase' = "over"
    /\ UNCHANGED <<expired, rows, work, history>>

Expire(k) ==
    /\ k \in exists \ expired
    /\ k[2] > 0 \/ (k[2] = LIVE /\ TimeLimit)
    /\ expired' = expired \cup {k}
    /\ UNCHANGED <<phase, rows, work, history>>

\* ContestParticipation.ended.
Ended(k) == \/ k[2] \in {LIVE, SPECTATE} /\ phase = "over"
            \/ k[2] # SPECTATE /\ k \in expired

HasCompleted(u) == <<u, LIVE>> \in exists /\ Ended(<<u, LIVE>>)

IsLiveJoinable(u) ==
    phase # "before" /\ u \notin Editors \cup Outsiders /\ ~HasCompleted(u)

IsSpectatable(u) == u \in Editors \/ u \notin Outsiders

-----------------------------------------------------------------------------
(* Requests of a user.                                                     *)

\* Requests that may still create a participation of u.
Joins(u) ==
    {w \in Workers :
       /\ \/ work[w].pc \in {"join", "virtual", "create", "take", "createlive"}
          \/ work[w].pc = "middleware" /\ work[w].op = "join"
       /\ work[w].user = u}

VirtualIds(u) == {k[2] : k \in {x \in exists : x[1] = u /\ x[2] > 0}}

\* The login and contest middleware load the profile.
Enter(w, u, op) ==
    /\ work[w] = Idle
    /\ op = "join" => Cardinality(VirtualIds(u)) + Cardinality(Joins(u)) < MaxVirtual
    /\ work' = [work EXCEPT ![w] =
                  [pc |-> "middleware", op |-> op, user |-> u, cur |-> current[u]]]
    /\ UNCHANGED <<clock, rows, history>>

\* Profile.update_contest: a participation that has ended is left.
Middleware(w) ==
    LET r == work[w]
        ended == r.cur # Nowhere /\ Ended(r.cur)
    IN
    /\ r.pc = "middleware"
    /\ current' = IF ended THEN [current EXCEPT ![r.user] = Nowhere] ELSE current
    /\ work' = [work EXCEPT ![w] =
                  [pc |-> r.op, user |-> r.user,
                   cur |-> IF ended THEN Nowhere ELSE r.cur]]
    /\ UNCHANGED <<clock, exists, dq, score, banned, user_count, csub, graded, history>>

MayJoin(u) == /\ phase # "before" \/ u \in Editors
              /\ u \in Superusers \/ u \notin banned

\* join_contest up to its first query for participations.  The access code may be
\* wrong.
JoinCheck(w) ==
    LET u == work[w].user
        take(n) == work' = [work EXCEPT ![w] =
                              [pc |-> "take", user |-> u, part |-> <<u, n>>]]
    IN
    /\ work[w].pc = "join"
    /\ \/ /\ MayJoin(u) /\ phase = "over"
          /\ work' = [work EXCEPT ![w] = [pc |-> "virtual", user |-> u]]
       \/ /\ MayJoin(u) /\ phase # "over" /\ IsLiveJoinable(u)
          /\ take(LIVE)
       \/ /\ MayJoin(u) /\ phase # "over" /\ ~IsLiveJoinable(u) /\ IsSpectatable(u)
          /\ take(SPECTATE)
       \/ /\ \/ ~MayJoin(u) \/ phase = "over"
             \/ ~IsLiveJoinable(u) /\ ~IsSpectatable(u)
          /\ work' = [work EXCEPT ![w] = Idle]
    /\ UNCHANGED <<clock, rows, history>>

\* Mutant: the rows are counted, the spectator's too.
NextVirtualByCount(u) == Cardinality({k \in exists : k[1] = u}) + 1

\* The number of the next virtual participation.
NextVirtual(u) == Max(VirtualIds(u) \cup {0}) + 1

ReadVirtual(w) ==
    LET u == work[w].user IN
    /\ work[w].pc = "virtual"
    /\ work' = [work EXCEPT ![w] = [pc |-> "create", user |-> u,
                                    part |-> <<u, NextVirtual(u)>>]]
    /\ UNCHANGED <<clock, rows, history>>

\* Mutant: the row is not saved.
NewUnsaved(k) == UNCHANGED rows

\* A row is created, with no score, unless its unique key exists.
New(k) ==
    /\ exists' = exists \cup {k}
    /\ UNCHANGED <<dq, score, current, banned, user_count, csub, graded>>

EnrolAs(w, k) ==
    work' = [work EXCEPT ![w] = [pc |-> "enrol", user |-> k[1], part |-> k]]

\* After an IntegrityError the number is read again.
CreateVirtual(w) ==
    LET k == work[w].part IN
    /\ work[w].pc = "create"
    /\ IF k \in exists
       THEN /\ work' = [work EXCEPT ![w] = [pc |-> "virtual", user |-> k[1]]]
            /\ UNCHANGED rows
       ELSE New(k) /\ EnrolAs(w, k)
    /\ UNCHANGED <<clock, history>>

\* The live or spectating participation is looked up; the access code matters only
\* if there is none.
TakePart(w) ==
    LET k == work[w].part
        s == <<k[1], SPECTATE>>
    IN
    /\ work[w].pc = "take"
    /\ \/ k \in exists /\ ~Ended(k) /\ EnrolAs(w, k) /\ UNCHANGED rows
       \/ k \in exists /\ Ended(k) /\ EnrolAs(w, s) /\ New(s)
       \/ /\ k \notin exists
          /\ work' = [work EXCEPT ![w].pc = "createlive"] \/ work' = [work EXCEPT ![w] = Idle]
          /\ UNCHANGED rows
    /\ UNCHANGED <<clock, history>>

\* Here an IntegrityError fails the request.
CreateLive(w) ==
    LET k == work[w].part IN
    /\ work[w].pc = "createlive"
    /\ IF k \in exists
       THEN work' = [work EXCEPT ![w] = Idle] /\ UNCHANGED rows
       ELSE New(k) /\ EnrolAs(w, k)
    /\ UNCHANGED <<clock, history>>

\* profile.current_contest = participation; profile.save()
Enrol(w) ==
    LET k == work[w].part IN
    /\ work[w].pc = "enrol"
    /\ current' = [current EXCEPT ![k[1]] = k]
    /\ slipped' = IF k \in dq THEN slipped \cup {k} ELSE slipped
    /\ work' = [work EXCEPT ![w] = [pc |-> "count"]]
    /\ UNCHANGED <<clock, exists, dq, score, banned, user_count, csub, graded,
                   overlapped, decided>>

\* Mutant: virtual participations count.
CountedAll == exists

\* Participations that update_user_count counts.
Counted == {k \in exists : k[2] = LIVE}

\* Contest.update_user_count: a query, then a save.
CountUsers(w) ==
    /\ work[w].pc = "count"
    /\ work' = [work EXCEPT ![w] = [pc |-> "savecount", n |-> Cardinality(Counted)]]
    /\ UNCHANGED <<clock, rows, history>>

SaveCount(w) ==
    /\ work[w].pc = "savecount"
    /\ user_count' = work[w].n
    /\ work' = [work EXCEPT ![w] = Idle]
    /\ UNCHANGED <<clock, exists, dq, score, current, banned, csub, graded, history>>

\* ContestLeave, which looks at the profile loaded for the request.
Leave(w) ==
    /\ work[w].pc = "leave"
    /\ current' = IF work[w].cur = Nowhere THEN current
                  ELSE [current EXCEPT ![work[w].user] = Nowhere]
    /\ work' = [work EXCEPT ![w] = Idle]
    /\ UNCHANGED <<clock, exists, dq, score, banned, user_count, csub, graded, history>>

\* Editing the profile, removing a token, preparing one's data, joining an organization
\* or a course and disabling the second factor save every column of the profile that
\* was loaded for the request.
SaveProfile(w) ==
    LET k == work[w].cur IN
    /\ work[w].pc = "edit"
    /\ current' = [current EXCEPT ![work[w].user] = k]
    /\ slipped' = IF k \in dq THEN slipped \cup {k} ELSE slipped
    /\ work' = [work EXCEPT ![w] = Idle]
    /\ UNCHANGED <<clock, exists, dq, score, banned, user_count, csub, graded,
                   overlapped, decided>>

SubmissionsOf(k) == {s \in Subs : csub[s] = k}

\* form_valid of ProblemSubmit up to its transaction.  (A submission outside the
\* contest changes nothing here, and internal errors, which do not count, are
\* left to Limits.)
SubmitCheck(w) ==
    LET k == work[w].cur IN
    /\ work[w].pc = "submit"
    /\ work' = [work EXCEPT ![w] =
                  IF k # Nowhere /\ Cardinality(SubmissionsOf(k)) < MaxSubmissions
                  THEN [pc |-> "store", part |-> k]
                  ELSE Idle]
    /\ UNCHANGED <<clock, rows, history>>

\* Its transaction.
Store(w) ==
    /\ work[w].pc = "store"
    /\ IF \E s \in Subs : csub[s] = Nowhere
       THEN \E s \in Subs : /\ csub[s] = Nowhere
                            /\ csub' = [csub EXCEPT ![s] = work[w].part]
       ELSE UNCHANGED csub
    /\ work' = [work EXCEPT ![w] = Idle]
    /\ UNCHANGED <<clock, exists, dq, score, current, banned, user_count, graded, history>>

-----------------------------------------------------------------------------
(* Scores and disqualification.                                            *)

Recomputing(w, k) == work[w].pc \in {"recompute", "save"} /\ work[w].part = k

\* Worker w has loaded participation k and calls recompute_results.
Recompute(w, k, flag, staff) ==
    /\ work' = [work EXCEPT ![w] = [pc |-> "recompute", part |-> k, flag |-> flag,
                                    staff |-> staff]]
    /\ overlapped' = IF \E v \in Workers : Recomputing(v, k)
                     THEN overlapped \cup {k} ELSE overlapped
    /\ UNCHANGED <<slipped, decided>>

\* Submission.update_contest, at the end of a grading or of a rescoring.
Grade(w, s) ==
    /\ work[w] = Idle /\ csub[s] # Nowhere
    /\ graded' = graded \cup {s}
    /\ Recompute(w, csub[s], csub[s] \in dq, FALSE)
    /\ UNCHANGED <<clock, exists, dq, score, current, banned, user_count, csub>>

\* rescore_contest, and recalculate_results of the administration.
Rescore(w, k) ==
    /\ work[w] = Idle /\ k \in exists
    /\ Recompute(w, k, k \in dq, FALSE)
    /\ UNCHANGED <<clock, rows>>

\* ContestParticipationDisqualify: set_disqualified(not is_disqualified).
Toggle(w, k) ==
    /\ work[w] = Idle /\ k \in exists
    /\ Recompute(w, k, k \notin dq, TRUE)
    /\ UNCHANGED <<clock, rows>>

\* Mutant: the submissions of the user's other participations are added too.
CountingOfUser(k) == {s \in graded : csub[s] # Nowhere /\ csub[s][1] = k[1]}

\* The submissions a score is made of.
Counting(k) == SubmissionsOf(k) \cap graded

\* update_participation of the format adds up the submissions.
AddUp(w) ==
    LET r == work[w] IN
    /\ r.pc = "recompute"
    /\ work' = [work EXCEPT ![w] =
                  [pc |-> "save", part |-> r.part, flag |-> r.flag, staff |-> r.staff,
                   sum |-> Counting(r.part)]]
    /\ UNCHANGED <<clock, rows, history>>

\* Mutant: the score of a disqualified participation is not replaced.
ScoreUnreplaced(flag, sum) == sum

\* The score that recompute_results leaves.
ScoreOf(flag, sum) == IF flag THEN Disqualified ELSE sum

\* Mutant: the row is saved as if it had not been disqualified.
FlaggedNever(k, flag, staff) == IF flag /\ staff THEN dq \cup {k} ELSE dq \ {k}

\* is_disqualified as the whole row is saved.
Flagged(k, flag, staff) == IF flag THEN dq \cup {k} ELSE dq \ {k}

Save(w) ==
    LET r == work[w] IN
    /\ r.pc = "save"
    /\ dq' = Flagged(r.part, r.flag, r.staff)
    /\ score' = [score EXCEPT ![r.part] = ScoreOf(r.flag, r.sum)]
    /\ decided' = IF ~r.staff THEN decided
                  ELSE IF r.flag THEN decided \cup {r.part} ELSE decided \ {r.part}
    /\ work' = [work EXCEPT ![w] =
                  IF r.staff THEN [pc |-> "eject", part |-> r.part, flag |-> r.flag]
                  ELSE Idle]
    /\ UNCHANGED <<clock, exists, current, banned, user_count, csub, graded, overlapped,
                   slipped>>

\* Mutant: nobody is put out.
ThrownOutNever(k, flag) == FALSE

\* set_disqualified puts the user out of this participation.
ThrownOut(k, flag) == flag /\ current[k[1]] = k

Eject(w) ==
    LET k == work[w].part IN
    /\ work[w].pc = "eject"
    /\ current' = IF ThrownOut(k, work[w].flag)
                  THEN [current EXCEPT ![k[1]] = Nowhere] ELSE current
    /\ slipped' = IF work[w].flag THEN slipped \ {k} ELSE slipped
    /\ work' = [work EXCEPT ![w].pc = "ban"]
    /\ UNCHANGED <<clock, exists, dq, score, banned, user_count, csub, graded,
                   overlapped, decided>>

Ban(w) ==
    LET u == work[w].part[1] IN
    /\ work[w].pc = "ban"
    /\ banned' = IF work[w].flag THEN banned \cup {u} ELSE banned \ {u}
    /\ work' = [work EXCEPT ![w] = Idle]
    /\ UNCHANGED <<clock, exists, dq, score, current, user_count, csub, graded, history>>

-----------------------------------------------------------------------------
Init ==
    /\ phase = "before" /\ expired = {}
    /\ exists = {} /\ dq = {}
    /\ score = [k \in Participations |-> {}]
    /\ current = [u \in Users |-> Nowhere]
    /\ banned = {} /\ user_count = 0
    /\ csub = [s \in Subs |-> Nowhere] /\ graded = {}
    /\ work = [w \in Workers |-> Idle]
    /\ overlapped = {} /\ slipped = {} /\ decided = {}

\* The request of worker w goes on.
Step(w) ==
    \/ Middleware(w) \/ JoinCheck(w) \/ ReadVirtual(w) \/ CreateVirtual(w)
    \/ TakePart(w) \/ CreateLive(w) \/ Enrol(w) \/ CountUsers(w) \/ SaveCount(w)
    \/ Leave(w) \/ SaveProfile(w) \/ SubmitCheck(w) \/ Store(w)
    \/ AddUp(w) \/ Save(w) \/ Eject(w) \/ Ban(w)

Next ==
    \/ Tick
    \/ \E k \in Participations : Expire(k)
    \/ \E w \in Workers :
          \/ \E u \in Users, op \in Asked : Enter(w, u, op)
          \/ \E s \in Subs : Grade(w, s)
          \/ \E k \in Rescored : Rescore(w, k)
          \/ \E k \in Judged : Toggle(w, k)
          \/ Step(w)

Spec == Init /\ [][Next]_vars

-----------------------------------------------------------------------------
(* Properties.                                                             *)

Requests ==
    {Idle}
    \cup [pc : {"middleware"}, op : {"join", "leave", "submit", "edit"}, user : Users,
          cur : Participations \cup {Nowhere}]
    \cup [pc : {"join", "leave", "submit", "edit"}, user : Users,
          cur : Participations \cup {Nowhere}]
    \cup [pc : {"virtual"}, user : Users]
    \cup [pc : {"create", "take", "createlive", "enrol"}, user : Users,
          part : Participations]
    \cup [pc : {"count"}] \cup [pc : {"savecount"}, n : Nat]
    \cup [pc : {"store"}, part : Participations]
    \cup [pc : {"recompute"}, part : Participations, flag : BOOLEAN, staff : BOOLEAN]
    \cup [pc : {"save"}, part : Participations, flag : BOOLEAN, staff : BOOLEAN,
          sum : SUBSET Subs]
    \cup [pc : {"eject", "ban"}, part : Participations, flag : BOOLEAN]

\* The shape of the rows and of the requests.
TypeOK ==
    /\ phase \in {"before", "running", "over"}
    /\ expired \subseteq exists /\ exists \subseteq Participations
    /\ dq \subseteq exists
    /\ score \in [Participations -> {Disqualified} \cup SUBSET Subs]
    /\ current \in [Users -> {Nowhere} \cup exists]
    /\ banned \subseteq Users /\ user_count \in Nat
    /\ csub \in [Subs -> {Nowhere} \cup exists] /\ graded \subseteq Subs
    /\ work \in [Workers -> Requests]

\* Whatever workers overlap, a stored participation is disqualified exactly if its
\* score is -9999: the two are never saved apart (contest.py:511-518).
FlagAndScoreAgree == \A k \in exists : k \in dq <=> score[k] = Disqualified

\* The virtual participations of a user are numbered 1, 2, 3 without a gap, though
\* the number is read before the row is created and several requests may race.
VirtualIdsAreContiguous == \A u \in Users : VirtualIds(u) = 1 .. Cardinality(VirtualIds(u))

\* No worker is scoring participation k.
Settled(k) == \A w \in Workers : ~Recomputing(w, k)

\* A participation that two workers never recomputed at a time counts exactly its
\* graded submissions.
ScoreCountsSubmissions ==
    \A k \in exists \ (dq \cup overlapped) :
       Settled(k) => score[k] = SubmissionsOf(k) \cap graded

\* Such a participation is disqualified exactly if staff last decided so: grading and
\* rescoring, which save the whole row, do not undo it.
StaffDecisionStands == \A k \in exists \ overlapped : k \in dq <=> k \in decided

\* After a disqualification the user is not inside that participation, unless a request
\* that began before put them into it, by joining or by saving the profile as it had
\* loaded it, or it was recomputed twice at a time.
DisqualifiedIsOut ==
    \A k \in dq \ (slipped \cup overlapped) :
       current[k[1]] = k => \E w \in Workers : work[w].pc = "eject" /\ work[w].part = k

\* Contest.user_count never exceeds the live participations: a late save may only
\* hold an earlier number.
UserCountIsNotTooHigh == user_count <= Cardinality({k \in exists : k[2] = LIVE})

=============================================================================
