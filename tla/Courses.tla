-------------------------------- MODULE Courses --------------------------------
(***************************************************************************)
(* Taking part in a course (judge/views/courses.py,                        *)
(* judge/models/course.py, judge/admin/course.py).  Courses were made      *)
(* after contests: participations are live, spectating or virtual, and a   *)
(* profile points to the current one. Requests load the profile and later  *)
(* save every column of it, the current contest included; nothing ever     *)
(* takes a user out of a course that ended.                                *)
(***************************************************************************)
EXTENDS Integers, FiniteSetsExt

CONSTANTS
    CsUsers, CsEditors,     \* Users; those who edit or test the course.
    CsRequests,             \* Requests in progress at the same time.
    StartAt, EndAt, Limit,  \* start_time, end_time, time_limit (0 for none) of the course.
    LastTime,               \* Bound: of the clock.
    MaxCsRequests           \* Bound: requests ever started.

\* What the constants are.
CoursesAssumption == StartAt \in Nat /\ EndAt \in Nat /\ Limit \in Nat /\ LastTime \in Nat /\ MaxCsRequests \in Nat

LIVE == 0
SPECTATE == -1
NoPart == -2

VARIABLES
    cs_parts,       \* CourseParticipation: <<user, virtual>> -> real_start, is_disqualified.
    cs_rows,        \* Of a profile: course (virtual of the current one), contest (in some contest).
    cs_count,       \* Course.user_count.
    cs_banned,      \* Course.banned_users.
    cs_clock,
    cs_requests, cs_started,
    cs_late,        \* History: users whose profile was saved with old columns, or who entered when they were banned.
    cs_pardoned,    \* History: users reinstated for another participation.
    cs_miscounted   \* History: the number of users was saved when it was no longer that.

csvars == <<cs_parts, cs_rows, cs_count, cs_banned, cs_clock, cs_requests, cs_started,
            cs_late, cs_pardoned, cs_miscounted>>

CsIdle == [at |-> "idle"]

CsInit ==
    /\ cs_parts = <<>>
    /\ cs_rows = [u \in CsUsers |-> [course |-> NoPart, contest |-> FALSE]]
    /\ cs_count = 0
    /\ cs_banned = {}
    /\ cs_clock = 0
    /\ cs_requests = [r \in CsRequests |-> CsIdle] /\ cs_started = 0
    /\ cs_late = {} /\ cs_pardoned = {} /\ cs_miscounted = FALSE

CsStart(r, state) == /\ cs_requests[r] = CsIdle /\ cs_started < MaxCsRequests
                     /\ cs_started' = cs_started + 1
                     /\ cs_requests' = [cs_requests EXCEPT ![r] = state]
CsStep(r, state) == cs_requests' = [cs_requests EXCEPT ![r] = state] /\ UNCHANGED cs_started

\* CourseParticipation.end_time.
EndOf(start, virtual) ==
    CASE virtual = SPECTATE -> EndAt
      [] virtual > 0 -> start + (IF Limit # 0 THEN Limit ELSE EndAt - StartAt)
      [] virtual = LIVE -> IF Limit = 0 THEN EndAt ELSE Min({start + Limit, EndAt})

PartEnded(part, now) == EndOf(cs_parts[part].start, part[2]) < now

HasCompleted(u, now) == <<u, LIVE>> \in DOMAIN cs_parts /\ PartEnded(<<u, LIVE>>, now)

VirtualsOf(u) == {n \in 1 .. MaxCsRequests : <<u, n>> \in DOMAIN cs_parts}

\* Mutant: the number of the participations, those that are not virtual included.
CountOfAll(u) == Cardinality({p \in DOMAIN cs_parts : p[1] = u}) + 1

\* The next virtual_id of a user.
NextVirtual(u) == Max({0} \cup VirtualsOf(u)) + 1

-----------------------------------------------------------------------------
(* CourseJoin.                                                             *)

JoinStart(r, u) ==
    /\ cs_clock >= StartAt \/ u \in CsEditors
    /\ u \notin cs_banned
    /\ cs_clock <= EndAt => cs_clock >= StartAt \/ u \in CsEditors
    /\ CsStart(r, [at |-> "find", user |-> u, row |-> cs_rows[u],
                   kind |-> CASE cs_clock > EndAt -> "virtual"
                              [] cs_clock <= EndAt /\ u \notin CsEditors /\ ~HasCompleted(u, cs_clock) -> "live"
                              [] OTHER -> "spectate",
                   part |-> NoPart, count |-> 0])
    /\ UNCHANGED <<cs_parts, cs_rows, cs_count, cs_banned, cs_clock, cs_late, cs_pardoned, cs_miscounted>>

\* A live participation that is over turns into spectating.
FindPart(r) ==
    LET q == cs_requests[r]
        wanted == CASE q.kind = "virtual" -> NextVirtual(q.user)
                    [] q.kind = "spectate" -> SPECTATE
                    [] q.kind = "live" -> IF HasCompleted(q.user, cs_clock) THEN SPECTATE ELSE LIVE
        exists == <<q.user, wanted>> \in DOMAIN cs_parts IN
    /\ q.at = "find"
    /\ CsStep(r, [q EXCEPT !.part = wanted, !.at = IF exists THEN "profile" ELSE "create"])
    /\ UNCHANGED <<cs_parts, cs_rows, cs_count, cs_banned, cs_clock, cs_late, cs_pardoned, cs_miscounted>>

\* When another request made the same row: virtual ones try again, others fail.
CreatePart(r) ==
    LET q == cs_requests[r]
        key == <<q.user, q.part>> IN
    /\ q.at = "create"
    /\ IF key \notin DOMAIN cs_parts
       THEN /\ cs_parts' = [p \in DOMAIN cs_parts \cup {key} |->
                                IF p = key THEN [start |-> cs_clock, disq |-> FALSE] ELSE cs_parts[p]]
            /\ CsStep(r, [q EXCEPT !.at = "profile"])
       ELSE /\ CsStep(r, IF q.kind = "virtual" THEN [q EXCEPT !.at = "find"] ELSE CsIdle)
            /\ UNCHANGED cs_parts
    /\ UNCHANGED <<cs_rows, cs_count, cs_banned, cs_clock, cs_late, cs_pardoned, cs_miscounted>>

\* The user is banned, or is being banned.
Barred(u) ==
    \/ u \in cs_banned
    \/ \E r \in CsRequests : /\ cs_requests[r].at \in {"kick", "ban"}
                             /\ cs_requests[r].disq /\ cs_requests[r].user = u

\* profile.save() writes the columns as they were loaded.  A request that looked before the ban
\* lets its user in all the same.
SaveProfile(r, row, next) ==
    LET q == cs_requests[r] IN
    /\ cs_rows' = [cs_rows EXCEPT ![q.user] = row]
    /\ cs_late' = IF cs_rows[q.user] # q.row \/ (q.at = "profile" /\ Barred(q.user))
                  THEN cs_late \cup {q.user} ELSE cs_late
    /\ CsStep(r, next)
    /\ UNCHANGED <<cs_parts, cs_count, cs_banned, cs_clock, cs_pardoned, cs_miscounted>>

EnterPart(r) ==
    LET q == cs_requests[r] IN
    q.at = "profile" /\ SaveProfile(r, [q.row EXCEPT !.course = q.part], [q EXCEPT !.at = "count"])

LiveUsers == Cardinality({p \in DOMAIN cs_parts : p[2] = LIVE})

\* update_user_count saves every column of the course.
CountUsers(r) ==
    LET q == cs_requests[r] IN
    /\ q.at = "count"
    /\ CsStep(r, [q EXCEPT !.at = "course", !.count = LiveUsers])
    /\ UNCHANGED <<cs_parts, cs_rows, cs_count, cs_banned, cs_clock, cs_late, cs_pardoned, cs_miscounted>>

SaveCourse(r) ==
    LET q == cs_requests[r] IN
    /\ q.at = "course"
    /\ cs_count' = q.count
    /\ cs_miscounted' = (q.count # LiveUsers)
    /\ CsStep(r, CsIdle)
    /\ UNCHANGED <<cs_parts, cs_rows, cs_banned, cs_clock, cs_late, cs_pardoned>>

-----------------------------------------------------------------------------
(* Leaving, and contests meanwhile.                                        *)

\* CourseLeave, and joining, leaving or having finished a contest: a column of the profile is
\* changed after the profile was loaded.
ProfileStart(r, u, what) ==
    /\ what = "leave" => cs_rows[u].course # NoPart
    /\ CsStart(r, [at |-> "save", user |-> u, row |-> cs_rows[u], what |-> what])
    /\ UNCHANGED <<cs_parts, cs_rows, cs_count, cs_banned, cs_clock, cs_late, cs_pardoned, cs_miscounted>>

ProfileSave(r) ==
    LET q == cs_requests[r] IN
    /\ q.at = "save"
    /\ SaveProfile(r, CASE q.what = "leave" -> [q.row EXCEPT !.course = NoPart]
                        [] q.what = "contest" -> [q.row EXCEPT !.contest = TRUE]
                        [] q.what = "nocontest" -> [q.row EXCEPT !.contest = FALSE], CsIdle)

-----------------------------------------------------------------------------
(* set_disqualified, toggled from the ranking.                             *)

DisqualifyStart(r, part) ==
    /\ CsStart(r, [at |-> "flag", part |-> part, user |-> part[1], disq |-> ~cs_parts[part].disq,
                   row |-> cs_rows[part[1]]])
    /\ UNCHANGED <<cs_parts, cs_rows, cs_count, cs_banned, cs_clock, cs_late, cs_pardoned, cs_miscounted>>

\* Mutant: the user stays in the course.
Lets(part, row) == FALSE

\* Whether the participation is the current one of its user.
Kicked(part, row) == row.course = part[2]

\* The participation is saved; then the profile is loaded.
Flag(r) ==
    LET q == cs_requests[r]
        row == cs_rows[q.user] IN
    /\ q.at = "flag"
    /\ cs_parts' = [cs_parts EXCEPT ![q.part].disq = q.disq]
    /\ CsStep(r, [q EXCEPT !.row = row, !.at = IF q.disq /\ Kicked(q.part, row) THEN "kick" ELSE "ban"])
    /\ UNCHANGED <<cs_rows, cs_count, cs_banned, cs_clock, cs_late, cs_pardoned, cs_miscounted>>

Kick(r) ==
    LET q == cs_requests[r] IN
    q.at = "kick" /\ SaveProfile(r, [q.row EXCEPT !.course = NoPart], [q EXCEPT !.at = "ban"])

Ban(r) ==
    LET q == cs_requests[r] IN
    /\ q.at = "ban"
    /\ cs_banned' = IF q.disq THEN cs_banned \cup {q.user} ELSE cs_banned \ {q.user}
    /\ cs_pardoned' = IF ~q.disq /\ \E p \in DOMAIN cs_parts : p[1] = q.user /\ cs_parts[p].disq
                      THEN cs_pardoned \cup {q.user} ELSE cs_pardoned
    /\ CsStep(r, CsIdle)
    /\ UNCHANGED <<cs_parts, cs_rows, cs_count, cs_clock, cs_late, cs_miscounted>>

\* CourseAdmin: banned users lose the course, and no other column of their profile is written.
AdminBan(u) ==
    /\ u \notin cs_banned
    /\ cs_banned' = cs_banned \cup {u}
    /\ cs_rows' = [cs_rows EXCEPT ![u].course = NoPart]
    /\ UNCHANGED <<cs_parts, cs_count, cs_clock, cs_requests, cs_started, cs_late, cs_pardoned, cs_miscounted>>

CsTick == /\ cs_clock < LastTime /\ cs_clock' = cs_clock + 1
          /\ UNCHANGED <<cs_parts, cs_rows, cs_count, cs_banned, cs_requests, cs_started,
                         cs_late, cs_pardoned, cs_miscounted>>

CsNext ==
    \/ \E r \in CsRequests :
          \/ \E u \in CsUsers : \/ JoinStart(r, u)
                                \/ \E what \in {"leave", "contest", "nocontest"} : ProfileStart(r, u, what)
          \/ \E part \in DOMAIN cs_parts : DisqualifyStart(r, part)
          \/ FindPart(r) \/ CreatePart(r) \/ EnterPart(r) \/ CountUsers(r) \/ SaveCourse(r)
          \/ ProfileSave(r) \/ Flag(r) \/ Kick(r) \/ Ban(r)
    \/ \E u \in CsUsers : AdminBan(u)
    \/ CsTick

CsSpec == CsInit /\ [][CsNext]_csvars

-----------------------------------------------------------------------------
(* Properties.                                                             *)

\* The virtual participations of a user are numbered without gaps, however many are started
\* at once; spectators are editors, testers, or users whose live participation is over.
VirtualsAreNumbered ==
    \A u \in CsUsers :
        /\ VirtualsOf(u) = 1 .. Cardinality(VirtualsOf(u))
        /\ <<u, SPECTATE>> \in DOMAIN cs_parts => u \in CsEditors \/ HasCompleted(u, cs_clock)

\* When no request is in progress, the current participation of a profile exists, and it is
\* not a disqualified one unless a request saved an old profile over the removal, the user
\* was joining just then and entered banned, or was reinstated for another participation.
DisqualifiedAreOut ==
    (\A r \in CsRequests : cs_requests[r] = CsIdle) =>
        \A u \in CsUsers : LET part == <<u, cs_rows[u].course>> IN
            cs_rows[u].course # NoPart =>
                part \in DOMAIN cs_parts /\ (cs_parts[part].disq => u \in cs_late \cup cs_pardoned)

\* The number of live users is right once the last request that joined is done.
UsersAreCounted ==
    (\A r \in CsRequests : cs_requests[r] = CsIdle) /\ ~cs_miscounted => cs_count = LiveUsers

CoursesHold == VirtualsAreNumbered /\ DisqualifiedAreOut /\ UsersAreCounted
=============================================================================
