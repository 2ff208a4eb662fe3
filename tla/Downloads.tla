-------------------------------- MODULE Downloads --------------------------------
(***************************************************************************)
(* A user's data (judge/views/user.py, judge/tasks/user.py): a request     *)
(* notes the time and starts a task that writes an archive under one name; *)
(* another is refused while that task is known to be under way or, with an *)
(* archive, before the limit of time has passed; the archive is sent as it *)
(* is found.                                                               *)
(***************************************************************************)
EXTENDS Integers, FiniteSets

CONSTANTS
    DdRequests,     \* Requests that are under way at once.
    DdTasks,        \* Tasks.
    RateGap,        \* DMOJ_USER_DATA_DOWNLOAD_RATELIMIT.
    LastDdTime      \* Bound: the last moment.

VARIABLES
    dd_now,
    dd_last,        \* data_last_downloaded, or NeverAsked.
    dd_key,         \* The task in the cache, or NoTask.
    dd_tasks,       \* Per task: "none", "PENDING", "PROGRESS", "SUCCESS" or "FAILURE".
    dd_file,        \* The archive: at ("absent", "partial" or "whole"), and the task that opened it.
    dd_requests,    \* Per request: at, the data_last_downloaded it loaded, and its task.
    dd_starts,      \* History: when the tasks were asked for that found an archive.
    dd_crossed,     \* History: requests crossed, or the cache forgot a task that was under way.
    dd_sent         \* History: what was sent though the limit held and no task was under way.

ddvars == <<dd_now, dd_last, dd_key, dd_tasks, dd_file, dd_requests, dd_starts, dd_crossed, dd_sent>>

NeverAsked == -1
NoTask == "no task"
NoAsking == [at |-> "none"]

\* What the constants are.
DownloadsAssumption == RateGap \in Nat /\ LastDdTime \in Nat /\ NoTask \notin DdTasks

DdInit ==
    /\ dd_now = 0 /\ dd_last = NeverAsked /\ dd_key = NoTask
    /\ dd_tasks = [t \in DdTasks |-> "none"]
    /\ dd_file = [at |-> "absent", by |-> NoTask]
    /\ dd_requests = [r \in DdRequests |-> NoAsking]
    /\ dd_starts = <<NeverAsked, NeverAsked>> /\ dd_crossed = FALSE /\ dd_sent = {}

UnderWay == {t \in DdTasks : dd_tasks[t] \in {"PENDING", "PROGRESS"}}
Asking(r, state) == dd_requests' = [dd_requests EXCEPT ![r] = state]

DdTick ==
    /\ dd_now < LastDdTime
    /\ dd_now' = dd_now + 1
    /\ UNCHANGED <<dd_last, dd_key, dd_tasks, dd_file, dd_requests, dd_starts, dd_crossed, dd_sent>>

\* The cache forgets the task after its default time.
KeyExpires ==
    /\ dd_key # NoTask
    /\ dd_key' = NoTask
    /\ dd_crossed' = (dd_crossed \/ dd_key \in UnderWay)
    /\ UNCHANGED <<dd_now, dd_last, dd_tasks, dd_file, dd_requests, dd_starts, dd_sent>>

-----------------------------------------------------------------------------
(* UserPrepareData.                                                        *)

LoadAsker(r) ==
    /\ dd_requests[r] = NoAsking
    /\ Asking(r, [at |-> "loaded", last |-> dd_last])
    /\ UNCHANGED <<dd_now, dd_last, dd_key, dd_tasks, dd_file, dd_starts, dd_crossed, dd_sent>>

CanPrepareData(last) == last = NeverAsked \/ last + RateGap < dd_now \/ dd_file.at = "absent"

\* Mutant: nobody looks for a task.
NeverInProgress == FALSE

\* in_progress_url.
InProgress == dd_key # NoTask /\ dd_tasks[dd_key] \in {"PENDING", "PROGRESS"}

\* post, and form_valid, which saves the profile.
CheckAsker(r) ==
    /\ dd_requests[r].at = "loaded"
    /\ IF CanPrepareData(dd_requests[r].last) /\ ~InProgress
       THEN /\ Asking(r, [at |-> "saved"])
            /\ dd_last' = dd_now
            /\ dd_crossed' = (dd_crossed \/ dd_last # dd_requests[r].last
                              \/ \E o \in DdRequests \ {r} : dd_requests[o].at \in {"saved", "sent"})
            /\ dd_starts' = IF dd_file.at = "absent" THEN dd_starts ELSE <<dd_last, dd_now>>
       ELSE Asking(r, NoAsking) /\ UNCHANGED <<dd_last, dd_crossed, dd_starts>>
    /\ UNCHANGED <<dd_now, dd_key, dd_tasks, dd_file, dd_sent>>

\* prepare_user_data.delay.
Delay(r, t) ==
    /\ dd_requests[r].at = "saved" /\ dd_tasks[t] = "none"
    /\ dd_tasks' = [dd_tasks EXCEPT ![t] = "PENDING"]
    /\ Asking(r, [at |-> "sent", task |-> t])
    /\ UNCHANGED <<dd_now, dd_last, dd_key, dd_file, dd_starts, dd_crossed, dd_sent>>

SetKey(r) ==
    /\ dd_requests[r].at = "sent"
    /\ dd_key' = dd_requests[r].task
    /\ Asking(r, NoAsking)
    /\ UNCHANGED <<dd_now, dd_last, dd_tasks, dd_file, dd_starts, dd_crossed, dd_sent>>

-----------------------------------------------------------------------------
(* prepare_user_data.                                                      *)

\* The archive is opened to be written, which empties the one that was there.
OpenArchive(t) ==
    /\ dd_tasks[t] = "PENDING"
    /\ dd_tasks' = [dd_tasks EXCEPT ![t] = "PROGRESS"]
    /\ dd_file' = [at |-> "partial", by |-> t]
    /\ UNCHANGED <<dd_now, dd_last, dd_key, dd_requests, dd_starts, dd_crossed, dd_sent>>

CloseArchive(t) ==
    /\ dd_tasks[t] = "PROGRESS"
    /\ dd_tasks' = [dd_tasks EXCEPT ![t] = "SUCCESS"]
    /\ dd_file' = IF dd_file.by = t THEN [dd_file EXCEPT !.at = "whole"] ELSE dd_file
    /\ UNCHANGED <<dd_now, dd_last, dd_key, dd_requests, dd_starts, dd_crossed, dd_sent>>

\* Before the archive is opened, or after.
TaskFails(t) ==
    /\ t \in UnderWay
    /\ dd_tasks' = [dd_tasks EXCEPT ![t] = "FAILURE"]
    /\ UNCHANGED <<dd_now, dd_last, dd_key, dd_file, dd_requests, dd_starts, dd_crossed, dd_sent>>

\* UserDownloadData.
SendArchive ==
    /\ dd_file.at # "absent"
    /\ dd_sent' = IF UnderWay = {} THEN dd_sent \cup {<<dd_file.at, dd_tasks[dd_file.by]>>} ELSE dd_sent
    /\ UNCHANGED <<dd_now, dd_last, dd_key, dd_tasks, dd_file, dd_requests, dd_starts, dd_crossed>>

DdNext ==
    \/ DdTick \/ KeyExpires \/ SendArchive
    \/ \E r \in DdRequests : LoadAsker(r) \/ CheckAsker(r) \/ SetKey(r) \/ \E t \in DdTasks : Delay(r, t)
    \/ \E t \in DdTasks : OpenArchive(t) \/ CloseArchive(t) \/ TaskFails(t)

DdSpec == DdInit /\ [][DdNext]_ddvars

-----------------------------------------------------------------------------
(* Properties.                                                             *)

\* One task at a time writes the archive, unless requests crossed or the cache forgot the task.
OneWriter == ~dd_crossed => Cardinality(UnderWay) <= 1

\* An archive is replaced only once the limit of time has passed, unless requests crossed.
RateHolds == ~dd_crossed /\ dd_starts[1] # NeverAsked => dd_starts[2] - dd_starts[1] > RateGap

\* What is sent while no task is under way is whole, unless the task that wrote it failed: that
\* archive then stands in the way of another until the limit of time has passed.
SentIsWhole == \A sent \in dd_sent : sent \in {<<"whole", "SUCCESS">>, <<"partial", "FAILURE">>} \/ dd_crossed

DownloadsHold == OneWriter /\ RateHolds /\ SentIsWhole
=============================================================================
