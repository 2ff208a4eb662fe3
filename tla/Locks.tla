--------------------------------- MODULE Locks ---------------------------------
(***************************************************************************)
(* The lock of a contest and of the submissions made in it (judge/admin/   *)
(* contest.py, judge/models/submission.py): after it has passed they are   *)
(* not graded again.  Locks are copied to submissions; those who submit,   *)
(* those who have submissions graded again, those who save the contest and *)
(* the bridge at the end of a grading work on rows they loaded before.     *)
(***************************************************************************)
EXTENDS Integers, FiniteSets

CONSTANTS
    LkSubs,         \* Submissions.
    LkRequests,     \* Requests and tasks that are under way at once.
    LastClock,      \* Bound: the last moment.
    MaxLkRequests   \* Bound: requests.

\* What the constants are.
LocksAssumption == LastClock \in Nat

VARIABLES
    lk_clock,
    lk_contest,     \* locked_after of the contest, or NoLock.
    lk_subs,        \* Per submission: of ("none", "live", "virtual") and locked_after.
    lk_requests,    \* Per request: NoWork, or its kind and what it loaded.
    lk_count,
    lk_late,        \* History: submissions stored with a lock that had changed, or given their own.
    lk_reverted,    \* History: the contest was saved with a lock it no longer had.
    lk_wrong        \* History: submissions graded again though locked when they were read.

lkvars == <<lk_clock, lk_contest, lk_subs, lk_requests, lk_count, lk_late, lk_reverted, lk_wrong>>

NoLock == -1
NoWork == [kind |-> "none"]

\* Submission.is_locked.
Locked(lock, now) == lock # NoLock /\ lock < now

LkInit ==
    /\ lk_clock = 0 /\ lk_contest = NoLock
    /\ lk_subs = [s \in LkSubs |-> [of |-> "none", lock |-> NoLock]]
    /\ lk_requests = [r \in LkRequests |-> NoWork]
    /\ lk_count = 0
    /\ lk_late = {} /\ lk_reverted = FALSE /\ lk_wrong = {}

Stored == {s \in LkSubs : lk_subs[s].of # "none"}

LkTick ==
    /\ lk_clock < LastClock
    /\ lk_clock' = lk_clock + 1
    /\ UNCHANGED <<lk_contest, lk_subs, lk_requests, lk_count, lk_late, lk_reverted, lk_wrong>>

StartWork(r, work) ==
    /\ lk_requests[r] = NoWork
    /\ lk_count < MaxLkRequests /\ lk_count' = lk_count + 1
    /\ lk_requests' = [lk_requests EXCEPT ![r] = work]
    /\ UNCHANGED <<lk_clock, lk_contest, lk_subs, lk_late, lk_reverted, lk_wrong>>

Done(r) == lk_requests' = [lk_requests EXCEPT ![r] = NoWork]

-----------------------------------------------------------------------------
(* The contest.                                                            *)

\* Mutant: virtual participations too.
TakesAnyLock(s) == lk_subs[s].of # "none"

\* contest__participation__virtual=0.
TakesLock(s) == lk_subs[s].of = "live"

\* set_locked_after, a transaction; from set_locked, set_unlocked and the form.
SetLockedAfter(lock) ==
    /\ lk_count < MaxLkRequests /\ lk_count' = lk_count + 1
    /\ lk_contest' = lock
    /\ lk_subs' = [s \in LkSubs |-> IF TakesLock(s) THEN [lk_subs[s] EXCEPT !.lock = lock] ELSE lk_subs[s]]
    /\ lk_late' = {s \in lk_late : ~TakesLock(s)} /\ lk_reverted' = FALSE
    /\ UNCHANGED <<lk_clock, lk_requests, lk_wrong>>

SetLocked == SetLockedAfter(lk_clock)
SetUnlocked == SetLockedAfter(NoLock)
SaveContestForm == \E lock \in 0 .. LastClock : SetLockedAfter(lock)

\* update_user_count, and editors who may not lock: the contest is saved as it was loaded.
LoadContest(r) == StartWork(r, [kind |-> "save", lock |-> lk_contest])

SaveLoaded(r) ==
    /\ lk_requests[r].kind = "save" /\ Done(r)
    /\ lk_contest' = lk_requests[r].lock
    /\ lk_reverted' = (lk_reverted \/ lk_requests[r].lock # lk_contest)
    /\ UNCHANGED <<lk_clock, lk_subs, lk_count, lk_late, lk_wrong>>

-----------------------------------------------------------------------------
(* Submissions.                                                            *)

\* SubmissionAdmin: one who may lock submissions gives one a lock of its own.
SaveSubmissionLock(s, lock) ==
    /\ s \in Stored /\ lk_count < MaxLkRequests /\ lk_count' = lk_count + 1
    /\ lk_subs' = [lk_subs EXCEPT ![s].lock = lock]
    /\ lk_late' = lk_late \cup {s}
    /\ UNCHANGED <<lk_clock, lk_contest, lk_requests, lk_reverted, lk_wrong>>

\* on_grading_end loads the whole row of a submission, and saves all of it with the result.
LoadGraded(r, s) ==
    s \in Stored /\ StartWork(r, [kind |-> "grade", sub |-> s, lock |-> lk_subs[s].lock])

SaveGraded(r) ==
    LET work == lk_requests[r] IN
    /\ work.kind = "grade" /\ Done(r)
    /\ lk_subs' = [lk_subs EXCEPT ![work.sub].lock = work.lock]
    /\ lk_late' = IF work.lock # lk_subs[work.sub].lock THEN lk_late \cup {work.sub} ELSE lk_late
    /\ UNCHANGED <<lk_clock, lk_contest, lk_count, lk_reverted, lk_wrong>>

\* ProblemSubmit: the contest was loaded with the participation.
StartSubmit(r, of) == StartWork(r, [kind |-> "submit", of |-> of, lock |-> lk_contest])

Submit(r, s) ==
    LET work == lk_requests[r] IN
    /\ work.kind = "submit" /\ Done(r)
    /\ s \notin Stored
    /\ lk_subs' = [lk_subs EXCEPT ![s] =
                     [of |-> work.of, lock |-> IF work.of = "live" THEN work.lock ELSE NoLock]]
    /\ lk_late' = IF work.lock # lk_contest THEN lk_late \cup {s} ELSE lk_late
    /\ UNCHANGED <<lk_clock, lk_contest, lk_count, lk_reverted, lk_wrong>>

Rows(subs) == [s \in subs |-> [lock |-> lk_subs[s].lock, was |-> Locked(lk_subs[s].lock, lk_clock)]]

\* One submission; a selection of the administrator, which is not filtered.
LoadRejudge(r) == \E subs \in SUBSET Stored \ {{}} : StartWork(r, [kind |-> "rejudge", rows |-> Rows(subs)])

\* apply_submission_filter.
LoadBatch(r) ==
    LET free == {s \in Stored : ~Locked(lk_subs[s].lock, lk_clock)} IN
    free # {} /\ StartWork(r, [kind |-> "rejudge", rows |-> Rows(free)])

\* Mutant: nobody asks for the lock.
MayRejudgeAny(row) == TRUE

\* Submission.judge, of a row read before, at the time it is its turn.
MayRejudge(row) == ~Locked(row.lock, lk_clock)

RejudgeNext(r, s) ==
    LET work == lk_requests[r] IN
    /\ work.kind = "rejudge" /\ s \in DOMAIN work.rows
    /\ lk_requests' = [lk_requests EXCEPT ![r] =
           IF DOMAIN work.rows = {s} THEN NoWork
           ELSE [work EXCEPT !.rows = [o \in DOMAIN work.rows \ {s} |-> work.rows[o]]]]
    /\ lk_wrong' = IF MayRejudge(work.rows[s]) /\ work.rows[s].was THEN lk_wrong \cup {s} ELSE lk_wrong
    /\ UNCHANGED <<lk_clock, lk_contest, lk_subs, lk_count, lk_late, lk_reverted>>

LkNext ==
    \/ LkTick \/ SetLocked \/ SetUnlocked \/ SaveContestForm
    \/ \E r \in LkRequests : \/ LoadContest(r) \/ SaveLoaded(r) \/ LoadRejudge(r) \/ LoadBatch(r)
                             \/ \E of \in {"live", "virtual"} : StartSubmit(r, of)
                             \/ SaveGraded(r)
                             \/ \E s \in LkSubs : Submit(r, s) \/ RejudgeNext(r, s) \/ LoadGraded(r, s)
    \/ \E s \in LkSubs, lock \in {NoLock} \cup 0 .. LastClock : SaveSubmissionLock(s, lock)

LkSpec == LkInit /\ [][LkNext]_lkvars

-----------------------------------------------------------------------------
(* Properties.                                                             *)

\* A submission of a live participation has the lock of its contest, and one of a virtual
\* participation none, unless it was given one of its own, was stored by a request that had
\* loaded the contest before the lock changed, was graded by a handler that had loaded its
\* row before that, or such a request overwrote the contest.
LockReachesSubmissions ==
    \A s \in Stored \ lk_late :
      lk_subs[s].lock = (IF lk_subs[s].of = "live" THEN lk_contest ELSE NoLock)
      \/ (lk_reverted /\ lk_subs[s].of = "live")

\* However long a batch takes and whatever happens to locks meanwhile, a submission
\* that was locked when its row was read is not graded again.
LockedStayGraded == lk_wrong = {}

LocksHold == LockReachesSubmissions /\ LockedStayGraded

-----------------------------------------------------------------------------
(***************************************************************************)
(* How many submissions a user may make (ProblemSubmit of judge/views/     *)
(* problem.py): not too many in progress, and in a contest not too many to *)
(* a problem.  Two queries count, then the submission is stored, and       *)
(* nothing is locked: requests of the user overlap, submissions are graded *)
(* and graded again.  A user that may spam is not modelled.                *)
(***************************************************************************)

CONSTANTS
    LiSubs,         \* Bound: submissions of the user to the problem.
    LiRequests,     \* Requests of the user that are under way at once.
    SubmissionLimit,    \* DMOJ_SUBMISSION_LIMIT.
    MaxInContest    \* ContestProblem.max_submissions.

\* What the constants are.
LimitsAssumption == IsFiniteSet(LiSubs) /\ {SubmissionLimit, MaxInContest} \subseteq Nat

VARIABLES
    li_subs,        \* Per submission: in ("none", "archive", "contest"), status, rejudged.
    li_requests,    \* Per request: what it is about to do, and whether a submission was stored since it counted.
    li_many,        \* History: submissions that the count in progress of a later one missed.
    li_late,        \* History: submissions stored after another that the count in the contest missed.
    li_revived      \* History: internal errors in the contest that were judged again, or went on being judged.

livars == <<li_subs, li_requests, li_many, li_late, li_revived>>

NoPost == [pc |-> "none"]

LiInit ==
    /\ li_subs = [s \in LiSubs |-> [in |-> "none", status |-> "none", rejudged |-> FALSE]]
    /\ li_requests = [r \in LiRequests |-> NoPost]
    /\ li_many = {} /\ li_late = {} /\ li_revived = {}

Made == {s \in LiSubs : li_subs[s].in # "none"}

\* Mutant: those that were graded again count, the others do not.
PendingFirst == {s \in Made : li_subs[s].status = "QU" /\ li_subs[s].rejudged}

\* Submissions in progress that were never graded again: QU stands for QU, P and G.
PendingOnes == {s \in Made : li_subs[s].status = "QU" /\ ~li_subs[s].rejudged}

\* Mutant: those in progress do not count yet.
InContestGraded == {s \in Made : li_subs[s].in = "contest" /\ li_subs[s].status = "D"}

\* get_contest_submission_count: internal errors do not count.
InContest == {s \in Made : li_subs[s].in = "contest" /\ li_subs[s].status # "IE"}

\* form_valid, the first count.
CountPending(r, in) ==
    /\ li_requests[r] = NoPost
    /\ Cardinality(PendingOnes) < SubmissionLimit
    /\ li_requests' = [li_requests EXCEPT ![r] = [pc |-> "count", in |-> in, many |-> FALSE, late |-> FALSE]]
    /\ UNCHANGED <<li_subs, li_many, li_late, li_revived>>

\* remaining_submission_count, which may refuse.
CountInContest(r) ==
    LET refused == li_requests[r].in = "contest" /\ Cardinality(InContest) >= MaxInContest IN
    /\ li_requests[r].pc = "count"
    /\ li_requests' = IF refused THEN [li_requests EXCEPT ![r] = NoPost]
                      ELSE [li_requests EXCEPT ![r].pc = "store"]
    /\ UNCHANGED <<li_subs, li_many, li_late, li_revived>>

\* The transaction, and judge().  The other requests have counted without it.
Store(r, s) ==
    LET post == li_requests[r] IN
    /\ post.pc = "store" /\ s \notin Made
    /\ li_subs' = [li_subs EXCEPT ![s] = [in |-> post.in, status |-> "QU", rejudged |-> FALSE]]
    /\ li_requests' = [q \in LiRequests |->
          IF q = r \/ li_requests[q] = NoPost THEN NoPost
          ELSE [li_requests[q] EXCEPT !.many = TRUE, !.late = @ \/ li_requests[q].pc = "store"]]
    /\ li_many' = IF post.many THEN li_many \cup {s} ELSE li_many
    /\ li_late' = IF post.late THEN li_late \cup {s} ELSE li_late
    /\ UNCHANGED li_revived

\* The judging ends: D stands for every status that counts.
Settle(s) ==
    /\ s \in Made /\ li_subs[s].status = "QU"
    /\ \E status \in {"D", "IE"} : li_subs' = [li_subs EXCEPT ![s].status = status]
    /\ UNCHANGED <<li_requests, li_many, li_late, li_revived>>

\* A judging goes on below a mark: a reply that was lost, an abort or another judging's end wrote it.
GoesOn(s) ==
    /\ s \in Made /\ li_subs[s].status # "QU"
    /\ \E status \in {"QU", "D", "IE"} : li_subs' = [li_subs EXCEPT ![s].status = status]
    /\ li_many' = li_many \cup {s}
    /\ li_revived' = IF s \in InContest \/ li_subs[s].in # "contest" THEN li_revived ELSE li_revived \cup {s}
    /\ UNCHANGED <<li_requests, li_late>>

\* judge_submission, when somebody has s graded again.
JudgeAgain(s) ==
    /\ s \in Made
    /\ li_subs' = [li_subs EXCEPT ![s] = [in |-> @.in, status |-> "QU", rejudged |-> TRUE]]
    /\ li_revived' = IF li_subs[s].status = "IE" /\ li_subs[s].in = "contest"
                     THEN li_revived \cup {s} ELSE li_revived
    /\ UNCHANGED <<li_requests, li_many, li_late>>

LiNext ==
    \/ \E r \in LiRequests :
          \/ \E in \in {"archive", "contest"} : CountPending(r, in)
          \/ CountInContest(r)
          \/ \E s \in LiSubs : Store(r, s)
    \/ \E s \in LiSubs : Settle(s) \/ GoesOn(s) \/ JudgeAgain(s)

LiSpec == LiInit /\ [][LiNext]_livars

-----------------------------------------------------------------------------
(* Properties.                                                             *)

\* A limit is exceeded by no more than the requests that counted before another one stored,
\* by submissions whose judging went on after they had been marked as over, and in a contest
\* by the internal errors that were judged again, of which a comment in the code says that
\* they count.
LimitsHold ==
    /\ Cardinality(PendingOnes \ li_many) <= SubmissionLimit
    /\ Cardinality(InContest \ (li_late \cup li_revived)) <= MaxInContest

-----------------------------------------------------------------------------
(***************************************************************************)
(* MOSS results of a contest (judge/tasks/contest.py,                      *)
(* judge/views/contests.py judge/utils/celery.py, judge/views/tasks.py): a *)
(* task deletes the results, asks for one per problem and language,        *)
(* telling how far it is, and stores them all at the end; a page follows   *)
(* the task and then shows the results.                                    *)
(***************************************************************************)

CONSTANTS
    MossProblems,   \* Problems the contest may have.
    MossLangs,      \* LANG_MAPPING.
    MossTasks,      \* Tasks.
    MaxMossEdits    \* Bound: changes of the contest's problems, and deletions.

\* What the constants are.
MossAssumption == IsFiniteSet(MossProblems) /\ IsFiniteSet(MossLangs)

VARIABLES
    ms_problems,    \* The problems of the contest.
    ms_rows,        \* Results stored: problem, language and the task that made it.
    ms_tasks,       \* Per task: state, length, how many are done, problems still to do, results made.
    ms_pages,       \* Per task: what the page that follows it was told last.
    ms_edits,
    ms_changed,     \* History: tasks during which the problems changed.
    ms_crossed,     \* History: tasks that ran while another did.
    ms_refused      \* History: tasks whose results the unique key refused.

msvars == <<ms_problems, ms_rows, ms_tasks, ms_pages, ms_edits, ms_changed, ms_crossed, ms_refused>>
mshistory == <<ms_edits, ms_changed, ms_crossed, ms_refused>>

MossPairs == MossProblems \X MossLangs
NoRun == [state |-> "none", total |-> 0, done |-> 0, left |-> {}, made |-> {}]

MsInit ==
    /\ ms_problems \in SUBSET MossProblems \ {{}}
    /\ ms_rows = {}
    /\ ms_tasks = [t \in MossTasks |-> NoRun]
    /\ ms_pages = [t \in MossTasks |-> "none"]
    /\ ms_edits = 0 /\ ms_changed = {} /\ ms_crossed = {} /\ ms_refused = {}

SetRun(t, run) == ms_tasks' = [ms_tasks EXCEPT ![t] = run]
Running == {t \in MossTasks : ms_tasks[t].state \in {"deleted", "PROGRESS"}}

\* ContestMossView.post.
AskMoss(t) ==
    /\ ms_tasks[t].state = "none"
    /\ SetRun(t, [NoRun EXCEPT !.state = "PENDING"])
    /\ ms_pages' = [ms_pages EXCEPT ![t] = "WORKING"]
    /\ UNCHANGED <<ms_problems, ms_rows, mshistory>>

DeleteMoss ==
    /\ ms_rows # {} /\ ms_edits < MaxMossEdits /\ ms_edits' = ms_edits + 1
    /\ ms_rows' = {}
    /\ UNCHANGED <<ms_problems, ms_tasks, ms_pages, ms_changed, ms_crossed, ms_refused>>

EditProblems(problems) ==
    /\ ms_edits < MaxMossEdits /\ ms_edits' = ms_edits + 1
    /\ problems # ms_problems /\ ms_problems' = problems
    /\ ms_changed' = ms_changed \cup Running
    /\ UNCHANGED <<ms_rows, ms_tasks, ms_pages, ms_crossed, ms_refused>>

-----------------------------------------------------------------------------
(* run_moss.                                                               *)

\* Mutant: the results there were are left.
DeletedNone == ms_rows

\* What is left of the results.
Deleted == {}

\* The old results go, and the problems are counted.
BeginMoss(t) ==
    /\ ms_tasks[t].state = "PENDING"
    /\ ms_rows' = Deleted
    /\ SetRun(t, [NoRun EXCEPT !.state = "deleted", !.total = Cardinality(ms_problems) * Cardinality(MossLangs)])
    /\ ms_crossed' = IF Running = {} THEN ms_crossed ELSE ms_crossed \cup Running \cup {t}
    /\ UNCHANGED <<ms_problems, ms_pages, ms_edits, ms_changed, ms_refused>>

\* The problems are read again to go through them.
ReadProblems(t) ==
    /\ ms_tasks[t].state = "deleted"
    /\ SetRun(t, [ms_tasks[t] EXCEPT !.state = "PROGRESS", !.left = ms_problems \X MossLangs])
    /\ UNCHANGED <<ms_problems, ms_rows, ms_pages, mshistory>>

\* One problem and language, with submissions or without, and p.did(1).
MossOne(t, pair) ==
    LET run == ms_tasks[t] IN
    /\ run.state = "PROGRESS" /\ pair \in run.left
    /\ SetRun(t, [run EXCEPT !.done = @ + 1, !.left = @ \ {pair}, !.made = @ \cup {pair}])
    /\ UNCHANGED <<ms_problems, ms_rows, ms_pages, mshistory>>

\* bulk_create: all or none, one per contest, problem and language.
StoreMoss(t) ==
    LET run == ms_tasks[t]
        taken == {row.pair : row \in ms_rows} IN
    /\ run.state = "PROGRESS" /\ run.left = {}
    /\ IF run.made \cap taken = {}
       THEN /\ ms_rows' = ms_rows \cup {[pair |-> p, by |-> t] : p \in run.made}
            /\ SetRun(t, [run EXCEPT !.state = "SUCCESS", !.done = run.total])
            /\ UNCHANGED ms_refused
       ELSE /\ SetRun(t, [run EXCEPT !.state = "FAILURE"]) /\ UNCHANGED ms_rows
            /\ ms_refused' = ms_refused \cup {t}
    /\ UNCHANGED <<ms_problems, ms_pages, ms_edits, ms_changed, ms_crossed>>

\* No key, or the service cannot be asked.
MossFails(t) ==
    /\ ms_tasks[t].state \in {"PENDING", "deleted", "PROGRESS"}
    /\ SetRun(t, [ms_tasks[t] EXCEPT !.state = "FAILURE"])
    /\ UNCHANGED <<ms_problems, ms_rows, ms_pages, mshistory>>

\* task_status, which leads to the results once the task succeeded.
FollowTask(t) ==
    /\ ms_pages[t] \in {"WORKING", "PROGRESS"}
    /\ ms_pages' = [ms_pages EXCEPT ![t] =
           IF ms_tasks[t].state \in {"PENDING", "deleted", "PROGRESS"} /\ ms_tasks[t].done = 0
           THEN "WORKING" ELSE ms_tasks[t].state]
    /\ UNCHANGED <<ms_problems, ms_rows, ms_tasks, mshistory>>

MsNext ==
    \/ DeleteMoss
    \/ \E problems \in SUBSET MossProblems : EditProblems(problems)
    \/ \E t \in MossTasks : \/ AskMoss(t) \/ BeginMoss(t) \/ ReadProblems(t) \/ StoreMoss(t) \/ MossFails(t) \/ FollowTask(t)
                            \/ \E pair \in MossPairs : MossOne(t, pair)

MsSpec == MsInit /\ [][MsNext]_msvars

-----------------------------------------------------------------------------
(* Properties.                                                             *)

\* The results shown are those of one run, all of them; with results of two runs their problems
\* differ, and the contest was changed.
ResultsOfOneRun ==
    /\ \A t \in MossTasks : \A row \in ms_rows : row.by = t =>
         \A p \in ms_tasks[t].made : [pair |-> p, by |-> t] \in ms_rows
    /\ Cardinality({row.by : row \in ms_rows}) > 1 => ms_edits > 0
    /\ \A one, other \in ms_rows : one.pair = other.pair => one = other

\* A task is not further than its length, unless the problems changed while it ran; and one that
\* did not cross another does not fail for results that are there.
ProgressInBounds ==
    \A t \in MossTasks : ms_tasks[t].done > ms_tasks[t].total => t \in ms_changed

\* Results of a task that failed are never shown, and a page that was led to them was led by a
\* task that stored all of them.
LedToResults == \A t \in MossTasks : /\ ms_pages[t] = "SUCCESS" => ms_tasks[t].state = "SUCCESS"
                                     /\ (\E row \in ms_rows : row.by = t) => ms_tasks[t].state = "SUCCESS"

\* Tasks one after another replace each other's results: only a task that ran while another did
\* can find results there when it stores its own.
OnlyCrossedRefused == ms_refused \subseteq ms_crossed

MossHolds == ResultsOfOneRun /\ ProgressInBounds /\ LedToResults /\ OnlyCrossedRefused
=============================================================================
