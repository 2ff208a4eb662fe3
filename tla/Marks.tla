--------------------------------- MODULE Marks ---------------------------------
(***************************************************************************)
(* The marks of a list of problems, for one user in one contest: the sets  *)
(* of problems attempted, and in the contest also solved, that             *)
(* judge/utils/problems.py keeps for a day.  A judge that finishes deletes *)
(* them (judge/caching.py); submissions that fail to compile, rejudges and *)
(* edits of the contest delete nothing, and rescoring only the user's own. *)
(* (The set of problems the user solved anywhere is in Standing.)          *)
(***************************************************************************)
EXTENDS Integers, Sequences

CONSTANTS
    MkProblems,
    MkJudges,       \* Judges that finish at the same time.
    MkWorths,       \* What the problems of the contest may be worth, and at first.
    MkFirstWorth,
    MaxMkSubs,      \* Bound: submissions.
    MaxMkChanges    \* Bound: rejudges, edits, rescorings and deletions.

VARIABLES
    mk_subs,        \* Submission: prob, result ("none", "AC", "WA", "CE"); ContestSubmission: in, points.
    mk_worth,       \* ContestProblem.points.
    mk_keys,        \* What the cache holds under each key: a set of problems, or NotKept.
    mk_fill,        \* What a page has read from the rows and not stored yet: key, problems (or NotKept).
    mk_judges,      \* Per judge: the submission it finishes, what is done of it, had it a row, is it accepted.
    mk_deletes,     \* The submissions deleted in a transaction that has not ended.
    mk_changes,
    mk_excused,     \* History: <<key, problem>> changed by a step after which nothing deletes the key.
    mk_deleted      \* History: has a submission been deleted?

mkvars == <<mk_subs, mk_worth, mk_keys, mk_fill, mk_judges, mk_deletes, mk_changes, mk_excused, mk_deleted>>

NotKept == {"not kept"}
NoFill == [key |-> "none", problems |-> NotKept]
MkFree == [at |-> "free", sub |-> 0, row |-> FALSE, ok |-> FALSE]

UserKeys == {"user_attempted"}
ContestKeys == {"contest_complete", "contest_attempted"}
MkKeys == UserKeys \cup ContestKeys

MkInit ==
    /\ mk_subs = <<>>
    /\ mk_worth = [p \in MkProblems |-> MkFirstWorth]
    /\ mk_keys = [k \in MkKeys |-> NotKept] /\ mk_fill = NoFill
    /\ mk_judges = [j \in MkJudges |-> MkFree]
    /\ mk_deletes = {} /\ mk_changes = 0
    /\ mk_excused = {} /\ mk_deleted = FALSE

MarksAssumption == MkFirstWorth \in MkWorths

-----------------------------------------------------------------------------
(* What the keys stand for.                                                *)

MkRows(subs) == {i \in DOMAIN subs : subs[i].result # "gone"}

\* user_attempted_ids, contest_attempted_ids; contest_completed_ids counts what the problem is worth now.
Counts(key, s, worth) ==
    CASE key = "user_attempted"    -> TRUE
      [] key = "contest_attempted" -> s.in
      [] key = "contest_complete"  -> s.in /\ s.result = "AC" /\ s.points = worth[s.prob]

Marked(key, subs, worth) == {subs[i].prob : i \in {n \in MkRows(subs) : Counts(key, subs[n], worth)}}

Differ(A, B) == (A \ B) \cup (B \ A)

\* The marks a step changes.
Touched ==
    UNION {{<<k, p>> : p \in Differ(Marked(k, mk_subs, mk_worth), Marked(k, mk_subs', mk_worth'))} : k \in MkKeys}

Without(keys) == [k \in MkKeys |-> IF k \in keys THEN NotKept ELSE mk_keys[k]]
ExcusedBut(keys) == {e \in mk_excused : e[1] \notin keys}

-----------------------------------------------------------------------------
(* Submissions and judges.                                                 *)

\* ProblemSubmit, in or outside the contest: nothing is deleted until it is graded.
MkSubmit(p, in) ==
    /\ Len(mk_subs) < MaxMkSubs
    /\ mk_subs' = Append(mk_subs, [prob |-> p, result |-> "none", in |-> in, points |-> 0])
    /\ UNCHANGED mk_worth
    /\ mk_excused' = mk_excused \cup Touched
    /\ UNCHANGED <<mk_keys, mk_fill, mk_judges, mk_deletes, mk_changes, mk_deleted>>

\* on_compile_error, on_internal_error, on_submission_terminated.
MkFail(i) ==
    /\ mk_subs[i].result = "none"
    /\ mk_subs' = [mk_subs EXCEPT ![i].result = "CE"]
    /\ UNCHANGED <<mk_worth, mk_keys, mk_fill, mk_judges, mk_deletes, mk_changes, mk_excused, mk_deleted>>

\* on_grading_end saves the result, which its instance remembers (another judge may not have ended
\* to finish an earlier judging of the submission) ...
StoreResult(j, i) ==
    /\ mk_judges[j] = MkFree /\ mk_subs[i].result = "none"
    /\ \E result \in {"AC", "WA"} :
          /\ mk_subs' = [mk_subs EXCEPT ![i].result = result]
          /\ mk_judges' = [mk_judges EXCEPT ![j] = [at |-> "stored", sub |-> i, row |-> FALSE, ok |-> (result = "AC")]]
    /\ UNCHANGED <<mk_worth, mk_keys, mk_fill, mk_deletes, mk_changes, mk_excused, mk_deleted>>

\* What update_contest saves: a wrong answer earns nothing.
Earned(s, accepted) == IF accepted THEN mk_worth[s.prob] ELSE 0

\* ... then the points in the contest, by the row of the contest if there is one still, which the
\* instance remembers ...
UpdateContest(j) ==
    LET i == mk_judges[j].sub
        found == mk_subs[i].in /\ mk_subs[i].result # "gone" IN
    /\ mk_judges[j].at = "stored"
    /\ mk_subs' = IF found THEN [mk_subs EXCEPT ![i].points = Earned(mk_subs[i], mk_judges[j].ok)] ELSE mk_subs
    /\ mk_judges' = [mk_judges EXCEPT ![j].at = "scored", ![j].row = found]
    /\ UNCHANGED <<mk_worth, mk_keys, mk_fill, mk_deletes, mk_changes, mk_excused, mk_deleted>>

\* Mutant: the keys of the contest are forgotten.
UserKeysAlone(row) == UserKeys

\* finished_submission: the keys of the contest only with hasattr(sub, 'contest').
KeysDeleted(row) == UserKeys \cup (IF row THEN ContestKeys ELSE {})

\* ... and deletes the keys.
FinishedSubmission(j) ==
    LET keys == KeysDeleted(mk_judges[j].row) IN
    /\ mk_judges[j].at = "scored"
    /\ mk_keys' = Without(keys) /\ mk_excused' = ExcusedBut(keys)
    /\ mk_judges' = [mk_judges EXCEPT ![j] = MkFree]
    /\ UNCHANGED <<mk_subs, mk_worth, mk_fill, mk_deletes, mk_changes, mk_deleted>>

-----------------------------------------------------------------------------
(* What administrators do.                                                 *)

MkChange == mk_changes < MaxMkChanges /\ mk_changes' = mk_changes + 1

\* judge_submission for a rejudge: the result is taken away, the points in the contest stay.
MkRejudge(i) ==
    /\ mk_subs[i].result \in {"AC", "WA", "CE"} /\ MkChange
    /\ mk_subs' = [mk_subs EXCEPT ![i].result = "none"]
    /\ UNCHANGED mk_worth
    /\ mk_excused' = mk_excused \cup Touched
    /\ UNCHANGED <<mk_keys, mk_fill, mk_judges, mk_deletes, mk_deleted>>

\* The form of the contest; the task it starts computes scores of participations again, not of
\* submissions.
EditWorth(p, worth) ==
    /\ worth # mk_worth[p] /\ MkChange
    /\ mk_worth' = [mk_worth EXCEPT ![p] = worth]
    /\ UNCHANGED mk_subs
    /\ mk_excused' = mk_excused \cup Touched
    /\ UNCHANGED <<mk_keys, mk_fill, mk_judges, mk_deletes, mk_deleted>>

\* recalculate_score, and the task rescore_problem: the keys of the user are deleted, not those
\* of the contest.
Recalculate(i) ==
    /\ mk_subs[i].result \in {"AC", "WA"} /\ MkChange
    /\ mk_subs' = IF mk_subs[i].in
                  THEN [mk_subs EXCEPT ![i].points = Earned(mk_subs[i], mk_subs[i].result = "AC")] ELSE mk_subs
    /\ UNCHANGED mk_worth
    /\ mk_keys' = Without(UserKeys)
    /\ mk_excused' = ExcusedBut(UserKeys) \cup Touched
    /\ UNCHANGED <<mk_fill, mk_judges, mk_deletes, mk_deleted>>

\* submission_delete is sent inside the transaction, when the row of the contest is gone for it.
DeleteSubmission(i) ==
    /\ mk_subs[i].result # "gone" /\ i \notin mk_deletes /\ mk_deletes = {} /\ MkChange
    /\ mk_deletes' = {i}
    /\ mk_keys' = Without(KeysDeleted(FALSE)) /\ mk_excused' = ExcusedBut(KeysDeleted(FALSE))
    /\ UNCHANGED <<mk_subs, mk_worth, mk_fill, mk_judges, mk_deleted>>

\* A judge that finishes a submission which is deleted finds no row of the contest any more, and
\* leaves the keys of the contest.
LeftBy(i) ==
    IF \E j \in MkJudges : mk_judges[j].at # "free" /\ mk_judges[j].sub = i
    THEN {<<k, mk_subs[i].prob>> : k \in ContestKeys} ELSE {}

EndDelete(i, committed) ==
    /\ i \in mk_deletes /\ mk_deletes' = {}
    /\ mk_subs' = IF committed THEN [mk_subs EXCEPT ![i].result = "gone"] ELSE mk_subs
    /\ UNCHANGED mk_worth
    /\ mk_excused' = mk_excused \cup Touched \cup (IF committed THEN LeftBy(i) ELSE {})
    /\ mk_deleted' = (mk_deleted \/ committed)
    /\ UNCHANGED <<mk_keys, mk_fill, mk_judges, mk_changes>>

-----------------------------------------------------------------------------
(* A page that shows the marks.                                            *)

ReadMarks(k) ==
    /\ mk_keys[k] = NotKept /\ mk_fill = NoFill
    /\ mk_fill' = [key |-> k, problems |-> Marked(k, mk_subs, mk_worth)]
    /\ UNCHANGED <<mk_subs, mk_worth, mk_keys, mk_judges, mk_deletes, mk_changes, mk_excused, mk_deleted>>

KeepMarks(k) ==
    /\ mk_fill.key = k /\ mk_fill' = NoFill
    /\ mk_keys' = [mk_keys EXCEPT ![k] = mk_fill.problems]
    /\ mk_excused' = ExcusedBut({k}) \cup {<<k, p>> : p \in Differ(mk_fill.problems, Marked(k, mk_subs, mk_worth))}
    /\ UNCHANGED <<mk_subs, mk_worth, mk_judges, mk_deletes, mk_changes, mk_deleted>>

\* After a day, or when the cache needs room.
DropMarks(k) ==
    /\ mk_keys[k] # NotKept
    /\ mk_keys' = Without({k}) /\ mk_excused' = ExcusedBut({k})
    /\ UNCHANGED <<mk_subs, mk_worth, mk_fill, mk_judges, mk_deletes, mk_changes, mk_deleted>>

MkNext ==
    \/ \E p \in MkProblems, in \in BOOLEAN : MkSubmit(p, in)
    \/ \E p \in MkProblems, worth \in MkWorths : EditWorth(p, worth)
    \/ \E i \in DOMAIN mk_subs :
          \/ MkFail(i) \/ MkRejudge(i) \/ Recalculate(i) \/ DeleteSubmission(i)
          \/ \E committed \in BOOLEAN : EndDelete(i, committed)
          \/ \E j \in MkJudges : StoreResult(j, i)
    \/ \E j \in MkJudges : UpdateContest(j) \/ FinishedSubmission(j)
    \/ \E k \in MkKeys : ReadMarks(k) \/ KeepMarks(k) \/ DropMarks(k)

MkSpec == MkInit /\ [][MkNext]_mkvars

-----------------------------------------------------------------------------
(* Properties.                                                             *)

\* A mark that is kept and wrong is of a problem of which a judge finishes a submission just now,
\* or was made wrong by a submission, a rejudge, a rescoring, an edit or a deletion, none of which
\* deletes it, or by a page that had read the rows before, or is of the contest of a submission that
\* was deleted while a judge finished it: a graded submission that is still there leaves none wrong.
MarksAreCurrent ==
    \A k \in MkKeys : mk_keys[k] # NotKept =>
        \A p \in Differ(mk_keys[k], Marked(k, mk_subs, mk_worth)) :
            \/ <<k, p>> \in mk_excused
            \/ \E j \in MkJudges : mk_judges[j].at # "free" /\ mk_subs[mk_judges[j].sub].prob = p

\* Until a submission is deleted no problem is marked as attempted that was not, whatever overlaps.
AttemptsAreReal ==
    ~mk_deleted => \A k \in MkKeys \ {"contest_complete"} :
        mk_keys[k] # NotKept => mk_keys[k] \subseteq Marked(k, mk_subs, mk_worth)

MarksHold == MarksAreCurrent /\ AttemptsAreReal
=============================================================================
