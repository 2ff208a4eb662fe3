---------------------------- MODULE ProblemRules ----------------------------
(***************************************************************************)
(* Who may see, edit, solve, rejudge and vote on a problem                 *)
(* (judge/models/problem.py, judge/models/submission.py,                   *)
(* judge/views/problem.py, judge/admin, judge/views/api/api_v2.py).        *)
(*                                                                         *)
(* The code writes these rules twice: as a test of one object, and as a    *)
(* query over all of them.  Both are operators here, over one viewer v and *)
(* one problem p; a query is the question whether p is in its result.      *)
(*                                                                         *)
(* p: public, org_private, visibility ("always", "solved", "only_own"),    *)
(* solution (whether it is published). v: auth, perms; proles (the         *)
(* problem's lists that name the viewer); pcontest (no current contest,    *)
(* a started one "with" it or "without"); marks, among "super", "staff",   *)
(* "member" and "admin" (of one of the problem's organizations), "solved"  *)
(* (the problem).                                                          *)
(***************************************************************************)

-----------------------------------------------------------------------------
(* Tests of one object.                                                    *)

\* What the database holds of the account, which guests do not have.
Is(v, mark) == v.auth /\ mark \in v.marks

\* Guests have no permission, superusers all of them.
HasPerm(v, perm) == v.auth /\ (perm \in v.perms \/ Is(v, "super"))

\* Mutant: someone who has another role too is not an editor.
IsEditorOnly(v) == v.auth /\ v.proles # {} /\ v.proles \subseteq {"author", "curator"}

\* Problem.is_editor, and the use of editor_ids.
IsEditor(v) == v.auth /\ v.proles \cap {"author", "curator"} # {}

IsTester(v) == v.auth /\ "tester" \in v.proles

\* Problem.is_editable_by.
IsEditableBy(v, p) ==
    /\ HasPerm(v, "edit_own_problem")
    /\ \/ HasPerm(v, "edit_all_problem")
       \/ HasPerm(v, "edit_public_problem") /\ p.public
       \/ IsEditor(v)
       \/ p.org_private /\ Is(v, "admin")

\* Problem.is_accessible_by.
IsAccessibleBy(v, p, skip_contest_problem_check) ==
    \/ ~skip_contest_problem_check /\ v.auth /\ v.pcontest = "with"
    \/ /\ p.public
       /\ \/ ~p.org_private
          \/ HasPerm(v, "see_organization_problem")
          \/ Is(v, "member")
    \/ HasPerm(v, "see_private_problem")
    \/ IsEditableBy(v, p)
    \/ IsEditor(v)
    \/ IsTester(v)

\* Solution.is_accessible_by, which the page asks outside contests only.
SolutionShown(v, p) ==
    /\ p.solution \/ HasPerm(v, "see_private_solution") \/ IsEditableBy(v, p)
    /\ ~(v.auth /\ v.pcontest # "none")

\* Problem.is_subs_manageable_by.
IsSubsManageableBy(v, p) ==
    Is(v, "staff") /\ HasPerm(v, "rejudge_submission") /\ IsEditableBy(v, p)

-----------------------------------------------------------------------------
(* Queries.                                                                *)

PublicProblems(p) == p.public /\ ~p.org_private

\* Mutant: edit_public_problem counts without edit_own_problem.
EditPublicAlone(v) == HasPerm(v, "edit_public_problem")

EditPublic(v) == HasPerm(v, "edit_own_problem") /\ HasPerm(v, "edit_public_problem")

EditAll(v) == HasPerm(v, "edit_own_problem") /\ HasPerm(v, "edit_all_problem")

\* Problem.get_visible_problems.
VisibleProblems(v, p) ==
    IF ~v.auth THEN PublicProblems(p)
    ELSE \/ HasPerm(v, "see_private_problem")
         \/ EditAll(v)
         \/ /\ p.public
            /\ \/ HasPerm(v, "see_organization_problem") \/ EditPublic(v)
               \/ ~p.org_private \/ Is(v, "member")
         \/ HasPerm(v, "edit_own_problem") /\ p.org_private /\ Is(v, "admin")
         \/ v.proles # {}

\* Mutant: the administrator of any organization, of the private problems or not.
EditableProblemsOfOrg(v, p) ==
    /\ HasPerm(v, "edit_own_problem")
    /\ \/ HasPerm(v, "edit_all_problem") \/ IsEditor(v) \/ Is(v, "admin")
       \/ HasPerm(v, "edit_public_problem") /\ p.public

\* Problem.get_editable_problems, the list of the administration.
EditableProblems(v, p) ==
    /\ HasPerm(v, "edit_own_problem")
    /\ \/ HasPerm(v, "edit_all_problem")
       \/ IsEditor(v)
       \/ p.org_private /\ Is(v, "admin")
       \/ HasPerm(v, "edit_public_problem") /\ p.public

\* Mutant: the organizations of a public problem are not looked at.
NormalQuerysetLoose(v, p) == p.public \/ (v.auth /\ v.proles # {})

\* ProblemList.get_normal_queryset.  It asks for `see_organization_problem' without
\* the name of the application: only superusers have that.
NormalQueryset(v, p) ==
    \/ p.public /\ (~p.org_private \/ Is(v, "super") \/ Is(v, "member"))
    \/ v.auth /\ v.proles # {}

\* ProblemList.get_queryset; RandomProblem draws from the normal one.
ProblemListed(v, p) ==
    IF v.auth /\ v.pcontest # "none" THEN v.pcontest = "with" ELSE NormalQueryset(v, p)

\* APIProblemList, APIProblemDetail.
ApiProblemListed(v, p) == VisibleProblems(v, p)
ApiProblemShown(v, p) == IsAccessibleBy(v, p, TRUE)

\* APISubmissionList lists, and single_submission shows the row of, every submission to
\* the problem, whoever made it and in whichever contest.
ApiSubmissionListed(v, p) == VisibleProblems(v, p)
SubmissionRowShown(v, p) == IsAccessibleBy(v, p, FALSE)

-----------------------------------------------------------------------------
(* Editing and submitting.                                                 *)

\* ProblemAdmin.has_change_permission.
AdminChangesProblem(v, p) == IsEditableBy(v, p)

\* ProblemSubmit.dispatch and get_object, with an empty form ("new") or with the source
\* of an earlier submission, of the viewer ("own") or of another.
SubmitShown(v, p, from) ==
    /\ v.auth /\ IsAccessibleBy(v, p, FALSE)
    /\ from \in {"new", "own"} \/ HasPerm(v, "resubmit_other")

\* ProblemSubmit.get_form_kwargs: may the judge be chosen?
JudgeChoosable(v, p) == v.auth /\ IsEditableBy(v, p)

-----------------------------------------------------------------------------
(* Staff and submissions.                                                  *)

\* SubmissionAdmin.get_queryset, has_change_permission.
AdminListsSubmission(v) == HasPerm(v, "edit_all_problem") \/ IsEditor(v)
AdminChangesSubmission(v) ==
    HasPerm(v, "edit_own_problem") /\ (HasPerm(v, "edit_all_problem") \/ IsEditor(v))

\* Mutant: the submissions are not filtered.
AdminRejudgesAll(v) ==
    HasPerm(v, "rejudge_submission") /\ HasPerm(v, "edit_own_problem")

\* SubmissionAdmin.judge, for a selected submission.
AdminRejudges(v) ==
    /\ HasPerm(v, "rejudge_submission") /\ HasPerm(v, "edit_own_problem")
    /\ HasPerm(v, "edit_all_problem") \/ IsEditor(v)

\* SubmissionAdmin.judge_view, the button of one submission.
AdminRejudgesOne(v) ==
    /\ HasPerm(v, "rejudge_submission") /\ HasPerm(v, "edit_own_problem")
    /\ HasPerm(v, "edit_all_problem") \/ IsEditor(v)
=============================================================================
