---------------------------- MODULE ContestRules ----------------------------
(***************************************************************************)
(* Who may see, join, watch and edit a contest, and whose results they see *)
(* there (judge/models/contest.py, judge/views/contests.py,                *)
(* judge/views/submission.py, judge/views/api/api_v2.py).  Courses follow  *)
(* the same rules (CommunityRules).                                        *)
(*                                                                         *)
(* c: visible, private, org_private, limit_join, board (the four values of *)
(*    scoreboard_visibility), tester_board, tester_subs;                   *)
(*    empty_list (nobody is named as author, curator or viewer).           *)
(* v: auth, perms, croles (the lists of the contest that name the viewer); *)
(*    marks "super", "in_org" (an organization or a class), "in_join_org". *)
(* t: "before", "running" or "over".                                       *)
(* l: live, the viewer's live participation ("none", "running" or "done",  *)
(*    when its own time is over), and now, the participation that is the   *)
(*    current one ("out", "live", "spectate" or "virtual").                *)
(***************************************************************************)
EXTENDS ProblemRules

Named(v, roles) == v.auth /\ v.croles \cap roles # {}

IsContestEditor(v) == Named(v, {"author", "curator"})
IsContestTester(v) == Named(v, {"tester"})

Started(t) == t # "before"
EndedContest(t) == t = "over"

\* Contest.has_completed_contest.
HasCompletedContest(v, t, l) ==
    v.auth /\ (l.live = "done" \/ (l.live = "running" /\ EndedContest(t)))

IsInContest(v, l) == v.auth /\ l.now # "out"

-----------------------------------------------------------------------------
(* Scoreboards.                                                            *)

\* Mutant: participants see the board for as long as they are done and it runs.
ShowScoreboardLate(c, t) ==
    /\ Started(t)
    /\ c.board \in {"after_contest", "after_participation"} => EndedContest(t)
    /\ c.board = "visible" => ~EndedContest(t)
    /\ c.board # "hidden"

\* Contest.show_scoreboard.
ShowScoreboard(c, t) ==
    /\ Started(t)
    /\ c.board \in {"after_contest", "after_participation"} => EndedContest(t)
    /\ c.board # "hidden"

SeesAllContests(v) ==
    HasPerm(v, "see_private_contest") \/ HasPerm(v, "edit_all_contest")

\* Contest.can_see_full_scoreboard.
CanSeeFullScoreboard(v, c, t, l) ==
    \/ ShowScoreboard(c, t)
    \/ SeesAllContests(v)
    \/ IsContestEditor(v)
    \/ c.tester_board /\ IsContestTester(v)
    \/ Started(t) /\ Named(v, {"spectator"})
    \/ Named(v, {"board_viewer"})
    \/ c.board = "after_participation" /\ HasCompletedContest(v, t, l)

\* Contest.can_see_own_scoreboard.
CanSeeOwnScoreboard(v, c, t, l) ==
    \/ CanSeeFullScoreboard(v, c, t, l)
    \/ /\ Started(t)
       /\ ShowScoreboard(c, t) \/ IsInContest(v, l) \/ HasCompletedContest(v, t, l)

-----------------------------------------------------------------------------
(* Access.                                                                 *)

\* Mutant: one of the two lists of a contest private in both ways is enough.
AdmittedByOne(v, c) ==
    \/ c.private /\ Named(v, {"contestant"})
    \/ c.org_private /\ Is(v, "in_org")

\* The lists of a private contest.
Admitted(v, c) ==
    /\ c.private => Named(v, {"contestant"})
    /\ c.org_private => Is(v, "in_org")

\* Contest.access_check raises nothing.
ContestAccessible(v, c) ==
    IF ~v.auth THEN c.visible /\ ~c.private /\ ~c.org_private
    ELSE \/ SeesAllContests(v)
         \/ IsContestEditor(v) \/ IsContestTester(v) \/ Named(v, {"spectator"})
         \/ /\ c.visible
            /\ \/ ~c.private /\ ~c.org_private
               \/ Named(v, {"board_viewer"})
               \/ Admitted(v, c)

\* ContestMixin.get_object: the contest one is in is always shown.
ContestShown(v, c, l) == IsInContest(v, l) \/ ContestAccessible(v, c)

\* Contest.is_editable_by.
ContestEditable(v) ==
    \/ HasPerm(v, "edit_all_contest")
    \/ HasPerm(v, "edit_own_contest") /\ IsContestEditor(v)

\* Contest.get_visible_contests.
VisibleContests(v, c) ==
    IF ~v.auth THEN c.visible /\ ~c.org_private /\ ~c.private
    ELSE \/ SeesAllContests(v)
         \/ /\ c.visible
            /\ \/ Named(v, {"board_viewer"})
               \/ ~c.org_private /\ ~c.private
               \/ ~c.org_private /\ c.private /\ Named(v, {"contestant"})
               \/ c.org_private /\ ~c.private /\ Is(v, "in_org")
               \/ c.org_private /\ c.private /\ Named(v, {"contestant"}) /\ Is(v, "in_org")
         \/ Named(v, {"author", "curator", "tester", "spectator"})

\* ContestAdmin.get_queryset and has_change_permission.
AdminListsContest(v) == HasPerm(v, "edit_all_contest") \/ IsContestEditor(v)
AdminChangesContest(v) == HasPerm(v, "edit_own_contest") /\ ContestEditable(v)

-----------------------------------------------------------------------------
(* Joining.                                                                *)

JoinOrganizations(v, c) == c.limit_join => Is(v, "in_join_org")

\* Contest.is_live_joinable_by, given what the list annotates.
LiveJoinable(v, c, t, completed) ==
    /\ Started(t) /\ v.auth
    /\ ~IsContestEditor(v) /\ ~IsContestTester(v)
    /\ ~completed
    /\ JoinOrganizations(v, c)

\* Contest.is_spectatable_by.
Spectatable(v, c) ==
    v.auth /\ (IsContestEditor(v) \/ IsContestTester(v) \/ JoinOrganizations(v, c))

\* The page of the contest.
JoinableOnPage(v, c, t, l) == LiveJoinable(v, c, t, HasCompletedContest(v, t, l))

\* Mutant: the running participations are left in the list.
InCurrentListAll(v, c, t, l) == VisibleContests(v, c) /\ t = "running"

\* ContestList: among the current contests, without those that the viewer takes
\* part in.
InCurrentList(v, c, t, l) ==
    /\ VisibleContests(v, c) /\ t = "running"
    /\ ~(v.auth /\ l.live = "running")

\* There, any live participation counts as completed.
JoinableInList(v, c, t, l) == LiveJoinable(v, c, t, v.auth /\ l.live # "none")

-----------------------------------------------------------------------------
(* Submissions of others.                                                  *)

\* Mutant: the end of the contest does not matter.
SubmissionsOfContestEarly(v, c, t) ==
    \/ Named(v, {"author", "curator", "subs_viewer"})
    \/ c.tester_subs /\ IsContestTester(v)
    \/ c.board # "hidden"

\* Contests of which SubmissionsListBase shows every submission, outside contests.
SubmissionsOfContest(v, c, t) ==
    \/ Named(v, {"author", "curator", "subs_viewer"})
    \/ c.tester_subs /\ IsContestTester(v)
    \/ c.board = "visible"
    \/ EndedContest(t) /\ c.board \in {"after_participation", "after_contest"}
    \/ ~v.auth /\ c.empty_list        \* `authors=None' asks for no author at all

\* SubmissionsListBase._get_queryset, for a submission of another user to contest c.
OthersListed(v, c, t, l) ==
    IF IsInContest(v, l) THEN CanSeeFullScoreboard(v, c, t, l)
    ELSE HasPerm(v, "see_private_contest") \/ SubmissionsOfContest(v, c, t)

\* UserAllContestSubmissions, UserContestSubmissions: ForceContestMixin pretends to be
\* in the contest.
ContestSubmissionsShown(v, c, t, l, own) ==
    /\ HasPerm(v, "see_private_contest") \/ (c.visible /\ Started(t))
    /\ own \/ CanSeeFullScoreboard(v, c, t, l)

\* ProblemSubmissionsBase.get_queryset: inside a contest without the problem, not even
\* the viewer's own submissions to it are found.
OutsideCurrent(v) == v.auth /\ v.pcontest = "without"

\* ProblemSubmissionsBase.access_check, get_queryset.
ProblemSubmissionsShown(v, p, c, t, l) ==
    /\ ~OutsideCurrent(v)
    /\ \/ IsInContest(v, l) /\ IsContestEditor(v)
       \/ /\ IsAccessibleBy(v, p, FALSE)
          /\ IsInContest(v, l) => CanSeeOwnScoreboard(v, c, t, l)

\* Submission.can_see_detail; `made' is whether the submission was made in c.
CanSeeDetail(v, p, c, own, made) ==
    /\ v.auth
    /\ \/ IsEditableBy(v, p) \/ HasPerm(v, "view_all_submission") \/ own
       \/ p.visibility = "always"
       \/ p.visibility = "solved" /\ (p.public \/ IsTester(v)) /\ Is(v, "solved")
       \/ p.visibility = "only_own" /\ IsTester(v)
       \/ /\ made
          /\ \/ Named(v, {"author", "curator", "subs_viewer"})
             \/ c.tester_subs /\ IsContestTester(v)

\* SubmissionDetailBase, SubmissionSource: a refusal may tell to solve the problem.
SubmissionShown(v, p, c, own, made) == v.auth /\ CanSeeDetail(v, p, c, own, made)
SolveHint(v, p, c, own, made) ==
    /\ v.auth /\ ~SubmissionShown(v, p, c, own, made)
    /\ IsAccessibleBy(v, p, FALSE) /\ p.visibility = "solved"

\* UserProblemSubmissions: the list of one user's submissions to p.
UserProblemSubmissionsShown(v, p, c, t, l, own) ==
    /\ ~OutsideCurrent(v)
    /\ \/ IsInContest(v, l) /\ IsContestEditor(v)
       \/ /\ IsAccessibleBy(v, p, FALSE)
          /\ IsInContest(v, l) /\ ~own => CanSeeOwnScoreboard(v, c, t, l)

\* UserContestSubmissions, a cell of the ranking: the same of c, of which p is a problem,
\* and what is in it.
UserContestSubmissionsShown(v, p, c, t, l, own) ==
    /\ HasPerm(v, "see_private_contest") \/ (c.visible /\ Started(t))
    /\ \/ IsContestEditor(v)
       \/ IsAccessibleBy(v, p, FALSE) /\ (own \/ CanSeeOwnScoreboard(v, c, t, l))
UserContestSubmissionsListed(v, p, c, t, l, own) ==
    /\ UserContestSubmissionsShown(v, p, c, t, l, own)
    /\ own \/ CanSeeFullScoreboard(v, c, t, l)

\* AllUserSubmissions: is a submission to c in the list?
UserSubmissionListed(v, c, t, l, own) == own \/ OthersListed(v, c, t, l)

\* submission_layout: has the row of a submission the links of its editors ...
RowEdited(v, p) ==
    \/ HasPerm(v, "edit_all_problem")
    \/ HasPerm(v, "edit_public_problem") /\ p.public
    \/ EditableProblems(v, p)

\* Mutant: to have solved the problem is enough, whoever may see the sources.
RowViewedWhenSolved(v, p, c, own, made) ==
    \/ RowEdited(v, p) \/ HasPerm(v, "view_all_submission")
    \/ own \/ p.visibility = "always"
    \/ made /\ IsContestEditor(v)
    \/ Is(v, "solved")

\* ... and those of its viewers?
RowViewed(v, p, c, own, made) ==
    \/ RowEdited(v, p) \/ HasPerm(v, "view_all_submission")
    \/ own \/ p.visibility = "always"
    \/ made /\ IsContestEditor(v)
    \/ Is(v, "solved") /\ (IsTester(v) \/ (p.visibility = "solved" /\ p.public))

-----------------------------------------------------------------------------
(* The rankings and the API.                                               *)

\* ContestRanking: nothing, one's own row, or all rows.
RankingRows(v, c, t, l) ==
    IF ~CanSeeOwnScoreboard(v, c, t, l) THEN "none"
    ELSE IF CanSeeFullScoreboard(v, c, t, l) THEN "all" ELSE "own"

\* ContestParticipationList of another user.
OthersParticipations(v, c, t, l) == v.auth /\ CanSeeFullScoreboard(v, c, t, l)

\* contest_ranking_ajax.
RankingTable(v, c, t, l) == ContestAccessible(v, c) /\ CanSeeFullScoreboard(v, c, t, l)

\* ContestStats.
StatsShown(v, t) == EndedContest(t) \/ ContestEditable(v)

\* ContestClone, ContestMossView; superusers pass any permission.
CloneShown(v, c, l) == HasPerm(v, "clone_contest") /\ ContestShown(v, c, l)
MossShown(v, c, l) ==
    HasPerm(v, "moss_contest") /\ ContestShown(v, c, l) /\ ContestEditable(v)

\* The users that one may look for in a ranking.
UserSearchShown(v, c, t, l) == ContestAccessible(v, c) /\ CanSeeFullScoreboard(v, c, t, l)

\* APIContestList, APIContestDetail: are the problems and the rankings in the answer?
ApiContestListed(v, c) == VisibleContests(v, c)
ApiContestShown(v, c) == ContestAccessible(v, c)
ApiProblems(v, t, l) == IsInContest(v, l) \/ EndedContest(t) \/ ContestEditable(v)
ApiRankings(v, c, t, l) == ApiContestShown(v, c) /\ CanSeeFullScoreboard(v, c, t, l)

\* APIContestParticipationList.
ApiParticipations(v, c, t) ==
    /\ VisibleContests(v, c)
    /\ \/ HasPerm(v, "see_private_contest")
       \/ EndedContest(t)
       \/ HasPerm(v, "edit_own_contest") /\ IsContestEditor(v)
       \/ Named(v, {"board_viewer"})

\* APIUserDetail, of another user: the contests he took part in and the problems he solved.
ApiHistory(v, c, t) == VisibleContests(v, c) /\ EndedContest(t)
ApiSolved(p) == PublicProblems(p)

-----------------------------------------------------------------------------
(* The page of a contest.                                                  *)

\* ContestMixin.get_context_data and the tabs that it is for.
ContestTab(v, c, t, l, tab) ==
    LET open == v.auth /\ (Started(t) \/ IsContestEditor(v) \/ IsContestTester(v))
        may_enter == open /\ ~IsInContest(v, l) IN
    \/ tab = "stats" /\ (EndedContest(t) \/ ContestEditable(v))
    \/ /\ tab = "ranking" /\ CanSeeOwnScoreboard(v, c, t, l)
       /\ Started(t) \/ HasPerm(v, "see_private_contest")
    \/ tab = "edit" /\ ContestEditable(v)
    \/ tab = "moss" /\ ContestEditable(v) /\ HasPerm(v, "moss_contest")
    \/ tab = "clone" /\ HasPerm(v, "clone_contest")
    \/ tab = "leave" /\ open /\ IsInContest(v, l)
    \/ tab = "virtual" /\ may_enter /\ EndedContest(t)
    \/ tab = "live" /\ may_enter /\ ~EndedContest(t) /\ JoinableOnPage(v, c, t, l)
    \/ /\ tab = "spectate" /\ may_enter /\ ~EndedContest(t)
       /\ ~JoinableOnPage(v, c, t, l) /\ Spectatable(v, c)

\* ContestDetail: has problem p, which is in the contest, a link, and its editorial?
ContestProblemLinked(v, p) == p.public \/ Is(v, "super") \/ IsContestEditor(v)
EditorialListed(p) == p.public /\ p.solution
=============================================================================
