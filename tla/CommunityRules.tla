--------------------------- MODULE CommunityRules ---------------------------
(***************************************************************************)
(* Who may see, join, watch and edit a course, its lessons and its posts,  *)
(* who may read and write tickets, comments and organizations, and what    *)
(* the feeds, the sitemaps and the searches give away (judge/views,        *)
(* judge/models/course.py, judge/models/comment.py, judge/comments.py,     *)
(* judge/utils/tickets.py, judge/sitemap.py, judge/feed.py).               *)
(*                                                                         *)
(* Besides those of ProblemRules and ContestRules, the marks of a viewer:  *)
(* "mute", "any_solves", "creator" and "assignee" of the ticket,           *)
(* "comment_author", "post_author", "org_admin", "class_admin",            *)
(* "applicant". c: a contest or a course; l: the viewer's participation in *)
(* it. x: a lesson, or a post of the blog: visible, published (its time    *)
(* came). k, a comment: hidden, old (too old to answer), locked (its       *)
(* page), and on, where it stands: "problem", "solution", "contest",       *)
(* "post", "theory". A ticket is that of problem p.                        *)
(***************************************************************************)
EXTENDS ContestRules

-----------------------------------------------------------------------------
(* Courses.  The code is a copy of that of the contests, down to the       *)
(* names of the permissions, and so are the operators: c is a course, and  *)
(* a "contestant" a member.  Only the lessons and the cloning differ.      *)

HasCompletedCourse(v, t, l) == HasCompletedContest(v, t, l)
IsInCourse(v, l) == IsInContest(v, l)

CourseCanSeeFullScoreboard(v, c, t, l) == CanSeeFullScoreboard(v, c, t, l)
CourseCanSeeOwnScoreboard(v, c, t, l) == CanSeeOwnScoreboard(v, c, t, l)

\* Course.access_check, CourseMixin.get_object.
CourseAccessible(v, c) == ContestAccessible(v, c)
CourseShown(v, c, l) == IsInCourse(v, l) \/ CourseAccessible(v, c)

\* Course.is_editable_by, and the administration of courses.
CourseEditable(v) == ContestEditable(v)
AdminListsCourse(v) == HasPerm(v, "edit_all_contest") \/ IsContestEditor(v)
AdminChangesCourse(v) == HasPerm(v, "edit_own_contest") /\ CourseEditable(v)

\* Course.get_visible_courses, which the list, the calendar and the searches use.
VisibleCourses(v, c) == VisibleContests(v, c)

CourseLiveJoinable(v, c, t, completed) == LiveJoinable(v, c, t, completed)
CourseSpectatable(v, c) == Spectatable(v, c)
CourseJoinableOnPage(v, c, t, l) ==
    CourseLiveJoinable(v, c, t, HasCompletedCourse(v, t, l))

\* CourseList.
CourseInCurrentList(v, c, t, l) ==
    /\ VisibleCourses(v, c) /\ t = "running"
    /\ ~(v.auth /\ l.live = "running")
CourseJoinableInList(v, c, t, l) == CourseLiveJoinable(v, c, t, v.auth /\ l.live # "none")

\* CourseRanking, CourseParticipationList, course_ranking_ajax, the search of users.
CourseRankingRows(v, c, t, l) ==
    IF ~CourseCanSeeOwnScoreboard(v, c, t, l) THEN "none"
    ELSE IF CourseCanSeeFullScoreboard(v, c, t, l) THEN "all" ELSE "own"
OthersInCourse(v, c, t, l) == v.auth /\ CourseCanSeeFullScoreboard(v, c, t, l)
CourseRankingTable(v, c, t, l) ==
    CourseAccessible(v, c) /\ CourseCanSeeFullScoreboard(v, c, t, l)
CourseUserSearchShown(v, c, t, l) ==
    CourseAccessible(v, c) /\ CourseCanSeeFullScoreboard(v, c, t, l)

\* CourseStats.
CourseStatsShown(v, t) == EndedContest(t) \/ CourseEditable(v)

\* CourseClone asks for `clone_course', which no one is ever given.
CourseCloneShown(v, c, l) == Is(v, "super") /\ CourseShown(v, c, l)

\* CourseMixin.get_context_data and the tabs of a course, which ask for the permissions
\* of contests; the one for MOSS has no page.
CourseTab(v, c, t, l, tab) == ContestTab(v, c, t, l, tab)

\* CourseDetail lists the lessons, and of the problems those that a contest lists.
CourseProblemLinked(v, p) == ContestProblemLinked(v, p)

-----------------------------------------------------------------------------
(* Lessons, tests and the posts of the blog.                               *)

\* TheoryPost.is_editable_by; TestPost and BlogPost have the same rule.
TheoryEditable(v) ==
    \/ HasPerm(v, "edit_all_post")
    \/ HasPerm(v, "change_blogpost") /\ Is(v, "post_author")
TestEditable(v) == TheoryEditable(v)
PostEditable(v) == TheoryEditable(v)

\* TheoryPostAdmin, BlogPostAdmin, TestPostAdmin: whoever may change posts sees there
AdminListsTheory(v) == HasPerm(v, "edit_all_post") \/ Is(v, "post_author")
AdminListsPost(v) == HasPerm(v, "edit_all_post") \/ Is(v, "post_author")
AdminListsTest(v) == HasPerm(v, "edit_all_post") \/ Is(v, "post_author")

\* TheoryPost.can_see, BlogPost.can_see.
TheoryShown(v, x) == (x.visible /\ x.published) \/ TheoryEditable(v)
PostShown(v, x) == (x.visible /\ x.published) \/ PostEditable(v)

\* Mutant: the time of publication is not looked at.
TheoryListedEarly(x) == x.visible

\* TheoryList; PostList, the feed and the sitemap of the blog.
TheoryListed(x) == x.visible /\ x.published
PostListed(x) == x.visible /\ x.published

-----------------------------------------------------------------------------
(* Tickets.                                                                *)

\* own_ticket_filter.
OwnTicket(v) == Is(v, "creator") \/ Is(v, "assignee")

\* TicketMixin.get_object: the page of a ticket, its status, notes and rows.
TicketShown(v, p) ==
    v.auth /\ (HasPerm(v, "change_ticket") \/ OwnTicket(v) \/ IsEditableBy(v, p))

\* filter_visible_tickets.
FilterVisibleTickets(v, p) == OwnTicket(v) \/ EditableProblems(v, p)

\* TicketList.get_queryset, without the filters of the form.
TicketListed(v, p) == v.auth /\ (HasPerm(v, "change_ticket") \/ FilterVisibleTickets(v, p))

\* ProblemTicketListView.
ProblemTicketListed(v, p) ==
    /\ IsEditableBy(v, p) \/ (IsAccessibleBy(v, p, FALSE) /\ OwnTicket(v))
    /\ TicketListed(v, p)

\* NewProblemTicketView, TicketForm.clean: in_contest is whether any contest is current.
TicketCreatable(v, p) ==
    /\ v.auth /\ IsAccessibleBy(v, p, FALSE) /\ ~Is(v, "mute")
    /\ v.pcontest # "none" \/ Is(v, "any_solves")

-----------------------------------------------------------------------------
(* Comments.                                                               *)

\* Solution.is_accessible_by.
SolutionAccessible(v, p) ==
    p.solution \/ HasPerm(v, "see_private_solution") \/ IsEditableBy(v, p)

\* Comment.is_accessible_by.
CommentAccessible(v, k, p, c, x) ==
    CASE k.on = "problem" -> IsAccessibleBy(v, p, FALSE)
      [] k.on = "solution" -> SolutionAccessible(v, p)
      [] k.on = "contest" -> ContestAccessible(v, c)
      [] k.on = "post" -> PostShown(v, x)
      [] k.on = "theory" -> TheoryShown(v, x)

\* Comment.most_recent.
MostRecent(v, k, p, c, x) ==
    /\ ~k.hidden /\ CommentAccessible(v, k, p, c, x)
    /\ k.on = "solution" => IsAccessibleBy(v, p, FALSE)

\* The page on which the comment is read and answered.
PageShown(v, k, p, c, x, l) ==
    CASE k.on = "problem" -> IsAccessibleBy(v, p, FALSE)
      [] k.on = "solution" -> IsAccessibleBy(v, p, FALSE) /\ SolutionShown(v, p)
      [] k.on = "contest" -> ContestShown(v, c, l)
      [] k.on = "post" -> PostShown(v, x)
      [] k.on = "theory" -> TheoryShown(v, x)

\* CommentForm.clean, and what vote_comment asks of a voter.
MayWrite(v) == v.auth /\ ~Is(v, "mute") /\ (Is(v, "staff") \/ Is(v, "any_solves"))

\* CommentedDetailView.is_comment_locked.
CommentLocked(v, k) == k.locked /\ ~HasPerm(v, "override_comment_lock")

\* CommentedDetailView.post, answering the comment k.
CommentAnswerable(v, k, p, c, x, l) ==
    /\ PageShown(v, k, p, c, x, l) /\ MayWrite(v) /\ ~CommentLocked(v, k)
    /\ ~k.hidden
    /\ HasPerm(v, "change_comment") \/ ~k.old

\* CommentEditAjax.get_object.
CommentEditable(v, k, p, c, x) ==
    /\ v.auth /\ CommentAccessible(v, k, p, c, x)
    /\ \/ HasPerm(v, "change_comment")
       \/ Is(v, "comment_author") /\ ~Is(v, "mute") /\ ~k.hidden

\* CommentRevisionAjax, CommentVotesAjax, comment_hide, vote_comment.
RevisionsShown(v, k, p, c, x) ==
    CommentAccessible(v, k, p, c, x) /\ (~k.hidden \/ HasPerm(v, "change_comment"))
VotesShown(v, k, p, c, x) ==
    CommentAccessible(v, k, p, c, x) /\ HasPerm(v, "change_comment")
CommentHidable(v) == HasPerm(v, "change_comment")
CommentVotable(v, k) == MayWrite(v) /\ ~k.hidden /\ ~Is(v, "comment_author")

\* CommentedDetailView.get_context_data: what a comment on a page offers the viewer.
CommentLinked(v, k, link) ==
    /\ v.auth /\ ~CommentLocked(v, k) /\ ~k.hidden
    /\ IF HasPerm(v, "change_comment") THEN link \in {"reply", "edit", "votes", "hide"}
       ELSE \/ link = "reply" /\ ~k.old
            \/ link = "edit" /\ Is(v, "comment_author") /\ ~Is(v, "mute")

-----------------------------------------------------------------------------
(* Organizations.                                                          *)

\* OrganizationMixin.can_edit_organization: to edit and to kick.
OrganizationEditable(v) == Is(v, "org_admin")

\* can_review_all_requests, can_review_class_requests; the requests that a reviewer
\* gets: all, those of the classes, or none.
ReviewedRequests(v) ==
    IF Is(v, "org_admin") THEN "all"
    ELSE IF Is(v, "class_admin") THEN "class" ELSE "none"

\* OrganizationRequestDetail; for_class is whether the request names the class.
RequestShown(v, for_class) ==
    \/ Is(v, "applicant") \/ Is(v, "org_admin")
    \/ for_class /\ Is(v, "class_admin")

\* OrganizationAdmin and ClassAdmin.
AdminListsOrganization(v) == HasPerm(v, "edit_all_organization") \/ Is(v, "org_admin")
AdminChangesOrganization(v) ==
    HasPerm(v, "change_organization") /\ AdminListsOrganization(v)
AdminListsClass(v) ==
    HasPerm(v, "edit_all_organization") \/ Is(v, "class_admin") \/ Is(v, "org_admin")
AdminChangesClass(v) == HasPerm(v, "change_class") /\ AdminListsClass(v)

\* OrganizationHome (open: anyone may join), OrganizationUsers, EditOrganization.
OrganizationLink(v, open, link) ==
    \/ link = "edit" /\ OrganizationEditable(v)
    \/ link = "requests" /\ ~open /\ (Is(v, "org_admin") \/ Is(v, "class_admin"))
KickOffered(v) == OrganizationEditable(v)
OrganizationEdited(v) == v.auth /\ OrganizationEditable(v)

-----------------------------------------------------------------------------
(* What anyone gets, and the searches.                                     *)

Guest == [auth |-> FALSE]

\* ProblemSitemap and ProblemFeed, ContestSitemap, CourseSitemap, SolutionSitemap.
ProblemPublished(p) == PublicProblems(p)
ContestPublished(c) == c.visible /\ ~c.private /\ ~c.org_private
CoursePublished(c) == c.visible /\ ~c.private /\ ~c.org_private
SolutionPublished(p) == p.solution /\ PublicProblems(p)

\* ProblemSelect2View, ContestSelect2View, CourseSelect2View.
ProblemFound(v, p) == VisibleProblems(v, p)
ContestFound(v, c) == VisibleContests(v, c)
CourseFound(v, c) == VisibleCourses(v, c)

\* The data, the differences of submissions and the files of a problem.
ProblemDataShown(v, p) ==
    v.auth /\ IsAccessibleBy(v, p, FALSE) /\ (Is(v, "super") \/ IsEditableBy(v, p))
SubmissionDiffShown(v, p) ==
    IsAccessibleBy(v, p, FALSE) /\ (Is(v, "super") \/ IsEditableBy(v, p))
ProblemFileShown(v, p) == v.auth /\ IsEditableBy(v, p)

\* The page from which all submissions are rejudged or rescored, and the first of these.
SubmissionsManaged(v, p) == IsAccessibleBy(v, p, FALSE) /\ IsSubsManageableBy(v, p)
AllRejudgeable(v, p) == HasPerm(v, "rejudge_submission_lot") /\ SubmissionsManaged(v, p)

-----------------------------------------------------------------------------
(* The page of a problem, and the front page.                              *)

\* ProblemDetail.get_context_data; the tickets of one who does not edit are his own.
ProblemLink(v, p, link) ==
    \/ link = "submit"
    \/ link = "my_submissions" /\ v.auth
    \/ link = "submissions"
    \/ link = "editorial" /\ SolutionAccessible(v, p) /\ ~(v.auth /\ v.pcontest # "none")
    \/ link = "tickets" /\ v.auth /\ (IsEditableBy(v, p) \/ OwnTicket(v))
    \/ link \in {"edit", "data"} /\ IsEditableBy(v, p)
    \/ link = "manage" /\ IsSubsManageableBy(v, p)

\* What PostList and, word for word, TheoryList put beside the posts.
HomeLink(v, p, c, link) ==
    \/ link = "problem" /\ PublicProblems(p)
    \/ link = "contest" /\ VisibleContests(v, c) /\ c.visible
    \/ link = "own_ticket" /\ Is(v, "creator")
    \/ link = "ticket" /\ Is(v, "staff") /\ FilterVisibleTickets(v, p)
TheoryHomeLink(v, p, c, link) == HomeLink(v, p, c, link)

\* PostView, TheoryView.
PostOpened(v, x) == PostShown(v, x)
TheoryOpened(v, x) == TheoryShown(v, x)
=============================================================================
