------------------------------- MODULE Access -------------------------------
(***************************************************************************)
(* One viewer and one object of the site - a problem, a contest, a course  *)
(* or a lesson - while administrators change the object and the viewer's   *)
(* permissions and roles, time passes, and the viewer joins and leaves.    *)
(*                                                                         *)
(* The rules are those of the modules below; they are written in the code  *)
(* once per page, list, feed, search and action of the administration, and *)
(* the properties say that they agree.  A state is what a request finds    *)
(* after ContestMiddleware ran.                                            *)
(***************************************************************************)
EXTENDS CommunityRules, Integers, FiniteSets

CONSTANTS
    Topics,         \* Among "problem", "contest", "course", "post", "organization".
    Perms,          \* Of a topic: the permissions that its rules ask for,
    ProblemRoles,   \* the lists of a problem and
    ContestRoles,   \* of a contest or a course that can name the viewer,
    Marks,          \* and, of a topic, the facts about the account.
    MaxGrants       \* Bound, of a topic: permissions, roles and marks at a time, a
                    \* contest one is in among them.

\* The lists of a problem are these, which the queries take for granted.
ASSUME ProblemRolesAssumption == ProblemRoles \subseteq {"author", "curator", "tester"}

VARIABLES
    topic,          \* What the object is; never changes.
    v, p, c, x, t, l \* The viewer, the object, the time, the participation (see the
                    \* rules); x is a lesson or post.

vars == <<topic, v, p, c, x, t, l>>

Boards == {"visible", "after_contest", "after_participation", "hidden"}
Times == {"before", "running", "over"}

Viewers == [auth : BOOLEAN, perms : SUBSET UNION {Perms[s] : s \in Topics},
            proles : SUBSET ProblemRoles, croles : SUBSET ContestRoles,
            pcontest : {"none", "with", "without"},
            marks : SUBSET UNION {Marks[s] : s \in Topics}]
Problems == [public : BOOLEAN, org_private : BOOLEAN, solution : BOOLEAN,
             visibility : {"always", "solved", "only_own"}]
Contests == [visible : BOOLEAN, private : BOOLEAN, org_private : BOOLEAN,
             limit_join : BOOLEAN, tester_board : BOOLEAN, tester_subs : BOOLEAN,
             board : Boards, empty_list : BOOLEAN]
Posts == [visible : BOOLEAN, published : BOOLEAN]
\* No rule of a course reads tester_subs, so it is off there.
Courses == {k \in Contests : ~k.tester_subs}
Participations == [live : {"none", "running", "done"},
                   now : {"out", "live", "spectate", "virtual"}]

Grants(w) == Cardinality(w.perms) + Cardinality(w.proles) + Cardinality(w.croles)
                + Cardinality(w.marks) + (IF w.pcontest = "none" THEN 0 ELSE 1)

\* A new object is hidden and for everyone; the visitor is not logged in.
Init ==
    /\ topic \in Topics
    /\ v = [auth |-> FALSE, perms |-> {}, proles |-> {}, croles |-> {},
            pcontest |-> "none", marks |-> {}]
    /\ p = [public |-> FALSE, org_private |-> FALSE, solution |-> FALSE,
            visibility |-> "solved"]
    /\ c = [visible |-> FALSE, private |-> FALSE, org_private |-> FALSE,
            limit_join |-> FALSE, tester_board |-> FALSE, tester_subs |-> FALSE,
            board |-> "visible", empty_list |-> TRUE]
    /\ x = [visible |-> FALSE, published |-> FALSE]
    /\ t = "before"
    /\ l = [live |-> "none", now |-> "out"]

-----------------------------------------------------------------------------
(* Before a request, ContestMiddleware puts the viewer out of a contest    *)
(* that ended or is no longer open to him.  Nothing does it for courses.   *)

\* Profile.update_contest: is the current participation over?
ParticipationEnded(tt, ll) ==
    \/ ll.now = "live" /\ (ll.live = "done" \/ EndedContest(tt))
    \/ ll.now = "spectate" /\ EndedContest(tt)

\* Mutant: the end of the participation does not matter.
UpdateContestOfHidden(vv, cc, tt, ll) ==
    IF topic = "contest" /\ vv.auth /\ ll.now # "out" /\ ~ContestAccessible(vv, cc)
    THEN [ll EXCEPT !.now = "out"] ELSE ll

\* Mutant: that the contest was hidden, or is closed to him, does not matter.
UpdateContestOfEnded(vv, cc, tt, ll) ==
    IF topic = "contest" /\ vv.auth /\ ll.now # "out" /\ ParticipationEnded(tt, ll)
    THEN [ll EXCEPT !.now = "out"] ELSE ll

UpdateContest(vv, cc, tt, ll) ==
    IF topic = "contest" /\ vv.auth /\ ll.now # "out"
        /\ (ParticipationEnded(tt, ll) \/ ~ContestAccessible(vv, cc))
    THEN [ll EXCEPT !.now = "out"] ELSE ll

\* The next request of the viewer, of account vv, when the contest is cc at time tt.
Request(vv, cc, tt, ll) ==
    /\ v' = vv /\ c' = cc /\ t' = tt
    /\ l' = UpdateContest(vv, cc, tt, ll)

Dated == topic \in {"contest", "course"}

-----------------------------------------------------------------------------
(* The account.                                                            *)

LogIn ==
    /\ ~v.auth
    /\ Request([v EXCEPT !.auth = TRUE], c, t, l)
    /\ UNCHANGED <<topic, p, x>>

\* The administration of users grants and withdraws a permission.
ChangePermission ==
    \E perm \in Perms[topic] :
        LET w == [v EXCEPT !.perms = IF perm \in @ THEN @ \ {perm} ELSE @ \cup {perm}] IN
        /\ v.auth /\ Grants(w) <= MaxGrants[topic]
        /\ Request(w, c, t, l)
        /\ UNCHANGED <<topic, p, x>>

\* The pages that edit a problem name the viewer in one of its lists, or no longer.
ChangeProblemRole ==
    \E role \in ProblemRoles :
        LET w == [v EXCEPT !.proles = IF role \in @ THEN @ \ {role} ELSE @ \cup {role}] IN
        /\ topic = "problem" /\ v.auth /\ Grants(w) <= MaxGrants[topic]
        /\ Request(w, c, t, l)
        /\ UNCHANGED <<topic, p, x>>

\* The same of a contest or a course, where no one views submissions.
ChangeContestRole ==
    \E role \in IF topic = "course" THEN ContestRoles \ {"subs_viewer"} ELSE ContestRoles :
        LET w == [v EXCEPT !.croles = IF role \in @ THEN @ \ {role} ELSE @ \cup {role}] IN
        /\ Dated /\ v.auth /\ Grants(w) <= MaxGrants[topic]
        /\ Request(w, c, t, l)
        /\ UNCHANGED <<topic, p, x>>

\* The viewer joins or leaves an organization, solves a problem, is muted, writes a
\* comment, a ticket or a post ...
ChangeMark ==
    \E mark \in Marks[topic] :
        LET w == [v EXCEPT !.marks = IF mark \in @ THEN @ \ {mark} ELSE @ \cup {mark}] IN
        /\ v.auth /\ Grants(w) <= MaxGrants[topic]
        /\ Request(w, c, t, l)
        /\ UNCHANGED <<topic, p, x>>

\* ... or, where the topic is a problem, is in a contest with or without it.
ChangeCurrentContest ==
    \E in \in {"none", "with", "without"} :
        LET w == [v EXCEPT !.pcontest = in] IN
        /\ topic = "problem" /\ v.auth /\ Grants(w) <= MaxGrants[topic]
        /\ Request(w, c, t, l)
        /\ UNCHANGED <<topic, p, x>>

-----------------------------------------------------------------------------
(* The object.                                                             *)

\* ProblemAdmin.make_public, make_private.
MakePublic ==
    /\ topic = "problem"
    /\ p' = [p EXCEPT !.public = TRUE]
    /\ UNCHANGED <<topic, v, c, x, t, l>>

MakePrivate ==
    /\ topic = "problem"
    /\ p' = [p EXCEPT !.public = FALSE]
    /\ UNCHANGED <<topic, v, c, x, t, l>>

\* ProblemAdmin, the form: organizations, the solution, who may see the sources.
SaveProblem ==
    /\ topic = "problem"
    /\ \/ p' = [p EXCEPT !.org_private = ~@]
       \/ p' = [p EXCEPT !.solution = ~@]
    /\ UNCHANGED <<topic, v, c, x, t, l>>

\* Bound: a contest that is private in both ways, or limits who joins, is otherwise plain.
Plain(d) ==
    /\ d.private /\ d.org_private =>
          d.board = "visible" /\ ~d.limit_join /\ ~d.tester_board /\ ~d.tester_subs
    /\ d.limit_join => d.board = "visible"

\* ContestAdmin and CourseAdmin, the form.  At most one of the flags for testers and for
\* joining is set at a time, a bound too; courses do not use the last.
SaveContest ==
    /\ Dated
    /\ \E d \in {[c EXCEPT ![f] = ~@] : f \in {"visible", "private", "org_private"}}
           \cup {[c EXCEPT !.limit_join = (f = "limit_join"),
                          !.tester_board = (f = "tester_board"),
                          !.tester_subs = (f = "tester_subs")] :
                    f \in {"none", "limit_join", "tester_board", "tester_subs"}}
           \cup {[c EXCEPT !.board = board] : board \in Boards} :
          /\ topic = "course" => d \in Courses
          /\ Plain(d)
          /\ Request(v, d, t, l)
    /\ UNCHANGED <<topic, p, x>>

\* ContestAdmin.make_visible, and make_hidden, which makes visible too.
MakeVisible ==
    /\ Dated
    /\ Request(v, [c EXCEPT !.visible = TRUE], t, l)
    /\ UNCHANGED <<topic, p, x>>

\* The form of a lesson or of a post.
SavePost ==
    /\ topic = "post"
    /\ \/ x' = [x EXCEPT !.visible = ~@]
       \/ x' = [x EXCEPT !.published = ~@]
    /\ UNCHANGED <<topic, v, p, c, t, l>>

-----------------------------------------------------------------------------
(* Time and participation.                                                 *)

\* The contest starts or ends; the publication of a post comes due.
Tick ==
    \/ /\ Dated /\ t # "over"
       /\ Request(v, c, IF t = "before" THEN "running" ELSE "over", l)
       /\ UNCHANGED <<topic, p, x>>
    \/ /\ topic = "post" /\ x' = [x EXCEPT !.published = TRUE]
       /\ UNCHANGED <<topic, v, p, c, t, l>>

\* The viewer's own time, in a live or a virtual participation, runs out.
TimeOut ==
    /\ Dated
    /\ \/ /\ l.live = "running" /\ t = "running"
          /\ Request(v, c, t, [l EXCEPT !.live = "done"])
       \/ /\ l.now = "virtual" /\ topic = "contest"
          /\ Request(v, c, t, [l EXCEPT !.now = "out"])
    /\ UNCHANGED <<topic, p, x>>

\* What ContestJoin.join_contest makes the current participation, and the live one.
Entered(ll) ==
    IF EndedContest(t) THEN {[ll EXCEPT !.now = "virtual"]}
    ELSE IF JoinableOnPage(v, c, t, ll) THEN {[live |-> "running", now |-> "live"]}
    ELSE IF (IF topic = "course" THEN CourseSpectatable(v, c) ELSE Spectatable(v, c)) THEN {[ll EXCEPT !.now = "spectate"]}
    ELSE {}

\* ContestJoin, CourseJoin: also for those who are in already.
Join ==
    /\ Dated /\ v.auth
    /\ IF topic = "course" THEN CourseShown(v, c, l) ELSE ContestShown(v, c, l)
    /\ Started(t) \/ IsContestEditor(v) \/ IsContestTester(v)
    /\ \E ll \in Entered(l) : Request(v, c, t, ll)
    /\ UNCHANGED <<topic, p, x>>

\* ContestLeave, CourseLeave.
Leave ==
    /\ Dated /\ IsInContest(v, l)
    /\ Request(v, c, t, [l EXCEPT !.now = "out"])
    /\ UNCHANGED <<topic, p, x>>

Next ==
    \/ LogIn \/ ChangePermission \/ ChangeProblemRole \/ ChangeContestRole
    \/ ChangeMark \/ ChangeCurrentContest
    \/ MakePublic \/ MakePrivate \/ SaveProblem
    \/ SaveContest \/ MakeVisible \/ SavePost
    \/ Tick \/ TimeOut \/ Join \/ Leave

Spec == Init /\ [][Next]_vars

-----------------------------------------------------------------------------
(* Properties.                                                             *)

Typed ==
    /\ topic \in Topics /\ v \in Viewers /\ p \in Problems /\ c \in Contests
    /\ topic = "course" => c \in Courses
    /\ x \in Posts /\ t \in Times /\ l \in Participations

\* Whoever is in a contest when a request is answered may see it, and is there as its
\* time allows: live only while his own time runs, virtually only after the end.  This
\* is what ContestMiddleware is for; the pages of a contest rely on it.
AccessTypeOK ==
    /\ Typed
    /\ topic = "contest" /\ IsInContest(v, l) =>
          /\ ContestAccessible(v, c)
          /\ l.now = "live" => l.live = "running" /\ t = "running"
          /\ l.now = "spectate" => t # "over"
          /\ l.now = "virtual" => t = "over"

\* The query of the visible problems (search, API, sitemap) finds the problems whose page
\* is_accessible_by opens outside contests, and no others.
ProblemListAgrees ==
    /\ VisibleProblems(v, p) <=> IsAccessibleBy(v, p, TRUE)
    /\ ApiProblemListed(v, p) <=> ApiProblemShown(v, p)
    /\ ProblemFound(v, p) => IsAccessibleBy(v, p, TRUE)

\* The list of editable problems has those that is_editable_by lets one edit; hence the
\* list of tickets has those whose page is shown.  So it is with contests,
\* courses, posts, organizations and classes in the administration, for those who may
\* edit any, and with the requests of an organization for those who review them.
EditListAgrees ==
    /\ EditableProblems(v, p) <=> IsEditableBy(v, p)
    /\ TicketListed(v, p) <=> TicketShown(v, p)
    /\ HasPerm(v, "edit_own_contest") =>
          /\ AdminListsContest(v) <=> AdminChangesContest(v)
          /\ AdminListsCourse(v) <=> AdminChangesCourse(v)
    /\ HasPerm(v, "change_blogpost") =>
          /\ AdminListsTheory(v) <=> TheoryEditable(v)
          /\ AdminListsPost(v) <=> PostEditable(v)
          /\ AdminListsTest(v) <=> TestEditable(v)
    /\ HasPerm(v, "change_organization") =>
          (AdminListsOrganization(v) <=> AdminChangesOrganization(v))
    /\ HasPerm(v, "change_class") => (AdminListsClass(v) <=> AdminChangesClass(v))
    /\ ReviewedRequests(v) = "all" => OrganizationEditable(v) /\ \A b \in BOOLEAN : RequestShown(v, b)
    /\ ReviewedRequests(v) = "class" => RequestShown(v, TRUE) /\ AdminListsClass(v)

\* A problem on the list, or drawn at random from it, opens; so does one whose data,
\* files, tickets and submissions the site lets the viewer handle.
ListedIsAccessible ==
    ProblemListed(v, p) \/ NormalQueryset(v, p)
        \/ ProblemFileShown(v, p) \/ ProblemDataShown(v, p) \/ SubmissionDiffShown(v, p)
        \/ ProblemTicketListed(v, p) \/ TicketCreatable(v, p) \/ AllRejudgeable(v, p)
        \/ ApiSubmissionListed(v, p)
        => IsAccessibleBy(v, p, FALSE)

\* What SubmissionAdmin lets staff rejudge, one by one or selected, is_subs_manageable_by
\* lets them rejudge from the site; and they are listed what they may rejudge.
RejudgedIsManageable ==
    AdminRejudges(v) \/ AdminRejudgesOne(v) =>
        /\ AdminListsSubmission(v) /\ AdminChangesSubmission(v)
        /\ Is(v, "staff") => IsSubsManageableBy(v, p)

\* Where comments of the topic stand.
CommentedPages ==
    CASE topic = "problem" -> {"problem", "solution"}
      [] topic = "post" -> {"post", "theory"}
      [] OTHER -> {"contest"}

\* A comment that the front page shows to someone outside contests stands on a page that
\* opens; whoever may answer a comment may vote on it and edit the answer, which a contest
\* that was hidden meanwhile would refuse.
CommentsFollowPages ==
    LET w == [v EXCEPT !.marks = @ \cup {"any_solves", "comment_author"}] IN
    \A k \in [on : CommentedPages, hidden : {FALSE}, old : BOOLEAN, locked : BOOLEAN] :
        /\ v.pcontest = "none" /\ MostRecent(v, k, p, c, x) => PageShown(v, k, p, c, x, l)
        /\ VotesShown(v, k, p, c, x) => RevisionsShown(v, k, p, c, x) /\ CommentHidable(v)
        /\ CommentAnswerable(v, k, p, c, x, l) => Is(v, "comment_author") \/ CommentVotable(v, k)
        /\ topic # "course" /\ CommentAnswerable(w, k, p, c, x, l) =>
              CommentEditable(w, k, p, c, x)

\* The query of the visible contests or courses (lists, searches, calendars) finds those
\* whose page access_check opens; and what one may edit one finds.
ContestListAgrees ==
    /\ VisibleContests(v, c) <=> ContestAccessible(v, c)
    /\ ApiContestListed(v, c) <=> ApiContestShown(v, c)
    /\ VisibleCourses(v, c) <=> CourseAccessible(v, c)
    /\ ContestFound(v, c) => ContestShown(v, c, l)
    /\ CourseFound(v, c) => CourseShown(v, c, l)
    /\ ContestEditable(v) => VisibleContests(v, c) /\ StatsShown(v, t) /\ ApiProblems(v, t, l)
    /\ CourseEditable(v) => VisibleCourses(v, c) /\ CourseStatsShown(v, t)
    /\ MossShown(v, c, l) \/ CloneShown(v, c, l) => ContestShown(v, c, l)
    /\ CourseCloneShown(v, c, l) => CourseAccessible(v, c)

\* What a contest or a course on the list offers to join is what its page offers.
JoinLinkAgrees ==
    /\ InCurrentList(v, c, t, l) => (JoinableInList(v, c, t, l) <=> JoinableOnPage(v, c, t, l))
    /\ CourseInCurrentList(v, c, t, l) =>
          (CourseJoinableInList(v, c, t, l) <=> CourseJoinableOnPage(v, c, t, l))

\* While a contest lasts, someone it names neither as tester nor as viewer of
\* submissions sees the work of others - in the lists of submissions, the API, the
\* rankings and the searches, of contests and courses - only if he sees the full scoreboard.
\* The API's list of submissions and the row of a single one ask for the problem and not
\* for the contest: with the problem closed to him they show nothing, with it open
\* everything.  (The page of a submission has a rule of its own, CanSeeDetail.)
OthersNeedScoreboard ==
    Dated /\ v.auth /\ t = "running" /\ v.croles \cap {"tester", "subs_viewer"} = {} =>
        \/ CanSeeFullScoreboard(v, c, t, l)
        \/ /\ ~OthersListed(v, c, t, l) /\ ~ContestSubmissionsShown(v, c, t, l, FALSE)
           /\ ~UserSubmissionListed(v, c, t, l, FALSE)
           /\ ~UserContestSubmissionsListed(v, p, c, t, l, FALSE)
           /\ RankingRows(v, c, t, l) # "all" /\ ~RankingTable(v, c, t, l)
           /\ ~OthersParticipations(v, c, t, l) /\ ~UserSearchShown(v, c, t, l)
           /\ ~ApiRankings(v, c, t, l) /\ ~ApiParticipations(v, c, t) /\ ~ApiHistory(v, c, t)
           /\ CourseRankingRows(v, c, t, l) # "all" /\ ~CourseRankingTable(v, c, t, l)
           /\ ~OthersInCourse(v, c, t, l) /\ ~CourseUserSearchShown(v, c, t, l)
           /\ ~IsAccessibleBy(v, p, FALSE) =>
                 ~ApiSubmissionListed(v, p) /\ ~SubmissionRowShown(v, p)

\* What the sitemaps, the feeds, the lists of posts and the API give away opens for everyone.
PublishedIsShown ==
    /\ ProblemPublished(p) \/ ApiSolved(p) => IsAccessibleBy(Guest, p, FALSE)
    /\ SolutionPublished(p) => SolutionAccessible(Guest, p)
    /\ ContestPublished(c) => ContestAccessible(Guest, c)
    /\ CoursePublished(c) => CourseAccessible(Guest, c)
    /\ TheoryListed(x) => TheoryShown(Guest, x)
    /\ PostListed(x) => PostShown(Guest, x)

ProblemLinksLead ==
    LET at(link) == IsAccessibleBy(v, p, FALSE) /\ ProblemLink(v, p, link) IN
    /\ v.auth /\ at("submit") =>
          /\ SubmitShown(v, p, "new") /\ SubmitShown(v, p, "own")
          /\ HasPerm(v, "resubmit_other") => SubmitShown(v, p, "other")
    /\ JudgeChoosable(v, p) => SubmitShown(v, p, "new")
    /\ at("my_submissions") /\ ~OutsideCurrent(v) =>
          UserProblemSubmissionsShown(v, p, c, t, l, TRUE)
    /\ at("submissions") /\ ~OutsideCurrent(v) /\ (IsInContest(v, l) => Started(t)) =>
          ProblemSubmissionsShown(v, p, c, t, l)
    /\ at("editorial") => PageShown(v, [on |-> "solution"], p, c, x, l)
    /\ at("tickets") => ProblemTicketListed(v, p)
    /\ at("edit") => AdminChangesProblem(v, p)
    /\ at("data") => ProblemDataShown(v, p)
    /\ at("manage") => SubmissionsManaged(v, p)

\* One's own submissions always open; these are those of others.
SubmissionLinksLead ==
    v.auth => \A vis \in {"always", "solved", "only_own"}, made \in BOOLEAN :
        LET q == [p EXCEPT !.visibility = vis] IN
        /\ RowViewed(v, q, c, FALSE, made)
                /\ (RowEdited(v, q) => HasPerm(v, "edit_own_problem")) =>
              SubmissionShown(v, q, c, FALSE, made)
        /\ p.public /\ SolveHint(v, q, c, FALSE, made) =>
              SubmissionShown([v EXCEPT !.marks = @ \cup {"solved"}], q, c, FALSE, made)

ContestLinksLead ==
    LET at(tab) == ContestTab(v, c, t, l, tab) /\ ContestShown(v, c, l) IN
    /\ at("stats") => StatsShown(v, t)
    /\ at("ranking") => RankingRows(v, c, t, l) # "none"
    /\ at("edit") /\ HasPerm(v, "edit_own_contest") => AdminChangesContest(v)
    /\ at("moss") => MossShown(v, c, l)
    /\ at("clone") => CloneShown(v, c, l)
    /\ \A tab \in {"virtual", "live", "spectate"} : at(tab) =>
          /\ Entered(l) # {}
          /\ \A ll \in Entered(l) : ll.now = tab /\ UpdateContest(v, c, t, ll) = ll
    /\ RankingRows(v, c, t, l) = "all" /\ c.visible /\ Started(t) =>
          /\ ContestSubmissionsShown(v, c, t, l, FALSE)
          /\ IsAccessibleBy(v, p, FALSE) => UserContestSubmissionsListed(v, p, c, t, l, FALSE)
    /\ ContestProblemLinked(v, p) /\ ~p.org_private /\ ~IsContestEditor(v) =>
          IsAccessibleBy(v, p, FALSE)
    /\ EditorialListed(p) /\ ~p.org_private /\ ~(v.auth /\ v.pcontest # "none") =>
          PageShown(v, [on |-> "solution"], p, c, x, l)

CourseLinksLead ==
    LET at(tab) == CourseTab(v, c, t, l, tab) /\ CourseShown(v, c, l) IN
    /\ at("stats") => CourseStatsShown(v, t)
    /\ at("ranking") => CourseRankingRows(v, c, t, l) # "none"
    /\ at("edit") /\ HasPerm(v, "edit_own_contest") => AdminChangesCourse(v)
    /\ CourseProblemLinked(v, p) /\ ~p.org_private /\ ~IsContestEditor(v) =>
          IsAccessibleBy(v, p, FALSE)

CommentLinksLead ==
    \A k \in [on : CommentedPages, hidden : {FALSE}, old : BOOLEAN, locked : BOOLEAN] :
        LET at(link) == CommentLinked(v, k, link) /\ PageShown(v, k, p, c, x, l) IN
        /\ MayWrite(v) /\ at("reply") => CommentAnswerable(v, k, p, c, x, l)
        /\ topic # "course" /\ at("edit") => CommentEditable(v, k, p, c, x)
        /\ topic # "course" /\ at("votes") => VotesShown(v, k, p, c, x)
        /\ at("hide") => CommentHidable(v)

SiteLinksLead ==
    LET at(link) == HomeLink(v, p, c, link) \/ TheoryHomeLink(v, p, c, link) IN
    /\ at("problem") => IsAccessibleBy(v, p, FALSE)
    /\ at("contest") => ContestAccessible(v, c)
    /\ at("own_ticket") \/ at("ticket") => TicketShown(v, p)
    /\ at("ticket") => IsAccessibleBy(v, p, FALSE) \/ OwnTicket(v)
    /\ PostListed(x) => PostOpened(v, x)
    /\ TheoryListed(x) => TheoryOpened(v, x)
    /\ \A open \in BOOLEAN :
          /\ OrganizationLink(v, open, "edit") => OrganizationEdited(v)
          /\ OrganizationLink(v, open, "requests") => ReviewedRequests(v) # "none"
    /\ KickOffered(v) => OrganizationEdited(v)

\* A link, a tab or a button that a page shows leads to a page that opens - of a
\* problem, the row of a submission, a contest, a course, a comment, the front page, an
\* organization - and whoever is offered to enter a contest is in it at his next request.
\* The conjuncts except those that the code shows in vain: to one who is inside a contest
\* without the problem, the submissions to it, his own too; to one who may edit all
\* problems but not his own; to a contest's editor, or to one outside the organization,
\* the problems that only the contest opens; the work in a contest that is hidden.
LinksLead ==
    /\ topic = "problem" => ProblemLinksLead
    /\ topic \in {"problem", "contest"} => SubmissionLinksLead /\ ContestLinksLead
    /\ topic \in {"problem", "course"} => CourseLinksLead
    /\ CommentLinksLead /\ SiteLinksLead

\* Every permission, role and login adds to what one may see and edit; only staying in a
\* contest is lost by what one gains, not the contest.
Gains == [][
    /\ v' # v
    /\ <<topic, p, c, x, t, v.pcontest>>' = <<topic, p, c, x, t, v.pcontest>>
    /\ v.auth => v'.auth
    /\ v.perms \subseteq v'.perms /\ v.proles \subseteq v'.proles
    /\ v.croles \subseteq v'.croles /\ v.marks \subseteq v'.marks
    =>
    /\ IsAccessibleBy(v, p, FALSE) => IsAccessibleBy(v', p, FALSE)
    /\ IsEditableBy(v, p) => IsEditableBy(v', p)
    /\ SolutionAccessible(v, p) => SolutionAccessible(v', p)
    /\ \A vis \in {"always", "solved", "only_own"} :
          CanSeeDetail(v, [p EXCEPT !.visibility = vis], c, FALSE, FALSE) =>
              CanSeeDetail(v', [p EXCEPT !.visibility = vis], c, FALSE, FALSE)
    /\ ContestAccessible(v, c) => ContestAccessible(v', c)
    /\ ContestEditable(v) => ContestEditable(v')
    /\ CanSeeFullScoreboard(v, c, t, l) => CanSeeFullScoreboard(v', c, t, l)
    /\ TheoryShown(v, x) => TheoryShown(v', x)
    /\ v.auth /\ ProblemSubmissionsShown(v, p, c, t, l) =>
          ProblemSubmissionsShown(v', p, c, t, l)]_vars

\* Time never takes a scoreboard away from who sees it.
FullScoreboardStays == [][
    v' = v /\ c' = c /\ <<t, l>>' # <<t, l>> /\ CanSeeFullScoreboard(v, c, t, l)
        => CanSeeFullScoreboard(v, c, t', l')]_vars
=============================================================================
