---------------------------- MODULE AccessProofs ----------------------------
(***************************************************************************)
(* Theorems about Access: the rules that the code writes several times     *)
(* agree for every set of permissions, roles and marks.                    *)
(***************************************************************************)
EXTENDS Access, TLAPS

-----------------------------------------------------------------------------
(* The state is typed.                                                     *)

\* The middleware only ever takes the viewer out.
LEMMA UpdateContestTyped ==
    ASSUME NEW vv, NEW cc, NEW tt, NEW ll \in Participations
    PROVE  UpdateContest(vv, cc, tt, ll) \in Participations
BY DEF UpdateContest, Participations

LEMMA InitTyped == Init => Typed
BY DEF Init, Typed, Viewers, Problems, Contests, Courses, Boards, Posts, Times, Participations

LEMMA RequestTyped ==
    ASSUME Typed, UNCHANGED <<topic, p, x>>,
           NEW vv \in Viewers, NEW cc \in Contests, NEW tt \in Times,
           NEW ll \in Participations, Request(vv, cc, tt, ll),
           topic = "course" => cc \in Courses
    PROVE  Typed'
BY UpdateContestTyped DEF Typed, Request

LEMMA EnteredTyped ==
    ASSUME Typed, NEW ll \in Entered(l)
    PROVE  ll \in Participations
BY DEF Typed, Entered, Participations

\* Every action keeps every variable in its type.
LEMMA StepTyped == Typed /\ [Next]_vars => Typed'
<1> SUFFICES ASSUME Typed, [Next]_vars PROVE Typed'
    OBVIOUS
<1> USE DEF Typed
<1>1. CASE LogIn
    <2>1. [v EXCEPT !.auth = TRUE] \in Viewers
        BY DEF Viewers
    <2> QED BY <1>1, <2>1, RequestTyped DEF LogIn
<1>2. CASE ChangePermission
    <2>1. PICK perm \in Perms[topic] :
            /\ Request([v EXCEPT !.perms = IF perm \in @ THEN @ \ {perm} ELSE @ \cup {perm}], c, t, l)
            /\ UNCHANGED <<topic, p, x>>
        BY <1>2 DEF ChangePermission
    <2>2. [v EXCEPT !.perms = IF perm \in @ THEN @ \ {perm} ELSE @ \cup {perm}] \in Viewers
        <3>1. perm \in UNION {Perms[s] : s \in Topics}
            OBVIOUS
        <3> QED BY <3>1 DEF Viewers
    <2> QED BY <2>1, <2>2, RequestTyped
<1>3. CASE ChangeProblemRole
    <2>1. PICK role \in ProblemRoles :
            /\ Request([v EXCEPT !.proles = IF role \in @ THEN @ \ {role} ELSE @ \cup {role}], c, t, l)
            /\ UNCHANGED <<topic, p, x>>
        BY <1>3 DEF ChangeProblemRole
    <2>2. [v EXCEPT !.proles = IF role \in @ THEN @ \ {role} ELSE @ \cup {role}] \in Viewers
        BY DEF Viewers
    <2> QED BY <2>1, <2>2, RequestTyped
<1>4. CASE ChangeContestRole
    <2>1. PICK role \in ContestRoles :
            /\ Request([v EXCEPT !.croles = IF role \in @ THEN @ \ {role} ELSE @ \cup {role}], c, t, l)
            /\ UNCHANGED <<topic, p, x>>
        BY <1>4 DEF ChangeContestRole
    <2>2. [v EXCEPT !.croles = IF role \in @ THEN @ \ {role} ELSE @ \cup {role}] \in Viewers
        BY DEF Viewers
    <2> QED BY <2>1, <2>2, RequestTyped
<1>5. CASE ChangeMark
    <2>1. PICK mark \in Marks[topic] :
            /\ Request([v EXCEPT !.marks = IF mark \in @ THEN @ \ {mark} ELSE @ \cup {mark}], c, t, l)
            /\ UNCHANGED <<topic, p, x>>
        BY <1>5 DEF ChangeMark
    <2>2. [v EXCEPT !.marks = IF mark \in @ THEN @ \ {mark} ELSE @ \cup {mark}] \in Viewers
        <3>1. mark \in UNION {Marks[s] : s \in Topics}
            OBVIOUS
        <3> QED BY <3>1 DEF Viewers
    <2> QED BY <2>1, <2>2, RequestTyped
<1>6. CASE ChangeCurrentContest
    <2>1. PICK in \in {"none", "with", "without"} :
            Request([v EXCEPT !.pcontest = in], c, t, l) /\ UNCHANGED <<topic, p, x>>
        BY <1>6 DEF ChangeCurrentContest
    <2>2. [v EXCEPT !.pcontest = in] \in Viewers
        BY DEF Viewers
    <2> QED BY <2>1, <2>2, RequestTyped
<1>7. CASE MakePublic \/ MakePrivate \/ SaveProblem
    BY <1>7 DEF MakePublic, MakePrivate, SaveProblem, Problems
<1>8. CASE SaveContest
    <2>0. UNCHANGED <<topic, p, x>>
        BY <1>8 DEF SaveContest
    <2> DEFINE Toggled == {[c EXCEPT ![f] = ~@] : f \in {"visible", "private", "org_private"}}
               Flagged == {[c EXCEPT !.limit_join = (f = "limit_join"),
                                     !.tester_board = (f = "tester_board"),
                                     !.tester_subs = (f = "tester_subs")] :
                               f \in {"none", "limit_join", "tester_board", "tester_subs"}}
               Boarded == {[c EXCEPT !.board = board] : board \in Boards}
    <2>1. Toggled \subseteq Contests
        BY DEF Contests
    <2>2. Flagged \subseteq Contests
        BY DEF Contests
    <2>3. Boarded \subseteq Contests
        BY DEF Contests
    <2>4. PICK d \in Toggled \cup Flagged \cup Boarded :
                /\ topic = "course" => d \in Courses
                /\ Request(v, d, t, l)
        BY <1>8 DEF SaveContest
    <2> HIDE DEF Toggled, Flagged, Boarded
    <2> QED BY <2>0, <2>1, <2>2, <2>3, <2>4, RequestTyped
<1>9. CASE MakeVisible
    <2>1. [c EXCEPT !.visible = TRUE] \in Contests
        BY DEF Contests
    <2>2. topic = "course" => [c EXCEPT !.visible = TRUE] \in Courses
        BY <2>1 DEF Courses, Contests
    <2> QED BY <1>9, <2>1, <2>2, RequestTyped DEF MakeVisible
<1>10. CASE SavePost
    BY <1>10 DEF SavePost, Posts
<1>11. CASE Tick
    <2>1. CASE Request(v, c, IF t = "before" THEN "running" ELSE "over", l) /\ UNCHANGED <<topic, p, x>>
        <3>1. (IF t = "before" THEN "running" ELSE "over") \in Times
            BY DEF Times
        <3> QED BY <2>1, <3>1, RequestTyped
    <2>2. CASE x' = [x EXCEPT !.published = TRUE] /\ UNCHANGED <<topic, v, p, c, t, l>>
        BY <2>2 DEF Posts
    <2> QED BY <1>11, <2>1, <2>2 DEF Tick
<1>12. CASE TimeOut
    <2>1. [l EXCEPT !.live = "done"] \in Participations /\ [l EXCEPT !.now = "out"] \in Participations
        BY DEF Participations
    <2> QED BY <1>12, <2>1, RequestTyped DEF TimeOut
<1>13. CASE Join
    BY <1>13, EnteredTyped, RequestTyped DEF Join
<1>14. CASE Leave
    <2>1. [l EXCEPT !.now = "out"] \in Participations
        BY DEF Participations
    <2> QED BY <1>14, <2>1, RequestTyped DEF Leave
<1>15. CASE UNCHANGED vars
    BY <1>15 DEF vars
<1> QED BY <1>1, <1>2, <1>3, <1>4, <1>5, <1>6, <1>7, <1>8, <1>9, <1>10, <1>11, <1>12, <1>13,
           <1>14, <1>15 DEF Next

\* The variables keep their types.
THEOREM AlwaysTyped == Spec => []Typed
<1>1. Init => Typed
    BY InitTyped
<1>2. Typed /\ [Next]_vars => Typed'
    BY StepTyped
<1> QED BY <1>1, <1>2, PTL DEF Spec

-----------------------------------------------------------------------------
(* Who is in a contest.                                                    *)

\* How one came to be in: live after the start with a live participation, virtually
\* after the end.  This holds for courses too and needs no middleware.
Came ==
    /\ l.now = "live" => l.live # "none" /\ t # "before"
    /\ l.now = "virtual" => t = "over"

LEMMA RequestCame ==
    ASSUME NEW vv, NEW cc, NEW tt, NEW ll \in Participations, Request(vv, cc, tt, ll),
           ll.now = "live" => ll.live # "none" /\ tt # "before",
           ll.now = "virtual" => tt = "over"
    PROVE  Came'
BY DEF Request, UpdateContest, Came, Participations

LEMMA EnteredCame ==
    ASSUME Typed, NEW ll \in Entered(l), Came
    PROVE  /\ ll.now = "live" => ll.live # "none" /\ t # "before"
           /\ ll.now = "virtual" => t = "over"
BY DEF Typed, Entered, Came, Participations, EndedContest, JoinableOnPage, LiveJoinable, Started

LEMMA StepCame == Typed /\ Came /\ [Next]_vars => Came'
<1> SUFFICES ASSUME Typed, Came, [Next]_vars PROVE Came'
    OBVIOUS
<1>0. /\ l \in Participations
      /\ l.now = "live" => l.live # "none" /\ t # "before"
      /\ l.now = "virtual" => t = "over"
    BY DEF Typed, Came
<1>1. CASE LogIn \/ ChangePermission \/ ChangeProblemRole \/ ChangeContestRole \/ ChangeMark
             \/ ChangeCurrentContest \/ SaveContest \/ MakeVisible
    <2>1. PICK vv, cc : Request(vv, cc, t, l)
        BY <1>1 DEF LogIn, ChangePermission, ChangeProblemRole, ChangeContestRole, ChangeMark,
                    ChangeCurrentContest, SaveContest, MakeVisible
    <2> QED BY <1>0, <2>1, RequestCame
<1>2. CASE MakePublic \/ MakePrivate \/ SaveProblem \/ SavePost \/ UNCHANGED vars
    BY <1>2 DEF MakePublic, MakePrivate, SaveProblem, SavePost, vars, Came
<1>3. CASE Tick
    <2>1. CASE t # "over" /\ Request(v, c, IF t = "before" THEN "running" ELSE "over", l)
        BY <1>0, <2>1, RequestCame
    <2>2. CASE UNCHANGED <<topic, v, p, c, t, l>>
        BY <2>2 DEF Came
    <2> QED BY <1>3, <2>1, <2>2 DEF Tick
<1>4. CASE TimeOut
    <2>1. CASE l.live = "running" /\ t = "running" /\ Request(v, c, t, [l EXCEPT !.live = "done"])
        <3>1. [l EXCEPT !.live = "done"] \in Participations
            BY <1>0 DEF Participations
        <3>2. /\ [l EXCEPT !.live = "done"].live = "done"
              /\ [l EXCEPT !.live = "done"].now = l.now
            BY <1>0 DEF Participations
        <3> QED BY <1>0, <2>1, <3>1, <3>2, RequestCame
    <2>2. CASE Request(v, c, t, [l EXCEPT !.now = "out"])
        <3>1. [l EXCEPT !.now = "out"] \in Participations /\ [l EXCEPT !.now = "out"].now = "out"
            BY <1>0 DEF Participations
        <3> QED BY <2>2, <3>1, RequestCame
    <2> QED BY <1>4, <2>1, <2>2 DEF TimeOut
<1>5. CASE Join
    <2>1. PICK ll \in Entered(l) : Request(v, c, t, ll)
        BY <1>5 DEF Join
    <2> QED BY <2>1, EnteredTyped, EnteredCame, RequestCame
<1>6. CASE Leave
    <2>1. [l EXCEPT !.now = "out"] \in Participations /\ [l EXCEPT !.now = "out"].now = "out"
        BY <1>0 DEF Participations
    <2> QED BY <1>6, <2>1, RequestCame DEF Leave
<1> QED BY <1>1, <1>2, <1>3, <1>4, <1>5, <1>6 DEF Next

\* The second part of AccessTypeOK.
Placed ==
    topic = "contest" /\ IsInContest(v, l) =>
        /\ ContestAccessible(v, c)
        /\ l.now = "live" => l.live = "running" /\ t = "running"
        /\ l.now = "spectate" => t # "over"
        /\ l.now = "virtual" => t = "over"

\* The middleware leaves one in only where that is right.
LEMMA RequestPlaced ==
    ASSUME UNCHANGED topic, NEW vv, NEW cc, NEW tt, NEW ll, Request(vv, cc, tt, ll),
           Typed', Came'
    PROVE  Placed'
<1> SUFFICES ASSUME topic = "contest", vv.auth, l'.now # "out"
             PROVE  /\ ContestAccessible(vv, cc)
                    /\ l'.now = "live" => l'.live = "running" /\ tt = "running"
                    /\ l'.now = "spectate" => tt # "over"
                    /\ l'.now = "virtual" => tt = "over"
    BY DEF Request, Placed, IsInContest
<1>1. l' = UpdateContest(vv, cc, tt, ll) /\ t' = tt
    BY DEF Request
<1>2. ll.now # "out"
    BY <1>1 DEF UpdateContest
<1>3. ~ParticipationEnded(tt, ll) /\ ContestAccessible(vv, cc)
    <2>1. CASE ParticipationEnded(tt, ll) \/ ~ContestAccessible(vv, cc)
        <3>1. l' = [ll EXCEPT !.now = "out"]
            BY <1>1, <1>2, <2>1 DEF UpdateContest
        <3>2. l' \in Participations
            BY DEF Typed
        <3> QED BY <3>1, <3>2 DEF Participations
    <2> QED BY <2>1
<1>4. l' = ll
    BY <1>1, <1>3 DEF UpdateContest
<1> QED BY <1>1, <1>3, <1>4 DEF ParticipationEnded, EndedContest, Came, Typed, Participations, Times

LEMMA StepPlaced == Typed /\ Came /\ Placed /\ [Next]_vars => Placed'
<1> SUFFICES ASSUME Typed, Came, Placed, [Next]_vars PROVE Placed'
    OBVIOUS
<1>1. Typed' /\ Came'
    BY StepTyped, StepCame
<1>2. CASE UNCHANGED topic /\ \E vv, cc, tt, ll : Request(vv, cc, tt, ll)
    BY <1>1, <1>2, RequestPlaced
<1>3. CASE UNCHANGED topic /\ topic \in {"problem", "post"}
    BY <1>3 DEF Placed
<1>4. CASE UNCHANGED vars
    BY <1>4 DEF Placed, vars, IsInContest, ContestAccessible, SeesAllContests, HasPerm, Is,
                IsContestEditor, IsContestTester, Named, Admitted
<1> QED BY <1>2, <1>3, <1>4 DEF Next, LogIn, ChangePermission, ChangeProblemRole, ChangeContestRole,
            ChangeMark, ChangeCurrentContest, SaveContest, MakeVisible, MakePublic, MakePrivate,
            SaveProblem, SavePost, Tick, TimeOut, Join, Leave

\* At every request the viewer is in a contest only if he may see it and its time and his
\* allow it: what ContestMiddleware is for.
THEOREM AlwaysPlaced == Spec => []AccessTypeOK
<1>1. Init => Typed /\ Came /\ Placed
    BY InitTyped DEF Init, Came, Placed, IsInContest
<1>2. (Typed /\ Came /\ Placed) /\ [Next]_vars => (Typed /\ Came /\ Placed)'
    BY StepTyped, StepCame, StepPlaced
<1>3. Typed /\ Came /\ Placed => AccessTypeOK
    BY DEF AccessTypeOK, Placed
<1> QED BY <1>1, <1>2, <1>3, PTL DEF Spec

-----------------------------------------------------------------------------
(* The rules agree.                                                        *)

LEMMA ProblemRulesAgree == Typed => ProblemListAgrees
<1> SUFFICES ASSUME Typed PROVE ProblemListAgrees
    OBVIOUS
<1>1. /\ v.auth \in BOOLEAN /\ v.proles \subseteq {"author", "curator", "tester"}
      /\ p.public \in BOOLEAN /\ p.org_private \in BOOLEAN
    BY ProblemRolesAssumption DEF Typed, Viewers, Problems
<1>2. v.auth => (v.proles # {} <=> IsEditor(v) \/ IsTester(v))
    BY <1>1 DEF IsEditor, IsTester
<1>3. VisibleProblems(v, p) <=> IsAccessibleBy(v, p, TRUE)
    BY <1>1, <1>2 DEF VisibleProblems, IsAccessibleBy, IsEditableBy, PublicProblems,
                      EditAll, EditPublic, HasPerm, Is, IsEditor, IsTester
<1> QED BY <1>3 DEF ProblemListAgrees, ApiProblemListed, ApiProblemShown, ProblemFound

\* The list, the search and the API find exactly the problems whose page opens.
THEOREM ProblemListsAgree == Spec => []ProblemListAgrees
BY AlwaysTyped, ProblemRulesAgree, PTL

LEMMA EditRulesAgree == Typed => EditListAgrees
BY DEF Typed, Viewers, Problems, EditListAgrees, EditableProblems, IsEditableBy, TicketListed, TicketShown,
       FilterVisibleTickets, OwnTicket, HasPerm, Is, IsEditor, AdminListsContest, AdminChangesContest,
       ContestEditable, AdminListsCourse, AdminChangesCourse, CourseEditable, AdminListsTheory,
       TheoryEditable, AdminListsPost, PostEditable, AdminListsTest, TestEditable,
       AdminListsOrganization, AdminChangesOrganization, AdminListsClass, AdminChangesClass,
       ReviewedRequests, OrganizationEditable, RequestShown

\* The editable problems are those one may edit, the tickets listed those one may read.
THEOREM EditListsAgree == Spec => []EditListAgrees
BY AlwaysTyped, EditRulesAgree, PTL

LEMMA ListedRule == Typed => ListedIsAccessible
<1> SUFFICES ASSUME Typed PROVE ListedIsAccessible
    OBVIOUS
<1>1. /\ v.auth \in BOOLEAN /\ v.proles \subseteq {"author", "curator", "tester"}
      /\ p.public \in BOOLEAN /\ p.org_private \in BOOLEAN
    BY ProblemRolesAssumption DEF Typed, Viewers, Problems
<1>2. v.auth /\ v.proles # {} => IsEditor(v) \/ IsTester(v)
    BY <1>1 DEF IsEditor, IsTester
<1>3. ProblemListed(v, p) \/ NormalQueryset(v, p) => IsAccessibleBy(v, p, FALSE)
    BY <1>1, <1>2 DEF ProblemListed, NormalQueryset, IsAccessibleBy, HasPerm, Is
<1>4. IsEditableBy(v, p) => IsAccessibleBy(v, p, FALSE)
    BY <1>1 DEF IsAccessibleBy
<1>5. ApiSubmissionListed(v, p) => IsAccessibleBy(v, p, FALSE)
    BY ProblemRulesAgree DEF ProblemListAgrees, ApiSubmissionListed, IsAccessibleBy
<1> QED BY <1>3, <1>4, <1>5 DEF ListedIsAccessible, ProblemFileShown, ProblemDataShown, SubmissionDiffShown,
                      ProblemTicketListed, TicketCreatable, AllRejudgeable, SubmissionsManaged

\* A problem on the list opens, in a contest and outside.
THEOREM ListedProblemsOpen == Spec => []ListedIsAccessible
BY AlwaysTyped, ListedRule, PTL

LEMMA RejudgeRule == Typed => RejudgedIsManageable
BY DEF Typed, Viewers, Problems, RejudgedIsManageable, AdminRejudges, AdminRejudgesOne, IsSubsManageableBy,
       IsEditableBy, HasPerm, Is, IsEditor, AdminListsSubmission, AdminChangesSubmission

\* Staff who rejudge from the administration may rejudge from the site.
THEOREM RejudgedAreManageable == Spec => []RejudgedIsManageable
BY AlwaysTyped, RejudgeRule, PTL

LEMMA ContestRulesAgree == Typed => ContestListAgrees
<1> SUFFICES ASSUME Typed PROVE ContestListAgrees
    OBVIOUS
<1>1. /\ v.auth \in BOOLEAN /\ c.visible \in BOOLEAN
      /\ c.private \in BOOLEAN /\ c.org_private \in BOOLEAN
    BY DEF Typed, Viewers, Contests
<1>2. Named(v, {"author", "curator", "tester", "spectator"}) <=>
        IsContestEditor(v) \/ IsContestTester(v) \/ Named(v, {"spectator"})
    BY DEF Named, IsContestEditor, IsContestTester
<1>3. VisibleContests(v, c) <=> ContestAccessible(v, c)
    BY <1>1, <1>2 DEF VisibleContests, ContestAccessible, Admitted, Is
<1>4. ContestEditable(v) => ContestAccessible(v, c)
    BY DEF ContestEditable, ContestAccessible, SeesAllContests, HasPerm, IsContestEditor, Named
<1>5. CourseCloneShown(v, c, l) => ContestAccessible(v, c)
    BY DEF CourseCloneShown, ContestAccessible, SeesAllContests, HasPerm, Is
<1> QED BY <1>3, <1>4, <1>5
        DEF ContestListAgrees, VisibleCourses, CourseAccessible, ContestFound, CourseFound, ContestShown,
            CourseShown, StatsShown, CourseStatsShown, CourseEditable, ApiProblems, MossShown, CloneShown,
            ApiContestListed, ApiContestShown

\* The lists of contests and courses have exactly those whose page opens.
THEOREM ContestListsAgree == Spec => []ContestListAgrees
BY AlwaysTyped, ContestRulesAgree, PTL

LEMMA JoinRulesAgree == Typed => JoinLinkAgrees
BY DEF Typed, Viewers, Participations, Times, JoinLinkAgrees, InCurrentList, JoinableInList, JoinableOnPage,
       CourseInCurrentList, CourseJoinableInList, CourseJoinableOnPage, VisibleCourses,
       CourseLiveJoinable, LiveJoinable, HasCompletedCourse, HasCompletedContest, EndedContest

\* What a list offers to join is what the page offers.
THEOREM JoinLinksAgree == Spec => []JoinLinkAgrees
BY AlwaysTyped, JoinRulesAgree, PTL

LEMMA BoardRule == Typed => OthersNeedScoreboard
<1> SUFFICES ASSUME Typed, Dated, v.auth, t = "running",
                    v.croles \cap {"tester", "subs_viewer"} = {},
                    ~CanSeeFullScoreboard(v, c, t, l)
             PROVE  /\ ~OthersListed(v, c, t, l) /\ ~ContestSubmissionsShown(v, c, t, l, FALSE)
                    /\ ~UserSubmissionListed(v, c, t, l, FALSE)
                    /\ ~UserContestSubmissionsListed(v, p, c, t, l, FALSE)
                    /\ RankingRows(v, c, t, l) # "all" /\ ~RankingTable(v, c, t, l)
                    /\ ~OthersParticipations(v, c, t, l) /\ ~UserSearchShown(v, c, t, l)
                    /\ ~ApiRankings(v, c, t, l) /\ ~ApiParticipations(v, c, t) /\ ~ApiHistory(v, c, t)
                    /\ CourseRankingRows(v, c, t, l) # "all" /\ ~CourseRankingTable(v, c, t, l)
                    /\ ~OthersInCourse(v, c, t, l) /\ ~CourseUserSearchShown(v, c, t, l)
                    /\ ~IsAccessibleBy(v, p, FALSE) =>
                          ~ApiSubmissionListed(v, p) /\ ~SubmissionRowShown(v, p)
    BY DEF OthersNeedScoreboard
<1>1. ~Named(v, {"author", "curator", "subs_viewer"}) /\ ~IsContestTester(v)
    BY DEF CanSeeFullScoreboard, IsContestEditor, IsContestTester, Named
<1>2. c.board # "visible" /\ ~EndedContest(t)
    BY DEF CanSeeFullScoreboard, ShowScoreboard, Started, EndedContest
<1>3. ~SubmissionsOfContest(v, c, t)
    BY <1>1, <1>2 DEF SubmissionsOfContest
<1>4. ~HasPerm(v, "see_private_contest") /\ ~IsContestEditor(v) /\ ~Named(v, {"board_viewer"})
    BY DEF CanSeeFullScoreboard, SeesAllContests
<1>5. ~OthersListed(v, c, t, l)
    BY <1>3, <1>4 DEF OthersListed
<1>6. ~ApiParticipations(v, c, t) /\ ~ApiHistory(v, c, t)
    BY <1>2, <1>4 DEF ApiParticipations, ApiHistory
<1>7. ApiSubmissionListed(v, p) => IsAccessibleBy(v, p, FALSE)
    BY ProblemRulesAgree DEF ProblemListAgrees, ApiSubmissionListed, IsAccessibleBy
<1>8. ~IsAccessibleBy(v, p, FALSE) => ~ApiSubmissionListed(v, p) /\ ~SubmissionRowShown(v, p)
    BY <1>7 DEF SubmissionRowShown
<1> QED BY <1>5, <1>6, <1>8 DEF ContestSubmissionsShown, UserSubmissionListed,
                      UserContestSubmissionsListed, RankingRows, RankingTable, OthersParticipations,
                      UserSearchShown, ApiRankings, ApiContestShown, CourseRankingRows, CourseRankingTable, OthersInCourse,
                      CourseUserSearchShown, CourseCanSeeFullScoreboard

\* During a contest the work of others is seen through the scoreboard or not at all.
THEOREM OthersSeenOnScoreboard == Spec => []OthersNeedScoreboard
BY AlwaysTyped, BoardRule, PTL

LEMMA PublishedRule == Typed => PublishedIsShown
BY DEF Typed, Posts, Problems, Contests, PublishedIsShown, ProblemPublished, ApiSolved, PublicProblems, IsAccessibleBy, Guest,
       SolutionPublished, SolutionAccessible, ContestPublished, ContestAccessible, CoursePublished,
       CourseAccessible, TheoryListed, TheoryShown, PostListed, PostShown

\* What sitemaps, feeds and lists give away opens for guests.
THEOREM PublishedIsOpen == Spec => []PublishedIsShown
BY AlwaysTyped, PublishedRule, PTL

\* Where a comment stands.
Stands == {"problem", "solution", "contest", "post", "theory"}

\* Two more marks of the viewer, of someone who solved a problem and wrote the comment,
\* change nothing in what opens for him.
LEMMA AuthorSeesTheSame ==
    ASSUME Typed, NEW w, w = [v EXCEPT !.marks = @ \cup {"any_solves", "comment_author"}]
    PROVE  /\ w.auth = v.auth /\ w.perms = v.perms /\ w.proles = v.proles
           /\ w.croles = v.croles /\ w.pcontest = v.pcontest
           /\ v.auth => Is(w, "comment_author")
           /\ \A k, ll : k.on \in Stands =>
                 /\ CommentAccessible(w, k, p, c, x) <=> CommentAccessible(v, k, p, c, x)
                 /\ PageShown(w, k, p, c, x, ll) <=> PageShown(v, k, p, c, x, ll)
<1>1. /\ w.auth = v.auth /\ w.perms = v.perms /\ w.proles = v.proles
      /\ w.croles = v.croles /\ w.pcontest = v.pcontest
      /\ w.marks = v.marks \cup {"any_solves", "comment_author"}
    BY DEF Typed, Viewers
<1>2. \A m : m \notin {"any_solves", "comment_author"} => (Is(w, m) <=> Is(v, m))
    BY <1>1 DEF Is
<1>3. \A perm : HasPerm(w, perm) <=> HasPerm(v, perm)
    BY <1>1, <1>2 DEF HasPerm
<1>4. /\ IsEditor(w) <=> IsEditor(v)
      /\ IsTester(w) <=> IsTester(v)
      /\ \A roles : Named(w, roles) <=> Named(v, roles)
    BY <1>1 DEF IsEditor, IsTester, Named
<1>5. IsEditableBy(w, p) <=> IsEditableBy(v, p)
    BY <1>1, <1>2, <1>3, <1>4 DEF IsEditableBy
<1>6. IsAccessibleBy(w, p, FALSE) <=> IsAccessibleBy(v, p, FALSE)
    BY <1>1, <1>2, <1>3, <1>4, <1>5 DEF IsAccessibleBy
<1>7. /\ SolutionAccessible(w, p) <=> SolutionAccessible(v, p)
      /\ SolutionShown(w, p) <=> SolutionShown(v, p)
    BY <1>1, <1>3, <1>5 DEF SolutionAccessible, SolutionShown
<1>8. ContestAccessible(w, c) <=> ContestAccessible(v, c)
    BY <1>1, <1>2, <1>3, <1>4 DEF ContestAccessible, SeesAllContests, IsContestEditor,
                                 IsContestTester, Admitted
<1>9. \A ll : ContestShown(w, c, ll) <=> ContestShown(v, c, ll)
    BY <1>1, <1>8 DEF ContestShown, IsInContest
<1>10. /\ PostShown(w, x) <=> PostShown(v, x)
       /\ TheoryShown(w, x) <=> TheoryShown(v, x)
    BY <1>2, <1>3 DEF PostShown, TheoryShown, PostEditable, TheoryEditable
<1>11. v.auth => Is(w, "comment_author")
    BY <1>1 DEF Is
<1>12. ASSUME NEW k, NEW ll, k.on \in Stands
       PROVE  /\ CommentAccessible(w, k, p, c, x) <=> CommentAccessible(v, k, p, c, x)
              /\ PageShown(w, k, p, c, x, ll) <=> PageShown(v, k, p, c, x, ll)
    BY <1>6, <1>7, <1>8, <1>9, <1>10, <1>12 DEF CommentAccessible, PageShown, Stands
<1> QED BY <1>1, <1>11, <1>12

\* Problems, posts and organizations have nobody inside.
Outside == ~Dated => l.now = "out"

\* Only joining takes the viewer in, and only contests and courses are joined.
LEMMA StepOutside == Typed /\ Outside /\ [Next]_vars => Outside'
<1> SUFFICES ASSUME Typed, Outside, [Next]_vars, ~Dated'
             PROVE  l'.now = "out"
    BY DEF Outside
<1>1. topic' = topic /\ ~Dated /\ l.now = "out"
    BY DEF Next, vars, LogIn, ChangePermission, ChangeProblemRole, ChangeContestRole, ChangeMark,
           ChangeCurrentContest, SaveContest, MakeVisible, MakePublic, MakePrivate, SaveProblem,
           SavePost, Tick, TimeOut, Join, Leave, Outside, Dated
<1>2. l' = l
    BY <1>1 DEF Next, vars, LogIn, ChangePermission, ChangeProblemRole, ChangeContestRole, ChangeMark,
           ChangeCurrentContest, SaveContest, MakeVisible, MakePublic, MakePrivate, SaveProblem,
           SavePost, Tick, TimeOut, Join, Leave, Dated, Request, UpdateContest
<1> QED BY <1>1, <1>2

\* A page that opens gives away its comments; for contests it takes the middleware, which
\* keeps nobody inside a contest that is closed to him.
LEMMA PageGivesComments ==
    ASSUME Placed, Outside, topic # "course", NEW k, k.on \in Stands,
           PageShown(v, k, p, c, x, l)
    PROVE  CommentAccessible(v, k, p, c, x)
BY DEF Stands, CommentAccessible, PageShown, SolutionAccessible, SolutionShown,
       ContestShown, IsInContest, Placed, Outside, Dated

LEMMA CommentRule == Typed /\ Placed /\ Outside => CommentsFollowPages
<1> SUFFICES ASSUME Typed, Placed, Outside
             PROVE  CommentsFollowPages
    OBVIOUS
<1>0. PICK w : w = [v EXCEPT !.marks = @ \cup {"any_solves", "comment_author"}]
    OBVIOUS
<1>1. /\ w.auth = v.auth
      /\ v.auth => Is(w, "comment_author")
      /\ \A k, ll : k.on \in Stands =>
            /\ CommentAccessible(w, k, p, c, x) <=> CommentAccessible(v, k, p, c, x)
            /\ PageShown(w, k, p, c, x, ll) <=> PageShown(v, k, p, c, x, ll)
    BY <1>0, AuthorSeesTheSame
<1> SUFFICES ASSUME NEW k \in [on : CommentedPages, hidden : {FALSE}, old : BOOLEAN,
                               locked : BOOLEAN]
             PROVE  /\ v.pcontest = "none" /\ MostRecent(v, k, p, c, x)
                         => PageShown(v, k, p, c, x, l)
                    /\ VotesShown(v, k, p, c, x)
                         => RevisionsShown(v, k, p, c, x) /\ CommentHidable(v)
                    /\ CommentAnswerable(v, k, p, c, x, l)
                         => Is(v, "comment_author") \/ CommentVotable(v, k)
                    /\ topic # "course" /\ CommentAnswerable(w, k, p, c, x, l)
                         => CommentEditable(w, k, p, c, x)
    BY <1>0 DEF CommentsFollowPages
<1>3. k.hidden = FALSE /\ k.on \in Stands
    BY DEF Stands, CommentedPages
<1>4. v.pcontest = "none" /\ MostRecent(v, k, p, c, x) => PageShown(v, k, p, c, x, l)
    BY <1>3 DEF Stands, MostRecent, CommentAccessible, PageShown, SolutionAccessible, SolutionShown,
                ContestShown
<1>5. topic # "course" /\ PageShown(v, k, p, c, x, l) => CommentAccessible(v, k, p, c, x)
    BY <1>3, PageGivesComments
<1>6. VotesShown(v, k, p, c, x) => RevisionsShown(v, k, p, c, x) /\ CommentHidable(v)
    BY DEF VotesShown, RevisionsShown, CommentHidable
<1>7. CommentAnswerable(v, k, p, c, x, l) => Is(v, "comment_author") \/ CommentVotable(v, k)
    BY DEF CommentAnswerable, CommentVotable
<1>8. topic # "course" /\ CommentAnswerable(w, k, p, c, x, l)
        => CommentEditable(w, k, p, c, x)
    BY <1>1, <1>3, <1>5 DEF CommentAnswerable, CommentEditable, MayWrite
<1> QED BY <1>4, <1>6, <1>7, <1>8

\* Comments are shown, answered and edited where their page opens.
THEOREM CommentsFollow == Spec => []CommentsFollowPages
<1>1. Init => Typed /\ Came /\ Placed /\ Outside
    BY InitTyped DEF Init, Came, Placed, Outside, IsInContest
<1>2. Typed /\ Came /\ Placed /\ Outside /\ [Next]_vars => (Typed /\ Came /\ Placed /\ Outside)'
    BY StepTyped, StepCame, StepPlaced, StepOutside
<1> QED BY <1>1, <1>2, CommentRule, PTL DEF Spec

-----------------------------------------------------------------------------
(* Links lead to pages that open.                                          *)

\* The problem page's links repeat the rules of the pages that they lead to.
LEMMA ProblemLinks == Typed => ProblemLinksLead
<1> SUFFICES ASSUME Typed PROVE ProblemLinksLead
    OBVIOUS
<1>1. EditableProblems(v, p) <=> IsEditableBy(v, p)
    BY DEF Typed, Viewers, Problems, EditableProblems, IsEditableBy, HasPerm, IsEditor, Is
<1>2. IsEditableBy(v, p) => v.auth /\ IsAccessibleBy(v, p, FALSE)
    BY DEF IsEditableBy, IsAccessibleBy, HasPerm
<1>3. IsInContest(v, l) /\ Started(t) => CanSeeOwnScoreboard(v, c, t, l)
    BY DEF CanSeeOwnScoreboard
<1>4. OwnTicket(v) => TicketListed(v, p)
    BY DEF OwnTicket, TicketListed, FilterVisibleTickets, Is
<1>5. IsEditableBy(v, p) => ProblemTicketListed(v, p)
    BY <1>1, <1>2 DEF ProblemTicketListed, TicketListed, FilterVisibleTickets
<1>6. IsAccessibleBy(v, p, FALSE) /\ ProblemLink(v, p, "tickets") => ProblemTicketListed(v, p)
    BY <1>4, <1>5 DEF ProblemLink, ProblemTicketListed
<1>7. IsAccessibleBy(v, p, FALSE) /\ ProblemLink(v, p, "editorial")
        => PageShown(v, [on |-> "solution"], p, c, x, l)
    BY DEF ProblemLink, PageShown, SolutionShown, SolutionAccessible
<1>8. IsAccessibleBy(v, p, FALSE) /\ ~OutsideCurrent(v) /\ (IsInContest(v, l) => Started(t))
        => ProblemSubmissionsShown(v, p, c, t, l)
    BY <1>3 DEF ProblemSubmissionsShown
<1>9. ProblemLink(v, p, "edit") \/ ProblemLink(v, p, "data") => IsEditableBy(v, p)
    BY DEF ProblemLink
<1>10. IsAccessibleBy(v, p, FALSE) /\ ProblemLink(v, p, "manage") => SubmissionsManaged(v, p)
    BY DEF ProblemLink, SubmissionsManaged
<1> QED BY <1>2, <1>6, <1>7, <1>8, <1>9, <1>10
        DEF ProblemLinksLead, SubmitShown, JudgeChoosable, UserProblemSubmissionsShown,
            AdminChangesProblem, ProblemDataShown

\* What a row of the list of submissions takes the viewer for, the submission takes him
\* for too.
LEMMA SubmissionLinks == Typed => SubmissionLinksLead
<1> SUFFICES ASSUME Typed, NEW vis \in {"always", "solved", "only_own"},
                    NEW made \in BOOLEAN,
                    NEW q, q = [p EXCEPT !.visibility = vis]
             PROVE  /\ v.auth /\ RowViewed(v, q, c, FALSE, made)
                            /\ (RowEdited(v, q) => HasPerm(v, "edit_own_problem"))
                         => SubmissionShown(v, q, c, FALSE, made)
                    /\ SolveHint(v, q, c, FALSE, made) /\ p.public
                         => SubmissionShown([v EXCEPT !.marks = @ \cup {"solved"}], q, c, FALSE, made)
    BY DEF SubmissionLinksLead
<1>1. q.visibility = vis /\ q.public = p.public /\ q.org_private = p.org_private
    BY DEF Typed, Problems
<1>2. RowEdited(v, q) /\ HasPerm(v, "edit_own_problem") => IsEditableBy(v, q)
    BY DEF RowEdited, EditableProblems, IsEditableBy
<1>3. v.auth /\ RowViewed(v, q, c, FALSE, made) /\ ~RowEdited(v, q)
        => CanSeeDetail(v, q, c, FALSE, made)
    BY <1>1 DEF RowViewed, CanSeeDetail, IsContestEditor, Named
<1>4. v.auth /\ IsEditableBy(v, q) => CanSeeDetail(v, q, c, FALSE, made)
    BY DEF CanSeeDetail
<1>5. PICK w : w = [v EXCEPT !.marks = @ \cup {"solved"}]
    OBVIOUS
<1>6. w.auth = v.auth /\ (v.auth => Is(w, "solved"))
    BY <1>5 DEF Typed, Viewers, Is
<1>7. SolveHint(v, q, c, FALSE, made) /\ p.public => SubmissionShown(w, q, c, FALSE, made)
    BY <1>1, <1>6 DEF SolveHint, SubmissionShown, CanSeeDetail
<1> QED BY <1>2, <1>3, <1>4, <1>5, <1>7 DEF SubmissionShown

\* Whoever is offered to enter a contest enters it as he is told and stays.
LEMMA EntryOffered ==
    ASSUME Typed, NEW tab \in {"virtual", "live", "spectate"},
           ContestShown(v, c, l), ContestTab(v, c, t, l, tab)
    PROVE  /\ Entered(l) # {}
           /\ \A ll \in Entered(l) : ll.now = tab /\ UpdateContest(v, c, t, ll) = ll
<1>1. v.auth /\ ~IsInContest(v, l)
    BY DEF ContestTab
<1>2. ContestAccessible(v, c)
    BY <1>1 DEF ContestShown
<1>3. CASE tab = "virtual"
    <2>1. EndedContest(t)
        BY <1>3 DEF ContestTab
    <2>2. Entered(l) = {[l EXCEPT !.now = "virtual"]}
        BY <2>1 DEF Entered
    <2> QED BY <1>2, <1>3, <2>2 DEF UpdateContest, ParticipationEnded, Typed, Participations
<1>4. CASE tab = "live"
    <2>1. ~EndedContest(t) /\ JoinableOnPage(v, c, t, l)
        BY <1>4 DEF ContestTab
    <2>2. Entered(l) = {[live |-> "running", now |-> "live"]}
        BY <2>1 DEF Entered
    <2> QED BY <1>2, <1>4, <2>1, <2>2 DEF UpdateContest, ParticipationEnded
<1>5. CASE tab = "spectate"
    <2>1. ~EndedContest(t) /\ ~JoinableOnPage(v, c, t, l) /\ Spectatable(v, c)
        BY <1>5 DEF ContestTab
    <2>2. Entered(l) = {[l EXCEPT !.now = "spectate"]}
        BY <2>1 DEF Entered, CourseSpectatable
    <2> QED BY <1>2, <1>5, <2>1, <2>2 DEF UpdateContest, ParticipationEnded, Typed, Participations
<1> QED BY <1>3, <1>4, <1>5

\* The problems and the editorials that a contest lists.
LEMMA ListedProblems ==
    /\ ContestProblemLinked(v, p) /\ ~p.org_private /\ ~IsContestEditor(v)
         => IsAccessibleBy(v, p, FALSE)
    /\ EditorialListed(p) /\ ~p.org_private /\ ~(v.auth /\ v.pcontest # "none")
         => PageShown(v, [on |-> "solution"], p, c, x, l)
BY DEF ContestProblemLinked, IsAccessibleBy, EditorialListed, PageShown, SolutionShown, HasPerm, Is

LEMMA ContestLinks == Typed => ContestLinksLead
<1> SUFFICES ASSUME Typed PROVE ContestLinksLead
    OBVIOUS
<1>1. /\ ContestTab(v, c, t, l, "stats") => StatsShown(v, t)
      /\ ContestTab(v, c, t, l, "ranking") => RankingRows(v, c, t, l) # "none"
      /\ ContestTab(v, c, t, l, "edit") => ContestEditable(v)
      /\ ContestTab(v, c, t, l, "moss") => ContestEditable(v) /\ HasPerm(v, "moss_contest")
      /\ ContestTab(v, c, t, l, "clone") => HasPerm(v, "clone_contest")
    BY DEF ContestTab, StatsShown, RankingRows
<1>2. ASSUME RankingRows(v, c, t, l) = "all", c.visible, Started(t)
      PROVE  /\ ContestSubmissionsShown(v, c, t, l, FALSE)
             /\ IsAccessibleBy(v, p, FALSE) => UserContestSubmissionsListed(v, p, c, t, l, FALSE)
    <2>1. CanSeeFullScoreboard(v, c, t, l) /\ CanSeeOwnScoreboard(v, c, t, l)
        BY <1>2 DEF RankingRows
    <2> QED BY <1>2, <2>1 DEF ContestSubmissionsShown, UserContestSubmissionsListed,
                              UserContestSubmissionsShown
<1> QED BY <1>1, <1>2, EntryOffered, ListedProblems
        DEF ContestLinksLead, AdminChangesContest, MossShown, CloneShown

LEMMA CourseLinks == Typed => CourseLinksLead
<1>1. /\ CourseTab(v, c, t, l, "stats") => CourseStatsShown(v, t)
      /\ CourseTab(v, c, t, l, "ranking") => CourseRankingRows(v, c, t, l) # "none"
      /\ CourseTab(v, c, t, l, "edit") => CourseEditable(v)
    BY DEF CourseTab, ContestTab, CourseStatsShown, CourseEditable, CourseRankingRows,
           CourseCanSeeOwnScoreboard, CourseCanSeeFullScoreboard
<1> QED BY <1>1, ListedProblems DEF CourseLinksLead, AdminChangesCourse, CourseProblemLinked

LEMMA CommentLinks == Typed /\ Placed /\ Outside => CommentLinksLead
<1> SUFFICES ASSUME Typed, Placed, Outside,
                    NEW k \in [on : CommentedPages, hidden : {FALSE}, old : BOOLEAN,
                               locked : BOOLEAN],
                    PageShown(v, k, p, c, x, l)
             PROVE  /\ CommentLinked(v, k, "reply") /\ MayWrite(v) => CommentAnswerable(v, k, p, c, x, l)
                    /\ topic # "course" /\ CommentLinked(v, k, "edit") => CommentEditable(v, k, p, c, x)
                    /\ topic # "course" /\ CommentLinked(v, k, "votes") => VotesShown(v, k, p, c, x)
                    /\ CommentLinked(v, k, "hide") => CommentHidable(v)
    BY DEF CommentLinksLead
<1>1. k.hidden = FALSE /\ k.on \in Stands
    BY DEF Stands, CommentedPages
<1>2. topic # "course" => CommentAccessible(v, k, p, c, x)
    BY <1>1, PageGivesComments
<1>3. CommentLinked(v, k, "reply") /\ MayWrite(v) => CommentAnswerable(v, k, p, c, x, l)
    BY <1>1 DEF CommentLinked, CommentAnswerable
<1>4. topic # "course" /\ CommentLinked(v, k, "edit") => CommentEditable(v, k, p, c, x)
    BY <1>1, <1>2 DEF CommentLinked, CommentEditable
<1>5. topic # "course" /\ CommentLinked(v, k, "votes") => VotesShown(v, k, p, c, x)
    BY <1>2 DEF CommentLinked, VotesShown
<1>6. CommentLinked(v, k, "hide") => CommentHidable(v)
    BY DEF CommentLinked, CommentHidable
<1> QED BY <1>3, <1>4, <1>5, <1>6

LEMMA SiteLinks == Typed => SiteLinksLead
<1> SUFFICES ASSUME Typed PROVE SiteLinksLead
    OBVIOUS
<1>1. HomeLink(v, p, c, "problem") => IsAccessibleBy(v, p, FALSE)
    BY DEF HomeLink, PublicProblems, IsAccessibleBy
<1>2. HomeLink(v, p, c, "contest") => ContestAccessible(v, c)
    BY ContestRulesAgree DEF HomeLink, ContestListAgrees
<1>3. EditableProblems(v, p) => IsEditableBy(v, p)
    BY DEF EditableProblems, IsEditableBy
<1>4. IsEditableBy(v, p) => v.auth /\ IsAccessibleBy(v, p, FALSE)
    BY DEF IsEditableBy, IsAccessibleBy, HasPerm
<1>5. HomeLink(v, p, c, "own_ticket") => TicketShown(v, p)
    BY DEF HomeLink, TicketShown, OwnTicket, Is
<1>6. HomeLink(v, p, c, "ticket")
        => TicketShown(v, p) /\ (IsAccessibleBy(v, p, FALSE) \/ OwnTicket(v))
    BY <1>3, <1>4 DEF HomeLink, FilterVisibleTickets, TicketShown, OwnTicket, Is
<1>7. /\ PostListed(x) => PostOpened(v, x)
      /\ TheoryListed(x) => TheoryOpened(v, x)
    BY DEF PostListed, PostOpened, PostShown, TheoryListed, TheoryOpened, TheoryShown
<1>8. OrganizationEditable(v) => OrganizationEdited(v)
    BY DEF OrganizationEditable, OrganizationEdited, Is
<1>9. ASSUME NEW open \in BOOLEAN
      PROVE  /\ OrganizationLink(v, open, "edit") => OrganizationEdited(v)
             /\ OrganizationLink(v, open, "requests") => ReviewedRequests(v) # "none"
    BY <1>8 DEF OrganizationLink, ReviewedRequests
<1> QED BY <1>1, <1>2, <1>5, <1>6, <1>7, <1>8, <1>9 DEF SiteLinksLead, TheoryHomeLink, KickOffered

\* Links, tabs and buttons lead to pages that open.
THEOREM LinksAlwaysLead == Spec => []LinksLead
<1>1. Init => Typed /\ Came /\ Placed /\ Outside
    BY InitTyped DEF Init, Came, Placed, Outside, IsInContest
<1>2. Typed /\ Came /\ Placed /\ Outside /\ [Next]_vars => (Typed /\ Came /\ Placed /\ Outside)'
    BY StepTyped, StepCame, StepPlaced, StepOutside
<1>3. Typed /\ Placed /\ Outside => LinksLead
    BY ProblemLinks, SubmissionLinks, ContestLinks, CourseLinks, CommentLinks, SiteLinks DEF LinksLead
<1> QED BY <1>1, <1>2, <1>3, PTL DEF Spec

-----------------------------------------------------------------------------
(* Time takes no scoreboard away.                                          *)

LEMMA BoardStaysStep ==
    ASSUME Typed, [Next]_vars, v' = v, c' = c, CanSeeFullScoreboard(v, c, t, l)
    PROVE  CanSeeFullScoreboard(v, c, t', l')
<1>1. (t # "before" => t' # "before") /\ (t = "over" => t' = "over")
    BY DEF Next, vars, LogIn, ChangePermission, ChangeProblemRole, ChangeContestRole, ChangeMark,
           ChangeCurrentContest, SaveContest, MakeVisible, MakePublic, MakePrivate, SaveProblem,
           SavePost, Tick, TimeOut, Join, Leave, Request
<1>2. l'.live = l.live \/ (l.live = "running" /\ l'.live = "done")
         \/ (l'.live = "running" /\ ~HasCompletedContest(v, t, l))
    <2>0. l \in Participations
        BY DEF Typed
    <2>1. \A ll \in Participations : UpdateContest(v, c, t', ll).live = ll.live
        BY DEF UpdateContest, Participations
    <2>2. CASE Join
        <3>1. PICK ll \in Entered(l) : l' = UpdateContest(v, c, t, ll) /\ t' = t
            BY <2>2 DEF Join, Request
        <3>2. ll \in Participations
            BY EnteredTyped
        <3>3. ll.live = l.live \/ (ll.live = "running" /\ ~HasCompletedContest(v, t, l))
            BY <2>0 DEF Entered, JoinableOnPage, LiveJoinable, Participations
        <3> QED BY <2>1, <3>1, <3>2, <3>3
    <2>3. CASE TimeOut
        <3>1. CASE l.live = "running" /\ l' = UpdateContest(v, c, t, [l EXCEPT !.live = "done"]) /\ t' = t
            <4>1. [l EXCEPT !.live = "done"] \in Participations /\ [l EXCEPT !.live = "done"].live = "done"
                BY <2>0 DEF Participations
            <4> QED BY <2>1, <3>1, <4>1
        <3>2. CASE l' = UpdateContest(v, c, t, [l EXCEPT !.now = "out"]) /\ t' = t
            <4>1. /\ [l EXCEPT !.now = "out"] \in Participations
                  /\ [l EXCEPT !.now = "out"].live = l.live
                BY <2>0 DEF Participations
            <4> QED BY <2>1, <3>2, <4>1
        <3> QED BY <2>3, <3>1, <3>2 DEF TimeOut, Request
    <2>4. CASE Leave
        <3>1. /\ [l EXCEPT !.now = "out"] \in Participations
              /\ [l EXCEPT !.now = "out"].live = l.live
            BY <2>0 DEF Participations
        <3> QED BY <2>1, <2>4, <3>1 DEF Leave, Request
    <2>5. CASE l' = l
        BY <2>5
    <2>6. CASE l' = UpdateContest(v', c', t', l)
        BY <2>0, <2>1, <2>6
    <2> QED BY <2>2, <2>3, <2>4, <2>5, <2>6
            DEF Next, vars, LogIn, ChangePermission, ChangeProblemRole, ChangeContestRole, ChangeMark,
                ChangeCurrentContest, SaveContest, MakeVisible, MakePublic, MakePrivate, SaveProblem,
                SavePost, Tick, Request
<1>3. HasCompletedContest(v, t, l) => HasCompletedContest(v, t', l')
    BY <1>1, <1>2 DEF HasCompletedContest, EndedContest
<1> QED BY <1>1, <1>3 DEF CanSeeFullScoreboard, ShowScoreboard, Started, EndedContest, Typed, Times

\* Whoever sees the full scoreboard of an unchanged contest sees it for ever.
THEOREM ScoreboardStays == Spec => FullScoreboardStays
<1>1. Typed /\ [Next]_vars =>
        [v' = v /\ c' = c /\ <<t, l>>' # <<t, l>> /\ CanSeeFullScoreboard(v, c, t, l)
             => CanSeeFullScoreboard(v, c, t', l')]_vars
    BY BoardStaysStep
<1> QED BY <1>1, AlwaysTyped, PTL DEF Spec, FullScoreboardStays

-----------------------------------------------------------------------------
(* Permissions, roles and marks only add.                                  *)

LEMMA Monotone ==
    ASSUME NEW v1 \in Viewers, NEW v2 \in Viewers, NEW q \in Problems, NEW d \in Contests,
           NEW y \in Posts, NEW s \in Times, NEW m \in Participations,
           v1.pcontest = v2.pcontest, v1.auth => v2.auth,
           v1.perms \subseteq v2.perms, v1.proles \subseteq v2.proles,
           v1.croles \subseteq v2.croles, v1.marks \subseteq v2.marks
    PROVE  /\ IsAccessibleBy(v1, q, FALSE) => IsAccessibleBy(v2, q, FALSE)
           /\ IsEditableBy(v1, q) => IsEditableBy(v2, q)
           /\ SolutionAccessible(v1, q) => SolutionAccessible(v2, q)
           /\ CanSeeDetail(v1, q, d, FALSE, FALSE) => CanSeeDetail(v2, q, d, FALSE, FALSE)
           /\ ContestAccessible(v1, d) => ContestAccessible(v2, d)
           /\ ContestEditable(v1) => ContestEditable(v2)
           /\ CanSeeFullScoreboard(v1, d, s, m) => CanSeeFullScoreboard(v2, d, s, m)
           /\ TheoryShown(v1, y) => TheoryShown(v2, y)
           /\ v1.auth /\ ProblemSubmissionsShown(v1, q, d, s, m) =>
                 ProblemSubmissionsShown(v2, q, d, s, m)
<1>1. v1.auth \in BOOLEAN /\ v2.auth \in BOOLEAN
    BY DEF Viewers
<1>2. \A mark : Is(v1, mark) => Is(v2, mark)
    BY DEF Is
<1>3. \A perm : HasPerm(v1, perm) => HasPerm(v2, perm)
    BY <1>2 DEF HasPerm
<1>4. \A roles : Named(v1, roles) => Named(v2, roles)
    BY DEF Named
<1>5. (IsEditor(v1) => IsEditor(v2)) /\ (IsTester(v1) => IsTester(v2))
    BY DEF IsEditor, IsTester
<1>6. (IsContestEditor(v1) => IsContestEditor(v2)) /\ (IsContestTester(v1) => IsContestTester(v2))
    BY <1>4 DEF IsContestEditor, IsContestTester
<1>7. IsEditableBy(v1, q) => IsEditableBy(v2, q)
    BY <1>2, <1>3, <1>5 DEF IsEditableBy
<1>8. IsAccessibleBy(v1, q, FALSE) => IsAccessibleBy(v2, q, FALSE)
    BY <1>2, <1>3, <1>5, <1>7 DEF IsAccessibleBy
<1>9. SolutionAccessible(v1, q) => SolutionAccessible(v2, q)
    BY <1>3, <1>7 DEF SolutionAccessible
<1>10. CanSeeDetail(v1, q, d, FALSE, FALSE) => CanSeeDetail(v2, q, d, FALSE, FALSE)
    BY <1>2, <1>3, <1>5, <1>7 DEF CanSeeDetail
<1>11. SeesAllContests(v1) => SeesAllContests(v2)
    BY <1>3 DEF SeesAllContests
<1>12. ContestAccessible(v1, d) => ContestAccessible(v2, d)
    BY <1>2, <1>4, <1>6, <1>11 DEF ContestAccessible, Admitted, Contests
<1>13. ContestEditable(v1) => ContestEditable(v2)
    BY <1>3, <1>6 DEF ContestEditable
<1>14. HasCompletedContest(v1, s, m) => HasCompletedContest(v2, s, m)
    BY DEF HasCompletedContest
<1>15. CanSeeFullScoreboard(v1, d, s, m) => CanSeeFullScoreboard(v2, d, s, m)
    BY <1>4, <1>6, <1>11, <1>14 DEF CanSeeFullScoreboard
<1>16. TheoryShown(v1, y) => TheoryShown(v2, y)
    BY <1>2, <1>3 DEF TheoryShown, TheoryEditable
<1>17. v1.auth /\ ProblemSubmissionsShown(v1, q, d, s, m) => ProblemSubmissionsShown(v2, q, d, s, m)
    <2>1. v1.auth /\ CanSeeOwnScoreboard(v1, d, s, m) => CanSeeOwnScoreboard(v2, d, s, m)
        BY <1>14, <1>15 DEF CanSeeOwnScoreboard, IsInContest
    <2>2. v1.auth => (IsInContest(v1, m) <=> IsInContest(v2, m))
        BY DEF IsInContest
    <2> QED BY <1>6, <1>8, <2>1, <2>2 DEF ProblemSubmissionsShown, OutsideCurrent
<1> QED BY <1>7, <1>8, <1>9, <1>10, <1>12, <1>13, <1>15, <1>16, <1>17

\* No permission, role, mark or login hides anything that is not a place in a contest.
THEOREM GrantsOnlyAdd == Spec => Gains
<1> DEFINE Gain ==
    /\ v' # v
    /\ <<topic, p, c, x, t, v.pcontest>>' = <<topic, p, c, x, t, v.pcontest>>
    /\ v.auth => v'.auth
    /\ v.perms \subseteq v'.perms /\ v.proles \subseteq v'.proles
    /\ v.croles \subseteq v'.croles /\ v.marks \subseteq v'.marks
    =>
    /\ IsAccessibleBy(v, p, FALSE) => IsAccessibleBy(v', p, FALSE)
    /\ IsEditableBy(v, p) => IsEditableBy(v', p)
    /\ SolutionAccessible(v, p) => SolutionAccessible(v', p)
    /\ \A vis \in {"always", "solved", "only_own"} :
          CanSeeDetail(v, [p EXCEPT !.visibility = vis], c, FALSE, FALSE) =>
              CanSeeDetail(v', [p EXCEPT !.visibility = vis], c, FALSE, FALSE)
    /\ ContestAccessible(v, c) => ContestAccessible(v', c)
    /\ ContestEditable(v) => ContestEditable(v')
    /\ CanSeeFullScoreboard(v, c, t, l) => CanSeeFullScoreboard(v', c, t, l)
    /\ TheoryShown(v, x) => TheoryShown(v', x)
    /\ v.auth /\ ProblemSubmissionsShown(v, p, c, t, l) =>
          ProblemSubmissionsShown(v', p, c, t, l)
<1>1. Typed /\ [Next]_vars => [Gain]_vars
    <2> SUFFICES ASSUME Typed, [Next]_vars,
                        v'.pcontest = v.pcontest, v.auth => v'.auth,
                        v.perms \subseteq v'.perms, v.proles \subseteq v'.proles,
                        v.croles \subseteq v'.croles, v.marks \subseteq v'.marks
                 PROVE  /\ IsAccessibleBy(v, p, FALSE) => IsAccessibleBy(v', p, FALSE)
                        /\ IsEditableBy(v, p) => IsEditableBy(v', p)
                        /\ SolutionAccessible(v, p) => SolutionAccessible(v', p)
                        /\ \A vis \in {"always", "solved", "only_own"} :
                              CanSeeDetail(v, [p EXCEPT !.visibility = vis], c, FALSE, FALSE) =>
                                  CanSeeDetail(v', [p EXCEPT !.visibility = vis], c, FALSE, FALSE)
                        /\ ContestAccessible(v, c) => ContestAccessible(v', c)
                        /\ ContestEditable(v) => ContestEditable(v')
                        /\ CanSeeFullScoreboard(v, c, t, l) => CanSeeFullScoreboard(v', c, t, l)
                        /\ TheoryShown(v, x) => TheoryShown(v', x)
                        /\ v.auth /\ ProblemSubmissionsShown(v, p, c, t, l) =>
                              ProblemSubmissionsShown(v', p, c, t, l)
        OBVIOUS
    <2>1. /\ v \in Viewers /\ v' \in Viewers /\ p \in Problems /\ c \in Contests
          /\ x \in Posts /\ t \in Times /\ l \in Participations
        <3>1. Typed'
            BY StepTyped
        <3> QED BY <3>1 DEF Typed, Viewers
    <2>2. \A vis \in {"always", "solved", "only_own"} : [p EXCEPT !.visibility = vis] \in Problems
        BY <2>1 DEF Problems
    <2> HIDE DEF Gain
    <2> QED BY <2>1, <2>2, Monotone
<1> HIDE DEF Gain
<1>2. [][Gain]_vars => Gains
    BY DEF Gain, Gains
<1> QED BY <1>1, <1>2, AlwaysTyped, PTL DEF Spec
=============================================================================
