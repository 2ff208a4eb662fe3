\* Every topic; four permissions, roles or marks at a time for a problem or a post (it
\* takes four to rejudge from the administration), two for a contest, one for a course,
\* whose rules are also looked at in the states of a contest.  A curator is treated as an
\* author is.
CONSTANTS
    Topics = {"problem", "contest", "course", "post", "organization"}
    Perms <- MCPerms
    Marks <- MCMarks
    ProblemRoles = {"author", "tester"}
    ContestRoles = {"author", "tester", "spectator", "board_viewer", "contestant", "subs_viewer"}
    MaxGrants <- MCMaxGrants

SPECIFICATION Spec

CHECK_DEADLOCK FALSE

INVARIANTS
    AccessTypeOK
    ProblemListAgrees
    EditListAgrees
    ListedIsAccessible
    RejudgedIsManageable
    CommentsFollowPages
    ContestListAgrees
    JoinLinkAgrees
    OthersNeedScoreboard
    PublishedIsShown
    LinksLead

PROPERTIES
    Gains
    FullScoreboardStays
