------------------------------ MODULE Discussion ------------------------------
(***************************************************************************)
(* Comments, their votes and their threads (judge/comments.py,             *)
(* judge/views/comment.py, judge/admin/comments.py).  A request reads the  *)
(* comment, and changes it in later steps: votes add to the score in the   *)
(* database, edits save the whole row as it was read.                      *)
(***************************************************************************)
EXTENDS Integers, Sequences, FiniteSets

CONSTANTS
    Voters,         \* Users who may vote; none of them wrote a comment.
    DcRequests,     \* Requests in progress at the same time.
    MaxComments,    \* Bound: comments ever posted.
    MaxDcRequests   \* Bound: requests ever started.

VARIABLES
    dc_comments,    \* Sequence of rows: parent (0 for none), score, hidden.
    dc_votes,       \* Rows of CommentVote: <<comment, voter>> -> 1 or -1.
    dc_requests,    \* Of a request: kind, at, and what it read.
    dc_started,
    dc_overwritten, \* History: comments whose score an edit took back.
    dc_loose        \* History: comments shown or hidden apart from their threads.

dcvars == <<dc_comments, dc_votes, dc_requests, dc_started, dc_overwritten, dc_loose>>

CommentIds == 1 .. Len(dc_comments)
DcIdle == [kind |-> "idle"]

\* Ancestors, or the comment itself.
Ancestors(comments, c) ==
    LET up[d \in 0 .. Len(comments)] == IF d = 0 THEN {} ELSE {d} \cup up[comments[d].parent] IN up[c]
AncestorsOf(c) == Ancestors(dc_comments, c)
DescendantsOf(c) == {d \in CommentIds : c \in AncestorsOf(d)}

DcInit ==
    /\ dc_comments = <<[parent |-> 0, score |-> 0, hidden |-> FALSE]>>
    /\ dc_votes = <<>>
    /\ dc_requests = [r \in DcRequests |-> DcIdle]
    /\ dc_started = 0
    /\ dc_overwritten = {} /\ dc_loose = {}

\* A request starts with what it has read; it ends as DcIdle.
DcStart(r, state) == /\ dc_requests[r] = DcIdle /\ dc_started < MaxDcRequests
                     /\ dc_started' = dc_started + 1
                     /\ dc_requests' = [dc_requests EXCEPT ![r] = state]
DcStep(r, state) == /\ dc_requests' = [dc_requests EXCEPT ![r] = state]
                    /\ UNCHANGED dc_started

-----------------------------------------------------------------------------
(* vote_comment.                                                           *)

StartVote(r, u, c, delta) ==
    /\ ~dc_comments[c].hidden
    /\ DcStart(r, [kind |-> "vote", at |-> "insert", comment |-> c, user |-> u, delta |-> delta])
    /\ UNCHANGED <<dc_comments, dc_votes, dc_overwritten, dc_loose>>

InsertVote(r) ==
    LET q == dc_requests[r] IN
    /\ q.kind = "vote" /\ q.at = "insert"
    /\ IF <<q.comment, q.user>> \in DOMAIN dc_votes
       THEN DcStep(r, [q EXCEPT !.at = "lock"]) /\ UNCHANGED dc_votes
       ELSE /\ dc_votes' = [k \in DOMAIN dc_votes \cup {<<q.comment, q.user>>} |->
                             IF k = <<q.comment, q.user>> THEN q.delta ELSE dc_votes[k]]
            /\ DcStep(r, [q EXCEPT !.at = "add"])
    /\ UNCHANGED <<dc_comments, dc_overwritten, dc_loose>>

\* Mutant: the vote that is taken back is added to the score once more.
Doubled(vote) == vote

\* What taking a vote back does to the score.
Undone(vote) == -vote

\* In the lock on CommentVote: a vote that is gone is inserted after all, one like this is
\* left alone, the opposite one is deleted.
LockVotes(r) ==
    LET q == dc_requests[r]
        key == <<q.comment, q.user>> IN
    /\ q.kind = "vote" /\ q.at = "lock"
    /\ IF key \notin DOMAIN dc_votes
       THEN DcStep(r, [q EXCEPT !.at = "insert"]) /\ UNCHANGED dc_votes
       ELSE IF -dc_votes[key] # q.delta THEN DcStep(r, DcIdle) /\ UNCHANGED dc_votes
       ELSE /\ dc_votes' = [k \in DOMAIN dc_votes \ {key} |-> dc_votes[k]]
            /\ DcStep(r, [q EXCEPT !.at = "add", !.delta = Undone(dc_votes[key])])
    /\ UNCHANGED <<dc_comments, dc_overwritten, dc_loose>>

\* update(score=F('score') + delta).
AddScore(r) ==
    LET q == dc_requests[r] IN
    /\ q.kind = "vote" /\ q.at = "add"
    /\ dc_comments' = [dc_comments EXCEPT ![q.comment].score = @ + q.delta]
    /\ DcStep(r, DcIdle)
    /\ UNCHANGED <<dc_votes, dc_overwritten, dc_loose>>

-----------------------------------------------------------------------------
(* Edits save every column.                                                *)

\* CommentEditAjax and CommentAdmin: the row is read, hidden may be set in the administration.
StartEdit(r, c) ==
    /\ \/ DcStart(r, [kind |-> "edit", comment |-> c, row |-> dc_comments[c]])
       \/ \E h \in BOOLEAN :
             DcStart(r, [kind |-> "admin", comment |-> c, row |-> [dc_comments[c] EXCEPT !.hidden = h]])
    /\ UNCHANGED <<dc_comments, dc_votes, dc_overwritten, dc_loose>>

Hiding(comments, cs) == [d \in DOMAIN comments |->
                            IF d \in cs THEN [comments[d] EXCEPT !.hidden = TRUE] ELSE comments[d]]

\* CommentEditAjax.form_valid, CommentAdmin.save_model; the latter hides the replies as well.
SaveEdit(r) ==
    LET q == dc_requests[r]
        c == q.comment
        saved == [dc_comments EXCEPT ![c] = q.row] IN
    /\ q.kind \in {"edit", "admin"}
    /\ dc_comments' = IF q.kind = "admin" /\ q.row.hidden THEN Hiding(saved, DescendantsOf(c)) ELSE saved
    /\ dc_overwritten' = IF q.row.score # dc_comments[c].score THEN dc_overwritten \cup {c} ELSE dc_overwritten
    /\ dc_loose' = IF q.row.hidden = dc_comments[c].hidden THEN dc_loose
                   ELSE IF ~q.row.hidden THEN dc_loose \cup {c}
                   ELSE IF q.kind = "edit" THEN dc_loose \cup DescendantsOf(c) ELSE dc_loose
    /\ DcStep(r, DcIdle)
    /\ UNCHANGED dc_votes

-----------------------------------------------------------------------------
(* Threads.                                                                *)

\* CommentedDetailView.post: replies are to comments that are shown.
StartReply(r, c) ==
    /\ ~dc_comments[c].hidden
    /\ DcStart(r, [kind |-> "reply", parent |-> c])
    /\ UNCHANGED <<dc_comments, dc_votes, dc_overwritten, dc_loose>>

InsertReply(r) ==
    LET q == dc_requests[r] IN
    /\ q.kind = "reply" /\ Len(dc_comments) < MaxComments
    /\ dc_comments' = Append(dc_comments, [parent |-> q.parent, score |-> 0, hidden |-> FALSE])
    /\ dc_loose' = IF dc_comments[q.parent].hidden THEN dc_loose \cup {Len(dc_comments')} ELSE dc_loose
    /\ DcStep(r, DcIdle)
    /\ UNCHANGED <<dc_votes, dc_overwritten>>

\* Mutant: only the replies to the comment itself are hidden with it.
RepliesTo(c) == {d \in CommentIds : d = c \/ dc_comments[d].parent = c}

\* comment_hide takes the whole thread.
Thread(c) == DescendantsOf(c)

Hide(c) ==
    /\ ~dc_comments[c].hidden
    /\ dc_comments' = Hiding(dc_comments, Thread(c))
    /\ UNCHANGED <<dc_votes, dc_requests, dc_started, dc_overwritten, dc_loose>>

\* The actions of CommentAdmin take the selected comments alone.
AdminHide(c) ==
    /\ ~dc_comments[c].hidden
    /\ dc_comments' = Hiding(dc_comments, {c})
    /\ dc_loose' = dc_loose \cup DescendantsOf(c)
    /\ UNCHANGED <<dc_votes, dc_requests, dc_started, dc_overwritten>>

AdminUnhide(c) ==
    /\ dc_comments[c].hidden
    /\ dc_comments' = [dc_comments EXCEPT ![c].hidden = FALSE]
    /\ dc_loose' = dc_loose \cup {c}
    /\ UNCHANGED <<dc_votes, dc_requests, dc_started, dc_overwritten>>

DcNext ==
    \/ \E r \in DcRequests :
          \/ \E u \in Voters, c \in CommentIds, d \in {-1, 1} : StartVote(r, u, c, d)
          \/ InsertVote(r) \/ LockVotes(r) \/ AddScore(r)
          \/ \E c \in CommentIds : StartEdit(r, c) \/ StartReply(r, c)
          \/ SaveEdit(r) \/ InsertReply(r)
    \/ \E c \in CommentIds : Hide(c) \/ AdminHide(c) \/ AdminUnhide(c)

DcSpec == DcInit /\ [][DcNext]_dcvars

-----------------------------------------------------------------------------
(* Properties.                                                             *)

\* Votes of a comment up (1) or down (-1), and requests about to add that to its score.
VotesFor(c, delta) == {k \in DOMAIN dc_votes : k[1] = c /\ dc_votes[k] = delta}
Adding(c, delta) == {r \in DcRequests : LET q == dc_requests[r] IN
                        q.kind = "vote" /\ q.at = "add" /\ q.comment = c /\ q.delta = delta}

\* However votes, second thoughts and double clicks interleave, the score of a comment is
\* its votes up less its votes down but for what requests are about to add, unless an edit
\* wrote back the score it had read.
ScoreIsTheVotes ==
    \A c \in CommentIds \ dc_overwritten :
        dc_comments[c].score + (Cardinality(Adding(c, 1)) - Cardinality(Adding(c, -1)))
            = Cardinality(VotesFor(c, 1)) - Cardinality(VotesFor(c, -1))

\* Nothing is shown below a hidden comment, except replies that were already being posted
\* and what the administration shows or hides apart.
NothingBelowHidden ==
    \A c \in CommentIds : \A d \in AncestorsOf(c) :
        dc_comments[d].hidden => dc_comments[c].hidden \/ AncestorsOf(c) \cap dc_loose # {}

-----------------------------------------------------------------------------
(***************************************************************************)
(* Votes on the points of a problem (judge/views/problem.py,               *)
(* judge/models/problem.py): who solved it may vote; a vote deletes the    *)
(* one before and is stored, in a transaction that no unique key guards.   *)
(***************************************************************************)

CONSTANTS
    VtVoters,
    VtPoints,       \* What may be proposed.
    VtRequests,     \* Requests that are under way at once.
    MaxVtRequests   \* Bound: requests, and changes of who may vote.

VARIABLES
    vt_may,         \* Voters whose vote_permission is VOTE.
    vt_rows,        \* Votes: id, voter, points.
    vt_requests,    \* Per request: at, kind, voter, points and the votes it deletes.
    vt_count, vt_ids,
    vt_crossed,     \* History: voters two of whose posts were under way at once.
    vt_asked        \* History: voters who could vote when they last posted.

vtvars == <<vt_may, vt_rows, vt_requests, vt_count, vt_ids, vt_crossed, vt_asked>>

NoVotePost == [at |-> "none", kind |-> "none", voter |-> "nobody", points |-> 0, targets |-> {}]

VtInit ==
    /\ vt_may \in SUBSET VtVoters
    /\ vt_rows = {}
    /\ vt_requests = [r \in VtRequests |-> NoVotePost]
    /\ vt_count = 0 /\ vt_ids = 0 /\ vt_crossed = {} /\ vt_asked = {}

VotesOf(u) == {v \in vt_rows : v.voter = u}
Posting(r, state) == vt_requests' = [vt_requests EXCEPT ![r] = state]

\* vote_permission_for_user: a contest is entered or left, a submission is accepted or
\* rejudged, a ban is made or lifted.
PermissionChanges(u) ==
    /\ vt_count < MaxVtRequests /\ vt_count' = vt_count + 1
    /\ vt_may' = (vt_may \ {u}) \cup ({u} \ vt_may)
    /\ UNCHANGED <<vt_rows, vt_requests, vt_ids, vt_crossed, vt_asked>>

\* ProblemVote.post and DeleteProblemVote.post: the votes to delete are looked for.
PostVote(r, kind, u, points) ==
    /\ vt_requests[r] = NoVotePost /\ u \in vt_may
    /\ vt_count < MaxVtRequests /\ vt_count' = vt_count + 1
    /\ Posting(r, [at |-> "deletes", kind |-> kind, voter |-> u, points |-> points, targets |-> VotesOf(u)])
    /\ vt_crossed' = IF \E o \in VtRequests : vt_requests[o].voter = u THEN vt_crossed \cup {u} ELSE vt_crossed
    /\ vt_asked' = vt_asked \cup {u}
    /\ UNCHANGED <<vt_may, vt_rows, vt_ids>>

\* Votes another transaction deletes are waited for; those stored meanwhile may be found or not.
LockVotesOf(r) ==
    LET post == vt_requests[r] IN
    /\ post.at = "deletes"
    /\ \A o \in VtRequests \ {r} : vt_requests[o].at = "deleted" => vt_requests[o].targets \cap post.targets = {}
    /\ \E found \in {post.targets \cap vt_rows, VotesOf(post.voter)} :
         /\ \A o \in VtRequests \ {r} : vt_requests[o].at = "deleted" => vt_requests[o].targets \cap found = {}
         /\ Posting(r, [post EXCEPT !.at = "deleted", !.targets = found])
    /\ UNCHANGED <<vt_may, vt_rows, vt_count, vt_ids, vt_crossed, vt_asked>>

\* Mutant: a vote is added to those there are.
RemainingAll(targets) == vt_rows

Remaining(targets) == vt_rows \ targets

EndVote(r) ==
    LET post == vt_requests[r] IN
    /\ post.at = "deleted" /\ Posting(r, NoVotePost)
    /\ IF post.kind = "vote"
       THEN vt_rows' = Remaining(post.targets) \cup {[id |-> vt_ids + 1, voter |-> post.voter, points |-> post.points]}
       ELSE vt_rows' = vt_rows \ post.targets
    /\ vt_ids' = vt_ids + 1
    /\ UNCHANGED <<vt_may, vt_count, vt_crossed, vt_asked>>

VtNext ==
    \/ \E u \in VtVoters : PermissionChanges(u)
    \/ \E r \in VtRequests : \/ LockVotesOf(r) \/ EndVote(r)
                             \/ \E u \in VtVoters, points \in VtPoints : PostVote(r, "vote", u, points)
                             \/ \E u \in VtVoters : PostVote(r, "delete", u, 0)

VtSpec == VtInit /\ [][VtNext]_vtvars

-----------------------------------------------------------------------------
(* Properties.                                                             *)

\* A voter has one vote at most, as the pages that get it expect, unless two of the voter's
\* posts were under way at once; and has been allowed to vote.
OneVoteEach == \A u \in VtVoters : /\ Cardinality(VotesOf(u)) > 1 => u \in vt_crossed
                                   /\ VotesOf(u) # {} => u \in vt_asked
=============================================================================
