------------------------------- MODULE Delivery -------------------------------
(***************************************************************************)
(* How an open page of a submission follows its grading: the event daemon  *)
(* (websocket/daemon.js), those who post to it (judge/event_poster_ws.py), *)
(* the receiver in the page (resources/event.js) and the page itself       *)
(* (templates/submission/status.html), which reads the rows, then the last *)
(* message number, and then fetches the rows again for every message.      *)
(***************************************************************************)
EXTENDS Integers, FiniteSetsExt, SequencesExt

CONSTANTS
    DvPages,        \* Pages.
    MaxQueue,       \* max_queue of the daemon.
    MaxVersions,    \* Bound: changes of the rows.
    MaxOthers,      \* Bound: messages on other channels, and posts that fail.
    MaxDaemons      \* Bound: restarts of the daemon.

DeliveryAssumption == MaxQueue \in Nat \ {0}

VARIABLES
    dv_version,     \* The rows of the submission, as the number of changes made to them.
    dv_writer,      \* The connection to the judge: what it has still to do for a change.
    dv_queue,       \* Messages the daemon holds: number, and whether it is of this submission.
    dv_id,          \* message_id.
    dv_pages,       \* Per page: at, shown (version), last, inbox (numbers), blocked, again.
    dv_others, dv_daemons,
    dv_posted,      \* History: the version that was last announced.
    dv_dropped,     \* History: the last message of the submission the daemon no longer holds.
    dv_excused      \* History: pages that missed a change in one of the known ways.

dvvars == <<dv_version, dv_writer, dv_queue, dv_id, dv_pages, dv_others, dv_daemons,
            dv_posted, dv_dropped, dv_excused>>

DvInit ==
    /\ dv_version = 0 /\ dv_posted = 0
    /\ dv_writer = "idle"
    /\ dv_queue = <<>> /\ dv_id = 1
    /\ dv_pages = [p \in DvPages |-> [at |-> "none", shown |-> 0, last |-> 0, inbox |-> <<>>,
                                      blocked |-> FALSE, again |-> FALSE]]
    /\ dv_others = 0 /\ dv_daemons = 0 /\ dv_dropped = 0
    /\ dv_excused = {}

SetPage(p, state) == dv_pages' = [dv_pages EXCEPT ![p] = state]

-----------------------------------------------------------------------------
(* messages.post.                                                          *)

Pushed(own) == LET all == Append(dv_queue, [id |-> dv_id + 1, own |-> own]) IN
               IF Len(all) > MaxQueue THEN Tail(all) ELSE all

Shifted(own) == Len(dv_queue) >= MaxQueue /\ Head(Append(dv_queue, [own |-> own])).own

\* Followers, and pollers, who are answered and no longer wait.
Heard(own) == IF ~own THEN dv_pages
             ELSE [p \in DvPages |->
                 LET q == dv_pages[p] IN
                 CASE q.at = "following" -> [q EXCEPT !.inbox = Append(@, dv_id + 1)]
                   [] q.at = "waiting" -> [q EXCEPT !.inbox = Append(@, dv_id + 1), !.at = "answered"]
                   [] OTHER -> q]

DvPost(own) ==
    /\ dv_queue' = Pushed(own)
    /\ dv_id' = dv_id + 1
    /\ dv_dropped' = IF Shifted(own) THEN Head(dv_queue).id ELSE dv_dropped
    /\ dv_pages' = Heard(own)

\* A change of the rows is saved and then announced; the test cases that arrived are
\* announced before they are stored.
SaveChange ==
    /\ dv_writer = "idle" /\ dv_version < MaxVersions
    /\ dv_version' = dv_version + 1
    /\ dv_writer' = "post"
    /\ UNCHANGED <<dv_queue, dv_id, dv_pages, dv_others, dv_daemons, dv_posted, dv_dropped, dv_excused>>

PostChange ==
    /\ dv_writer = "post"
    /\ dv_writer' = "idle"
    /\ dv_posted' = dv_version
    /\ DvPost(TRUE)
    /\ UNCHANGED <<dv_version, dv_others, dv_daemons, dv_excused>>

\* event.post gives up and returns 0.
PostFails ==
    /\ dv_writer = "post" /\ dv_others < MaxOthers
    /\ dv_writer' = "idle"
    /\ dv_others' = dv_others + 1
    /\ dv_posted' = dv_version
    /\ dv_excused' = DvPages
    /\ UNCHANGED <<dv_version, dv_queue, dv_id, dv_pages, dv_daemons, dv_dropped>>

AnnounceCases ==
    /\ dv_writer = "idle" /\ dv_version < MaxVersions
    /\ dv_writer' = "store"
    /\ DvPost(TRUE)
    /\ UNCHANGED <<dv_version, dv_others, dv_daemons, dv_posted, dv_excused>>

StoreCases ==
    /\ dv_writer = "store"
    /\ dv_version' = dv_version + 1
    /\ dv_posted' = dv_version + 1
    /\ dv_writer' = "idle"
    /\ dv_excused' = DvPages
    /\ UNCHANGED <<dv_queue, dv_id, dv_pages, dv_others, dv_daemons, dv_dropped>>

PostOther ==
    /\ dv_others < MaxOthers
    /\ dv_others' = dv_others + 1
    /\ DvPost(FALSE)
    /\ UNCHANGED <<dv_version, dv_writer, dv_daemons, dv_posted, dv_excused>>

\* Numbers go on from the clock, above those given before; what was held is lost, and so are
\* the followers.
DaemonRestarts ==
    /\ dv_daemons < MaxDaemons
    /\ dv_daemons' = dv_daemons + 1
    /\ dv_queue' = <<>>
    /\ dv_id' = dv_id + 1
    /\ dv_dropped' = Max({dv_dropped} \cup {dv_queue[i].id : i \in {j \in DOMAIN dv_queue : dv_queue[j].own}})
    /\ dv_pages' = [p \in DvPages |-> IF dv_pages[p].at = "waiting" THEN [dv_pages[p] EXCEPT !.at = "polls"]
                                      ELSE IF dv_pages[p].at = "following" THEN [dv_pages[p] EXCEPT !.at = "closed"]
                                      ELSE dv_pages[p]]
    /\ UNCHANGED <<dv_version, dv_writer, dv_others, dv_posted, dv_excused>>

-----------------------------------------------------------------------------
(* A page.                                                                 *)

LoadPage(p) ==
    /\ dv_pages[p].at = "none"
    /\ SetPage(p, [dv_pages[p] EXCEPT !.at = "loaded", !.shown = dv_version])
    /\ UNCHANGED <<dv_version, dv_writer, dv_queue, dv_id, dv_others, dv_daemons, dv_posted, dv_dropped, dv_excused>>

\* event.last(), read after the rows: a change announced between the two is missed.
TakeLast(p) ==
    /\ dv_pages[p].at = "loaded"
    /\ SetPage(p, [dv_pages[p] EXCEPT !.at = "connects", !.last = dv_id])
    /\ dv_excused' = IF dv_pages[p].shown < dv_posted THEN dv_excused \cup {p} ELSE dv_excused
    /\ UNCHANGED <<dv_version, dv_writer, dv_queue, dv_id, dv_others, dv_daemons, dv_posted, dv_dropped>>

\* Mutant: the last message that was seen is taken again.
NewerOrSame(m, last) == m.own /\ m.id >= last

Newer(m, last) == m.own /\ m.id > last

\* The numbers of the messages held that come after a number.
After(last) ==
    LET upTo[n \in 0 .. Len(dv_queue)] ==
            IF n = 0 THEN <<>>
            ELSE IF Newer(dv_queue[n], last) THEN Append(upTo[n - 1], dv_queue[n].id) ELSE upTo[n - 1]
    IN upTo[Len(dv_queue)]

Missed(p) == IF dv_dropped > dv_pages[p].last THEN dv_excused \cup {p} ELSE dv_excused

\* start-msg and set-filter: catch_up.
Subscribe(p) ==
    /\ dv_pages[p].at = "connects"
    /\ SetPage(p, [dv_pages[p] EXCEPT !.at = "following", !.inbox = After(dv_pages[p].last)])
    /\ dv_excused' = Missed(p)
    /\ UNCHANGED <<dv_version, dv_writer, dv_queue, dv_id, dv_others, dv_daemons, dv_posted, dv_dropped>>

\* Without a web socket in time the page polls: it is answered with the first message held
\* after the last one it saw, or waits.
Poll(p) ==
    LET found == After(dv_pages[p].last) IN
    /\ dv_pages[p].at \in {"connects", "polls"}
    /\ SetPage(p, IF found = <<>> THEN [dv_pages[p] EXCEPT !.at = "waiting"]
               ELSE [dv_pages[p] EXCEPT !.at = "answered", !.inbox = <<Head(found)>>])
    /\ dv_excused' = Missed(p)
    /\ UNCHANGED <<dv_version, dv_writer, dv_queue, dv_id, dv_others, dv_daemons, dv_posted, dv_dropped>>

\* The daemon answers 504 after long_poll_timeout.
PollTimesOut(p) ==
    /\ dv_pages[p].at = "waiting"
    /\ SetPage(p, [dv_pages[p] EXCEPT !.at = "polls"])
    /\ UNCHANGED <<dv_version, dv_writer, dv_queue, dv_id, dv_others, dv_daemons, dv_posted, dv_dropped, dv_excused>>

\* onmessage: update() fetches, or has the rows fetched again when the fetch under way is over.
Receive(p) ==
    LET q == dv_pages[p] IN
    /\ q.inbox # <<>>
    /\ SetPage(p, [q EXCEPT !.last = Head(q.inbox), !.inbox = Tail(q.inbox),
                         !.at = IF @ = "answered" THEN "polls" ELSE @,
                         !.again = q.blocked, !.blocked = TRUE])
    /\ UNCHANGED <<dv_version, dv_writer, dv_queue, dv_id, dv_others, dv_daemons, dv_posted, dv_dropped, dv_excused>>

\* The rows are read for the fetch under way; and update() runs again if it was asked to.
Refreshed(p) ==
    LET q == dv_pages[p] IN
    /\ q.blocked
    /\ SetPage(p, [q EXCEPT !.shown = dv_version, !.blocked = q.again, !.again = FALSE])
    /\ dv_excused' = dv_excused \ {p}
    /\ UNCHANGED <<dv_version, dv_writer, dv_queue, dv_id, dv_others, dv_daemons, dv_posted, dv_dropped>>

DvNext ==
    \/ SaveChange \/ PostChange \/ PostFails \/ AnnounceCases \/ StoreCases \/ PostOther \/ DaemonRestarts
    \/ \E p \in DvPages : \/ LoadPage(p) \/ TakeLast(p) \/ Subscribe(p) \/ Poll(p) \/ PollTimesOut(p)
                          \/ Receive(p) \/ Refreshed(p)

DvSpec == DvInit /\ [][DvNext]_dvvars

-----------------------------------------------------------------------------
(* Properties.                                                             *)

Follows(p) == dv_pages[p].at \in {"following", "waiting"}

\* A page that is listening and has nothing left to receive or to fetch shows the rows as they
\* are, or a change is about to be announced; unless since its last fetch it missed one in
\* one of the known ways: announced while the page was made, announced before it was stored,
\* not posted, or gone from the daemon before the page asked for it.
PagesCatchUp ==
    \A p \in DvPages :
      Follows(p) /\ dv_pages[p].inbox = <<>> /\ ~dv_pages[p].blocked /\ p \notin dv_excused
      => dv_pages[p].shown = dv_version \/ dv_writer = "post"

\* Messages reach a page in order, and none twice.
EachOnce ==
    \A p \in DvPages : LET seen == <<dv_pages[p].last>> \o dv_pages[p].inbox IN
      \A i \in 1 .. Len(seen) - 1 : seen[i] < seen[i + 1]

DeliveryHolds == PagesCatchUp /\ EachOnce

-----------------------------------------------------------------------------
(***************************************************************************)
(* The first page of a list of submissions (SubmissionsListBase,           *)
(* AllSubmissions and single_submission in judge/views/submission.py,      *)
(* load_dynamic_update in submission/list.html): it is made with the       *)
(* newest rows, then follows the events, and asks for one row again at an  *)
(* event, though not for every step of grading.                            *)
(***************************************************************************)

CONSTANTS
    MaxRecent,      \* Bound: submissions.
    RowsPerPage,
    MaxAsked        \* Bound: rows being asked for at once.

\* What the constants are.
RecentAssumption == MaxRecent \in Nat \ {0} /\ RowsPerPage \in Nat \ {0}

VARIABLES
    rc_status,      \* Per submission: "none", "QU", "G", "D".
    rc_made,        \* The page: "none", "rows" read, "open".
    rc_rows,        \* The ids of the rows, from the top.
    rc_shown,       \* Per id, the status its row shows.
    rc_first,       \* The highest id the page knows; 0: none.
    rc_events,      \* Events the page has still to see.
    rc_asked,       \* Rows asked for: id, whether forced, the status read once it was answered by the server.
    rc_busy,        \* doing_ajax.
    rc_loose        \* History: submissions that changed while the page was made, or whose answers
                    \* failed or came in another order.

rcvars == <<rc_status, rc_made, rc_rows, rc_shown, rc_first, rc_events, rc_asked, rc_busy, rc_loose>>

RecentIds == 1..MaxRecent
Stage == [none |-> 0, QU |-> 1, G |-> 2, D |-> 3]
MaxOf(S) == IF S = {} THEN 0 ELSE Max(S)

RcInit ==
    /\ rc_status = [i \in RecentIds |-> "none"]
    /\ rc_made = "none" /\ rc_rows = <<>> /\ rc_shown = [i \in RecentIds |-> "none"]
    /\ rc_first = 0 /\ rc_events = <<>> /\ rc_asked = {} /\ rc_busy = FALSE /\ rc_loose = {}

\* A submission is stored, graded on, or done, and an event says so.
SubmissionMoves(i, status) ==
    /\ Stage[status] = Stage[rc_status[i]] + 1
    /\ i > 1 => rc_status[i - 1] # "none"
    /\ rc_status' = [rc_status EXCEPT ![i] = status]
    /\ rc_events' = IF rc_made = "open" THEN Append(rc_events, [id |-> i, done |-> status = "D"]) ELSE rc_events
    /\ rc_loose' = IF rc_made = "rows" THEN rc_loose \cup {i} ELSE rc_loose
    /\ UNCHANGED <<rc_made, rc_rows, rc_shown, rc_first, rc_asked, rc_busy>>

\* The newest rows, the last id first.
NewestRows ==
    LET top == MaxOf({i \in RecentIds : rc_status[i] # "none"})
        n == IF top < RowsPerPage THEN top ELSE RowsPerPage
    IN [k \in 1..n |-> (top - k) + 1]

ReadRows ==
    /\ rc_made = "none" /\ rc_made' = "rows"
    /\ rc_rows' = NewestRows /\ rc_shown' = rc_status
    /\ UNCHANGED <<rc_status, rc_first, rc_events, rc_asked, rc_busy, rc_loose>>

\* event.last(), from where on the page follows.
OpenRecent ==
    /\ rc_made = "rows" /\ rc_made' = "open"
    /\ rc_first' = IF rc_rows = <<>> THEN 0 ELSE Head(rc_rows)
    /\ UNCHANGED <<rc_status, rc_rows, rc_shown, rc_events, rc_asked, rc_busy, rc_loose>>

\* A new row goes to the top, and the last one goes when the page is full.
Prepended(id) ==
    LET rows == <<id>> \o rc_rows
    IN IF Len(rows) >= RowsPerPage THEN Front(rows) ELSE rows

AskRow(id, force) == rc_asked' = rc_asked \cup {[id |-> id, force |-> force, read |-> "none"]}

\* Mutant: the end of grading is asked for like any other step.
NeverForced(event) == FALSE

\* update_submission(message, true) at a done-submission.
Forced(event) == event.done

\* An event: an old submission without a row is passed over; a row is asked for unless one is.
SeeEvent ==
    LET event == Head(rc_events)
        there == event.id \in Range(rc_rows)
        force == Forced(event) IN
    /\ rc_made = "open" /\ rc_events # <<>> /\ rc_events' = Tail(rc_events)
    /\ IF ~there /\ event.id < rc_first
       THEN UNCHANGED <<rc_rows, rc_shown, rc_first, rc_asked, rc_busy>>
       ELSE /\ IF there THEN UNCHANGED <<rc_rows, rc_shown, rc_first>>
               ELSE /\ rc_first' = event.id /\ rc_rows' = Prepended(event.id)
                    /\ rc_shown' = [rc_shown EXCEPT ![event.id] = "none"]
            /\ IF force \/ ~rc_busy
               THEN /\ Cardinality(rc_asked) < MaxAsked
                    /\ AskRow(event.id, force)
                    /\ rc_busy' = (rc_busy \/ ~force)
               ELSE UNCHANGED <<rc_asked, rc_busy>>
    /\ UNCHANGED <<rc_status, rc_made, rc_loose>>

\* single_submission reads the submission.
SingleSubmission(ask) ==
    /\ ask \in rc_asked /\ ask.read = "none"
    /\ rc_asked' = (rc_asked \ {ask}) \cup {[ask EXCEPT !.read = rc_status[ask.id]]}
    /\ UNCHANGED <<rc_status, rc_made, rc_rows, rc_shown, rc_first, rc_events, rc_busy, rc_loose>>

\* The answer fills the row; one read before what the row shows came late.
RowAnswered(ask) ==
    /\ ask \in rc_asked /\ ask.read # "none"
    /\ rc_asked' = rc_asked \ {ask}
    /\ rc_shown' = [rc_shown EXCEPT ![ask.id] = ask.read]
    /\ rc_loose' = IF Stage[ask.read] < Stage[rc_shown[ask.id]] THEN rc_loose \cup {ask.id} ELSE rc_loose
    /\ UNCHANGED <<rc_status, rc_made, rc_rows, rc_first, rc_events, rc_busy>>

\* A second after the answer to a row that was not forced.
BusyEnds ==
    /\ rc_busy /\ ~\E ask \in rc_asked : ~ask.force
    /\ rc_busy' = FALSE
    /\ UNCHANGED <<rc_status, rc_made, rc_rows, rc_shown, rc_first, rc_events, rc_asked, rc_loose>>

RowFails(ask) ==
    /\ ask \in rc_asked
    /\ rc_asked' = rc_asked \ {ask}
    /\ rc_loose' = rc_loose \cup {ask.id}
    /\ rc_busy' = (rc_busy /\ ask.force)
    /\ UNCHANGED <<rc_status, rc_made, rc_rows, rc_shown, rc_first, rc_events>>

RcNext ==
    \/ ReadRows \/ OpenRecent \/ SeeEvent \/ BusyEnds
    \/ \E i \in RecentIds, status \in {"QU", "G", "D"} : SubmissionMoves(i, status)
    \/ \E ask \in rc_asked : SingleSubmission(ask) \/ RowAnswered(ask) \/ RowFails(ask)

RcSpec == RcInit /\ [][RcNext]_rcvars

-----------------------------------------------------------------------------
(* Properties.                                                             *)

\* With no event to see and no answer to come, a graded submission's row says so, however many of
\* its steps were passed over, unless it moved while the page was made, an answer failed, or an
\* answer that was read earlier came later.
DoneRowsSayIt ==
    rc_made = "open" /\ rc_events = <<>> /\ rc_asked = {} =>
        \A i \in Range(rc_rows) \ rc_loose : rc_status[i] = "D" => rc_shown[i] = "D"

\* The rows are the newest the page heard of, none twice, from the top, and no more than a page.
RowsInOrder ==
    /\ Len(rc_rows) <= RowsPerPage
    /\ \A a, b \in DOMAIN rc_rows : a < b => rc_rows[a] > rc_rows[b]
    /\ rc_made = "open" /\ rc_rows # <<>> => Head(rc_rows) = rc_first

RecentHolds == DoneRowsSayIt /\ RowsInOrder
=============================================================================
