-------------------------------- MODULE Tickets --------------------------------
(***************************************************************************)
(* Tickets (judge/views/ticket.py): a request opens one in four steps;     *)
(* those who close it, write in it or keep notes on it load the whole row  *)
(* and save the whole row; and an open page follows by events.  Who may do *)
(* what is in CommunityRules.                                              *)
(***************************************************************************)
EXTENDS Integers, Sequences

CONSTANTS
    Tickets,        \* Tickets that may be opened.
    TkRequests,     \* Requests that are under way at once.
    TkPages,        \* Open pages, each of a ticket.
    MaxTkRequests   \* Bound: requests.

VARIABLES
    tk_rows,        \* Per ticket: stored, open, messages, first (that of who opened it), assignees.
    tk_requests,    \* Per request: NoAsk, or what it does, its next step and what it loaded.
    tk_events,      \* Events of the tickets, in the order they were posted.
    tk_pages,       \* Per page: at, ticket, status and messages it shows, event it received last.
    tk_count,
    tk_saves,       \* History, per ticket: status changes saved, the last one announced, and its value.
    tk_reverted,    \* History: tickets whose status a save of an older row put back.
    tk_excused,     \* History: pages that were told of changes in another order or missed one.
    tk_failed       \* History: a fetch for an event found nothing.

tkvars == <<tk_rows, tk_requests, tk_events, tk_pages, tk_count,
            tk_saves, tk_reverted, tk_excused, tk_failed>>

NoAsk == [kind |-> "none"]

TkInit ==
    /\ tk_rows = [t \in Tickets |-> [stored |-> FALSE, open |-> TRUE, messages |-> 0, first |-> 0, assignees |-> "no one"]]
    /\ tk_requests = [r \in TkRequests |-> NoAsk]
    /\ tk_events = <<>>
    /\ tk_pages = [p \in TkPages |-> [at |-> "none"]]
    /\ tk_count = 0
    /\ tk_saves = [t \in Tickets |-> [made |-> 0, told |-> 0, value |-> TRUE]]
    /\ tk_reverted = {} /\ tk_excused = {} /\ tk_failed = FALSE

Ask(r, work) ==
    /\ tk_requests[r] = NoAsk
    /\ tk_count < MaxTkRequests /\ tk_count' = tk_count + 1
    /\ tk_requests' = [tk_requests EXCEPT ![r] = work]

GoOn(r, step) == tk_requests' = [tk_requests EXCEPT ![r].step = step]
Answered(r) == tk_requests' = [tk_requests EXCEPT ![r] = NoAsk]
Tell(type, t, value) == tk_events' = Append(tk_events, [type |-> type, ticket |-> t, value |-> value])

-----------------------------------------------------------------------------
(* A new ticket.                                                           *)

\* Mutant: the event is posted before the message is stored.
AfterTicketEarly == "post"

\* What follows once the row of the ticket is stored.
AfterTicket == "message"

\* NewTicketView.form_valid, with the authors of the contest the user is in if the problem is
\* one of its problems, of the problem otherwise.
NewTicket(r, t, assignees) ==
    /\ ~tk_rows[t].stored
    /\ Ask(r, [kind |-> "new", step |-> AfterTicket, ticket |-> t, assignees |-> assignees])
    /\ tk_rows' = [tk_rows EXCEPT ![t].stored = TRUE]
    /\ UNCHANGED <<tk_events, tk_pages, tk_saves, tk_reverted, tk_excused, tk_failed>>

FirstMessage(r) ==
    LET work == tk_requests[r] IN
    /\ work.kind = "new" /\ work.step = "message" /\ GoOn(r, "assign")
    /\ tk_rows' = [tk_rows EXCEPT ![work.ticket].messages = @ + 1,
                                     ![work.ticket].first = tk_rows[work.ticket].messages + 1]
    /\ UNCHANGED <<tk_events, tk_pages, tk_count, tk_saves, tk_reverted, tk_excused, tk_failed>>

Assign(r) ==
    LET work == tk_requests[r] IN
    /\ work.kind = "new" /\ work.step = "assign" /\ GoOn(r, "post")
    /\ tk_rows' = [tk_rows EXCEPT ![work.ticket].assignees = work.assignees]
    /\ UNCHANGED <<tk_events, tk_pages, tk_count, tk_saves, tk_reverted, tk_excused, tk_failed>>

TellNew(r) ==
    LET work == tk_requests[r] IN
    /\ work.kind = "new" /\ work.step = "post" /\ Answered(r)
    /\ Tell("new-ticket", work.ticket, 1)
    /\ UNCHANGED <<tk_rows, tk_pages, tk_count, tk_saves, tk_reverted, tk_excused, tk_failed>>

-----------------------------------------------------------------------------
(* An open or closed ticket.                                               *)

\* TicketView.form_valid.
Write(r, t) ==
    /\ tk_rows[t].stored
    /\ Ask(r, [kind |-> "write", ticket |-> t, message |-> tk_rows[t].messages + 1])
    /\ tk_rows' = [tk_rows EXCEPT ![t].messages = @ + 1]
    /\ UNCHANGED <<tk_events, tk_pages, tk_saves, tk_reverted, tk_excused, tk_failed>>

TellWritten(r) ==
    LET work == tk_requests[r] IN
    /\ work.kind = "write" /\ Answered(r)
    /\ Tell("ticket-message", work.ticket, work.message)
    /\ UNCHANGED <<tk_rows, tk_pages, tk_count, tk_saves, tk_reverted, tk_excused, tk_failed>>

\* TicketMixin.get_object.
LoadTicket(r, t, kind, open) ==
    /\ tk_rows[t].stored
    /\ Ask(r, [kind |-> kind, open |-> open, ticket |-> t, row |-> tk_rows[t].open, step |-> "save", save |-> 0])
    /\ UNCHANGED <<tk_rows, tk_events, tk_pages, tk_saves, tk_reverted, tk_excused, tk_failed>>

\* TicketStatusChangeView.post: nothing is done for a ticket that was loaded in that state.
LoadStatus(r, t, open) == tk_rows[t].open # open /\ LoadTicket(r, t, "status", open)

SaveStatus(r) ==
    LET work == tk_requests[r] IN
    /\ work.kind = "status" /\ work.step = "save"
    /\ tk_requests' = [tk_requests EXCEPT ![r].step = "post", ![r].save = tk_saves[work.ticket].made + 1]
    /\ tk_rows' = [tk_rows EXCEPT ![work.ticket].open = work.open]
    /\ tk_saves' = [tk_saves EXCEPT ![work.ticket].made = @ + 1]
    /\ tk_reverted' = tk_reverted \ {work.ticket}
    /\ UNCHANGED <<tk_events, tk_pages, tk_count, tk_excused, tk_failed>>

TicketPages(t) == {p \in TkPages : tk_pages[p].at # "none" /\ tk_pages[p].ticket = t}

TellStatus(r) ==
    LET work == tk_requests[r] IN
    /\ work.kind = "status" /\ work.step = "post" /\ Answered(r)
    /\ Tell("ticket-status", work.ticket, work.open)
    /\ tk_saves' = [tk_saves EXCEPT ![work.ticket].told = work.save, ![work.ticket].value = work.open]
    /\ tk_excused' = {p \in tk_excused : p \notin TicketPages(work.ticket)}
    /\ UNCHANGED <<tk_rows, tk_pages, tk_count, tk_reverted, tk_failed>>

\* TicketNotesEditView, and the form of TicketAdmin.
LoadNotes(r, t) == LoadTicket(r, t, "notes", tk_rows[t].open)

SaveNotes(r) ==
    LET work == tk_requests[r] IN
    /\ work.kind = "notes" /\ Answered(r)
    /\ tk_rows' = [tk_rows EXCEPT ![work.ticket].open = work.row]
    /\ tk_reverted' = IF work.row # tk_rows[work.ticket].open THEN tk_reverted \cup {work.ticket} ELSE tk_reverted
    /\ UNCHANGED <<tk_events, tk_pages, tk_count, tk_saves, tk_excused, tk_failed>>

-----------------------------------------------------------------------------
(* A page of a ticket.                                                     *)

TkPage(p, state) == tk_pages' = [tk_pages EXCEPT ![p] = state]

OpenTicket(p, t) ==
    /\ tk_pages[p].at = "none" /\ tk_rows[t].stored
    /\ TkPage(p, [at |-> "loaded", ticket |-> t, open |-> tk_rows[t].open, messages |-> {}, last |-> 0, early |-> FALSE])
    /\ UNCHANGED <<tk_rows, tk_requests, tk_events, tk_count, tk_saves, tk_reverted, tk_excused, tk_failed>>

\* event.last() is read after the ticket: a status announced between the two is missed.
LastEvent(p) ==
    /\ tk_pages[p].at = "loaded"
    /\ TkPage(p, [tk_pages[p] EXCEPT !.at = "rendering", !.last = Len(tk_events)])
    /\ tk_excused' = IF tk_saves[tk_pages[p].ticket].value # tk_pages[p].open THEN tk_excused \cup {p} ELSE tk_excused
    /\ UNCHANGED <<tk_rows, tk_requests, tk_events, tk_count, tk_saves, tk_reverted, tk_failed>>

\* The messages are read when they are rendered.
Render(p) ==
    /\ tk_pages[p].at = "rendering"
    /\ TkPage(p, [tk_pages[p] EXCEPT !.at = "open", !.messages = 1 .. tk_rows[tk_pages[p].ticket].messages,
                                !.early = tk_rows[tk_pages[p].ticket].first = 0])
    /\ UNCHANGED <<tk_rows, tk_requests, tk_events, tk_count, tk_saves, tk_reverted, tk_excused, tk_failed>>

\* The page takes a status from its event, and fetches a message, or a new ticket with its
\* first message (TicketMessageDataAjax, TicketListDataAjax).
ReceiveEvent(p) ==
    LET q == tk_pages[p]
        event == tk_events[q.last + 1]
        own == event.ticket = q.ticket IN
    /\ q.at = "open" /\ q.last < Len(tk_events)
    /\ TkPage(p, [q EXCEPT !.last = @ + 1,
           !.open = IF own /\ event.type = "ticket-status" THEN event.value ELSE @,
           !.messages = IF own /\ event.type = "ticket-message" THEN @ \cup {event.value} ELSE @])
    /\ tk_failed' = (tk_failed \/ (event.type # "ticket-status" /\ event.value \notin 1 .. tk_rows[event.ticket].messages))
    /\ UNCHANGED <<tk_rows, tk_requests, tk_events, tk_count, tk_saves, tk_reverted, tk_excused>>

TkNext ==
    \/ \E r \in TkRequests :
         \/ FirstMessage(r) \/ Assign(r) \/ TellNew(r) \/ TellWritten(r) \/ SaveStatus(r) \/ TellStatus(r) \/ SaveNotes(r)
         \/ \E t \in Tickets : \/ Write(r, t) \/ LoadNotes(r, t)
                              \/ \E open \in BOOLEAN : LoadStatus(r, t, open)
                              \/ \E assignees \in {"problem", "contest"} : NewTicket(r, t, assignees)
    \/ \E p \in TkPages : LastEvent(p) \/ Render(p) \/ ReceiveEvent(p) \/ \E t \in Tickets : OpenTicket(p, t)

TkSpec == TkInit /\ [][TkNext]_tkvars

-----------------------------------------------------------------------------
(* Properties.                                                             *)

\* An event about a new ticket or a message comes when there is a message to fetch.
EventsNameStored == ~tk_failed

Announcing(t) == \E r \in TkRequests : /\ tk_requests[r].kind = "status"
                                       /\ tk_requests[r].ticket = t /\ tk_requests[r].step = "post"

\* Once the changes of a ticket are announced, the status is that of the last change, unless a
\* request that had loaded the ticket before it saved its notes after it.
ChangesStay ==
    \A t \in Tickets : ~Announcing(t) /\ tk_saves[t].told = tk_saves[t].made /\ tk_saves[t].made > 0
      => tk_rows[t].open = tk_saves[t].value \/ t \in tk_reverted

\* And an open page that received all events shows that status, unless the change was announced
\* while the page was made, and has every message but those still to be announced, and
\* the first if the page was made before it was stored.
TicketPagesFollow ==
    \A p \in TkPages : tk_pages[p].at = "open" /\ tk_pages[p].last = Len(tk_events) =>
      LET q == tk_pages[p]  t == q.ticket IN
      /\ ~Announcing(t) /\ tk_saves[t].told = tk_saves[t].made /\ t \notin tk_reverted /\ p \notin tk_excused
         => q.open = tk_rows[t].open
      /\ \A i \in (1 .. tk_rows[t].messages) \ q.messages :
            \/ q.early /\ tk_rows[t].first = i
            \/ \E r \in TkRequests : tk_requests[r].kind = "write" /\ tk_requests[r].ticket = t /\ tk_requests[r].message = i

TicketsHold == EventsNameStored /\ ChangesStay /\ TicketPagesFollow
=============================================================================
