# A verification project for the online judge

This directory models the online judge in `judge/` with TLA+ - the bridge to the
judging machines, contests, the rules of access, and the components of the site
around them - checks the models with TLC, and proves the invariants that matter
most with TLAPS. Every definition is a translation of the source at this commit;
`PROJECT.json` ("map") gives the lines each one stands for.

Contents: [1 the system](#1-the-system) ·
[2 inventory](#2-inventory) · [3 modules](#3-modules-and-how-they-correspond-to-the-code) ·
[4 runs](#4-runs-bounds-and-what-they-show) · [5 fairness](#5-fairness) ·
[6 proofs](#6-proofs) · [7 findings](#7-where-code-and-comments-disagree) ·
[8 limits](#8-what-is-only-checked-what-is-not-modelled) · [9 plan](#9-plan)

## 1 The system

Three kinds of process share one SQL database:

- **web processes** (Django views): users submit, staff rejudge and abort,
  contests are joined, left and rated. A web process opens one TCP connection
  per request to the bridge (`judge/judgeapi.py`) and waits for the reply;
- **the bridge daemon** (`judge/bridge/`): one process, one thread per
  connection. `JudgeHandler` serves a judge, `DjangoHandler` a web request; all
  share one `JudgeList`, whose methods run under one re-entrant lock;
- **judges** (external): they connect, authenticate, report what they can grade,
  receive a submission and answer with acknowledgement, test cases and one final
  packet.

Celery workers (`judge/tasks/`) do batch rejudges and rescoring; an event daemon
(`websocket/daemon.js`) pushes notifications to browsers.

The hard part is that a submission's life is spread over three owners, the
database row, the queue and map of the bridge, and the judge, and no lock covers
two of them.

## 2 Inventory

| Component (source) | State | Operations | Interacts with | Hard behaviour | Correct when |
|---|---|---|---|---|---|
| Judge scheduler (`bridge/judge_list.py`) | `judges`, `queue` with priority markers, `node_map`, `submission_map` | register, remove, disconnect, update_problems, update_disable_judge, on_judge_free, abort, judge | called by every handler thread; calls `JudgeHandler.submit/abort` | many threads; dispatch may raise; flags edited elsewhere | the three structures agree; a judge has one submission; no work is left beside a free judge; rejudges leave a judge free |
| Judge connection (`bridge/judge_handler.py`) | `_working`, `problems`, `executors`, `is_disabled`, batch state | handshake, packets of a grading, disconnect, ping | scheduler, database, event daemon | test outside the lock; exceptions in handlers; result written after the judge is freed | database follows the grading; nothing is forgotten |
| Web requests to the bridge (`judgeapi.py`, `bridge/django_handler.py`) | none (row of `Submission`) | judge, abort, disconnect, disable | row update, delete, packet, reply | several steps with no lock; lost replies | a submission is graded, or shown as an error |
| Daemon (`bridge/daemon.py`) | `Submission.status` of leftovers | start, stop | database | crash and restart | no submission stays in progress |
| Packet framing (`bridge/base_handler.py`) | socket, buffer | read size, read packet, PROXY header, close | all handlers | EOF inside a packet, time-outs | every connection ends |
| Judge administration (`models/runtime.py`, `admin/runtime.py`) | `Judge.is_disabled`, `is_blocked`, `online` | toggle_disabled, disconnect | bridge, row | packet before the row is saved | flag of the handler follows the row |
| Submission results (`models/submission.py`, `tasks/submission.py`) | points, `case_points`, contest points | update_contest, rescore, batch rejudge | contest participation, user points | two roundings; whole-row saves | points follow the test cases |
| Contest participation (`models/contest.py`, `views/contests.py`) | participations, `virtual`, `is_disqualified`, banned users, `current_contest` | join, leave, spectate, virtual join, disqualify, end | submissions, formats, rankings | check-then-create, saves of stale objects | one live participation a user; disqualified means no score and banned |
| Contest formats (`contest_format/`) | `score`, `cumtime`, `tiebreaker`, `format_data` | update_participation | participation | ties, penalties, batches | each is its documented rule |
| Ratings (`ratings.py`, `models/contest.py`) | `Rating` rows, `Profile.rating` | rate, unrate, rate all | contests in order of end time | order of contests; deletes and re-creates later ones | rating history is that of the contests in order |
| Courses (`models/course.py`, `views/courses.py`) | course participation, grades | join, lesson results, rate_course | submissions, ratings | as contests | as contests |
| Problems (`views/problem.py`, `models/problem.py`) | submission limits, clones, visibility | submit, clone, vote | submissions, contests | check-then-act on limits | limits hold |
| Comments and votes (`models/comment.py`, `views/comment.py`) | `score`, vote rows, locks | post, vote, hide | user | two writers; insert then update under a lock loop | score is the sum of the votes |
| Tickets (`views/ticket.py`) | tickets, messages, assignees | open, close, reply, notes | event daemon | whole rows saved, events before commits | the last change stays and open pages show it |
| Organizations (`views/organization.py`) | members, admins, join requests | join, leave, request, process | profiles | slots and check-then-act | no more members than slots |
| Problem data (`utils/problem_data.py`, `views/problem_data.py`) | test data files, `init.yml` | compile, save | judges | file and rows diverge | `init.yml` describes the rows |
| User points (`performance_points.py`, `models/profile.py`) | points, performance points | calculate_points | submissions | stale recomputation | sum over best submissions |
| Accounts (`views/two_factor.py`, `views/register.py`, `social_auth.py`, `views/user.py`, `tasks/user.py`) | factors, spare codes, devices, API token, archive of one's data | enable, disable, sign up, log in, edit, prepare data | sessions, Celery | several sessions, rows loaded early, crash while signing up | staff keep a factor; one account an address; the last token counts; one task writes the archive |
| Caches and rendered files (`signals.py`, `views/problem.py`, `utils/mathoid.py`, `utils/texoid.py`) | cached fragments, PDF, formula files | fill, drop, render | saves of rows | filled from old rows, files written one by one | what is kept is of the rows |
| Access rules (`models/problem.py`, `models/contest.py`, `models/course.py`, `views/*`, `comments.py`) | permissions, roles, visibility, dates | is_accessible_by, get_visible_*, is_editable_by, ... | every page, list, feed, search, API | each rule is written twice or more, as a test and as a query | the versions agree |
| Locks and MOSS (`admin/contest.py`, `models/submission.py`, `tasks/contest.py`) | `locked_after`, results of plagiarism runs | lock, rejudge, moss | submissions, tasks | rows read before, tasks that cross | locked submissions are not graded again; results are of one run |
| Lists, calendars (`views/problem.py`, `views/ticket.py`, `views/contests.py`) | session filters | list, random, month | paginators | lists that change between pages | links open; each day shows its contests |
| Event daemon (`websocket/daemon.js`, `event_poster*.py`) | message ring, filters | post, poll, replay | bridge, views | ring overflow, reconnect | no message lost while in the ring |
| Mail throttling (`dmoj/throttle_mail.py`) | cache counter | emit | cache | add-then-incr | bound per period |
| Paginators (`utils/diggpaginator.py`, `infinite_paginator.py`) | none | page ranges | views | boundaries | ranges cover pages |
| Ranker (`utils/ranker.py`) | none | rank | rankings | ties | equal keys, equal ranks |
| API (`views/api/api_v2.py`) | none | filters, pages | problems, contests, users | items that come and go between pages | nothing missed, nothing twice |
| Feeds, sitemaps, templates, widgets, forms of the administration, migrations, locale | none of their own | rendering, I/O | – | – | what is published opens |

`PROJECT.json` ("components") says of each whether it is modelled, and if not, why.

## 3 Modules and how they correspond to the code

| Module | Models | Uses | Checked by | Proved in |
|---|---|---|---|---|
| `JudgeList` | `JudgeList`, and the part of `JudgeHandler` it calls and that calls it | – | `MCJudgeList` | `JudgeListProofs` |
| `SubmissionLife` | what the site promises of a submission (abstract) | – | as a property of `Bridge` | `BridgeProofs` |
| `Bridge` | `JudgeList` composed with database rows, web requests, packet handlers, daemon start | extends `JudgeList`, instantiates `SubmissionLife` | `MCBridge` | `BridgeProofs` |
| `Participation` | one contest: joining, leaving, submitting, scoring, disqualifying | – | `MCParticipation` | `ParticipationProofs` |
| `ProblemRules`, `ContestRules`, `CommunityRules` | the rules of access, as tests of one object and as queries | – | through `Access` | `AccessProofs` |
| `Access` | one viewer and one object while permissions, the object and the time change | extends the rules | `MCAccess` | `AccessProofs` |
| the modules listed under "The site" | one component each | – | `MCSite` | see there |
| `Site` | the seventeen modules of those that are proved, side by side | extends them | `MCSite` | `JudgingProofs`, `PeopleProofs`, `ContentProofs`, `ShownProofs` |

Every module says in its header what one step is. "Mutant" operators next to a
definition are plausible wrong versions of it; each property is known to fail
when the definition is replaced by one of them (`PROJECT.json`, "mutants").

### JudgeList

The methods of `JudgeList` hold its lock from beginning to end, so a method is
one action, together with the thread-local code around it. Where a handler
enters the lock twice, or looks at a field before taking it, it is two actions:

- `Register` / `Connected`: `on_handshake` registers the judge and may give it
  work; only then does `_connected` read `is_disabled` from the database;
- `SupportedProblems` / `UpdateProblems`: `on_supported_problems` tests
  `working` without the lock and then calls `update_problems`.

| TLA+ | Code |
|---|---|
| `judges`, `submission_map` | the attributes of the same name |
| `queue` | the linked list with its four `PriorityMarker`s: `queue[p]` is what stands before the marker of priority `p` |
| `node_map` | the attribute; a node is named by the section that holds it |
| `working`, `is_disabled`, `problems` | attributes of a `JudgeHandler` (`problems` includes executors) |
| `conn`, `closed`, `updating` | where the handler's thread is; whether the bridge shut its socket; whether it is between the two halves of `on_supported_problems` |
| `sent` | what the judge itself has been asked to grade (outside the bridge) |
| `failed`, `raced`, `reenabled` | history, used only to say when a property is promised |
| `HandleFreeJudge` | `_handle_free_judge` |
| `Register`, `Disconnect`, `UpdateProblems`, `OnJudgeFree`, `Judge`, `Abort`, `ForceDisconnect`, `UpdateDisableJudge` | `register`, `remove`, `update_problems`, `on_judge_free`, `judge`, `abort`, `disconnect`, `update_disable_judge` |

`JudgeHandler.submit` may raise at three points: before `_working` is set,
after it, or not at all (`SubmitOk`, `SubmitFails`). A failure removes the judge
from the pool and leaves the node in the queue. `min(..., key=load)` picks any
available judge, since the load is whatever the judges report.

### Bridge

`Bridge` extends `JudgeList` and reuses its actions inside larger ones. It adds
the rows (`status`, `cases`, `score`), the point reached by each web process
(`web`), the result a handler thread has still to write (`task`), and what
the judge is doing (`cur`, `prog`, `term`). One step is one query, one packet to
the bridge, or one critical section:

- `JudgeUpdate`, `JudgeDelete`, `JudgeRequest`, `JudgeFailed`: the conditional
  update, the deletion of the test cases, the packet and the exception handler
  of `judge_submission`. A lost reply (`LosesReplies`) is the `JudgeRequest` that
  acts on the bridge and still goes to `JudgeFailed`;
  The branch for an answer of another name (`judgeapi.py:96-97`) is not modelled: the
  handler of the bridge has one answer to a submission request;
- `AbortCheck`, `AbortRequest`, `AbortMark`: `abort_submission`. A reply that is lost
  raises here too, and the row is left as it was although the bridge may have
  taken the submission out of its queue: `dropped` remembers these until the
  submission is asked for again or the daemon is started;
- `Acknowledge`, `GradingBegin`, `TestCase`: the packet handlers;
- `End`, `Tally`, `Write`: a final packet frees the judge under the lock, then
  the handler reads the test cases, then writes the row. Between the three other
  threads run: that is the race on which the score properties turn;
- `Leave`: `on_disconnect`, whose database part is a `Write`;
- `Crash`, `Start`: the process dies with its memory; `judge_daemon` marks the
  leftovers.

Every step also notes (`Noted`) which submissions are `astray`: given to a judge that
works on another one, or entered in `submission_map` for a judge that never had
them. A judge given two at a time, a wrong acknowledgement and a failed dispatch
are the ways there. `NobodyIsForgotten` is stated for all others, in every
behaviour: of two submissions that meet at one judge, the one it works on
must be looked after. And it excepts a row that an abort with a lost reply dropped
(`FellOut`): the code leaves it queued, with nobody to grade it.

`score` is not a number but the set of test cases it was computed from, so a
score made of too few cases, of none, or of cases that arrived in the middle is
told apart from a complete one.

### Participation

One contest, and the rows that decide who is inside it. A worker is any process
that runs one request, grading or task. A step is one statement that touches the
database. What a worker loaded stays in its `work` record: Django objects are
neither locked nor read again, and `save()` writes every column, so a worker
that loaded a row early may write back an old `is_disqualified`. The two
`save()`s of `recompute_results` are inside one `transaction.atomic`, and so are
one step.

| TLA+ | Code |
|---|---|
| `exists`, `dq`, `score` | rows of `ContestParticipation`; the key is (user, `virtual`) |
| `current`, `banned`, `user_count` | `Profile.current_contest`, `Contest.banned_users`, `Contest.user_count` |
| `csub`, `graded` | rows of `ContestSubmission` and whether their points are saved |
| `Enter`, `Middleware` | the request's profile; `ContestMiddleware` and `update_contest` |
| `JoinCheck` … `SaveCount` | `ContestJoin.join_contest` |
| `Leave` | `ContestLeave` |
| `SaveProfile` | the requests that save the whole `Profile` they loaded, the participation in it included: `edit_profile`, `remove_api_token`, `UserPrepareData`, joining an organization or a course, disabling the second factor |
| `SubmitCheck`, `Store` | `ProblemSubmit.form_valid` |
| `Grade`, `Rescore`, `Toggle` | `Submission.update_contest`, `rescore_contest`, `ContestParticipationDisqualify` |
| `AddUp`, `Save`, `Eject`, `Ban` | `recompute_results`, `set_disqualified` |

### SubmissionLife

The abstract specification: a submission has a status (`life`), judgings of it
may be under way (`under`), its result may be that of all its test cases or of a
part (`whole`), some may have fallen out while they show as queued (`lost`), and some are
excused (`free`). A judging goes
forward from queue to processing to grading, is answered at most once, and a
grade counts every test case; an internal error or an abort is a mark that may
come at any time, and the judging goes on below it. Nothing shows as in progress
that nobody judges, but what was lost.

`Bridge` implements it, `Life == INSTANCE SubmissionLife WITH life <- status,
under <- Under, whole <- ..., free <- disputed`: a submission is under way while
it is queued, dispatched, at a judge, about to be sent by a web process or
about to be written by a handler thread. What is a single step there is up to
six here, of three processes. The property `SubmissionLifecycle` of `Bridge_race`
is that refinement.

### Access

One topic at a time: a problem (with its submissions, solution and comments), a
contest, a course or lesson, a post, an organization. The state is the object's
fields that rules read, the viewer's permissions, roles and marks, the time
relative to the object's dates, and the viewer's participation; the steps are
edits by administrators, grants and losses, ticks, joins and leaves. Every
step ends with what `ContestMiddleware` does, so a state is what a page finds.

The rules themselves are operators over a viewer and an object, in the modules
named `...Rules`, each translated from its own place in the code:
`is_accessible_by` beside `get_visible_problems`, the feed beside the page, the API
list beside the API detail, the admin's query beside the site's button. The
properties say that those agree, that what is listed opens, that a permission
only adds (`Gains`, with the exceptions the code has), and that time never takes
a scoreboard away.

What a page offers is an operator too: the tabs, buttons and links that its template
shows under a condition of its own (`ContestTab`, `CourseTab`, `SubmissionListed`, ...).
`LinksLead` puts each beside the rule of the page it leads to: whoever is shown it finds
that page open, and whoever enters a contest from its page is still inside when the
middleware has looked. Links that the code shows in vain are left out of it, each where
`Access` says so, and listed in section 7. No rule of a course reads its flag for
testers that see submissions, so `Courses` has it off.

`OthersNeedScoreboard` is about the pages that go by the contest. Two go by the problem
alone: `APISubmissionList` (`api_v2.py:581`) lists, and `single_submission`
(`views/submission.py:522`) shows the row of, every submission to a problem that the viewer may
see, also during a contest whose scoreboard is hidden from him. The property has them with
the condition that they do have. A current contest of a viewer (`pcontest`) has
started; whether it contains the problem decides what lists of submissions find
(`OutsideCurrent`).

### The site

Components that share nothing that is modelled, one module each. `MCSite` checks
them in one instance: a behaviour is of one `part`, so the states of the parts add up
and are not multiplied. `Site` puts the components that theorems are about beside one another,
each with variables of its own, as three specifications: `JudgingSpec` (around the judges),
`PeopleSpec` (around the users) and `ShownSpec` (what is shown of rows that change). `MCSite` extends `Site`; the other components share the variables
`s1` to `s11` through `INSTANCE ... WITH`. What a part does not have is 0 while that part runs.

| Module (part) | Code | What a step is | What holds |
|---|---|---|---|
| `Organizations` | `views/organization.py` | a query or save of joining, asking, reviewing | slots, final decisions |
| `Courses` | `views/courses.py`, `models/course.py`, `admin/course.py` | a query or save of joining, leaving, disqualifying | numbering, bans, user count |
| `Accounts` | `views/two_factor.py`, `signals.py` | a read or save of a session | key, spare codes and flags agree; staff keep a factor |
| `SignUp` | `views/register.py`, `social_auth.py` | a step of a form or of the pipeline, a crash | one account an address, profiles made, links |
| `Tokens` | `views/user.py`, `models/profile.py` | load or save of a profile | the last token counts; points and memberships survive |
| `Downloads` | `views/user.py`, `tasks/user.py` | request, task, tick | one writer, rate limit, whole archives |
| `Formats` | `contest_format/*.py` | submit, grade, fail, rejudge | relations between formats; tries after the best are free |
| `Scoreboards` | `utils/ranker.py`, `views/contests.py`, `views/courses.py`, `views/user.py` | load, save, turn virtual, change | ranks fair, leaderboard and its links |
| `Ratings` | `ratings.py`, `models/contest.py`, `admin` | rate, rate all, crash, correct | a replay of the contests; profiles show the last |
| `Standing` | `models/profile.py`, `models/problem.py`, `models/submission.py`, `tasks/submission.py` | one statement of grading, or of rescoring when asked for | points, rounded as each writer does, and caches are those of the submissions |
| `Marks` | `utils/problems.py`, `caching.py`, `signals.py`, `admin/submission.py` | submit, one step of finishing, rejudge, rescore, delete, read or keep a set | a graded submission leaves no mark wrong |
| `Solutions` | `views/submission.py`, `views/ranked_submission.py` | case arrives, graded, best list | batches, combined statuses, best submissions |
| `Performance` | `performance_points.py`, `views/user.py` | page, more, change | the table adds up |
| `Discussion` (comments, votes) | `comments.py`, `views/comment.py`, `admin/comments.py`; votes in `views/problem.py` | a statement of a vote, an edit, a reply | score is the votes; nothing below hidden; one vote each |
| `Tickets` | `views/ticket.py`, `models/ticket.py` | one of the four steps of opening, a load, a save, an event | changes stay, pages follow |
| `ProblemData` | `views/problem_data.py`, `utils/problem_data.py`, `models/problem_data.py` | one deletion or save of a post, a crash, a new code | archive is there, `init.yml` compiled from the rows; what a post that replaces an archive loses |
| `Clones` | `views/problem.py`, `views/contests.py`, `views/courses.py` | load, clone | parts kept, rows apart, all or nothing |
| `Pages` (pages, lists, calendar, API lists) | `utils/diggpaginator.py`, `utils/infinite_paginator.py`; `views/problem.py`, `views/ticket.py`; `views/contests.py`, `views/courses.py`; `views/api/api_v2.py` | list changes, page made, link followed; list, draw; move, page; a page of a walk | the bar is sound, links open; one filter for all pages, draws succeed; every day filled, months reach all; nothing missed, nothing twice |
| `Caches` (caches, formulas, mails) | `signals.py`, `views/problem.py`, `utils/mathoid.py`, `utils/texoid.py`, `utils/file_cache.py`, `dmoj/throttle_mail.py` | look, read, store, save, render, count | what is kept is fresh, no empty text shown, the first errors are mailed |
| `Framing` | `bridge/base_handler.py` | a `recv` of any length | packets whole, in order, none skipped; one that is too large ends the connection |
| `Machines` | `bridge/judge_handler.py`, `admin/runtime.py`, `models/runtime.py` | handshake, failed dispatch, end, toggle, form | a connected judge is online with its own versions, unless an older connection ended meanwhile |
| `Progress` | `bridge/judge_handler.py` | a packet, a tick | batches are the judge's; announcements few, silence short |
| `Delivery` (delivery, recent) | `websocket/daemon.js`, `event_poster_ws.py`, `resources/event.js`, `templates/submission/*.html` | post, forward, fetch, restart | pages catch up, each message once |
| `Locks` (locks, limits, plagiarism) | `admin/contest.py`, `models/submission.py`, `tasks/submission.py`; `views/problem.py`; `tasks/contest.py`, `views/contests.py`, `utils/celery.py` | lock, submit, grading, batch rejudge; count, store, settle, go on; task step, page poll, edit | locks reach submissions, locked ones stay graded; a limit is exceeded only by requests that overlapped; results of one run |

Proved, besides being checked: `Framing`, `Machines`, `Progress` and `Locks` in `JudgingProofs`;
`Organizations`, `Courses`, `Accounts`, `SignUp`, `Tokens`, `Downloads` and `Clones` (its action property) in
`PeopleProofs`; `Discussion`, `Tickets`, `ProblemData` and `Clones` (its invariant) in `ContentProofs`;
`Caches`, `Marks` and `Delivery` in `ShownProofs`.

The JSON API is not a component of its own: its lists are walks of `Pages`, its rules of access stand in
`ProblemRules` and `ContestRules` beside those of the pages, and what it says of a submission is in `Solutions`, beside
the page of the submission.

All of them are about rows that are read in one step and saved in another. Django
saves every column of the object it loaded unless it is told which; so a request
loads a copy into its record and a later `Save...` writes the copy. Where two such
requests overlap the code promises little, and the module says how little: the
history variables (`org_raced`, `cs_late`, `ac_lapped`, `st_off`, ...) name the overlap, are
set by the step in which it happens, and never enable or disable anything. A property
that has such an exception is false without it; those exceptions are the list in
section 7.

## 4 Runs, bounds and what they show

Runs that pass:

| Run | Instance | Question |
|---|---|---|
| `JudgeList_pool` | 2 judges, 2 submissions of one kind, both names managed, both judges update, 1 spontaneous failure | do queue, maps, `_working` and the judges' own work agree under every interleaving? |
| `JudgeList_queue` | 2 judges, 3 submissions of 2 kinds and 3 priorities, one named | is no runnable work left beside a free judge, does a rejudge leave one free, and is a contest submission served in the end? (liveness) |
| `Bridge_race` | 1 judge, 2 web processes, 2 test cases, aborts, lost replies, 1 crash | is a submission shown as in progress always somebody's work, unless a lost reply to an abort dropped it, is a score complete, does every judging end (liveness), and is all this a `SubmissionLife`? (refinement) |
| `Bridge_two` | 1 judge that updates its problems, 2 submissions, disconnection and disabling by an administrator | is nothing forgotten, but what went astray, when two submissions meet at one judge and a dispatch may fail? |
| `Participation_join` | a contestant and an editor, 2 workers, 2 virtual participations | numbering of virtual participations, user count |
| `Participation_score` | 1 contestant, 2 workers, 2 submissions, toggled and rescored | score, flag, ban and the user's own participation agree |
| `Access` | one viewer, one object of five topics, a few permissions and roles at a time | do the versions of each rule agree, do links lead to pages that open, and does time, or a permission, ever take away what it should not? |
| `Site` | the 33 parts of `MCSite`, 2 or 3 actors each | does each component keep what its pages assume, but for the overlaps that are named? |

Why the bounds are enough. The two-judge instances reach each case of the
scheduler: no judge, one (the case on which `judge_list.py` reasons
separately), and one free among several, which is the smallest pool in which a
reservation exists. Three submissions give a queue with a node before, at and
after another section. Two web processes, or two workers, are the least that
race on one row, and the hazards listed are all races of two. One crash separates
"before" from "after"; a second one starts from a state like the first. One
spontaneous failure gives a node that outlives its dispatch; a second one is
another judge lost. Two test cases let a score be partial without being empty.

`Access` gives a viewer a bounded number of permissions, roles and marks at a time
(`MaxGrants`): four for a problem, a post or an organization, which is what the
longest conjunction of the code asks for (the rejudge button of the
administration), two for a contest, one for a course, whose rules are copies of those of
contests and are evaluated with every contest state besides. Curators are left
to the proofs, since no rule of the code that is modelled tells them from authors. Being in a
contest counts as one of the four. Of the booleans and enumerations of a contest, at most one
flag for testers or joining is set at a time, and a contest that is private in both ways or limits who
joins is otherwise plain (`Plain`): no single condition of the code mentions these together.
What the bounds leave out here section 6 covers: the theorems are for all sets of permissions and roles, and the lemmas
on the rules assume `Typed` alone, so they are for all objects.

`Site` takes two requests (or sessions, workers, tasks) wherever two may overlap, and
as many operations as let one come before, between and after the steps of
another; two problems, two contests, three users or three pages where an order
matters. The numbers of the code are scaled down where only their relation
counts: packets of 1, 3 and 4 bytes with a limit of 3 (`MaxPacket`), two test cases, problems worth 1 and 1.24
(so that grading and rescoring round differently), a page of 2 or 1 rows, a window of 2 announcements, an organization of 1
slot, weeks of 2 days, a body of 3 and a tail of 1 for the digg paginator over up
to 15 rows. The bounds of each part stand with its `INSTANCE`, and those of the parts of `Site` in `Site.cfg`.

The bounds are named in the modules (`Managed`, `Updaters`, `Offers`,
`MaxFailures`, `Abortable`, `MaxRestarts`, `MaxVirtual`, `Asked`, `Judged`,
`Rescored`, `Subs`, `Requests`, and `Max...` or `Last...` in the modules of the site)
and only restrict how often the environment acts, never what the code does then.

Deadlock is checked in the runs of the scheduler, of the bridge and of
participation, so each of them also shows that nobody waits on everybody. It is
not checked in `Access` and `Site`: there the requests allowed are used up and
everything rests. The participation runs use the symmetry of workers, which no
definition tells apart and which have no liveness property.

Runs that must find a violation, each one the disagreement of section 7:
`JudgeList_again`, `JudgeList_names`, `Bridge_corrupt`, `Bridge_aborted`.

What the passing runs show, beyond the sentence of each property in its module:
a failed dispatch is the only thing that lets the scheduler's structures part
company, and even then no judge of the pool is grading something still queued
that it was given itself; refusing a rejudge in the statuses P and G is enough
for a complete score as long as nothing of an earlier judging is still under way;
`recompute_results` keeps flag and score together whatever overlaps, but two
recomputations at a time lose a submission or a decision of the staff
(`overlapped` says when), and a user who was let in while being disqualified
stays in, as does one whose request saves a profile that it loaded before (`slipped`); the many versions of the rules of access agree except where a
property says for whom it is not stated; and most components of the site keep
their promise exactly until two requests overlap on one row.

## 5 Fairness

- `JudgeList!FairSpec`: weak fairness of the steps a handler thread takes by
  itself (`Connected`, `UpdateProblems`): threads are scheduled. Strong fairness
  of `OnJudgeFree`: a judge ends the grading of whatever it was sent; its thread
  may be between two halves of another packet, so the action is not continuously
  enabled, but packets of a connection are read in order, so others only delay
  it. Nothing obliges a judge to connect or a user to submit.
- `Bridge!BridgeFairness`: weak fairness of the web processes, of `Tally` and
  `Write` and of a connection that has begun its handshake; strong fairness of
  a grading judge, for the same reason as above; weak fairness of `Start`: the
  daemon runs under a supervisor, and until it is started again nothing settles.
  A judge may disconnect for ever and need not return: `SubmissionsSettle`
  excuses the submissions for which no enabled judge is left, and those that wait
  once a dispatch failed or a judge was given two (`Undisturbed`), or that an abort
  with a lost reply dropped. `Bridge_race`, the run that
  checks it, has this fairness for all its properties; none of the others needs it.
- The parts of `Site` and `Access` have no liveness property and no fairness: a
  request there may stop at any step, which is what a killed worker does.

## 6 Proofs

`JudgeListProofs` proves for any number of judges, names, submissions and
failures, from `SetsAssumption` and `NonesAssumption` alone:

| Theorem | Property |
|---|---|
| `TypeCorrect` | `TypeOK` |
| `QueueAgreement` | `QueueMatchesNodeMap` |
| `QueuedIsNotDispatched` | `QueuedNotDispatched` |
| `InFlightIsExact` | `InFlightExact` |
| `FreeJudgesHaveNoWork` | `FreeJudgeLeavesNoWork` |
| `RejudgesLeaveAFreeJudge` | `RejudgeLeavesAFreeJudge` |

None of the invariants after the first is inductive by itself.

`QueueInv` is their common part: `TypeOK`, `QueueMatchesNodeMap`,
`QueuedNotDispatched` and `FreshIsUnused`. `QueuedNotDispatched` could be broken
by `Register`: a judge that enters the pool would make an old entry of
`submission_map` point into the pool, while the node that a failed dispatch left
behind is still in the queue. That cannot happen because a connection registers
once, and a connection that has not registered has no entry yet. `FreshIsUnused`
says so. The steps that edit the queue are all `DropNode` or an `Append`, so the
step lemmas about them are stated once and cited by each action.

`FlightInv` adds `InFlightExact` and `PoolExact` (while nothing has failed, the
pool is the set of registered connections). `InFlightExact` says that the two
maps and the judges' own work coincide until a dispatch fails or a problem
update overtakes one; the step that frees a judge gives it the next submission
at the same time, so the proof follows the intermediate values that
`HandleFreeJudge` takes as parameters.

`FreeJudgesHaveNoWork` uses `FlightInv` twice: a judge that becomes free or learns of a
problem takes what it may from the queue, and a submission is queued only if no judge
of the pool can take it at that priority. The delicate case is the queue itself: the
priority sections before the one where a node is dropped or appended must read the
same as before. `RejudgesLeaveAFreeJudge` is about single steps of `Judge` and `HandleFreeJudge`.

`BridgeProofs` extends both modules and proves, for any numbers of judges, web processes,
submissions, test cases, failures, crashes and lost replies, from `SetsAssumption`,
`NonesAssumption` and `BridgeAssumption` (there is at least one test case, and what can
be aborted is a submission):

| Theorem | Property |
|---|---|
| `BridgeTypeHolds` | `BridgeTypeOK` |
| `GradedWithEveryCase` | `ScoreIsComplete` |
| `NobodyIsEverForgotten` | `NobodyIsForgotten` |
| `BridgeImplementsLife` | `SubmissionLifecycle`, while `Undisturbed` |

`SchedulerSteps` carries the results about `JudgeList` over: a step of the bridge is one
of the scheduler, a crash, the end of a socket, or nothing to it.

`GradedWithEveryCase` rests on `GradingInv`. A submission that nobody disputes is in at
most one place (`OneGrading`: asked for by one web process, or queued, or with one judge, or
owed by one task), although dispatches fail and judges leave; so the test cases
in the table are those that its own judge has reported, up to where that judge is
(`CasesAreTold`), and a final packet, which comes after the last case, finds them all.
Nothing is assumed of failures: a submission that was judged twice at a time is
`disputed`, and the theorem says that nothing else loses cases.

`NobodyIsEverForgotten` follows a submission through the hands it is in: it leaves the
queue or a judge only for the next who owes something (`CarriedUntil`, `OwedUntil`),
and a web process goes on until it has handed over or recorded the failure
(`ProcessesGoOn`). Its invariant `FiledInv` says that a submission that never went
astray is in one place of the scheduler only (`Filed`: its entry, its judge and `_working`
agree), which no failed dispatch and no second submission of its judge disturbs
(`FiledInvStep`); `WalkKeepsFiled` is the lemma about the walk over the queue.
`Started` says that nothing waits for a daemon that has just marked the leftovers.

`BridgeImplementsLife` maps every step to a step of `SubmissionLife` or to a stutter. What a
submission shows must tell how far its judging has come: `OneHolder` says
that one holder has it, `Phases` that the status is one that this holder may have written,
and `StatusComesFrom` lists who writes which status. It is stated for behaviours in
which no dispatch fails and no judge is given two (`[]Undisturbed`), as TLC checks it on an instance without failures: after
a failed dispatch a submission may be both queued and judged. Restarts of
the daemon, judges that leave, lost replies to requests and aborts and crossing requests are not excluded.

`ParticipationProofs` proves for any sets of users, workers and submissions and
any number of virtual participations, from `ParticipationAssumption` (users and
workers are finitely many), `NonesAssumption` (the two "none" values are values
of their own) and `BoundsAssumption`:

| Theorem | Property |
|---|---|
| `TypeCorrect` | `TypeOK` |
| `NumbersAreContiguous` | `VirtualIdsAreContiguous` |
| `FlagAndScoreAreSaved` | `FlagAndScoreAgree` |
| `ScoresAreExact` | `ScoreCountsSubmissions` |
| `DecisionsStand` | `StaffDecisionStands` |
| `NobodyStaysInside` | `DisqualifiedIsOut` |
| `UserCountIsBounded` | `UserCountIsNotTooHigh` |

The argument has three layers, each an inductive invariant that uses the one
before.

`RowsInv` is about what a request has loaded: the participation it works on is a
row, and a number it read for a new virtual participation is 1 or follows a
number in use (`Fits`). Rows are never deleted, so this stays true however long
the request waits, and when the insertion succeeds the number was still free:
it is then the next one, and the numbers of a user remain 1 to n (`Numbered`).
`Room` says that the joins under way cannot run past `MaxVirtual`; it is a
counting argument about the bound of the model and says nothing of the code.

`ScoreInv` follows the worker that is recomputing a participation. As long as
there was only one at a time (`OneWorker`, outside `overlapped`), the flag it
loaded is the stored one unless it came from the staff, and the sum it added up
is what a new sum would be (`LoadedIsTrue`); so what it saves is true, although
it saves every column. `ScoreMatchesFlag` needs neither: the flag and the score
that depends on it are written by one transaction from one object. `Out`
strengthens `DisqualifiedIsOut` by the worker that has stored the
disqualification and has yet to remove the user; a removal also ends what `slipped`
notes of this participation.

`CountInv` bounds the stored user count, and the count a request still has to
save, by the live participations there are: these only grow, so a late save can
make the number too low and never too high.

`BridgeProofs` also proves `LifeAlwaysHolds` of `SubmissionLife`, from no assumption: in every behaviour of the
abstract specification what shows as in progress is under way, and what is
graded is whole. By `BridgeImplementsLife` the same
holds of `Bridge` for submissions outside `disputed`, while nothing fails. `StepKeeps` is its lemma about
one submission; the theorem lifts it to all of them.

`AccessProofs` proves for any topics, any bound on grants and any sets of permissions,
roles and marks (`ProblemRolesAssumption` only says that the roles in a problem are those
of the code):

| Theorem | Property |
|---|---|
| `AlwaysTyped` | `Typed`, the typing part of `AccessTypeOK` |
| `AlwaysPlaced` | `AccessTypeOK` |
| `ProblemListsAgree` | `ProblemListAgrees` |
| `EditListsAgree` | `EditListAgrees` |
| `ListedProblemsOpen` | `ListedIsAccessible` |
| `RejudgedAreManageable` | `RejudgedIsManageable` |
| `ContestListsAgree` | `ContestListAgrees` |
| `JoinLinksAgree` | `JoinLinkAgrees` |
| `OthersSeenOnScoreboard` | `OthersNeedScoreboard` |
| `PublishedIsOpen` | `PublishedIsShown` |
| `CommentsFollow` | `CommentsFollowPages` |
| `LinksAlwaysLead` | `LinksLead` |
| `ScoreboardStays` | `FullScoreboardStays` |
| `GrantsOnlyAdd` | `Gains` |

`AccessTypeOK` says where a participant may be at a given time, and is not
inductive: that someone inside a virtual participation is there after the end of the
contest follows from how they entered, which `Came` remembers as a relation between
time and participation, kept by joins, leaves and ticks. `Placed` is what the
middleware then ensures at each request. The statements about rules are
consequences of the typing: whatever state an administrator brings about, the two versions of a rule
agree on it. `CommentsFollow` is the exception: the comments on a contest are open to those
who are inside it, so it takes `Placed`, and `Outside`, that nobody is inside an object which is
no contest. `LinksAlwaysLead` takes both for the same reason, and has one lemma for each kind of page;
`EntryOffered`, that who is offered a contest is let in and stays, is the one that needs the
participation. `Monotone` compares the rules for two viewers of whom one may do more, and
`GrantsOnlyAdd` and `ScoreboardStays` follow with one step.

`JudgingProofs` proves what `Site` says around the judges. `PacketEnds`, the places where the packets
of a stream end, is any sequence that leaves each packet a byte, and the size limit any natural number (`FramingAssumption`);
limits and times
are natural numbers, the announcement limit at least 1 (`ProgressAssumption`, `LocksAssumption`,
`LimitsAssumption`); submissions, problems and languages are finitely many where they are counted
(`LimitsAssumption`, `MossAssumption`). There may be any numbers of connections, judges, requests and tasks:

| Theorem | Shows |
|---|---|
| `PacketsArriveWhole` | `FramingHolds` of `Framing` |
| `RowsFollowConnections` | `MachinesHold` of `Machines` |
| `ProgressIsKept` | `ProgressHolds` of `Progress` |
| `LocksAreKept`, `LimitsAreKept`, `ReportsAreOfOneRun` | `LocksHold`, `LimitsHold`, `MossHolds` of `Locks` |
| `JudgingIsRight` | `JudgingHolds`, the six together |

- Framing: `ReadSoFar` places the reader in the stream. Between packets it has read up to the start of the next
  one; inside one it knows the size of that one; it never holds more than it asked for. So whatever `recv`
  returns completes that packet or a part of it, and `FirstOnes` (those handed on are the first that were
  sent) goes on; the packet whose size was too large is then the next one.
- Machines: nothing closes an older connection of a judge that comes again. `ListIsOfConns` says that only connections
  that registered are listed (a failed dispatch takes one off the list that stands), `ShakesAlone` that nobody else
  is in a handshake beside a connection that none overlapped; with these `VersionsFollow`, `OnlineIsTrue` and
  `DisabledFollows` say which connection wrote each column last. The step to look at is the late end of an old
  connection, which puts the newer ones into `jm_outlived`.
- Progress: `BatchKept` relates the handler's batch fields to the judge's, also after a grading that was cut
  short. `Posted` is the argument on rates: the counter's window begins `count` announcements before the last
  one, and those no further from the beginning of it are fewer than the limit; so any two windows that meet hold
  fewer than twice the limit. It takes arithmetic over positions of a sequence, which TLC sees for a limit of 2 only.
- Locks, limits, plagiarism: a row that was locked when a batch read it stays locked, for locks only move when
  the staff moves them and a batch keeps the row that it read (`RowsStayLocked`); a submission whose lock a grading wrote
  back from the row it had loaded is in `lk_late`; a request that counted found room, and nobody has stored since unless the model says so, nor has a submission gone on that was marked as an
  internal error (`RoomFound`, `li_revived`); results are those of tasks that ended well, one of each pair
  (`RowsOfRuns`, `LengthIsRight`, `CrossedAreKnown`, `LedRight`).

`PeopleProofs` does the same for the components around the users. Assumed is that limits, times and slots are
natural numbers, that the empty text is no address (`SignUpAssumption`), that open organizations are not closed
(`TokensAssumption`), that "no task" is no task (`DownloadsAssumption`) and that there is a first problem
(`ClonesAssumption`):

| Theorem | Shows |
|---|---|
| `SlotsAreKept`, `DecidedForGood` | `SlotsHold`, `DecisionsAreFinal` of `Organizations` |
| `ParticipationsAreNumbered` | `CoursesHold` of `Courses` |
| `SecondFactorsAreKept`, `StaffStayProtected` | `AccountsHold`, `StaffKeepFactor` of `Accounts` |
| `OneAccountEach` | `SignUpHolds` of `SignUp` |
| `TokensAreKept` | `TokensHold` of `Tokens` |
| `ArchivesAreWhole` | `DownloadsHold` of `Downloads` |
| `OnlyEditorsShow` | `ShownByEditors` of `Clones` |
| `PeopleIsRight` | `PeopleHold`, the six invariants together |
| `DecisionsAreKept` | `DecisionsStay`, the three action properties together |

- Organizations: while nothing overlapped, at most one review is at work on an organization, what it decides is
  undecided, and there is room for all it approved and has not yet admitted (`OneReview`). The proof counts: who is
  admitted takes one place and leaves one less to admit.
- Courses: three layers. `CoursesInv` is what each request knows of the participations, which are never deleted and so
  stay known (`CoursesKnown`); numbers stay without a gap as in `Participation`. `OutInv` follows a
  disqualification from the flag to the removal and the ban. `CountInv` says that the count is right or somebody
  is about to count.
- Accounts: `RowsAreKeyed` holds whatever overlaps, for key and flag are always saved together; `NothingIsStale`, while
  nothing overlaps, is that a request works on the row as it is and that between the two halves of a change of devices
  the flag will follow.
- SignUp: what a form, a login or a link knows is only about users that are there, and users stay with their addresses
  (`Stays`), so knowledge stays (`KnowledgeStays`). `seen`, the users that were there when an address was looked
  for, is what makes the exception exact.
- Tokens, Downloads, Clones: `FieldsFollow` and `FormsAreClean`; `OneAtATime` (a request or a task, never two) and
  `FileFollows` (a file is whole when the task that opened it last succeeded); `ShownInv` is typing, since a clone is stored
  hidden in one step.

`ContentProofs` proves the rest of what `PeopleSpec` says, about what people write and upload. Assumed is, besides
`ClonesAssumption`, that "no archive", "no `init.yml`" and "keep" are no archives, that the first code is a code, and
that a form is a list of rows of the three types (`ProblemDataAssumption`); comments, votes and tickets need nothing:

| Theorem | Shows |
|---|---|
| `CommentsCorrect` | `ScoreIsTheVotes` and `NothingBelowHidden` of `Discussion` |
| `OneVoteCorrect` | `OneVoteEach` of `Discussion` |
| `TicketsCorrect` | `TicketsHold` of `Tickets` |
| `CompiledRight` | what `make_init` accepts and writes (`Compiled` of `ProblemData`), for a list of rows of any length |
| `ProblemDataCorrect` | `ProblemDataHolds` of `ProblemData` |
| `ClonesCorrect` | `ClonesHold` of `Clones` |
| `ContentIsRight` | `ContentHolds`, all of them together |

- Comments: the score of a comment and what requests are still adding to it are the votes on it. A step inserts or
  deletes one vote, so each set that is counted gains or loses one element (`CountChange`). `NothingBelowHidden` speaks
  of ancestors, a recursive function over the comments; that the function exists is proved by a least counterexample
  (`ClimbsExists`), and with it that a new comment changes the ancestors of no other.
- Votes: `OneAtATime` says of a voter whose posts never overlapped that at most one post is under way and that it deletes
  all the votes there are.
- Tickets: `TkInv` follows a change from the row to the event and to the page. `SavesRight`: the status saved last is
  the one that was announced, or will be. `EventsRight`: the last announcement tells the status that was announced last. `PageRight`:
  what an open page lacks is about to be announced to it (`ToCome`), or came before it listened.
- Test data: `CompiledRight` follows `make_init` row by row. After n rows the batches written hold the cases among them,
  each once, in order, and two that follow each other share a batch when the form says so (`Lists`); there is an error when one of the rows is
  wrong where it stands (`Fine`). `PassRight` is the two together; each kind of row keeps it. `PostTyped` is what a post carries, the upload that it
  has lost included. `PdInv` then says, while nobody dies and nobody saves what another has changed, which stages of which posts excuse the archive on disk (`ZipsRight`), `init.yml` (`InitRight`)
  and the error that is shown (`FeedbackRight`).
- Clones: `CodesRight` (a code is in use if one request made it, and only one did), and `PartsRight` (a part that was lost was a
  problem's, and is with a clone of it).

`ShownProofs` proves what `ShownSpec` says, about what is shown of rows that change. Assumed is that at least one
mail is allowed and that there is a number of periods (`MailAssumption`), that a problem has a worth to begin with
(`MarksAssumption`), that the daemon holds a message (`DeliveryAssumption`), and that the list has a row and a page one
(`RecentAssumption`):

| Theorem | Shows |
|---|---|
| `MarksAreRight` | `MarksHold` of `Marks` |
| `SubmissionPagesCatchUp` | `DeliveryHolds` of `Delivery` |
| `ShownIsRight` | `ShownHolds`: these two, `CachesHold`, `FormulasHold` and `MailsHold` of `Caches`, `RecentHolds` of `Delivery` |

- Caches: `KeptIsFresh` and `EmptyIsRendering` are inductive together with types: no request knows a version that is not
  yet stored.
- Formulas: a writer comes to the n-th file only past those before it (`FoInv`), so the file that is looked for, which is
  the last, has the others beside it. Which files are empty is known of the writers and of those that died.
- Mails: the counter is the number of errors counted in its life, and the mails of a life are counted: one more error
  adds one to the set that `Cardinality` measures, or is dropped.
- Marks: `Covered` says of every wrong mark that it is excused or that a judge is going to delete its key (`Covers`), which is
  narrower than what `MarksAreCurrent` allows, and `Attempted` that neither a kept set nor one about to be kept has a
  problem that was not attempted.
- Delivery: the numbers the daemon holds are in order and after all it dropped (`DvHeld`); what a page has in its inbox is after
  what it saw and in order (`ToReceive`); and a page that listens shows the rows, or is about to be told (`PageRight`).
  `AfterIs` says what the recursive `After` returns, by a least counterexample.
- Recent: behind an event of a submission that is done by now comes one that says so, if it does not itself (`EventsTell`);
  so a row that is done is shown so, or an event or a forced answer that says so is on its way (`Shows`).

Three theorems needed more of the model than TLC had asked for. A post of problem data may find that the archive it had deleted
was put back by another post in between, and one may compile cases that a third has just replaced: both leave
the data torn, and it takes three posts to come to it, while the run has two. `SaveRow` and `Compile` now say so (`pd_torn`).
`TicketPagesFollow` let a page wait for a message about to be announced on another ticket; it now names the ticket. And a
submission may be deleted while a judge finishes it: `update_contest` and `finished_submission` then find no row of the contest
and leave the keys of the contest as they are. Usually the deletion has changed what they stand for, which is excused; but when
another submission has come to the same mark meanwhile, by a rescoring, it has not. `EndDelete` now names these keys
(`LeftBy`). Such a behaviour has two submissions and four changes (a rejudge, an edit, a rescoring, a deletion), where the
run has one submission, two judges and two changes.

Induction. No prover here takes an operator as a parameter, so the library's induction rules cannot be used as
such. What is proved about data goes by a least counterexample instead (`SmallestNat`, from the library's theorem that
the natural numbers are well-founded): the set of lengths for which a statement fails is a set, and its least element
is not 0 and has a predecessor for which the statement holds.

Each theorem has the same shape: the initial states satisfy the invariant, each
action of `Next` preserves it (one step per action, one below per conjunct it
disturbs), the invariant implies the property, and a temporal step combines them.

## 7 Where code and comments disagree

| Run | Said | Done |
|---|---|---|
| `JudgeList_again` | "Already judging, don't queue again" (`judge_list.py:130`) | a dispatch from the queue that raises keeps the node and the map entry; another judge takes the node later, so one submission can be queued while it is judged |
| `JudgeList_names` | "Disconnect all judges with the same name" (`judge_list.py:60`) | `register` passes the handler, `disconnect` compares it with a name: nobody is disconnected |
| `Bridge_corrupt` | a rejudge while queued "does not lead to data corruption" (`judgeapi.py:74`) | its deletion of test cases can come after the judge has reported some: the score misses them |
| `Bridge_aborted` | the status test keeps graded submissions from being "marked as aborted" (`judgeapi.py:113`) | the test reads an old row; the grading may end before the packet, and the graded submission is marked aborted |

Other behaviour met while modelling. The models contain it, as a step or as the
exception of a property, unless the list says otherwise; it contradicts no
sentence of the repository, so no run is about it.

Judging
- the timer of `judge_handler.py:228` is never started (not modelled);
- the end of an old connection of a judge is recorded after the new one
  connected: the row says offline and the new runtime versions are deleted
  (`judge_handler.py:137`); `toggle_disabled` during a handshake is lost;
- a PROXY line that arrives together with one to three bytes of the first size raises
  `struct.error` (`base_handler.py:156`); at the end of a stream
  inside a packet, `read_sized_packet` loops (`base_handler.py:85`);
- `on_test_case` announces a case before it is stored; the counters of `update_counter` are never cleared;
- a submission stored by a request that loaded the contest before it was locked stays unlocked, and
  `update_user_count` or a form saved then writes the lock's old value back; a batch rejudge goes by
  the locks it read at its start;
- a grading saves the whole row that it loaded, and so the lock of before over one that was set meanwhile
  (`judge_handler.py:396`);
- limits of submissions are exceeded by requests that overlap, by internal errors judged again, and by a submission that
  a lost reply marked as an internal error and that a judge goes on with (`judgeapi.py:93`);
- an older connection of a judge that comes again stays open, and when it ends the row says offline and the versions of
  the newer one are gone (`jm_outlived`);
- a packet that arrives whole together with a PROXY line, and more behind it, is not held against the size limit
  (`base_handler.py:167`);
- an abort whose reply is lost leaves a submission queued that the bridge has dropped (`judgeapi.py:117`);

Results
- the API's list of submissions and the row of a single one show the work of others during a
  contest (`api_v2.py:581`, `views/submission.py:522`);
- a submission whose rejudge ended in IE, CE or AB keeps the contest points of before without a
  result: ICPC and AtCoder then count `prev = -1` tries (`contest_format/icpc.py:79`); points and
  caches of the user are not refreshed either;
- rescoring rounds to one digit and grading to three (`tasks/submission.py:50`), so a full solution of a problem whose
  worth has a finer digit than a tenth may count as unsolved afterwards, or get no points if the problem is not partial;
  `update_stats` saves a whole
  problem row read before (`models/problem.py:396`);
- gradings and disqualifications overwrite each other's participation row;
- `rate_all_view` of the administration of courses sets every `Profile.rating` to nothing and then fails, as
  `rate_course` always does (`ratings.py`, `admin/course.py:304`); `rate_all` truncates a table, which
  commits, before it rates;
- the leaderboard's ranks restart on each page; ties come in any order;
- the best list of a contest takes the maximum of `submission.points` but groups by the contest points.

People
- members beyond the slots make even a page of rejections be refused (`organization.py:321`); a crash
  between the decision and the membership leaves an approved request without one; leaving an organization keeps
  membership of its classes;
- disqualifying or reinstating one participation bans or lifts the ban for all of the user's; nothing takes a user out of
  a course that ended; `update_course` calls `remove_contest` (`models/profile.py:308`);
- a page for enabling an app that was made before another session disabled it yields an app without spare codes;
- an address is unique only in forms; a crash between user and profile leaves a user whose pages fail;
- a profile form that was under way puts back a removed token; crossing requests run two tasks on one archive, and a
  failed one leaves part of it;
- a request that saves the whole profile it loaded puts a disqualified user back into the contest.

Links that are shown in vain
- inside a contest without the problem, the lists of submissions of a problem's page, one's own
  among them, answer 404 (`views/submission.py:429`);
- rows of submissions and edit links to those who have `edit_all_problem` and not `edit_own_problem`; links to
  the administration to those who edit a problem through an organization or through `edit_public_problem`;
- a contest or course links its problems for everybody who sees it, also problems closed to the reader; its
  ranking does the same with submissions;
- "Admin organization" goes by `change_organization` alone;
- the tab "Clone" of a course goes by `clone_contest`, its page by `clone_course`; the tab "MOSS" reverses
  `course_moss`, which is no URL, so the page of an editor with the permission and a MOSS key fails;
  the routes `course_*_user_submissions` do not pass the argument `contest` that their view requires.

Content and pages
- edits of comments save the score they read; a reply may be stored below a thread hidden meanwhile;
- closing a ticket and saving its notes overwrite one another; events come in another order than the commits; list
  filters of the session are lost on page 2;
- a post of problem data that replaces an archive deletes the old one and loses the upload, for deleting the old file clears
  the field of the same instance (`models/problem_data.py:58`): `init.yml` names no archive, with cases compiled against the
  upload (`pd_gone`); posting it again works; a change of code moves the directory
  inside a database transaction;
- cloning a problem moves its language limits to the clone; a course with theory or tests cannot be cloned;
- two votes of one user on a problem may be stored, and `MultipleObjectsReturned` follows;
- in the administration caches are dropped before the transaction ends; `post_update` is defined twice in `signals.py`
  (110 and 121), and Django's weak reference drops the first; a PDF is created empty before it is rendered;
- a contest that began before the grid of a calendar and ends at the midnight after its last day is not on
  that day; the calendar bounds months in UTC and cells in local time;
- nothing deletes the cached marks of a contest when it is edited or rescored, or when a submission
  to it is deleted (`submission_delete` finds no row of the contest any more), nor those of a user when
  a submission fails to compile; the marks stay wrong for up to a day (`mk_excused` of `Marks`);
- a limit of N mails lets N - 1 through (`Drops` of `Caches`);
- `APIContestList` is ordered by an end that is not unique, `APIUserList` is not distinct;
- `make_hidden` sets `is_visible=True` (`admin/contest.py:237`, `admin/course.py:258`); `MakeVisible` of
  `Access` stands for both actions.

## 8 What is only checked, what is not modelled

Only model-checked, on the instances of section 4: `ComputedHolds` and
`ResultsStay` of `MCSite`, and all liveness (`SubmissionsSettle`, `ContestSubmissionIsServed`), which is out of
TLAPS's reach, as ENABLED is. Every invariant and action property of `JudgeList`, `Bridge`, `Participation` and
`Access` is also proved, all those of `Site` are (`JudgingHolds`, `PeopleHold`, `ContentHolds`, `ShownHolds`, `DecisionsStay`),
and so is the refinement of `SubmissionLife` while nothing fails.
`ComputedHolds` is about what is computed of rows: sums, sorted lists, ranks, bars of page links and months, by folds with
operator parameters, which the provers do not expand.

Abstracted or left out inside the modelled parts:

- a (problem, language) pair is one kind; load is any choice; in `Bridge` and
  `Participation` points are sets of test cases or of submissions, so rounding is not
  seen there (`Standing` has it);
- compile messages, pings, and the timers of the bridge;
- the death of a web process in the middle of a request of `judgeapi.py`: the code has
  nothing that repairs it (listed as a hazard); crashes are modelled where something is
  left half-done on disk or in rows (`ProblemData`, `SignUp`, `Ratings`, the daemons);
- `is_disabled` between the packet and the saved row is in `Machines`, apart from
  the scheduler;
- in `Participation` who may see or edit a contest is reduced to the groups
  `Editors`, `Outsiders` and `Superusers` (`Access` has the rules); access codes are right
  or wrong by choice; the rating that `set_disqualified` runs is in `Ratings`;
- `Recalculate`, the numerical method of ratings, is a parameter;
- floating point, texts, HTML, translations and the wording of messages.

`failed`, `raced`, `reenabled`, `disputed`, `overlapped`, `slipped` and the like in the
modules of the site are history variables that delimit what is promised. They
never enable or disable a step (except `failed`, against `MaxFailures`), so they hide
no behaviour; the violation runs show what happens outside the promise.

Not modelled: migrations, settings, locale and static resources (declarations and data), the AMQP
variant of the event poster, Markdown, statistics charts, translations of
problems, deletion of objects other than submissions, scores of courses and tests of lessons, the editing of
organizations, passwords and e-mail changes, announcements and tags of contests.
`PROJECT.json` ("components") says of each component whether it is modelled, and if
not, why.

## 9 Plan

What is left is proof, by the scheme of section 6: a component moves into `Site` with variables of its own, its
inductive invariant is checked, then proved. In this order:

1. `ComputedHolds` and `ResultsStay` where the argument is about any number of actors: `Standing`, `Ratings`.
2. What is about sums and ranks over data (`Formats`, `Scoreboards`, `Performance`, `Pages`) has to be written with
   recursive functions first, as `Compiled`, `Ancestors` and `After` are, and then goes by a least counterexample.
3. Of what is not modelled, scores of courses are the part most worth a module.
