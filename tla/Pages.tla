--------------------------------- MODULE Pages ---------------------------------
(***************************************************************************)
(* The paginated lists (judge/utils/diggpaginator.py,                      *)
(* infinite_paginator.py, templates/list-pages.html).  A page of a list    *)
(* that changes all the time is built, with its bar of links to other      *)
(* pages, and a link is followed later.  The digg paginator counts the     *)
(* list; the infinite one only looks a few pages ahead.                    *)
(***************************************************************************)
EXTENDS Integers, FiniteSetsExt, SequencesExt

CONSTANTS
    PerPage,        \* paginate_by.
    PgBody, PgPadding, PgTail, PgMargin,  \* Of DiggPaginator.
    PadPages,       \* InfinitePaginationMixin.pad_pages.
    MaxTotal        \* Bound: of the length of a list.

\* What the constants are.
PagesAssumption == /\ {PerPage, PgBody, PgTail, PgMargin, PadPages} \subseteq Nat \ {0}
                   /\ PgPadding \in 0 .. ((PgBody + 1) \div 2) - 1

VARIABLES
    pg_total,   \* Length of the list.
    pg_page,    \* The page last built: infinite, number, total (of the list then), and its bar.
    pg_dead     \* History: a link led nowhere though the list had not become shorter.

pgvars == <<pg_total, pg_page, pg_dead>>

CeilDiv(a, b) == (a + b - 1) \div b

Gap == 0    \* False in a page_range.

From(a, b) == [i \in 1 .. (b - a + 1) |-> a + i - 1]

\* Paginator.num_pages; an empty first page is allowed.
PagesOf(total) == Max({1, CeilDiv(total, PerPage)})

-----------------------------------------------------------------------------
(* DiggPaginator.page.                                                     *)

\* The active page in the middle, moved inside the list.
Middle(number, pages) ==
    LET first == number - (PgBody + 1) \div 2 + 1
        last == number + PgBody \div 2
        up == IF first < 1 THEN 1 - first ELSE 0
        down == IF last + up > pages THEN last + up - pages ELSE 0 IN
    <<first + up - down, last + up - down>>

\* Mutant: the end of the body is not lengthened when the leading pages are joined to it.
UnpaddedStart(number, middle) ==
    IF middle[1] <= PgTail + PgMargin THEN <<1, PgBody>> ELSE middle

\* The leading pages are joined to the body when it starts near them.
JoinedStart(number, middle) ==
    IF middle[1] <= PgTail + PgMargin
    THEN <<1, Max({PgBody, Min({number + PgPadding, middle[2]})})>>
    ELSE middle

NearEnd(range, pages) == range[2] >= pages - (PgTail + PgMargin) + 1

JoinedEnd(number, range, leading, pages) ==
    CASE ~NearEnd(range, pages) -> range
      [] NearEnd(range, pages) /\ leading = <<>> -> <<1, pages>>
      [] OTHER -> <<Min({pages - PgBody + 1, Max({number - PgPadding, range[1]})}), pages>>

\* page_range: the parts that are not empty, with a gap between them.
WithGaps(parts) ==
    FoldLeft(LAMBDA bar, part : bar \o (IF bar # <<>> /\ part # <<>> THEN <<Gap>> ELSE <<>>) \o part, <<>>, parts)

DiggBar(number, pages) ==
    LET middle == Middle(number, pages)
        leading == IF middle[1] <= PgTail + PgMargin THEN <<>> ELSE From(1, PgTail)
        start == JoinedStart(number, middle)
        trailing == IF NearEnd(start, pages) THEN <<>> ELSE From(pages - PgTail + 1, pages)
        body == JoinedEnd(number, start, leading, pages) IN
    WithGaps(<<leading, From(Max({body[1], 1}), Min({body[2], pages})), trailing>>)

-----------------------------------------------------------------------------
(* InfinitePage.                                                           *)

\* Items after the page, as far as the padding and one more.
AfterUpToPad(number, total) ==
    Max({0, Min({total - number * PerPage, PadPages * PerPage + 1})})

InfiniteBar(number, total) ==
    LET first == Max({1, number - PadPages})
        last == number + Min({CeilDiv(AfterUpToPad(number, total), PerPage), PadPages})
        leading == From(1, Min({3, first}) - 1) IN
    leading \o (IF leading # <<>> /\ Last(leading) + 1 < first THEN <<Gap>> ELSE <<>>)
            \o From(first, last)
            \o (IF AfterUpToPad(number, total) > PadPages * PerPage THEN <<Gap>> ELSE <<>>)

-----------------------------------------------------------------------------
\* Any page number below 1, and an empty page that is not the first, is a 404.
Opens(infinite, number, total) ==
    number >= 1 /\ (number > 1 => IF infinite THEN (number - 1) * PerPage < total ELSE number <= PagesOf(total))

HasNext(infinite, number, total) ==
    IF infinite THEN AfterUpToPad(number, total) > 0 ELSE number < PagesOf(total)

Built(infinite, number, total) ==
    [infinite |-> infinite, number |-> number, total |-> total,
     bar |-> IF infinite THEN InfiniteBar(number, total) ELSE DiggBar(number, PagesOf(total)),
     next |-> HasNext(infinite, number, total)]

PgInit ==
    /\ pg_total \in 0 .. MaxTotal
    /\ \E infinite \in BOOLEAN : pg_page = Built(infinite, 1, pg_total)
    /\ pg_dead = FALSE

\* Numbers of the links of list-pages.html: the bar, the previous page and the next one.
Links(page) == {n \in 1 .. MaxTotal + 1 :
                  \/ \E i \in DOMAIN page.bar : page.bar[i] = n /\ n # Gap
                  \/ n = page.number - 1
                  \/ page.next /\ n = page.number + 1}

Follow(n) ==
    /\ n \in Links(pg_page)
    /\ IF Opens(pg_page.infinite, n, pg_total)
       THEN pg_page' = Built(pg_page.infinite, n, pg_total) /\ UNCHANGED pg_dead
       ELSE pg_dead' = (pg_dead \/ pg_total >= pg_page.total) /\ UNCHANGED pg_page
    /\ UNCHANGED pg_total

ListChanges ==
    /\ pg_total' \in {pg_total - 1, pg_total + 1} \cap (0 .. MaxTotal)
    /\ UNCHANGED <<pg_page, pg_dead>>

PgNext == (\E n \in 1 .. MaxTotal + 1 : Follow(n)) \/ ListChanges

PgSpec == PgInit /\ [][PgNext]_pgvars

-----------------------------------------------------------------------------
(* Properties.                                                             *)

\* A bar names the page it is on, in increasing order, and a gap stands exactly where pages
\* are left out: before the first number none is missing, and after the last one none is
\* unless a gap says so.
BarIsSound(page) ==
    LET bar == page.bar
        last == PagesOf(page.total) IN
    /\ \E i \in DOMAIN bar : bar[i] = page.number
    /\ bar[1] = 1
    /\ \A i \in 1 .. Len(bar) - 1 :
         IF bar[i] = Gap
         THEN bar[i + 1] > bar[i - 1] + 1
         ELSE bar[i + 1] # Gap => bar[i + 1] = bar[i] + 1
    /\ bar[Len(bar)] # Gap => bar[Len(bar)] = last
    /\ bar[Len(bar)] = Gap => page.infinite /\ bar[Len(bar) - 1] < last

\* Every link of a page opens as long as the list does not become shorter.
LinksOpen == ~pg_dead

PagesHold == BarIsSound(pg_page) /\ LinksOpen

-----------------------------------------------------------------------------
(***************************************************************************)
(* The lists of problems and of tickets (judge/views/problem.py, judge/    *)
(* views/ticket.py): filters come from the address or, when nothing is     *)
(* asked for, from the session; links lead to other pages of the list; and *)
(* a random problem is drawn from the list after its length was read.      *)
(***************************************************************************)

CONSTANTS
    LsItems,        \* Problems.
    MaxLsChanges    \* Bound: problems that leave or join the list, or are solved.

VARIABLES
    ls_public,      \* Problems this user may have listed.
    ls_solved, ls_editorial,    \* Those solved, and those with an editorial.
    ls_session,     \* The filters kept in the session.
    ls_page,        \* The page that is open: its number, its filter and that of the first page, and
                    \* whether the first page was asked for without a query.
    ls_draw,        \* The draw: at, its filter, the length that was read, and what it gave.
    ls_changes,
    ls_shrunk       \* History: something left the list between the two steps of a draw.

lsvars == <<ls_public, ls_solved, ls_editorial, ls_session, ls_page, ls_draw, ls_changes, ls_shrunk>>

LsFilters == {"hide_solved", "has_public_editorial"}
NothingDrawn == "nothing"
DrawFailed == "failed"

LsInit ==
    /\ ls_public \in SUBSET LsItems /\ ls_solved = {} /\ ls_editorial \in SUBSET LsItems
    /\ ls_session = {}
    /\ ls_page = [number |-> 0, filter |-> {}, first |-> {}, plain |-> FALSE]
    /\ ls_draw = [at |-> "none", filter |-> {}, count |-> 0, gave |-> NothingDrawn]
    /\ ls_changes = 0 /\ ls_shrunk = FALSE

\* get_normal_queryset.
ListedItems(filter) ==
    {p \in ls_public : /\ "hide_solved" \in filter => p \notin ls_solved
                       /\ "has_public_editorial" \in filter => p \in ls_editorial}

\* A query of {} and a page is still a query.
FilterOf(query, plain) == IF plain THEN ls_session ELSE query

\* Mutant: links to other pages say nothing of what was asked for.
LinkForgets(query) == {}

\* paginate_query_context: links repeat what was asked for.
Link(query) == query

OpenList(query) ==
    LET filter == FilterOf(query, query = {}) IN
    /\ ls_page' = [number |-> 1, filter |-> filter, first |-> filter, plain |-> query = {}]
    /\ UNCHANGED <<ls_public, ls_solved, ls_editorial, ls_session, ls_draw, ls_changes, ls_shrunk>>

OtherPage ==
    /\ ls_page.number > 0
    /\ ls_page' = [ls_page EXCEPT !.number = 2,
                      !.filter = FilterOf(Link(IF ls_page.plain THEN {} ELSE ls_page.first), FALSE)]
    /\ UNCHANGED <<ls_public, ls_solved, ls_editorial, ls_session, ls_draw, ls_changes, ls_shrunk>>

\* post: filters that are not in the query leave the session; and the page is asked for again.
KeepFilter(query) ==
    /\ ls_session' = query
    /\ ls_page' = [number |-> 1, filter |-> query, first |-> query, plain |-> query = {}]
    /\ UNCHANGED <<ls_public, ls_solved, ls_editorial, ls_draw, ls_changes, ls_shrunk>>

-----------------------------------------------------------------------------
(* RandomProblem.                                                          *)

\* An empty list is shown instead.
CountItems(query) ==
    LET filter == FilterOf(query, query = {}) IN
    /\ ls_draw.at # "counted" /\ ListedItems(filter) # {}
    /\ ls_draw' = [at |-> "counted", filter |-> filter, count |-> Cardinality(ListedItems(filter)), gave |-> NothingDrawn]
    /\ ls_shrunk' = FALSE
    /\ UNCHANGED <<ls_public, ls_solved, ls_editorial, ls_session, ls_page, ls_changes>>

\* Mutant: randrange as if it took its bound.
PlacesClosed == 0 .. ls_draw.count

\* randrange(count).
Places == 0 .. ls_draw.count - 1

\* The list is read again, in no given order, for the problem at that place.
FetchItem ==
    LET listed == ListedItems(ls_draw.filter) IN
    /\ ls_draw.at = "counted"
    /\ \E i \in Places :
         \/ i < Cardinality(listed) /\ \E p \in listed : ls_draw' = [ls_draw EXCEPT !.at = "drawn", !.gave = p]
         \/ i >= Cardinality(listed) /\ ls_draw' = [ls_draw EXCEPT !.at = "drawn", !.gave = DrawFailed]
    /\ UNCHANGED <<ls_public, ls_solved, ls_editorial, ls_session, ls_page, ls_changes, ls_shrunk>>

\* Problems are published and hidden, and the user solves them.
ItemChanges(p) ==
    /\ ls_changes < MaxLsChanges /\ ls_changes' = ls_changes + 1
    /\ \/ p \in ls_public /\ ls_public' = ls_public \ {p} /\ UNCHANGED ls_solved
       \/ p \notin ls_public /\ ls_public' = ls_public \cup {p} /\ UNCHANGED ls_solved
       \/ p \notin ls_solved /\ ls_solved' = ls_solved \cup {p} /\ UNCHANGED ls_public
    /\ ls_shrunk' = (ls_shrunk \/ p \in ListedItems(ls_draw.filter))
    /\ UNCHANGED <<ls_editorial, ls_session, ls_page, ls_draw>>

LsNext ==
    \/ OtherPage \/ FetchItem
    \/ \E query \in SUBSET LsFilters : OpenList(query) \/ KeepFilter(query) \/ CountItems(query)
    \/ \E p \in LsItems : ItemChanges(p)

LsSpec == LsInit /\ [][LsNext]_lsvars

-----------------------------------------------------------------------------
(* Properties.                                                             *)

\* Another page of a list has the filter of the first, unless that came from the session.
PagesOfOneFilter == ls_page.number = 2 /\ ~ls_page.plain => ls_page.filter = ls_page.first

\* A draw fails only if a problem left the list after it was counted.
DrawsSucceed == ls_draw.gave = DrawFailed => ls_shrunk

ListingsHold == PagesOfOneFilter /\ DrawsSucceed

-----------------------------------------------------------------------------
(* The calendars of contests and of courses (ContestCalendar in            *)
(* judge/views/contests.py, CourseCalendar in judge/views/courses.py).  A  *)
(* month is shown as whole weeks; a contest appears on the local dates of  *)
(* its first and of its last second.  The months that can be opened are    *)
(* bounded by all contests, those the viewer cannot see included, and by   *)
(* their dates in UTC.                                                     *)

CONSTANTS
    ClContests,     \* Contests (or courses).
    ClTimes,        \* Instants, in seconds, at which one may start or end.
    DayLen,         \* Seconds in a day.
    WeekLen,        \* Days in a week; day 0 is the first of a week.
    MonthLens,      \* Sequence of the months' lengths in days; day 0 is the first of month 1.
    ClOffset        \* Local time minus UTC.

\* What the constants are.
CalendarAssumption == /\ {DayLen, WeekLen} \subseteq Nat \ {0} /\ ClOffset \in Int
                      /\ MonthLens \in Seq(Nat \ {0}) /\ ClTimes \subseteq Int

VARIABLES
    cl_rows,    \* Per contest: start, end, visible (to the viewer); the rows that exist.
    cl_today,   \* The date, in UTC.
    cl_page     \* The month last shown, until something changes: month, cells, prev, next.

clvars == <<cl_rows, cl_today, cl_page>>

Months == DOMAIN MonthLens
NoPage == [month |-> 0]

FirstOf(m) == FoldSet(LAMBDA k, acc : MonthLens[k] + acc, 0, 1 .. m - 1)
LastDay == FirstOf(Len(MonthLens)) + MonthLens[Len(MonthLens)] - 1
MonthOf(date) == CHOOSE m \in Months : FirstOf(m) <= date /\ date < FirstOf(m) + MonthLens[m]

LocalDate(t) == (t + ClOffset) \div DayLen
UTCDate(t) == t \div DayLen
Midnight(date) == date * DayLen - ClOffset

\* monthdatescalendar: the weeks that hold a day of the month.
FirstCell(m) == FirstOf(m) - (FirstOf(m) % WeekLen)
LastCell(m) == LET last == FirstOf(m) + MonthLens[m] - 1 IN last + (WeekLen - 1 - (last % WeekLen))

ClInit == /\ cl_rows = <<>>
          /\ cl_today = 0
          /\ cl_page = NoPage

-----------------------------------------------------------------------------
\* Mutant: the last day is left out.
ToLastCell(m) == Midnight(LastCell(m))

\* The end of the interval: the day after the last one shown.
PastLastCell(m) == Midnight(LastCell(m) + 1)

Within(t, m) == Midnight(FirstCell(m)) <= t /\ t < PastLastCell(m)

\* The rows get_contest_data asks for.
Fetched(m) == {c \in DOMAIN cl_rows : cl_rows[c].visible /\ (Within(cl_rows[c].start, m) \/ Within(cl_rows[c].end, m))}

StartDate(row) == LocalDate(row.start)
EndDate(row) == LocalDate(row.end - 1)

\* starts, ends and oneday, of the dates shown.
Cells(m) ==
    LET dates == FirstCell(m) .. LastCell(m)
        oneday == {c \in Fetched(m) : StartDate(cl_rows[c]) = EndDate(cl_rows[c])} IN
    {x \in {<<StartDate(cl_rows[c]), "oneday", c>> : c \in oneday}
           \cup {<<StartDate(cl_rows[c]), "starts", c>> : c \in Fetched(m) \ oneday}
           \cup {<<EndDate(cl_rows[c]), "ends", c>> : c \in Fetched(m) \ oneday} : x[1] \in dates}

\* min_month comes from the first contest alone, max_month from the last one and from today.
MinMonth == IF cl_rows = <<>> THEN MonthOf(cl_today)
            ELSE MonthOf(UTCDate(Min({cl_rows[c].start : c \in DOMAIN cl_rows})))
MaxMonth == IF cl_rows = <<>> THEN MonthOf(cl_today)
            ELSE Max({MonthOf(UTCDate(Max({cl_rows[c].end : c \in DOMAIN cl_rows}))), MonthOf(cl_today)})

\* A month is asked for by its address or by a link of the page before; others are a 404.
Show(m) ==
    /\ MinMonth <= m /\ m <= MaxMonth
    /\ cl_page' = [month |-> m, cells |-> Cells(m),
                   prev |-> IF m > MinMonth THEN m - 1 ELSE 0,
                   next |-> IF m < MaxMonth THEN m + 1 ELSE 0]
    /\ UNCHANGED <<cl_rows, cl_today>>

\* An editor saves a contest; its end comes after its start (Contest.clean).
SaveDates(c) ==
    /\ \E start \in ClTimes, end \in ClTimes, visible \in BOOLEAN :
         /\ start < end
         /\ cl_rows' = (c :> [start |-> start, end |-> end, visible |-> visible]) @@ cl_rows
    /\ cl_page' = NoPage
    /\ UNCHANGED cl_today

Midnights == /\ cl_today < LastDay
             /\ cl_today' = cl_today + 1
             /\ cl_page' = NoPage
             /\ UNCHANGED cl_rows

ClNext == \/ \E m \in Months : Show(m)
          \/ \E c \in ClContests : SaveDates(c)
          \/ Midnights

ClSpec == ClInit /\ [][ClNext]_clvars

-----------------------------------------------------------------------------
(* Properties.                                                             *)

Shown == cl_page # NoPage

\* A contest stands on the day it starts and on the day of its last second, once each, if
\* the page has that day; the one case in which the last day stays empty is that of a contest
\* that began before the page and ends at the very midnight that ends it.
EveryDayIsFilled ==
    Shown => LET m == cl_page.month
                 dates == FirstCell(m) .. LastCell(m) IN
    \A c \in DOMAIN cl_rows :
      LET row == cl_rows[c]
          where == {x \in cl_page.cells : x[3] = c}
          days == {StartDate(row), EndDate(row)} \cap dates
          missed == row.start < Midnight(FirstCell(m)) /\ row.end = Midnight(LastCell(m) + 1) IN
      IF row.visible /\ ~missed
      THEN {x[1] : x \in where} = days /\ Cardinality(where) = Cardinality(days)
      ELSE where = {}

\* The links to the months before and after lead to months that open, and by them every
\* contest is reached whose dates are in the same months in UTC and in local time.
LinksReachAll ==
    Shown => /\ cl_page.prev # 0 => MinMonth <= cl_page.prev /\ cl_page.prev < cl_page.month
             /\ cl_page.next # 0 => cl_page.next <= MaxMonth /\ cl_page.next > cl_page.month
             /\ \A c \in DOMAIN cl_rows :
                  LET row == cl_rows[c]
                      agree == /\ MonthOf(UTCDate(row.start)) = MonthOf(StartDate(row))
                               /\ MonthOf(UTCDate(row.end)) = MonthOf(EndDate(row)) IN
                  agree => /\ MonthOf(StartDate(row)) < cl_page.month => cl_page.prev # 0
                           /\ MonthOf(EndDate(row)) > cl_page.month => cl_page.next # 0

CalendarHolds == EveryDayIsFilled /\ LinksReachAll

-----------------------------------------------------------------------------
(***************************************************************************)
(* The lists of the API (judge/views/api/api_v2.py): filters taken from    *)
(* the request, one query per page, and a client that walks the pages      *)
(* while items come and go.  Problems are ordered by code and made         *)
(* distinct, contests by end and made distinct, users, submissions and     *)
(* participations by id; a filter on a list of values joins the table of   *)
(* the values.  Organizations, by id, are asked for by one value; judges,  *)
(* by name, while they are online, and languages, by key, by none here.    *)
(***************************************************************************)

CONSTANTS
    AlIds,          \* Ids, in order; also the codes, in the same order.
    AlTags,         \* Organizations, types, tags or languages.
    AlEnds,         \* Ends of contests.
    ApiPageSize,    \* DMOJ_API_PAGE_SIZE.
    MaxAlChanges    \* Bound: items added, hidden or shown.

VARIABLES
    al_kind,        \* "problem", "contest", "user", "submission", "organization" or "judge".
    al_items,       \* Per id: whether it is there and visible, its tags, its end.
    al_asked,       \* The values asked for; none: no filter.
    al_page,        \* Pages the client has.
    al_more,        \* has_more of the last.
    al_got,         \* How often it got each item.
    al_changes,
    al_first,       \* History: the items that matched when the walk began.
    al_lost         \* History: whether an item was hidden, or one added before others, since.

alvars == <<al_kind, al_items, al_asked, al_page, al_more, al_got, al_changes, al_first, al_lost>>

NoApiItem == [there |-> FALSE, tags |-> {}, end |-> CHOOSE e \in AlEnds : TRUE]
There == {i \in AlIds : al_items[i].there}

\* A submission has one language, an organization is open or not; the others may have many tags,
\* judges and languages none.
TagSets(kind) ==
    CASE kind \in {"submission", "organization"} -> {{t} : t \in AlTags}
      [] kind = "judge" -> {{}}
      [] OTHER -> SUBSET AlTags

\* The organizations are asked for by a basic filter, of one value.
Askable ==
    CASE al_kind = "organization" -> {asked \in SUBSET AlTags : Cardinality(asked) <= 1}
      [] al_kind = "judge" -> {{}}
      [] OTHER -> SUBSET AlTags

\* Problems have codes, contests ends, judges names: a new one may come anywhere in its list.
ComesAnywhere(kind) == kind \in {"problem", "contest", "judge"}

EndsOf(kind) == IF kind = "contest" THEN AlEnds ELSE {NoApiItem.end}

AlInit ==
    /\ al_kind \in {"problem", "contest", "user", "submission", "organization", "judge"}
    /\ al_items = [i \in AlIds |-> NoApiItem]
    /\ al_asked = {} /\ al_page = 0 /\ al_more = FALSE
    /\ al_got = [i \in AlIds |-> 0]
    /\ al_changes = 0 /\ al_first = {} /\ al_lost = FALSE

\* filter_queryset.
Matching(asked) == {i \in There : asked = {} \/ al_items[i].tags \cap asked # {}}

\* Mutant: nothing is made distinct.
CopiesJoined(i, asked) == IF asked = {} THEN 1 ELSE Cardinality(al_items[i].tags \cap asked)

\* How often an item is in the query: the join gives a row per value, unless it is made distinct.
Copies(i, asked) ==
    IF asked = {} \/ al_kind \in {"problem", "contest"} THEN 1 ELSE Cardinality(al_items[i].tags \cap asked)

\* Mutant: the newest first.
NewestBefore(i, j) == IF al_kind = "contest" THEN al_items[i].end <= al_items[j].end ELSE i >= j

\* order_by: contests by end, the rest by what is unique.
MayPrecede(i, j) == IF al_kind = "contest" THEN al_items[i].end <= al_items[j].end ELSE i <= j

\* The rows of the query, in any order the database may give.
Queries(asked) ==
    LET n == Cardinality(Matching(asked))
        orders == {s \in [1..n -> Matching(asked)] :
                     \A a, b \in 1..n : a < b => s[a] # s[b] /\ MayPrecede(s[a], s[b])}
    IN orders

\* Where the copies of the k-th item begin.
StartOf(order, k, asked) == FoldSet(LAMBDA j, before : before + Copies(order[j], asked), 1, 1..(k - 1))

RowCount(order, asked) == StartOf(order, Len(order) + 1, asked) - 1

\* How many copies of the k-th item are on a page.
OnPage(order, k, page, asked) ==
    LET begin == StartOf(order, k, asked)
        low == ((page - 1) * ApiPageSize) + 1
        high == page * ApiPageSize
    IN Cardinality({r \in begin..(begin + Copies(order[k], asked) - 1) : r >= low /\ r <= high})

GotOf(order, i, page, asked) ==
    IF \E k \in DOMAIN order : order[k] = i
    THEN OnPage(order, CHOOSE k \in DOMAIN order : order[k] = i, page, asked) ELSE 0

FirstPage(asked, order) ==
    /\ al_page = 0
    /\ al_asked' = asked /\ al_page' = 1
    /\ al_got' = [i \in AlIds |-> GotOf(order, i, 1, asked)]
    /\ al_more' = (RowCount(order, asked) > ApiPageSize)
    /\ al_first' = Matching(asked) /\ al_lost' = FALSE
    /\ UNCHANGED <<al_kind, al_items, al_changes>>

\* A page that is gone is answered with an error, which ends the walk.
NextPage(order) ==
    LET page == al_page + 1
        rows == RowCount(order, al_asked) IN
    /\ al_page > 0 /\ al_more
    /\ al_page' = page
    /\ al_got' = [i \in AlIds |-> al_got[i] + GotOf(order, i, page, al_asked)]
    /\ al_more' = (rows > page * ApiPageSize)
    /\ UNCHANGED <<al_kind, al_items, al_asked, al_changes, al_first, al_lost>>

\* An item is stored with the next id, but for those that may come anywhere; or a judge connects.
AddItem(i, tags, end) ==
    /\ al_changes < MaxAlChanges /\ al_changes' = al_changes + 1
    /\ ~al_items[i].there
    /\ ~ComesAnywhere(al_kind) => \A j \in There : j < i
    /\ al_items' = [al_items EXCEPT ![i] = [there |-> TRUE, tags |-> tags, end |-> end]]
    /\ al_lost' = (al_lost \/ ComesAnywhere(al_kind))
    /\ UNCHANGED <<al_kind, al_asked, al_page, al_more, al_got, al_first>>

\* An item is hidden, or a judge is no longer online.
HideItem(i) ==
    /\ al_changes < MaxAlChanges /\ al_changes' = al_changes + 1
    /\ al_items[i].there
    /\ al_items' = [al_items EXCEPT ![i].there = FALSE]
    /\ al_lost' = TRUE
    /\ UNCHANGED <<al_kind, al_asked, al_page, al_more, al_got, al_first>>

AlNext ==
    \/ \E asked \in Askable : \E order \in Queries(asked) : FirstPage(asked, order)
    \/ \E order \in Queries(al_asked) : NextPage(order)
    \/ \E i \in AlIds : HideItem(i) \/ \E tags \in TagSets(al_kind), end \in EndsOf(al_kind) : AddItem(i, tags, end)

AlSpec == AlInit /\ [][AlNext]_alvars

-----------------------------------------------------------------------------
(* Properties.                                                             *)

Walked == al_page > 0 /\ ~al_more /\ ~al_lost
EndsDiffer == \A i, j \in al_first : i # j => al_items[i].end # al_items[j].end

\* A client that has all pages has every item that matched when it began; items stored meanwhile
\* do not push one out, since they come last.  Contests that end together may be lost.
NothingMissed == Walked /\ (al_kind = "contest" => EndsDiffer) => \A i \in al_first : al_got[i] > 0

\* It has each once, but for users, whom a filter by several organizations gives once for each.
NothingTwice ==
    Walked /\ (al_kind = "contest" => EndsDiffer) =>
        \A i \in AlIds : al_got[i] > 1 => al_kind = "user" /\ al_got[i] = Cardinality(al_items[i].tags \cap al_asked)

\* However contests that end together are ordered, the pages hold as many as there are.
PagesFull ==
    Walked /\ al_kind = "contest" =>
        FoldSet(LAMBDA i, sum : sum + al_got[i], 0, AlIds) = Cardinality(al_first)

ApiListsHold == NothingMissed /\ NothingTwice /\ PagesFull
=============================================================================
