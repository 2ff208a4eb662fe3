------------------------------ MODULE Scoreboards ------------------------------
(***************************************************************************)
(* The rankings of a contest or of a course (judge/views/contests.py,      *)
(* judge/views/courses.py, judge/utils/ranker.py) over rows that workers   *)
(* and judges of the contest rewrite, and the leaderboard of all users     *)
(* with the pages that point into it (judge/views/user.py).                *)
(***************************************************************************)
EXTENDS Integers, FiniteSetsExt, SequencesExt

CONSTANTS
    SbUsers, SbWorkers, \* Users; requests and workers that save participations.
    SbScores, SbTimes,  \* Scores and cumulative times a format can give.
    SbPoints,           \* Performance points.
    PerBoard,           \* paginate_by of the leaderboard.
    MaxMoves            \* Bound: saves of participations and changes to what the lists are made of.

\* What the constants are.
ScoreboardsAssumption == SbScores \subseteq Nat /\ PerBoard \in Nat \ {0}

VARIABLES
    sb_rows,    \* Live participations: is_disqualified, score, cumtime.
    sb_loaded,  \* Per worker: the participation it loaded and is_disqualified of it, or NoLoad.
    sb_people,  \* Profiles: performance_points, problem_count, is_unlisted.
    sb_virtual, \* Users who are in a virtual participation.
    sb_moves

sbvars == <<sb_rows, sb_loaded, sb_people, sb_virtual, sb_moves>>

NoLoad == [user |-> "nobody"]

OutScore == -9999

SbInit ==
    /\ sb_rows = [u \in SbUsers |-> [out |-> FALSE, score |-> 0, cumtime |-> 0]]
    /\ sb_loaded = [w \in SbWorkers |-> NoLoad]
    /\ sb_people = [u \in SbUsers |-> [points |-> 0, solved |-> 0, unlisted |-> FALSE]]
    /\ sb_virtual = {}
    /\ sb_moves = 0

-----------------------------------------------------------------------------
(* Rows.                                                                   *)

\* A grading loads the participation to recompute it.
LoadRow(w, u) ==
    /\ sb_loaded[w] = NoLoad
    /\ sb_moves < MaxMoves /\ sb_moves' = sb_moves + 1
    /\ sb_loaded' = [sb_loaded EXCEPT ![w] = [user |-> u, out |-> sb_rows[u].out]]
    /\ UNCHANGED <<sb_rows, sb_people, sb_virtual>>

\* Mutant: the format has the last word.
FormatSaved(out, score, cumtime) == [out |-> out, score |-> score, cumtime |-> cumtime]

\* recompute_results, a transaction: the format saves the whole row, a disqualified one is
\* then given its score.
Recomputed(out, score, cumtime) ==
    IF out THEN [out |-> TRUE, score |-> OutScore, cumtime |-> 0]
    ELSE [out |-> FALSE, score |-> score, cumtime |-> cumtime]

\* The row is saved whole, as it was loaded but for its results.
SaveBoardRow(w, score, cumtime) ==
    LET row == sb_loaded[w] IN
    /\ row # NoLoad
    /\ sb_rows' = [sb_rows EXCEPT ![row.user] = Recomputed(row.out, score, cumtime)]
    /\ sb_loaded' = [sb_loaded EXCEPT ![w] = NoLoad]
    /\ UNCHANGED <<sb_people, sb_virtual, sb_moves>>

\* ContestParticipationDisqualify.post: the flag of the row it loads is turned round.
LoadTurned(w, u) ==
    /\ sb_loaded[w] = NoLoad
    /\ sb_moves < MaxMoves /\ sb_moves' = sb_moves + 1
    /\ sb_loaded' = [sb_loaded EXCEPT ![w] = [user |-> u, out |-> ~sb_rows[u].out]]
    /\ UNCHANGED <<sb_rows, sb_people, sb_virtual>>

\* A user starts or leaves a virtual participation.
TurnVirtual(u) ==
    /\ sb_moves < MaxMoves /\ sb_moves' = sb_moves + 1
    /\ sb_virtual' = SymDiff(sb_virtual, {u})
    /\ UNCHANGED <<sb_rows, sb_loaded, sb_people>>

-----------------------------------------------------------------------------
(* Lists.                                                                  *)

\* What a query may return: the rows in an order that respects order_by, ties anyhow.
Ordered(users, before) ==
    {list \in SetToSeqs(users) : \A i, j \in DOMAIN list : <<list[i], list[j]>> \in before => i < j}

\* order_by('is_disqualified', '-score', 'cumtime').
AboveOnBoard(u, v) ==
    LET a == sb_rows[u] b == sb_rows[v] IN
    IF a.out # b.out THEN b.out
    ELSE IF a.score # b.score THEN a.score > b.score ELSE a.cumtime < b.cumtime

BoardOrder == {pair \in SbUsers \X SbUsers : AboveOnBoard(pair[1], pair[2])}

\* ranker: rank, delta and last of its loop.
Ranker(list, keys, rank) ==
    LET Step(acc, u) ==
            LET new == keys[u] # acc.last
                at == IF new THEN acc.rank + acc.delta ELSE acc.rank
            IN [rank |-> at, delta |-> IF new THEN 1 ELSE acc.delta + 1, last |-> keys[u],
                out |-> Append(acc.out, at)]
    IN FoldLeft(Step, [rank |-> rank, delta |-> 1, last |-> <<>>, out |-> <<>>], list).out

BoardKeys == [u \in SbUsers |-> <<sb_rows[u].score, sb_rows[u].cumtime>>]

Unranked == 0    \* '-' and '???'.

Lines(list, ranks) == [i \in DOMAIN list |-> [user |-> list[i], rank |-> ranks[i]]]

\* get_contest_ranking_list: above the ranking, the virtual participation of the viewer.
Board(viewer, list) ==
    (IF viewer \in sb_virtual THEN <<[user |-> viewer, rank |-> Unranked]>> ELSE <<>>)
    \o Lines(list, Ranker(list, BoardKeys, 0))

-----------------------------------------------------------------------------
(* The leaderboard.                                                        *)

\* calculate_points, and an administrator who lists or unlists a user.
ChangePerson(u, points, solved, unlisted) ==
    /\ sb_moves < MaxMoves /\ sb_moves' = sb_moves + 1
    /\ sb_people' = [sb_people EXCEPT ![u] = [points |-> points, solved |-> solved, unlisted |-> unlisted]]
    /\ UNCHANGED <<sb_rows, sb_loaded, sb_virtual>>

Listed == {u \in SbUsers : ~sb_people[u].unlisted}

\* order_by('-performance_points') only.
AboveOnList(u, v) == sb_people[u].points > sb_people[v].points

ListKeys == [u \in SbUsers |-> <<sb_people[u].points, sb_people[u].solved>>]

ListOrder == {pair \in Listed \X Listed : AboveOnList(pair[1], pair[2])}

BoardPage(list, number) ==
    SubSeq(list, PerBoard * (number - 1) + 1, Min({PerBoard * number, Len(list)}))

\* UserList: every page is ranked on from its first place.
UserListPage(list, number) ==
    LET page == BoardPage(list, number) IN
    Lines(page, Ranker(page, ListKeys, PerBoard * (number - 1)))

Above(u) == {v \in Listed : AboveOnList(v, u)}

\* UserPage.
ProfileRank(u) == Cardinality(Above(u) \ {u}) + 1

\* Mutant: all who share the points are counted.
CountedWithTies(u) == Cardinality({v \in Listed : ~AboveOnList(u, v)})

\* user_ranking_redirect counts who is above; of those with the same points, the older users.
CountedBefore(u) ==
    LET places == SetToSeq(SbUsers)
        Older(v) == CHOOSE i \in DOMAIN places : places[i] = v
    IN Cardinality(Above(u))
       + Cardinality({v \in Listed : sb_people[v].points = sb_people[u].points /\ Older(v) < Older(u)})

RedirectPage(u) == (CountedBefore(u) \div PerBoard) + 1

SbNext ==
    \/ \E w \in SbWorkers : \/ \E u \in SbUsers : LoadRow(w, u) \/ LoadTurned(w, u)
                            \/ \E score \in SbScores, cumtime \in SbTimes : SaveBoardRow(w, score, cumtime)
    \/ \E u \in SbUsers : \/ TurnVirtual(u)
                          \/ \E points \in SbPoints, solved \in {0, 1}, unlisted \in BOOLEAN :
                                ChangePerson(u, points, solved, unlisted)

SbSpec == SbInit /\ [][SbNext]_sbvars

-----------------------------------------------------------------------------
(* Properties.                                                             *)

\* However gradings and disqualifications overwrite one another, in any order the database
\* gives to ties: the rank of one who is not disqualified is one more than the number of those, not
\* disqualified, who did better; and all who are disqualified share the last rank.
RanksAreFair ==
    \A viewer \in SbUsers, list \in Ordered(SbUsers, BoardOrder) :
      \A line \in Range(Board(viewer, list)) :
             LET in == {u \in SbUsers : ~sb_rows[u].out} u == line.user IN
             \/ line.rank = Unranked /\ u = viewer /\ viewer \in sb_virtual
             \/ line.rank = 1 + (IF u \in in THEN Cardinality({v \in in : AboveOnBoard(v, u)})
                                 ELSE Cardinality(in))

\* A user of the leaderboard is never ranked above one with more points; the rank on the
\* profile is never below that on the list; and the link to a listed user opens a page of the list, with
\* users who have as many points.
LeaderboardHolds ==
    \A list \in Ordered(Listed, ListOrder) :
      LET pages == ((Len(list) - 1) \div PerBoard) + 1 IN
      /\ \A number \in 1 .. pages : \A line \in Range(UserListPage(list, number)) :
           /\ Cardinality(Above(line.user)) < line.rank
           /\ ProfileRank(line.user) <= line.rank
      /\ \A u \in Listed :
           /\ RedirectPage(u) <= pages
           /\ \E v \in Range(BoardPage(list, RedirectPage(u))) : sb_people[v].points = sb_people[u].points

ScoreboardsHold == RanksAreFair /\ LeaderboardHolds
=============================================================================
