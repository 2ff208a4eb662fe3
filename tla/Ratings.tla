------------------------------- MODULE Ratings -------------------------------
(***************************************************************************)
(* Contest ratings (judge/ratings.py and its callers).  Rating a contest   *)
(* deletes the ratings of all contests that ended since, and rates these   *)
(* again in the order of their ends; Profile.rating is a copy of the last  *)
(* one.  Contests are numbered in the order of their ends.  What           *)
(* recalculate_ratings computes is a parameter: only what it depends on    *)
(* matters here.                                                           *)
(***************************************************************************)
EXTENDS Integers, FiniteSetsExt

CONSTANTS
    RtUsers, NContests,
    RtScores,       \* Per contest, scores that a participant may have; 0 without a submission.
    RtRateAll,      \* Contests with rate_all: participants without submissions count.
    RtFloor,        \* rating_floor of every contest.
    RatingInit, MeanInit,
    Recalculate(_, _, _, _),    \* From rankings, old means, times ranked and past
                                \* performances of users to their ratings, means and
                                \* performances.
    MaxEdits        \* Bound: edits of contests and participations.

VARIABLES
    rt_held,        \* Contests 1 .. rt_held have ended.
    rt_rated,       \* is_rated of a contest.
    rt_parts,       \* Live participations of a contest: [user -> [score, disqualified]].
    rt_excluded,    \* rate_exclude, as pairs.
    rt_ratings,     \* Rows of Rating: <<contest, user>> -> [rank, rating, mean, perf].
    rt_profile,     \* Profile.rating; 0 is none.
    rt_edits,
    rt_dirty,       \* History: contests whose inputs changed since they were rated.
    rt_unsynced     \* History: users whose profile lost track of the ratings.

rtvars == <<rt_held, rt_rated, rt_parts, rt_excluded, rt_ratings, rt_profile,
            rt_edits, rt_dirty, rt_unsynced>>

RtContests == 1 .. NContests
Ended == 1 .. rt_held

RtInit ==
    /\ rt_held = 0
    /\ rt_rated = [c \in RtContests |-> FALSE]
    /\ rt_parts = [c \in RtContests |-> <<>>]
    /\ rt_excluded = {}
    /\ rt_ratings = <<>>
    /\ rt_profile = [u \in RtUsers |-> 0]
    /\ rt_edits = 0
    /\ rt_dirty = {} /\ rt_unsynced = {}

-----------------------------------------------------------------------------
(* rate_contest.                                                           *)

\* Of a participation; recompute_results replaces the score of a disqualified one.
Score(part) == IF part.disqualified THEN -9999 ELSE part.score

Restricted(f, S) == [x \in S |-> f[x]]
RatedContests(rows, u) == {c \in RtContests : <<c, u>> \in DOMAIN rows}
\* The row of the contest that ended last, if there is one.
LatestRow(rows, u, default) ==
    LET rated == RatedContests(rows, u) IN IF rated = {} THEN default ELSE rows[<<Max(rated), u>>]
LastRating(rows, u) == LatestRow(rows, u, [rating |-> RatingInit]).rating
LastMean(rows, u) == LatestRow(rows, u, [mean |-> MeanInit]).mean

Rateable(parts, rows, c) ==
    {u \in DOMAIN parts[c] : /\ <<c, u>> \notin rt_excluded
                             /\ c \in RtRateAll \/ parts[c][u].score # 0
                             /\ LastRating(rows, u) >= RtFloor}

\* tie_ranker over the ranking by score, twice the mean rank of those with the same score.
TieRank(scores, u) == 2 * Cardinality({v \in DOMAIN scores : scores[v] > scores[u]})
                      + Cardinality({v \in DOMAIN scores : scores[v] = scores[u]}) + 1

\* The rows with those of one more contest.
RateContest(parts, rows, c) ==
    LET us == Rateable(parts, rows, c)
        scores == [u \in us |-> Score(parts[c][u])]
        ranks == [u \in us |-> TieRank(scores, u)]
        result == Recalculate(ranks, [u \in us |-> LastMean(rows, u)],
                              [u \in us |-> Cardinality(RatedContests(rows, u))],
                              [u \in us |-> [d \in RatedContests(rows, u) |-> rows[<<d, u>>].perf]])
        new == {c} \X us IN
    [k \in DOMAIN rows \cup new |->
        IF k \notin new THEN rows[k]
        ELSE [rank |-> ranks[k[2]], rating |-> result[k[2]].rating,
              mean |-> result[k[2]].mean, perf |-> result[k[2]].perf]]

\* Several contests, in the order of their ends.
RateContests(parts, rows, cs) ==
    LET upto[c \in 0 .. NContests] ==
          IF c = 0 THEN rows
          ELSE IF c \in cs THEN RateContest(parts, upto[c - 1], c) ELSE upto[c - 1] IN
    upto[NContests]

\* Mutant: only the profiles of users who were rated are updated.
ProfilesOfRated(parts, rows, c) == {u \in DOMAIN parts[c] : <<c, u>> \in DOMAIN rows}

\* The profiles that rate_contest updates: of all live participants.
ProfilesOf(parts, rows, c) == DOMAIN parts[c]

-----------------------------------------------------------------------------
(* Rating.                                                                 *)

\* Mutant: later contests keep their ratings.
Alone(c) == {c}

\* Contest.rate: the contests that ended since.
Since(c) == {d \in Ended : d >= c}

Rate(parts, c) ==
    LET kept == Restricted(rt_ratings, {k \in DOMAIN rt_ratings : k[1] \notin Since(c)})
        rated == {d \in Since(c) : rt_rated[d]}
        new == RateContests(parts, kept, rated)
        synced == UNION {ProfilesOf(parts, new, d) : d \in rated} IN
    /\ rt_ratings' = new
    /\ rt_profile' = [u \in RtUsers |-> IF u \in synced THEN LatestRow(new, u, [rating |-> 0]).rating
                                        ELSE rt_profile[u]]
    /\ rt_unsynced' = rt_unsynced \ UNION {DOMAIN parts[d] : d \in rated}
    /\ rt_dirty' = {d \in rt_dirty : d < c}

RateView(c) ==
    /\ c \in Ended /\ rt_rated[c]
    /\ Rate(rt_parts, c)
    /\ UNCHANGED <<rt_held, rt_rated, rt_parts, rt_excluded, rt_edits>>

\* rate_all_view.
RateAll ==
    LET rated == {c \in Ended : rt_rated[c]}
        new == RateContests(rt_parts, <<>>, rated) IN
    /\ rt_ratings' = new
    /\ rt_profile' = [u \in RtUsers |-> LatestRow(new, u, [rating |-> 0]).rating]
    /\ rt_dirty' = {} /\ rt_unsynced' = {}
    /\ UNCHANGED <<rt_held, rt_rated, rt_parts, rt_excluded, rt_edits>>

\* rate_all_view dies, or fails, after TRUNCATE: that commits at once, the rest is undone.
RateAllDies ==
    /\ rt_edits < MaxEdits /\ rt_edits' = rt_edits + 1
    /\ rt_ratings' = <<>>
    /\ rt_dirty' = Ended /\ rt_unsynced' = RtUsers
    /\ UNCHANGED <<rt_held, rt_rated, rt_parts, rt_excluded, rt_profile>>

\* CourseAdmin.rate_all_view, while no course is rated: it empties the ratings that the
\* profiles have from contests.  With a rated course it fails in rate_course and is undone.
CourseRateAll ==
    /\ rt_edits < MaxEdits /\ rt_edits' = rt_edits + 1
    /\ rt_profile' = [u \in RtUsers |-> 0]
    /\ rt_unsynced' = RtUsers
    /\ UNCHANGED <<rt_held, rt_rated, rt_parts, rt_excluded, rt_ratings, rt_dirty>>

-----------------------------------------------------------------------------
(* What ratings depend on.                                                 *)

\* A contest is held and ends.
Hold ==
    /\ rt_held < NContests
    /\ rt_held' = rt_held + 1
    /\ \E us \in SUBSET RtUsers : \E scores \in [us -> RtScores[rt_held']] :
          rt_parts' = [rt_parts EXCEPT ![rt_held'] =
                          [u \in us |-> [score |-> scores[u], disqualified |-> FALSE]]]
    /\ \E rated \in BOOLEAN :
          /\ rt_rated' = [rt_rated EXCEPT ![rt_held'] = rated]
          /\ rt_dirty' = IF rated THEN rt_dirty \cup {rt_held'} ELSE rt_dirty
    /\ UNCHANGED <<rt_excluded, rt_ratings, rt_profile, rt_edits, rt_unsynced>>

Edit(c) == /\ rt_edits < MaxEdits /\ c \in Ended
           /\ rt_edits' = rt_edits + 1

\* A rejudge changes a score.
Rejudged(c, u) ==
    /\ Edit(c) /\ u \in DOMAIN rt_parts[c] /\ rt_parts[c][u].score # 0
    /\ \E s \in RtScores[c] \ {0, rt_parts[c][u].score} : rt_parts' = [rt_parts EXCEPT ![c][u].score = s]
    /\ rt_dirty' = rt_dirty \cup {c}
    /\ UNCHANGED <<rt_held, rt_rated, rt_excluded, rt_ratings, rt_profile, rt_unsynced>>

\* ContestParticipation.set_disqualified; the contest is rated again if it has ratings.
SetDisqualified(c, u) ==
    /\ Edit(c) /\ u \in DOMAIN rt_parts[c]
    /\ rt_parts' = [rt_parts EXCEPT ![c][u].disqualified = ~@]
    /\ IF rt_rated[c] /\ \E k \in DOMAIN rt_ratings : k[1] = c
       THEN Rate(rt_parts', c)
       ELSE rt_dirty' = rt_dirty \cup {c} /\ UNCHANGED <<rt_ratings, rt_profile, rt_unsynced>>
    /\ UNCHANGED <<rt_held, rt_rated, rt_excluded>>

\* The administration of contests: is_rated, rate_exclude.
SetRated(c) ==
    /\ Edit(c)
    /\ rt_rated' = [rt_rated EXCEPT ![c] = ~@]
    /\ rt_dirty' = rt_dirty \cup {c}
    /\ rt_unsynced' = rt_unsynced \cup {u \in RtUsers : <<c, u>> \in DOMAIN rt_ratings}
    /\ UNCHANGED <<rt_held, rt_parts, rt_excluded, rt_ratings, rt_profile>>

Exclude(c, u) ==
    /\ Edit(c) /\ u \in DOMAIN rt_parts[c]
    /\ rt_excluded' = IF <<c, u>> \in rt_excluded THEN rt_excluded \ {<<c, u>>}
                      ELSE rt_excluded \cup {<<c, u>>}
    /\ rt_dirty' = rt_dirty \cup {c}
    /\ UNCHANGED <<rt_held, rt_rated, rt_parts, rt_ratings, rt_profile, rt_unsynced>>

RtNext ==
    \/ Hold \/ RateAll \/ RateAllDies \/ CourseRateAll
    \/ \E c \in RtContests : RateView(c) \/ SetRated(c)
    \/ \E c \in RtContests, u \in RtUsers : Rejudged(c, u) \/ SetDisqualified(c, u) \/ Exclude(c, u)

RtSpec == RtInit /\ [][RtNext]_rtvars

-----------------------------------------------------------------------------
(* Properties.                                                             *)

\* Rating contests one at a time, in any order and after any corrections, comes to what
\* rating all of them from nothing gives, as soon as every contest that changed was
\* rated since, itself or through an earlier one.
RatingsAreAReplay ==
    rt_dirty = {} => rt_ratings = RateContests(rt_parts, <<>>, {c \in Ended : rt_rated[c]})

\* A profile shows the rating of the last rated contest of its user, unless that contest
\* was taken out of the ratings, rating everything died half-way, or the ratings of
\* courses were recomputed.
ProfilesShowTheLast ==
    \A u \in RtUsers \ rt_unsynced : rt_profile[u] = LatestRow(rt_ratings, u, [rating |-> 0]).rating
=============================================================================
