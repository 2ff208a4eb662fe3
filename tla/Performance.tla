------------------------------- MODULE Performance -------------------------------
(***************************************************************************)
(* Performance points (Profile.calculate_points in                         *)
(* judge/models/profile.py, judge/performance_points.py, UserProblemsPage  *)
(* and UserPerformancePointsAjax in judge/views/user.py,                   *)
(* user/user-problems.html): the sum of the best points per problem,       *)
(* weighted by rank, and a table that shows how it comes about, a few      *)
(* entries at first and more on demand.                                    *)
(***************************************************************************)
EXTENDS Integers, Sequences, FiniteSets, FiniteSetsExt

CONSTANTS
    PfProblems,
    PfPoints,       \* Points a problem may be worth to the user; 0 is not shown.
    Weights,        \* The table of weights, PP_WEIGHT_TABLE.
    FirstEntries,   \* TableLen the page begins with, 10.
    MoreEntries,    \* TableLen a request for more asks for, 10.
    MaxPfChanges    \* Bound: changes of points.

\* What the constants are.
PerformanceAssumption == FirstEntries \in Nat \ {0} /\ MoreEntries \in Nat \ {0}

VARIABLES
    pf_best,        \* Best points per problem.
    pf_profile,     \* The performance points stored with the profile, without the bonus.
    pf_page,        \* TableLen shown: sequence of problem, points, weight.
    pf_base,        \* Where the next request starts; 0 before the page is open.
    pf_more,        \* Whether the page offers more.
    pf_changes,
    pf_moved        \* History: points changed since the page was opened.

pfvars == <<pf_best, pf_profile, pf_page, pf_base, pf_more, pf_changes, pf_moved>>

TableLen == Len(Weights)
PfCounted(best) == {p \in PfProblems : best[p] > 0}

\* The order of the table: by points, equals in any order.
RanksBest(order, best) ==
    /\ {order[i] : i \in DOMAIN order} = PfCounted(best)
    /\ \A i, j \in DOMAIN order : i < j => best[order[i]] >= best[order[j]]
Orders(best) == {order \in [1..Cardinality(PfCounted(best)) -> PfProblems] : RanksBest(order, best)}

SumOf(seq) == FoldSet(LAMBDA i, acc : acc + (seq[i].points * seq[i].weight), 0, DOMAIN seq)

\* Mutant: every entry counts in full.
FullPoints(best) == FoldSet(LAMBDA p, acc : acc + best[p], 0, PfProblems)

\* calculate_points: the best points times the weights, as many as there are weights.
CalculatePoints(best) ==
    LET order == CHOOSE o \in Orders(best) : TRUE
        n == IF Len(order) < TableLen THEN Len(order) ELSE TableLen
    IN SumOf([i \in 1..n |-> [points |-> best[order[i]], weight |-> Weights[i]]])

PfInit ==
    /\ pf_best = [p \in PfProblems |-> 0]
    /\ pf_profile = 0
    /\ pf_page = <<>> /\ pf_base = 0 /\ pf_more = FALSE
    /\ pf_changes = 0 /\ pf_moved = FALSE

\* A submission is graded or a problem rescored, and the profile follows.
PointsChange(p, points) ==
    /\ pf_changes < MaxPfChanges /\ pf_changes' = pf_changes + 1
    /\ points # pf_best[p]
    /\ pf_best' = [pf_best EXCEPT ![p] = points]
    /\ pf_profile' = CalculatePoints(pf_best')
    /\ pf_moved' = TRUE
    /\ UNCHANGED <<pf_page, pf_base, pf_more>>

\* A slice from start up to end, or what there is of it.
Slice(seq, start, end) ==
    LET last == IF end < Len(seq) THEN end ELSE Len(seq)
    IN IF start < last THEN SubSeq(seq, start + 1, last) ELSE <<>>

\* LIMIT end - start + 1 OFFSET start.
TableRows(order, start, end) == Slice(order, start, end + 1)

\* Mutant: the entry after the last is asked for by itself.
HasMoreBeyond(start, end, rows) == end + 1 < start + Len(rows)

\* There are more if a row came beyond the end, and a weight for it.
HasMore(start, end, rows) == end < (IF TableLen < start + Len(rows) THEN TableLen ELSE start + Len(rows))

\* Mutant: the weights begin anew on every page.
WeightedFromTop(order, start, end) ==
    LET rows == Slice(order, start, end)
        n == IF Len(rows) < TableLen THEN Len(rows) ELSE TableLen
    IN [i \in 1..n |-> [problem |-> rows[i], points |-> pf_best[rows[i]], weight |-> Weights[i]]]

\* zip of the weights from start to end with the rows.
Breakdown(order, start, end) ==
    LET weights == Slice(Weights, start, end)
        rows == TableRows(order, start, end)
        n == IF Len(weights) < Len(rows) THEN Len(weights) ELSE Len(rows)
    IN [i \in 1..n |-> [problem |-> rows[i], points |-> pf_best[rows[i]], weight |-> weights[i]]]

\* The page of the user's problems.
OpenBreakdown(order) ==
    /\ pf_base = 0
    /\ pf_page' = Breakdown(order, 0, FirstEntries)
    /\ pf_more' = HasMore(0, FirstEntries, TableRows(order, 0, FirstEntries))
    /\ pf_base' = FirstEntries
    /\ pf_moved' = FALSE
    /\ UNCHANGED <<pf_best, pf_profile, pf_changes>>

\* More, from where the page ends.
MoreBreakdown(order) ==
    LET end == pf_base + MoreEntries IN
    /\ pf_more
    /\ pf_page' = pf_page \o Breakdown(order, pf_base, end)
    /\ pf_more' = HasMore(pf_base, end, TableRows(order, pf_base, end))
    /\ pf_base' = end
    /\ UNCHANGED <<pf_best, pf_profile, pf_changes, pf_moved>>

PfNext ==
    \/ \E p \in PfProblems, points \in PfPoints : PointsChange(p, points)
    \/ \E order \in Orders(pf_best) : OpenBreakdown(order) \/ MoreBreakdown(order)

PfSpec == PfInit /\ [][PfNext]_pfvars

-----------------------------------------------------------------------------
(* Properties.                                                             *)

\* A table that offers no more adds up to the points of the profile, though its pages were asked
\* for one by one and equal entries came in another order each time, unless points changed.
TableAddsUp == pf_base > 0 /\ ~pf_moved /\ ~pf_more => SumOf(pf_page) = pf_profile

\* It never shows more entries than have a weight, nor ever points out of order.
TableInOrder ==
    /\ Len(pf_page) <= TableLen
    /\ ~pf_moved => \A i, j \in DOMAIN pf_page : i < j => pf_page[i].points >= pf_page[j].points
                                                       /\ pf_page[i].weight >= pf_page[j].weight

\* More that is offered is there: asking again adds an entry.
MoreIsThere == pf_more /\ ~pf_moved => Len(pf_page) < TableLen /\ Len(pf_page) < Cardinality(PfCounted(pf_best))

PerformanceHolds == TableAddsUp /\ TableInOrder /\ MoreIsThere
=============================================================================
