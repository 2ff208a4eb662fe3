------------------------------ MODULE MCBridge ------------------------------
(* Instances of Bridge for TLC.                                            *)
EXTENDS Bridge

CONSTANTS j1, j2, east, west, s1, s2, w1, w2, k1

NameOfDef == [j \in Judges |-> IF j = j2 THEN west ELSE east]
OneKind == [s \in Subs |-> k1]
OneOffer == {Kinds}

Req(s, p) == [id |-> s, judge_id |-> NoName, priority |-> p]

\* One submission, judged and rejudged.
OneRequest == {Req(s1, 2)}
TwoRequests == {Req(s1, 0), Req(s2, 2)}
=============================================================================
