---------------------------- MODULE MCJudgeList ----------------------------
(* Instances of JudgeList for TLC.                                         *)
EXTENDS JudgeList

CONSTANTS j1, j2, j3, east, west, s1, s2, s3, k1, k2

NameOfDef == [j \in Judges |-> IF j = j2 THEN west ELSE east]
SameName == [j \in Judges |-> east]

OneKind == [s \in Subs |-> k1]
TwoKinds == [s \in Subs |-> IF s = s3 THEN k2 ELSE k1]

AllOffers == SUBSET Kinds
OneOffer == {Kinds}

Req(s, n, p) == [id |-> s, judge_id |-> n, priority |-> p]

\* A submission that is made and later rejudged, and a rejudge that names its
\* judge.
FewRequests == {Req(s2, NoName, 1), Req(s2, NoName, 2), Req(s3, west, 3)}

\* The same and a contest submission.
MixedRequests == FewRequests \cup {Req(s1, NoName, 0), Req(s3, NoName, 2)}

\* Contest submissions that compete with each other and with rejudges.
ContestRequests == {Req(s1, NoName, 0), Req(s2, NoName, 0), Req(s2, NoName, 2),
                    Req(s3, NoName, 2), Req(s3, west, 0)}
=============================================================================
