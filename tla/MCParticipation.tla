-------------------------- MODULE MCParticipation --------------------------
(* Instances of Participation for TLC.                                     *)
EXTENDS Participation, TLC

CONSTANTS ann, ed, out, x1, x2, t1, t2

Live == {<<ann, LIVE>>}

WorkerSymmetry == Permutations(Workers)
=============================================================================
