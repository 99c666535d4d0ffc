-------------------------- MODULE MCWriteGateTimeline --------------------------
(* Model values for WriteGateTimeline. *)
EXTENDS WriteGateTimeline, TLC

ContentSymmetry == Permutations(Content)
=============================================================================
