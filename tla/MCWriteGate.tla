------------------------------ MODULE MCWriteGate ------------------------------
(* Model values for WriteGate; contents are interchangeable. *)
EXTENDS WriteGateInv, TLC

ContentSymmetry == Permutations(Content)
=============================================================================
