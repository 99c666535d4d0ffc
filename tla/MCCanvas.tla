-------------------------------- MODULE MCCanvas --------------------------------
(* The page over the builder of a one-board project, for TLC *)
EXTENDS Canvas, TLC
================================================================================
