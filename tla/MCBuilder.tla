------------------------------- MODULE MCBuilder -------------------------------
(* The builder of a small project, for TLC: the boards, parts and callers are model
   values, and a stamp counts the edits. *)
EXTENDS Builder, TLC
================================================================================
