----------------------------- MODULE UndoTimeline -----------------------------
(***************************************************************************)
(* What the write gate promises a user: a line of project states with a     *)
(* cursor.  A gesture cuts the line after the cursor and extends it, undo   *)
(* and redo move the cursor, and only the oldest states are ever forgotten. *)
(***************************************************************************)
EXTENDS Integers, Sequences

CONSTANTS Files, Bytes, GateDepth

VARIABLES line,   \* the states the user can still reach, oldest first
          pos     \* the one on disk

States == [Files -> Bytes]

Init == /\ line \in {<<s>> : s \in States}
        /\ pos = 1

(* The newest GateDepth + 1 states are kept *)
Kept(l) == IF Len(l) > GateDepth + 1
           THEN SubSeq(l, Len(l) - GateDepth, Len(l))
           ELSE l

Gesture(s) ==
    /\ line' = Kept(Append(SubSeq(line, 1, pos), s))
    /\ pos' = Len(line')

Undo == pos > 1 /\ pos' = pos - 1 /\ UNCHANGED line

Redo == pos < Len(line) /\ pos' = pos + 1 /\ UNCHANGED line

Next == Undo \/ Redo \/ \E s \in States : Gesture(s)

Spec == Init /\ [][Next]_<<line, pos>>
=============================================================================
