--------------------------- MODULE WriteGateTimeline ---------------------------
(***************************************************************************)
(* The gate implements UndoTimeline as long as nobody writes around it and  *)
(* no write fails half way (QuietSpec).  An operation takes effect when the  *)
(* record is pushed; until then the line shows the state it started from.   *)
(***************************************************************************)
EXTENDS WriteGate

(* The stacks and the disk as they were when the operation in progress began *)
UndoStack == IF holder = "undo" THEN Append(undo, cur) ELSE undo
RedoStack == IF holder = "redo" THEN Append(redo, cur) ELSE redo
DiskThen  == [f \in Files |->
                IF f \notin wrote THEN disk[f]
                ELSE IF holder = "undo" THEN cur.after[f] ELSE cur.before[f]]

(* The newest n records of a stack that touch f, and the oldest of some records *)
Touching(s, n, f) == {i \in 1..Len(s) : i > Len(s) - n /\ f \in s[i].files}
Oldest(T) == CHOOSE i \in T : \A j \in T : i <= j

(* The state n undos back: a file is as the oldest record undone found it.  The state n
   redos ahead: as the last record redone left it. *)
Back(n) == [f \in Files |->
               LET T == Touching(UndoStack, n, f)
               IN  IF T = {} THEN DiskThen[f] ELSE UndoStack[Oldest(T)].before[f]]

Ahead(n) == [f \in Files |->
                LET T == Touching(RedoStack, n, f)
                IN  IF T = {} THEN DiskThen[f] ELSE RedoStack[Oldest(T)].after[f]]

Pos  == Len(UndoStack) + 1
Line == [k \in 1..(Pos + Len(RedoStack)) |->
            IF k <= Pos THEN Back(Pos - k) ELSE Ahead(k - Pos)]

Timeline == INSTANCE UndoTimeline WITH line <- Line, pos <- Pos

(* With one writer at a time and no outside writes, any interleaving of canvas
   gestures, agent gestures, undos and redos is a walk on one line of states: every
   undo lands on the exact bytes before the gesture (gate.rs:84-108, 117-139). *)
GateIsTimeline == Timeline!Spec
=============================================================================
