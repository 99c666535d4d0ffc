----------------------------- MODULE WriteGateInv -----------------------------
(***************************************************************************)
(* The inductive invariant behind DiscardOnlyAfterDrift.                    *)
(*                                                                          *)
(* Read a stack from its newest entry down, keeping the entries that touch  *)
(* one file f.  While nothing but recorded gestures changed f, these        *)
(* entries form a chain hooked to the disk: the newest faces the disk's     *)
(* bytes, and each older one faces what the entry above it would restore.   *)
(* An undo entry faces the disk with `after', a redo entry with `before'.   *)
(* A link is claimed only between equal drift stamps: once f drifted, the   *)
(* entries below are on their own and may be refused.                       *)
(***************************************************************************)
EXTENDS WriteGate

(* Entry i is the newest of stack s that touches f *)
IsTop(s, i, f) ==
    /\ i \in 1..Len(s) /\ f \in s[i].files
    /\ \A k \in 1..Len(s) : k > i => f \notin s[k].files

(* Entry j is the next newer entry of s after i that touches f *)
IsNext(s, i, j, f) ==
    /\ i \in 1..Len(s) /\ j \in 1..Len(s) /\ i < j
    /\ f \in s[i].files /\ f \in s[j].files
    /\ \A k \in 1..Len(s) : i < k /\ k < j => f \notin s[k].files

(* Stamps never exceed the drift and grow towards the newest entry *)
Stamped(s) ==
    /\ \A i \in 1..Len(s), f \in Files : f \in s[i].files => s[i].at[f] <= drift[f]
    /\ \A i, j \in 1..Len(s), f \in Files :
          i < j /\ f \in s[i].files /\ f \in s[j].files => s[i].at[f] <= s[j].at[f]

(* The stamps of stack s do not exceed those of the record in hand, on T *)
Below(s, T) ==
    \A i \in 1..Len(s), f \in T : f \in s[i].files => s[i].at[f] <= cur.at[f]

(* Files whose disk content is, for the moment, ahead of a stack's top *)
UndoAhead == IF holder = "undo" THEN cur.files \ wrote ELSE wrote
RedoAhead == IF holder = "redo" THEN cur.files \ wrote ELSE wrote

UndoHooked == \A i \in 1..Len(undo), f \in Files \ UndoAhead :
    IsTop(undo, i, f) /\ undo[i].at[f] = drift[f] => undo[i].after[f] = disk[f]

RedoHooked == \A i \in 1..Len(redo), f \in Files \ RedoAhead :
    IsTop(redo, i, f) /\ redo[i].at[f] = drift[f] => redo[i].before[f] = disk[f]

UndoLinked == \A i, j \in 1..Len(undo), f \in Files :
    IsNext(undo, i, j, f) /\ undo[i].at[f] = undo[j].at[f]
        => undo[i].after[f] = undo[j].before[f]

RedoLinked == \A i, j \in 1..Len(redo), f \in Files :
    IsNext(redo, i, j, f) /\ redo[i].at[f] = redo[j].at[f]
        => redo[i].before[f] = redo[j].after[f]

(* The record in hand would extend the chain of a stack, on the files T *)
CurOnUndo(T) == \A i \in 1..Len(undo), f \in T :
    IsTop(undo, i, f) /\ undo[i].at[f] = cur.at[f] => undo[i].after[f] = cur.before[f]

CurOnRedo(T) == \A i \in 1..Len(redo), f \in T :
    IsTop(redo, i, f) /\ redo[i].at[f] = cur.at[f] => redo[i].before[f] = cur.after[f]

(* Files of the record in hand that this restore has already compared *)
Compared == Verified \union wrote

(* Where each operation stands in its loops *)
Progress ==
    /\ todo \subseteq cur.files /\ wrote \subseteq cur.files
    /\ phase = "check" => wrote = {}
    /\ holder = "none" => wrote = {} /\ phase = "check"
    /\ holder = "apply" \/ phase = "write" => todo = cur.files \ wrote
    /\ raced \subseteq Files

(* What is known of the record in hand *)
InApply ==
    holder = "apply" /\ phase = "write" =>
        /\ Below(undo, cur.files)
        /\ CurOnUndo(cur.files)

InUndo ==
    holder = "undo" =>
        /\ Below(undo, cur.files) /\ CurOnUndo(cur.files)
        /\ Below(redo, Compared) /\ CurOnRedo(Compared)

InRedo ==
    holder = "redo" =>
        /\ Below(redo, cur.files) /\ CurOnRedo(cur.files)
        /\ Below(undo, Compared) /\ CurOnUndo(Compared)

CurFaces ==
    /\ \A f \in cur.files : cur.at[f] <= drift[f]
    /\ Restoring =>
         /\ \A f \in cur.files \ wrote : cur.at[f] = drift[f] => disk[f] = Expected(f)
         /\ \A f \in wrote : cur.at[f] = drift[f] => disk[f] = Target(f)

(* The window: a compared file that no longer matches was rewritten since *)
Window ==
    \A f \in Verified : disk[f] = Expected(f) \/ f \in raced

HistoryLinked ==
    /\ Progress
    /\ Stamped(undo) /\ Stamped(redo)
    /\ UndoHooked /\ RedoHooked
    /\ UndoLinked /\ RedoLinked
    /\ InApply /\ InUndo /\ InRedo
    /\ CurFaces
    /\ Window
=============================================================================
