------------------------------- MODULE WriteGate -------------------------------
(***************************************************************************)
(* The per-window write gate (crates/mcp/src/gate.rs).  Every structured    *)
(* writer - a canvas command or an MCP tool - applies its edit under one    *)
(* mutex, which also guards the undo and redo stacks of byte snapshots.     *)
(* The agent's own file tools, git and the user's editor write the same     *)
(* files WITHOUT the mutex (UngatedWrite), so they may land between any two *)
(* file-system calls of a gate operation; that is why each operation is     *)
(* several steps here.                                                      *)
(*                                                                          *)
(* A file's bytes are an abstract value.  SHA-256 is taken to be injective, *)
(* so the hash guard compares the bytes themselves.                         *)
(***************************************************************************)
EXTENDS Integers, Sequences, FiniteSets

CONSTANTS
    Files,      \* the project files a gesture may touch
    Entry,      \* the open board: the file whose hash guards every gesture
    Content,    \* what a file may contain
    Absent,     \* fs::read(..).ok() == None
    GateDepth,  \* GATE_DEPTH (100 in the code)
    MaxDrift    \* bound for TLC: nothing new starts after this much drift in all

ASSUME FilesAssumption == Entry \in Files
ASSUME ContentAssumption == Content # {} /\ Absent \notin Content
ASSUME DepthAssumption == GateDepth \in Nat \ {0}
ASSUME BoundAssumption == MaxDrift \in Nat

Bytes == Content \union {Absent}

Drivers == {"canvas", "mcp"}

(***************************************************************************)
(* One gesture, one record.  `before' and `after' are meaningful on `files' *)
(* only.  `at' is a ghost (see drift): the drift of each file when the side *)
(* of the record that faces the disk was last known to equal the disk.      *)
(***************************************************************************)
Record == [by     : Drivers,
           files  : SUBSET Files,
           before : [Files -> Bytes],
           after  : [Files -> Bytes],
           at     : [Files -> Nat]]

VARIABLES
    disk,      \* [Files -> Bytes]
    undo,      \* GateInner.undo, newest last
    redo,      \* GateInner.redo, newest last
    holder,    \* which operation holds the mutex: "none" "apply" "undo" "redo"
    phase,     \* "check" before the operation may write, then "write"
    cur,       \* the record being built (apply) or restored (undo, redo)
    todo,      \* files the current phase has still to visit
    wrote,     \* files this operation has written
    token,     \* base_hash: the content of Entry that the caller last saw
    poisoned,  \* the mutex was poisoned by a panicking writer
    drift,     \* ghost: how often the stacks lost track of a file
    raced      \* ghost: files rewritten from outside after this restore checked them

vars == <<disk, undo, redo, holder, phase, cur, todo, wrote, token, poisoned, drift, raced>>

stacks == <<undo, redo>>
local  == <<holder, phase, cur, todo, wrote>>

TypeOK ==
    /\ disk \in [Files -> Bytes]
    /\ undo \in Seq(Record)
    /\ redo \in Seq(Record)
    /\ holder \in {"none", "apply", "undo", "redo"}
    /\ phase \in {"check", "write"}
    /\ cur \in Record
    /\ todo \in SUBSET Files
    /\ wrote \in SUBSET Files
    /\ token \in Bytes
    /\ poisoned \in BOOLEAN
    /\ drift \in [Files -> Nat]
    /\ raced \in SUBSET Files

--------------------------------------------------------------------------------

NoBytes == [f \in Files |-> Absent]
NoDrift == [f \in Files |-> 0]

NoRecord == [by |-> "canvas", files |-> {}, before |-> NoBytes, after |-> NoBytes,
             at |-> NoDrift]

(* Mutant: only the touched paths have an entry *)
SnapshotPartial(T) == [f \in T |-> disk[f]]

(* fs::read of every touched path *)
Snapshot(T) == [f \in Files |-> IF f \in T THEN disk[f] ELSE Absent]

(* Mutant: one entry too many survives the drain *)
DrainedOneShort(s) == IF Len(s) > GateDepth
                      THEN SubSeq(s, Len(s) - GateDepth, Len(s))
                      ELSE s

(* Mutant: the drain takes the newest entries (a truncate) *)
DrainedNewest(s) == IF Len(s) > GateDepth THEN SubSeq(s, 1, GateDepth) ELSE s

(* Entries beyond GATE_DEPTH are drained from the oldest end *)
Drained(s) == IF Len(s) > GateDepth
              THEN SubSeq(s, Len(s) - GateDepth + 1, Len(s))
              ELSE s

Newest(s) == s[Len(s)]
Older(s)  == SubSeq(s, 1, Len(s) - 1)

(* What restore() expects to find in f, and what it writes instead *)
Expected(f) == IF holder = "undo" THEN cur.after[f] ELSE cur.before[f]
Target(f)   == IF holder = "undo" THEN cur.before[f] ELSE cur.after[f]

(* The ghost: the stacks no longer account for what is in these files *)
Forget(T) == drift' = [f \in Files |-> IF f \in T THEN drift[f] + 1 ELSE drift[f]]

Restoring == holder \in {"undo", "redo"}

(* Files a restore has compared with its record and not yet rewritten *)
Verified == IF ~Restoring THEN {}
            ELSE IF phase = "check" THEN cur.files \ todo ELSE todo

(* Bound on the exploration, on what starts activity only *)
Room == Cardinality({p \in Files \X (1..MaxDrift) : p[2] <= drift[p[1]]}) < MaxDrift

Free == holder = "none" /\ ~poisoned /\ Room

Take(op, rec, T) ==
    /\ holder' = op
    /\ phase' = "check"
    /\ cur' = rec
    /\ todo' = T
    /\ wrote' = {}
    /\ raced' = {}

(* The mutex guard is dropped *)
Release ==
    /\ holder' = "none"
    /\ phase' = "check"
    /\ cur' = NoRecord
    /\ todo' = {}
    /\ wrote' = {}
    /\ raced' = {}

Init ==
    /\ disk \in [Files -> Content]
    /\ undo = <<>>
    /\ redo = <<>>
    /\ holder = "none"
    /\ phase = "check"
    /\ cur = NoRecord
    /\ todo = {}
    /\ wrote = {}
    /\ token = disk[Entry]
    /\ poisoned = FALSE
    /\ drift = NoDrift
    /\ raced = {}

--------------------------------------------------------------------------------
(* The world outside the gate *)

(* The agent's Write tool, git or an editor rewrites or removes a file; no lock *)
UngatedWrite(f, c) ==
    /\ Room
    /\ c # disk[f]
    /\ disk' = [disk EXCEPT ![f] = c]
    /\ Forget({f})
    /\ raced' = IF f \in Verified THEN raced \union {f} ELSE raced
    /\ UNCHANGED <<stacks, local, token, poisoned>>

(* A build was published and its source_hash reached the caller *)
RefreshToken ==
    /\ token # disk[Entry]
    /\ token' = disk[Entry]
    /\ UNCHANGED <<disk, stacks, local, poisoned, drift, raced>>

--------------------------------------------------------------------------------
(* WriteGate::apply *)

(* Lock, then the hash guard: a mismatch returns Stale (an absent guard file
   Failed) with nothing changed, so a refused call is no step here. *)
BeginApply(by, T, guarded) ==
    /\ Free
    /\ guarded => disk[Entry] = token /\ disk[Entry] # Absent
    /\ Take("apply", [NoRecord EXCEPT !.by = by, !.files = T], T)
    /\ UNCHANGED <<disk, stacks, token, poisoned, drift>>

(* Canvas commands carry base_hash; only remove_instances spans files.  MCP tools
   touch one file and, except set_positions, pass no guard. *)
CanvasGesture == \E T \in SUBSET Files \ {{}} : BeginApply("canvas", T, TRUE)
McpGesture    == \E f \in Files : BeginApply("mcp", {f}, FALSE)
McpMove       == BeginApply("mcp", {Entry}, TRUE)

TakeBefore ==
    /\ holder = "apply" /\ phase = "check"
    /\ cur' = [cur EXCEPT !.before = Snapshot(cur.files), !.at = drift]
    /\ phase' = "write"
    /\ UNCHANGED <<disk, stacks, holder, todo, wrote, token, poisoned, drift, raced>>

(* The writer re-reads a file, edits its text and writes it back; it refuses a
   file it cannot read. *)
WriteFile(f, c) ==
    /\ holder = "apply" /\ phase = "write"
    /\ f \in todo
    /\ disk[f] # Absent
    /\ disk' = [disk EXCEPT ![f] = c]
    /\ todo' = todo \ {f}
    /\ wrote' = wrote \union {f}
    /\ UNCHANGED <<stacks, holder, phase, cur, token, poisoned, drift, raced>>

(* Mutant: a new gesture keeps the redo line *)
FinishApplyKeepsRedo ==
    /\ holder = "apply" /\ phase = "write"
    /\ \/ todo = {}
       \/ wrote = {} /\ \E f \in Files : cur.files = {f}
    /\ undo' = Drained(Append(undo, [cur EXCEPT !.after = Snapshot(cur.files), !.at = drift]))
    /\ Release
    /\ UNCHANGED <<disk, redo, token, poisoned, drift>>

(* write() returned Ok: snapshot `after', push, fork history.  connect_pins also
   returns Ok when it wrote nothing (NeedsMerge, or already on one net). *)
FinishApply ==
    /\ holder = "apply" /\ phase = "write"
    /\ \/ todo = {}
       \/ wrote = {} /\ \E f \in Files : cur.files = {f}
    /\ undo' = Drained(Append(undo, [cur EXCEPT !.after = Snapshot(cur.files), !.at = drift]))
    /\ redo' = <<>>
    /\ Release
    /\ UNCHANGED <<disk, token, poisoned, drift>>

(* write() returned Err: the mutex is released and nothing is recorded, even when
   an earlier file of the gesture has been written. *)
WriterFails ==
    /\ holder = "apply" /\ phase = "write" /\ todo # {}
    /\ Release
    /\ Forget(wrote)
    /\ UNCHANGED <<disk, stacks, token, poisoned>>

(* connect_pins and disconnect_pin expect() a named definition; a panic inside
   write() poisons the mutex, and every later lock().expect() panics too. *)
WriterPanics ==
    /\ holder = "apply" /\ phase = "write" /\ wrote = {}
    /\ poisoned' = TRUE
    /\ Release
    /\ UNCHANGED <<disk, stacks, token, drift>>

--------------------------------------------------------------------------------
(* WriteGate::undo and WriteGate::redo *)

BeginUndo ==
    /\ Free
    /\ undo # <<>>
    /\ Take("undo", Newest(undo), Newest(undo).files)
    /\ undo' = Older(undo)
    /\ UNCHANGED <<disk, redo, token, poisoned, drift>>

BeginRedo ==
    /\ Free
    /\ redo # <<>>
    /\ Take("redo", Newest(redo), Newest(redo).files)
    /\ redo' = Older(redo)
    /\ UNCHANGED <<disk, undo, token, poisoned, drift>>

(* Mutant: the first file that matches settles the comparison *)
CheckFirstFileOnly(f) ==
    /\ Restoring /\ phase = "check"
    /\ f \in todo
    /\ disk[f] = Expected(f)
    /\ cur' = [cur EXCEPT !.at[f] = drift[f]]
    /\ phase' = "write" /\ todo' = cur.files
    /\ UNCHANGED <<disk, stacks, holder, wrote, token, poisoned, drift, raced>>

(* First loop of restore(): one file holds what the record left in it.  (The
   ghost stamp says so; the code changes nothing but its loop position.) *)
CheckFile(f) ==
    /\ Restoring /\ phase = "check"
    /\ f \in todo
    /\ disk[f] = Expected(f)
    /\ cur' = [cur EXCEPT !.at[f] = drift[f]]
    /\ IF todo = {f} THEN phase' = "write" /\ todo' = cur.files
                     ELSE phase' = phase /\ todo' = todo \ {f}
    /\ UNCHANGED <<disk, stacks, holder, wrote, token, poisoned, drift, raced>>

(* A file changed since: the popped entry is dropped, no file is written. *)
Discard ==
    /\ Restoring /\ phase = "check"
    /\ \E f \in todo : disk[f] # Expected(f)
    /\ Release
    /\ Forget(cur.files)
    /\ UNCHANGED <<disk, stacks, token, poisoned>>

(* Second loop of restore(): fs::write, or remove_file for an absent side. *)
WriteBack(f) ==
    /\ Restoring /\ phase = "write"
    /\ f \in todo
    /\ disk' = [disk EXCEPT ![f] = Target(f)]
    /\ cur' = [cur EXCEPT !.at[f] = drift[f]]
    /\ todo' = todo \ {f}
    /\ wrote' = wrote \union {f}
    /\ UNCHANGED <<stacks, holder, phase, token, poisoned, drift, raced>>

(* remove_file failed; its result is ignored and the restore goes on. *)
RemoveIgnored(f) ==
    /\ Restoring /\ phase = "write"
    /\ f \in todo
    /\ Target(f) = Absent /\ disk[f] # Absent
    /\ todo' = todo \ {f}
    /\ wrote' = wrote \union {f}
    /\ Forget({f})
    /\ UNCHANGED <<disk, stacks, holder, phase, cur, token, poisoned, raced>>

(* fs::write failed: return with some files restored and the entry dropped. *)
RestoreFails ==
    /\ Restoring /\ phase = "write"
    /\ \E f \in todo : Target(f) # Absent
    /\ Release
    /\ Forget(cur.files)
    /\ UNCHANGED <<disk, stacks, token, poisoned>>

(* Mutant: undo() does not put the record on the redo stack *)
FinishUndoLosesRecord ==
    /\ holder = "undo" /\ phase = "write" /\ todo = {}
    /\ Release
    /\ UNCHANGED <<disk, stacks, token, poisoned, drift>>

(* All files restored: the record moves to the other stack. *)
FinishUndo ==
    /\ holder = "undo" /\ phase = "write" /\ todo = {}
    /\ redo' = Append(redo, cur)
    /\ Release
    /\ UNCHANGED <<disk, undo, token, poisoned, drift>>

FinishRedo ==
    /\ holder = "redo" /\ phase = "write" /\ todo = {}
    /\ undo' = Append(undo, cur)
    /\ Release
    /\ UNCHANGED <<disk, redo, token, poisoned, drift>>

--------------------------------------------------------------------------------

(* Operations of the gate while nothing fails *)
Gate ==
    \/ CanvasGesture \/ McpGesture \/ McpMove
    \/ TakeBefore
    \/ \E f \in Files, c \in Content : WriteFile(f, c)
    \/ FinishApply
    \/ BeginUndo \/ BeginRedo
    \/ \E f \in Files : CheckFile(f) \/ WriteBack(f)
    \/ Discard
    \/ FinishUndo \/ FinishRedo

(* I/O errors, refusals and panics *)
Faults ==
    \/ WriterFails \/ WriterPanics
    \/ \E f \in Files : RemoveIgnored(f)
    \/ RestoreFails

(* Everyone who does not take the mutex *)
Outside ==
    \/ \E f \in Files, c \in Bytes : UngatedWrite(f, c)
    \/ RefreshToken

Next == Gate \/ Faults \/ Outside

Spec == Init /\ [][Next]_vars

(* The gate when nobody writes around it and a writer fails only by refusing *)
QuietNext == Gate \/ RefreshToken \/ (wrote = {} /\ WriterFails)
QuietSpec == Init /\ [][QuietNext]_vars

--------------------------------------------------------------------------------
(* Properties *)

(* GATE_DEPTH bounds the whole history: undo, redo and the record in hand.  undo()
   and redo() push without draining (gate.rs:124,137), so this rests on every push
   there having been a pop. *)
HistoryBounded ==
    Len(undo) + Len(redo) + (IF Restoring THEN 1 ELSE 0) <= GateDepth

(* An undo or redo is refused only if some file of the gesture was changed outside
   the recorded history since the record last faced it.  Gestures, undos and redos
   in any order never invalidate one another, whichever of the two drivers made
   them (gate.rs:113-116, 128-129). *)
DiscardOnlyAfterDrift ==
    [][Discard => \E f \in cur.files : cur.at[f] # drift[f]]_vars

(* A restore overwrites bytes it does not expect only when they were written after
   it had compared that very file (gate.rs:145-154 before 155-167). *)
ClobberOnlyInWindow ==
    [][\A f \in Files : WriteBack(f) => disk[f] = Expected(f) \/ f \in raced]_vars
=============================================================================
