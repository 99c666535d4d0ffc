---------------------------- MODULE WriteGateProofs ----------------------------
(***************************************************************************)
(* Theorems about the write gate, for every set of files, every depth and   *)
(* every interleaving with ungated writers; the last one is that the gate   *)
(* implements UndoTimeline while nobody writes around it.                   *)
(***************************************************************************)
EXTENDS WriteGateInv, WriteGateTimeline, SequenceTheorems, WellFoundedInduction, TLAPS

--------------------------------------------------------------------------------
(* The operators on stacks *)

(* What Append, Older and Drained do to a stack of records, index by index. *)
LEMMA PushFacts ==
    ASSUME NEW s \in Seq(Record), NEW r \in Record
    PROVE  /\ Append(s, r) \in Seq(Record)
           /\ Len(s) \in Nat
           /\ Len(Append(s, r)) = Len(s) + 1
           /\ \A i \in 1..Len(s) : Append(s, r)[i] = s[i]
           /\ Append(s, r)[Len(s) + 1] = r
  BY AppendProperties, LenProperties

LEMMA PopFacts ==
    ASSUME NEW s \in Seq(Record), s # <<>>
    PROVE  /\ Newest(s) \in Record
           /\ Len(s) \in Nat /\ Len(s) >= 1
           /\ Older(s) \in Seq(Record)
           /\ Len(Older(s)) = Len(s) - 1
           /\ \A i \in 1..Len(Older(s)) : Older(s)[i] = s[i]
  <1>1. Len(s) \in Nat \ {0}
    BY EmptySeq
  <1>2. \A i \in 1..Len(s) : s[i] \in Record
    BY ElementOfSeq
  <1> DEFINE n == Len(s) - 1
  <1>3. n \in Nat /\ \A i \in 1..n : s[i] \in Record
    BY <1>1, <1>2
  <1>4. /\ SubSeq(s, 1, n) \in Seq(Record)
        /\ Len(SubSeq(s, 1, n)) = IF 1 <= n THEN n - 1 + 1 ELSE 0
        /\ \A i \in 1..(n - 1 + 1) : SubSeq(s, 1, n)[i] = s[1 + i - 1]
    <2> HIDE DEF n
    <2> QED BY <1>3, SubSeqProperties
  <1>5. Older(s) = SubSeq(s, 1, n) /\ Newest(s) \in Record /\ Len(s) = n + 1
    BY <1>1, <1>2 DEF Newest, Older
  <1>6. Len(Older(s)) = n /\ \A i \in 1..n : Older(s)[i] = s[i]
    <2> HIDE DEF n
    <2> QED BY <1>3, <1>4, <1>5
  <1> HIDE DEF n
  <1> QED BY <1>1, <1>3, <1>4, <1>5, <1>6

LEMMA DrainFacts ==
    ASSUME NEW s \in Seq(Record)
    PROVE  /\ Drained(s) \in Seq(Record)
           /\ Len(Drained(s)) <= GateDepth
           /\ \E d \in Nat :
                /\ Len(s) = Len(Drained(s)) + d
                /\ \A i \in 1..Len(Drained(s)) : Drained(s)[i] = s[i + d]
  <1>1. CASE Len(s) > GateDepth
    <2> DEFINE d == Len(s) - GateDepth
               m == d + 1
               n == Len(s)
    <2>1. n \in Nat /\ d \in Nat /\ m \in Nat /\ 1 <= m /\ m <= n
      BY <1>1, LenProperties, DepthAssumption
    <2>2. \A i \in m..n : s[i] \in Record
      BY <2>1, ElementOfSeq
    <2>3. /\ SubSeq(s, m, n) \in Seq(Record)
          /\ Len(SubSeq(s, m, n)) = IF m <= n THEN n - m + 1 ELSE 0
          /\ \A i \in 1..(n - m + 1) : SubSeq(s, m, n)[i] = s[m + i - 1]
      <3> HIDE DEF m, n, d
      <3> QED BY <2>1, <2>2, SubSeqProperties
    <2>4. /\ Drained(s) = SubSeq(s, m, n)
          /\ n - m + 1 = GateDepth /\ Len(s) = GateDepth + d
          /\ \A i \in 1..GateDepth : m + i - 1 = i + d
      BY <1>1, <2>1, DepthAssumption DEF Drained
    <2>5. /\ Drained(s) \in Seq(Record)
          /\ Len(Drained(s)) = GateDepth
          /\ \A i \in 1..GateDepth : Drained(s)[i] = s[i + d]
      <3> HIDE DEF m, n, d
      <3> QED BY <2>1, <2>3, <2>4
    <2>6. \E k \in Nat :
             /\ Len(s) = Len(Drained(s)) + k
             /\ \A i \in 1..Len(Drained(s)) : Drained(s)[i] = s[i + k]
      <3> HIDE DEF d, m, n
      <3>1. /\ Len(s) = Len(Drained(s)) + d
            /\ \A i \in 1..Len(Drained(s)) : Drained(s)[i] = s[i + d]
        BY <2>4, <2>5
      <3> QED BY <2>1, <3>1
    <2> QED BY <2>5, <2>6, DepthAssumption
  <1>2. CASE ~(Len(s) > GateDepth)
    <2>1. Drained(s) = s /\ Len(s) \in Nat /\ Len(s) <= GateDepth
      BY <1>2, LenProperties, DepthAssumption DEF Drained
    <2>2. \A i \in 1..Len(s) : s[i] = s[i + 0]
      BY <2>1
    <2> QED BY <2>1, <2>2
  <1> QED BY <1>1, <1>2

(* Snapshots and the empty record are well typed. *)
LEMMA RecordFacts ==
    ASSUME TypeOK
    PROVE  /\ NoRecord \in Record
           /\ \A T \in SUBSET Files : Snapshot(T) \in [Files -> Bytes]
           /\ drift \in [Files -> Nat]
  BY DEF TypeOK, Record, NoRecord, NoBytes, NoDrift, Snapshot, Bytes, Drivers
--------------------------------------------------------------------------------
(* Type correctness *)

(* Moving the mutex in and out of an operation keeps the local state typed. *)
LEMMA TakeTyped ==
    ASSUME NEW op \in {"apply", "undo", "redo"}, NEW rec \in Record, NEW T \in SUBSET Files,
           Take(op, rec, T)
    PROVE  /\ holder' \in {"none", "apply", "undo", "redo"} /\ phase' \in {"check", "write"}
           /\ cur' \in Record /\ todo' \in SUBSET Files /\ wrote' \in SUBSET Files
           /\ raced' \in SUBSET Files
  BY DEF Take

LEMMA ReleaseTyped ==
    ASSUME TypeOK, Release
    PROVE  /\ holder' \in {"none", "apply", "undo", "redo"} /\ phase' \in {"check", "write"}
           /\ cur' \in Record /\ todo' \in SUBSET Files /\ wrote' \in SUBSET Files
           /\ raced' \in SUBSET Files
  BY RecordFacts DEF Release

LEMMA ForgetTyped ==
    ASSUME TypeOK, NEW T, Forget(T)
    PROVE  drift' \in [Files -> Nat]
  BY DEF Forget, TypeOK

LEMMA TypeStep == TypeOK /\ [Next]_vars => TypeOK'
  <1> SUFFICES ASSUME TypeOK, [Next]_vars PROVE TypeOK'
    OBVIOUS
  <1> USE DEF TypeOK
  <1>1. ASSUME NEW f \in Files, NEW c \in Bytes, UngatedWrite(f, c) PROVE TypeOK'
    BY <1>1, ForgetTyped DEF UngatedWrite, stacks, local
  <1>2. CASE RefreshToken
    BY <1>2, FilesAssumption DEF RefreshToken, stacks, local
  <1>3. ASSUME NEW by \in Drivers, NEW T \in SUBSET Files, NEW g \in BOOLEAN,
               BeginApply(by, T, g)
        PROVE  TypeOK'
    <2>1. [NoRecord EXCEPT !.by = by, !.files = T] \in Record
      BY RecordFacts DEF Record
    <2> QED BY <1>3, <2>1, TakeTyped DEF BeginApply, stacks
  <1>4. CASE TakeBefore
    <2>1. cur' \in Record
      BY <1>4, RecordFacts DEF TakeBefore, Record
    <2> QED BY <1>4, <2>1 DEF TakeBefore, stacks
  <1>5. ASSUME NEW f \in Files, NEW c \in Content, WriteFile(f, c) PROVE TypeOK'
    BY <1>5 DEF WriteFile, stacks, Bytes
  <1>6. CASE FinishApply
    <2> DEFINE r == [cur EXCEPT !.after = Snapshot(cur.files), !.at = drift]
    <2>1. r \in Record
      BY RecordFacts DEF Record
    <2>2. Drained(Append(undo, r)) \in Seq(Record)
      <3> HIDE DEF r
      <3> QED BY <2>1, PushFacts, DrainFacts
    <2>3. undo' \in Seq(Record) /\ redo' \in Seq(Record)
      BY <1>6, <2>2, EmptySeq DEF FinishApply
    <2> QED BY <1>6, <2>3, ReleaseTyped DEF FinishApply
  <1>7. CASE WriterFails
    BY <1>7, ReleaseTyped, ForgetTyped DEF WriterFails, stacks
  <1>8. CASE WriterPanics
    BY <1>8, ReleaseTyped DEF WriterPanics, stacks
  <1>9. CASE BeginUndo
    <2>1. Newest(undo) \in Record /\ Newest(undo).files \in SUBSET Files
             /\ undo' \in Seq(Record)
      BY <1>9, PopFacts DEF BeginUndo, Record
    <2> QED BY <1>9, <2>1, TakeTyped DEF BeginUndo
  <1>10. CASE BeginRedo
    <2>1. Newest(redo) \in Record /\ Newest(redo).files \in SUBSET Files
             /\ redo' \in Seq(Record)
      BY <1>10, PopFacts DEF BeginRedo, Record
    <2> QED BY <1>10, <2>1, TakeTyped DEF BeginRedo
  <1>11. ASSUME NEW f \in Files, CheckFile(f) PROVE TypeOK'
    <2>1. cur' \in Record /\ cur.files \in SUBSET Files
      BY <1>11 DEF CheckFile, Record
    <2> QED BY <1>11, <2>1 DEF CheckFile, stacks
  <1>12. CASE Discard
    BY <1>12, ReleaseTyped, ForgetTyped DEF Discard, stacks
  <1>13. ASSUME NEW f \in Files, WriteBack(f) PROVE TypeOK'
    <2>1. cur' \in Record /\ Target(f) \in Bytes
      BY <1>13 DEF WriteBack, Record, Target
    <2> QED BY <1>13, <2>1 DEF WriteBack, stacks
  <1>14. ASSUME NEW f \in Files, RemoveIgnored(f) PROVE TypeOK'
    BY <1>14, ForgetTyped DEF RemoveIgnored, stacks
  <1>15. CASE RestoreFails
    BY <1>15, ReleaseTyped, ForgetTyped DEF RestoreFails, stacks
  <1>16. CASE FinishUndo
    BY <1>16, ReleaseTyped, PushFacts DEF FinishUndo
  <1>17. CASE FinishRedo
    BY <1>17, ReleaseTyped, PushFacts DEF FinishRedo
  <1>18. CASE UNCHANGED vars
    BY <1>18 DEF vars
  <1> QED
    BY <1>1, <1>2, <1>3, <1>4, <1>5, <1>6, <1>7, <1>8, <1>9, <1>10, <1>11, <1>12, <1>13,
       <1>14, <1>15, <1>16, <1>17, <1>18, FilesAssumption
    DEF Next, Gate, Faults, Outside, CanvasGesture, McpGesture, McpMove, Drivers

(* Every state of the gate is well typed: the stacks hold complete records and every
   file a record names is one the gate tracks. *)
THEOREM TypeCorrect == Spec => []TypeOK
  <1>1. Init => TypeOK
    <2> SUFFICES ASSUME Init PROVE TypeOK
      OBVIOUS
    <2>1. NoBytes \in [Files -> Bytes] /\ NoDrift \in [Files -> Nat]
      BY DEF NoBytes, NoDrift, Bytes
    <2>2. NoRecord \in Record
      BY <2>1 DEF NoRecord, Record, Drivers
    <2>3. disk \in [Files -> Bytes] /\ token \in Bytes
      BY FilesAssumption DEF Init, Bytes
    <2>4. undo \in Seq(Record) /\ redo \in Seq(Record)
      BY EmptySeq DEF Init
    <2> QED BY <2>1, <2>2, <2>3, <2>4 DEF Init, TypeOK
  <1> QED BY <1>1, TypeStep, PTL DEF Spec

--------------------------------------------------------------------------------
(* The bound on the history *)

(* undo, redo and the record in hand never exceed GATE_DEPTH together, although
   undo() and redo() push without draining. *)
THEOREM HistoryStaysBounded == Spec => []HistoryBounded
  <1>1. Init => HistoryBounded
    BY EmptySeq, DepthAssumption DEF Init, HistoryBounded, Restoring
  <1>2. TypeOK /\ HistoryBounded /\ [Next]_vars => HistoryBounded'
    <2> SUFFICES ASSUME TypeOK, HistoryBounded, [Next]_vars PROVE HistoryBounded'
      OBVIOUS
    <2>0. Len(undo) \in Nat /\ Len(redo) \in Nat /\ GateDepth \in Nat /\ Len(<<>>) = 0
      BY LenProperties, EmptySeq, DepthAssumption DEF TypeOK
    <2> USE <2>0 DEF HistoryBounded, Restoring
    <2>1. CASE UNCHANGED <<undo, redo, holder>>
      BY <2>1
    <2>2. CASE UNCHANGED <<undo, redo>> /\ holder' \in {"none", "apply"}
      BY <2>2
    <2>3. CASE FinishApply
      <3> DEFINE r == [cur EXCEPT !.after = Snapshot(cur.files), !.at = drift]
      <3>1. r \in Record
        BY RecordFacts DEF TypeOK, Record
      <3>2. Len(Drained(Append(undo, r))) <= GateDepth
            /\ Len(Drained(Append(undo, r))) \in Nat
        <4> HIDE DEF r
        <4> QED BY <3>1, PushFacts, DrainFacts, LenProperties DEF TypeOK
      <3>3. undo' = Drained(Append(undo, r)) /\ redo' = <<>> /\ holder' = "none"
        BY <2>3 DEF FinishApply, Release
      <3> HIDE DEF r
      <3> QED BY <3>2, <3>3
    <2>4. CASE BeginUndo
      BY <2>4, PopFacts DEF BeginUndo, Take, Free, TypeOK
    <2>5. CASE BeginRedo
      BY <2>5, PopFacts DEF BeginRedo, Take, Free, TypeOK
    <2>6. CASE FinishUndo
      BY <2>6, PushFacts DEF FinishUndo, Release, TypeOK
    <2>7. CASE FinishRedo
      BY <2>7, PushFacts DEF FinishRedo, Release, TypeOK
    <2> QED
      BY <2>1, <2>2, <2>3, <2>4, <2>5, <2>6, <2>7
      DEF Next, Gate, Faults, Outside, CanvasGesture, McpGesture, McpMove, vars, stacks, local,
          UngatedWrite, RefreshToken, BeginApply, Take, Release, TakeBefore, WriteFile,
          WriterFails, WriterPanics, CheckFile, Discard, WriteBack, RemoveIgnored, RestoreFails
  <1> QED BY <1>1, <1>2, TypeCorrect, PTL DEF Spec

--------------------------------------------------------------------------------
(* Chains under push, pop and drain *)

LEMMA TopPush ==
    ASSUME NEW s \in Seq(Record), NEW r \in Record, NEW i, NEW f,
           IsTop(Append(s, r), i, f)
    PROVE  \/ i = Len(s) + 1 /\ f \in r.files
           \/ IsTop(s, i, f) /\ f \notin r.files
  BY PushFacts DEF IsTop

LEMMA NextPush ==
    ASSUME NEW s \in Seq(Record), NEW r \in Record, NEW i, NEW j, NEW f,
           IsNext(Append(s, r), i, j, f)
    PROVE  \/ IsNext(s, i, j, f)
           \/ j = Len(s) + 1 /\ IsTop(s, i, f) /\ f \in r.files
  BY PushFacts DEF IsTop, IsNext

LEMMA PopIndices ==
    ASSUME NEW s \in Seq(Record), s # <<>>
    PROVE  /\ Len(s) \in 1..Len(s) /\ s[Len(s)] = Newest(s)
           /\ \A k \in 1..Len(Older(s)) :
                k \in 1..Len(s) /\ k < Len(s) /\ Older(s)[k] = s[k]
           /\ \A k \in 1..Len(s) : k = Len(s) \/ k \in 1..Len(Older(s))
  BY PopFacts DEF Newest

LEMMA TopPop ==
    ASSUME NEW s \in Seq(Record), s # <<>>, NEW i, NEW f, IsTop(Older(s), i, f)
    PROVE  \/ IsNext(s, i, Len(s), f) /\ f \in Newest(s).files
           \/ IsTop(s, i, f) /\ f \notin Newest(s).files
  <1>1. i \in 1..Len(s) /\ i < Len(s) /\ f \in s[i].files
    BY PopIndices DEF IsTop
  <1>2. \A k \in 1..Len(s) : k > i => k = Len(s) \/ f \notin s[k].files
    BY PopIndices DEF IsTop
  <1>3. CASE f \in Newest(s).files
    <2>1. \A k \in 1..Len(s) : i < k /\ k < Len(s) => f \notin s[k].files
      BY <1>2
    <2> QED BY <1>1, <1>3, <2>1, PopIndices DEF IsNext
  <1>4. CASE f \notin Newest(s).files
    <2>1. \A k \in 1..Len(s) : k > i => f \notin s[k].files
      BY <1>2, <1>4, PopIndices
    <2> QED BY <1>1, <1>4, <2>1 DEF IsTop
  <1> QED BY <1>3, <1>4

LEMMA NextPop ==
    ASSUME NEW s \in Seq(Record), s # <<>>, NEW i, NEW j, NEW f, IsNext(Older(s), i, j, f)
    PROVE  IsNext(s, i, j, f)
  <1>1. /\ i \in 1..Len(s) /\ j \in 1..Len(s) /\ i < j /\ j < Len(s)
        /\ f \in s[i].files /\ f \in s[j].files
    BY PopIndices DEF IsNext
  <1>2. \A k \in 1..Len(s) : i < k /\ k < j => k \in 1..Len(Older(s))
    BY <1>1, PopIndices, PopFacts
  <1>3. \A k \in 1..Len(s) : i < k /\ k < j => f \notin s[k].files
    BY <1>2, PopIndices DEF IsNext
  <1> QED BY <1>1, <1>3 DEF IsNext

LEMMA NewestIsTop ==
    ASSUME NEW s \in Seq(Record), s # <<>>, NEW f \in Newest(s).files
    PROVE  IsTop(s, Len(s), f)
  BY PopFacts DEF IsTop, Newest

(* Draining renumbers the entries and leaves the top of every chain in place. *)
LEMMA DrainKeepsChains ==
    ASSUME NEW s \in Seq(Record)
    PROVE  \E d \in Nat :
             /\ \A i \in 1..Len(Drained(s)) : i + d \in 1..Len(s) /\ Drained(s)[i] = s[i + d]
             /\ \A i, f : IsTop(Drained(s), i, f) => IsTop(s, i + d, f)
             /\ \A i, j, f : IsNext(Drained(s), i, j, f) => IsNext(s, i + d, j + d, f)
  <1>1. PICK d \in Nat : /\ Len(s) = Len(Drained(s)) + d
                         /\ \A i \in 1..Len(Drained(s)) : Drained(s)[i] = s[i + d]
    BY DrainFacts
  <1>2. Len(s) \in Nat /\ Len(Drained(s)) \in Nat
    BY DrainFacts, LenProperties
  <1>3. \A i \in 1..Len(Drained(s)) : i + d \in 1..Len(s) /\ Drained(s)[i] = s[i + d]
    BY <1>1, <1>2
  <1>4. \A k \in 1..Len(s) : k > d =>
           k - d \in 1..Len(Drained(s)) /\ s[k] = Drained(s)[k - d]
    <2>1. \A k \in 1..Len(s) : k > d => k - d \in 1..Len(Drained(s)) /\ (k - d) + d = k
      BY <1>1, <1>2
    <2> QED BY <1>1, <2>1
  <1>5. ASSUME NEW i, NEW f, IsTop(Drained(s), i, f) PROVE IsTop(s, i + d, f)
    <2>1. i \in 1..Len(Drained(s)) /\ i + d \in 1..Len(s) /\ f \in s[i + d].files
      BY <1>3, <1>5 DEF IsTop
    <2>2. ASSUME NEW k \in 1..Len(s), k > i + d PROVE f \notin s[k].files
      <3>1. k > d /\ k - d > i
        BY <2>1, <2>2, <1>2
      <3> QED BY <3>1, <1>4, <1>5 DEF IsTop
    <2> QED BY <2>1, <2>2 DEF IsTop
  <1>6. ASSUME NEW i, NEW j, NEW f, IsNext(Drained(s), i, j, f)
        PROVE  IsNext(s, i + d, j + d, f)
    <2>1. /\ i \in 1..Len(Drained(s)) /\ i + d \in 1..Len(s) /\ f \in s[i + d].files
          /\ j \in 1..Len(Drained(s)) /\ j + d \in 1..Len(s) /\ f \in s[j + d].files
          /\ i + d < j + d
      BY <1>3, <1>6 DEF IsNext
    <2>2. ASSUME NEW k \in 1..Len(s), i + d < k, k < j + d PROVE f \notin s[k].files
      <3>1. k > d /\ i < k - d /\ k - d < j
        BY <2>1, <2>2, <1>2
      <3> QED BY <3>1, <1>4, <1>6 DEF IsNext
    <2> QED BY <2>1, <2>2 DEF IsNext
  <1> QED BY <1>3, <1>5, <1>6

--------------------------------------------------------------------------------
(* The linked history is inductive: operations that leave the stacks alone *)

LEMMA EntryTyped ==
    ASSUME NEW s \in Seq(Record), NEW i \in 1..Len(s)
    PROVE  /\ s[i] \in Record /\ s[i].files \in SUBSET Files
           /\ s[i].at \in [Files -> Nat]
           /\ s[i].before \in [Files -> Bytes] /\ s[i].after \in [Files -> Bytes]
  <1>1. s[i] \in Record
    BY ElementOfSeq
  <1> QED BY <1>1 DEF Record

(* What a longer drift and unchanged stacks keep. *)
LEMMA FrameStacks ==
    ASSUME TypeOK, Stamped(undo), Stamped(redo), UndoLinked, RedoLinked,
           UNCHANGED stacks, drift' \in [Files -> Nat], \A f \in Files : drift[f] <= drift'[f]
    PROVE  Stamped(undo)' /\ Stamped(redo)' /\ UndoLinked' /\ RedoLinked'
  <1>1. undo' = undo /\ redo' = redo
    BY DEF stacks
  <1>2. UndoLinked' /\ RedoLinked'
    BY <1>1 DEF UndoLinked, RedoLinked, IsNext
  <1>3. ASSUME NEW s \in Seq(Record), Stamped(s), NEW i \in 1..Len(s), NEW f \in Files,
               f \in s[i].files
        PROVE  s[i].at[f] <= drift'[f]
    <2>1. s[i].at[f] <= drift[f]
      BY <1>3 DEF Stamped
    <2>2. s[i].at[f] \in Nat
      BY EntryTyped
    <2>3. drift[f] \in Nat /\ drift'[f] \in Nat /\ drift[f] <= drift'[f]
      BY DEF TypeOK
    <2> QED BY <2>1, <2>2, <2>3
  <1>4. Stamped(undo)'
    BY <1>1, <1>3 DEF Stamped, TypeOK
  <1>5. Stamped(redo)'
    BY <1>1, <1>3 DEF Stamped, TypeOK
  <1> QED BY <1>2, <1>4, <1>5

LEMMA ForgetGrows ==
    ASSUME TypeOK, NEW T, Forget(T)
    PROVE  /\ drift' \in [Files -> Nat]
           /\ \A f \in Files : /\ drift[f] <= drift'[f]
                               /\ f \in T => drift[f] < drift'[f]
                               /\ f \notin T => drift'[f] = drift[f]
  BY DEF Forget, TypeOK

LEMMA UngatedWriteKeepsHistory ==
    ASSUME TypeOK, HistoryLinked, NEW f \in Files, NEW c \in Bytes, UngatedWrite(f, c)
    PROVE  HistoryLinked'
  <1> USE DEF HistoryLinked
  <1>1. /\ UNCHANGED <<undo, redo, holder, phase, cur, todo, wrote>>
        /\ Forget({f})
        /\ disk' = [disk EXCEPT ![f] = c]
        /\ raced' = IF f \in Verified THEN raced \union {f} ELSE raced
    BY DEF UngatedWrite, stacks, local
  <1>2. /\ drift' \in [Files -> Nat] /\ drift[f] < drift'[f]
        /\ \A g \in Files : drift[g] <= drift'[g]
        /\ \A g \in Files \ {f} : drift'[g] = drift[g] /\ disk'[g] = disk[g]
    BY <1>1, ForgetGrows DEF TypeOK
  <1>3. Progress'
    BY <1>1 DEF Progress, TypeOK
  <1>4. Stamped(undo)' /\ Stamped(redo)' /\ UndoLinked' /\ RedoLinked'
    BY <1>1, <1>2, FrameStacks DEF stacks
  <1>5. UndoHooked'
    <2> SUFFICES ASSUME NEW i \in 1..Len(undo), NEW g \in Files \ UndoAhead,
                        IsTop(undo, i, g), undo[i].at[g] = drift'[g]
                 PROVE  undo[i].after[g] = disk'[g]
      BY <1>1 DEF UndoHooked, UndoAhead, IsTop
    <2>1. undo[i].at[g] <= drift[g] /\ undo[i].at[g] \in Nat
      BY EntryTyped DEF Stamped, IsTop, TypeOK
    <2>2. g # f
      BY <1>2, <2>1 DEF TypeOK
    <2> QED BY <1>2, <2>2 DEF UndoHooked
  <1>6. RedoHooked'
    <2> SUFFICES ASSUME NEW i \in 1..Len(redo), NEW g \in Files \ RedoAhead,
                        IsTop(redo, i, g), redo[i].at[g] = drift'[g]
                 PROVE  redo[i].before[g] = disk'[g]
      BY <1>1 DEF RedoHooked, RedoAhead, IsTop
    <2>1. redo[i].at[g] <= drift[g] /\ redo[i].at[g] \in Nat
      BY EntryTyped DEF Stamped, IsTop, TypeOK
    <2>2. g # f
      BY <1>2, <2>1 DEF TypeOK
    <2> QED BY <1>2, <2>2 DEF RedoHooked
  <1>7. InApply' /\ InUndo' /\ InRedo'
    BY <1>1 DEF InApply, InUndo, InRedo, Below, CurOnUndo, CurOnRedo, IsTop, Compared,
                Verified, Restoring
  <1>8. CurFaces'
    <2>1. cur.files \in SUBSET Files /\ cur.at \in [Files -> Nat]
      BY DEF TypeOK, Record
    <2>2. \A g \in cur.files : cur.at[g] <= drift'[g] /\ (cur.at[g] = drift'[g] => g # f)
      BY <1>2, <2>1 DEF CurFaces, TypeOK
    <2>3. wrote \subseteq cur.files
      BY DEF Progress
    <2> QED BY <1>1, <1>2, <2>1, <2>2, <2>3 DEF CurFaces, Restoring, Expected, Target
  <1>9. Window'
    <2> SUFFICES ASSUME NEW g \in Verified PROVE disk'[g] = Expected(g) \/ g \in raced'
      BY <1>1 DEF Window, Verified, Expected, Restoring
    <2>1. g \in Files
      BY DEF Verified, TypeOK, Record
    <2> QED BY <1>1, <1>2, <2>1 DEF Window
  <1> QED BY <1>3, <1>4, <1>5, <1>6, <1>7, <1>8, <1>9

(* The parts of the invariant a step keeps when it changes none of their variables *)
LEMMA FrameHooks ==
    ASSUME HistoryLinked, UNCHANGED <<undo, redo, disk, drift>>,
           UndoAhead \subseteq UndoAhead', RedoAhead \subseteq RedoAhead'
    PROVE  /\ Stamped(undo)' /\ Stamped(redo)' /\ UndoLinked' /\ RedoLinked'
           /\ UndoHooked' /\ RedoHooked'
  <1>1. Stamped(undo)' /\ Stamped(redo)' /\ UndoLinked' /\ RedoLinked'
    BY DEF HistoryLinked, Stamped, UndoLinked, RedoLinked, IsNext
  <1>2. UndoHooked'
    BY DEF HistoryLinked, UndoHooked, IsTop
  <1>3. RedoHooked'
    BY DEF HistoryLinked, RedoHooked, IsTop
  <1> QED BY <1>1, <1>2, <1>3

LEMMA RefreshTokenKeepsHistory ==
    ASSUME TypeOK, HistoryLinked, RefreshToken
    PROVE  HistoryLinked'
  <1>1. UNCHANGED <<disk, undo, redo, holder, phase, cur, todo, wrote, drift, raced>>
    BY DEF RefreshToken, stacks, local
  <1>2. Stamped(undo)' /\ Stamped(redo)' /\ UndoLinked' /\ RedoLinked' /\ UndoHooked' /\ RedoHooked'
    BY <1>1, FrameHooks DEF UndoAhead, RedoAhead
  <1> QED
    BY <1>1, <1>2 DEF HistoryLinked, Progress, InApply, InUndo, InRedo, Below, CurOnUndo,
       CurOnRedo, IsTop, Compared, Verified, Restoring, CurFaces, Window, Expected, Target

(* An operation that is over leaves no record in hand. *)
LEMMA NothingInHand ==
    ASSUME TypeOK, Release, drift' \in [Files -> Nat]
    PROVE  /\ Progress' /\ InApply' /\ InUndo' /\ InRedo' /\ CurFaces' /\ Window'
           /\ UndoAhead' = {} /\ RedoAhead' = {}
  BY DEF Release, Progress, InApply, InUndo, InRedo, CurFaces, Window, UndoAhead, RedoAhead,
         Restoring, Verified, NoRecord

LEMMA BeginApplyKeepsHistory ==
    ASSUME TypeOK, HistoryLinked, NEW by \in Drivers, NEW T \in SUBSET Files, NEW g \in BOOLEAN,
           BeginApply(by, T, g)
    PROVE  HistoryLinked'
  <1>1. /\ UNCHANGED <<disk, undo, redo, drift>>
        /\ holder = "none" /\ holder' = "apply" /\ phase' = "check"
        /\ todo' = T /\ wrote' = {} /\ raced' = {}
        /\ cur' = [NoRecord EXCEPT !.by = by, !.files = T]
    BY DEF BeginApply, Take, Free, stacks
  <1>2. cur'.files = T /\ cur'.at = NoDrift
    BY <1>1 DEF NoRecord
  <1>3. wrote = {}
    BY <1>1 DEF HistoryLinked, Progress
  <1>4. Stamped(undo)' /\ Stamped(redo)' /\ UndoLinked' /\ RedoLinked' /\ UndoHooked' /\ RedoHooked'
    BY <1>1, <1>3, FrameHooks DEF UndoAhead, RedoAhead
  <1>5. CurFaces'
    BY <1>1, <1>2 DEF CurFaces, Restoring, NoDrift, TypeOK
  <1> QED
    BY <1>1, <1>2, <1>4, <1>5
    DEF HistoryLinked, Progress, InApply, InUndo, InRedo, Verified, Restoring, Window

LEMMA TakeBeforeKeepsHistory ==
    ASSUME TypeOK, HistoryLinked, TakeBefore
    PROVE  HistoryLinked'
  <1>1. /\ UNCHANGED <<disk, undo, redo, drift, holder, todo, wrote, raced>>
        /\ holder = "apply" /\ phase = "check" /\ phase' = "write"
        /\ cur' = [cur EXCEPT !.before = Snapshot(cur.files), !.at = drift]
    BY DEF TakeBefore, stacks
  <1>2. /\ cur'.files = cur.files /\ cur'.at = drift
        /\ cur'.before = Snapshot(cur.files)
        /\ cur.files \in SUBSET Files
    BY <1>1 DEF TypeOK, Record
  <1>3. wrote = {}
    BY <1>1 DEF HistoryLinked, Progress
  <1>4. Stamped(undo)' /\ Stamped(redo)' /\ UndoLinked' /\ RedoLinked' /\ UndoHooked' /\ RedoHooked'
    BY <1>1, <1>3, FrameHooks DEF UndoAhead, RedoAhead
  <1>5. InApply'
    <2>1. Below(undo, cur.files)'
      BY <1>1, <1>2 DEF HistoryLinked, Below, Stamped
    <2>2. CurOnUndo(cur.files)'
      <3> SUFFICES ASSUME NEW i \in 1..Len(undo), NEW f \in cur.files, IsTop(undo, i, f),
                          undo[i].at[f] = drift[f]
                   PROVE  undo[i].after[f] = Snapshot(cur.files)[f]
        BY <1>1, <1>2 DEF CurOnUndo, IsTop
      <3>1. undo[i].after[f] = disk[f]
        BY <1>1, <1>2, <1>3 DEF HistoryLinked, UndoHooked, UndoAhead
      <3> QED BY <1>2, <3>1 DEF Snapshot
    <2> QED BY <2>1, <2>2 DEF InApply
  <1>6. CurFaces'
    BY <1>1, <1>2 DEF CurFaces, Restoring, TypeOK
  <1>7. Progress'
    BY <1>1, <1>2, <1>3 DEF HistoryLinked, Progress, TypeOK
  <1> QED
    BY <1>1, <1>4, <1>5, <1>6, <1>7 DEF HistoryLinked, InUndo, InRedo, Verified, Restoring, Window

LEMMA WriteFileKeepsHistory ==
    ASSUME TypeOK, HistoryLinked, NEW f \in Files, NEW c \in Content, WriteFile(f, c)
    PROVE  HistoryLinked'
  <1>1. /\ UNCHANGED <<undo, redo, drift, holder, phase, cur, raced>>
        /\ holder = "apply" /\ phase = "write" /\ f \in todo
        /\ disk' = [disk EXCEPT ![f] = c]
        /\ todo' = todo \ {f} /\ wrote' = wrote \union {f}
    BY DEF WriteFile, stacks
  <1>2. \A g \in Files \ {f} : disk'[g] = disk[g]
    BY <1>1 DEF TypeOK
  <1>3. Progress'
    BY <1>1 DEF HistoryLinked, Progress
  <1>4. Stamped(undo)' /\ Stamped(redo)' /\ UndoLinked' /\ RedoLinked'
    BY <1>1, FrameStacks DEF HistoryLinked, stacks, TypeOK
  <1>5. UndoHooked'
    BY <1>1, <1>2 DEF HistoryLinked, UndoHooked, UndoAhead, IsTop
  <1>6. RedoHooked'
    BY <1>1, <1>2 DEF HistoryLinked, RedoHooked, RedoAhead, IsTop
  <1>7. InApply'
    BY <1>1 DEF HistoryLinked, InApply, Below, CurOnUndo, IsTop
  <1>8. CurFaces'
    BY <1>1 DEF HistoryLinked, CurFaces, Restoring
  <1> QED
    BY <1>1, <1>3, <1>4, <1>5, <1>6, <1>7, <1>8
    DEF HistoryLinked, InUndo, InRedo, Verified, Restoring, Window

(* An operation that ends without a record: what it left behind is forgotten. *)
LEMMA AbandonKeepsHistory ==
    ASSUME TypeOK, HistoryLinked, NEW T, Release, Forget(T),
           UndoAhead \subseteq T, RedoAhead \subseteq T, UNCHANGED <<disk, undo, redo>>
    PROVE  HistoryLinked'
  <1>1. /\ drift' \in [Files -> Nat]
        /\ \A f \in Files : drift[f] <= drift'[f]
        /\ \A f \in Files : f \in T => drift[f] < drift'[f]
        /\ \A f \in Files : f \notin T => drift'[f] = drift[f]
    BY ForgetGrows
  <1>2. /\ Progress' /\ InApply' /\ InUndo' /\ InRedo' /\ CurFaces' /\ Window'
        /\ UndoAhead' = {} /\ RedoAhead' = {}
    BY <1>1, NothingInHand
  <1>3. Stamped(undo)' /\ Stamped(redo)' /\ UndoLinked' /\ RedoLinked'
    BY <1>1, FrameStacks DEF HistoryLinked, stacks
  <1>4. UndoHooked'
    <2> SUFFICES ASSUME NEW i \in 1..Len(undo), NEW f \in Files,
                        IsTop(undo, i, f), undo[i].at[f] = drift'[f]
                 PROVE  undo[i].after[f] = disk[f]
      BY DEF UndoHooked, IsTop
    <2>1. undo[i].at[f] <= drift[f] /\ undo[i].at[f] \in Nat
      BY EntryTyped DEF HistoryLinked, Stamped, IsTop, TypeOK
    <2>2. f \notin T
      BY <1>1, <2>1 DEF TypeOK
    <2> QED BY <1>1, <2>2 DEF HistoryLinked, UndoHooked
  <1>5. RedoHooked'
    <2> SUFFICES ASSUME NEW i \in 1..Len(redo), NEW f \in Files,
                        IsTop(redo, i, f), redo[i].at[f] = drift'[f]
                 PROVE  redo[i].before[f] = disk[f]
      BY DEF RedoHooked, IsTop
    <2>1. redo[i].at[f] <= drift[f] /\ redo[i].at[f] \in Nat
      BY EntryTyped DEF HistoryLinked, Stamped, IsTop, TypeOK
    <2>2. f \notin T
      BY <1>1, <2>1 DEF TypeOK
    <2> QED BY <1>1, <2>2 DEF HistoryLinked, RedoHooked
  <1> QED BY <1>2, <1>3, <1>4, <1>5 DEF HistoryLinked

LEMMA WriterFailsKeepsHistory ==
    ASSUME TypeOK, HistoryLinked, WriterFails
    PROVE  HistoryLinked'
  <1>1. UndoAhead = wrote /\ RedoAhead = wrote
    BY DEF WriterFails, UndoAhead, RedoAhead
  <1> QED BY <1>1, AbandonKeepsHistory DEF WriterFails, stacks

LEMMA WriterPanicsKeepsHistory ==
    ASSUME TypeOK, HistoryLinked, WriterPanics
    PROVE  HistoryLinked'
  <1>1. UndoAhead = {} /\ RedoAhead = {}
    BY DEF WriterPanics, UndoAhead, RedoAhead
  <1>2. /\ Progress' /\ InApply' /\ InUndo' /\ InRedo' /\ CurFaces' /\ Window'
        /\ UndoAhead' = {} /\ RedoAhead' = {}
    BY NothingInHand DEF WriterPanics, TypeOK
  <1>3. Stamped(undo)' /\ Stamped(redo)' /\ UndoLinked' /\ RedoLinked' /\ UndoHooked' /\ RedoHooked'
    BY <1>1, <1>2, FrameHooks DEF WriterPanics, stacks
  <1> QED BY <1>2, <1>3 DEF HistoryLinked

LEMMA DiscardKeepsHistory ==
    ASSUME TypeOK, HistoryLinked, Discard
    PROVE  HistoryLinked'
  <1>1. UndoAhead \subseteq cur.files /\ RedoAhead \subseteq cur.files
    BY DEF HistoryLinked, Progress, UndoAhead, RedoAhead
  <1> QED BY <1>1, AbandonKeepsHistory DEF Discard, stacks

LEMMA RestoreFailsKeepsHistory ==
    ASSUME TypeOK, HistoryLinked, RestoreFails
    PROVE  HistoryLinked'
  <1>1. UndoAhead \subseteq cur.files /\ RedoAhead \subseteq cur.files
    BY DEF HistoryLinked, Progress, UndoAhead, RedoAhead
  <1> QED BY <1>1, AbandonKeepsHistory DEF RestoreFails, stacks

(* Stamping the record in hand with the present drift keeps its place in a chain. *)
LEMMA StampedCur ==
    ASSUME TypeOK, NEW f \in Files
    PROVE  LET c == [cur EXCEPT !.at[f] = drift[f]]
           IN  /\ c.files = cur.files /\ c.before = cur.before /\ c.after = cur.after
               /\ c.at = [cur.at EXCEPT ![f] = drift[f]]
               /\ c.at \in [Files -> Nat] /\ c.at[f] = drift[f]
               /\ \A g \in Files \ {f} : c.at[g] = cur.at[g]
               /\ cur.files \in SUBSET Files /\ cur.at \in [Files -> Nat]
  BY DEF TypeOK, Record

LEMMA RestampBelow ==
    ASSUME TypeOK, NEW s \in Seq(Record), Stamped(s), NEW T \in SUBSET Files, NEW f \in Files,
           Below(s, T \ {f}), cur' = [cur EXCEPT !.at[f] = drift[f]]
    PROVE  \A i \in 1..Len(s), g \in T : g \in s[i].files => s[i].at[g] <= cur'.at[g]
  <1> SUFFICES ASSUME NEW i \in 1..Len(s), NEW g \in T, g \in s[i].files
               PROVE  s[i].at[g] <= cur'.at[g]
    OBVIOUS
  <1>1. CASE g = f
    BY <1>1, StampedCur DEF Stamped
  <1>2. CASE g # f
    BY <1>2, StampedCur DEF Below
  <1> QED BY <1>1, <1>2

(* ... for if an entry below has the new stamp, it had the old one as well. *)
LEMMA RestampEqual ==
    ASSUME TypeOK, NEW s \in Seq(Record), NEW T \in SUBSET Files, NEW f \in Files,
           Below(s, T), \A g \in T : cur.at[g] <= drift[g],
           cur' = [cur EXCEPT !.at[f] = drift[f]],
           NEW i \in 1..Len(s), NEW g \in T, g \in s[i].files, Stamped(s),
           s[i].at[g] = cur'.at[g]
    PROVE  s[i].at[g] = cur.at[g]
  <1>1. CASE g = f
    <2>1. s[i].at[f] <= cur.at[f] /\ cur.at[f] <= drift[f] /\ s[i].at[f] = drift[f]
      BY <1>1, StampedCur DEF Below
    <2>2. s[i].at[f] \in Nat /\ cur.at[f] \in Nat /\ drift[f] \in Nat
      BY EntryTyped, StampedCur DEF TypeOK
    <2> QED BY <1>1, <2>1, <2>2
  <1>2. CASE g # f
    BY <1>2, StampedCur
  <1> QED BY <1>1, <1>2

LEMMA CheckFileKeepsHistory ==
    ASSUME TypeOK, HistoryLinked, NEW f \in Files, CheckFile(f)
    PROVE  HistoryLinked'
  <1> USE DEF HistoryLinked
  <1>1. /\ UNCHANGED <<disk, undo, redo, holder, wrote, drift, raced>>
        /\ Restoring /\ phase = "check" /\ f \in todo /\ disk[f] = Expected(f)
        /\ cur' = [cur EXCEPT !.at[f] = drift[f]]
        /\ IF todo = {f} THEN phase' = "write" /\ todo' = cur.files
                         ELSE phase' = phase /\ todo' = todo \ {f}
    BY DEF CheckFile, stacks
  <1>2. wrote = {} /\ todo \subseteq cur.files /\ f \in cur.files
    BY <1>1 DEF Progress
  <1>3. /\ cur'.files = cur.files /\ cur'.before = cur.before /\ cur'.after = cur.after
        /\ cur'.at[f] = drift[f] /\ \A g \in Files \ {f} : cur'.at[g] = cur.at[g]
        /\ cur.files \in SUBSET Files
    BY <1>1, StampedCur
  <1>4. Progress'
    BY <1>1, <1>2, <1>3 DEF Progress, Restoring
  <1>5. Stamped(undo)' /\ Stamped(redo)' /\ UndoLinked' /\ RedoLinked' /\ UndoHooked' /\ RedoHooked'
    BY <1>1, <1>3, FrameHooks DEF UndoAhead, RedoAhead
  <1>6. Compared = cur.files \ todo /\ Compared' = Compared \union {f}
        /\ Compared' \in SUBSET Files
    BY <1>1, <1>2, <1>3 DEF Compared, Verified, Restoring
  <1>7. \A g \in cur.files : cur.at[g] <= drift[g]
    BY DEF CurFaces
  <1>8. InUndo'
    <2> SUFFICES ASSUME holder = "undo"
                 PROVE  /\ Below(undo, cur.files)' /\ CurOnUndo(cur.files)'
                        /\ Below(redo, Compared)' /\ CurOnRedo(Compared)'
      BY <1>1 DEF InUndo
    <2>1. Below(undo, cur.files)'
      <3>1. undo \in Seq(Record) /\ Stamped(undo) /\ Below(undo, cur.files \ {f})
        BY DEF InUndo, Below, TypeOK
      <3>2. \A i \in 1..Len(undo), g \in cur.files :
               g \in undo[i].files => undo[i].at[g] <= cur'.at[g]
        <4> HIDE DEF HistoryLinked
        <4> QED BY <1>1, <1>3, <3>1, RestampBelow
      <3> QED BY <1>1, <1>3, <3>2 DEF Below
    <2>2. CurOnUndo(cur.files)'
      <3> SUFFICES ASSUME NEW i \in 1..Len(undo), NEW g \in cur.files, IsTop(undo, i, g),
                          undo[i].at[g] = cur'.at[g]
                   PROVE  undo[i].after[g] = cur.before[g]
        BY <1>1, <1>3 DEF CurOnUndo, IsTop
      <3>0. /\ undo \in Seq(Record) /\ Below(undo, cur.files) /\ Stamped(undo)
            /\ i \in 1..Len(undo) /\ g \in undo[i].files
        BY DEF InUndo, IsTop, TypeOK
      <3>1. undo[i].at[g] = cur.at[g]
        <4> HIDE DEF HistoryLinked
        <4> QED BY <1>1, <1>3, <1>7, <3>0, RestampEqual
      <3>2. CurOnUndo(cur.files)
        BY DEF InUndo
      <3>3. g \in cur.files /\ IsTop(undo, i, g)
        OBVIOUS
      <3> HIDE DEF HistoryLinked
      <3> QED BY <3>0, <3>1, <3>2, <3>3 DEF CurOnUndo
    <2>3. Below(redo, Compared)'
      <3>1. Below(redo, Compared' \ {f})
        BY <1>6 DEF InUndo, Below
      <3> QED BY <1>1, <1>6, <3>1, RestampBelow DEF Below, TypeOK
    <2>4. CurOnRedo(Compared)'
      <3> SUFFICES ASSUME NEW i \in 1..Len(redo), NEW g \in Compared', IsTop(redo, i, g),
                          redo[i].at[g] = cur'.at[g]
                   PROVE  redo[i].before[g] = cur.after[g]
        BY <1>1, <1>3 DEF CurOnRedo, IsTop
      <3>1. CASE g = f
        <4>1. redo[i].before[f] = disk[f]
          BY <1>1, <1>2, <1>3, <3>1 DEF RedoHooked, RedoAhead
        <4> QED BY <1>1, <3>1, <4>1 DEF Expected
      <3>2. CASE g # f
        BY <1>3, <1>6, <3>2 DEF InUndo, CurOnRedo
      <3> QED BY <3>1, <3>2
    <2> QED BY <2>1, <2>2, <2>3, <2>4
  <1>9. InRedo'
    <2> SUFFICES ASSUME holder = "redo"
                 PROVE  /\ Below(redo, cur.files)' /\ CurOnRedo(cur.files)'
                        /\ Below(undo, Compared)' /\ CurOnUndo(Compared)'
      BY <1>1 DEF InRedo
    <2>1. Below(redo, cur.files)'
      <3>1. redo \in Seq(Record) /\ Stamped(redo) /\ Below(redo, cur.files \ {f})
        BY DEF InRedo, Below, TypeOK
      <3>2. \A i \in 1..Len(redo), g \in cur.files :
               g \in redo[i].files => redo[i].at[g] <= cur'.at[g]
        <4> HIDE DEF HistoryLinked
        <4> QED BY <1>1, <1>3, <3>1, RestampBelow
      <3> QED BY <1>1, <1>3, <3>2 DEF Below
    <2>2. CurOnRedo(cur.files)'
      <3> SUFFICES ASSUME NEW i \in 1..Len(redo), NEW g \in cur.files, IsTop(redo, i, g),
                          redo[i].at[g] = cur'.at[g]
                   PROVE  redo[i].before[g] = cur.after[g]
        BY <1>1, <1>3 DEF CurOnRedo, IsTop
      <3>0. /\ redo \in Seq(Record) /\ Below(redo, cur.files) /\ Stamped(redo)
            /\ i \in 1..Len(redo) /\ g \in redo[i].files
        BY DEF InRedo, IsTop, TypeOK
      <3>1. redo[i].at[g] = cur.at[g]
        <4> HIDE DEF HistoryLinked
        <4> QED BY <1>1, <1>3, <1>7, <3>0, RestampEqual
      <3> QED BY <3>1 DEF InRedo, CurOnRedo
    <2>3. Below(undo, Compared)'
      <3>1. Below(undo, Compared' \ {f})
        BY <1>6 DEF InRedo, Below
      <3> QED BY <1>1, <1>6, <3>1, RestampBelow DEF Below, TypeOK
    <2>4. CurOnUndo(Compared)'
      <3> SUFFICES ASSUME NEW i \in 1..Len(undo), NEW g \in Compared', IsTop(undo, i, g),
                          undo[i].at[g] = cur'.at[g]
                   PROVE  undo[i].after[g] = cur.before[g]
        BY <1>1, <1>3 DEF CurOnUndo, IsTop
      <3>1. CASE g = f
        <4>1. undo[i].after[f] = disk[f]
          BY <1>1, <1>2, <1>3, <3>1 DEF UndoHooked, UndoAhead
        <4> QED BY <1>1, <3>1, <4>1 DEF Expected, Restoring
      <3>2. CASE g # f
        BY <1>3, <1>6, <3>2 DEF InRedo, CurOnUndo
      <3> QED BY <3>1, <3>2
    <2> QED BY <2>1, <2>2, <2>3, <2>4
  <1>10. CurFaces'
    BY <1>1, <1>2, <1>3 DEF CurFaces, Restoring, Expected, Target, TypeOK
  <1>11. Window'
    <2>1. Verified' = Verified \union {f}
      BY <1>1, <1>2, <1>3 DEF Verified, Restoring
    <2> QED BY <1>1, <1>3, <2>1 DEF Window, Expected
  <1>12. InApply'
    BY <1>1 DEF InApply, Restoring
  <1> QED BY <1>4, <1>5, <1>8, <1>9, <1>10, <1>11, <1>12

LEMMA WriteBackKeepsHistory ==
    ASSUME TypeOK, HistoryLinked, NEW f \in Files, WriteBack(f)
    PROVE  HistoryLinked'
  <1>1. /\ UNCHANGED <<undo, redo, holder, phase, drift, raced>>
        /\ Restoring /\ phase = "write" /\ f \in todo
        /\ disk' = [disk EXCEPT ![f] = Target(f)]
        /\ cur' = [cur EXCEPT !.at[f] = drift[f]]
        /\ todo' = todo \ {f} /\ wrote' = wrote \union {f}
    BY DEF WriteBack, stacks
  <1>2. todo = cur.files \ wrote /\ wrote \subseteq cur.files /\ f \in cur.files
    BY <1>1 DEF HistoryLinked, Progress
  <1>3. /\ cur'.files = cur.files /\ cur'.before = cur.before /\ cur'.after = cur.after
        /\ cur'.at[f] = drift[f] /\ \A g \in Files \ {f} : cur'.at[g] = cur.at[g]
        /\ cur.files \in SUBSET Files
    BY <1>1, StampedCur
  <1>4. disk'[f] = Target(f) /\ \A g \in Files \ {f} : disk'[g] = disk[g]
    BY <1>1 DEF TypeOK
  <1>5. Progress'
    BY <1>1, <1>2, <1>3 DEF HistoryLinked, Progress, Restoring
  <1>6. Compared = cur.files /\ Compared' = cur.files
    BY <1>1, <1>2, <1>3 DEF Compared, Verified, Restoring
  <1>7. \A g \in cur.files : cur.at[g] <= drift[g]
    BY DEF HistoryLinked, CurFaces
  <1>8. Stamped(undo)' /\ Stamped(redo)' /\ UndoLinked' /\ RedoLinked'
    BY <1>1, FrameStacks DEF HistoryLinked, stacks, TypeOK
  <1>9. InUndo'
    <2> SUFFICES ASSUME holder = "undo"
                 PROVE  /\ Below(undo, cur.files)' /\ CurOnUndo(cur.files)'
                        /\ Below(redo, Compared)' /\ CurOnRedo(Compared)'
      BY <1>1 DEF InUndo
    <2>0. /\ undo \in Seq(Record) /\ Stamped(undo) /\ Below(undo, cur.files)
          /\ redo \in Seq(Record) /\ Stamped(redo) /\ Below(redo, Compared)
          /\ CurOnUndo(cur.files) /\ CurOnRedo(Compared)
      BY DEF HistoryLinked, InUndo, TypeOK
    <2>1. \A i \in 1..Len(undo), g \in cur.files :
             g \in undo[i].files => undo[i].at[g] <= cur'.at[g]
      <3>1. Below(undo, cur.files \ {f})
        BY <2>0 DEF Below
      <3> QED BY <1>1, <1>3, <2>0, <3>1, RestampBelow
    <2>2. \A i \in 1..Len(redo), g \in Compared :
             g \in redo[i].files => redo[i].at[g] <= cur'.at[g]
      <3>1. Below(redo, Compared \ {f})
        BY <2>0 DEF Below
      <3> QED BY <1>1, <1>3, <1>6, <2>0, <3>1, RestampBelow
    <2>3. ASSUME NEW i \in 1..Len(undo), NEW g \in cur.files, IsTop(undo, i, g),
                 undo[i].at[g] = cur'.at[g]
          PROVE  undo[i].after[g] = cur.before[g]
      <3>1. g \in undo[i].files
        BY <2>3 DEF IsTop
      <3>2. undo[i].at[g] = cur.at[g]
        BY <1>1, <1>3, <1>7, <2>0, <2>3, <3>1, RestampEqual
      <3> QED BY <2>0, <2>3, <3>2 DEF CurOnUndo
    <2>4. ASSUME NEW i \in 1..Len(redo), NEW g \in Compared, IsTop(redo, i, g),
                 redo[i].at[g] = cur'.at[g]
          PROVE  redo[i].before[g] = cur.after[g]
      <3>1. g \in redo[i].files
        BY <2>4 DEF IsTop
      <3>2. redo[i].at[g] = cur.at[g]
        BY <1>1, <1>3, <1>6, <1>7, <2>0, <2>4, <3>1, RestampEqual
      <3> QED BY <2>0, <2>4, <3>2 DEF CurOnRedo
    <2> QED BY <1>1, <1>3, <1>6, <2>1, <2>2, <2>3, <2>4
            DEF Below, CurOnUndo, CurOnRedo, IsTop
  <1>10. InRedo'
    <2> SUFFICES ASSUME holder = "redo"
                 PROVE  /\ Below(redo, cur.files)' /\ CurOnRedo(cur.files)'
                        /\ Below(undo, Compared)' /\ CurOnUndo(Compared)'
      BY <1>1 DEF InRedo
    <2>0. /\ redo \in Seq(Record) /\ Stamped(redo) /\ Below(redo, cur.files)
          /\ undo \in Seq(Record) /\ Stamped(undo) /\ Below(undo, Compared)
          /\ CurOnRedo(cur.files) /\ CurOnUndo(Compared)
      BY DEF HistoryLinked, InRedo, TypeOK
    <2>1. \A i \in 1..Len(redo), g \in cur.files :
             g \in redo[i].files => redo[i].at[g] <= cur'.at[g]
      <3>1. Below(redo, cur.files \ {f})
        BY <2>0 DEF Below
      <3> QED BY <1>1, <1>3, <2>0, <3>1, RestampBelow
    <2>2. \A i \in 1..Len(undo), g \in Compared :
             g \in undo[i].files => undo[i].at[g] <= cur'.at[g]
      <3>1. Below(undo, Compared \ {f})
        BY <2>0 DEF Below
      <3> QED BY <1>1, <1>3, <1>6, <2>0, <3>1, RestampBelow
    <2>3. ASSUME NEW i \in 1..Len(redo), NEW g \in cur.files, IsTop(redo, i, g),
                 redo[i].at[g] = cur'.at[g]
          PROVE  redo[i].before[g] = cur.after[g]
      <3>1. g \in redo[i].files
        BY <2>3 DEF IsTop
      <3>2. redo[i].at[g] = cur.at[g]
        BY <1>1, <1>3, <1>7, <2>0, <2>3, <3>1, RestampEqual
      <3> QED BY <2>0, <2>3, <3>2 DEF CurOnRedo
    <2>4. ASSUME NEW i \in 1..Len(undo), NEW g \in Compared, IsTop(undo, i, g),
                 undo[i].at[g] = cur'.at[g]
          PROVE  undo[i].after[g] = cur.before[g]
      <3>1. g \in undo[i].files
        BY <2>4 DEF IsTop
      <3>2. undo[i].at[g] = cur.at[g]
        BY <1>1, <1>3, <1>6, <1>7, <2>0, <2>4, <3>1, RestampEqual
      <3> QED BY <2>0, <2>4, <3>2 DEF CurOnUndo
    <2> QED BY <1>1, <1>3, <1>6, <2>1, <2>2, <2>3, <2>4
            DEF Below, CurOnUndo, CurOnRedo, IsTop
  <1>11. UndoHooked'
    <2> SUFFICES ASSUME NEW i \in 1..Len(undo), NEW g \in Files \ UndoAhead', IsTop(undo, i, g),
                        undo[i].at[g] = drift[g]
                 PROVE  undo[i].after[g] = disk'[g]
      BY <1>1 DEF UndoHooked, IsTop
    <2>1. CASE g # f
      BY <1>1, <1>3, <1>4, <2>1 DEF HistoryLinked, UndoHooked, UndoAhead
    <2>2. CASE g = f
      <3>1. holder = "undo"
        BY <1>1, <2>2 DEF UndoAhead, Restoring
      <3>2. CurOnUndo(cur.files)' /\ undo[i].at[f] = cur'.at[f] /\ disk'[f] = cur.before[f]
        BY <1>1, <1>3, <1>4, <1>9, <2>2, <3>1 DEF InUndo, Target
      <3> QED BY <1>1, <1>2, <1>3, <2>2, <3>2 DEF CurOnUndo, IsTop
    <2> QED BY <2>1, <2>2
  <1>12. RedoHooked'
    <2> SUFFICES ASSUME NEW i \in 1..Len(redo), NEW g \in Files \ RedoAhead', IsTop(redo, i, g),
                        redo[i].at[g] = drift[g]
                 PROVE  redo[i].before[g] = disk'[g]
      BY <1>1 DEF RedoHooked, IsTop
    <2>1. CASE g # f
      BY <1>1, <1>3, <1>4, <2>1 DEF HistoryLinked, RedoHooked, RedoAhead
    <2>2. CASE g = f
      <3>1. holder = "redo"
        BY <1>1, <2>2 DEF RedoAhead, Restoring
      <3>2. CurOnRedo(cur.files)' /\ redo[i].at[f] = cur'.at[f] /\ disk'[f] = cur.after[f]
        BY <1>1, <1>3, <1>4, <1>10, <2>2, <3>1 DEF InRedo, Target
      <3> QED BY <1>1, <1>2, <1>3, <2>2, <3>2 DEF CurOnRedo, IsTop
    <2> QED BY <2>1, <2>2
  <1>13. CurFaces'
    <2>1. \A g \in cur'.files : cur'.at[g] <= drift'[g]
      BY <1>1, <1>3, <1>7 DEF TypeOK
    <2>2. \A g \in cur'.files \ wrote' : g # f /\ g \in cur.files \ wrote /\ g \in Files
      BY <1>1, <1>3
    <2>3. \A g \in wrote' : g = f \/ (g \in wrote \ {f} /\ g \in Files)
      BY <1>1, <1>2, <1>3
    <2> QED BY <1>1, <1>3, <1>4, <2>1, <2>2, <2>3
            DEF HistoryLinked, CurFaces, Restoring, Expected, Target
  <1>14. Window'
    BY <1>1, <1>3, <1>4 DEF HistoryLinked, Window, Verified, Restoring, Expected, TypeOK
  <1>15. InApply'
    BY <1>1 DEF InApply, Restoring
  <1> QED BY <1>5, <1>8, <1>9, <1>10, <1>11, <1>12, <1>13, <1>14, <1>15 DEF HistoryLinked

LEMMA RemoveIgnoredKeepsHistory ==
    ASSUME TypeOK, HistoryLinked, NEW f \in Files, RemoveIgnored(f)
    PROVE  HistoryLinked'
  <1>1. /\ UNCHANGED <<disk, undo, redo, holder, phase, cur, raced>>
        /\ Restoring /\ phase = "write" /\ f \in todo
        /\ Forget({f})
        /\ todo' = todo \ {f} /\ wrote' = wrote \union {f}
    BY DEF RemoveIgnored, stacks
  <1>2. todo = cur.files \ wrote /\ wrote \subseteq cur.files /\ f \in cur.files
    BY <1>1 DEF HistoryLinked, Progress
  <1>3. /\ drift' \in [Files -> Nat] /\ drift[f] < drift'[f]
        /\ \A g \in Files : drift[g] <= drift'[g]
        /\ \A g \in Files \ {f} : drift'[g] = drift[g]
    BY <1>1, ForgetGrows
  <1>4. cur.files \in SUBSET Files /\ cur.at \in [Files -> Nat]
    BY DEF TypeOK, Record
  <1>5. Progress'
    BY <1>1, <1>2 DEF HistoryLinked, Progress, Restoring
  <1>6. Compared = cur.files /\ Compared' = cur.files
    BY <1>1, <1>2 DEF Compared, Verified, Restoring
  <1>7. Stamped(undo)' /\ Stamped(redo)' /\ UndoLinked' /\ RedoLinked'
    BY <1>1, <1>3, FrameStacks DEF HistoryLinked, stacks
  <1>8. UndoHooked'
    <2> SUFFICES ASSUME NEW i \in 1..Len(undo), NEW g \in Files \ UndoAhead', IsTop(undo, i, g),
                        undo[i].at[g] = drift'[g]
                 PROVE  undo[i].after[g] = disk[g]
      BY <1>1 DEF UndoHooked, IsTop
    <2>1. undo[i].at[g] <= drift[g] /\ undo[i].at[g] \in Nat
      BY EntryTyped DEF HistoryLinked, Stamped, IsTop, TypeOK
    <2>2. g # f
      BY <1>3, <2>1 DEF TypeOK
    <2> QED BY <1>1, <1>3, <2>2 DEF HistoryLinked, UndoHooked, UndoAhead
  <1>9. RedoHooked'
    <2> SUFFICES ASSUME NEW i \in 1..Len(redo), NEW g \in Files \ RedoAhead', IsTop(redo, i, g),
                        redo[i].at[g] = drift'[g]
                 PROVE  redo[i].before[g] = disk[g]
      BY <1>1 DEF RedoHooked, IsTop
    <2>1. redo[i].at[g] <= drift[g] /\ redo[i].at[g] \in Nat
      BY EntryTyped DEF HistoryLinked, Stamped, IsTop, TypeOK
    <2>2. g # f
      BY <1>3, <2>1 DEF TypeOK
    <2> QED BY <1>1, <1>3, <2>2 DEF HistoryLinked, RedoHooked, RedoAhead
  <1>10. InApply' /\ InUndo' /\ InRedo'
    BY <1>1, <1>6 DEF HistoryLinked, InApply, InUndo, InRedo, Below, CurOnUndo, CurOnRedo, IsTop,
                      Restoring
  <1>11. CurFaces'
    <2>1. \A g \in cur.files : cur.at[g] <= drift'[g] /\ (cur.at[g] = drift'[g] => g # f)
      BY <1>3, <1>4 DEF HistoryLinked, CurFaces, TypeOK
    <2> QED BY <1>1, <1>2, <1>3, <1>4, <2>1 DEF HistoryLinked, CurFaces, Restoring, Expected, Target
  <1>12. Window'
    BY <1>1 DEF HistoryLinked, Window, Verified, Restoring, Expected
  <1> QED BY <1>5, <1>7, <1>8, <1>9, <1>10, <1>11, <1>12 DEF HistoryLinked

--------------------------------------------------------------------------------
(* The linked history is inductive: operations that pop or push *)

LEMMA BeginUndoKeepsHistory ==
    ASSUME TypeOK, HistoryLinked, BeginUndo
    PROVE  HistoryLinked'
  <1> DEFINE n == Len(undo)
             r == Newest(undo)
  <1>1. /\ UNCHANGED <<disk, redo, drift>> /\ undo # <<>> /\ undo' = Older(undo)
        /\ holder = "none" /\ holder' = "undo" /\ phase' = "check"
        /\ cur' = r /\ todo' = r.files /\ wrote' = {} /\ raced' = {}
    BY DEF BeginUndo, Take, Free
  <1>2. undo \in Seq(Record) /\ r \in Record /\ r.files \in SUBSET Files /\ r.at \in [Files -> Nat]
    BY <1>1, PopFacts DEF TypeOK, Record
  <1>3. n \in 1..n /\ undo[n] = r
    BY <1>1, <1>2, PopIndices
  <1>4. \A i \in 1..Len(Older(undo)) : i \in 1..n /\ i < n /\ Older(undo)[i] = undo[i]
    BY <1>1, <1>2, PopIndices
  <1>5. UndoAhead = {} /\ RedoAhead = {}
    BY <1>1 DEF HistoryLinked, Progress, UndoAhead, RedoAhead
  <1>6. Progress'
    BY <1>1, <1>2 DEF Progress
  <1>7. Stamped(undo)'
    BY <1>1, <1>4 DEF HistoryLinked, Stamped
  <1>8. Stamped(redo)' /\ RedoLinked'
    BY <1>1 DEF HistoryLinked, Stamped, RedoLinked, IsNext
  <1>9. RedoHooked'
    BY <1>1, <1>5 DEF HistoryLinked, RedoHooked, IsTop
  <1>10. UndoLinked'
    <2> SUFFICES ASSUME NEW i \in 1..Len(Older(undo)), NEW j \in 1..Len(Older(undo)), NEW f \in Files,
                        IsNext(Older(undo), i, j, f), Older(undo)[i].at[f] = Older(undo)[j].at[f]
                 PROVE  Older(undo)[i].after[f] = Older(undo)[j].before[f]
      BY <1>1 DEF UndoLinked
    <2>1. IsNext(undo, i, j, f)
      BY <1>1, <1>2, NextPop
    <2> QED BY <1>4, <2>1 DEF HistoryLinked, UndoLinked
  <1>11. UndoHooked'
    <2> SUFFICES ASSUME NEW i \in 1..Len(Older(undo)), NEW f \in Files \ r.files,
                        IsTop(Older(undo), i, f), Older(undo)[i].at[f] = drift[f]
                 PROVE  Older(undo)[i].after[f] = disk[f]
      BY <1>1 DEF UndoHooked, UndoAhead
    <2>1. IsTop(undo, i, f)
      BY <1>1, <1>2, TopPop
    <2> QED BY <1>4, <1>5, <2>1 DEF HistoryLinked, UndoHooked
  <1>12. Below(undo, cur.files)'
    BY <1>1, <1>2, <1>3, <1>4 DEF HistoryLinked, Stamped, Below
  <1>13. CurOnUndo(cur.files)'
    <2> SUFFICES ASSUME NEW i \in 1..Len(Older(undo)), NEW f \in r.files,
                        IsTop(Older(undo), i, f), Older(undo)[i].at[f] = r.at[f]
                 PROVE  Older(undo)[i].after[f] = r.before[f]
      BY <1>1 DEF CurOnUndo
    <2>1. IsNext(undo, i, n, f)
      BY <1>1, <1>2, TopPop
    <2> QED BY <1>2, <1>3, <1>4, <2>1 DEF HistoryLinked, UndoLinked
  <1>14. Verified' = {} /\ Compared' = {}
    BY <1>1 DEF Verified, Compared, Restoring
  <1>15. CurFaces'
    <2>1. \A f \in r.files : r.at[f] <= drift[f]
      BY <1>2, <1>3 DEF HistoryLinked, Stamped
    <2>2. \A f \in r.files : r.at[f] = drift[f] => disk[f] = r.after[f]
      BY <1>1, <1>2, <1>3, <1>5, NewestIsTop DEF HistoryLinked, UndoHooked
    <2> QED BY <1>1, <2>1, <2>2 DEF CurFaces, Restoring, Expected
  <1>16. InApply' /\ InUndo' /\ InRedo' /\ Window'
    BY <1>1, <1>12, <1>13, <1>14
    DEF InApply, InUndo, InRedo, Window, Below, CurOnUndo, CurOnRedo
  <1> QED BY <1>6, <1>7, <1>8, <1>9, <1>10, <1>11, <1>15, <1>16 DEF HistoryLinked

LEMMA BeginRedoKeepsHistory ==
    ASSUME TypeOK, HistoryLinked, BeginRedo
    PROVE  HistoryLinked'
  <1> DEFINE n == Len(redo)
             r == Newest(redo)
  <1>1. /\ UNCHANGED <<disk, undo, drift>> /\ redo # <<>> /\ redo' = Older(redo)
        /\ holder = "none" /\ holder' = "redo" /\ phase' = "check"
        /\ cur' = r /\ todo' = r.files /\ wrote' = {} /\ raced' = {}
    BY DEF BeginRedo, Take, Free
  <1>2. redo \in Seq(Record) /\ r \in Record /\ r.files \in SUBSET Files /\ r.at \in [Files -> Nat]
    BY <1>1, PopFacts DEF TypeOK, Record
  <1>3. n \in 1..n /\ redo[n] = r
    BY <1>1, <1>2, PopIndices
  <1>4. \A i \in 1..Len(Older(redo)) : i \in 1..n /\ i < n /\ Older(redo)[i] = redo[i]
    BY <1>1, <1>2, PopIndices
  <1>5. UndoAhead = {} /\ RedoAhead = {}
    BY <1>1 DEF HistoryLinked, Progress, UndoAhead, RedoAhead
  <1>6. Progress'
    BY <1>1, <1>2 DEF Progress
  <1>7. Stamped(redo)'
    BY <1>1, <1>4 DEF HistoryLinked, Stamped
  <1>8. Stamped(undo)' /\ UndoLinked'
    BY <1>1 DEF HistoryLinked, Stamped, UndoLinked, IsNext
  <1>9. UndoHooked'
    BY <1>1, <1>5 DEF HistoryLinked, UndoHooked, IsTop
  <1>10. RedoLinked'
    <2> SUFFICES ASSUME NEW i \in 1..Len(Older(redo)), NEW j \in 1..Len(Older(redo)), NEW f \in Files,
                        IsNext(Older(redo), i, j, f), Older(redo)[i].at[f] = Older(redo)[j].at[f]
                 PROVE  Older(redo)[i].before[f] = Older(redo)[j].after[f]
      BY <1>1 DEF RedoLinked
    <2>1. IsNext(redo, i, j, f)
      BY <1>1, <1>2, NextPop
    <2> QED BY <1>4, <2>1 DEF HistoryLinked, RedoLinked
  <1>11. RedoHooked'
    <2> SUFFICES ASSUME NEW i \in 1..Len(Older(redo)), NEW f \in Files \ r.files,
                        IsTop(Older(redo), i, f), Older(redo)[i].at[f] = drift[f]
                 PROVE  Older(redo)[i].before[f] = disk[f]
      BY <1>1 DEF RedoHooked, RedoAhead
    <2>1. IsTop(redo, i, f)
      BY <1>1, <1>2, TopPop
    <2> QED BY <1>4, <1>5, <2>1 DEF HistoryLinked, RedoHooked
  <1>12. Below(redo, cur.files)'
    BY <1>1, <1>2, <1>3, <1>4 DEF HistoryLinked, Stamped, Below
  <1>13. CurOnRedo(cur.files)'
    <2> SUFFICES ASSUME NEW i \in 1..Len(Older(redo)), NEW f \in r.files,
                        IsTop(Older(redo), i, f), Older(redo)[i].at[f] = r.at[f]
                 PROVE  Older(redo)[i].before[f] = r.after[f]
      BY <1>1 DEF CurOnRedo
    <2>1. IsNext(redo, i, n, f)
      BY <1>1, <1>2, TopPop
    <2> QED BY <1>2, <1>3, <1>4, <2>1 DEF HistoryLinked, RedoLinked
  <1>14. Verified' = {} /\ Compared' = {}
    BY <1>1 DEF Verified, Compared, Restoring
  <1>15. CurFaces'
    <2>1. \A f \in r.files : r.at[f] <= drift[f]
      BY <1>2, <1>3 DEF HistoryLinked, Stamped
    <2>2. \A f \in r.files : r.at[f] = drift[f] => disk[f] = r.before[f]
      BY <1>1, <1>2, <1>3, <1>5, NewestIsTop DEF HistoryLinked, RedoHooked
    <2> QED BY <1>1, <2>1, <2>2 DEF CurFaces, Restoring, Expected
  <1>16. InApply' /\ InUndo' /\ InRedo' /\ Window'
    BY <1>1, <1>12, <1>13, <1>14
    DEF InApply, InUndo, InRedo, Window, Below, CurOnUndo, CurOnRedo
  <1> QED BY <1>6, <1>7, <1>8, <1>9, <1>10, <1>11, <1>15, <1>16 DEF HistoryLinked

LEMMA FinishUndoKeepsHistory ==
    ASSUME TypeOK, HistoryLinked, FinishUndo
    PROVE  HistoryLinked'
  <1>1. /\ UNCHANGED <<disk, undo, drift>> /\ Release
        /\ holder = "undo" /\ phase = "write" /\ todo = {}
        /\ redo' = Append(redo, cur)
    BY DEF FinishUndo
  <1>2. wrote = cur.files /\ Compared = cur.files
    BY <1>1 DEF HistoryLinked, Progress, Compared, Verified, Restoring
  <1>3. /\ redo \in Seq(Record) /\ cur \in Record /\ cur.files \in SUBSET Files
        /\ cur.at \in [Files -> Nat]
    BY DEF TypeOK, Record
  <1>4. /\ Progress' /\ InApply' /\ InUndo' /\ InRedo' /\ CurFaces' /\ Window'
        /\ UndoAhead' = {} /\ RedoAhead' = {}
    BY <1>1, NothingInHand DEF TypeOK
  <1>5. UndoAhead = {} /\ RedoAhead = cur.files
    BY <1>1, <1>2 DEF UndoAhead, RedoAhead
  <1>6. /\ Len(redo) \in Nat /\ Len(redo') = Len(redo) + 1
        /\ \A i \in 1..Len(redo) : redo'[i] = redo[i]
        /\ redo'[Len(redo) + 1] = cur
    BY <1>1, <1>3, PushFacts
  <1>7. Stamped(undo)' /\ UndoLinked' /\ UndoHooked'
    BY <1>1, <1>5 DEF HistoryLinked, Stamped, UndoLinked, UndoHooked, IsNext, IsTop
  <1>8. Below(redo, cur.files) /\ CurOnRedo(cur.files)
    BY <1>1, <1>2 DEF HistoryLinked, InUndo, InRedo
  <1>9. Stamped(redo)'
    <2>1. \A i \in 1..Len(redo') : i \in 1..Len(redo) \/ i = Len(redo) + 1
      BY <1>6
    <2>2. \A f \in cur.files : cur.at[f] <= drift[f]
      BY DEF HistoryLinked, CurFaces
    <2>3. \A i \in 1..Len(redo'), f \in Files : f \in redo'[i].files => redo'[i].at[f] <= drift[f]
      BY <1>6, <2>1, <2>2 DEF HistoryLinked, Stamped
    <2>4. ASSUME NEW i \in 1..Len(redo'), NEW j \in 1..Len(redo'), NEW f \in Files,
                 i < j, f \in redo'[i].files, f \in redo'[j].files
          PROVE  redo'[i].at[f] <= redo'[j].at[f]
      <3>1. i \in 1..Len(redo) /\ redo'[i] = redo[i]
        BY <1>6, <2>1, <2>4
      <3>2. CASE j \in 1..Len(redo)
        BY <1>6, <2>4, <3>1, <3>2 DEF HistoryLinked, Stamped
      <3>3. CASE j = Len(redo) + 1
        BY <1>6, <1>8, <2>4, <3>1, <3>3 DEF Below
      <3> QED BY <2>1, <3>2, <3>3
    <2> QED BY <1>1, <2>3, <2>4 DEF Stamped
  <1>10. RedoLinked'
    <2>1. ASSUME NEW i \in 1..Len(redo'), NEW j \in 1..Len(redo'), NEW f \in Files,
                 IsNext(redo, i, j, f)', redo'[i].at[f] = redo'[j].at[f]
          PROVE  redo'[i].before[f] = redo'[j].after[f]
      <3>1. IsNext(Append(redo, cur), i, j, f)
        BY <1>1, <2>1 DEF IsNext
      <3>2. CASE IsNext(redo, i, j, f)
        BY <1>6, <2>1, <3>2 DEF HistoryLinked, RedoLinked, IsNext
      <3>3. CASE j = Len(redo) + 1 /\ IsTop(redo, i, f) /\ f \in cur.files
        BY <1>6, <1>8, <2>1, <3>3 DEF CurOnRedo, IsTop
      <3> QED BY <1>3, <3>1, <3>2, <3>3, NextPush
    <2> QED BY <2>1 DEF RedoLinked
  <1>11. RedoHooked'
    <2>1. ASSUME NEW i \in 1..Len(redo'), NEW f \in Files,
                 IsTop(redo, i, f)', redo'[i].at[f] = drift[f]
          PROVE  redo'[i].before[f] = disk[f]
      <3>1. IsTop(Append(redo, cur), i, f)
        BY <1>1, <2>1 DEF IsTop
      <3>2. CASE i = Len(redo) + 1 /\ f \in cur.files
        BY <1>1, <1>2, <1>6, <2>1, <3>2 DEF HistoryLinked, CurFaces, Restoring, Target
      <3>3. CASE IsTop(redo, i, f) /\ f \notin cur.files
        BY <1>5, <1>6, <2>1, <3>3 DEF HistoryLinked, RedoHooked, IsTop
      <3> QED BY <1>3, <3>1, <3>2, <3>3, TopPush
    <2>2. drift' = drift /\ disk' = disk
      BY <1>1
    <2> QED BY <1>4, <2>1, <2>2 DEF RedoHooked
  <1> QED BY <1>4, <1>7, <1>9, <1>10, <1>11 DEF HistoryLinked

LEMMA FinishRedoKeepsHistory ==
    ASSUME TypeOK, HistoryLinked, FinishRedo
    PROVE  HistoryLinked'
  <1>1. /\ UNCHANGED <<disk, redo, drift>> /\ Release
        /\ holder = "redo" /\ phase = "write" /\ todo = {}
        /\ undo' = Append(undo, cur)
    BY DEF FinishRedo
  <1>2. wrote = cur.files /\ Compared = cur.files
    BY <1>1 DEF HistoryLinked, Progress, Compared, Verified, Restoring
  <1>3. /\ undo \in Seq(Record) /\ cur \in Record /\ cur.files \in SUBSET Files
        /\ cur.at \in [Files -> Nat]
    BY DEF TypeOK, Record
  <1>4. /\ Progress' /\ InApply' /\ InUndo' /\ InRedo' /\ CurFaces' /\ Window'
        /\ UndoAhead' = {} /\ RedoAhead' = {}
    BY <1>1, NothingInHand DEF TypeOK
  <1>5. RedoAhead = {} /\ UndoAhead = cur.files
    BY <1>1, <1>2 DEF UndoAhead, RedoAhead
  <1>6. /\ Len(undo) \in Nat /\ Len(undo') = Len(undo) + 1
        /\ \A i \in 1..Len(undo) : undo'[i] = undo[i]
        /\ undo'[Len(undo) + 1] = cur
    BY <1>1, <1>3, PushFacts
  <1>7. Stamped(redo)' /\ RedoLinked' /\ RedoHooked'
    BY <1>1, <1>5 DEF HistoryLinked, Stamped, RedoLinked, RedoHooked, IsNext, IsTop
  <1>8. Below(undo, cur.files) /\ CurOnUndo(cur.files)
    BY <1>1, <1>2 DEF HistoryLinked, InUndo, InRedo
  <1>9. Stamped(undo)'
    <2>1. \A i \in 1..Len(undo') : i \in 1..Len(undo) \/ i = Len(undo) + 1
      BY <1>6
    <2>2. \A f \in cur.files : cur.at[f] <= drift[f]
      BY DEF HistoryLinked, CurFaces
    <2>3. \A i \in 1..Len(undo'), f \in Files : f \in undo'[i].files => undo'[i].at[f] <= drift[f]
      BY <1>6, <2>1, <2>2 DEF HistoryLinked, Stamped
    <2>4. ASSUME NEW i \in 1..Len(undo'), NEW j \in 1..Len(undo'), NEW f \in Files,
                 i < j, f \in undo'[i].files, f \in undo'[j].files
          PROVE  undo'[i].at[f] <= undo'[j].at[f]
      <3>1. i \in 1..Len(undo) /\ undo'[i] = undo[i]
        BY <1>6, <2>1, <2>4
      <3>2. CASE j \in 1..Len(undo)
        BY <1>6, <2>4, <3>1, <3>2 DEF HistoryLinked, Stamped
      <3>3. CASE j = Len(undo) + 1
        BY <1>6, <1>8, <2>4, <3>1, <3>3 DEF Below
      <3> QED BY <2>1, <3>2, <3>3
    <2> QED BY <1>1, <2>3, <2>4 DEF Stamped
  <1>10. UndoLinked'
    <2>1. ASSUME NEW i \in 1..Len(undo'), NEW j \in 1..Len(undo'), NEW f \in Files,
                 IsNext(undo, i, j, f)', undo'[i].at[f] = undo'[j].at[f]
          PROVE  undo'[i].after[f] = undo'[j].before[f]
      <3>1. IsNext(Append(undo, cur), i, j, f)
        BY <1>1, <2>1 DEF IsNext
      <3>2. CASE IsNext(undo, i, j, f)
        BY <1>6, <2>1, <3>2 DEF HistoryLinked, UndoLinked, IsNext
      <3>3. CASE j = Len(undo) + 1 /\ IsTop(undo, i, f) /\ f \in cur.files
        BY <1>6, <1>8, <2>1, <3>3 DEF CurOnUndo, IsTop
      <3> QED BY <1>3, <3>1, <3>2, <3>3, NextPush
    <2> QED BY <2>1 DEF UndoLinked
  <1>11. UndoHooked'
    <2>1. ASSUME NEW i \in 1..Len(undo'), NEW f \in Files,
                 IsTop(undo, i, f)', undo'[i].at[f] = drift[f]
          PROVE  undo'[i].after[f] = disk[f]
      <3>1. IsTop(Append(undo, cur), i, f)
        BY <1>1, <2>1 DEF IsTop
      <3>2. CASE i = Len(undo) + 1 /\ f \in cur.files
        BY <1>1, <1>2, <1>6, <2>1, <3>2 DEF HistoryLinked, CurFaces, Restoring, Target
      <3>3. CASE IsTop(undo, i, f) /\ f \notin cur.files
        BY <1>5, <1>6, <2>1, <3>3 DEF HistoryLinked, UndoHooked, IsTop
      <3> QED BY <1>3, <3>1, <3>2, <3>3, TopPush
    <2>2. drift' = drift /\ disk' = disk
      BY <1>1
    <2> QED BY <1>4, <2>1, <2>2 DEF UndoHooked
  <1> QED BY <1>4, <1>7, <1>9, <1>10, <1>11 DEF HistoryLinked

(* A finished gesture is pushed on the chain it extends; draining keeps chains. *)
LEMMA FinishApplyKeepsHistory ==
    ASSUME TypeOK, HistoryLinked, FinishApply
    PROVE  HistoryLinked'
  <1> DEFINE r == [cur EXCEPT !.after = Snapshot(cur.files), !.at = drift]
             u == Append(undo, r)
  <1>1. /\ UNCHANGED <<disk, drift>> /\ Release
        /\ holder = "apply" /\ phase = "write"
        /\ undo' = Drained(u) /\ redo' = <<>>
    BY DEF FinishApply
  <1>2. /\ undo \in Seq(Record) /\ cur \in Record /\ cur.files \in SUBSET Files
        /\ cur.at \in [Files -> Nat] /\ drift \in [Files -> Nat] /\ Len(redo') = 0
    BY <1>1, EmptySeq DEF TypeOK, Record
  <1>3. /\ r \in Record /\ r.files = cur.files /\ r.before = cur.before
        /\ \A f \in Files : r.at[f] = drift[f]
        /\ \A f \in cur.files : r.after[f] = disk[f]
    <2>1. Snapshot(cur.files) \in [Files -> Bytes]
      BY <1>2, RecordFacts
    <2> QED BY <1>2, <2>1 DEF Record, Snapshot
  <1> HIDE DEF r
  <1>4. /\ Len(undo) \in Nat /\ Len(u) = Len(undo) + 1 /\ u \in Seq(Record)
        /\ \A i \in 1..Len(undo) : u[i] = undo[i]
        /\ u[Len(undo) + 1] = r
    BY <1>2, <1>3, PushFacts
  <1>5. /\ Progress' /\ InApply' /\ InUndo' /\ InRedo' /\ CurFaces' /\ Window'
        /\ UndoAhead' = {} /\ RedoAhead' = {}
    BY <1>1, <1>2, NothingInHand
  <1>6. UndoAhead \subseteq cur.files
    BY <1>1 DEF UndoAhead, HistoryLinked, Progress
  <1>7. Below(undo, cur.files) /\ CurOnUndo(cur.files)
    BY <1>1 DEF HistoryLinked, InApply
  <1>8. \A f \in cur.files : cur.at[f] <= drift[f]
    BY DEF HistoryLinked, CurFaces
  <1>9. Stamped(redo)' /\ RedoLinked' /\ RedoHooked'
    BY <1>2 DEF Stamped, RedoLinked, RedoHooked
  <1>10. \A i \in 1..Len(u) : i \in 1..Len(undo) \/ i = Len(undo) + 1
    BY <1>4
  <1>11. \A i \in 1..Len(undo), f \in Files : f \in undo[i].files => undo[i].at[f] <= drift[f]
    BY DEF HistoryLinked, Stamped
  <1>12. \A i \in 1..Len(u), f \in Files : f \in u[i].files => u[i].at[f] <= drift[f]
    BY <1>2, <1>3, <1>4, <1>10, <1>11
  <1>13. ASSUME NEW i \in 1..Len(u), NEW j \in 1..Len(u), NEW f \in Files,
                i < j, f \in u[i].files, f \in u[j].files
         PROVE  u[i].at[f] <= u[j].at[f]
    <2>1. i \in 1..Len(undo) /\ u[i] = undo[i]
      BY <1>4, <1>10, <1>13
    <2>2. CASE j \in 1..Len(undo)
      BY <1>4, <1>13, <2>1, <2>2 DEF HistoryLinked, Stamped
    <2>3. CASE j = Len(undo) + 1
      BY <1>3, <1>4, <1>11, <1>13, <2>1, <2>3
    <2> QED BY <1>10, <2>2, <2>3
  <1>14. ASSUME NEW i \in 1..Len(u), NEW j \in 1..Len(u), NEW f \in Files,
                IsNext(u, i, j, f), u[i].at[f] = u[j].at[f]
         PROVE  u[i].after[f] = u[j].before[f]
    <2>1. CASE IsNext(undo, i, j, f)
      BY <1>4, <1>14, <2>1 DEF HistoryLinked, UndoLinked, IsNext
    <2>2. CASE j = Len(undo) + 1 /\ IsTop(undo, i, f) /\ f \in cur.files
      <3>1. u[i] = undo[i] /\ u[j] = r /\ i \in 1..Len(undo) /\ f \in undo[i].files
        BY <1>4, <2>2 DEF IsTop
      <3>2. undo[i].at[f] <= cur.at[f] /\ cur.at[f] <= drift[f] /\ undo[i].at[f] = drift[f]
        BY <1>3, <1>7, <1>8, <1>14, <2>2, <3>1 DEF Below
      <3>3. undo[i].at[f] \in Nat
        BY <1>2, <3>2
      <3>4. undo[i].at[f] = cur.at[f]
        BY <1>2, <3>2, <3>3
      <3> QED BY <1>3, <1>7, <2>2, <3>1, <3>4 DEF CurOnUndo
    <2> QED BY <1>2, <1>3, <1>14, <2>1, <2>2, NextPush
  <1>15. ASSUME NEW i \in 1..Len(u), NEW f \in Files, IsTop(u, i, f), u[i].at[f] = drift[f]
         PROVE  u[i].after[f] = disk[f]
    <2>1. CASE i = Len(undo) + 1 /\ f \in cur.files
      BY <1>3, <1>4, <2>1
    <2>2. CASE IsTop(undo, i, f) /\ f \notin cur.files
      BY <1>4, <1>6, <1>15, <2>2 DEF HistoryLinked, UndoHooked, IsTop
    <2> QED BY <1>2, <1>3, <1>15, <2>1, <2>2, TopPush
  <1>16. PICK d \in Nat :
           /\ \A i \in 1..Len(Drained(u)) : i + d \in 1..Len(u) /\ Drained(u)[i] = u[i + d]
           /\ \A i, f : IsTop(Drained(u), i, f) => IsTop(u, i + d, f)
           /\ \A i, j, f : IsNext(Drained(u), i, j, f) => IsNext(u, i + d, j + d, f)
    BY <1>4, DrainKeepsChains
  <1> DEFINE v == Drained(u)
  <1>17. Len(v) \in Nat
    BY <1>4, DrainFacts, LenProperties
  <1> HIDE DEF u, v
  <1>18. \A i, j \in 1..Len(v) : i < j => i + d < j + d
    BY <1>16, <1>17
  <1>19. /\ \A i \in 1..Len(v), f \in Files : f \in v[i].files => v[i].at[f] <= drift[f]
         /\ \A i, j \in 1..Len(v), f \in Files :
               i < j /\ f \in v[i].files /\ f \in v[j].files => v[i].at[f] <= v[j].at[f]
    BY <1>12, <1>13, <1>16, <1>18 DEF v
  <1>20. ASSUME NEW i \in 1..Len(v), NEW j \in 1..Len(v), NEW f \in Files,
                IsNext(v, i, j, f), v[i].at[f] = v[j].at[f]
         PROVE  v[i].after[f] = v[j].before[f]
    <2>1. /\ i + d \in 1..Len(u) /\ v[i] = u[i + d]
          /\ j + d \in 1..Len(u) /\ v[j] = u[j + d]
          /\ IsNext(u, i + d, j + d, f)
      BY <1>16, <1>20 DEF v
    <2> QED BY <1>14, <1>20, <2>1
  <1>21. \A i \in 1..Len(v), f \in Files :
           IsTop(v, i, f) /\ v[i].at[f] = drift[f] => v[i].after[f] = disk[f]
    BY <1>15, <1>16 DEF v
  <1>22. undo' = v /\ drift' = drift /\ disk' = disk
    BY <1>1 DEF u, v
  <1>23. Stamped(undo)'
    BY <1>19, <1>22 DEF Stamped
  <1>24. UndoLinked'
    BY <1>20, <1>22 DEF UndoLinked, IsNext
  <1>25. UndoHooked'
    BY <1>5, <1>21, <1>22 DEF UndoHooked, IsTop
  <1> QED BY <1>5, <1>9, <1>23, <1>24, <1>25 DEF HistoryLinked

LEMMA InitLinksHistory == Init => HistoryLinked
  <1> SUFFICES ASSUME Init PROVE HistoryLinked
    OBVIOUS
  <1>1. Len(undo) = 0 /\ Len(redo) = 0
    BY EmptySeq DEF Init
  <1>2. /\ holder = "none" /\ phase = "check" /\ wrote = {} /\ todo = {} /\ raced = {}
        /\ cur.files = {} /\ ~Restoring /\ Verified = {}
    BY DEF Init, NoRecord, Restoring, Verified
  <1>3. Stamped(undo) /\ Stamped(redo) /\ UndoHooked /\ RedoHooked /\ UndoLinked /\ RedoLinked
    BY <1>1 DEF Stamped, UndoHooked, RedoHooked, UndoLinked, RedoLinked
  <1>4. Progress /\ InApply /\ InUndo /\ InRedo /\ CurFaces /\ Window
    BY <1>2 DEF Progress, InApply, InUndo, InRedo, CurFaces, Window
  <1> QED BY <1>3, <1>4 DEF HistoryLinked

LEMMA HistoryStep == TypeOK /\ HistoryLinked /\ [Next]_vars => HistoryLinked'
  <1> SUFFICES ASSUME TypeOK, HistoryLinked, [Next]_vars PROVE HistoryLinked'
    OBVIOUS
  <1>1. CASE CanvasGesture
    BY <1>1, BeginApplyKeepsHistory DEF CanvasGesture, Drivers
  <1>2. CASE McpGesture
    <2>1. PICK f \in Files : BeginApply("mcp", {f}, FALSE)
      BY <1>2 DEF McpGesture
    <2> QED BY <2>1, BeginApplyKeepsHistory DEF Drivers
  <1>3. CASE McpMove
    BY <1>3, FilesAssumption, BeginApplyKeepsHistory DEF McpMove, Drivers
  <1>4. CASE TakeBefore
    BY <1>4, TakeBeforeKeepsHistory
  <1>5. ASSUME NEW f \in Files, NEW c \in Content, WriteFile(f, c) PROVE HistoryLinked'
    BY <1>5, WriteFileKeepsHistory
  <1>6. CASE FinishApply
    BY <1>6, FinishApplyKeepsHistory
  <1>7. CASE BeginUndo
    BY <1>7, BeginUndoKeepsHistory
  <1>8. CASE BeginRedo
    BY <1>8, BeginRedoKeepsHistory
  <1>9. ASSUME NEW f \in Files, CheckFile(f) PROVE HistoryLinked'
    BY <1>9, CheckFileKeepsHistory
  <1>10. ASSUME NEW f \in Files, WriteBack(f) PROVE HistoryLinked'
    BY <1>10, WriteBackKeepsHistory
  <1>11. CASE Discard
    BY <1>11, DiscardKeepsHistory
  <1>12. CASE FinishUndo
    BY <1>12, FinishUndoKeepsHistory
  <1>13. CASE FinishRedo
    BY <1>13, FinishRedoKeepsHistory
  <1>14. CASE WriterFails
    BY <1>14, WriterFailsKeepsHistory
  <1>15. CASE WriterPanics
    BY <1>15, WriterPanicsKeepsHistory
  <1>16. ASSUME NEW f \in Files, RemoveIgnored(f) PROVE HistoryLinked'
    BY <1>16, RemoveIgnoredKeepsHistory
  <1>17. CASE RestoreFails
    BY <1>17, RestoreFailsKeepsHistory
  <1>18. ASSUME NEW f \in Files, NEW c \in Bytes, UngatedWrite(f, c) PROVE HistoryLinked'
    BY <1>18, UngatedWriteKeepsHistory
  <1>19. CASE RefreshToken
    BY <1>19, RefreshTokenKeepsHistory
  <1>20. CASE UNCHANGED vars
    BY <1>20 DEF vars, stacks, local, HistoryLinked, Progress, Stamped, UndoHooked, RedoHooked,
       UndoLinked, RedoLinked, InApply, InUndo, InRedo, CurFaces, Window, UndoAhead, RedoAhead,
       Below, CurOnUndo, CurOnRedo, Compared, Verified, Restoring, Expected, Target, IsTop, IsNext
  <1> QED BY <1>1, <1>2, <1>3, <1>4, <1>5, <1>6, <1>7, <1>8, <1>9, <1>10, <1>11, <1>12, <1>13,
             <1>14, <1>15, <1>16, <1>17, <1>18, <1>19, <1>20 DEF Next, Gate, Faults, Outside

(* The chain invariant: restricted to a file that has not drifted, the two stacks of
   gate.rs are one chain of states hooked to the disk, at every point of every
   operation and with writers that ignore the mutex. *)
THEOREM HistoryStaysLinked == Spec => []HistoryLinked
  BY TypeCorrect, InitLinksHistory, HistoryStep, PTL DEF Spec

(* restore() drops an entry only when a file of it drifted since the entry last faced
   the disk, for every number of files, contents and stack depth. *)
THEOREM RefusedOnlyAfterDrift == Spec => DiscardOnlyAfterDrift
  <1>1. TypeOK /\ HistoryLinked /\ [Next]_vars
          => [Discard => \E f \in cur.files : cur.at[f] # drift[f]]_vars
    <2> SUFFICES ASSUME TypeOK, HistoryLinked, Discard
                 PROVE  \E f \in cur.files : cur.at[f] # drift[f]
      OBVIOUS
    <2>1. PICK f \in todo : disk[f] # Expected(f)
      BY DEF Discard
    <2>2. f \in cur.files \ wrote /\ Restoring
      BY <2>1 DEF Discard, HistoryLinked, Progress
    <2> QED BY <2>1, <2>2 DEF HistoryLinked, CurFaces
  <1> QED BY <1>1, TypeCorrect, HistoryStaysLinked, PTL DEF Spec, DiscardOnlyAfterDrift

(* restore() overwrites unexpected bytes only if they were written after it compared
   that file: the window is the one between its two loops. *)
THEOREM ClobberedOnlyInWindow == Spec => ClobberOnlyInWindow
  <1>1. TypeOK /\ HistoryLinked /\ [Next]_vars
          => [\A f \in Files : WriteBack(f) => disk[f] = Expected(f) \/ f \in raced]_vars
    <2> SUFFICES ASSUME TypeOK, HistoryLinked, NEW f \in Files, WriteBack(f)
                 PROVE  disk[f] = Expected(f) \/ f \in raced
      OBVIOUS
    <2>1. f \in Verified
      BY DEF WriteBack, Verified
    <2> QED BY <2>1 DEF HistoryLinked, Window
  <1> QED BY <1>1, TypeCorrect, HistoryStaysLinked, PTL DEF Spec, ClobberOnlyInWindow

--------------------------------------------------------------------------------
(* The timeline *)

(* The line of states of two stacks, around what was on disk between operations *)
BackOf(s, n, d) ==
    [f \in Files |-> LET T == Touching(s, n, f) IN IF T = {} THEN d[f] ELSE s[Oldest(T)].before[f]]

AheadOf(s, n, d) ==
    [f \in Files |-> LET T == Touching(s, n, f) IN IF T = {} THEN d[f] ELSE s[Oldest(T)].after[f]]

LineOf(u, r, d) ==
    [k \in 1..(Len(u) + 1 + Len(r)) |->
        IF k <= Len(u) + 1 THEN BackOf(u, Len(u) + 1 - k, d) ELSE AheadOf(r, k - (Len(u) + 1), d)]

Overlay(d, side, T) == [f \in Files |-> IF f \in T THEN side[f] ELSE d[f]]

States == [Files -> Bytes]

LEMMA LineIs == Line = LineOf(UndoStack, RedoStack, DiskThen) /\ Pos = Len(UndoStack) + 1
  BY DEF Line, Pos, Back, Ahead, LineOf, BackOf, AheadOf

(* There is an oldest record among any *)
LEMMA OldestExists ==
    ASSUME NEW T \in SUBSET Nat, T # {}
    PROVE  Oldest(T) \in T /\ \A j \in T : Oldest(T) <= j
  <1> DEFINE R == {p \in Nat \X Nat : p[1] < p[2]}
  <1>1. IsWellFoundedOn(R, Nat)
    BY NatLessThanWellFounded DEF OpToRel
  <1>2. PICK x \in T : \A y \in T : ~ (<<y, x>> \in R)
    <2> HIDE DEF R
    <2> QED BY <1>1, WFMin
  <1>3. ASSUME NEW y \in T PROVE x <= y
    <2>1. <<y, x>> \notin R
      BY <1>2
    <2>2. ~(y < x)
      BY <2>1
    <2> QED BY <2>2
  <1> QED BY <1>3 DEF Oldest

LEMMA OldestIs ==
    ASSUME NEW T \in SUBSET Nat, NEW m \in T, \A j \in T : m <= j
    PROVE  Oldest(T) = m
  <1> DEFINE o == Oldest(T)
  <1>1. o \in T /\ \A j \in T : o <= j
    BY OldestExists
  <1> HIDE DEF o
  <1>2. o <= m /\ m <= o /\ o \in Nat /\ m \in Nat
    BY <1>1
  <1>3. o = m
    BY <1>2
  <1> QED BY <1>3 DEF o

LEMMA TouchingIndices ==
    ASSUME NEW s \in Seq(Record), NEW n, NEW f
    PROVE  Touching(s, n, f) \in SUBSET Nat /\ Touching(s, n, f) \subseteq 1..Len(s)
  BY LenProperties DEF Touching

LEMMA TouchingNone ==
    ASSUME NEW s \in Seq(Record), NEW f
    PROVE  Touching(s, 0, f) = {}
  BY LenProperties DEF Touching

(* The oldest of the records touching f is the same one after a push, but for the
   record pushed when it is the only one *)
LEMMA OldestPushed ==
    ASSUME NEW s \in Seq(Record), NEW r \in Record, NEW n \in 0..Len(s), NEW f
    PROVE  LET S == Touching(s, n, f)
               T == Touching(Append(s, r), n + 1, f)
           IN  /\ S # {} => T # {} /\ Append(s, r)[Oldest(T)] = s[Oldest(S)]
               /\ S = {} /\ f \in r.files => T # {} /\ Append(s, r)[Oldest(T)] = r
               /\ S = {} /\ f \notin r.files => T = {}
  <1> DEFINE S == Touching(s, n, f)
             T == Touching(Append(s, r), n + 1, f)
  <1>1. /\ Len(s) \in Nat /\ Len(Append(s, r)) = Len(s) + 1
        /\ \A i \in 1..Len(s) : Append(s, r)[i] = s[i]
        /\ Append(s, r)[Len(s) + 1] = r
        /\ Append(s, r) \in Seq(Record)
    BY PushFacts
  <1>2. \A i : i \in T <=> i \in S \/ (i = Len(s) + 1 /\ f \in r.files)
    BY <1>1 DEF Touching
  <1>3. S \in SUBSET Nat /\ T \in SUBSET Nat /\ S \subseteq 1..Len(s)
    BY <1>1, TouchingIndices
  <1> HIDE DEF S, T
  <1>4. ASSUME S # {}
        PROVE  T # {} /\ Append(s, r)[Oldest(T)] = s[Oldest(S)]
    <2>1. Oldest(S) \in S /\ \A j \in S : Oldest(S) <= j
      BY <1>3, <1>4, OldestExists
    <2>2. Oldest(S) \in T
      BY <1>2, <2>1
    <2>3. ASSUME NEW j \in T PROVE Oldest(S) <= j
      <3> DEFINE o == Oldest(S)
      <3>1. o \in 1..Len(s) /\ \A i \in S : o <= i
        BY <1>3, <2>1
      <3> HIDE DEF o
      <3>2. j \in S \/ j = Len(s) + 1
        BY <1>2
      <3>3. o <= j
        BY <1>1, <3>1, <3>2
      <3> QED BY <3>3 DEF o
    <2>5. Oldest(T) = Oldest(S)
      BY <1>3, <2>2, <2>3, OldestIs
    <2> QED BY <1>1, <1>2, <1>3, <2>1, <2>5
  <1>5. ASSUME S = {}, f \in r.files PROVE T # {} /\ Append(s, r)[Oldest(T)] = r
    <2>1. T # {}
      BY <1>2, <1>5
    <2>2. Oldest(T) \in T
      BY <1>3, <2>1, OldestExists
    <2> QED BY <1>1, <1>2, <1>5, <2>1, <2>2
  <1>6. S = {} /\ f \notin r.files => T = {}
    BY <1>2
  <1> QED BY <1>4, <1>5, <1>6 DEF S, T

LEMMA BackPushed ==
    ASSUME NEW s \in Seq(Record), NEW r \in Record, NEW n \in 0..Len(s), NEW d
    PROVE  BackOf(Append(s, r), n + 1, d) = BackOf(s, n, Overlay(d, r.before, r.files))
  <1>1. ASSUME NEW f \in Files
        PROVE  BackOf(Append(s, r), n + 1, d)[f] = BackOf(s, n, Overlay(d, r.before, r.files))[f]
    <2> DEFINE S == Touching(s, n, f)
               T == Touching(Append(s, r), n + 1, f)
    <2>1. BackOf(Append(s, r), n + 1, d)[f]
             = IF T = {} THEN d[f] ELSE Append(s, r)[Oldest(T)].before[f]
      BY DEF BackOf
    <2>2. BackOf(s, n, Overlay(d, r.before, r.files))[f]
             = IF S = {} THEN (IF f \in r.files THEN r.before[f] ELSE d[f])
               ELSE s[Oldest(S)].before[f]
      BY DEF BackOf, Overlay
    <2>3. /\ S # {} => T # {} /\ Append(s, r)[Oldest(T)] = s[Oldest(S)]
          /\ S = {} /\ f \in r.files => T # {} /\ Append(s, r)[Oldest(T)] = r
          /\ S = {} /\ f \notin r.files => T = {}
      BY OldestPushed
    <2> HIDE DEF S, T
    <2> QED BY <2>1, <2>2, <2>3
  <1> QED BY <1>1 DEF BackOf

LEMMA AheadPushed ==
    ASSUME NEW s \in Seq(Record), NEW r \in Record, NEW n \in 0..Len(s), NEW d
    PROVE  AheadOf(Append(s, r), n + 1, d) = AheadOf(s, n, Overlay(d, r.after, r.files))
  <1>1. ASSUME NEW f \in Files
        PROVE  AheadOf(Append(s, r), n + 1, d)[f] = AheadOf(s, n, Overlay(d, r.after, r.files))[f]
    <2> DEFINE S == Touching(s, n, f)
               T == Touching(Append(s, r), n + 1, f)
    <2>1. AheadOf(Append(s, r), n + 1, d)[f]
             = IF T = {} THEN d[f] ELSE Append(s, r)[Oldest(T)].after[f]
      BY DEF AheadOf
    <2>2. AheadOf(s, n, Overlay(d, r.after, r.files))[f]
             = IF S = {} THEN (IF f \in r.files THEN r.after[f] ELSE d[f])
               ELSE s[Oldest(S)].after[f]
      BY DEF AheadOf, Overlay
    <2>3. /\ S # {} => T # {} /\ Append(s, r)[Oldest(T)] = s[Oldest(S)]
          /\ S = {} /\ f \in r.files => T # {} /\ Append(s, r)[Oldest(T)] = r
          /\ S = {} /\ f \notin r.files => T = {}
      BY OldestPushed
    <2> HIDE DEF S, T
    <2> QED BY <2>1, <2>2, <2>3
  <1> QED BY <1>1 DEF AheadOf

(* What is drained from the oldest end is out of reach of the n newest *)
LEMMA BackDrained ==
    ASSUME NEW s \in Seq(Record), NEW t \in Seq(Record), NEW k \in Nat,
           Len(s) = Len(t) + k, \A i \in 1..Len(t) : t[i] = s[i + k],
           NEW n \in 0..Len(t), NEW d
    PROVE  BackOf(t, n, d) = BackOf(s, n, d)
  <1>1. Len(s) \in Nat /\ Len(t) \in Nat
    BY LenProperties
  <1>2. ASSUME NEW f \in Files PROVE BackOf(t, n, d)[f] = BackOf(s, n, d)[f]
    <2> DEFINE S == Touching(s, n, f)
               T == Touching(t, n, f)
    <2>1. \A i \in T : i + k \in S
      BY <1>1 DEF Touching
    <2>2. \A i \in S : i - k \in T
      BY <1>1 DEF Touching
    <2>3. S \in SUBSET Nat /\ T \in SUBSET Nat /\ T \subseteq 1..Len(t)
      BY TouchingIndices
    <2>4. BackOf(t, n, d)[f] = IF T = {} THEN d[f] ELSE t[Oldest(T)].before[f]
      BY DEF BackOf
    <2>5. BackOf(s, n, d)[f] = IF S = {} THEN d[f] ELSE s[Oldest(S)].before[f]
      BY DEF BackOf
    <2> HIDE DEF S, T
    <2>6. CASE T = {}
      BY <2>2, <2>4, <2>5, <2>6
    <2>7. CASE T # {}
      <3>1. S # {}
        BY <2>1, <2>7
      <3>2. Oldest(T) \in T /\ \A j \in T : Oldest(T) <= j
        BY <2>3, <2>7, OldestExists
      <3>3. Oldest(T) + k \in S
        BY <2>1, <3>2
      <3>4. ASSUME NEW j \in S PROVE Oldest(T) + k <= j
        <4> DEFINE o == Oldest(T)
        <4>1. o <= j - k /\ o \in Nat /\ j \in Nat
          BY <2>2, <2>3, <3>2
        <4> HIDE DEF o
        <4>2. o + k <= j
          BY <4>1
        <4> QED BY <4>2 DEF o
      <3>7. Oldest(S) = Oldest(T) + k
        <4> DEFINE m == Oldest(T) + k
        <4> HIDE DEF m
        <4>1. m \in S /\ \A j \in S : m <= j
          BY <3>3, <3>4 DEF m
        <4> QED BY <2>3, <4>1, OldestIs DEF m
      <3> QED BY <2>3, <2>4, <2>5, <2>7, <3>1, <3>2, <3>7
    <2> QED BY <2>6, <2>7
  <1> QED BY <1>2 DEF BackOf

LEMMA ReachedTyped ==
    ASSUME NEW s \in Seq(Record), NEW n, NEW d \in States
    PROVE  BackOf(s, n, d) \in States /\ AheadOf(s, n, d) \in States
  <1>1. ASSUME NEW f \in Files, Touching(s, n, f) # {}
        PROVE  s[Oldest(Touching(s, n, f))] \in Record
    <2>1. Oldest(Touching(s, n, f)) \in 1..Len(s)
      BY <1>1, TouchingIndices, OldestExists
    <2> QED BY <2>1, ElementOfSeq
  <1> QED BY <1>1 DEF BackOf, AheadOf, States, Record

LEMMA ReachedNow ==
    ASSUME NEW s \in Seq(Record), NEW d \in States
    PROVE  BackOf(s, 0, d) = d /\ AheadOf(s, 0, d) = d
  <1>1. \A f \in Files : BackOf(s, 0, d)[f] = d[f] /\ AheadOf(s, 0, d)[f] = d[f]
    BY TouchingNone DEF BackOf, AheadOf
  <1> QED BY <1>1, ReachedTyped DEF States

LEMMA LineTyped ==
    ASSUME NEW u \in Seq(Record), NEW r \in Seq(Record), NEW d \in States
    PROVE  /\ LineOf(u, r, d) \in Seq(States)
           /\ Len(LineOf(u, r, d)) = Len(u) + 1 + Len(r)
           /\ \A k \in 1..(Len(u) + 1 + Len(r)) :
                LineOf(u, r, d)[k] = IF k <= Len(u) + 1 THEN BackOf(u, Len(u) + 1 - k, d)
                                     ELSE AheadOf(r, k - (Len(u) + 1), d)
  <1>1. Len(u) \in Nat /\ Len(r) \in Nat
    BY LenProperties
  <1>2. LineOf(u, r, d) \in [1..(Len(u) + 1 + Len(r)) -> States]
    BY ReachedTyped DEF LineOf
  <1>3. LineOf(u, r, d) \in Seq(States)
    BY <1>1, <1>2
  <1> QED BY <1>1, <1>2, <1>3 DEF LineOf

LEMMA OverlayTwice ==
    ASSUME NEW d \in States, NEW a, NEW b, NEW T
    PROVE  Overlay(Overlay(d, a, T), b, T) = Overlay(d, b, T)
  BY DEF Overlay

LEMMA OverlayTyped ==
    ASSUME NEW d \in States, NEW a \in [Files -> Bytes], NEW T
    PROVE  Overlay(d, a, T) \in States
  BY DEF Overlay, States

(* The line with nothing to redo *)
LEMMA LineOfUndo ==
    ASSUME NEW u \in Seq(Record), NEW d \in States
    PROVE  /\ LineOf(u, <<>>, d) \in Seq(States)
           /\ Len(LineOf(u, <<>>, d)) = Len(u) + 1
           /\ \A k \in 1..(Len(u) + 1) : LineOf(u, <<>>, d)[k] = BackOf(u, Len(u) + 1 - k, d)
  <1> DEFINE e == <<>>
             l == LineOf(u, e, d)
  <1>1. e \in Seq(Record) /\ Len(e) = 0 /\ Len(u) \in Nat
    BY EmptySeq, LenProperties
  <1> HIDE DEF e
  <1>2. /\ l \in Seq(States) /\ Len(l) = Len(u) + 1 + Len(e)
        /\ \A k \in 1..(Len(u) + 1 + Len(e)) :
             l[k] = IF k <= Len(u) + 1 THEN BackOf(u, Len(u) + 1 - k, d)
                    ELSE AheadOf(e, k - (Len(u) + 1), d)
    BY <1>1, LineTyped
  <1> HIDE DEF l
  <1>3. /\ l \in Seq(States) /\ Len(l) = Len(u) + 1
        /\ \A k \in 1..(Len(u) + 1) : l[k] = BackOf(u, Len(u) + 1 - k, d)
    BY <1>1, <1>2
  <1> QED BY <1>3 DEF e, l

(* Moving a record between the stacks, with the disk, moves the cursor and nothing else *)
LEMMA RecordMoves ==
    ASSUME NEW u \in Seq(Record), NEW r \in Seq(Record), NEW c \in Record, NEW d \in States
    PROVE  LineOf(Append(u, c), r, Overlay(d, c.after, c.files))
             = LineOf(u, Append(r, c), Overlay(d, c.before, c.files))
  <1> DEFINE n  == Len(u)
             da == Overlay(d, c.after, c.files)
             db == Overlay(d, c.before, c.files)
             L  == LineOf(Append(u, c), r, da)
             R  == LineOf(u, Append(r, c), db)
  <1>1. /\ Append(u, c) \in Seq(Record) /\ Append(r, c) \in Seq(Record)
        /\ n \in Nat /\ Len(r) \in Nat
        /\ Len(Append(u, c)) = n + 1 /\ Len(Append(r, c)) = Len(r) + 1
    BY PushFacts
  <1>2. da \in States /\ db \in States
    BY OverlayTyped DEF Record
  <1>3. Overlay(da, c.before, c.files) = db /\ Overlay(db, c.after, c.files) = da
    BY OverlayTwice
  <1> HIDE DEF n, da, db
  <1>4. /\ L \in Seq(States) /\ Len(L) = n + 1 + 1 + Len(r)
        /\ \A k \in 1..(n + 1 + 1 + Len(r)) :
             L[k] = IF k <= n + 1 + 1 THEN BackOf(Append(u, c), n + 1 + 1 - k, da)
                    ELSE AheadOf(r, k - (n + 1 + 1), da)
    <2> DEFINE v == Append(u, c)
    <2> HIDE DEF v, L
    <2>1. v \in Seq(Record) /\ Len(v) = n + 1
      BY <1>1 DEF v
    <2>2. L = LineOf(v, r, da)
      BY DEF v, L
    <2>3. /\ L \in Seq(States) /\ Len(L) = Len(v) + 1 + Len(r)
          /\ \A k \in 1..(Len(v) + 1 + Len(r)) :
               L[k] = IF k <= Len(v) + 1 THEN BackOf(v, Len(v) + 1 - k, da)
                      ELSE AheadOf(r, k - (Len(v) + 1), da)
      BY <1>2, <2>1, <2>2, LineTyped
    <2> QED BY <2>1, <2>3 DEF v
  <1>4a. /\ R \in Seq(States) /\ Len(R) = n + 1 + (Len(r) + 1)
        /\ \A k \in 1..(n + 1 + (Len(r) + 1)) :
             R[k] = IF k <= n + 1 THEN BackOf(u, n + 1 - k, db)
                    ELSE AheadOf(Append(r, c), k - (n + 1), db)
    <2> DEFINE v == Append(r, c)
    <2> HIDE DEF v, R
    <2>1. v \in Seq(Record) /\ Len(v) = Len(r) + 1
      BY <1>1 DEF v
    <2>2. R = LineOf(u, v, db)
      BY DEF v, R
    <2>3. /\ R \in Seq(States) /\ Len(R) = Len(u) + 1 + Len(v)
          /\ \A k \in 1..(Len(u) + 1 + Len(v)) :
               R[k] = IF k <= Len(u) + 1 THEN BackOf(u, Len(u) + 1 - k, db)
                      ELSE AheadOf(v, k - (Len(u) + 1), db)
      BY <1>2, <2>1, <2>2, LineTyped
    <2> QED BY <2>1, <2>3 DEF v, n
  <1>4b. /\ 1..(n + 2 + Len(r)) = 1..(n + 1 + 1 + Len(r))
        /\ 1..(n + 2 + Len(r)) = 1..(n + 1 + (Len(r) + 1))
    BY <1>1
  <1> HIDE DEF L, R
  <1>5. ASSUME NEW k \in 1..(n + 2 + Len(r)), k <= n + 1
        PROVE  L[k] = R[k]
    <2>1. L[k] = BackOf(Append(u, c), n + 1 + 1 - k, da)
      BY <1>1, <1>4, <1>4b, <1>5
    <2>2. R[k] = BackOf(u, n + 1 - k, db)
      BY <1>1, <1>4a, <1>4b, <1>5
    <2> DEFINE m == n + 1 - k
    <2>3. m \in 0..n /\ n + 1 + 1 - k = m + 1
      BY <1>1, <1>5
    <2> HIDE DEF m
    <2>4. BackOf(Append(u, c), m + 1, da) = BackOf(u, m, db)
      BY <1>3, <2>3, BackPushed DEF n
    <2> QED BY <2>1, <2>2, <2>3, <2>4 DEF m
  <1>6. ASSUME NEW k \in 1..(n + 2 + Len(r)), k > n + 1
        PROVE  L[k] = R[k]
    <2> DEFINE m == k - (n + 1 + 1)
    <2>1. m \in 0..Len(r) /\ k - (n + 1) = m + 1
      BY <1>1, <1>6
    <2> HIDE DEF m
    <2>2. R[k] = AheadOf(Append(r, c), m + 1, db)
      <3>1. R[k] = AheadOf(Append(r, c), k - (n + 1), db)
        BY <1>1, <1>4a, <1>4b, <1>6
      <3> QED BY <3>1, <2>1
    <2>3. AheadOf(Append(r, c), m + 1, db) = AheadOf(r, m, da)
      BY <1>3, <2>1, AheadPushed
    <2>4. L[k] = AheadOf(r, m, da)
      <3>1. CASE k = n + 1 + 1
        <4>1. L[k] = BackOf(Append(u, c), n + 1 + 1 - k, da)
          <5>1. k \in 1..(n + 1 + 1 + Len(r))
            BY <1>1, <1>4b
          <5>2. L[k] = IF k <= n + 1 + 1 THEN BackOf(Append(u, c), n + 1 + 1 - k, da)
                       ELSE AheadOf(r, k - (n + 1 + 1), da)
            BY <1>4, <5>1
          <5>3. k <= n + 1 + 1
            BY <1>1, <3>1
          <5> QED BY <5>2, <5>3
        <4>2. n + 1 + 1 - k = 0 /\ m = 0
          BY <1>1, <3>1 DEF m
        <4>3. BackOf(Append(u, c), 0, da) = da
          BY <1>1, <1>2, ReachedNow
        <4>4. AheadOf(r, 0, da) = da
          BY <1>2, ReachedNow
        <4> QED BY <4>1, <4>2, <4>3, <4>4
      <3>2. CASE k # n + 1 + 1
        <4>1. k \in 1..(n + 1 + 1 + Len(r)) /\ ~(k <= n + 1 + 1)
          BY <1>1, <1>4b, <1>6, <3>2
        <4> QED BY <1>4, <4>1 DEF m
      <3> QED BY <3>1, <3>2
    <2> QED BY <2>2, <2>3, <2>4
  <1>7. ASSUME NEW k \in 1..(n + 2 + Len(r)) PROVE L[k] = R[k]
    BY <1>1, <1>5, <1>6
  <1>8. Len(L) = Len(R) /\ 1..Len(L) = 1..(n + 2 + Len(r))
    BY <1>1, <1>4, <1>4a
  <1>9. L = R
    BY <1>4, <1>4a, <1>7, <1>8, SeqEqual
  <1> QED BY <1>9 DEF L, R, da, db

(* A gesture pushed on the stack cuts the line at the cursor and extends it *)
LEMMA GestureExtends ==
    ASSUME NEW u \in Seq(Record), NEW r \in Seq(Record), NEW c \in Record, NEW d \in States
    PROVE  LineOf(Append(u, c), <<>>, d)
             = Append(SubSeq(LineOf(u, r, Overlay(d, c.before, c.files)), 1, Len(u) + 1), d)
  <1> DEFINE n  == Len(u)
             db == Overlay(d, c.before, c.files)
             l  == LineOf(u, r, db)
             p  == SubSeq(l, 1, n + 1)
             L  == LineOf(Append(u, c), <<>>, d)
  <1>1. /\ Append(u, c) \in Seq(Record) /\ n \in Nat /\ Len(r) \in Nat
        /\ Len(Append(u, c)) = n + 1
        /\ <<>> \in Seq(Record) /\ Len(<<>>) = 0
    BY PushFacts
  <1>2. db \in States
    BY OverlayTyped DEF Record
  <1> HIDE DEF n, db
  <1>3. /\ L \in Seq(States) /\ Len(L) = n + 1 + 1
        /\ \A k \in 1..(n + 1 + 1) : L[k] = BackOf(Append(u, c), n + 1 + 1 - k, d)
    <2> DEFINE v == Append(u, c)
    <2> HIDE DEF v, L
    <2>1. v \in Seq(Record) /\ Len(v) = n + 1 /\ L = LineOf(v, <<>>, d)
      BY <1>1 DEF v, L
    <2>2. /\ L \in Seq(States) /\ Len(L) = Len(v) + 1
          /\ \A k \in 1..(Len(v) + 1) : L[k] = BackOf(v, Len(v) + 1 - k, d)
      BY <2>1, LineOfUndo
    <2> QED BY <2>1, <2>2 DEF v
  <1>4. /\ l \in Seq(States) /\ Len(l) = n + 1 + Len(r)
        /\ \A k \in 1..(n + 1) : l[k] = BackOf(u, n + 1 - k, db)
    <2> HIDE DEF l
    <2>1. /\ l \in Seq(States) /\ Len(l) = n + 1 + Len(r)
          /\ \A k \in 1..(n + 1 + Len(r)) :
               l[k] = IF k <= n + 1 THEN BackOf(u, n + 1 - k, db)
                      ELSE AheadOf(r, k - (n + 1), db)
      BY <1>1, <1>2, LineTyped DEF l, n
    <2>2. 1..(n + 1) \subseteq 1..(n + 1 + Len(r))
      BY <1>1
    <2> QED BY <1>1, <2>1, <2>2
  <1> HIDE DEF l, L
  <1>5. /\ p \in Seq(States) /\ Len(p) = n + 1
        /\ \A k \in 1..(n + 1) : p[k] = l[k]
    <2> DEFINE e == n + 1
    <2>1. e \in Nat /\ 1 <= e /\ \A k \in 1..e : l[k] \in States
      BY <1>1, <1>4, ElementOfSeq
    <2> HIDE DEF e
    <2>2. /\ SubSeq(l, 1, e) \in Seq(States)
          /\ Len(SubSeq(l, 1, e)) = IF 1 <= e THEN e - 1 + 1 ELSE 0
          /\ \A i \in 1..(e - 1 + 1) : SubSeq(l, 1, e)[i] = l[1 + i - 1]
      BY <2>1, SubSeqProperties
    <2>3. /\ SubSeq(l, 1, e) \in Seq(States) /\ Len(SubSeq(l, 1, e)) = e
          /\ \A i \in 1..e : SubSeq(l, 1, e)[i] = l[i]
      BY <2>1, <2>2
    <2> QED BY <2>3 DEF e
  <1> HIDE DEF p
  <1>6. /\ Append(p, d) \in Seq(States) /\ Len(Append(p, d)) = n + 1 + 1
        /\ \A k \in 1..(n + 1) : Append(p, d)[k] = p[k]
        /\ Append(p, d)[n + 1 + 1] = d
    BY <1>1, <1>5, AppendProperties
  <1>7. ASSUME NEW k \in 1..(n + 1) PROVE L[k] = Append(p, d)[k]
    <2> DEFINE m == n + 1 - k
    <2>1. m \in 0..n /\ n + 1 + 1 - k = m + 1 /\ k \in 1..(n + 1 + 1)
      BY <1>1
    <2>2. BackOf(Append(u, c), m + 1, d) = BackOf(u, m, db)
      <3> HIDE DEF m
      <3> QED BY <2>1, BackPushed DEF n, db
    <2> QED BY <1>3, <1>4, <1>5, <1>6, <2>1, <2>2
  <1>8. L[n + 1 + 1] = d
    <2>1. n + 1 + 1 - (n + 1 + 1) = 0 /\ n + 1 + 1 \in 1..(n + 1 + 1)
      BY <1>1
    <2>2. L[n + 1 + 1] = BackOf(Append(u, c), 0, d)
      BY <1>3, <2>1
    <2> QED BY <1>1, <2>2, ReachedNow
  <1>9. \A k \in 1..Len(L) : L[k] = Append(p, d)[k]
    BY <1>1, <1>3, <1>6, <1>7, <1>8
  <1>10. L = Append(p, d)
    BY <1>3, <1>6, <1>9, SeqEqual
  <1> QED BY <1>10 DEF L, p, l, n, db

(* Draining a stack forgets the oldest states *)
LEMMA DrainKeeps ==
    ASSUME NEW s \in Seq(Record), NEW d \in States
    PROVE  LineOf(Drained(s), <<>>, d) = Timeline!Kept(LineOf(s, <<>>, d))
  <1> DEFINE t == Drained(s)
             g == GateDepth
             l == LineOf(s, <<>>, d)
             L == LineOf(t, <<>>, d)
  <1>1. t \in Seq(Record) /\ Len(s) \in Nat /\ Len(t) \in Nat /\ g \in Nat
        /\ <<>> \in Seq(Record) /\ Len(<<>>) = 0
    BY DrainFacts, LenProperties, DepthAssumption
  <1>2. /\ l \in Seq(States) /\ Len(l) = Len(s) + 1
        /\ \A k \in 1..(Len(s) + 1) : l[k] = BackOf(s, Len(s) + 1 - k, d)
    BY LineOfUndo
  <1>3. /\ L \in Seq(States) /\ Len(L) = Len(t) + 1
        /\ \A k \in 1..(Len(t) + 1) : L[k] = BackOf(t, Len(t) + 1 - k, d)
    <2> HIDE DEF t
    <2> QED BY <1>1, LineOfUndo
  <1>4. CASE Len(s) <= g
    <2>1. t = s
      BY <1>1, <1>4 DEF Drained
    <2>2. Timeline!Kept(l) = l
      <3> HIDE DEF l
      <3> QED BY <1>1, <1>2, <1>4 DEF Timeline!Kept
    <2> QED BY <2>1, <2>2
  <1>5. CASE Len(s) > g
    <2>1. PICK e \in Nat : /\ Len(s) = Len(t) + e
                           /\ \A i \in 1..Len(t) : t[i] = s[i + e]
      BY DrainFacts
    <2>2. Len(t) = g
      <3> DEFINE b == Len(s) - g + 1
                 z == Len(s)
      <3>1. b \in Nat /\ 1 <= b /\ b <= z /\ z \in Nat /\ z - b + 1 = g
        BY <1>1, <1>5, DepthAssumption
      <3>2. \A i \in b..z : s[i] \in Record
        BY <3>1, ElementOfSeq
      <3>3. t = SubSeq(s, b, z)
        BY <1>5 DEF Drained
      <3> HIDE DEF b, z, t, g
      <3>4. Len(SubSeq(s, b, z)) = IF b <= z THEN z - b + 1 ELSE 0
        BY <3>1, <3>2, SubSeqProperties
      <3> QED BY <3>1, <3>3, <3>4
    <2> HIDE DEF t, g, l, L
    <2> DEFINE q == Len(l) - g
               z == Len(l)
               K == SubSeq(l, q, z)
    <2>3. Timeline!Kept(l) = K
      BY <1>1, <1>2, <1>5 DEF Timeline!Kept, g
    <2>4. q \in Nat /\ z \in Nat /\ 1 <= q /\ q <= z /\ z - q + 1 = g + 1
      BY <1>1, <1>2, <1>5
    <2>5. \A i \in q..z : l[i] \in States
      BY <1>2, <2>4, ElementOfSeq
    <2>6. K \in Seq(States) /\ Len(K) = g + 1 /\ \A i \in 1..(g + 1) : K[i] = l[q + i - 1]
      <3> HIDE DEF q, z
      <3>1. /\ K \in Seq(States) /\ Len(K) = IF q <= z THEN z - q + 1 ELSE 0
            /\ \A i \in 1..(z - q + 1) : K[i] = l[q + i - 1]
        BY <2>4, <2>5, SubSeqProperties
      <3> QED BY <2>4, <3>1
    <2> HIDE DEF K
    <2>7. ASSUME NEW i \in 1..(g + 1) PROVE L[i] = K[i]
      <3> DEFINE n == g + 1 - i
                 j == q + i - 1
      <3>1. n \in 0..g /\ j \in 1..(Len(s) + 1) /\ Len(s) + 1 - j = n
        BY <1>1, <1>2, <1>5
      <3> HIDE DEF n, j
      <3>2. L[i] = BackOf(t, n, d)
        BY <1>3, <2>2 DEF n
      <3>3. K[i] = BackOf(s, n, d)
        <4>1. K[i] = l[j]
          BY <2>6 DEF j
        <4> QED BY <1>2, <3>1, <4>1
      <3>4. BackOf(t, n, d) = BackOf(s, n, d)
        BY <1>1, <2>1, <2>2, <3>1, BackDrained
      <3> QED BY <3>2, <3>3, <3>4
    <2>8. L = K
      BY <1>3, <2>2, <2>6, <2>7, SeqEqual
    <2> QED BY <2>3, <2>8 DEF l, L, t
  <1> QED BY <1>1, <1>4, <1>5

LEMMA PushedBack ==
    ASSUME NEW s \in Seq(Record), s # <<>>
    PROVE  Append(Older(s), Newest(s)) = s
  <1> DEFINE o == Older(s)
             t == Append(o, Newest(s))
  <1>1. /\ Newest(s) \in Record /\ o \in Seq(Record)
        /\ Len(s) \in Nat /\ Len(s) >= 1 /\ Len(o) = Len(s) - 1
        /\ \A i \in 1..Len(o) : o[i] = s[i]
    BY PopFacts
  <1>2. Newest(s) = s[Len(s)]
    BY DEF Newest
  <1> HIDE DEF o
  <1>3. /\ t \in Seq(Record) /\ Len(t) = Len(o) + 1
        /\ \A i \in 1..Len(o) : t[i] = o[i]
        /\ t[Len(o) + 1] = Newest(s)
    BY <1>1, PushFacts
  <1> HIDE DEF t
  <1>4. Len(t) = Len(s) /\ \A i \in 1..Len(t) : t[i] = s[i]
    BY <1>1, <1>2, <1>3
  <1>5. t = s
    BY <1>3, <1>4, SeqEqual
  <1> QED BY <1>5 DEF t, o

(* While nobody writes around the gate no file drifts, and what a gesture has not yet
   written is as it found it. *)
QuietInv ==
    /\ drift = NoDrift
    /\ holder = "apply" /\ phase = "write" => \A f \in cur.files \ wrote : cur.before[f] = disk[f]

QuietHistory == TypeOK /\ HistoryLinked /\ QuietInv

(* Then every restore finds what it expects *)
LEMMA QuietFaces ==
    ASSUME QuietHistory
    PROVE  /\ \A f \in cur.files : cur.at[f] = drift[f]
           /\ Restoring => \A f \in cur.files : disk[f] = IF f \in wrote THEN Target(f) ELSE Expected(f)
           /\ ~Discard
  <1>1. ASSUME NEW f \in cur.files PROVE cur.at[f] = drift[f]
    <2>1. f \in Files /\ cur.at[f] \in Nat /\ drift[f] = 0
      BY DEF QuietHistory, QuietInv, NoDrift, TypeOK, Record
    <2>2. cur.at[f] <= drift[f]
      BY DEF QuietHistory, HistoryLinked, CurFaces
    <2> QED BY <2>1, <2>2
  <1>2. Restoring => \A f \in cur.files : disk[f] = IF f \in wrote THEN Target(f) ELSE Expected(f)
    BY <1>1 DEF QuietHistory, HistoryLinked, CurFaces
  <1>3. ~Discard
    <2> SUFFICES ASSUME Discard PROVE FALSE
      OBVIOUS
    <2>1. Restoring /\ wrote = {} /\ todo \subseteq cur.files
      BY DEF Discard, QuietHistory, HistoryLinked, Progress
    <2> QED BY <1>2, <2>1 DEF Discard
  <1> QED BY <1>1, <1>2, <1>3

LEMMA QuietRestamps ==
    ASSUME QuietHistory, NEW f \in cur.files
    PROVE  [cur EXCEPT !.at[f] = drift[f]] = cur
  <1>1. cur \in Record /\ cur.at[f] = drift[f]
    BY QuietFaces DEF QuietHistory, TypeOK
  <1>2. [cur.at EXCEPT ![f] = drift[f]] = cur.at
    BY <1>1 DEF Record
  <1>3. [cur EXCEPT !.at = cur.at] = cur
    BY <1>1 DEF Record
  <1> QED BY <1>2, <1>3

LEMMA QuietIsNext == QuietNext => Next
  BY DEF QuietNext, Next, Gate, Faults, Outside

LEMMA QuietStep == QuietHistory /\ [QuietNext]_vars => QuietInv'
  <1> SUFFICES ASSUME QuietHistory, [QuietNext]_vars
               PROVE  QuietInv'
    OBVIOUS
  <1>0. drift = NoDrift /\ drift \in [Files -> Nat]
    BY DEF QuietHistory, QuietInv, TypeOK
  <1>1. CASE CanvasGesture \/ McpGesture \/ McpMove \/ BeginUndo \/ BeginRedo
    BY <1>0, <1>1 DEF CanvasGesture, McpGesture, McpMove, BeginApply, BeginUndo, BeginRedo, Take,
       QuietInv
  <1>2. CASE TakeBefore
    <2>1. \A f \in cur.files : Snapshot(cur.files)[f] = disk[f]
      BY DEF QuietHistory, TypeOK, Record, Snapshot
    <2>2. cur'.before = Snapshot(cur.files) /\ cur'.files = cur.files
      BY <1>2 DEF TakeBefore, QuietHistory, TypeOK, Record
    <2> QED BY <1>0, <1>2, <2>1, <2>2 DEF TakeBefore, QuietInv
  <1>3. ASSUME NEW f \in Files, NEW c \in Content, WriteFile(f, c)
        PROVE  QuietInv'
    <2>1. \A g \in cur.files \ wrote : cur.before[g] = disk[g]
      BY <1>3 DEF QuietHistory, QuietInv, WriteFile
    <2>2. \A g \in Files : g # f => disk'[g] = disk[g]
      BY <1>3 DEF QuietHistory, TypeOK, WriteFile
    <2>3. cur.files \subseteq Files
      BY DEF QuietHistory, TypeOK, Record
    <2> QED BY <1>0, <1>3, <2>1, <2>2, <2>3 DEF WriteFile, QuietInv
  <1>4. CASE FinishApply \/ FinishUndo \/ FinishRedo
    BY <1>0, <1>4 DEF FinishApply, FinishUndo, FinishRedo, Release, QuietInv
  <1>5. ASSUME NEW f \in Files, CheckFile(f) \/ WriteBack(f)
        PROVE  QuietInv'
    BY <1>0, <1>5 DEF CheckFile, WriteBack, Restoring, QuietInv
  <1>6. CASE wrote = {} /\ WriterFails
    BY <1>0, <1>6 DEF WriterFails, Forget, Release, QuietInv
  <1>7. CASE RefreshToken
    BY <1>0, <1>7 DEF RefreshToken, local, QuietHistory, QuietInv
  <1>8. CASE UNCHANGED vars
    BY <1>8 DEF vars, QuietHistory, QuietInv
  <1>9. ~Discard
    BY QuietFaces
  <1> QED BY <1>1, <1>2, <1>3, <1>4, <1>5, <1>6, <1>7, <1>8, <1>9 DEF QuietNext, Gate

LEMMA LineThen == Line' = LineOf(UndoStack', RedoStack', DiskThen') /\ Pos' = Len(UndoStack') + 1
  BY DEF Line, Pos, Back, Ahead, LineOf, BackOf, AheadOf

(* Everything before the push leaves the line and the cursor where they were *)
Stays == UNCHANGED <<UndoStack, RedoStack, DiskThen>>

LEMMA StaysIsStutter == Stays => UNCHANGED <<Line, Pos>>
  BY LineIs, LineThen DEF Stays

LEMMA BeginStays ==
    ASSUME QuietHistory, CanvasGesture \/ McpGesture \/ McpMove \/ BeginUndo \/ BeginRedo
    PROVE  Stays
  <1>1. holder = "none" /\ wrote = {} /\ wrote' = {} /\ disk' = disk
    BY DEF CanvasGesture, McpGesture, McpMove, BeginApply, BeginUndo, BeginRedo, Take, Free,
       QuietHistory, HistoryLinked, Progress
  <1>2. UNCHANGED DiskThen
    BY <1>1 DEF DiskThen
  <1>3. undo \in Seq(Record) /\ redo \in Seq(Record)
    BY DEF QuietHistory, TypeOK
  <1>4. CASE CanvasGesture \/ McpGesture \/ McpMove
    <2>1. holder' = "apply" /\ undo' = undo /\ redo' = redo
      BY <1>4 DEF CanvasGesture, McpGesture, McpMove, BeginApply, Take, stacks
    <2> QED BY <1>1, <1>2, <2>1 DEF Stays, UndoStack, RedoStack
  <1>5. CASE BeginUndo
    <2>1. /\ holder' = "undo" /\ undo # <<>>
          /\ cur' = Newest(undo) /\ undo' = Older(undo) /\ redo' = redo
      BY <1>5 DEF BeginUndo, Take
    <2>2. Append(undo', cur') = undo
      BY <1>3, <2>1, PushedBack
    <2> QED BY <1>1, <1>2, <2>1, <2>2 DEF Stays, UndoStack, RedoStack
  <1>6. CASE BeginRedo
    <2>1. /\ holder' = "redo" /\ redo # <<>>
          /\ cur' = Newest(redo) /\ redo' = Older(redo) /\ undo' = undo
      BY <1>6 DEF BeginRedo, Take
    <2>2. Append(redo', cur') = redo
      BY <1>3, <2>1, PushedBack
    <2> QED BY <1>1, <1>2, <2>1, <2>2 DEF Stays, UndoStack, RedoStack
  <1> QED BY <1>4, <1>5, <1>6

LEMMA WriteFileStays ==
    ASSUME QuietHistory, NEW f \in Files, NEW c \in Content, WriteFile(f, c)
    PROVE  Stays
  <1>1. cur.before[f] = disk[f] /\ f \notin wrote
    BY DEF QuietHistory, QuietInv, HistoryLinked, Progress, WriteFile
  <1>2. \A g \in Files : g # f => disk'[g] = disk[g]
    BY DEF QuietHistory, TypeOK, WriteFile
  <1>3. \A g \in Files : DiskThen'[g] = DiskThen[g]
    BY <1>1, <1>2 DEF DiskThen, WriteFile
  <1>4. UNCHANGED DiskThen
    BY <1>3 DEF DiskThen
  <1> QED BY <1>4 DEF Stays, UndoStack, RedoStack, WriteFile, stacks

LEMMA RestoreStays ==
    ASSUME QuietHistory, NEW f \in Files, CheckFile(f) \/ WriteBack(f)
    PROVE  Stays
  <1>1. f \in cur.files /\ cur' = cur /\ holder' = holder /\ undo' = undo /\ redo' = redo
    <2>1. f \in cur.files
      BY DEF QuietHistory, HistoryLinked, Progress, CheckFile, WriteBack
    <2> QED BY <2>1, QuietRestamps DEF CheckFile, WriteBack, stacks
  <1>2. UNCHANGED <<UndoStack, RedoStack>>
    BY <1>1 DEF UndoStack, RedoStack
  <1>3. CASE CheckFile(f)
    <2>1. UNCHANGED <<disk, wrote>>
      BY <1>3 DEF CheckFile
    <2>2. UNCHANGED DiskThen
      BY <1>1, <2>1 DEF DiskThen
    <2> QED BY <1>2, <2>2 DEF Stays
  <1>4. CASE WriteBack(f)
    <2>1. disk[f] = Expected(f) /\ f \notin wrote
      BY <1>1, <1>4, QuietFaces DEF QuietHistory, HistoryLinked, Progress, WriteBack
    <2>2. \A g \in Files : g # f => disk'[g] = disk[g]
      BY <1>4 DEF QuietHistory, TypeOK, WriteBack
    <2>3. wrote' = wrote \union {f}
      BY <1>4 DEF WriteBack
    <2>4. \A g \in Files : DiskThen'[g] = DiskThen[g]
      BY <1>1, <2>1, <2>2, <2>3 DEF DiskThen, Expected
    <2>5. UNCHANGED DiskThen
      BY <2>4 DEF DiskThen
    <2> QED BY <1>2, <2>5 DEF Stays
  <1> QED BY <1>3, <1>4

LEMMA OtherStays ==
    ASSUME QuietHistory, TakeBefore \/ RefreshToken \/ (wrote = {} /\ WriterFails) \/ UNCHANGED vars
    PROVE  Stays
  <1>1. CASE TakeBefore
    <2>1. holder = "apply" /\ wrote = {} /\ UNCHANGED <<disk, undo, redo, holder, wrote>>
      BY <1>1 DEF TakeBefore, stacks, QuietHistory, HistoryLinked, Progress
    <2> QED BY <2>1 DEF Stays, UndoStack, RedoStack, DiskThen
  <1>2. CASE RefreshToken \/ UNCHANGED vars
    <2>1. UNCHANGED <<disk, undo, redo, holder, wrote, cur>>
      BY <1>2 DEF RefreshToken, stacks, local, vars
    <2> QED BY <2>1 DEF Stays, UndoStack, RedoStack, DiskThen
  <1>3. CASE wrote = {} /\ WriterFails
    <2>1. /\ holder = "apply" /\ holder' = "none" /\ wrote = {} /\ wrote' = {}
          /\ UNCHANGED <<disk, undo, redo>>
      BY <1>3 DEF WriterFails, Release, stacks
    <2> QED BY <2>1 DEF Stays, UndoStack, RedoStack, DiskThen
  <1> QED BY <1>1, <1>2, <1>3

LEMMA QuietUndo == QuietHistory /\ FinishUndo => Timeline!Undo
  <1> SUFFICES ASSUME QuietHistory, FinishUndo
               PROVE  Timeline!Undo
    OBVIOUS
  <1>1. /\ undo \in Seq(Record) /\ redo \in Seq(Record) /\ cur \in Record /\ disk \in States
        /\ cur.files \subseteq Files
    BY DEF QuietHistory, TypeOK, States, Record
  <1>2. /\ holder = "undo" /\ wrote = cur.files /\ Restoring
        /\ holder' = "none" /\ wrote' = {} /\ disk' = disk
        /\ undo' = undo /\ redo' = Append(redo, cur)
    BY DEF FinishUndo, Release, QuietHistory, HistoryLinked, Progress, Restoring
  <1>3. UndoStack = Append(undo, cur) /\ RedoStack = redo
    BY <1>2 DEF UndoStack, RedoStack
  <1>4. UndoStack' = undo /\ RedoStack' = Append(redo, cur)
    BY <1>2 DEF UndoStack, RedoStack
  <1>5. DiskThen = Overlay(disk, cur.after, cur.files)
    <2>1. \A f \in Files : DiskThen[f] = Overlay(disk, cur.after, cur.files)[f]
      BY <1>2 DEF DiskThen, Overlay
    <2> QED BY <2>1 DEF DiskThen, Overlay
  <1>6. DiskThen' = Overlay(disk, cur.before, cur.files)
    <2>1. \A f \in cur.files : disk[f] = cur.before[f]
      BY <1>2, QuietFaces DEF Target
    <2>2. \A f \in Files : DiskThen'[f] = Overlay(disk, cur.before, cur.files)[f]
      BY <1>2, <2>1 DEF DiskThen, Overlay
    <2> QED BY <2>2 DEF DiskThen, Overlay
  <1>7. Line' = Line
    BY <1>1, <1>3, <1>4, <1>5, <1>6, LineIs, LineThen, RecordMoves
  <1>8. Pos' = Len(undo) + 1 /\ Pos = Len(undo) + 1 + 1 /\ Len(undo) \in Nat
    BY <1>1, <1>3, <1>4, LineIs, LineThen, PushFacts
  <1>9. Pos > 1 /\ Pos' = Pos - 1
    BY <1>8
  <1> QED BY <1>7, <1>9 DEF Timeline!Undo

LEMMA QuietRedo == QuietHistory /\ FinishRedo => Timeline!Redo
  <1> SUFFICES ASSUME QuietHistory, FinishRedo
               PROVE  Timeline!Redo
    OBVIOUS
  <1>1. /\ undo \in Seq(Record) /\ redo \in Seq(Record) /\ cur \in Record /\ disk \in States
        /\ cur.files \subseteq Files
    BY DEF QuietHistory, TypeOK, States, Record
  <1>2. /\ holder = "redo" /\ wrote = cur.files /\ Restoring
        /\ holder' = "none" /\ wrote' = {} /\ disk' = disk
        /\ redo' = redo /\ undo' = Append(undo, cur)
    BY DEF FinishRedo, Release, QuietHistory, HistoryLinked, Progress, Restoring
  <1>3. UndoStack = undo /\ RedoStack = Append(redo, cur)
    BY <1>2 DEF UndoStack, RedoStack
  <1>4. UndoStack' = Append(undo, cur) /\ RedoStack' = redo
    BY <1>2 DEF UndoStack, RedoStack
  <1>5. DiskThen = Overlay(disk, cur.before, cur.files)
    <2>1. \A f \in Files : DiskThen[f] = Overlay(disk, cur.before, cur.files)[f]
      BY <1>2 DEF DiskThen, Overlay
    <2> QED BY <2>1 DEF DiskThen, Overlay
  <1>6. DiskThen' = Overlay(disk, cur.after, cur.files)
    <2>1. \A f \in cur.files : disk[f] = cur.after[f]
      BY <1>2, QuietFaces DEF Target
    <2>2. \A f \in Files : DiskThen'[f] = Overlay(disk, cur.after, cur.files)[f]
      BY <1>2, <2>1 DEF DiskThen, Overlay
    <2> QED BY <2>2 DEF DiskThen, Overlay
  <1>7. Line' = Line
    BY <1>1, <1>3, <1>4, <1>5, <1>6, LineIs, LineThen, RecordMoves
  <1>8. Pos = Len(undo) + 1 /\ Pos' = Len(undo) + 1 + 1
    BY <1>1, <1>3, <1>4, LineIs, LineThen, PushFacts
  <1>9. Len(Line) = Len(undo) + 1 + (Len(redo) + 1) /\ Len(undo) \in Nat /\ Len(redo) \in Nat
    <2> DEFINE r == Append(redo, cur)
               d == Overlay(disk, cur.before, cur.files)
    <2>1. r \in Seq(Record) /\ Len(r) = Len(redo) + 1 /\ d \in States
          /\ Len(undo) \in Nat /\ Len(redo) \in Nat
      BY <1>1, PushFacts, OverlayTyped DEF Record
    <2>2. Line = LineOf(undo, r, d)
      BY <1>3, <1>5, LineIs
    <2> HIDE DEF r, d
    <2>3. Len(LineOf(undo, r, d)) = Len(undo) + 1 + Len(r)
      BY <1>1, <2>1, LineTyped
    <2> QED BY <2>1, <2>2, <2>3
  <1>10. Pos < Len(Line) /\ Pos' = Pos + 1
    BY <1>8, <1>9
  <1> QED BY <1>7, <1>10 DEF Timeline!Redo

LEMMA QuietGesture == QuietHistory /\ FinishApply => Timeline!Gesture(disk)
  <1> SUFFICES ASSUME QuietHistory, FinishApply
               PROVE  Timeline!Gesture(disk)
    OBVIOUS
  <1> DEFINE c == [cur EXCEPT !.after = Snapshot(cur.files), !.at = drift]
             u == Append(undo, c)
  <1>1. /\ undo \in Seq(Record) /\ redo \in Seq(Record) /\ cur \in Record /\ disk \in States
        /\ cur.files \subseteq Files
    BY DEF QuietHistory, TypeOK, States, Record
  <1>2. c \in Record /\ c.before = cur.before /\ c.files = cur.files
    <2>1. Snapshot(cur.files) \in [Files -> Bytes] /\ drift \in [Files -> Nat]
      BY <1>1, RecordFacts DEF QuietHistory
    <2> QED BY <1>1, <2>1 DEF Record
  <1>3. /\ holder = "apply" /\ phase = "write" /\ wrote \subseteq cur.files
        /\ holder' = "none" /\ wrote' = {} /\ disk' = disk
        /\ undo' = Drained(u) /\ redo' = <<>>
    BY DEF FinishApply, Release, QuietHistory, HistoryLinked, Progress
  <1> HIDE DEF c
  <1>4. u \in Seq(Record)
    BY <1>1, <1>2, PushFacts
  <1>5. UndoStack = undo /\ RedoStack = redo /\ Pos = Len(undo) + 1
    BY <1>3, LineIs DEF UndoStack, RedoStack
  <1>6. DiskThen = Overlay(disk, c.before, c.files)
    <2>1. \A f \in cur.files \ wrote : cur.before[f] = disk[f]
      BY <1>3 DEF QuietHistory, QuietInv
    <2>2. \A f \in Files : DiskThen[f] = Overlay(disk, c.before, c.files)[f]
      BY <1>2, <1>3, <2>1 DEF DiskThen, Overlay
    <2> QED BY <2>2 DEF DiskThen, Overlay
  <1>7. UndoStack' = Drained(u) /\ RedoStack' = <<>>
    BY <1>3 DEF UndoStack, RedoStack
  <1>8. DiskThen' = disk
    <2>1. DiskThen' = [f \in Files |-> disk[f]]
      BY <1>3 DEF DiskThen
    <2> QED BY <1>1, <2>1 DEF States
  <1> HIDE DEF u
  <1>9. Line' = LineOf(Drained(u), <<>>, disk) /\ Pos' = Len(Drained(u)) + 1
    BY <1>7, <1>8, LineThen
  <1>10. Line' = Timeline!Kept(LineOf(u, <<>>, disk))
    BY <1>1, <1>4, <1>9, DrainKeeps
  <1>11. LineOf(u, <<>>, disk) = Append(SubSeq(Line, 1, Pos), disk)
    BY <1>1, <1>2, <1>5, <1>6, LineIs, GestureExtends DEF u
  <1>12. Pos' = Len(Line')
    <2>1. Drained(u) \in Seq(Record)
      BY <1>4, DrainFacts
    <2> QED BY <1>1, <1>9, <2>1, LineOfUndo
  <1> QED BY <1>10, <1>11, <1>12 DEF Timeline!Gesture

LEMMA TimelineStep == QuietHistory /\ [QuietNext]_vars => [Timeline!Next]_<<Line, Pos>>
  <1> SUFFICES ASSUME QuietHistory, [QuietNext]_vars
               PROVE  Timeline!Next \/ UNCHANGED <<Line, Pos>>
    OBVIOUS
  <1>1. CASE FinishUndo
    BY <1>1, QuietUndo DEF Timeline!Next
  <1>2. CASE FinishRedo
    BY <1>2, QuietRedo DEF Timeline!Next
  <1>3. CASE FinishApply
    <2>1. disk \in Timeline!States
      BY DEF QuietHistory, TypeOK, Timeline!States
    <2> QED BY <1>3, <2>1, QuietGesture DEF Timeline!Next
  <1>4. CASE CanvasGesture \/ McpGesture \/ McpMove \/ BeginUndo \/ BeginRedo
    BY <1>4, BeginStays, StaysIsStutter
  <1>5. ASSUME NEW f \in Files, NEW c \in Content, WriteFile(f, c)
        PROVE  UNCHANGED <<Line, Pos>>
    BY <1>5, WriteFileStays, StaysIsStutter
  <1>6. ASSUME NEW f \in Files, CheckFile(f) \/ WriteBack(f)
        PROVE  UNCHANGED <<Line, Pos>>
    BY <1>6, RestoreStays, StaysIsStutter
  <1>7. CASE TakeBefore \/ RefreshToken \/ (wrote = {} /\ WriterFails) \/ UNCHANGED vars
    BY <1>7, OtherStays, StaysIsStutter
  <1>8. ~Discard
    BY QuietFaces
  <1> QED BY <1>1, <1>2, <1>3, <1>4, <1>5, <1>6, <1>7, <1>8 DEF QuietNext, Gate

LEMMA TimelineInit == Init => Timeline!Init
  <1> SUFFICES ASSUME Init
               PROVE  Timeline!Init
    OBVIOUS
  <1>1. /\ undo = <<>> /\ redo = <<>> /\ holder = "none" /\ wrote = {}
        /\ disk \in States
    BY DEF Init, States, Bytes
  <1>2. UndoStack = <<>> /\ RedoStack = <<>>
    BY <1>1 DEF UndoStack, RedoStack
  <1>3. DiskThen = disk
    <2>1. DiskThen = [f \in Files |-> disk[f]]
      BY <1>1 DEF DiskThen
    <2> QED BY <1>1, <2>1 DEF States
  <1>4. <<>> \in Seq(Record) /\ Len(<<>>) = 0
    BY EmptySeq
  <1>5. Line = LineOf(<<>>, <<>>, disk) /\ Pos = 1
    BY <1>2, <1>3, <1>4, LineIs
  <1>6. Line = <<disk>>
    <2> DEFINE e == <<>>
               l == LineOf(e, <<>>, disk)
               t == <<disk>>
    <2>1. e \in Seq(Record) /\ Len(e) = 0
      BY <1>4
    <2>2. t \in Seq(States) /\ Len(t) = 1 /\ t[1] = disk
      BY <1>1
    <2>3. Line = l
      BY <1>5
    <2> HIDE DEF e, t
    <2>4. BackOf(e, 0, disk) = disk
      BY <1>1, <2>1, ReachedNow
    <2>5. /\ l \in Seq(States) /\ Len(l) = Len(e) + 1
          /\ \A k \in 1..(Len(e) + 1) : l[k] = BackOf(e, Len(e) + 1 - k, disk)
      BY <1>1, <2>1, LineOfUndo
    <2> HIDE DEF l
    <2>6. Len(l) = Len(t) /\ \A k \in 1..Len(l) : l[k] = t[k]
      BY <2>1, <2>2, <2>4, <2>5
    <2>7. l = t
      BY <2>2, <2>5, <2>6, SeqEqual
    <2> QED BY <2>3, <2>7 DEF t
  <1> QED BY <1>1, <1>5, <1>6 DEF Timeline!Init, Timeline!States, States

(* The gate is the abstract timeline: as long as nobody writes around the mutex and a
   failing writer has written nothing, gestures, undos and redos of both drivers, in any
   interleaving of their file-system calls, are steps of UndoTimeline - apply() cuts and
   extends the line, undo() and redo() move the cursor to states that are, byte for byte,
   the ones the gestures left (gate.rs:84-108, 117-139). *)
THEOREM GateImplementsTimeline == QuietSpec => GateIsTimeline
  <1>1. QuietSpec => Spec
    BY QuietIsNext, PTL DEF QuietSpec, Spec
  <1>2. Init => QuietInv
    BY DEF Init, QuietInv
  <1>3. QuietSpec => [](TypeOK /\ HistoryLinked)
    BY <1>1, TypeCorrect, HistoryStaysLinked, PTL
  <1>4. QuietSpec => []QuietInv
    <2>1. TypeOK /\ HistoryLinked /\ QuietInv /\ [QuietNext]_vars => QuietInv'
      BY QuietStep DEF QuietHistory
    <2> QED BY <1>2, <1>3, <2>1, PTL DEF QuietSpec
  <1>5. TypeOK /\ HistoryLinked /\ QuietInv /\ [QuietNext]_vars => [Timeline!Next]_<<Line, Pos>>
    BY TimelineStep DEF QuietHistory
  <1> QED BY <1>3, <1>4, <1>5, TimelineInit, PTL DEF QuietSpec, GateIsTimeline, Timeline!Spec

================================================================================
