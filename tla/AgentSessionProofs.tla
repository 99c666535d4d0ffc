--------------------------- MODULE AgentSessionProofs ---------------------------
(***************************************************************************)
(* Theorems about a window's agent, for any number of sends in flight, any   *)
(* number of processes and any lag of the pumps.                             *)
(***************************************************************************)
EXTENDS AgentSession, SequenceTheorems, TLAPS

(* TypeOK, part by part *)
ProcessOK ==
    /\ agent \in Sessions \union {None} /\ spawned \in Ids
    /\ alive \subseteq Sessions /\ asked \subseteq Sessions
    /\ resumed \in [Sessions -> Ids \union {None}]
    /\ stdin \in [Sessions -> SUBSET Messages]
    /\ turn \in [Sessions -> {"idle", "busy", "asking"}]

PumpsOK ==
    /\ recorded \subseteq Sessions /\ pumping \subseteq Sessions
    /\ out \in [Sessions -> Seq(Events)]
    /\ \A n \in Sessions : Len(out[n]) <= Backlog + Held(n)

StateOK ==
    /\ pending \subseteq Sessions
    /\ resumeTarget \in Ids \union {None} /\ resumedFrom \in Ids \union {None}
    /\ rows \subseteq Ids /\ from \in [Ids -> Ids \union {None}]
    /\ calls \in [Senders -> {"idle", "ensure", "deliver"}]
    /\ command \in {None, New} \union Ids
    /\ orphans \subseteq Senders
    /\ running \in BOOLEAN /\ listening \in BOOLEAN /\ initial \in BOOLEAN
    /\ hydration \in {"asked", "answered", "done"} /\ shown \subseteq Sessions
    /\ tangled \in BOOLEAN /\ lost \in BOOLEAN /\ overtaken \in BOOLEAN

LEMMA TypeParts == TypeOK <=> ProcessOK /\ PumpsOK /\ StateOK
  BY DEF TypeOK, ProcessOK, PumpsOK, StateOK

LEMMA SessionNumbers == Sessions \subseteq Ids /\ 0 \in Ids /\ None \notin Sessions
  BY SpawnsAssumption, NoneAssumption DEF Sessions, Ids

LEMMA InitType == Init => TypeOK
<1> SUFFICES ASSUME Init PROVE TypeOK
  OBVIOUS
<1>1. ProcessOK
  BY SessionNumbers DEF Init, ProcessOK
<1>2. PumpsOK
  BY BacklogAssumption DEF Init, PumpsOK, Held
<1>3. StateOK
  BY SessionNumbers DEF Init, StateOK
<1> QED BY <1>1, <1>2, <1>3, TypeParts

--------------------------------------------------------------------------------
(* The channel *)

LEMMA EmitType ==
    ASSUME PumpsOK, NEW n \in Sessions, NEW e \in Events, Emit(n, e), UNCHANGED <<recorded, pumping>>
    PROVE  PumpsOK'
<1> DEFINE s == out[n]
           h == Held(n)
           lagged == SubSeq(s, 1, h) \o SubSeq(s, h + 2, Len(s))
<1>1. s \in Seq(Events) /\ Len(s) \in Nat /\ h \in {0, 1} /\ Len(s) <= Backlog + h /\ Backlog >= 1
      /\ Backlog \in Nat
  BY BacklogAssumption DEF PumpsOK, Held
<1>2. ASSUME Len(s) >= Backlog + h
      PROVE  lagged \o <<e>> \in Seq(Events) /\ Len(lagged \o <<e>>) = Backlog + h
  <2>1. Len(s) = Backlog + h
    BY <1>1, <1>2
  <2>2. SubSeq(s, 1, h) \in Seq(Events) /\ Len(SubSeq(s, 1, h)) = h
    BY <1>1, <2>1
  <2>3. SubSeq(s, h + 2, Len(s)) \in Seq(Events) /\ Len(SubSeq(s, h + 2, Len(s))) = Backlog - 1
    BY <1>1, <2>1
  <2> HIDE DEF s, h
  <2>4. lagged \in Seq(Events) /\ Len(lagged) = h + (Backlog - 1)
    BY <2>2, <2>3
  <2> HIDE DEF lagged
  <2> QED BY <1>1, <2>4
<1>3. ASSUME ~(Len(s) >= Backlog + h)
      PROVE  Append(s, e) \in Seq(Events) /\ Len(Append(s, e)) <= Backlog + h
  BY <1>1, <1>3
<1>4. out' = [out EXCEPT ![n] = IF Len(s) >= Backlog + h THEN lagged \o <<e>> ELSE Append(s, e)]
  BY DEF Emit, PumpsOK
<1>5. \A m \in Sessions : Held(m)' = Held(m)
  BY DEF Held
<1> DEFINE new == IF Len(s) >= Backlog + h THEN lagged \o <<e>> ELSE Append(s, e)
<1>6. new \in Seq(Events) /\ Len(new) <= Backlog + h
  BY <1>1, <1>2, <1>3
<1>7. out' = [out EXCEPT ![n] = new]
  BY <1>4
<1> HIDE DEF new, lagged
<1> QED BY <1>5, <1>6, <1>7 DEF PumpsOK

--------------------------------------------------------------------------------
(* The actions *)

LEMMA ExitType == ASSUME ProcessOK, NEW n, Exit(n), agent' \in {agent, None} PROVE ProcessOK'
  BY DEF ProcessOK, Exit

LEMMA WriteType ==
    ASSUME ProcessOK, NEW n, NEW m \in Messages, Write(n, m) \/ Read(n, m)
    PROVE  stdin' \in [Sessions -> SUBSET Messages]
  BY DEF ProcessOK, Write, Read

(* What the page does by itself *)
PageStep == Mount \/ Listen \/ GetState \/ Hydrate

LEMMA PageLeaves ==
    PageStep => UNCHANGED <<agent, process, pumps, pending, slots, store, calls, tangled, lost>>
  BY DEF PageStep, Mount, Listen, GetState, Hydrate, ghosts

(* ... and what a send_message call does but to spawn and to deliver *)
CallStep(s) == Send(s) \/ SendInitial(s) \/ HasSession(s) \/ NobodyToDeliverTo(s)

LEMMA CallLeaves ==
    ASSUME NEW s, CallStep(s) \/ SpawnFails(s)
    PROVE  /\ UNCHANGED <<agent, process, pumps, pending, resumedFrom, store, tangled, lost>>
           /\ resumeTarget' \in {resumeTarget, None}
           /\ CallStep(s) => resumeTarget' = resumeTarget
  BY DEF CallStep, Send, SendInitial, Call, HasSession, NobodyToDeliverTo, SpawnFails, slots, ghosts

LEMMA PumpsUntouched == PumpsOK /\ UNCHANGED pumps => PumpsOK'
  BY DEF PumpsOK, pumps, Held

LEMMA SendType ==
    ASSUME TypeOK, NEW s \in Senders,
           CallStep(s) \/ SpawnFails(s) \/ Spawn(s) \/ Deliver(s)
    PROVE  TypeOK'
<1>1. ProcessOK /\ PumpsOK /\ StateOK
  BY TypeParts
<1>2. CASE CallStep(s) \/ SpawnFails(s)
  <2>1. ProcessOK'
    BY <1>1, <1>2, CallLeaves DEF ProcessOK, process
  <2>2. PumpsOK'
    BY <1>1, <1>2, CallLeaves, PumpsUntouched
  <2>3. StateOK'
    BY <1>1, <1>2 DEF StateOK, CallStep, Send, SendInitial, Call, Return, HasSession, SpawnFails,
       NobodyToDeliverTo, mount, slots, store, ghosts
  <2> QED BY <2>1, <2>2, <2>3 DEF TypeOK, ProcessOK, PumpsOK, StateOK
<1>3. CASE Spawn(s)
  <2>1. spawned + 1 \in Sessions
    BY <1>1, <1>3, SpawnsAssumption DEF Spawn, ProcessOK, Ids, Sessions
  <2>2. ProcessOK'
    BY <1>1, <1>3, <2>1, SessionNumbers DEF Spawn, ProcessOK, StateOK
  <2>3. PumpsOK'
    BY <1>1, <1>3, <2>1 DEF Spawn, PumpsOK, Held
  <2>4. tangled' \in BOOLEAN
    BY <1>3 DEF Spawn
  <2>5. StateOK'
    BY <1>1, <1>3, <2>4 DEF Spawn, StateOK, mount, store
  <2> QED BY <2>2, <2>3, <2>5 DEF TypeOK, ProcessOK, PumpsOK, StateOK
<1>4. CASE Deliver(s)
  <2>1. "user" \in Messages
    BY DEF Messages
  <2>2. ProcessOK'
    BY <1>1, <1>4, <2>1, WriteType DEF Deliver, Return, ProcessOK
  <2>3. PumpsOK'
    BY <1>1, <1>4, PumpsUntouched DEF Deliver, Return
  <2>4. StateOK'
    BY <1>1, <1>4 DEF Deliver, Return, StateOK, mount, slots, store, ghosts
  <2> QED BY <2>2, <2>3, <2>4 DEF TypeOK, ProcessOK, PumpsOK, StateOK
<1> QED BY <1>2, <1>3, <1>4

LEMMA CommandType ==
    ASSUME TypeOK,
           \/ \E p \in pending : Respond(p)
           \/ \E id \in rows : ResumeSession(id)
           \/ InterruptAgent \/ NewSession \/ NewSessionDone \/ ArmResume \/ PageStep
    PROVE  TypeOK'
<1>1. ProcessOK /\ PumpsOK /\ StateOK
  BY TypeParts
<1>2. "answer" \in Messages /\ "interrupt" \in Messages
  BY DEF Messages
<1>3. PumpsOK'
  BY <1>1, PageLeaves, PumpsUntouched DEF Respond, ResumeSession, InterruptAgent, NewSession,
     NewSessionDone, ArmResume
<1>4. ASSUME NEW p \in pending, Respond(p) PROVE ProcessOK' /\ StateOK'
  <2>1. stdin' \in [Sessions -> SUBSET Messages]
    BY <1>1, <1>2, <1>4, WriteType DEF Respond, ProcessOK
  <2>2. ProcessOK'
    BY <1>1, <1>4, <2>1 DEF Respond, ProcessOK
  <2> QED BY <1>1, <1>4, <2>2 DEF Respond, StateOK, slots, store, page, mount, ghosts
<1>5. CASE InterruptAgent
  <2>1. ProcessOK'
    BY <1>1, <1>2, <1>5, WriteType DEF InterruptAgent, ProcessOK
  <2> QED BY <1>1, <1>3, <1>5, <2>1 DEF InterruptAgent, StateOK, slots, store, page, mount, ghosts, TypeOK,
          ProcessOK, PumpsOK
<1>6. ASSUME NewSession \/ \E id \in rows : ResumeSession(id) PROVE ProcessOK' /\ StateOK'
  <2>1. ProcessOK'
    BY <1>1, <1>6, ExitType DEF NewSession, ResumeSession, KillAgent
  <2> QED BY <1>1, <1>6, <2>1 DEF NewSession, ResumeSession, StateOK, mount, slots, store, ghosts
<1>7. CASE NewSessionDone \/ ArmResume
  <2>1. ProcessOK'
    BY <1>1, <1>7 DEF NewSessionDone, ArmResume, ProcessOK, process
  <2>2. running' \in BOOLEAN /\ tangled' \in BOOLEAN
    BY <1>1, <1>7 DEF NewSessionDone, ArmResume, StateOK, ghosts
  <2>3. StateOK'
    BY <1>1, <1>7, <2>2 DEF NewSessionDone, ArmResume, StateOK, mount, slots, store, ghosts
  <2> QED BY <1>3, <2>1, <2>3 DEF TypeOK, ProcessOK, PumpsOK, StateOK
<1>8. CASE PageStep
  <2>1. ProcessOK'
    BY <1>1, <1>8, PageLeaves DEF ProcessOK, process
  <2>2. /\ running' \in BOOLEAN /\ listening' \in BOOLEAN /\ initial' \in BOOLEAN
        /\ hydration' \in {"asked", "answered", "done"} /\ shown' \subseteq Sessions
        /\ orphans' \subseteq Senders /\ command' \in {None, New} \union Ids
        /\ overtaken' \in BOOLEAN
    BY <1>1, <1>8 DEF PageStep, Mount, Listen, GetState, Hydrate, StateOK, ghosts
  <2>3. StateOK'
    BY <1>1, <1>8, <2>2, PageLeaves DEF StateOK, slots, store
  <2> QED BY <1>3, <2>1, <2>3 DEF TypeOK, ProcessOK, PumpsOK, StateOK
<1> QED BY <1>3, <1>4, <1>5, <1>6, <1>7, <1>8 DEF TypeOK, ProcessOK, PumpsOK, StateOK

LEMMA CliType ==
    ASSUME TypeOK, NEW n \in Sessions,
           StartTurn(n) \/ IgnoreControl(n) \/ AskPermission(n) \/ ReadAnswer(n)
             \/ EndTurn(n) \/ Dies(n)
    PROVE  TypeOK'
<1>1. ProcessOK /\ PumpsOK /\ StateOK
  BY TypeParts
<1>2. Messages = {"user", "answer", "interrupt"} /\ Events = {"init", "prompt", "result"}
  BY DEF Messages, Events
<1>3. ProcessOK'
  <2>1. CASE Dies(n)
    BY <1>1, <2>1, ExitType DEF Dies
  <2>2. CASE ~Dies(n)
    <3>1. stdin' \in [Sessions -> SUBSET Messages]
      BY <1>1, <1>2, <2>2, WriteType DEF StartTurn, IgnoreControl, AskPermission, ReadAnswer,
         EndTurn, ProcessOK
    <3> QED BY <1>1, <2>2, <3>1 DEF StartTurn, IgnoreControl, AskPermission, ReadAnswer, EndTurn,
            ProcessOK
  <2> QED BY <2>1, <2>2
<1>4. PumpsOK'
  <2>1. CASE StartTurn(n) \/ AskPermission(n) \/ EndTurn(n)
    BY <1>1, <1>2, <2>1, EmitType DEF StartTurn, AskPermission, EndTurn
  <2>2. CASE IgnoreControl(n) \/ ReadAnswer(n) \/ Dies(n)
    BY <1>1, <2>2, PumpsUntouched DEF IgnoreControl, ReadAnswer, Dies
  <2> QED BY <2>1, <2>2
<1>5. lost' \in BOOLEAN
  BY <1>1 DEF StartTurn, AskPermission, EndTurn, Emit, IgnoreControl, ReadAnswer, Dies, StateOK,
     ghosts
<1>6. StateOK'
  BY <1>1, <1>5 DEF StartTurn, AskPermission, EndTurn, IgnoreControl, ReadAnswer, Dies, StateOK,
     slots, store, page, mount, ghosts
<1> QED BY <1>3, <1>4, <1>6 DEF TypeOK, ProcessOK, PumpsOK, StateOK

(* The event a pump has recorded is still the one it works on *)
RecordedHeld == \A n \in recorded : out[n] # <<>>

LEMMA PumpType ==
    ASSUME TypeOK, RecordedHeld, NEW n \in Sessions, Record(n) \/ Forward(n) \/ PumpEnds(n)
    PROVE  TypeOK'
<1>1. ProcessOK /\ PumpsOK /\ StateOK
  BY TypeParts
<1>2. ProcessOK'
  BY <1>1 DEF Record, Forward, TellEnd, PumpEnds, ProcessOK, process
<1>3. CASE Record(n)
  <2>1. PumpsOK'
    BY <1>1, <1>3, BacklogAssumption DEF Record, PumpsOK, Held
  <2>2. StateOK'
    BY <1>1, <1>3, SessionNumbers DEF Record, StartedRow, StateOK, page, mount, ghosts
  <2> QED BY <1>2, <2>1, <2>2 DEF TypeOK, ProcessOK, PumpsOK, StateOK
<1>4. CASE Forward(n)
  <2>1. Tail(out[n]) \in Seq(Events) /\ Len(Tail(out[n])) <= Backlog
    <3>1. out[n] \in Seq(Events) /\ out[n] # <<>> /\ Len(out[n]) <= Backlog + 1
      BY <1>1, <1>4, BacklogAssumption DEF Forward, TellEnd, RecordedHeld, PumpsOK, Held
    <3>2. Tail(out[n]) \in Seq(Events) /\ Len(Tail(out[n])) = Len(out[n]) - 1 /\ Len(out[n]) \in Nat
      BY <3>1
    <3> QED BY <3>1, <3>2, BacklogAssumption
  <2>2. StateOK'
    BY <1>1, <1>4 DEF Forward, TellEnd, StateOK, mount, slots, store, ghosts
  <2>3. PumpsOK'
    <3>1. out' = [out EXCEPT ![n] = Tail(@)] /\ recorded' = recorded \ {n} /\ pumping' = pumping
      BY <1>4 DEF Forward, TellEnd
    <3> QED BY <1>1, <2>1, <3>1, BacklogAssumption DEF PumpsOK, Held
  <2> QED BY <1>2, <2>2, <2>3 DEF TypeOK, ProcessOK, PumpsOK, StateOK
<1>5. CASE PumpEnds(n)
  <2>1. PumpsOK'
    BY <1>1, <1>5 DEF PumpEnds, TellEnd, PumpsOK, Held
  <2>2. StateOK'
    BY <1>1, <1>5 DEF PumpEnds, TellEnd, StateOK, mount, slots, store, ghosts
  <2> QED BY <1>2, <2>1, <2>2 DEF TypeOK, ProcessOK, PumpsOK, StateOK
<1> QED BY <1>3, <1>4, <1>5

LEMMA StepType == TypeOK /\ RecordedHeld /\ [Next]_vars => TypeOK'
<1> SUFFICES ASSUME TypeOK, RecordedHeld, [Next]_vars PROVE TypeOK'
  OBVIOUS
<1>1. CASE UNCHANGED vars
  BY <1>1 DEF TypeOK, Held, vars, process, pumps, slots, store, page, mount, ghosts
<1>2. CASE Next
  BY <1>2, SendType, CommandType, CliType, PumpType DEF Next, PageStep, CallStep
<1> QED BY <1>1, <1>2

LEMMA StepHeld == TypeOK /\ RecordedHeld /\ [Next]_vars => RecordedHeld'
<1> SUFFICES ASSUME TypeOK, RecordedHeld, [Next]_vars PROVE RecordedHeld'
  OBVIOUS
<1> USE DEF RecordedHeld
<1>1. ASSUME UNCHANGED <<out, recorded>> PROVE RecordedHeld'
  BY <1>1
<1>2. ASSUME NEW s \in Senders,
             CallStep(s) \/ SpawnFails(s) \/ Spawn(s) \/ Deliver(s)
      PROVE  RecordedHeld'
  BY <1>1, <1>2, CallLeaves DEF Spawn, Deliver, pumps
<1>3. CASE \/ \E p \in pending : Respond(p)
           \/ \E id \in rows : ResumeSession(id)
           \/ InterruptAgent \/ NewSession \/ NewSessionDone \/ ArmResume \/ PageStep
  BY <1>1, <1>3, PageLeaves DEF Respond, ResumeSession, InterruptAgent, NewSession, NewSessionDone,
     ArmResume, pumps
<1>4. ASSUME NEW n \in Sessions, StartTurn(n) \/ AskPermission(n) \/ EndTurn(n)
      PROVE  RecordedHeld'
  <2>1. PICK e \in Events : Emit(n, e) /\ UNCHANGED recorded
    BY <1>4 DEF StartTurn, AskPermission, EndTurn, Events
  <2>2. out[n] \in Seq(Events) /\ out \in [Sessions -> Seq(Events)]
    BY DEF TypeOK
  <2>3. Append(out[n], e) # <<>>
    BY <2>2
  <2>4. ASSUME NEW t \in Seq(Events) PROVE t \o <<e>> # <<>>
    BY <2>4
  <2>5. SubSeq(out[n], 1, Held(n)) \in Seq(Events)
        /\ SubSeq(out[n], Held(n) + 2, Len(out[n])) \in Seq(Events)
    <3>1. Len(out[n]) \in Nat /\ Held(n) \in {0, 1} /\ (Held(n) = 1 => out[n] # <<>>)
      BY <2>2 DEF Held
    <3> QED BY <2>2, <3>1
  <2>6. SubSeq(out[n], 1, Held(n)) \o SubSeq(out[n], Held(n) + 2, Len(out[n])) \in Seq(Events)
    BY <2>5
  <2>7. out'[n] # <<>> /\ \A m \in Sessions \ {n} : out'[m] = out[m]
    <3> DEFINE t == SubSeq(out[n], 1, Held(n)) \o SubSeq(out[n], Held(n) + 2, Len(out[n]))
    <3>1. t \o <<e>> # <<>>
      BY <2>4, <2>6
    <3>2. \/ out' = [out EXCEPT ![n] = t \o <<e>>]
          \/ out' = [out EXCEPT ![n] = Append(out[n], e)]
      BY <2>1, <2>2 DEF Emit
    <3> HIDE DEF t
    <3> QED BY <2>2, <2>3, <3>1, <3>2
  <2> QED BY <2>1, <2>7 DEF TypeOK
<1>5. ASSUME NEW n \in Sessions, IgnoreControl(n) \/ ReadAnswer(n) \/ Dies(n)
      PROVE  RecordedHeld'
  BY <1>1, <1>5 DEF IgnoreControl, ReadAnswer, Dies, pumps
<1>6. ASSUME NEW n \in Sessions, Record(n) PROVE RecordedHeld'
  BY <1>6 DEF Record
<1>7. ASSUME NEW n \in Sessions, Forward(n) PROVE RecordedHeld'
  BY <1>7 DEF Forward, TellEnd, TypeOK
<1>8. ASSUME NEW n \in Sessions, PumpEnds(n) PROVE RecordedHeld'
  BY <1>1, <1>8 DEF PumpEnds, TellEnd
<1>9. CASE UNCHANGED vars
  BY <1>1, <1>9 DEF vars, pumps
<1> QED BY <1>2, <1>3, <1>4, <1>5, <1>6, <1>7, <1>8, <1>9 DEF Next, PageStep, CallStep

(* Every variable keeps its type, and no pump lags by more than the channel holds *)
THEOREM TypeCorrect == Spec => []TypeOK
<1>1. Init => TypeOK /\ RecordedHeld
  BY InitType DEF Init, RecordedHeld
<1> QED BY <1>1, StepType, StepHeld, PTL DEF Spec

--------------------------------------------------------------------------------
(* One process *)

LEMMA StepOneCli == TypeOK /\ OneCliPerWindow /\ [Next]_vars => OneCliPerWindow'
<1> SUFFICES ASSUME TypeOK, OneCliPerWindow, [Next]_vars PROVE OneCliPerWindow'
  OBVIOUS
<1> USE DEF OneCliPerWindow
<1>1. ASSUME UNCHANGED <<agent, alive>> PROVE OneCliPerWindow'
  BY <1>1
<1>2. ASSUME NEW n, Exit(n), agent' = agent \/ (n = agent /\ agent' = None) PROVE OneCliPerWindow'
  BY <1>2 DEF Exit
<1>3. ASSUME NEW s \in Senders, Spawn(s) PROVE OneCliPerWindow'
  <2>1. alive = {}
    BY <1>3, SessionNumbers DEF Spawn, TypeOK
  <2> QED BY <1>3, <2>1 DEF Spawn
<1>4. ASSUME NEW s \in Senders,
             CallStep(s) \/ SpawnFails(s) \/ Deliver(s)
      PROVE  OneCliPerWindow'
  BY <1>1, <1>4, CallLeaves DEF Deliver, process
<1>5. CASE NewSession \/ \E id \in rows : ResumeSession(id)
  BY <1>2, <1>5 DEF NewSession, ResumeSession, KillAgent
<1>6. CASE (\E p \in pending : Respond(p)) \/ InterruptAgent \/ NewSessionDone \/ ArmResume \/ PageStep
  BY <1>1, <1>6, PageLeaves DEF Respond, InterruptAgent, NewSessionDone, ArmResume, process
<1>7. ASSUME NEW n \in Sessions, Dies(n) PROVE OneCliPerWindow'
  BY <1>2, <1>7 DEF Dies
<1>8. ASSUME NEW n \in Sessions,
             StartTurn(n) \/ IgnoreControl(n) \/ AskPermission(n) \/ ReadAnswer(n) \/ EndTurn(n)
               \/ Record(n) \/ Forward(n) \/ PumpEnds(n)
      PROVE  OneCliPerWindow'
  BY <1>1, <1>8 DEF StartTurn, IgnoreControl, AskPermission, ReadAnswer, EndTurn, Record,
     Forward, PumpEnds, process
<1>9. CASE UNCHANGED vars
  BY <1>1, <1>9 DEF vars, process
<1> QED BY <1>3, <1>4, <1>5, <1>6, <1>7, <1>8, <1>9 DEF Next, PageStep, CallStep

(* However sends, kills, resumes, failed spawns and deaths interleave, no process outlives
   the mutex's hold on it. *)
THEOREM OneProcess == Spec => []OneCliPerWindow
<1>1. Init => OneCliPerWindow
  BY DEF Init, OneCliPerWindow
<1> QED BY <1>1, TypeCorrect, StepOneCli, PTL DEF Spec

--------------------------------------------------------------------------------
(* Numbers, and whose events are on the way *)

Has(q, e) == \E i \in 1..Len(q) : q[i] = e

(* The window's session is the last one spawned; of those to come there is no trace *)
Numbers ==
    /\ agent \in {None, spawned}
    /\ \A n \in Sessions : n > spawned =>
         /\ out[n] = <<>> /\ stdin[n] = {}
         /\ n \notin pending \union asked \union rows \union pumping
    /\ \A n \in Sessions : n \notin alive => turn[n] = "idle"
    /\ alive \subseteq pumping
    /\ ~lost /\ agent # None => agent \in alive

(* Nothing of the sessions before the last one is left in a pump *)
OnlyLatest == ~tangled => \A n \in Sessions : n # spawned => out[n] = <<>>

BaseInv == TypeOK /\ RecordedHeld /\ OneCliPerWindow /\ Numbers /\ OnlyLatest

LEMMA EmitAppends ==
    ASSUME TypeOK, NEW n \in Sessions, NEW e \in Events, Emit(n, e)
    PROVE  /\ \A m \in Sessions \ {n} : out'[m] = out[m]
           /\ lost => lost'
           /\ ~lost' => out' = [out EXCEPT ![n] = Append(out[n], e)]
<1>1. out \in [Sessions -> Seq(Events)] /\ lost \in BOOLEAN
  BY DEF TypeOK
<1>2. PICK q : out' = [out EXCEPT ![n] = q]
  BY DEF Emit
<1>3. ASSUME ~lost' PROVE out' = [out EXCEPT ![n] = Append(out[n], e)]
  BY <1>3 DEF Emit
<1>4. lost => lost'
  BY DEF Emit
<1> QED BY <1>1, <1>2, <1>3, <1>4

LEMMA AliveIsLatest ==
    ASSUME BaseInv, NEW n \in Sessions, n \in alive
    PROVE  n = agent /\ n = spawned
  BY SessionNumbers DEF BaseInv, OneCliPerWindow, Numbers

(* A spawn meets a number that nothing has used *)
LEMMA SpawnIsFresh ==
    ASSUME BaseInv, NEW s \in Senders, Spawn(s)
    PROVE  /\ spawned + 1 \in Sessions /\ spawned \in Nat
           /\ alive = {} /\ alive' = {spawned + 1}
           /\ out[spawned + 1] = <<>> /\ stdin[spawned + 1] = {} /\ turn[spawned + 1] = "idle"
           /\ spawned + 1 \notin pending \union asked \union rows \union pumping
           /\ resumed' = [resumed EXCEPT ![spawned + 1] = resumeTarget]
           /\ ~tangled' => ~tangled /\ (\A n \in Sessions : out[n] = <<>>) /\ command \notin Ids
<1>1. /\ spawned + 1 \in Sessions /\ spawned \in Nat /\ spawned + 1 > spawned
      /\ agent = None /\ None \notin Sessions
  BY SessionNumbers, SpawnsAssumption DEF Spawn, BaseInv, TypeOK, Sessions, Ids
<1>2. alive = {} /\ alive' = {spawned + 1}
  BY <1>1 DEF Spawn, BaseInv, TypeOK, OneCliPerWindow
<1>3. /\ out[spawned + 1] = <<>> /\ stdin[spawned + 1] = {} /\ turn[spawned + 1] = "idle"
      /\ spawned + 1 \notin pending \union asked \union rows \union pumping
  BY <1>1, <1>2 DEF BaseInv, Numbers
<1>4. resumed' = [resumed EXCEPT ![spawned + 1] = resumeTarget]
  BY DEF Spawn
<1>5. ~tangled' => ~tangled /\ ~Tangles
  BY DEF Spawn
<1>6. ~Tangles => (\A n \in Sessions : out[n] = <<>>) /\ command \notin Ids
  BY <1>1 DEF Tangles
<1> QED BY <1>1, <1>2, <1>3, <1>4, <1>5, <1>6

LEMMA StepNumbers == BaseInv /\ [Next]_vars => Numbers' /\ OnlyLatest'
<1> SUFFICES ASSUME BaseInv, [Next]_vars PROVE Numbers' /\ OnlyLatest'
  OBVIOUS
<1>1. /\ spawned \in Ids /\ agent \in Sessions \union {None} /\ None \notin Sessions
      /\ alive \subseteq Sessions /\ pending \subseteq Sessions /\ asked \subseteq Sessions
      /\ pumping \subseteq Sessions
      /\ out \in [Sessions -> Seq(Events)]
      /\ stdin \in [Sessions -> SUBSET Messages]
      /\ turn \in [Sessions -> {"idle", "busy", "asking"}]
      /\ lost \in BOOLEAN /\ tangled \in BOOLEAN
  BY SessionNumbers DEF BaseInv, TypeOK
<1>2. Numbers /\ OnlyLatest /\ alive \subseteq {agent} /\ RecordedHeld
  BY DEF BaseInv, OneCliPerWindow
<1>3. \A n \in Sessions : n = spawned => ~(n > spawned)
  BY <1>1 DEF Ids, Sessions
<1>4. ASSUME UNCHANGED <<process, out, pumping, rows>>, pending' \subseteq pending, lost => lost',
             agent' = agent, tangled => tangled'
      PROVE  Numbers' /\ OnlyLatest'
  BY <1>2, <1>4 DEF Numbers, OnlyLatest, process
<1>5. ASSUME NEW s \in Senders,
             CallStep(s) \/ SpawnFails(s)
      PROVE  Numbers' /\ OnlyLatest'
  BY <1>4, <1>5, CallLeaves DEF pumps, store
<1>6. CASE NewSessionDone \/ ArmResume \/ PageStep
  <2>1. CASE NewSessionDone
    BY <1>4, <2>1 DEF NewSessionDone, pumps, store, ghosts
  <2>2. CASE ArmResume
    BY <1>4, <2>2 DEF ArmResume, pumps, store
  <2>3. CASE PageStep
    BY <1>4, <2>3, PageLeaves DEF pumps, store
  <2> QED BY <1>6, <2>1, <2>2, <2>3
<1>7. ASSUME NEW s \in Senders, Spawn(s) PROVE Numbers' /\ OnlyLatest'
  <2>1. /\ spawned + 1 \in Sessions /\ spawned \in Nat
        /\ alive = {} /\ alive' = {spawned + 1}
        /\ ~tangled' => \A n \in Sessions : out[n] = <<>>
    BY <1>7, SpawnIsFresh
  <2>2. /\ agent' = spawned + 1 /\ spawned' = spawned + 1
        /\ pumping' = pumping \union {spawned + 1}
        /\ UNCHANGED <<out, stdin, pending, asked, rows, turn, lost>>
    BY <1>7 DEF Spawn, store
  <2>3. \A n \in Sessions : n > spawned' => n > spawned /\ n # spawned + 1
    BY <2>1, <2>2 DEF Sessions
  <2>4. \A n \in Sessions : turn'[n] = "idle"
    BY <1>2, <2>1, <2>2 DEF Numbers
  <2>5. \A n \in Sessions : n > spawned' =>
          /\ out'[n] = <<>> /\ stdin'[n] = {}
          /\ n \notin pending' \union asked' \union rows' \union pumping'
    BY <1>2, <2>2, <2>3 DEF Numbers
  <2>6. Numbers'
    BY <2>1, <2>2, <2>4, <2>5 DEF Numbers
  <2> QED BY <2>1, <2>2, <2>6 DEF OnlyLatest
<1>8. ASSUME NEW n \in Sessions, NEW m, Write(n, m), n = agent, pending' \subseteq pending,
             UNCHANGED <<agent, spawned, alive, turn, asked, out, pumping, rows, ghosts>>
      PROVE  Numbers' /\ OnlyLatest'
  <2>1. n = spawned /\ \A k \in Sessions \ {n} : stdin'[k] = stdin[k]
    BY <1>1, <1>2, <1>8 DEF Write, Numbers
  <2> QED BY <1>2, <1>3, <1>8, <2>1 DEF Numbers, OnlyLatest, ghosts
<1>9. ASSUME NEW s \in Senders, Deliver(s) PROVE Numbers' /\ OnlyLatest'
  BY <1>1, <1>8, <1>9 DEF Deliver, Return, pumps, store
<1>10. ASSUME NEW p \in pending, Respond(p) PROVE Numbers' /\ OnlyLatest'
  <2>1. CASE p = agent
    BY <1>1, <1>8, <1>10, <2>1 DEF Respond, pumps, store
  <2>2. CASE p # agent
    BY <1>4, <1>10, <2>2 DEF Respond, process, pumps, store, ghosts
  <2> QED BY <2>1, <2>2
<1>11. CASE InterruptAgent
  BY <1>1, <1>8, <1>11 DEF InterruptAgent, pumps, store
<1>12. ASSUME NEW n, Exit(n), UNCHANGED <<out, pumping, rows>>, pending' \subseteq pending,
              lost => lost', tangled => tangled',
              agent' = None \/ (agent' = agent /\ lost')
       PROVE  Numbers' /\ OnlyLatest'
  <2>1. \A k \in Sessions : stdin[k] = {} => stdin'[k] = {}
    BY <1>12 DEF Exit
  <2>2. \A k \in Sessions : k \notin alive' => turn'[k] = "idle"
    BY <1>2, <1>12 DEF Exit, Numbers
  <2>3. alive' \subseteq alive /\ asked' \subseteq asked /\ spawned' = spawned
    BY <1>12 DEF Exit
  <2> QED BY <1>2, <1>12, <2>1, <2>2, <2>3 DEF Numbers, OnlyLatest
<1>13. CASE NewSession \/ \E id \in rows : ResumeSession(id)
  <2>1. CASE NewSession
    BY <1>12, <2>1 DEF NewSession, KillAgent, pumps, store, ghosts
  <2>2. CASE \E id \in rows : ResumeSession(id)
    BY <1>12, <2>2 DEF ResumeSession, KillAgent, pumps, store, ghosts
  <2> QED BY <1>13, <2>1, <2>2
<1>14. ASSUME NEW n \in Sessions, Dies(n) PROVE Numbers' /\ OnlyLatest'
  BY <1>12, <1>14 DEF Dies, pumps, store

(* what the process itself does *)
<1>15. ASSUME NEW n \in Sessions, n \in alive, lost => lost', tangled => tangled',
              \A k \in Sessions \ {n} : out'[k] = out[k] /\ stdin'[k] = stdin[k] /\ turn'[k] = turn[k],
              asked' \subseteq asked \union {n},
              UNCHANGED <<agent, spawned, alive, pending, rows, pumping>>
       PROVE  Numbers' /\ OnlyLatest'
  <2>1. n = spawned
    BY <1>15, AliveIsLatest
  <2> QED BY <1>2, <1>3, <1>15, <2>1 DEF Numbers, OnlyLatest
<1>16. ASSUME NEW n \in Sessions, NEW m, Read(n, m) \/ stdin' = stdin
       PROVE  \A k \in Sessions \ {n} : stdin'[k] = stdin[k]
  BY <1>1, <1>16 DEF Read
<1>17. ASSUME NEW n \in Sessions, StartTurn(n) \/ AskPermission(n) \/ EndTurn(n)
       PROVE  Numbers' /\ OnlyLatest'
  <2>1. PICK e \in Events : Emit(n, e)
    BY <1>17 DEF StartTurn, AskPermission, EndTurn, Events
  <2>2. (\A k \in Sessions \ {n} : out'[k] = out[k]) /\ (lost => lost')
    BY <2>1, EmitAppends DEF BaseInv
  <2>3. \A k \in Sessions \ {n} : stdin'[k] = stdin[k]
    BY <1>16, <1>17 DEF StartTurn, AskPermission, EndTurn
  <2>4. \A k \in Sessions \ {n} : turn'[k] = turn[k]
    BY <1>1, <1>17 DEF StartTurn, AskPermission, EndTurn
  <2>5. n \in alive /\ asked' \subseteq asked \union {n} /\ tangled' = tangled
        /\ UNCHANGED <<agent, spawned, alive, pending, rows, pumping>>
    BY <1>17 DEF StartTurn, AskPermission, EndTurn, store
  <2> QED BY <1>15, <2>2, <2>3, <2>4, <2>5
<1>18. ASSUME NEW n \in Sessions, IgnoreControl(n) \/ ReadAnswer(n) PROVE Numbers' /\ OnlyLatest'
  <2>1. \A k \in Sessions \ {n} : stdin'[k] = stdin[k]
    BY <1>16, <1>18 DEF IgnoreControl, ReadAnswer
  <2>2. \A k \in Sessions \ {n} : turn'[k] = turn[k]
    BY <1>1, <1>18 DEF IgnoreControl, ReadAnswer
  <2>3. n \in alive /\ UNCHANGED <<agent, spawned, alive, asked, out, pending, rows, pumping, ghosts>>
    BY <1>18 DEF IgnoreControl, ReadAnswer, pumps, store
  <2> QED BY <1>15, <2>1, <2>2, <2>3 DEF ghosts

(* ... and its pump *)
<1>19. ASSUME NEW n \in Sessions, Record(n) PROVE Numbers' /\ OnlyLatest'
  <2>1. ~(n > spawned) /\ rows' \subseteq rows \union {n}
        /\ UNCHANGED <<agent, process, out, pumping, pending, ghosts>>
    BY <1>2, <1>19 DEF Record, StartedRow, Numbers
  <2> QED BY <1>2, <2>1 DEF Numbers, OnlyLatest, process, ghosts
<1>20. ASSUME NEW n \in Sessions, Forward(n) PROVE Numbers' /\ OnlyLatest'
  <2>1. ~(n > spawned) /\ out[n] # <<>>
    BY <1>2, <1>20 DEF Forward, TellEnd, RecordedHeld, Numbers
  <2>2. /\ out' = [out EXCEPT ![n] = Tail(out[n])]
        /\ UNCHANGED <<agent, process, rows, pumping, tangled, lost>>
    BY <1>20 DEF Forward, TellEnd, store
  <2>3. pending' \subseteq pending \union {n}
    BY <1>20 DEF Forward, TellEnd
  <2>4. \A k \in Sessions \ {n} : out'[k] = out[k]
    BY <1>1, <2>2
  <2>5. Numbers'
    BY <1>2, <2>1, <2>2, <2>3, <2>4 DEF Numbers, process, ghosts
  <2>6. OnlyLatest'
    BY <1>2, <2>1, <2>2, <2>4 DEF OnlyLatest, process, ghosts
  <2> QED BY <2>5, <2>6
<1>21. ASSUME NEW n \in Sessions, PumpEnds(n) PROVE Numbers' /\ OnlyLatest'
  <2>1. n \notin alive /\ pumping' = pumping \ {n}
        /\ UNCHANGED <<agent, process, out, pending, rows, tangled, lost>>
    BY <1>21 DEF PumpEnds, TellEnd, Closed, store
  <2> QED BY <1>2, <2>1 DEF Numbers, OnlyLatest, process, ghosts
<1>22. CASE UNCHANGED vars
  BY <1>4, <1>22 DEF vars, pumps, store, ghosts
<1> QED BY <1>5, <1>6, <1>7, <1>9, <1>10, <1>11, <1>13, <1>14, <1>17, <1>18, <1>19, <1>20,
           <1>21, <1>22 DEF Next, PageStep, CallStep

--------------------------------------------------------------------------------
(* A prompt waits until it is answered *)

Answerable(n) == "answer" \in stdin[n] \/ n \in pending \/ Has(out[n], "prompt")

(* While a turn waits for its answer, the last thing its process said is the prompt *)
Asking ==
    ~tangled /\ ~lost => \A n \in alive :
        turn[n] = "asking" =>
            /\ out[n] = <<>> \/ out[n][Len(out[n])] = "prompt"
            /\ Answerable(n)

LEMMA LastOfAppend ==
    ASSUME NEW q \in Seq(Events), NEW e \in Events
    PROVE  /\ Append(q, e) \in Seq(Events) /\ Append(q, e) # <<>>
           /\ Append(q, e)[Len(Append(q, e))] = e
           /\ Has(Append(q, e), e)
           /\ \A f \in Events : Has(Append(q, e), f) <=> f = e \/ Has(q, f)
<1>1. /\ Len(q) \in Nat /\ Len(Append(q, e)) = Len(q) + 1 /\ Append(q, e) \in Seq(Events)
      /\ Append(q, e)[Len(q) + 1] = e
      /\ \A i \in 1..Len(q) : Append(q, e)[i] = q[i]
  OBVIOUS
<1>2. Append(q, e) # <<>> /\ Len(q) + 1 \in 1..Len(Append(q, e))
  BY <1>1
<1>3. \A i \in 1..Len(Append(q, e)) : i \in 1..Len(q) \/ i = Len(q) + 1
  BY <1>1
<1>4. \A i \in 1..Len(q) : i \in 1..Len(Append(q, e))
  BY <1>1
<1> HIDE DEF Append
<1> QED BY <1>1, <1>2, <1>3, <1>4 DEF Has

LEMMA LastOfTail ==
    ASSUME NEW q \in Seq(Events), q # <<>>
    PROVE  /\ Tail(q) \in Seq(Events)
           /\ Tail(q) # <<>> => Tail(q)[Len(Tail(q))] = q[Len(q)]
           /\ Tail(q) = <<>> => Head(q) = q[Len(q)]
           /\ Tail(q) # <<>> => Has(Tail(q), q[Len(q)])
           /\ \A f \in Events : Has(q, f) <=> f = Head(q) \/ Has(Tail(q), f)
<1>1. /\ Len(q) \in Nat /\ Len(q) >= 1 /\ Len(Tail(q)) = Len(q) - 1 /\ Tail(q) \in Seq(Events)
      /\ Head(q) = q[1]
      /\ \A i \in 1..Len(Tail(q)) : Tail(q)[i] = q[i + 1]
  OBVIOUS
<1>2. Tail(q) # <<>> => Len(Tail(q)) \in 1..Len(Tail(q)) /\ Len(Tail(q)) + 1 = Len(q)
  BY <1>1
<1>3. Tail(q) = <<>> => Len(q) = 1
  BY <1>1
<1>4. \A f \in Events : Has(q, f) <=> f = Head(q) \/ Has(Tail(q), f)
  <2>1. 1 \in 1..Len(q) /\ \A i \in 1..Len(q) : i = 1 \/ i - 1 \in 1..Len(Tail(q))
    BY <1>1
  <2>2. \A i \in 1..Len(q) : i - 1 \in 1..Len(Tail(q)) => Tail(q)[i - 1] = q[i]
    BY <1>1
  <2>3. \A i \in 1..Len(Tail(q)) : i + 1 \in 1..Len(q)
    BY <1>1
  <2> HIDE DEF Tail, Head
  <2> SUFFICES ASSUME NEW f \in Events PROVE Has(q, f) <=> f = Head(q) \/ Has(Tail(q), f)
    OBVIOUS
  <2>4. Has(q, f) => f = Head(q) \/ Has(Tail(q), f)
    BY <1>1, <2>1, <2>2 DEF Has
  <2>5. f = Head(q) \/ Has(Tail(q), f) => Has(q, f)
    BY <1>1, <2>1, <2>3 DEF Has
  <2> QED BY <2>4, <2>5
<1>5. Tail(q) # <<>> => Has(Tail(q), q[Len(q)])
  BY <1>1, <1>2 DEF Has
<1> QED BY <1>1, <1>2, <1>3, <1>4, <1>5

LEMMA StepAsking == BaseInv /\ Asking /\ [Next]_vars => Asking'
<1> SUFFICES ASSUME BaseInv, Asking, [Next]_vars, ~tangled', ~lost' PROVE Asking'
  BY DEF Asking
<1>1. /\ agent \in Sessions \union {None} /\ None \notin Sessions
      /\ alive \subseteq Sessions /\ pending \subseteq Sessions
      /\ out \in [Sessions -> Seq(Events)]
      /\ stdin \in [Sessions -> SUBSET Messages]
      /\ turn \in [Sessions -> {"idle", "busy", "asking"}]
      /\ lost \in BOOLEAN /\ tangled \in BOOLEAN
  BY SessionNumbers DEF BaseInv, TypeOK
<1>2. alive \subseteq {agent} /\ RecordedHeld /\ TypeOK
  BY DEF BaseInv, OneCliPerWindow
<1>3. ASSUME tangled => tangled', lost => lost', alive' \subseteq alive,
             \A n \in alive' : /\ turn'[n] = "asking" => turn[n] = "asking"
                               /\ out'[n] = out[n]
                               /\ Answerable(n) => Answerable(n)'
      PROVE  Asking'
  BY <1>3 DEF Asking
<1>4. ASSUME tangled => tangled', lost => lost', UNCHANGED <<process, out>>,
             \A n \in alive : n \in pending => n \in pending'
      PROVE  Asking'
  BY <1>3, <1>4 DEF process, Answerable, Has
<1>5. ASSUME NEW s \in Senders,
             CallStep(s) \/ SpawnFails(s)
      PROVE  Asking'
  BY <1>4, <1>5, CallLeaves DEF pumps
<1>6. CASE NewSessionDone
  BY <1>4, <1>6 DEF NewSessionDone, pumps, ghosts
<1>7. CASE PageStep
  BY <1>4, <1>7, PageLeaves DEF pumps
<1>8. CASE ArmResume
  <2>1. agent = None /\ alive' = alive
    BY <1>8 DEF ArmResume, process
  <2>2. alive' = {}
    BY <1>1, <1>2, <2>1
  <2> QED BY <2>2 DEF Asking
<1>9. ASSUME NEW s \in Senders, Spawn(s) PROVE Asking'
  <2>1. alive' = {spawned + 1} /\ turn[spawned + 1] = "idle"
    BY <1>9, SpawnIsFresh
  <2>2. turn' = turn
    BY <1>9 DEF Spawn
  <2> QED BY <2>1, <2>2 DEF Asking
<1>10. ASSUME NEW m, Write(agent, m), agent # None, UNCHANGED <<alive, turn, out, ghosts>>,
              \A n \in alive : n \in pending => n \in pending' \/ m = "answer"
       PROVE  Asking'
  <2>1. stdin'[agent] = stdin[agent] \union {m}
    BY <1>1, <1>10 DEF Write
  <2>2. \A n \in alive : Answerable(n) => Answerable(n)'
    BY <1>2, <1>10, <2>1 DEF Answerable, Has
  <2> QED BY <1>3, <1>10, <2>2 DEF ghosts
<1>11. ASSUME NEW s \in Senders, Deliver(s) PROVE Asking'
  BY <1>10, <1>11 DEF Deliver, Return, pumps
<1>12. CASE InterruptAgent
  BY <1>10, <1>12 DEF InterruptAgent, pumps
<1>13. ASSUME NEW p \in pending, Respond(p) PROVE Asking'
  <2>1. CASE p = agent
    BY <1>10, <1>13, <2>1 DEF Respond, pumps
  <2>2. CASE p # agent
    <3>1. \A n \in alive : n \in pending => n \in pending'
      BY <1>2, <1>13, <2>2 DEF Respond
    <3> QED BY <1>4, <1>13, <2>2, <3>1 DEF Respond, process, pumps, ghosts
  <2> QED BY <2>1, <2>2
<1>14. ASSUME KillAgent PROVE Asking'
  <2>1. alive' = {}
    BY <1>2, <1>14 DEF KillAgent, Exit
  <2> QED BY <2>1 DEF Asking
<1>15. CASE NewSession \/ \E id \in rows : ResumeSession(id)
  BY <1>14, <1>15 DEF NewSession, ResumeSession
<1>16. ASSUME NEW n \in Sessions, Dies(n) PROVE Asking'
  BY <1>16 DEF Dies
<1>17. ASSUME NEW n \in Sessions, StartTurn(n) \/ EndTurn(n) PROVE Asking'
  <2>1. alive' = alive /\ n \in alive /\ turn'[n] # "asking"
    BY <1>1, <1>17 DEF StartTurn, EndTurn
  <2>2. alive' \subseteq {n}
    BY <1>2, <2>1
  <2> QED BY <2>1, <2>2 DEF Asking
<1>18. ASSUME NEW n \in Sessions, AskPermission(n) PROVE Asking'
  <2>1. n \in alive /\ alive' = alive /\ Emit(n, "prompt")
    BY <1>18 DEF AskPermission
  <2>2. out' = [out EXCEPT ![n] = Append(out[n], "prompt")]
    BY <1>2, <2>1, EmitAppends DEF Events
  <2>3. out'[n] = Append(out[n], "prompt") /\ alive' \subseteq {n}
    BY <1>1, <1>2, <2>1, <2>2
  <2>4. out'[n][Len(out'[n])] = "prompt" /\ Has(out'[n], "prompt")
    BY <1>1, <2>3, LastOfAppend DEF Events
  <2> QED BY <2>3, <2>4 DEF Asking, Answerable, Has
<1>19. ASSUME NEW n \in Sessions, IgnoreControl(n) \/ ReadAnswer(n) PROVE Asking'
  <2>1. /\ turn'[n] # "asking" /\ alive' = alive /\ n \in alive
    BY <1>1, <1>19 DEF IgnoreControl, ReadAnswer
  <2>2. alive' \subseteq {n}
    BY <1>2, <2>1
  <2> QED BY <2>1, <2>2 DEF Asking
<1>20. ASSUME NEW n \in Sessions, Record(n) PROVE Asking'
  BY <1>4, <1>20 DEF Record, ghosts
<1>21. ASSUME NEW n \in Sessions, Forward(n) PROVE Asking'
  <2>1. /\ out' = [out EXCEPT ![n] = Tail(out[n])] /\ out[n] # <<>> /\ out[n] \in Seq(Events)
        /\ UNCHANGED <<process, tangled, lost>>
        /\ pending' = CASE Head(out[n]) = "prompt" -> pending \union {n}
                        [] Head(out[n]) = "result" -> {}
                        [] OTHER -> pending
    BY <1>1, <1>2, <1>21 DEF Forward, TellEnd, RecordedHeld
  <2>2. n = spawned
    BY <2>1 DEF BaseInv, OnlyLatest, ghosts
  <2> SUFFICES ASSUME NEW a \in alive, turn[a] = "asking"
               PROVE  /\ out'[a] = <<>> \/ out'[a][Len(out'[a])] = "prompt"
                      /\ "answer" \in stdin[a] \/ a \in pending' \/ Has(out'[a], "prompt")
    BY <2>1 DEF Asking, Answerable, Has, process
  <2>3. a = n /\ out'[a] = Tail(out[n])
    BY <1>1, <2>1, <2>2, AliveIsLatest
  <2>4. /\ out[n][Len(out[n])] = "prompt"
        /\ "answer" \in stdin[n] \/ n \in pending \/ Has(out[n], "prompt")
    BY <2>1, <2>3 DEF Asking, Answerable, ghosts
  <2>5. /\ Tail(out[n]) # <<>> => Tail(out[n])[Len(Tail(out[n]))] = "prompt"
                                  /\ Has(Tail(out[n]), "prompt")
        /\ Tail(out[n]) = <<>> => Head(out[n]) = "prompt"
    BY <2>1, <2>4, LastOfTail
  <2> QED BY <2>1, <2>3, <2>5
<1>22. ASSUME NEW n \in Sessions, PumpEnds(n) PROVE Asking'
  BY <1>4, <1>22 DEF PumpEnds, TellEnd, ghosts
<1>23. CASE UNCHANGED vars
  BY <1>4, <1>23 DEF vars, pumps, ghosts
<1> QED BY <1>5, <1>6, <1>7, <1>8, <1>9, <1>11, <1>12, <1>13, <1>15, <1>16, <1>17, <1>18, <1>19,
           <1>20, <1>21, <1>22, <1>23 DEF Next, PageStep, CallStep

--------------------------------------------------------------------------------
(* The link of a resumed session *)

(* Between arming and spawning nothing is in a pump, so nobody takes the link; the session
   that resumes, and has yet to announce itself, finds it. *)
Links ==
    ~tangled /\ ~lost =>
        /\ resumeTarget # None => /\ agent = None /\ resumedFrom = resumeTarget
                                  /\ \A n \in Sessions : out[n] = <<>>
        /\ \A n \in Sessions : n \notin rows /\ resumed[n] # None /\ (n = agent \/ out[n] # <<>>)
                                => resumedFrom = resumed[n]
        /\ \A n \in rows : n # 0 /\ resumed[n] # None => from[n] = resumed[n]
        /\ \A i \in Ids \ rows : from[i] = None

LEMMA StepLinks == BaseInv /\ Links /\ [Next]_vars => Links'
<1> SUFFICES ASSUME BaseInv, Links, [Next]_vars, ~tangled', ~lost' PROVE Links'
  BY DEF Links
<1>1. /\ agent \in Sessions \union {None} /\ None \notin Sessions /\ spawned \in Ids
      /\ alive \subseteq Sessions
      /\ out \in [Sessions -> Seq(Events)]
      /\ resumed \in [Sessions -> Ids \union {None}]
      /\ rows \subseteq Ids /\ from \in [Ids -> Ids \union {None}]
      /\ lost \in BOOLEAN /\ tangled \in BOOLEAN
  BY SessionNumbers DEF BaseInv, TypeOK
<1>2. alive \subseteq {agent} /\ RecordedHeld /\ TypeOK
  BY DEF BaseInv, OneCliPerWindow
<1>3. ASSUME tangled => tangled', lost => lost', agent' \in {agent, None},
             UNCHANGED <<resumed, out, rows, from, resumedFrom>>,
             resumeTarget' \in {resumeTarget, None}
      PROVE  Links'
  BY <1>1, <1>3 DEF Links
<1>4. ASSUME NEW s \in Senders,
             CallStep(s) \/ Deliver(s)
      PROVE  Links'
  BY <1>3, <1>4, CallLeaves DEF Deliver, process, pumps, slots, store, ghosts
<1>5. ASSUME NEW s \in Senders, SpawnFails(s) PROVE Links'
  BY <1>3, <1>5, CallLeaves DEF process, pumps, store
<1>6. CASE \/ \E p \in pending : Respond(p)
           \/ InterruptAgent \/ NewSessionDone
  BY <1>3, <1>6 DEF Respond, InterruptAgent, NewSessionDone, process, pumps, slots, store, ghosts
<1>7. CASE PageStep
  BY <1>3, <1>7, PageLeaves DEF process, pumps, slots, store
<1>8. CASE NewSession
  BY <1>3, <1>8 DEF NewSession, KillAgent, Exit, pumps, slots, store, ghosts
<1>9. CASE \E id \in rows : ResumeSession(id)
  BY <1>3, <1>9 DEF ResumeSession, KillAgent, Exit, pumps, slots, store, ghosts
<1>10. CASE ArmResume
  <2>1. /\ agent = None /\ ~tangled /\ ~lost
        /\ \A n \in Sessions : out[n] = <<>>
        /\ resumedFrom' = resumeTarget'
        /\ UNCHANGED <<agent, resumed, out, rows, from>>
    BY <1>10 DEF ArmResume, process, pumps, store
  <2> QED BY <1>1, <2>1 DEF Links
<1>11. ASSUME NEW s \in Senders, Spawn(s) PROVE Links'
  <2> DEFINE n == spawned + 1
  <2>1. /\ n \in Sessions /\ ~tangled /\ ~lost
        /\ \A m \in Sessions : out[m] = <<>>
        /\ n \notin rows
        /\ resumed' = [resumed EXCEPT ![n] = resumeTarget]
        /\ agent' = n /\ resumeTarget' = None
        /\ UNCHANGED <<out, resumedFrom, rows, from>>
    BY <1>11, SpawnIsFresh DEF Spawn, store
  <2> HIDE DEF n
  <2>2. \A m \in Sessions \ {n} : resumed'[m] = resumed[m]
    BY <1>1, <2>1
  <2>3. resumed'[n] = resumeTarget
    BY <1>1, <2>1
  <2>4. resumeTarget # None => resumedFrom = resumeTarget
    BY <2>1 DEF Links
  <2>5. \A m \in Sessions : m \notin rows /\ resumed'[m] # None /\ (m = agent' \/ out[m] # <<>>)
                                => resumedFrom = resumed'[m]
    BY <2>1, <2>3, <2>4
  <2>6. \A m \in rows : m # 0 => m \in Sessions \ {n}
    BY <1>1, <2>1, SpawnsAssumption DEF Ids, Sessions
  <2>7. \A m \in rows : m # 0 /\ resumed'[m] # None => from[m] = resumed'[m]
    BY <2>1, <2>2, <2>6 DEF Links
  <2> QED BY <2>1, <2>5, <2>7 DEF Links
<1>12. ASSUME NEW n \in Sessions, StartTurn(n) \/ AskPermission(n) \/ EndTurn(n) PROVE Links'
  <2>1. PICK e \in Events : Emit(n, e)
    BY <1>12 DEF StartTurn, AskPermission, EndTurn, Events
  <2>2. (\A k \in Sessions \ {n} : out'[k] = out[k]) /\ (lost => lost')
    BY <1>2, <2>1, EmitAppends
  <2>3. n \in alive /\ n = agent
    BY <1>2, <1>12 DEF StartTurn, AskPermission, EndTurn
  <2>4. UNCHANGED <<agent, resumed, rows, from, resumedFrom, resumeTarget, tangled>>
    BY <1>12 DEF StartTurn, AskPermission, EndTurn, slots, store
  <2>5. resumeTarget = None
    BY <1>1, <2>2, <2>3, <2>4 DEF Links
  <2> QED BY <2>2, <2>3, <2>4, <2>5 DEF Links
<1>13. ASSUME NEW n \in Sessions, IgnoreControl(n) \/ ReadAnswer(n) PROVE Links'
  BY <1>3, <1>13 DEF IgnoreControl, ReadAnswer, pumps, slots, store, ghosts
<1>14. ASSUME NEW n \in Sessions, Dies(n) PROVE Links'
  BY <1>14 DEF Dies
<1>15. ASSUME NEW n \in Sessions, Record(n) PROVE Links'
  <2>1. out[n] # <<>> /\ UNCHANGED <<agent, process, out, resumeTarget, ghosts>>
    BY <1>15 DEF Record
  <2>2. ~tangled /\ ~lost /\ UNCHANGED resumed
    BY <2>1 DEF ghosts, process
  <2>3. CASE Head(out[n]) # "init"
    <3>1. UNCHANGED <<resumedFrom, rows, from>>
      BY <1>15, <2>3 DEF Record
    <3> QED BY <1>3, <2>1, <2>2, <3>1 DEF ghosts
  <2>4. CASE Head(out[n]) = "init"
    <3>1. /\ resumedFrom' = None /\ rows' = rows \union {n}
          /\ from' = IF from[n] = None THEN [from EXCEPT ![n] = resumedFrom] ELSE from
      BY <1>15, <2>4 DEF Record, StartedRow
    <3>2. resumeTarget = None
      BY <2>1, <2>2 DEF Links
    <3>3. n = spawned /\ n \in Ids /\ n # 0
      BY <2>1, <2>2, SessionNumbers DEF BaseInv, OnlyLatest, Sessions
    <3>4. \A m \in Sessions : m = agent \/ out[m] # <<>> => m = n
      BY <1>1, <2>2, <3>3 DEF BaseInv, OnlyLatest, Numbers
    <3>5. \A m \in rows \ {n} : from'[m] = from[m]
      BY <1>1, <3>1
    <3>6. resumed[n] # None => from'[n] = resumed[n]
      <4>1. CASE n \in rows
        BY <2>2, <3>1, <3>3, <4>1 DEF Links
      <4>2. CASE n \notin rows /\ from[n] = None
        BY <1>1, <2>1, <2>2, <3>1, <3>3, <4>2 DEF Links
      <4>3. CASE n \notin rows /\ from[n] # None
        BY <2>2, <3>3, <4>3 DEF Links
      <4> QED BY <4>1, <4>2, <4>3
    <3> QED BY <2>1, <2>2, <3>1, <3>2, <3>4, <3>5, <3>6 DEF Links
  <2> QED BY <2>3, <2>4
<1>16. ASSUME NEW n \in Sessions, Forward(n) PROVE Links'
  <2>1. /\ out' = [out EXCEPT ![n] = Tail(out[n])] /\ out[n] # <<>>
        /\ UNCHANGED <<agent, resumed, resumeTarget, resumedFrom, rows, from, tangled, lost>>
    BY <1>2, <1>16 DEF Forward, TellEnd, RecordedHeld, process, slots, store, ghosts
  <2>2. \A m \in Sessions : out'[m] # <<>> => out[m] # <<>>
    BY <1>1, <2>1
  <2> QED BY <2>1, <2>2 DEF Links
<1>17. ASSUME NEW n \in Sessions, PumpEnds(n) PROVE Links'
  BY <1>3, <1>17 DEF PumpEnds, TellEnd, process, slots, store, ghosts
<1>18. CASE UNCHANGED vars
  BY <1>3, <1>18 DEF vars, process, pumps, slots, store, ghosts
<1> QED BY <1>4, <1>5, <1>6, <1>7, <1>8, <1>9, <1>10, <1>11, <1>12, <1>13, <1>14, <1>15, <1>16,
           <1>17, <1>18 DEF Next, PageStep, CallStep

--------------------------------------------------------------------------------
(* Prompts and the turns they belong to *)

(* A process prompts once, and a prompt whose turn is over has that turn's result behind it *)
Paired(q, t) ==
    \A i \in 1..Len(q) : q[i] = "prompt" =>
        /\ \A j \in 1..Len(q) : q[j] = "prompt" => j = i
        /\ t = "asking" \/ \E j \in 1..Len(q) : j > i /\ q[j] = "result"

LEMMA PairedAppend ==
    ASSUME NEW q \in Seq(Events), NEW t, Paired(q, t)
    PROVE  /\ t = "idle" => Paired(Append(q, "init"), "busy")
           /\ Paired(Append(q, "result"), "idle")
           /\ ~Has(q, "prompt") => Paired(Append(q, "prompt"), "asking")
<1> SUFFICES ASSUME NEW e \in Events, NEW u,
                    \/ t = "idle" /\ e = "init" /\ u = "busy"
                    \/ e = "result" /\ u = "idle"
                    \/ e = "prompt" /\ u = "asking" /\ ~Has(q, "prompt")
             PROVE  Paired(Append(q, e), u)
  BY DEF Events
<1> DEFINE r == Append(q, e)
<1>1. Len(q) \in Nat /\ Len(r) = Len(q) + 1
  OBVIOUS
<1>2. r[Len(q) + 1] = e /\ \A i \in 1..Len(q) : r[i] = q[i]
  OBVIOUS
<1>3. 1..Len(q) \subseteq 1..Len(r) /\ Len(q) + 1 \in 1..Len(r)
      /\ (\A i \in 1..Len(q) : Len(q) + 1 > i)
      /\ \A i \in 1..Len(r) : i \in 1..Len(q) \/ i = Len(q) + 1
  BY <1>1
<1> HIDE DEF r
<1> SUFFICES ASSUME NEW i \in 1..Len(r), r[i] = "prompt"
             PROVE  /\ \A j \in 1..Len(r) : r[j] = "prompt" => j = i
                    /\ u = "asking" \/ \E j \in 1..Len(r) : j > i /\ r[j] = "result"
  BY DEF Paired, r
<1>4. CASE e = "prompt"
  <2>1. u = "asking" /\ \A j \in 1..Len(q) : q[j] # "prompt"
    BY <1>4 DEF Has
  <2> QED BY <1>2, <1>3, <2>1
<1>5. CASE e # "prompt"
  <2>1. i \in 1..Len(q) /\ q[i] = "prompt" /\ i < Len(q) + 1
    BY <1>1, <1>2, <1>3, <1>5
  <2>2. \A j \in 1..Len(r) : r[j] = "prompt" => j = i
    BY <1>2, <1>3, <1>5, <2>1 DEF Paired
  <2>3. CASE e = "result"
    BY <1>2, <1>3, <2>1, <2>2, <2>3
  <2>4. CASE t = "idle"
    <3>1. PICK j \in 1..Len(q) : j > i /\ q[j] = "result"
      BY <2>1, <2>4 DEF Paired
    <3>2. j \in 1..Len(r) /\ r[j] = "result"
      BY <1>2, <1>3, <3>1
    <3> QED BY <2>2, <3>1, <3>2
  <2> QED BY <1>5, <2>3, <2>4
<1> QED BY <1>4, <1>5

LEMMA PairedTail ==
    ASSUME NEW q \in Seq(Events), NEW t, Paired(q, t), q # <<>>
    PROVE  /\ Paired(Tail(q), t)
           /\ Head(q) = "prompt" => /\ ~Has(Tail(q), "prompt")
                                    /\ t = "asking" \/ Has(Tail(q), "result")
<1> DEFINE r == Tail(q)
<1>1. Len(q) \in Nat /\ Len(q) >= 1 /\ Len(r) = Len(q) - 1 /\ Head(q) = q[1]
  OBVIOUS
<1>2. \A i \in 1..Len(r) : r[i] = q[i + 1]
  OBVIOUS
<1>3. /\ \A i \in 1..Len(r) : i + 1 \in 1..Len(q) /\ i + 1 # 1 /\ i + 1 > 1 /\ (i + 1) - 1 = i
      /\ \A j \in 1..Len(q) : j > 1 => j - 1 \in 1..Len(r) /\ (j - 1) + 1 = j
      /\ 1 \in 1..Len(q)
      /\ \A i, k \in 1..Len(r) : i + 1 = k + 1 => i = k
      /\ \A i \in 1..Len(r), j \in 1..Len(q) : j > i + 1 => j > 1 /\ j - 1 > i
  BY <1>1
<1> HIDE DEF r
<1>4. \A j \in 1..Len(q) : j > 1 => r[j - 1] = q[j]
  BY <1>2, <1>3
<1>5. Paired(r, t)
  <2> SUFFICES ASSUME NEW i \in 1..Len(r), r[i] = "prompt"
               PROVE  /\ \A j \in 1..Len(r) : r[j] = "prompt" => j = i
                      /\ t = "asking" \/ \E j \in 1..Len(r) : j > i /\ r[j] = "result"
    BY DEF Paired
  <2>1. i + 1 \in 1..Len(q) /\ q[i + 1] = "prompt"
    BY <1>2, <1>3
  <2>2. \A j \in 1..Len(r) : r[j] = "prompt" => j = i
    BY <1>2, <1>3, <2>1 DEF Paired
  <2>3. ASSUME t # "asking" PROVE \E j \in 1..Len(r) : j > i /\ r[j] = "result"
    <3>1. PICK j \in 1..Len(q) : j > i + 1 /\ q[j] = "result"
      BY <2>1, <2>3 DEF Paired
    <3>2. j > 1 /\ j - 1 > i
      BY <1>3, <3>1
    <3>3. j - 1 \in 1..Len(r) /\ r[j - 1] = "result"
      BY <1>3, <1>4, <3>1, <3>2
    <3> QED BY <3>2, <3>3
  <2> QED BY <2>2, <2>3
<1>6. ASSUME Head(q) = "prompt" PROVE ~Has(r, "prompt") /\ (t = "asking" \/ Has(r, "result"))
  <2>1. \A j \in 1..Len(q) : q[j] = "prompt" => j = 1
    BY <1>1, <1>3, <1>6 DEF Paired
  <2>2. ~Has(r, "prompt")
    BY <1>2, <1>3, <2>1 DEF Has
  <2>3. ASSUME t # "asking" PROVE Has(r, "result")
    <3>1. PICK j \in 1..Len(q) : j > 1 /\ q[j] = "result"
      BY <1>1, <1>3, <1>6, <2>3 DEF Paired
    <3> QED BY <1>3, <1>4, <3>1 DEF Has
  <2> QED BY <2>2, <2>3
<1> QED BY <1>5, <1>6 DEF r

(* What is known of a live process's one prompt: not asked yet, on its way, up, answered *)
Coherent(n) ==
    /\ n \notin asked => n \notin pending /\ ~Has(out[n], "prompt") /\ "answer" \notin stdin[n]
    /\ n \in pending => /\ ~Has(out[n], "prompt") /\ "answer" \notin stdin[n]
                        /\ turn[n] = "asking" \/ Has(out[n], "result")
    /\ Has(out[n], "prompt") => "answer" \notin stdin[n]
    /\ Paired(out[n], turn[n])

Prompted == ~lost => \A n \in alive : Coherent(n)

LEMMA StepPrompted == BaseInv /\ Prompted /\ [Next]_vars => Prompted'
<1> SUFFICES ASSUME BaseInv, Prompted, [Next]_vars, ~lost' PROVE Prompted'
  BY DEF Prompted
<1>1. /\ agent \in Sessions \union {None} /\ None \notin Sessions
      /\ alive \subseteq Sessions /\ pending \subseteq Sessions
      /\ out \in [Sessions -> Seq(Events)]
      /\ stdin \in [Sessions -> SUBSET Messages]
      /\ turn \in [Sessions -> {"idle", "busy", "asking"}]
      /\ lost \in BOOLEAN
  BY SessionNumbers DEF BaseInv, TypeOK
<1>2. alive \subseteq {agent} /\ RecordedHeld /\ TypeOK
  BY DEF BaseInv, OneCliPerWindow
<1>3. ASSUME lost => lost', alive' \subseteq alive, asked' = asked,
             \A n \in alive : /\ turn'[n] = turn[n] /\ out'[n] = out[n]
                              /\ n \in pending' => n \in pending
                              /\ "answer" \in stdin'[n] => "answer" \in stdin[n]
      PROVE  Prompted'
  BY <1>3 DEF Prompted, Coherent, Has, Paired
<1>4. ASSUME lost => lost', UNCHANGED <<process, out>>, pending' \subseteq pending
      PROVE  Prompted'
  BY <1>3, <1>4 DEF process
<1>5. ASSUME NEW s \in Senders,
             CallStep(s) \/ SpawnFails(s)
      PROVE  Prompted'
  BY <1>4, <1>5, CallLeaves DEF pumps
<1>6. CASE NewSessionDone
  BY <1>4, <1>6 DEF NewSessionDone, pumps, ghosts
<1>7. CASE ArmResume \/ PageStep
  <2>1. CASE ArmResume
    BY <1>4, <2>1 DEF ArmResume, pumps
  <2>2. CASE PageStep
    BY <1>4, <2>2, PageLeaves DEF pumps
  <2> QED BY <1>7, <2>1, <2>2
<1>8. ASSUME NEW s \in Senders, Spawn(s) PROVE Prompted'
  <2> DEFINE n == spawned + 1
  <2>1. /\ n \in Sessions /\ alive' = {n}
        /\ out[n] = <<>> /\ stdin[n] = {} /\ n \notin pending \union asked
    BY <1>8, SpawnIsFresh
  <2>2. UNCHANGED <<out, stdin, pending, asked, turn>>
    BY <1>8 DEF Spawn
  <2> HIDE DEF n
  <2>3. ~Has(out[n], "prompt") /\ Paired(out[n], turn[n])
    BY <2>1 DEF Has, Paired
  <2> QED BY <2>1, <2>2, <2>3 DEF Prompted, Coherent, Has, Paired
<1>9. ASSUME NEW m, m # "answer", Write(agent, m), UNCHANGED <<alive, asked, turn, out, pending, lost>>
      PROVE  Prompted'
  <2>1. \A n \in alive : "answer" \in stdin'[n] => "answer" \in stdin[n]
    BY <1>1, <1>2, <1>9 DEF Write
  <2> QED BY <1>3, <1>9, <2>1
<1>10. ASSUME NEW s \in Senders, Deliver(s) PROVE Prompted'
  BY <1>9, <1>10 DEF Deliver, Return, pumps, ghosts
<1>11. CASE InterruptAgent
  BY <1>9, <1>11 DEF InterruptAgent, pumps, ghosts
<1>12. ASSUME NEW p \in pending, Respond(p) PROVE Prompted'
  <2>1. CASE p = agent
    <3>1. /\ pending' = pending \ {agent} /\ agent \in Sessions
          /\ UNCHANGED <<alive, asked, turn, out, lost>>
      BY <1>1, <1>12, <2>1 DEF Respond, pumps, ghosts
    <3>2. \A n \in alive : n = agent /\ n \in pending
      BY <1>2, <2>1
    <3>3. \A n \in alive : n \in asked /\ ~Has(out[n], "prompt") /\ Paired(out[n], turn[n])
      BY <3>1, <3>2 DEF Prompted, Coherent
    <3> QED BY <3>1, <3>2, <3>3 DEF Prompted, Coherent, Has, Paired
  <2>2. CASE p # agent
    BY <1>4, <1>12, <2>2 DEF Respond, process, pumps, ghosts
  <2> QED BY <2>1, <2>2
<1>13. ASSUME KillAgent PROVE Prompted'
  <2>1. alive' = {}
    BY <1>2, <1>13 DEF KillAgent, Exit
  <2> QED BY <2>1 DEF Prompted
<1>14. CASE NewSession \/ \E id \in rows : ResumeSession(id)
  BY <1>13, <1>14 DEF NewSession, ResumeSession
<1>15. ASSUME NEW n \in Sessions, Dies(n) PROVE Prompted'
  BY <1>15 DEF Dies
<1>16. ASSUME NEW n \in Sessions, NEW e \in Events, Emit(n, e), n \in alive, alive' = alive
       PROVE  /\ ~lost /\ Coherent(n) /\ alive' \subseteq {n}
              /\ out'[n] = Append(out[n], e) /\ out[n] \in Seq(Events)
              /\ \A f \in Events : Has(out'[n], f) <=> f = e \/ Has(out[n], f)
  <2>1. out' = [out EXCEPT ![n] = Append(out[n], e)] /\ ~lost
    BY <1>1, <1>2, <1>16, EmitAppends
  <2>2. out'[n] = Append(out[n], e) /\ out[n] \in Seq(Events)
    BY <1>1, <2>1
  <2>3. \A f \in Events : Has(Append(out[n], e), f) <=> f = e \/ Has(out[n], f)
    BY <2>2, LastOfAppend
  <2>4. alive' \subseteq {n} /\ Coherent(n)
    BY <1>2, <1>16, <2>1 DEF Prompted
  <2> QED BY <2>1, <2>2, <2>3, <2>4
<1>17. ASSUME NEW n \in Sessions, alive' \subseteq {n}, Coherent(n)' PROVE Prompted'
  BY <1>17 DEF Prompted, Coherent, Has, Paired
<1>18. ASSUME NEW n \in Sessions, StartTurn(n) PROVE Prompted'
  <2>1. /\ n \in alive /\ turn[n] = "idle" /\ Emit(n, "init") /\ turn'[n] = "busy"
        /\ stdin'[n] \subseteq stdin[n]
        /\ UNCHANGED <<alive, asked, pending>>
    BY <1>1, <1>18 DEF StartTurn, Read
  <2>2. /\ Coherent(n) /\ alive' \subseteq {n} /\ out'[n] = Append(out[n], "init")
        /\ out[n] \in Seq(Events)
        /\ \A f \in Events : Has(out'[n], f) <=> f = "init" \/ Has(out[n], f)
    BY <1>16, <2>1 DEF Events
  <2>3. Paired(out'[n], turn'[n])
    BY <2>1, <2>2, PairedAppend DEF Coherent
  <2>4. /\ Has(out'[n], "prompt") <=> Has(out[n], "prompt")
        /\ Has(out'[n], "result") <=> Has(out[n], "result")
    BY <2>2 DEF Events
  <2>5. Coherent(n)'
    BY <2>1, <2>2, <2>3, <2>4 DEF Coherent, Has, Paired
  <2> QED BY <1>17, <2>2, <2>5
<1>19. ASSUME NEW n \in Sessions, AskPermission(n) PROVE Prompted'
  <2>1. /\ n \in alive /\ turn[n] = "busy" /\ n \notin asked /\ Emit(n, "prompt")
        /\ turn'[n] = "asking" /\ n \in asked'
        /\ UNCHANGED <<alive, stdin, pending>>
    BY <1>1, <1>19 DEF AskPermission
  <2>2. /\ Coherent(n) /\ alive' \subseteq {n} /\ out'[n] = Append(out[n], "prompt")
        /\ out[n] \in Seq(Events)
    BY <1>16, <2>1 DEF Events
  <2>3. n \notin pending /\ "answer" \notin stdin[n] /\ ~Has(out[n], "prompt")
    BY <2>1, <2>2 DEF Coherent
  <2>4. Paired(out'[n], turn'[n])
    BY <2>1, <2>2, <2>3, PairedAppend DEF Coherent
  <2>5. Coherent(n)'
    BY <2>1, <2>3, <2>4 DEF Coherent, Has, Paired
  <2> QED BY <1>17, <2>2, <2>5
<1>20. ASSUME NEW n \in Sessions, EndTurn(n) PROVE Prompted'
  <2>1. /\ n \in alive /\ Emit(n, "result") /\ turn'[n] = "idle"
        /\ stdin'[n] \subseteq stdin[n]
        /\ UNCHANGED <<alive, asked, pending>>
    BY <1>1, <1>20 DEF EndTurn, Read
  <2>2. /\ Coherent(n) /\ alive' \subseteq {n} /\ out'[n] = Append(out[n], "result")
        /\ out[n] \in Seq(Events)
        /\ \A f \in Events : Has(out'[n], f) <=> f = "result" \/ Has(out[n], f)
    BY <1>16, <2>1 DEF Events
  <2>3. Paired(out'[n], turn'[n])
    BY <2>1, <2>2, PairedAppend DEF Coherent
  <2>4. (Has(out'[n], "prompt") <=> Has(out[n], "prompt")) /\ Has(out'[n], "result")
    BY <2>2 DEF Events
  <2>5. Coherent(n)'
    BY <2>1, <2>2, <2>3, <2>4 DEF Coherent, Has, Paired
  <2> QED BY <1>17, <2>2, <2>5
<1>21. ASSUME NEW n \in Sessions, IgnoreControl(n) PROVE Prompted'
  <2>1. stdin'[n] \subseteq stdin[n] /\ UNCHANGED <<alive, asked, turn, out, pending, lost>>
    BY <1>1, <1>21 DEF IgnoreControl, Read, pumps, ghosts
  <2>2. n \in alive
    BY <1>21 DEF IgnoreControl
  <2>3. \A k \in alive : k = n
    BY <1>2, <2>2
  <2> QED BY <1>3, <2>1, <2>3
<1>22. ASSUME NEW n \in Sessions, ReadAnswer(n) PROVE Prompted'
  <2>1. /\ n \in alive /\ "answer" \in stdin[n] /\ stdin'[n] = stdin[n] \ {"answer"}
        /\ UNCHANGED <<alive, asked, out, pending, lost>>
    BY <1>1, <1>22 DEF ReadAnswer, Read, pumps, ghosts
  <2>2. n \in asked /\ n \notin pending /\ ~Has(out[n], "prompt") /\ alive' \subseteq {n}
    BY <1>2, <2>1 DEF Prompted, Coherent
  <2>3. \A i \in 1..Len(out[n]) : out[n][i] # "prompt"
    BY <2>2 DEF Has
  <2>4. Coherent(n)'
    BY <2>1, <2>2, <2>3 DEF Coherent, Has, Paired
  <2> QED BY <1>17, <2>2, <2>4
<1>23. ASSUME NEW n \in Sessions, Record(n) PROVE Prompted'
  BY <1>4, <1>23 DEF Record, ghosts
<1>24. ASSUME NEW n \in Sessions, Forward(n) PROVE Prompted'
  <2>1. /\ out' = [out EXCEPT ![n] = Tail(out[n])] /\ out[n] # <<>> /\ out[n] \in Seq(Events)
        /\ UNCHANGED <<process, tangled, lost>>
        /\ pending' = CASE Head(out[n]) = "prompt" -> pending \union {n}
                        [] Head(out[n]) = "result" -> {}
                        [] OTHER -> pending
    BY <1>1, <1>2, <1>24 DEF Forward, TellEnd, RecordedHeld
  <2>2. CASE n \notin alive
    <3>1. \A k \in alive : out'[k] = out[k] /\ (k \in pending' => k \in pending)
      BY <1>1, <2>1, <2>2
    <3> QED BY <1>3, <2>1, <3>1 DEF process, ghosts
  <2>3. CASE n \in alive
    <3>1. Coherent(n) /\ alive' \subseteq {n} /\ out'[n] = Tail(out[n])
      BY <1>1, <1>2, <2>1, <2>3 DEF Prompted, process, ghosts
    <3>2. UNCHANGED <<alive, asked, stdin, turn>>
      BY <2>1 DEF process
    <3>3. \A f \in Events : Has(out[n], f) <=> f = Head(out[n]) \/ Has(out'[n], f)
      BY <2>1, <3>1, LastOfTail
    <3>4. /\ Paired(out'[n], turn[n])
          /\ Head(out[n]) = "prompt" => /\ ~Has(out'[n], "prompt")
                                        /\ turn[n] = "asking" \/ Has(out'[n], "result")
      BY <2>1, <3>1, PairedTail DEF Coherent
    <3>5. /\ Has(out[n], "prompt") <=> "prompt" = Head(out[n]) \/ Has(out'[n], "prompt")
          /\ Has(out[n], "result") <=> "result" = Head(out[n]) \/ Has(out'[n], "result")
      BY <3>3 DEF Events
    <3> HIDE DEF Has, Paired
    <3>6. CASE Head(out[n]) = "prompt"
      <4>1. n \in asked /\ "answer" \notin stdin[n]
        BY <3>1, <3>5, <3>6 DEF Coherent
      <4>2. Coherent(n)'
        BY <3>2, <3>4, <3>6, <4>1 DEF Coherent, Has, Paired
      <4> QED BY <1>17, <3>1, <4>2
    <3>7. CASE Head(out[n]) # "prompt"
      <4>1. n \in pending' => n \in pending /\ Head(out[n]) # "result"
        BY <2>1, <3>7
      <4>2. Coherent(n)'
        BY <3>1, <3>2, <3>4, <3>5, <3>7, <4>1 DEF Coherent, Has, Paired
      <4> QED BY <1>17, <3>1, <4>2
    <3> QED BY <3>6, <3>7
  <2> QED BY <2>2, <2>3
<1>25. ASSUME NEW n \in Sessions, PumpEnds(n) PROVE Prompted'
  BY <1>4, <1>25 DEF PumpEnds, TellEnd, ghosts
<1>26. CASE UNCHANGED vars
  BY <1>4, <1>26 DEF vars, pumps, ghosts
<1> QED BY <1>5, <1>6, <1>7, <1>8, <1>10, <1>11, <1>12, <1>14, <1>15, <1>18, <1>19, <1>20, <1>21,
           <1>22, <1>23, <1>24, <1>25, <1>26 DEF Next, PageStep, CallStep

--------------------------------------------------------------------------------
(* The working indicator *)

(* Whenever it is on, and its page has not been overtaken, something is under way that will
   turn it off: a call that has not returned (an orphan's return tells nobody, but its
   message, or the kill before it, will), a result or the end of a session in a pump; or a
   process is at work. *)
Waiting   == \E s \in Senders : /\ calls[s] # "idle"
                                /\ s \in orphans => calls[s] = "deliver" /\ agent # None
Telling   == \E n \in pumping : Has(out[n], "result") \/ (n \notin alive /\ n # agent)
AtWork(n) == turn[n] # "idle" \/ "user" \in stdin[n]
Working   == \E n \in alive : AtWork(n)
Active    == Telling \/ Working

OrphansCall == \A s \in orphans : calls[s] # "idle"

Explained == ~lost /\ ~overtaken /\ running => Waiting \/ Active

(* ... and the same will turn off what a copy of the prompts is about to turn on *)
ReplyExplained == ~lost /\ ~overtaken /\ hydration = "answered" /\ shown # {} => Active

LEMMA StepOrphans == TypeOK /\ OrphansCall /\ [Next]_vars => OrphansCall'
<1> SUFFICES ASSUME TypeOK, OrphansCall, [Next]_vars PROVE OrphansCall'
  OBVIOUS
<1>1. calls \in [Senders -> {"idle", "ensure", "deliver"}] /\ orphans \subseteq Senders
  BY DEF TypeOK
<1>2. ASSUME UNCHANGED <<calls, orphans>> PROVE OrphansCall'
  BY <1>2 DEF OrphansCall
<1>3. ASSUME NEW s \in Senders, CallStep(s) \/ SpawnFails(s) \/ Spawn(s) \/ Deliver(s)
      PROVE  OrphansCall'
  <2>1. \/ calls'[s] # "idle" /\ orphans' = orphans
        \/ orphans' = orphans \ {s}
    BY <1>1, <1>3 DEF CallStep, Send, SendInitial, Call, HasSession, NobodyToDeliverTo, SpawnFails,
       Spawn, Deliver, Return
  <2>2. \A x \in Senders \ {s} : calls'[x] = calls[x]
    BY <1>1, <1>3 DEF CallStep, Send, SendInitial, Call, HasSession, NobodyToDeliverTo, SpawnFails,
       Spawn, Deliver, Return
  <2> QED BY <1>1, <2>1, <2>2 DEF OrphansCall
<1>4. CASE \/ \E p \in pending : Respond(p)
           \/ \E id \in rows : ResumeSession(id)
           \/ InterruptAgent \/ NewSession \/ NewSessionDone \/ ArmResume
  BY <1>2, <1>4 DEF Respond, ResumeSession, InterruptAgent, NewSession, NewSessionDone, ArmResume,
     page
<1>5. CASE PageStep
  BY <1>2, <1>5 DEF PageStep, Mount, Listen, GetState, Hydrate, OrphansCall
<1>6. ASSUME NEW n \in Sessions,
             StartTurn(n) \/ IgnoreControl(n) \/ AskPermission(n) \/ ReadAnswer(n) \/ EndTurn(n)
               \/ Dies(n) \/ Record(n) \/ Forward(n) \/ PumpEnds(n)
      PROVE  OrphansCall'
  BY <1>2, <1>6 DEF StartTurn, IgnoreControl, AskPermission, ReadAnswer, EndTurn, Dies, Record,
     Forward, PumpEnds, page
<1>7. CASE UNCHANGED vars
  BY <1>2, <1>7 DEF vars, page
<1> QED BY <1>3, <1>4, <1>5, <1>6, <1>7 DEF Next, PageStep, CallStep

(* Only the telling of an end ends it *)
Tells(n) == PumpEnds(n) \/ (Forward(n) /\ Head(out[n]) = "result")

LEMMA StepActive ==
    ASSUME BaseInv, Active, [Next]_vars, ~lost', \A n \in Sessions : ~Tells(n)
    PROVE  Active'
<1>1. /\ agent \in Sessions \union {None} /\ None \notin Sessions
      /\ alive \subseteq Sessions /\ pending \subseteq Sessions /\ pumping \subseteq Sessions
      /\ out \in [Sessions -> Seq(Events)]
      /\ stdin \in [Sessions -> SUBSET Messages]
      /\ turn \in [Sessions -> {"idle", "busy", "asking"}]
      /\ lost \in BOOLEAN
  BY SessionNumbers DEF BaseInv, TypeOK
<1>2. /\ alive \subseteq {agent} /\ alive \subseteq pumping /\ RecordedHeld /\ TypeOK
  BY DEF BaseInv, OneCliPerWindow, Numbers
<1>3. ASSUME pumping \subseteq pumping', alive' \subseteq alive, agent' \in {agent, None},
             \A n \in pumping : Has(out[n], "result") => Has(out'[n], "result"),
             \A n \in alive : n \in alive' => (AtWork(n) => AtWork(n)' \/ Has(out'[n], "result")),
             agent \in alive /\ agent \notin alive' => agent' = None
      PROVE  Active'
  <2>1. CASE Telling
    <3>1. PICK n \in pumping : Has(out[n], "result") \/ (n \notin alive /\ n # agent)
      BY <2>1 DEF Telling
    <3>2. n \in pumping' /\ n \in Sessions
      BY <1>1, <1>3, <3>1
    <3>3. Has(out'[n], "result") \/ (n \notin alive' /\ n # agent')
      BY <1>1, <1>3, <3>1, <3>2
    <3> QED BY <3>2, <3>3 DEF Active, Telling, Has
  <2>2. CASE Working
    <3>1. PICK n \in alive : AtWork(n)
      BY <2>2 DEF Working
    <3>2. n = agent /\ n \in pumping' /\ n # None
      BY <1>1, <1>2, <1>3, <3>1
    <3>3. CASE n \in alive'
      BY <1>3, <3>1, <3>2, <3>3 DEF Active, Telling, Working, AtWork, Has
    <3>4. CASE n \notin alive'
      BY <1>3, <3>1, <3>2, <3>4 DEF Active, Telling
    <3> QED BY <3>3, <3>4
  <2> QED BY <2>1, <2>2 DEF Active
<1>4. ASSUME UNCHANGED <<agent, alive, turn, out, pumping>>,
             \A n \in alive : "user" \in stdin[n] => "user" \in stdin'[n]
      PROVE  Active'
  BY <1>4 DEF Active, Telling, Working, AtWork, Has
<1>5. ASSUME NEW s \in Senders, CallStep(s) \/ SpawnFails(s) PROVE Active'
  BY <1>4, <1>5, CallLeaves DEF process, pumps
<1>6. ASSUME NEW s \in Senders, Spawn(s) PROVE Active'
  <2>1. /\ alive = {} /\ agent = None /\ spawned + 1 \notin pumping
        /\ agent' = spawned + 1 /\ alive' = {spawned + 1} /\ pumping' = pumping \union {spawned + 1}
        /\ out' = out
    BY <1>6, SpawnIsFresh DEF Spawn
  <2>2. PICK n \in pumping : Has(out[n], "result") \/ (n \notin alive /\ n # agent)
    BY <2>1 DEF Active, Telling, Working
  <2>3. n \in pumping' /\ n \notin alive' /\ n # agent'
    BY <2>1, <2>2
  <2> QED BY <2>3 DEF Active, Telling
<1>7. ASSUME NEW n, NEW m, Write(n, m) PROVE \A k \in Sessions : "user" \in stdin[k] => "user" \in stdin'[k]
  BY <1>1, <1>7 DEF Write
<1>8. ASSUME NEW s \in Senders, Deliver(s) PROVE Active'
  BY <1>1, <1>4, <1>7, <1>8 DEF Deliver, pumps
<1>9. ASSUME NEW p \in pending, Respond(p) PROVE Active'
  BY <1>1, <1>4, <1>7, <1>9 DEF Respond, pumps
<1>10. CASE InterruptAgent
  BY <1>1, <1>4, <1>7, <1>10 DEF InterruptAgent, pumps
<1>11. ASSUME KillAgent, UNCHANGED <<out, pumping>> PROVE Active'
  <2>1. /\ alive' = alive \ {agent} /\ agent' = None
        /\ \A n \in alive : n = agent
    BY <1>2, <1>11 DEF KillAgent, Exit
  <2>2. \A n \in pumping : Has(out[n], "result") => Has(out'[n], "result")
    BY <1>11 DEF Has
  <2> QED BY <1>3, <1>11, <2>1, <2>2
<1>12. CASE NewSession \/ \E id \in rows : ResumeSession(id)
  BY <1>11, <1>12 DEF NewSession, ResumeSession, pumps
<1>13. CASE NewSessionDone \/ ArmResume
  BY <1>4, <1>13 DEF NewSessionDone, ArmResume, process, pumps
<1>14. CASE PageStep
  BY <1>4, <1>14, PageLeaves DEF process, pumps
<1>15. ASSUME NEW n \in Sessions, NEW e \in Events, Emit(n, e), n \in alive,
              UNCHANGED <<alive, agent, pumping>>,
              turn'[n] # "idle" \/ e = "result"
       PROVE  Active'
  <2>1. out'[n] = Append(out[n], e) /\ out[n] \in Seq(Events)
    BY <1>1, <1>2, <1>15, EmitAppends
  <2>2. Has(out'[n], e)
    BY <2>1, LastOfAppend
  <2>3. n \in alive' /\ n \in pumping'
    BY <1>2, <1>15
  <2> QED BY <1>15, <2>2, <2>3 DEF Active, Telling, Working, AtWork, Has
<1>16. ASSUME NEW n \in Sessions, StartTurn(n) \/ AskPermission(n) \/ EndTurn(n) PROVE Active'
  <2>1. n \in alive /\ UNCHANGED <<alive, agent, pumping>>
    BY <1>16 DEF StartTurn, AskPermission, EndTurn
  <2>2. \E e \in Events : Emit(n, e) /\ (turn'[n] # "idle" \/ e = "result")
    BY <1>1, <1>16 DEF StartTurn, AskPermission, EndTurn, Events
  <2> QED BY <1>15, <2>1, <2>2
<1>17. ASSUME NEW n \in Sessions, IgnoreControl(n) PROVE Active'
  <2>1. \A k \in alive : "user" \in stdin[k] => "user" \in stdin'[k]
    BY <1>1, <1>17 DEF IgnoreControl, Read
  <2> QED BY <1>4, <1>17, <2>1 DEF IgnoreControl, pumps
<1>18. ASSUME NEW n \in Sessions, ReadAnswer(n) PROVE Active'
  <2>1. n \in alive /\ alive' = alive /\ turn'[n] = "busy"
    BY <1>1, <1>18 DEF ReadAnswer
  <2> QED BY <2>1 DEF Active, Working, AtWork
<1>19. ASSUME NEW n \in Sessions, Dies(n) PROVE Active'
  BY <1>19 DEF Dies
<1>20. ASSUME NEW n \in Sessions, Record(n) PROVE Active'
  BY <1>4, <1>20 DEF Record, process
<1>21. ASSUME NEW n \in Sessions, Forward(n) PROVE Active'
  <2>1. /\ out' = [out EXCEPT ![n] = Tail(out[n])] /\ out[n] # <<>> /\ out[n] \in Seq(Events)
        /\ Head(out[n]) # "result"
        /\ UNCHANGED <<agent, process, pumping>>
    BY <1>1, <1>2, <1>21 DEF Forward, RecordedHeld, Tells
  <2>2. \A f \in Events : Has(out[n], f) <=> f = Head(out[n]) \/ Has(Tail(out[n]), f)
    BY <2>1, LastOfTail
  <2>3. Has(out[n], "result") => Has(Tail(out[n]), "result")
    BY <2>1, <2>2 DEF Events
  <2>4. \A m \in pumping : Has(out[m], "result") => Has(out'[m], "result")
    <3> SUFFICES ASSUME NEW m \in pumping, Has(out[m], "result") PROVE Has(out'[m], "result")
      OBVIOUS
    <3>1. CASE m = n
      <4>1. out'[n] = Tail(out[n])
        BY <1>1, <2>1
      <4> QED BY <2>3, <3>1, <4>1
    <3>2. CASE m # n
      <4>1. out'[m] = out[m]
        BY <1>1, <2>1, <3>2
      <4> QED BY <4>1
    <3> QED BY <3>1, <3>2
  <2> QED BY <2>1, <2>4 DEF Active, Telling, Working, AtWork, Has, process
<1>22. ASSUME NEW n \in Sessions, PumpEnds(n) PROVE Active'
  BY <1>22 DEF Tells
<1>23. CASE UNCHANGED vars
  BY <1>4, <1>23 DEF vars, process, pumps
<1> QED BY <1>5, <1>6, <1>8, <1>9, <1>10, <1>12, <1>13, <1>14, <1>16, <1>17, <1>18, <1>19, <1>20,
           <1>21, <1>22, <1>23 DEF Next, PageStep, CallStep

LEMMA StepReply == BaseInv /\ Prompted /\ ReplyExplained /\ [Next]_vars => ReplyExplained'
<1> SUFFICES ASSUME BaseInv, Prompted, ReplyExplained, [Next]_vars,
                    ~lost', ~overtaken', hydration' = "answered", shown' # {}
             PROVE  Active'
  BY DEF ReplyExplained
<1>1. ASSUME NEW n \in Sessions, Tells(n) PROVE FALSE
  BY <1>1 DEF Tells, PumpEnds, Forward, TellEnd, mount
<1>2. ASSUME GetState PROVE Active'
  <2>1. /\ agent \in Sessions \union {None} /\ None \notin Sessions
        /\ out \in [Sessions -> Seq(Events)] /\ alive \subseteq {agent} /\ alive \subseteq pumping
    BY SessionNumbers DEF BaseInv, TypeOK, OneCliPerWindow, Numbers
  <2>2. /\ UNCHANGED <<agent, process, out, pumping, lost>>
        /\ pending \intersect pumping # {}
    BY <1>2 DEF GetState, StalePrompts, pumps
  <2>3. PICK n \in pending : n \in pumping
    BY <2>2
  <2>4. CASE n \in alive
    <3>1. turn[n] = "asking" \/ Has(out[n], "result")
      BY <2>2, <2>3, <2>4 DEF Prompted, Coherent
    <3> QED BY <2>1, <2>2, <2>3, <2>4, <3>1 DEF Active, Telling, Working, AtWork, Has, process
  <2>5. CASE n \notin alive
    <3>1. n # agent
      BY <2>1, <2>2, <2>5, SessionNumbers, <2>3 DEF BaseInv, Numbers, TypeOK
    <3> QED BY <2>2, <2>3, <2>5, <3>1 DEF Active, Telling, process
  <2> QED BY <2>4, <2>5
<1>3. ASSUME ~lost, ~overtaken, hydration = "answered", shown # {} PROVE Active'
  BY <1>1, <1>3, StepActive DEF ReplyExplained
<1>4. lost => lost'
  <2>1. lost \in BOOLEAN
    BY DEF BaseInv, TypeOK
  <2>2. ASSUME NEW n, NEW e, Emit(n, e) PROVE lost => lost'
    BY <2>2 DEF Emit
  <2> QED BY <2>1, <2>2, PageLeaves, CallLeaves DEF Next, PageStep, CallStep, Spawn, Deliver, Respond,
          ResumeSession, InterruptAgent, NewSession, NewSessionDone, ArmResume, StartTurn,
          IgnoreControl, AskPermission, ReadAnswer, EndTurn, Dies, Record, Forward, PumpEnds, vars,
          ghosts
<1>5. GetState \/ (UNCHANGED <<hydration, shown>> /\ (overtaken => overtaken'))
  <2>1. CASE Mount
    BY <2>1 DEF Mount
  <2>2. CASE Hydrate
    BY <2>2 DEF Hydrate
  <2>3. CASE Listen
    BY <2>3 DEF Listen, ghosts
  <2>4. ASSUME NEW s \in Senders,
               \/ Send(s) \/ SendInitial(s) \/ HasSession(s) \/ Spawn(s) \/ SpawnFails(s)
               \/ Deliver(s) \/ NobodyToDeliverTo(s)
        PROVE  UNCHANGED <<hydration, shown, overtaken>>
    BY <2>4 DEF Send, SendInitial, Call, HasSession, Spawn, SpawnFails, Deliver, NobodyToDeliverTo,
       mount, ghosts
  <2>5. CASE \/ \E p \in pending : Respond(p)
             \/ \E id \in rows : ResumeSession(id)
             \/ InterruptAgent \/ NewSession \/ NewSessionDone \/ ArmResume
    BY <2>5 DEF Respond, ResumeSession, InterruptAgent, NewSession, NewSessionDone, ArmResume,
       page, mount, ghosts
  <2>6. ASSUME NEW n \in Sessions,
               StartTurn(n) \/ IgnoreControl(n) \/ AskPermission(n) \/ ReadAnswer(n) \/ EndTurn(n)
                 \/ Dies(n) \/ Record(n)
        PROVE  UNCHANGED <<hydration, shown, overtaken>>
    BY <2>6 DEF StartTurn, IgnoreControl, AskPermission, ReadAnswer, EndTurn, Dies, Record, page,
       mount, ghosts
  <2>7. ASSUME NEW n \in Sessions, Forward(n)
        PROVE  UNCHANGED <<hydration, shown>> /\ (overtaken => overtaken')
    BY <1>1, <2>7 DEF Forward, Tells, mount
  <2>8. ASSUME NEW n \in Sessions, PumpEnds(n) PROVE FALSE
    BY <1>1, <2>8 DEF Tells
  <2>9. CASE UNCHANGED vars
    BY <2>9 DEF vars, page, mount, ghosts
  <2> QED BY <2>1, <2>2, <2>3, <2>4, <2>5, <2>6, <2>7, <2>8, <2>9 DEF Next
<1> QED BY <1>2, <1>3, <1>4, <1>5

LEMMA StepExplained ==
    BaseInv /\ OrphansCall /\ Explained /\ ReplyExplained /\ [Next]_vars => Explained'
<1> SUFFICES ASSUME BaseInv, OrphansCall, Explained, ReplyExplained, [Next]_vars,
                    ~lost', ~overtaken', running'
             PROVE  Waiting' \/ Active'
  BY DEF Explained
<1>1. /\ agent \in Sessions \union {None} /\ None \notin Sessions
      /\ alive \subseteq Sessions /\ pumping \subseteq Sessions
      /\ calls \in [Senders -> {"idle", "ensure", "deliver"}]
      /\ lost \in BOOLEAN /\ overtaken \in BOOLEAN
  BY SessionNumbers DEF BaseInv, TypeOK
<1>2. alive \subseteq pumping /\ (~lost /\ agent # None => agent \in alive)
  BY DEF BaseInv, Numbers
<1>3. ASSUME NEW n \in Sessions, Tells(n) PROVE FALSE
  BY <1>3 DEF Tells, PumpEnds, Forward, TellEnd
<1>4. Active => Active'
  BY <1>3, StepActive
<1> DEFINE On == ~lost /\ ~overtaken /\ running
<1>5. On => Waiting \/ Active
  BY DEF Explained
<1>6. ASSUME NEW s \in Senders, Send(s) \/ SendInitial(s) PROVE Waiting'
  <2>1. calls[s] = "idle" /\ calls'[s] = "ensure" /\ orphans' = orphans
    BY <1>1, <1>6 DEF Send, SendInitial, Call
  <2> QED BY <2>1 DEF OrphansCall, Waiting
<1>7. ASSUME NEW s \in Senders, HasSession(s) \/ Spawn(s) PROVE Waiting'
  <2>1. calls'[s] = "deliver" /\ agent' # None
    BY <1>1, <1>7, SpawnIsFresh DEF HasSession, Spawn
  <2> QED BY <2>1 DEF Waiting
<1>8. ASSUME NEW s \in Senders, SpawnFails(s) \/ NobodyToDeliverTo(s) PROVE Waiting' \/ Active'
  <2>1. /\ On /\ s \in orphans /\ orphans' = orphans \ {s} /\ UNCHANGED agent
        /\ calls' = [calls EXCEPT ![s] = "idle"]
    BY <1>1, <1>8, CallLeaves DEF CallStep, SpawnFails, NobodyToDeliverTo, Return, ghosts
  <2>2. agent = None
    BY <1>2, <1>8, <2>1 DEF SpawnFails, NobodyToDeliverTo
  <2>3. ASSUME Waiting PROVE Waiting'
    <3>1. PICK x \in Senders : calls[x] # "idle" /\ x \notin orphans
      BY <2>2, <2>3 DEF Waiting
    <3>2. calls'[x] = calls[x] /\ x \notin orphans'
      BY <1>1, <2>1, <3>1
    <3> QED BY <3>1, <3>2 DEF Waiting
  <2> QED BY <1>4, <1>5, <2>1, <2>3
<1>9. ASSUME NEW s \in Senders, Deliver(s) PROVE Active'
  <2>1. agent \in alive /\ alive' = alive /\ "user" \in stdin'[agent]
    <3>1. stdin \in [Sessions -> SUBSET Messages]
      BY DEF BaseInv, TypeOK
    <3> QED BY <1>1, <1>2, <1>9, <3>1 DEF Deliver, Write, ghosts
  <2> QED BY <2>1 DEF Active, Working, AtWork
<1>10. ASSUME KillAgent, On, UNCHANGED <<calls, orphans, pumping>> PROVE Waiting' \/ Active'
  <2>1. ASSUME agent # None PROVE Active'
    <3>1. agent \in pumping' /\ agent \notin alive' /\ agent # agent'
      BY <1>1, <1>2, <1>10, <2>1 DEF KillAgent, Exit
    <3> QED BY <3>1 DEF Active, Telling
  <2>2. ASSUME agent = None, Waiting PROVE Waiting'
    BY <1>10, <2>2 DEF Waiting
  <2> QED BY <1>4, <1>5, <1>10, <2>1, <2>2
<1>11. CASE NewSession
  BY <1>10, <1>11 DEF NewSession, pumps, ghosts
<1>12. CASE \E id \in rows : ResumeSession(id)
  BY <1>10, <1>12 DEF ResumeSession, pumps, ghosts
<1>13. ASSUME On, UNCHANGED <<calls, orphans, agent>> PROVE Waiting' \/ Active'
  BY <1>4, <1>5, <1>13 DEF Waiting
<1>14. CASE NewSessionDone
  BY <1>14 DEF NewSessionDone
<1>15. CASE (\E p \in pending : Respond(p)) \/ InterruptAgent \/ ArmResume
  BY <1>13, <1>15 DEF Respond, InterruptAgent, ArmResume, page, ghosts
<1>16. CASE Mount
  BY <1>16 DEF Mount
<1>17. CASE Listen \/ GetState
  BY <1>13, <1>17 DEF Listen, GetState, ghosts
<1>18. CASE Hydrate
  <2>1. ~lost /\ ~overtaken /\ UNCHANGED <<calls, orphans, agent>>
    BY <1>18 DEF Hydrate, ghosts
  <2>2. running \/ (hydration = "answered" /\ shown # {})
    BY <1>18 DEF Hydrate
  <2> QED BY <1>4, <1>13, <2>1, <2>2 DEF ReplyExplained
<1>19. ASSUME NEW n \in Sessions, StartTurn(n) \/ AskPermission(n) \/ EndTurn(n) PROVE Waiting' \/ Active'
  <2>1. /\ UNCHANGED <<calls, orphans, agent, running, overtaken>>
        /\ lost => lost'
    BY <1>19 DEF StartTurn, AskPermission, EndTurn, Emit, page
  <2> QED BY <1>13, <2>1
<1>20. ASSUME NEW n \in Sessions, IgnoreControl(n) \/ ReadAnswer(n) \/ Record(n)
       PROVE  Waiting' \/ Active'
  BY <1>13, <1>20 DEF IgnoreControl, ReadAnswer, Record, page, ghosts
<1>21. ASSUME NEW n \in Sessions, Dies(n) PROVE FALSE
  BY <1>21 DEF Dies
<1>22. ASSUME NEW n \in Sessions, Forward(n) PROVE Waiting' \/ Active'
  <2>1. UNCHANGED <<calls, orphans, agent, running, overtaken, lost>>
    BY <1>3, <1>22 DEF Forward, Tells
  <2> QED BY <1>13, <2>1
<1>23. ASSUME NEW n \in Sessions, PumpEnds(n) PROVE FALSE
  BY <1>3, <1>23 DEF Tells
<1>24. CASE UNCHANGED vars
  BY <1>13, <1>24 DEF vars, page, ghosts
<1> QED BY <1>6, <1>7, <1>8, <1>9, <1>11, <1>12, <1>14, <1>15, <1>16, <1>17, <1>18, <1>19, <1>20,
           <1>21, <1>22, <1>23, <1>24 DEF Next

--------------------------------------------------------------------------------
(* The window's conversation *)

ConversationInv ==
    /\ BaseInv /\ Asking /\ Links /\ Prompted
    /\ OrphansCall /\ Explained /\ ReplyExplained

LEMMA Conversation == Spec => []ConversationInv
<1>1. Init => ConversationInv
  <2> SUFFICES ASSUME Init PROVE ConversationInv
    OBVIOUS
  <2>1. TypeOK /\ RecordedHeld /\ OneCliPerWindow
    BY InitType DEF Init, RecordedHeld, OneCliPerWindow
  <2>2. Numbers /\ OnlyLatest
    BY SpawnsAssumption DEF Init, Numbers, OnlyLatest, Sessions
  <2>3. Asking /\ Prompted /\ OrphansCall /\ Explained /\ ReplyExplained
    BY DEF Init, Asking, Prompted, OrphansCall, Explained, ReplyExplained
  <2>4. Links
    BY DEF Init, Links
  <2> QED BY <2>1, <2>2, <2>3, <2>4 DEF ConversationInv, BaseInv
<1>2. ConversationInv /\ [Next]_vars => ConversationInv'
  <2> SUFFICES ASSUME ConversationInv, [Next]_vars PROVE ConversationInv'
    OBVIOUS
  <2>1. BaseInv /\ TypeOK /\ RecordedHeld /\ OneCliPerWindow
        /\ Asking /\ Links /\ Prompted /\ OrphansCall /\ Explained /\ ReplyExplained
    BY DEF ConversationInv, BaseInv
  <2>2. BaseInv'
    BY <2>1, StepType, StepHeld, StepOneCli, StepNumbers DEF BaseInv
  <2>3. Asking' /\ Links' /\ Prompted'
    BY <2>1, StepAsking, StepLinks, StepPrompted
  <2>4. OrphansCall' /\ Explained' /\ ReplyExplained'
    BY <2>1, StepOrphans, StepExplained, StepReply
  <2> QED BY <2>2, <2>3, <2>4 DEF ConversationInv
<1> QED BY <1>1, <1>2, PTL DEF Spec

(* A turn that waits for an answer is never wedged: its prompt is where a page, a reloaded
   one too, can find it, or still in the pump, or the answer is on its way
   (commands.rs, pending_permissions). *)
THEOREM PromptsCanBeAnswered == Spec => []PromptsSurvive
<1>1. ConversationInv => PromptsSurvive
  <2> SUFFICES ASSUME ConversationInv, ~tangled, ~lost,
                      NEW n \in alive, turn[n] = "asking", "answer" \notin stdin[n]
               PROVE  n \in pending \/ \E i \in 1..Len(out[n]) : out[n][i] = "prompt"
    BY DEF PromptsSurvive, PromptSurvives
  <2>1. Answerable(n)
    BY DEF ConversationInv, Asking
  <2> QED BY <2>1 DEF Answerable, Has
<1> QED BY <1>1, Conversation, PTL

(* The store links every session that resumed another to it, in whatever order the resume,
   the spawn, the init and the kills before and after it come
   (commands.rs, pending_resumed_from). *)
THEOREM ResumedSessionsAreLinked == Spec => []ResumesAreLinked
<1>1. ConversationInv => ResumesAreLinked
  BY DEF ConversationInv, Links, ResumesAreLinked
<1> QED BY <1>1, Conversation, PTL

(* The page's working indicator is not left on with nothing at work behind it by any order
   of sends, kills, resumes, answers, ends, late events of killed sessions and reloads, where
   get_state is answered and applied in two steps while the listener registers.  What leaves
   it on is named and excluded: a process that dies by itself or a pump that lags (lost), and
   an end told to a page that does not listen yet or is about to show the copy of a prompt
   (overtaken), until the next end the page hears or its next reload (state.ts, agentRunning). *)
THEOREM IndicatorGoesOff == Spec => []RunningMeansBusy
<1>1. ConversationInv => RunningMeansBusy
  <2> SUFFICES ASSUME ConversationInv, Quiet, running, ~overtaken, ~lost
               PROVE  Working
    BY DEF RunningMeansBusy, Working, AtWork
  <2>1. Waiting \/ Telling \/ Working
    BY DEF ConversationInv, Explained, Active
  <2>2. ~Waiting
    BY DEF Quiet, Waiting
  <2>3. \A n \in pumping : out[n] = <<>> /\ (n \in alive \/ agent = n)
    BY DEF Quiet, Closed
  <2>4. ~Telling
    BY <2>3 DEF Telling, Has
  <2> QED BY <2>1, <2>2, <2>4
<1> QED BY <1>1, Conversation, PTL

================================================================================
