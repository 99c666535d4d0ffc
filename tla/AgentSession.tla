------------------------------ MODULE AgentSession ------------------------------
(***************************************************************************)
(* One project window's agent: the commands that start, kill and resume a   *)
(* `claude' process (commands.rs, agent.rs), the process and its pipes      *)
(* (crates/agent-host/src/session.rs), the pump that mirrors its events     *)
(* into the instance, the store and the page, and the page's running flag   *)
(* (state.ts), from the mounting of the page on: its get_state call and the *)
(* registration of its listener are under way together, and its reloads     *)
(* leave the calls of the page before unattended.                           *)
(*                                                                          *)
(* Processes are numbered in the order they are spawned; a process's number *)
(* is also the session id its init announces, for --resume forks a new id.  *)
(* 0 is a conversation of an earlier launch.  Text, tool traffic and titles *)
(* are left out; a process asks at most one permission (its prompt has its  *)
(* number).  What waits in a process's stdin is a set: control messages     *)
(* overtake user messages there, and two user messages are as good as one.  *)
(***************************************************************************)
EXTENDS Integers, Sequences, FiniteSets

CONSTANTS
    Senders,    \* send_message calls that may be in flight together
    None,       \* no session
    Backlog,    \* events a subscriber may lag behind (1024 in the code)
    MaxSpawns   \* bound for TLC: processes spawned

ASSUME BacklogAssumption == Backlog \in Nat \ {0}
ASSUME SpawnsAssumption == MaxSpawns \in Nat \ {0}
ASSUME NoneAssumption == None \notin Int

Sessions == 1..MaxSpawns
Ids      == 0..MaxSpawns
New      == -1             \* as a command: new_session

VARIABLES
    agent,        \* AppState.agent: the session in the mutex, or None
    spawned,      \* how many processes so far
    alive,        \* processes that run
    resumed,      \* what each was spawned with as --resume
    stdin,        \* [Sessions -> kinds of messages not yet read]
    turn,         \* [Sessions -> what the process does]
    asked,        \* processes that have asked their permission
    out,          \* [Sessions -> events the pump has not finished with]
    recorded,     \* pumps whose oldest event is in the store and nowhere else yet
    pumping,      \* sessions with a pump
    pending,      \* AppState.pending_permissions
    resumeTarget, \* AppState.resume_target
    resumedFrom,  \* AppState.pending_resumed_from
    rows,         \* ids the store has a row for
    from,         \* agent_session.resumed_from of each row
    calls,        \* where each send_message call is
    command,      \* the new_session or resume_session call in flight, or None
    running,      \* the page's agentRunning
    listening,    \* the page's agent-event listener is registered
    hydration,    \* the page's get_state: "asked", "answered" or "done"
    shown,        \* the prompts of an answer the page has not applied
    orphans,      \* calls of a page that is gone
    initial,      \* AppState.initial_prompt is set
    tangled,      \* ghost: see Tangles
    lost,         \* ghost: the CLI died by itself, or the pump lagged
    overtaken     \* ghost: the page is on, or will be, for a turn whose end has been told

process == <<spawned, alive, resumed, stdin, turn, asked>>
pumps   == <<out, recorded, pumping>>
slots   == <<resumeTarget, resumedFrom>>
store   == <<rows, from>>
mount   == <<listening, hydration, shown, initial>>
page    == <<calls, orphans, command, running, mount>>
ghosts  == <<tangled, lost, overtaken>>
vars    == <<agent, process, pumps, pending, slots, store, page, ghosts>>

Events   == {"init", "prompt", "result"}
Messages == {"user", "answer", "interrupt"}

(* The event a pump is recording has left the channel *)
Held(n) == IF n \in recorded THEN 1 ELSE 0

TypeOK ==
    /\ agent \in Sessions \union {None}
    /\ spawned \in Ids
    /\ alive \subseteq Sessions /\ asked \subseteq Sessions /\ pending \subseteq Sessions
    /\ recorded \subseteq Sessions /\ pumping \subseteq Sessions
    /\ resumed \in [Sessions -> Ids \union {None}]
    /\ stdin \in [Sessions -> SUBSET Messages]
    /\ turn \in [Sessions -> {"idle", "busy", "asking"}]
    /\ out \in [Sessions -> Seq(Events)]
    /\ \A n \in Sessions : Len(out[n]) <= Backlog + Held(n)
    /\ resumeTarget \in Ids \union {None} /\ resumedFrom \in Ids \union {None}
    /\ rows \subseteq Ids /\ from \in [Ids -> Ids \union {None}]
    /\ calls \in [Senders -> {"idle", "ensure", "deliver"}]
    /\ command \in {None, New} \union Ids
    /\ orphans \subseteq Senders
    /\ running \in BOOLEAN /\ listening \in BOOLEAN /\ initial \in BOOLEAN
    /\ hydration \in {"asked", "answered", "done"} /\ shown \subseteq Sessions
    /\ tangled \in BOOLEAN /\ lost \in BOOLEAN /\ overtaken \in BOOLEAN

Init ==
    /\ agent = None
    /\ spawned = 0 /\ alive = {} /\ asked = {}
    /\ resumed = [n \in Sessions |-> None]
    /\ stdin = [n \in Sessions |-> {}]
    /\ turn = [n \in Sessions |-> "idle"]
    /\ out = [n \in Sessions |-> <<>>] /\ recorded = {} /\ pumping = {}
    /\ pending = {}
    /\ resumeTarget = None /\ resumedFrom = None
    /\ rows = {0} /\ from = [i \in Ids |-> None]
    /\ calls = [s \in Senders |-> "idle"] /\ orphans = {} /\ command = None
    /\ running = FALSE /\ listening = FALSE /\ hydration = "asked" /\ shown = {}
    /\ initial \in BOOLEAN
    /\ tangled = FALSE /\ lost = FALSE /\ overtaken = FALSE

--------------------------------------------------------------------------------

(* Some session that is no longer the window's has events the pump has not seen, or the
   command that killed it has not finished: what starts now runs into its remains. *)
Tangles == (\E n \in Sessions : n # agent /\ out[n] # <<>>) \/ command \in Ids

(* A process ends with its turn and what it has not read; what it has written still
   reaches the pump. *)
Exit(n) ==
    /\ alive' = alive \ {n}
    /\ asked' = asked \ {n}
    /\ stdin' = [m \in Sessions |-> IF m = n THEN {} ELSE stdin[m]]
    /\ turn' = [m \in Sessions |-> IF m = n THEN "idle" ELSE turn[m]]
    /\ UNCHANGED <<spawned, resumed>>

(* The session in the mutex, if any, is taken out of it and killed *)
KillAgent == Exit(agent) /\ agent' = None

Write(n, m) == stdin' = [stdin EXCEPT ![n] = @ \union {m}]

Read(n, m) == m \in stdin[n] /\ stdin' = [stdin EXCEPT ![n] = @ \ {m}]

--------------------------------------------------------------------------------
(* send_message *)

(* The page calls send_message and shows the indicator *)
Call(s) ==
    /\ calls[s] = "idle"
    /\ calls' = [calls EXCEPT ![s] = "ensure"]
    /\ running' = TRUE
    /\ UNCHANGED <<agent, process, pumps, pending, slots, store, orphans, command, listening,
                   hydration, shown, ghosts>>

(* The composer sends while no turn runs, the toast of a refused edit at any time *)
Send(s) == Call(s) /\ initial' = initial

(* take_initial_prompt: the page that has its state sends what the dashboard queued *)
SendInitial(s) == hydration = "done" /\ initial /\ Call(s) /\ initial' = FALSE

(* A call returns: its page, if it is still there, takes the indicator down for an error *)
Return(s, error) ==
    /\ calls' = [calls EXCEPT ![s] = "idle"]
    /\ orphans' = orphans \ {s}
    /\ running' = (running /\ (error => s \in orphans))

(* ensure_session finds one *)
HasSession(s) ==
    /\ calls[s] = "ensure"
    /\ agent # None
    /\ calls' = [calls EXCEPT ![s] = "deliver"]
    /\ UNCHANGED <<agent, process, pumps, pending, slots, store, orphans, command, running,
                   mount, ghosts>>

(* Mutant: the mutex is not asked whether a session is there *)
SpawnAnyway(s) ==
    /\ calls[s] = "ensure"
    /\ spawned < MaxSpawns
    /\ LET n == spawned + 1 IN
       /\ spawned' = n /\ agent' = n
       /\ alive' = alive \union {n} /\ pumping' = pumping \union {n}
       /\ resumed' = [resumed EXCEPT ![n] = resumeTarget]
    /\ resumeTarget' = None
    /\ calls' = [calls EXCEPT ![s] = "deliver"]
    /\ running' = (running \/ listening)
    /\ tangled' = (tangled \/ Tangles)
    /\ UNCHANGED <<stdin, turn, asked, out, recorded, pending, resumedFrom, store, orphans,
                   command, mount, lost, overtaken>>

(* ... or spawns one, under the mutex: the resume target is taken, the pump subscribes, and
   a page that listens is told *)
Spawn(s) ==
    /\ calls[s] = "ensure"
    /\ agent = None
    /\ spawned < MaxSpawns
    /\ LET n == spawned + 1 IN
       /\ spawned' = n /\ agent' = n
       /\ alive' = alive \union {n} /\ pumping' = pumping \union {n}
       /\ resumed' = [resumed EXCEPT ![n] = resumeTarget]
    /\ resumeTarget' = None
    /\ calls' = [calls EXCEPT ![s] = "deliver"]
    /\ running' = (running \/ listening)
    /\ tangled' = (tangled \/ Tangles)
    /\ UNCHANGED <<stdin, turn, asked, out, recorded, pending, resumedFrom, store, orphans,
                   command, mount, lost, overtaken>>

(* No workspace, no MCP server or no claude binary: the target has been taken *)
SpawnFails(s) ==
    /\ calls[s] = "ensure"
    /\ agent = None
    /\ resumeTarget' = None
    /\ Return(s, TRUE)
    /\ UNCHANGED <<agent, process, pumps, pending, resumedFrom, store, command, mount, ghosts>>

(* The mutex is taken again for the message itself *)
Deliver(s) ==
    /\ calls[s] = "deliver"
    /\ agent # None
    /\ Write(agent, "user")
    /\ Return(s, FALSE)
    /\ UNCHANGED <<agent, spawned, alive, resumed, turn, asked, pumps, pending, slots, store,
                   command, mount, ghosts>>

(* The session was killed in between, or its process is gone and with it the reader of
   the stdin queue: an error *)
NobodyToDeliverTo(s) ==
    /\ calls[s] = "deliver"
    /\ agent \notin alive
    /\ Return(s, TRUE)
    /\ UNCHANGED <<agent, process, pumps, pending, slots, store, command, mount, ghosts>>

--------------------------------------------------------------------------------
(* The other commands *)

(* respond_permission; an answer to another process's prompt means nothing to this one *)
Respond(p) ==
    /\ p \in pending
    /\ agent # None
    /\ IF p = agent THEN Write(agent, "answer") ELSE stdin' = stdin
    /\ pending' = pending \ {p}
    /\ UNCHANGED <<agent, spawned, alive, resumed, turn, asked, pumps, slots, store, page,
                   ghosts>>

InterruptAgent ==
    /\ agent # None /\ running
    /\ Write(agent, "interrupt")
    /\ UNCHANGED <<agent, spawned, alive, resumed, turn, asked, pumps, pending, slots, store,
                   page, ghosts>>

(* Mutant: new_session forgets the link of the session to resume, and still resumes it *)
NewSessionForgetsLink ==
    /\ command = None
    /\ KillAgent
    /\ pending' = {}
    /\ command' = New
    /\ resumedFrom' = None
    /\ UNCHANGED <<pumps, resumeTarget, store, calls, orphans, running, mount, ghosts>>

NewSession ==
    /\ command = None
    /\ KillAgent
    /\ pending' = {}
    /\ command' = New
    /\ UNCHANGED <<pumps, slots, store, calls, orphans, running, mount, ghosts>>

(* The page hears that the session is gone *)
NewSessionDone ==
    /\ command = New
    /\ command' = None
    /\ running' = FALSE
    /\ UNCHANGED <<agent, process, pumps, pending, slots, store, calls, orphans, mount, ghosts>>

(* resume_session kills under the mutex ... *)
ResumeSession(id) ==
    /\ command = None
    /\ id \in rows
    /\ KillAgent
    /\ command' = id
    /\ UNCHANGED <<pumps, pending, slots, store, calls, orphans, running, mount, ghosts>>

(* ... and arms the next spawn after letting go of it *)
ArmResume ==
    /\ command \in Ids
    /\ pending' = {}
    /\ resumedFrom' = command
    /\ resumeTarget' = command
    /\ command' = None
    /\ tangled' = (tangled \/ agent # None \/ \E n \in Sessions : out[n] # <<>>)
    /\ UNCHANGED <<agent, process, pumps, store, calls, orphans, running, mount, lost, overtaken>>

--------------------------------------------------------------------------------
(* The page *)

(* The webview reloads.  Calls under way go on with nobody to return to; of a new_session
   only the page's part is left; a prompt taken but not sent yet is gone. *)
Mount ==
    /\ running' = FALSE
    /\ listening' = FALSE /\ hydration' = "asked" /\ shown' = {}
    /\ orphans' = {s \in Senders : calls[s] # "idle"}
    /\ command' = IF command = New THEN None ELSE command
    /\ initial' \in IF hydration = "done" THEN {initial, FALSE} ELSE {initial}
    /\ overtaken' = FALSE
    /\ UNCHANGED <<agent, process, pumps, pending, slots, store, calls, tangled, lost>>

Listen ==
    /\ ~listening
    /\ listening' = TRUE
    /\ UNCHANGED <<agent, process, pumps, pending, slots, store, calls, orphans, command, running,
                   hydration, shown, initial, ghosts>>

(* All the prompts there are have had the end of their session told *)
StalePrompts == pending # {} /\ pending \intersect pumping = {}

(* Mutant: get_state hands the prompts over *)
GetStateTakesPrompts ==
    /\ hydration = "asked"
    /\ hydration' = "answered"
    /\ shown' = pending
    /\ pending' = {}
    /\ overtaken' = (overtaken \/ StalePrompts)
    /\ UNCHANGED <<agent, process, pumps, slots, store, calls, orphans, command, running,
                   listening, initial, tangled, lost>>

(* Mutant: a session is taken for a turn *)
GetStateShowsSession ==
    /\ hydration = "asked"
    /\ hydration' = "answered"
    /\ shown' = {agent} \ {None}
    /\ overtaken' = (overtaken \/ StalePrompts)
    /\ UNCHANGED <<agent, process, pumps, pending, slots, store, calls, orphans, command, running,
                   listening, initial, tangled, lost>>

(* get_state copies the prompts, between a kill and their clearing a dead session's too *)
GetState ==
    /\ hydration = "asked"
    /\ hydration' = "answered"
    /\ shown' = pending
    /\ overtaken' = (overtaken \/ StalePrompts)
    /\ UNCHANGED <<agent, process, pumps, pending, slots, store, calls, orphans, command, running,
                   listening, initial, tangled, lost>>

(* Its `.then': a prompt implies a turn in flight, whatever has happened since the copy *)
Hydrate ==
    /\ hydration = "answered"
    /\ hydration' = "done"
    /\ shown' = {}
    /\ running' = (running \/ shown # {})
    /\ UNCHANGED <<agent, process, pumps, pending, slots, store, calls, orphans, command,
                   listening, initial, ghosts>>

(* The end of a turn, or of a session, reaches the page if it listens; a page that does not,
   or has the copy of a prompt still to show, is overtaken. *)
TellEnd ==
    /\ running' = (running /\ ~listening)
    /\ overtaken' = (running' \/ shown # {})

--------------------------------------------------------------------------------
(* The process, as the host sees it *)

(* Mutant: an unbounded channel *)
EmitUnbounded(n, e) ==
    /\ out' = [out EXCEPT ![n] = Append(@, e)]
    /\ lost' = lost

(* stdout to the broadcast channel: a subscriber that lags loses the oldest event it has
   not received *)
Emit(n, e) ==
    LET lags == Len(out[n]) >= Backlog + Held(n) IN
    /\ out' = [out EXCEPT ![n] =
                  IF lags THEN SubSeq(@, 1, Held(n)) \o SubSeq(@, Held(n) + 2, Len(@)) \o <<e>>
                  ELSE Append(@, e)]
    /\ lost' = (lost \/ lags)

(* A turn begins with init *)
StartTurn(n) ==
    /\ n \in alive /\ turn[n] = "idle"
    /\ Read(n, "user")
    /\ turn' = [turn EXCEPT ![n] = "busy"]
    /\ Emit(n, "init")
    /\ UNCHANGED <<agent, spawned, alive, resumed, asked, recorded, pumping, pending, slots,
                   store, page, tangled, overtaken>>

(* An interrupt or an answer that comes when no turn runs *)
IgnoreControl(n) ==
    /\ n \in alive /\ turn[n] = "idle"
    /\ \E m \in {"answer", "interrupt"} : Read(n, m)
    /\ UNCHANGED <<agent, spawned, alive, resumed, turn, asked, pumps, pending, slots, store,
                   page, ghosts>>

(* A can_use_tool request: the turn waits for its answer *)
AskPermission(n) ==
    /\ n \in alive /\ turn[n] = "busy" /\ n \notin asked
    /\ turn' = [turn EXCEPT ![n] = "asking"]
    /\ asked' = asked \union {n}
    /\ Emit(n, "prompt")
    /\ UNCHANGED <<agent, spawned, alive, resumed, stdin, recorded, pumping, pending, slots,
                   store, page, tangled, overtaken>>

ReadAnswer(n) ==
    /\ n \in alive /\ turn[n] = "asking"
    /\ Read(n, "answer")
    /\ turn' = [turn EXCEPT ![n] = "busy"]
    /\ UNCHANGED <<agent, spawned, alive, resumed, asked, pumps, pending, slots, store, page,
                   ghosts>>

(* The turn ends by itself, or at an interrupt *)
EndTurn(n) ==
    /\ n \in alive
    /\ \/ turn[n] = "busy" /\ stdin' = stdin
       \/ turn[n] \in {"busy", "asking"} /\ Read(n, "interrupt")
    /\ turn' = [turn EXCEPT ![n] = "idle"]
    /\ Emit(n, "result")
    /\ UNCHANGED <<agent, spawned, alive, resumed, asked, recorded, pumping, pending, slots,
                   store, page, tangled, overtaken>>

(* It exits by itself; nothing in the host looks at its status *)
Dies(n) ==
    /\ n \in alive
    /\ Exit(n)
    /\ lost' = TRUE
    /\ UNCHANGED <<agent, pumps, pending, slots, store, page, tangled, overtaken>>

--------------------------------------------------------------------------------
(* pump_events *)

(* The store adds the session's row, or fills in the link of one that has none *)
StartedRow(n, link) ==
    /\ rows' = rows \union {n}
    /\ from' = IF from[n] = None THEN [from EXCEPT ![n] = link] ELSE from

(* record_session_event awaits the store before the event goes anywhere else: an init
   takes the link *)
Record(n) ==
    /\ n \in pumping \ recorded
    /\ out[n] # <<>>
    /\ recorded' = recorded \union {n}
    /\ IF Head(out[n]) = "init"
       THEN resumedFrom' = None /\ StartedRow(n, resumedFrom)
       ELSE UNCHANGED <<resumedFrom, rows, from>>
    /\ UNCHANGED <<agent, process, out, pumping, pending, resumeTarget, page, ghosts>>

(* ... then the pending prompts and the page *)
Forward(n) ==
    /\ n \in pumping \intersect recorded
    /\ LET e == Head(out[n]) IN
       /\ pending' = CASE e = "prompt" -> pending \union {n}
                       [] e = "result" -> {}
                       [] OTHER        -> pending
       /\ IF e = "result" THEN TellEnd ELSE UNCHANGED <<running, overtaken>>
    /\ out' = [out EXCEPT ![n] = Tail(@)]
    /\ recorded' = recorded \ {n}
    /\ UNCHANGED <<agent, process, pumping, slots, store, calls, orphans, command, mount, tangled,
                   lost>>

(* The channel closes once the session is dropped and its stdout is read *)
Closed(n) == n \in pumping /\ n \notin alive /\ agent # n /\ out[n] = <<>>

(* Mutant: the end of a session is not told *)
PumpEndsSilently(n) ==
    /\ Closed(n)
    /\ pumping' = pumping \ {n}
    /\ UNCHANGED <<agent, process, out, recorded, pending, slots, store, page, ghosts>>

PumpEnds(n) ==
    /\ Closed(n)
    /\ pumping' = pumping \ {n}
    /\ TellEnd
    /\ UNCHANGED <<agent, process, out, recorded, pending, slots, store, calls, orphans, command,
                   mount, tangled, lost>>

--------------------------------------------------------------------------------

Next ==
    \/ \E s \in Senders : \/ Send(s) \/ SendInitial(s) \/ HasSession(s) \/ Spawn(s) \/ SpawnFails(s)
                          \/ Deliver(s) \/ NobodyToDeliverTo(s)
    \/ \E p \in pending : Respond(p)
    \/ \E id \in rows : ResumeSession(id)
    \/ InterruptAgent \/ NewSession \/ NewSessionDone \/ ArmResume
    \/ Mount \/ Listen \/ GetState \/ Hydrate
    \/ \E n \in Sessions : \/ StartTurn(n) \/ IgnoreControl(n) \/ AskPermission(n)
                            \/ ReadAnswer(n) \/ EndTurn(n) \/ Dies(n)
                            \/ Record(n) \/ Forward(n) \/ PumpEnds(n)

Spec == Init /\ [][Next]_vars

--------------------------------------------------------------------------------
(* Properties *)

(* A window has at most the one process its mutex holds: commands that start, kill and
   replace it in any order never leave a second claude editing the same board. *)
OneCliPerWindow == alive \subseteq {agent}

(* While the CLI's turn waits for an answer that is not on its way, its prompt is in
   pending_permissions, where a reloaded page finds it, or still in the pump: otherwise
   nobody can ever answer and the turn is wedged. *)
PromptSurvives ==
    \A n \in alive :
        turn[n] = "asking" /\ "answer" \notin stdin[n]
            => n \in pending \/ \E i \in 1..Len(out[n]) : out[n][i] = "prompt"

PromptsSurvive == ~tangled /\ ~lost => PromptSurvives

(* A session that resumed another is linked to it in the store: without the link the
   listings show the conversation twice, and resuming the older row forks it again. *)
ResumesAreLinked ==
    ~tangled /\ ~lost => \A n \in rows : n # 0 /\ resumed[n] # None => from[n] = resumed[n]

(* Once the calls have returned and the pumps have nothing left to say, the working
   indicator is on only while a turn runs or a message waits to start one, whatever order
   kills, ends, answers and reloads come in.  A page that was told of an end before it could
   hear it, or between the copy of the prompts and its use (state.ts:110-138, 172), is
   `overtaken' and stays on until the next end it hears, or the next reload. *)
Quiet ==
    /\ \A s \in Senders : calls[s] = "idle"
    /\ command = None
    /\ \A n \in pumping : out[n] = <<>> /\ ~Closed(n)

RunningMeansBusy ==
    Quiet /\ running /\ ~overtaken /\ ~lost =>
        \E n \in alive : turn[n] # "idle" \/ "user" \in stdin[n]
================================================================================
