-------------------------------- MODULE Builder --------------------------------
(***************************************************************************)
(* One project window's builder task and file watcher                       *)
(* (apps/desktop/src-tauri/src/builder.rs).  Files change at any time; the  *)
(* watcher turns changes into requests on a bounded queue; one task serves  *)
(* that queue and the MCP server's, and publishes into the canvas state.    *)
(*                                                                          *)
(* A file's content is the stamp of the edit that last wrote or removed it, *)
(* and so is its SHA-256.  One build reads all its files in one step.       *)
(***************************************************************************)
EXTENDS Integers, Sequences, FiniteSets

CONSTANTS
    Boards,     \* .zen files at the project root: what the canvas may show
    Parts,      \* .zen files the boards load
    First,      \* the board the window is opened on
    None,       \* no board: a manifest without an entry, a closed workspace
    Missing,    \* the manifest file itself is gone
    Callers,    \* who waits for builds: open commands and the MCP build tool
    Opener,     \* the caller that opens the window
    NoCaller,   \* a request nobody waits for
    Cap,        \* channel capacity (16 in the code)
    Red,        \* edits whose content does not evaluate to a schematic
    MaxEdits    \* bound for TLC: edits of the project's files and reloads

ASSUME FilesAssumption == First \in Boards /\ Boards \intersect Parts = {}
ASSUME NamesAssumption == {None, Missing} \intersect Boards = {} /\ None # Missing
ASSUME CallersAssumption == Opener \in Callers /\ NoCaller \notin Callers
ASSUME BoundsAssumption == Cap \in Nat \ {0} /\ MaxEdits \in Nat

Files  == Boards \union Parts
Stamps == 0..MaxEdits
Kinds  == {"sources", "manifest", "project"}

Requests == [reload : BOOLEAN, project : BOOLEAN, build : BOOLEAN,
             reply : Callers \union {NoCaller}]

(* What a build was made from *)
Inputs == [board : Boards, zen : [Files -> Stamps]]

VARIABLES
    zen,       \* [Files -> Stamps]: the edit that last changed each file
    gone,      \* the files that do not exist
    entry,     \* `board' in etchable.toml, None or Missing
    edits,     \* how many edits and reloads so far
    watching,  \* start_watcher has run
    fs,        \* kinds of file events the watcher thread has not received
    batch,     \* kinds gathered in the current debounce window
    sending,   \* the debounce window is over; blocking_send is under way
    queue,     \* build_tx / build_rx
    rebuilds,  \* rebuild_tx / rebuild_rx: callers of the MCP build tool
    phase,     \* where the builder task is
    req,       \* the request it serves
    loaded,    \* the entry it has read from the manifest
    ws,        \* the board the open workspace was opened for, or None
    job,       \* what the current build is made from
    ok,        \* whether the current build produced output
    viewHash,  \* source_hash of the BuildView about to be emitted
    source,    \* CanvasState.source
    board,     \* CanvasState.project.board, or None
    layout,    \* {inputs} of the schematic in CanvasState.build, or {}
    hash,      \* CanvasState.source_hash
    tried,     \* ghost: {inputs} of the last finished attempt, or {}
    opened,    \* "opening", "open" or "failed"
    status,    \* what each caller knows: "idle", "waiting", "ok" or "err"
    asked,     \* ghost: the files as they were when the caller asked
    missed,    \* ghost: a file changed while nothing watched
    lost       \* ghost: a manifest load found no board

disk    == <<zen, gone, entry, edits, missed>>
watcher == <<watching, fs, batch, sending>>
task    == <<phase, req, loaded, ws, job, ok, viewHash>>
canvas  == <<source, board, layout, hash, tried, lost>>
callers == <<opened, status, asked>>
vars    == <<disk, watcher, queue, rebuilds, task, canvas, callers>>

TypeOK ==
    /\ zen \in [Files -> Stamps] /\ gone \subseteq Files
    /\ entry \in Boards \union {None, Missing}
    /\ edits \in Stamps
    /\ watching \in BOOLEAN /\ sending \in BOOLEAN
    /\ fs \subseteq Kinds /\ batch \subseteq Kinds
    /\ queue \in Seq(Requests) /\ Len(queue) <= Cap
    /\ rebuilds \in Seq(Callers) /\ Len(rebuilds) <= Cap
    /\ phase \in {"recv", "load", "store", "start", "open", "eval", "view", "publish"}
    /\ req \in Requests
    /\ loaded \in Boards \union {None, Missing}
    /\ ws \in Boards \union {None}
    /\ job \in Inputs /\ ok \in BOOLEAN /\ viewHash \in Stamps
    /\ source \in Boards /\ board \in Boards \union {None}
    /\ layout \subseteq Inputs /\ tried \subseteq Inputs
    /\ hash \in Stamps
    /\ opened \in {"opening", "open", "failed"}
    /\ status \in [Callers -> {"idle", "waiting", "ok", "err"}]
    /\ asked \in [Callers -> [Files -> Stamps]]
    /\ missed \in BOOLEAN /\ lost \in BOOLEAN

--------------------------------------------------------------------------------

Request(kinds) == [reload  |-> "manifest" \in kinds,
                   project |-> kinds \intersect {"project", "manifest"} # {},
                   build   |-> kinds \intersect {"sources", "manifest"} # {},
                   reply   |-> NoCaller]

Plain(c) == [reload |-> FALSE, project |-> FALSE, build |-> TRUE, reply |-> c]

NoJob == [board |-> First, zen |-> [f \in Files |-> 0]]

Present == Boards \ gone

(* load_project's entry: the manifest's, if the file exists; without one, the only
   .zen at the project root. *)
Resolved(e) == IF e \in Boards THEN (IF e \in Present THEN e ELSE None)
               ELSE IF \E b \in Boards : Present = {b} THEN CHOOSE b \in Boards : Present = {b}
               ELSE None

Init ==
    /\ zen = [f \in Files |-> 0] /\ gone \in SUBSET (Boards \ {First})
    /\ entry \in {First, None} /\ Resolved(entry) = First
    /\ edits = 0
    /\ watching = FALSE /\ fs = {} /\ batch = {} /\ sending = FALSE
    /\ queue = <<Plain(Opener)>> /\ rebuilds = <<>>
    /\ phase = "recv" /\ req = Plain(NoCaller) /\ loaded = None
    /\ ws = None
    /\ job = NoJob /\ ok = FALSE /\ viewHash = 0
    /\ source = First /\ board = First
    /\ layout = {} /\ hash = 0 /\ tried = {}
    /\ opened = "opening"
    /\ status = [c \in Callers |-> IF c = Opener THEN "waiting" ELSE "idle"]
    /\ asked = [c \in Callers |-> NoJob.zen]
    /\ missed = FALSE /\ lost = FALSE

--------------------------------------------------------------------------------
(* Files change: the agent, an editor, git, or a gated gesture *)

(* classify(): *.zen rebuilds, etchable.toml reopens, other toml re-reads the project *)
Event(kind) ==
    /\ fs' = IF watching THEN fs \union {kind} ELSE fs
    /\ missed' = (missed \/ ~watching)
    /\ UNCHANGED <<watching, batch, sending>>

Edit(f) ==
    /\ edits < MaxEdits
    /\ edits' = edits + 1
    /\ zen' = [zen EXCEPT ![f] = edits + 1]

WriteZen(f) ==
    /\ Edit(f)
    /\ gone' = gone \ {f}
    /\ Event("sources")
    /\ UNCHANGED <<entry, queue, rebuilds, task, canvas, callers>>

RemoveZen(f) ==
    /\ f \in Boards \ gone
    /\ Edit(f)
    /\ gone' = gone \union {f}
    /\ Event("sources")
    /\ UNCHANGED <<entry, queue, rebuilds, task, canvas, callers>>

EditManifest(e) ==
    /\ edits < MaxEdits
    /\ e # entry
    /\ edits' = edits + 1
    /\ entry' = e
    /\ Event("manifest")
    /\ UNCHANGED <<zen, gone, queue, rebuilds, task, canvas, callers>>

(* A card or a datasheet *)
EditCard ==
    /\ edits < MaxEdits
    /\ edits' = edits + 1
    /\ Event("project")
    /\ UNCHANGED <<zen, gone, entry, queue, rebuilds, task, canvas, callers>>

(* Mutant: the debounce keeps the kind of the last event only *)
GatherLast(kind) ==
    /\ ~sending
    /\ kind \in fs
    /\ fs' = fs \ {kind}
    /\ batch' = {kind}
    /\ UNCHANGED <<disk, watching, sending, queue, rebuilds, task, canvas, callers>>

--------------------------------------------------------------------------------
(* The watcher thread *)

Gather(kind) ==
    /\ ~sending
    /\ kind \in fs
    /\ fs' = fs \ {kind}
    /\ batch' = batch \union {kind}
    /\ UNCHANGED <<disk, watching, sending, queue, rebuilds, task, canvas, callers>>

(* Mutants: a channel without a capacity, and try_send instead of blocking_send *)
SendUnbounded ==
    /\ sending
    /\ queue' = Append(queue, Request(batch))
    /\ batch' = {} /\ sending' = FALSE
    /\ UNCHANGED <<disk, watching, fs, rebuilds, task, canvas, callers>>

SendOrDrop ==
    /\ sending
    /\ queue' = IF Len(queue) < Cap THEN Append(queue, Request(batch)) ELSE queue
    /\ batch' = {} /\ sending' = FALSE
    /\ UNCHANGED <<disk, watching, fs, rebuilds, task, canvas, callers>>

(* 150 ms without an event *)
DebounceExpires ==
    /\ ~sending
    /\ batch # {}
    /\ sending' = TRUE
    /\ UNCHANGED <<disk, watching, fs, batch, queue, rebuilds, task, canvas, callers>>

SendRequest ==
    /\ sending
    /\ Len(queue) < Cap
    /\ queue' = Append(queue, Request(batch))
    /\ batch' = {}
    /\ sending' = FALSE
    /\ UNCHANGED <<disk, watching, fs, rebuilds, task, canvas, callers>>

--------------------------------------------------------------------------------
(* The window's commands and the MCP server *)

(* nudge_build after a gesture: try_send, so a full queue drops it *)
Nudge ==
    /\ opened = "open"
    /\ Len(queue) < Cap
    /\ queue' = Append(queue, Plain(NoCaller))
    /\ UNCHANGED <<disk, watcher, rebuilds, task, canvas, callers>>

(* reload_workspace; MaxEdits bounds it with the edits *)
ReloadWorkspace ==
    /\ opened = "open"
    /\ edits < MaxEdits
    /\ edits' = edits + 1
    /\ Len(queue) < Cap
    /\ queue' = Append(queue, Request({"manifest"}))
    /\ UNCHANGED <<zen, gone, entry, missed, watcher, rebuilds, task, canvas, callers>>

Ask(c) ==
    /\ status[c] # "waiting"
    /\ status' = [status EXCEPT ![c] = "waiting"]
    /\ asked' = [asked EXCEPT ![c] = zen]

(* request_build_and_wait, for rebuild and when the board is opened again: by then the registry may
   hold an instance whose own open is still under way *)
Reopen(c) ==
    /\ opened = "open" \/ (opened = "opening" /\ c # Opener)
    /\ Ask(c)
    /\ Len(queue) < Cap
    /\ queue' = Append(queue, Plain(c))
    /\ UNCHANGED <<disk, watcher, rebuilds, task, canvas, opened>>

(* request_rebuild, the MCP build tool *)
BuildTool(c) ==
    /\ opened = "open"
    /\ Ask(c)
    /\ Len(rebuilds) < Cap
    /\ rebuilds' = Append(rebuilds, c)
    /\ UNCHANGED <<disk, watcher, queue, task, canvas, opened>>

(* open_board_file: watch from the root the first build resolved *)
StartWatcher ==
    /\ opened = "opening" /\ status[Opener] = "ok"
    /\ watching' = TRUE
    /\ opened' = "open"
    /\ status' = [status EXCEPT ![Opener] = "idle"]
    /\ UNCHANGED <<disk, fs, batch, sending, queue, rebuilds, task, canvas, asked>>

(* The first build or the watcher failed: the instance is torn down *)
OpenBoardFails ==
    /\ opened = "opening" /\ status[Opener] \in {"ok", "err"}
    /\ opened' = "failed"
    /\ UNCHANGED <<disk, watcher, queue, rebuilds, task, canvas, status, asked>>

--------------------------------------------------------------------------------
(* The builder task *)

(* The top of the loop: select! takes a request from either channel, in any order.
   A project refresh comes first, and alone when the request does not build. *)
Begin(r) ==
    /\ phase = "recv"
    /\ req' = r
    /\ phase' = IF r.project THEN "load" ELSE "start"
    /\ UNCHANGED <<disk, watcher, loaded, ws, job, ok, viewHash, canvas, callers>>

TakeRequest ==
    /\ queue # <<>>
    /\ Begin(Head(queue))
    /\ queue' = Tail(queue)
    /\ UNCHANGED rebuilds

TakeRebuild ==
    /\ rebuilds # <<>>
    /\ Begin(Plain(Head(rebuilds)))
    /\ rebuilds' = Tail(rebuilds)
    /\ UNCHANGED queue

AfterRefresh == IF req.build THEN "start" ELSE "recv"

(* refresh_project, in its blocking task: load_project reads the manifest *)
LoadManifest ==
    /\ phase = "load"
    /\ loaded' = entry
    /\ phase' = "store"
    /\ UNCHANGED <<disk, watcher, queue, rebuilds, req, ws, job, ok, viewHash, canvas, callers>>

(* Mutant: the refresh stores the project and leaves the canvas where it was *)
StoreProjectOnly ==
    /\ phase = "store"
    /\ phase' = AfterRefresh
    /\ IF loaded = Missing THEN UNCHANGED <<board, lost>>
       ELSE /\ board' = Resolved(loaded)
            /\ lost' = (lost \/ Resolved(loaded) = None)
    /\ loaded' = None
    /\ UNCHANGED <<disk, watcher, queue, rebuilds, req, ws, job, ok, viewHash, source, layout,
                   hash, tried, callers>>

(* Mutant: any open workspace is reused *)
NeedOpenOnReload == req.reload \/ ws = None

(* ... looks for the entry on disk, and the refresh follows a renamed entry.  A
   missing manifest is an Err: one more problem on the old project. *)
StoreProject ==
    /\ phase = "store"
    /\ phase' = AfterRefresh
    /\ IF loaded = Missing THEN UNCHANGED <<source, board, lost>>
       ELSE LET new == Resolved(loaded) IN
            /\ board' = new
            /\ source' = IF new # None /\ source = board THEN new ELSE source
            /\ lost' = (lost \/ new = None)
    /\ loaded' = None
    /\ UNCHANGED <<disk, watcher, queue, rebuilds, req, ws, job, ok, viewHash, layout, hash,
                   tried, callers>>

NeedOpen == req.reload \/ ws # source

(* Build the board the canvas names; a workspace opened for it may be reused *)
StartBuild ==
    /\ phase = "start"
    /\ phase' = IF NeedOpen THEN "open" ELSE "eval"
    /\ job' = [job EXCEPT !.board = source]
    /\ UNCHANGED <<disk, watcher, queue, rebuilds, req, loaded, ws, ok, viewHash, canvas, callers>>

OpenWorkspace ==
    /\ phase = "open"
    /\ ws' = job.board
    /\ phase' = "eval"
    /\ UNCHANGED <<disk, watcher, queue, rebuilds, req, loaded, job, ok, viewHash, canvas, callers>>

(* finish_with_failure follows; the old workspace stays *)
OpenFails ==
    /\ phase = "open"
    /\ job' = [job EXCEPT !.zen = zen]
    /\ ok' = FALSE
    /\ phase' = "view"
    /\ UNCHANGED <<disk, watcher, queue, rebuilds, req, loaded, ws, viewHash, canvas, callers>>

(* build_file reads and evaluates the sources *)
Eval ==
    /\ phase = "eval"
    /\ job.board \notin gone
    /\ job' = [job EXCEPT !.zen = zen]
    /\ ok' = TRUE
    /\ phase' = "view"
    /\ UNCHANGED <<disk, watcher, queue, rebuilds, req, loaded, ws, viewHash, canvas, callers>>

(* No such file is an Err.  A panic inside the blocking task (a file that vanishes
   during the build is one) also loses the workspace it had been moved into. *)
EvalFails ==
    /\ phase = "eval"
    /\ job' = [job EXCEPT !.zen = zen]
    /\ ok' = FALSE
    /\ \/ ws' = None
       \/ job.board \in gone /\ ws' = ws
    /\ phase' = "view"
    /\ UNCHANGED <<disk, watcher, queue, rebuilds, req, loaded, viewHash, canvas, callers>>

(* BuildView::new hashes the board file as it is by now *)
MakeView ==
    /\ phase = "view"
    /\ viewHash' = zen[job.board]
    /\ phase' = "publish"
    /\ UNCHANGED <<disk, watcher, queue, rebuilds, req, loaded, ws, job, ok, canvas, callers>>

HasSchematic(j) == \A f \in {j.board} \union Parts : j.zen[f] \notin Red

Answer(c) == IF opened # "opening" \/ c # Opener THEN "idle" ELSE IF ok THEN "ok" ELSE "err"

(* set_build hashes the board once more; the event follows.  A failure keeps the last
   schematic (finish_with_failure).  The task's locals go out of scope. *)
Recorded ==
    /\ phase = "publish"
    /\ layout' = IF ~ok THEN layout ELSE IF HasSchematic(job) THEN {job} ELSE {}
    /\ hash' = zen[source]
    /\ tried' = {job}
    /\ phase' = "recv"
    /\ req' = Plain(NoCaller)
    /\ job' = NoJob /\ ok' = FALSE /\ viewHash' = 0
    /\ UNCHANGED <<disk, watcher, queue, rebuilds, loaded, ws, source, board, lost, opened>>

AnswerTo(who) ==
    /\ status' = [c \in Callers |-> IF c \in who THEN Answer(c) ELSE status[c]]
    /\ asked' = [c \in Callers |-> IF c \in who THEN NoJob.zen ELSE asked[c]]

(* Mutants: a build answers everyone who waits by now; a failed build answers nobody *)
PublishAnswersAll ==
    Recorded /\ AnswerTo({c \in Callers : c = req.reply \/ status[c] = "waiting"})

PublishAnswersSuccess ==
    Recorded /\ AnswerTo({c \in Callers : c = req.reply /\ ok})

(* ... and then the reply to the request served *)
Publish == Recorded /\ AnswerTo({req.reply} \intersect Callers)

--------------------------------------------------------------------------------

Project ==
    \/ \E f \in Files : WriteZen(f) \/ RemoveZen(f)
    \/ \E e \in Boards \union {None, Missing} : EditManifest(e)
    \/ EditCard

Watcher == (\E k \in Kinds : Gather(k)) \/ DebounceExpires \/ SendRequest

Window ==
    \/ Nudge \/ ReloadWorkspace
    \/ \E c \in Callers : Reopen(c) \/ BuildTool(c)
    \/ StartWatcher \/ OpenBoardFails

Serve ==
    \/ LoadManifest \/ StoreProject
    \/ StartBuild
    \/ OpenWorkspace \/ OpenFails
    \/ Eval \/ EvalFails
    \/ MakeView \/ Publish

Next == Project \/ Watcher \/ Window \/ TakeRequest \/ TakeRebuild \/ Serve

(* The OS delivers events and runs the watcher thread and the task.  select! picks a
   ready branch at random, so neither channel is passed over for ever. *)
Fairness ==
    /\ \A k \in Kinds : WF_vars(Gather(k))
    /\ WF_vars(DebounceExpires) /\ SF_vars(SendRequest)
    /\ SF_vars(TakeRequest) /\ SF_vars(TakeRebuild) /\ WF_vars(Serve)
    /\ WF_vars(StartWatcher \/ OpenBoardFails)

Spec == Init /\ [][Next]_vars
FairSpec == Spec /\ Fairness

--------------------------------------------------------------------------------
(* Properties *)

(* The last attempt read the files as they are now *)
Covered == \E j \in tried : j.zen = zen

(* Something is under way that will read them *)
Pending ==
    \/ (fs \union batch) \intersect {"sources", "manifest"} # {}
    \/ \E i \in DOMAIN queue : queue[i].build
    \/ rebuilds # <<>>
    \/ phase \in {"load", "store"} /\ req.build
    \/ phase \in {"start", "open", "eval"}
    \/ phase \in {"view", "publish"} /\ job.zen = zen

(* A build is made in a workspace opened for its board, which the canvas still names
   when the build is published: the expect() of builder.rs:124 holds, and set_build
   (mcp/src/state.rs:77-80) hashes the board that was built. *)
BuildsTheBoardShown ==
    /\ phase = "eval" => ws = job.board
    /\ phase \in {"open", "eval", "view", "publish"} => job.board = source

(* Once the window is open, no change of a source file is forgotten: whatever the
   order of events, debounce windows, requests and builds, the last attempt read it
   or a later one is on its way (builder.rs:275-294, 52-65). *)
NoChangeForgotten ==
    opened = "open" /\ ~missed => Covered \/ Pending

(* The canvas stays on the project's entry until a load finds no board at all
   (builder.rs:181-200). *)
SourceFollowsProject == source # board => lost

(* The answer to a build request covers every change made before it was asked, on
   whichever queue it travelled (builder.rs:366-379, mcp/src/state.rs:90-98). *)
AnswersAreFresh ==
    [][\A c \in Callers : status[c] = "waiting" /\ status'[c] # "waiting" =>
         \A f \in Files : asked[c][f] <= job.zen[f]]_vars

(* Nobody waits for ever for a build *)
EveryoneAnswered == \A c \in Callers : status[c] = "waiting" ~> status[c] # "waiting"

(* When the edits stop, the canvas catches up *)
CatchesUp == <>[](opened = "open" /\ ~missed => Covered)
================================================================================
