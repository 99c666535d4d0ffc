# Formal model of etchable

etchable is a desktop application (Tauri: a Rust host and a TypeScript page) in
which a user and a coding agent edit the same circuit board. A board is a `.zen`
program; the application evaluates it, draws it, lets the user change it by
gestures that rewrite the program's text, and hosts a `claude` process that
changes the same files with its own tools and through an MCP server.

This directory holds TLA+ modules for the parts of that program where the order of
things matters, the TLC configurations that check them on small instances, and
theorems that TLAPS proves for every instance. Paths below are relative to the
repository's root; `desktop/` stands for `apps/desktop/src-tauri/src/`.

## 1. The system

| Component | State it keeps | Operations | Talks to |
|---|---|---|---|
| Write gate (`crates/mcp/src/gate.rs`) | a mutex over the undo and redo stacks of byte snapshots | apply, undo, redo | every structured writer: canvas commands (`desktop/commands.rs`), MCP tools (`crates/mcp/src/tools.rs`) |
| Builder task and watcher (`desktop/builder.rs`) | two request queues, the open workspace, the debounce window | serve a request: refresh the project, (re)open the workspace, evaluate, publish | the files, the canvas state, commands and tools that wait for a build |
| Canvas state (`crates/mcp/src/state.rs`, `desktop/state.rs`) | board, project, latest build, hash of the board | read, write, set_build | builder, commands, tools, page |
| Page (`apps/desktop/src/state.ts`, `App.tsx`) | latest build, last good build, running flag, prompts | hydrate, accept a build, send gestures with `base_hash` | commands and window events |
| Agent session (`desktop/agent.rs`, `crates/agent-host`) | the session in a mutex, resume slots, pending prompts, a pump per process | send, answer, interrupt, new, resume | the `claude` process, the store, the page |
| Windows and registry (`desktop/lib.rs`, `commands.rs`, `state.rs`) | instances by label, windows, the dashboard | open, close, quit, launch, restore | store, builder, agent |
| Store (`crates/store`) | sqlite: recents, sessions, preferences | upserts and queries | windows, agent session |
| MCP server and tools (`crates/mcp`) | none of its own | one handler per tool | canvas state, gate, rebuild queue, part client |
| Program edits (`crates/zen-build/src/edit.rs`, `positions.rs`) | none: text to text | connect, disconnect, attach, add, remove, rename, move | run inside the gate |
| Projects, evaluation (`zen-build/src/project.rs`, `lib.rs`, ...) | none | load a manifest, open a workspace, evaluate | builder |
| Layout and routing (`zen-build/src/layout.rs`, `route.rs`, ...) | none | geometry | part of a build |
| Part client and cache (`crates/lcsc`) | a request gate, a breaker file, a file cache | search, fetch, convert | palette, MCP tools |
| Chat, gestures, dashboard (`apps/desktop/src/chat`, `circuit`) | view state | display, pointer handling | page |
| Menu, web site, agent wire protocol | - | - | - |

What is hard in it:

- **Several writers, one set of files.** Gestures, MCP tools, the agent's own file
  tools, git and an editor all write `.zen` files; only the first two take the gate's
  mutex. Undo must never destroy newer work, and must still work after any
  interleaving that does not touch the gesture's files.
- **A pipeline of events to a view.** File event, debounce, queue, build, event,
  page: bounded queues, dropped nudges, events nobody listens to yet, an echo filter
  and a token that gates the next gesture. A change may not be forgotten.
- **Commands that await.** Every command is async; the agent's mutex is dropped
  between "make sure there is a session" and "send the message", killing and
  resuming are not one step, and a killed process's events arrive later.
- **Windows that come and go** while opens are under way, on exit paths whose order
  differs by platform, with a restore set written by tasks nobody waits for, and
  crashes at any point.
- **Text edits with semantics**: net merges, ports of submodules, placeholders and
  literals, position keys, each verb with its own rules for what it may orphan, and
  two kinds of drivers that decide from a build which may be old.
- **A guest of somebody else's service**: a breaker that must outlive the process, a
  file cache and an install shared by tasks that can crash at any byte, preflights
  cached by modification time.
- **Geometry with two sources**: the packer until every part has a position, the
  file from then on, and a drawing that must not show the switch.

## 2. Plan

The order puts what loses a user's work first.

| # | Module | What it says |
|---|---|---|
| 1 | `WriteGate`, with `WriteGateInv`, `UndoTimeline`, `WriteGateTimeline`, `WriteGateProofs` | the gate, and the abstract timeline it implements |
| 2 | `Builder` | the builder task, its queues and the watcher |
| 3 | `Canvas` (extends `Builder`), `CanvasProofs` (about both) | the page on top of the builder |
| 4 | `AgentSession`, `AgentSessionProofs` | a window's agent |
| 5 | `Windows`, `WindowsProofs` | instances, windows, quitting, crashing, restoring |
| 6 | `Netlist`, `NetEdit`, `NetEditProofs` | the edits of a program, by canvas and tools |
| 7 | `Components`, `PartClient`, `Placement`, composed by `Palette`, `PaletteProofs` | fetching, installing and placing a part |
| 8 | `Store`, `StoreProofs` | recents and sessions, statement by statement, and the menu |
| 9 | `RailLayout`, `Routing`, `Drawing`, `DrawingProofs` | the drawing of a board over its edits |

Every module takes its sizes as CONSTANTS with named assumptions, has one action per
operation or per part of an operation between two awaits (or, for files and SQL, two
calls), and no RECURSIVE operator, so that it can be proved about as it stands. The MC
modules name the values TLC uses.

## 3. The modules

### WriteGate

State: the bytes of the files (`disk`), the two stacks, the operation that holds the
mutex with its loop position, the caller's token, whether the mutex is poisoned.
An operation is several steps because the file system is not covered by the mutex:
`BeginApply` (lock and hash guard), `TakeBefore` (the before-snapshot), `WriteFile` once per file the writer
writes, `FinishApply`; `BeginUndo`, `CheckFile` for each file of restore()'s first
loop, `WriteBack` for each of its second, `FinishUndo`; and every error path
(`WriterFails`, `WriterPanics`, `Discard`, `RestoreFails`, `RemoveIgnored`).
`UngatedWrite` is everyone who writes without the gate, at any moment.

Two ghosts. `drift[f]` counts how often the stacks lost track of `f`: an outside
write, or an operation that failed half way. A record carries in `at` the drift of its
files when it last faced the disk. `raced` holds the files rewritten since the restore
in progress compared them.

`UndoTimeline` is the promise: a line of project states with a cursor.
`WriteGateTimeline` maps the stacks to it, with an operation taking effect when its
record is pushed, and `QuietSpec` is the gate without outside writes and half-done
failures.

### Builder

State: the files (a file's content is the number of the edit that last wrote it), the
manifest's entry, the watcher's pending kinds of events and debounce batch, the two
queues, the task's program counter and locals, the canvas state, and what each caller
knows. The watcher's thread is `Gather`, `DebounceExpires`, `SendRequest` (blocking
when the queue is full); commands enter by `Nudge` (try_send, dropped when full),
`ReloadWorkspace`, `Reopen`; the MCP tool by `BuildTool`. The task takes from either
queue (`TakeRequest`, `TakeRebuild`), loads and stores the project, decides whether
to open, opens, evaluates, hashes for the view, publishes and answers; a panic in the
blocking build is `EvalFails`, which loses the workspace as the code does.

Ghosts: `tried` (what the last attempt read), `asked` (the files when a caller
asked), `missed` (a file changed before the watcher started), `lost` (a manifest load
found no board).

### Canvas

`Canvas` extends `Builder` with the page: `Mount` (a new or reloaded webview),
`Listen`, `GetState` and `Hydrate` (the reply on its way), `BuildFinished`, the echo
filter (`Same`, `Keep`) and `Gesture`, a write that the gate's hash guard lets through
and that nudges the builder. The waiting callers and project refreshes of `Builder`
stay as they are.

Ghost: `raced` (the last build finished while the page was being mounted: its event was
lost, or overtook or was overtaken by the reply of get_state). The next build the page
hears of ends it.

### AgentSession

State: the session in the mutex, the processes with what they have not read and what
they are doing, the events each pump has still to handle, the resume slots, the
store's rows and links, the calls in flight, the page's running flag and how far the page
is mounted. A send, which the chat makes when idle and the "Ask the agent" of a refused
edit at any time, is
`Send`, then `HasSession` or `Spawn` or `SpawnFails`, then `Deliver` or
`NobodyToDeliverTo`, because the mutex is released in between. `NewSession` and
`ResumeSession`/`ArmResume` are split where the code awaits. The pump handles an event
in two steps, `Record` (the store is awaited) and `Forward` (prompts and page).

A page is mounted, and mounted again by a reload at any moment, in steps that cross all of
this: `Mount` starts afresh, `Listen` registers the listener, `GetState` copies the pending
prompts, `Hydrate` is the reply's `.then`, which shows them, sets the running flag if there
are any and takes the dashboard's first message (`SendInitial`). Between any two of them
the pump goes on. The calls of the page before (`orphans`) run on, and nobody sees what
they return.

Three ghosts. `tangled`: a spawn or a resume met what an earlier session left behind (events
of a killed process still in a pump, a resume not yet armed). `lost`: the process died by
itself or a pump lagged by more than the channel holds. `overtaken`: the end of a turn
passed the page by while it was mounted, so its flag is on, or will be, for a turn that is
over; the next end it hears, or a reload, clears it. What the code does then is described
in section 6. The properties of prompts and links speak of runs without the first two, that
of the running flag of runs without the last two.

### Windows

State: the application's phase, the registry, the windows and those that are closing,
the dashboard, each open's position in `open_board_file`, the restore loop, and the
two preferences with the writes that are under way (a set: nothing orders them).
`Begin`, `FindExisting`/`FindNone`, `Create`, `ShowWindow`, `OpenFails` are an open, cut
at its awaits; `CloseRequested` and `Destroyed` are the two window events, the second
before or after `ExitRequested` when quitting; `Ends` is a quit or a crash; `Launch`
reads and clears the flag.

Ghosts: `left` (what was on screen at the quit), `stale` (the last launch found a set it
skipped), `raced` (two writes at once, a record while a window is closing, a failed
or duplicate open, a quit in the middle of an open).

### Netlist and NetEdit

`Netlist` is a `.zen` program as the edits see it: per net variable its definition (and
whether it has a literal name), per instance its module and one expression per
argument, which definitions stand above which calls, other uses of a variable, and the
keys of the position block; with the primitive edits (`SetArg`, `Define`, `AddCall`,
`Redirect`, `Prune`) and what the evaluator makes of it (`Joined`, `Spans`).

`NetEdit` has one action per command of the canvas and per MCP tool: `CanvasConnect`,
`CanvasDisconnect`, `CanvasAttach`, `CanvasAdd`, ..., `ToolConnect`, `ToolAdd`, ...,
`SavePositions`, `SetPositions`, over one definition per writer of `edit.rs`
(`Connected` with `NeedsMerge`, `Merged`, `FreshName`, `Pointed`; `Disconnected`;
`Attached`; `Added`; `Removed`; ...). A canvas command is refused unless the file is
what the last build read (`Guarded`). A tool reads the build first (`ToolConnectReads`,
`ToolAddReads`) and writes later, after anybody's edits; `Build` evaluates the file. A
panic inside the gate is `Panic`, after which no writer gets through (`poisoned`).

Ghosts: `last` (which verb the last step was), `strayed` (a tool wrote positions from a
build that an edit had overtaken).

### Components, PartClient, Placement, Palette

`Components` holds the files of installed components, piece by piece in the order
install_component writes them, and who is busy; `PartClient` the calls of several tasks
in the steps of one request (`Look` in the cache, `Check` the breaker, queue for the
turn, `Send`, an answer, `AskedToRetry`, `Refused` with the breaker's two writes
`Blocked` and `Tripped`), the cache's put as `PutOpens`, `PutWrites`, `PutRenames`, and the
install (`BeginInstall`, `InstallWrites`, `Datasheet`); `Placement` the preflight of a
placement in the shared scratch file, from `BeginPlacement` through the rounds of
guessing (`WriteScratch`, `Guess`, `Retries`) to the cached answer. `Palette` composes
them with a crash of the process (`Crash`: the calls are lost, the files stay as they are)
and the passing of time (`Time`: entries expire, bans end).

Ghosts: `crossed` and `torn` in the composition's parts (two tasks put one key at once,
two installs of one name at once), `unproven` (a module was replaced or a scratch file
overwritten while somebody evaluated it).

### Store

The rows of recents and sessions, the menu, and per task the call it is in, cut at its
SQL statements: `Insert`, `Select`, `Prune` for an opening, `Find`, `Record`, `Choose`,
`Drop` for a session, `ReadRecents`, `InstallMenu` for the menu; `Restart` starts over with
the database. Times only matter by order. Ghosts: `latest` (when a project was
last opened), `forgotten` and `crossed` (removed on request; recorded between another
call's choice and its pruning), `mislinked` (a link the agent host should not have made,
see section 6).

### RailLayout, Routing, Drawing

`RailLayout` says what the layout makes of a board before any geometry, once as
size_node and pack_by_connectivity decide it (`Derived...`) and once as rail_kids_of and
compute_layout do for a board whose positions are in the file (`Authored...`): roles,
wrappers, stubs, boxes. `Routing` is the router on integers, the unit being 1/120 of the
drawing's, in which every constant of the code is whole: chains, trunk and taps, the
test against bodies, crossings and hops.

`Drawing` composes the two over the edits of a board: `Move` and `Rotate` are a save-all
(`Merged` is merge_positions), `Place` an add with a position, `AddUnplaced`,
`RemoveInstance` and `Rewire` change the board and let the packer run again unless every
part is placed. On top are the pins' geometry, which nets are wired (`Unhopped`,
`Routes`), which pins keep labels (`Labelled`), and find_empty_space (`EmptySpace`). Where the
packer puts things is a choice among `Packings`, what a session begins with one among `Boards`.

What the code keeps as lists and sorts, the model keeps as sets wherever only the order
matters: the sweep of `EmptySpace` and the cuts of `CutUp` are folds that take the furthest
element last, and a trunk's first and last pins are those before which none, or all others,
come (`LeftNth`, `AboveNth`). So each is defined by what it is, of which something can be
proved, and not by a recursion over a list.

### Correspondence

`PROJECT.json` maps each definition to the lines it models. Actions keep the names of
the functions where there is one. What is external is marked there: writes by
anybody else to the files, and the `claude` process, modelled by what the host
observes of it (an init when a turn starts, permission requests, a result at the end,
an exit).

## 4. The runs

| Run | Instance | Checks | States |
|---|---|---|---|
| `gate` | 2 files, 2 contents, depth 2, 2 units of drift | types, `HistoryBounded`, `HistoryLinked`, `DiscardOnlyAfterDrift`, `ClobberOnlyInWindow` | 4.9 M |
| `gate_timeline` | the same, depth 3, no outside writes | `GateIsTimeline` (refinement) | 0.7 M |
| `builder` | 2 boards, 2 callers, queues of 2, 2 edits, one red | types, `BuildsTheBoardShown`, `NoChangeForgotten`, `SourceFollowsProject`, `AnswersAreFresh` | 9.4 M |
| `builder_live` | 1 board, 1 caller, queues of 1, 2 edits | `EveryoneAnswered`, `CatchesUp` under fairness | 0.2 M |
| `canvas` | 1 board and 1 part, queue of 1, 2 edits, one red | `PageJudgesTheFiles`, `TokenCatchesUp` | 0.4 M |
| `session` | 2 sends, 2 processes and an earlier conversation, backlog 3 | types, `OneCliPerWindow`, `PromptsSurvive`, `ResumesAreLinked`, `RunningMeansBusy` | 4.3 M |
| `windows` | 2 boards, 1 user and the restore loop, 2 labels, 3 launches | `WindowsBacked`, `NoOrphans`, `SomethingShows`, `RestoresWhatWasOpen` | 1.8 M |
| `netedit` | 2 instances, 2 modules, 5 boards to begin with, 3 edits | types, `NoDanglingRefs`, `PositionsFollowInstances`, `OrphansArePruned`, `NoSilentMerge`, `OtherPinsKeepTheirNets` | 0.4 M |
| `netedit_panic` | as `netedit` | violated: `DefStateHasADef` | |
| `palette` | 2 tasks, 2 calls, 2 parts, 1 name, 2 generics | `NoRequestInBan`, `CacheIsWhole`, `WrapperHasItsFiles`, `PreflightsAreProven` | 1.0 M |
| `store` | 2 tasks, 3 projects and 3 sessions of which 2 are kept, 3 times | `RecentsHoldTheNewest`, `HiddenSessionsContinue` | 2.0 M |
| `drawing` | 2 chips, 3 resistors in wrappers, 2 boards, 2 packings, 2 edits | `EveryPinIsDrawn`, `WiresAreDrawable`, `FoundSpaceIsFree`, `MovesKeepTheDrawing` | 5 k |

What they show. *canvas*: the
page, once it is settled and nothing waits to be built, shows a drawing exactly if the files
have one, although it drops what it takes for an echo, and its token is renewed; that the
drawing is the latest is not shown, for it need not be (section 6). *session*: the working
indicator is on with nothing running only on a page that an end passed by while it was
mounted, or where the CLI was lost. *netedit*: no edit leaves a reference without its definition, or a
definition it orphaned, or a position key without its instance; two shared nets are
merged only by a connect that says so; an edit changes the nets of the pins it
names and of no others. *palette*: once the service bans us, no task sends a request until the
ban ends, across retries, restarts and crashes (but for those already in the queue); an
entry that one task wrote is read whole or not at all; a wrapper is never there without the
files it names; a cached preflight is what the module demands now. *store*: as long as two
openings do not cross, the newest projects are the ones kept; a session that is hidden
because it was continued has a successor that is shown, whatever was pruned. *drawing*:
handing the board from the packer to the file changes nothing but the part that was
moved; a pin that loses its wire has its label back; wires are polylines clear of bodies
with hops where they cross an earlier net; the room a tool is told of is free.

Why the bounds are enough:

- *Gate.* Two files are what it takes for a record to match on one and not on the other,
  depth 2 for a record with a neighbour and an overflow, two drifts for one before and
  one inside an operation. Contents are interchangeable: the gate only compares them,
  so symmetry is sound. `MaxDrift` stops new activity, not operations in progress.
- *Builder.* Two edits: one that a build reads and one that comes during it. Queues
  of two (of one in `builder_live`) are full after two requests, so nudges are
  dropped and the watcher blocks.
- *Canvas.* A red and a green edit, in the board and in a part it loads; a reload at
  any time.
- *Session.* Two processes are a killed one and its successor; two senders cross each
  other and the commands, and are interchangeable, so symmetry is sound. `StillClear` prunes
  runs once they are tangled or lost, since most properties say nothing of them.
  `Explored` prunes what the mounting of a page adds without meeting anything new: at most one
  call outlives its page, and none while the page is overtaken; the dashboard's message
  comes first; a reply that the page applies, or leaves lying, before it listens has prompts
  to show; new sessions are asked for by a page that is mounted. `OneCliPerWindow` and
  `RunningMeansBusy`, which speak of the runs that are pruned as well, are proved for all of them.
- *Windows.* Three launches: one that opens, one that restores or crashes, one that
  restores what is left. Two labels are two windows, or a window and a failed open.

- *Edits of a program.* Two instances share a net or do not; a submodule has a port on two
  inner pins and an optional one; the boards are empty, parts on placeholders, parts on
  nets, and a net without a literal with and without another use. Three edits: one to
  set up, one that a tool's reading misses, one that follows.
- *Palette.* Two tasks cross everywhere. Two parts under one name are an overwriting
  install. `Explored` keeps apart what uses different files: requests are made for one part
  while the other's entries are cached, and installs and placements run while nobody
  fetches; a crash may come anywhere. The tasks are symmetric.
- *Store.* Three rows of which two are kept is the smallest table that prunes. Recents
  and sessions are different tables, so `Explored` records them in different behaviours.
  Tasks, projects and sessions are symmetric.
- *Drawing.* A divider needs two resistors and a chip, a bank a third; a wrapper in a
  module is hoisted, one at the top too. Two edits are the first save-all, which
  changes the path, and one after it or before it. Each state costs a whole layout and
  routing, so there are few of them. The sizes of labels and chips are constants.

Deadlock is not checked where a run may stop: edits, calls, drift and launches are bounded.

Every module with state has a type invariant. Those of `Canvas`, `Windows`, `Store`, `Palette`
and `Drawing` are not in a run; all of them are proved: the runs are kept for what could be
wrong.

**Fairness** is assumed in `builder_live` only. Weak fairness of the event delivery, the
debounce timer and the task's own steps: the OS delivers file events and the runtime
runs tasks. Strong fairness of the two receives, because `tokio::select!` picks a
ready branch at random and so does not pass one over for ever, and of the watcher's
blocking send, because the channel serves its waiters in turn. The evaluator is assumed
to return or to panic. Nothing is assumed of users, agents or editors.

Every property of a passing run has a mutant in `PROJECT.json`: the definition as a
plausible bug would have it, under which TLC finds the property violated. The
mutants stand just before the definitions they replace.

## 5. The proofs

All theorems hold for every value of the constants that meets the named assumptions,
e.g. any number of files, any depth, any queue capacity.

**WriteGateProofs** (`TypeCorrect`, `HistoryStaysBounded`, `HistoryStaysLinked`,
`RefusedOnlyAfterDrift`, `ClobberedOnlyInWindow`, `GateImplementsTimeline`). That a refused
undo means drift is not inductive. `HistoryLinked` in `WriteGateInv` is: reading a stack from
its newest entry down and keeping those that touch one file `f`, the newest faces the disk's
bytes and each older one faces what the one above would restore, as long as no drift
of `f` lies between them. While an operation is in progress the record in hand is part
of a chain, except for the files it has already written. From this, a record whose
stamps equal the drift matches the disk; the stamps are what make the statement
survive outside writes and half-done operations. The bound on the history needs no
chain, only that every push in undo and redo follows a pop.

`GateImplementsTimeline` is the refinement, `QuietSpec => Timeline!Spec`. The mapping is in
closed form: a file `n` undos back is as the oldest of the newest `n` records that touch it
found it (`Oldest`, `Back`, `Ahead`), which needs no recursion over the stack, only that a
set of indices has a least element, and that follows from the order of the naturals being
well-founded (`OldestExists`). `RecordMoves` says that a record that changes stacks, with the
disk, moves the cursor and not the line; `GestureExtends` and `DrainKeeps` that a push cuts
and extends the line and the drain forgets its oldest states. That the disk is where these
lemmas want it follows from `HistoryLinked`, and from `QuietInv`: nothing has drifted, and
what a gesture has not written yet is as it found it. Every step but the three pushes is a
stutter.

**CanvasProofs, of the builder** (`TypeCorrect`, `SourceStaysOnProject`, `ShownBoardIsBuilt`,
`NothingIsForgotten`, `AnswersCoverTheQuestion`).
`BuilderInv` adds to the types that no stamp is ahead of the edit counter and that
what is being built, and what the last attempt read, is not newer than the
files; then each action either leaves the last attempt covering the files, or leaves a
request, an event or a batch that will. The board of a job equals the canvas's board
because only the task itself moves it, between jobs. For the answers, `InOnePlace` says that
who waits is on one queue, once, or with the task, so that nobody is answered by a build made
for someone else, and `AskedInOrder` that the build about to be answered is younger than the
question.

**CanvasProofs, of the page** (`PageTypesCorrect`, `PageKnowsTheVerdict`, `TokensAreRenewed`). The
builder's invariant goes on under the page's gestures. `PageInv` follows
the views that are under way: the last event of the channel carries what the backend holds
(`EventsOK`), a reply being on its way counts as what the page will hold (`PageTells`), a
view's token is between what its build read and the board (`HashInOrder`), and when the last
attempt read the files as they are every view that counts has the board's token
(`TokensCurrent`) and what the backend holds is that attempt's verdict (`VerdictOfLast`). A
dropped echo has the token and the verdict of the view it is an echo of; that these are of the
files as they are now comes from the builder, which forgets no change.

**AgentSessionProofs** (`TypeCorrect`, `OneProcess`, `PromptsCanBeAnswered`,
`ResumedSessionsAreLinked`, `IndicatorGoesOff`). The type of the channel's backlog
needs `RecordedHeld`: an event that is being recorded is still the head of its pump's
sequence. One process per window follows from the mutex alone: a spawn finds it
empty, and whoever empties it kills. `ConversationInv` has the rest. While a turn waits for an
answer the prompt is the last thing its process said (`Asking`), and what a process has said,
what it waits for and what it was told match (`Prompted`); between arming a resume and the
spawn all pumps are empty, so no late event takes the link (`Links`). A running indicator
is explained by a call that will return to the page, by an end still to be told to it, or by
work (`Explained`), and so is a reply of get_state that carries prompts and will turn it on
(`ReplyExplained`), from the moment it is copied to the moment it is applied, unless an end
overtook it. All this holds until an event is `lost`, and for prompts and links until the
commands get `tangled`, as the properties say.

**WindowsProofs** (`TypeCorrect`, `WindowsHaveInstances`, `InstancesHaveOwners`,
`LaunchRestoresWhatWasOpen`, `UserHasAWindow`). `Ownership` says which open holds which label,
and that no two share one; with it the first two are inductive. The restore theorem rests on
`SetFollowsScreen` (with nothing under way, the set that is saved, or about to be, is
the one on screen; instances have boards of their own, so dropping a board drops one
window) and `SetIsLeft` (from the quit on, the saved set is the one that was on screen,
and the flag tells a quit from a crash). For `SomethingShows`, `WayBack`: a hidden dashboard
has an instance, or a restore that has opened nothing so far, to bring it back.

**StoreProofs** (`TypeCorrect`, `RecentsStayNewest`, `HiddenSessionsAreCarried`), from
`RootsAssumption`: the projects
are finitely many, or there is no counting them. `RecentsHoldTheNewest` is not inductive,
for a pruning deletes what was chosen a statement earlier. `PrunedAreCrowded` says that
what a pruning is about to delete was crowded out, and is still, since the openings of
others only get later (`CrowdsGrow`); `TimesAgree` that a row holds the latest opening,
so that the order the database chooses by is that of the openings (`SelectKeeps`). That a
hidden session is continued says that chains of links end at a listed session. Chains are
spoken of by sets, not by paths: the carriers of a session are the least set closed under
resuming (`Carriers`), and `ChainsEnd` says that among any sessions there is one that none of
them resumed, which a new link to a session announced before (`AnnouncedFirst`) keeps.

**NetEditProofs** (`EditsWriteFiles`, `EditsLeaveNoDanglingRefs`, `PositionsFollow`,
`EditsPruneOrphans`, `NetsAreNotMergedSilently`, `OtherPinsStayJoined`). The invariant,
`NetInv`, is short: the file is well formed, every reference has a definition, only calls have
arguments, and keys have calls. The work is in the writers: for each verb a lemma of the form
"from a whole file it writes a whole file, prunes what it orphans, merges only when asked, and
changes the connections of the pins it names" (`GoodStep`), first for the pieces the verbs share
(pointing a pin at a definition, redirecting one net to another, pruning, renaming) and then for each
handler with its guards. The set of pins of `OtherPinsKeepTheirNets` is given outright: the
one or two pins of the call. `WholeBoardsAssumption` is that the file the session begins with
evaluates and has no keys of parts it does not place. The code justifies it as far as it
goes: a gesture needs the schematic of a build, and nobody promises to repair the keys of
hand edits; without it the theorems would be about repairing files.

**PaletteProofs** (`TypeCorrect`, `BansAreKept`, `CacheStaysWhole`, `WrappersAreComplete`,
`PreflightsProven`). The run's constraint lets requests, writes and placements
overlap only a little; the theorems have them overlap as they may. `BanKnown`: during a ban the
breaker file is there, and who waits for a turn or is on the way had passed the check before.
`PutsOK`: who puts an entry that was never put by two has its temporary file open, is alone
in it and finds it whole when renaming it. `WrittenOK`: an install has written the pieces
before the one it is at, and where nothing crossed it is alone in its name and the wrapper is
not there yet; a crash leaves a prefix. `AloneOK` and `KeysOK`: an evaluation that ran beside no
other finds in the scratch file what it wrote there, and a key that is not of the module as it
is now never will be again, since a wrapper's time grows. `DemandsAssumption` gives every part
and generic inputs with types; `NoJobAssumption` and `NoEvaluationAssumption`, like
`FilesAssumption` of `Netlist`, say that None is not a value of what it stands in for.

**DrawingProofs** (`TypeCorrect`, `SpaceCorrect`, `MovesCorrect`, `PinsCorrect`,
`WiresCorrect`). The state is simple: the type invariant is inductive, and the other properties
follow from it, since they are about what is computed from a board. What has to be shown is what
those computations do for every board.

- Folds. `MapThenFoldSet` is recursive, and induction with an operator as its parameter is out
  of reach. But from the order of the naturals being well-founded, which is a library theorem
  about a set, follow induction along a set of numbers (`Upward`) and along the subsets of a
  finite set (`Bysets`), and that a function defined by recursion exists
  (`RecursionExists`, `FoldExists`); the same for the tree of modules (`UnderIs`).
- *Space.* A push past an obstacle clears it and keeps clear of all that come no later in the
  sweep (`PastClears`), because it only moves on. So what was passed stays passed
  (`SweepIsClear`), whatever the order among equals.
- *Moves.* Siblings share no part (`IsKids`), so the stubs of a module are determined by roles
  and nets (`StubsOf`); where both paths see the same, the roles on which they differ are
  not looked at, and a module of one child has no stubs. Hence the packer's stubs and boxes are
  the file's. A save-all writes the places and rotations that were drawn.
- *Pins.* `IsRoute` says what the router makes of a net it wires: one line between two of
  its pins (`IsLine`: straight edges, each from where the last one ended), and a line from
  every other to a foot on it. `LeftNth` and `AboveNth` pick somebody because in a finite
  order somebody has any number of others before them. The trunk covers the feet since the outermost pins are before and behind
  all others. An upright exit is off that line, so its net is
  left out. `IsWiring` adds what is left when wires are dropped; a stub joins two pins of one net
  (`IsStub`), and a net without wires has all its labels.
- *Wires.* `CutOk` is the invariant of the loop in split_edge: what has been put out is a path of
  pieces from the start of the edge to the cursor, a piece that is no hop ends before some cut and
  has none far from its start, and the cuts so far are passed or too near the edge's end.
  Hence pieces lie on their edge (`Within`), so they enter no body it does not enter and cross nothing it does not cross, and a
  crossing on a piece without a hop is near one of its ends.

`GeometryAssumption` gives the packings, boards and spots their types and says that the names
of the nets are in some order, each once. `TreeAssumption` is that modules are nested (a depth
decreases towards the children), `SiblingsAssumption` that no component is in two children of
a module, `PinsAssumption` that a net's list of pins has each pin of each component once.

Each invariant was checked by TLC on the component's run, or a copy of it with the invariant
added, before it was proved.

Only model-checked: liveness (`EveryoneAnswered`, `CatchesUp`), which is beyond this prover.
`DefStateHasADef`, which the code violates, is a finding and no theorem. Every other property of
a run is stated by a theorem.

## 6. Where the code and what is said of it part

Shown by a run (`findings` in `PROJECT.json`):

- `netedit_panic`: disconnect_pin, and the merge of connect_pins, look for the definition of
  a wired pin among the named definitions only. On a net without a literal (`SW = Net()`)
  the `expect("Def state has a def")` panics with the gate's mutex held, and every later
  writer of the window panics on the poisoned mutex (edit.rs:2553, 2830; edit.rs:183 says
  that resolving an existing wire must ask `nets()`).

Met while modelling, reproduced in the model, and kept out of the properties by the
antecedents named:

The gate, the builder and the page:

- A gesture over two files that fails on the second leaves the first changed and no undo
  step for it (gate.rs:89; docs/prd-canvas-editing.md:305-306).
- base_hash is compared once, under the mutex: an outside write after it is edited over
  (gate.rs:79).
- The echo filter compares the board's name, its hash and whether there is a schematic
  (state.ts:99-104), and state.ts:96-98 takes what agrees in these for identical. Two kinds of
  build do agree and are not: one after a change of a file the board loads, and one after an
  edit of the board that fell into a build. The view is hashed after the build has read the
  files, so the view from before the edit has the board's new hash with the old drawing, and
  the rebuild that would show the edit is dropped. The hash that get_state takes of the stored
  build (commands.rs:449-474) does the same. The page then shows the old drawing, with a
  token that lets gestures through, until the board's bytes change again. `lastGood` is kept by
  the same test, so after a failure it may be an older drawing too. `PageJudgesTheFiles` says
  what is left: whether there is a drawing.
- A failure spells its source absolutely, a build relative to the root, so after a failure
  the last good build is not "for the same board" (builder.rs:230, state.ts:459-460).
- restore() compares all files and then writes them: bytes written in between are
  lost, which gate.rs:113-115 rules out (`raced` in `ClobberOnlyInWindow`).
- A refused undo drops one record; the older ones for the same file stay
  (docs/prd-canvas-editing.md:308-310 says they go). Agent edits made through MCP tools
  are on the undo stack (line 313 says never). A gesture that writes nothing still clears
  the redo stack (gate.rs:104).
- The watcher starts after the first build was answered (commands.rs:206-210): a change
  in between is not built (`missed`; docs/development.md:29 says anything).
- A project-only refresh that retargets the canvas builds nothing (builder.rs:74-80).
  `NoChangeForgotten` is about file contents, and the retarget comes with a manifest
  event in practice.
- After a load that found no board, the old entry is None and equals no source, so the
  canvas stops following the manifest for good (builder.rs:181-198; `lost` in
  `SourceFollowsProject`).
- The token is hashed when a build is recorded and when a view is made, not when the
  files were read (mcp/src/state.rs:75-84, commands.rs:449-474), so an edit from a page
  that shows older content can pass the guard.

The agent and the windows:

- A session that resumed nothing is recorded as a continuation when a resume target was
  left from a spawn that failed (agent.rs:34, 186; state.rs:48).
- A launch after a crash skips the restore set and does not clear it; quitting from its
  dashboard makes the next launch reopen it (lib.rs:120, 256-257).
- new_session leaves the resume target in place: the next message resumes
  (commands.rs:1372 says it starts a fresh session). A result of a killed session clears
  the prompts of its successor, and resume_session clears those of a session that was
  started meanwhile (`tangled`). A prompt of a killed session can be shown after a
  reload.
- The page's mounting is not atomic (state.ts:110-138, 172-184). A result forwarded after get_state has
  copied a prompt and before its `.then`, or before the agent-event listener is there, leaves
  the working indicator on with nothing running, until the next end or reload; this is the state
  that the comment at lines 115-119 says was got rid of (`overtaken` in `RunningMeansBusy`). A
  permission_request forwarded after the copy and before the listener is there is shown by no
  card until another reload: `PromptsSurvive` says that it is there to be shown.
- The dashboard's first message is taken out of the backend by a page that may be gone when it
  gets it (state.ts:139-146, "exactly once"): at most once.
- A CLI that exits by itself is never noticed until the user starts a new
  session (`lost`).
- Two opens of one board that cross make two instances (commands.rs:190-197, against
  line 167; `raced`). If the last window closes while another open is under way and
  that open then fails, no window is on screen (`raced` in `SomethingShows`).
- The builder task and the watcher of a closed window never end: the task holds the
  state that holds the sender of its own queue (commands.rs:104-106).

Edits of a program:

- edit.rs:2143 says a definition must precede the call it is referenced from. add_instance
  on a board without calls inserts above existing definitions, and a merge redirects to a
  definition that may stand lower; the program then fails to evaluate (`Schematic`).
- The shared-net question is answered from the build the caller read, so a connect through
  a wide port with an old build merges without asking (edit.rs:2238 "never silently");
  tools check that the build is current before they take the gate (tools.rs:965, 1105).
  The properties speak of this as `blind` connects.
- The fresh placeholder of a disconnect may have the name of an existing definition, which
  the next connect then joins. rename_net and create_net check definitions, not
  placeholders. rename_instance keeps the names of the old one's placeholders.
- rename_instance and remove_instances move and drop the symbol keys `NAME.n` of a net of
  the same name; a pruned net leaves its own. save_positions' keys for provisional parts
  are the bare `NAME`.
- set_attribute overwrites the wire of an optional port and leaves the net's definition.
  remove_instances prunes named definitions only.

Parts:

- http.rs:66 promises at most one request in flight: the turn is given up before the request is
  sent. Queued requests still go out after a 403 (`NoRequestInBan` speaks of those that had
  not checked).
- The breaker file is truncated and then written: a check in between passes, and a crash in
  between loses the ban.
- Two tasks of one process that put the same key share a tmp file; a torn 3D model is read
  and stays (`crossed` in `CacheIsWhole`).
- An install over another part keeps the old datasheet; a failed install leaves files that
  make a retry without overwrite refuse; two installs of one name both pass the guard
  (`torn`). The sweep of the cache has no caller.
- The scratch file is shared, so a preflight may be proved with what another task wrote
  (`unproven`; edit.rs:1033-1042 calls it a hard guarantee).

The store:

- Insert, choice and pruning are three statements: a project or session recorded in between
  is deleted (`crossed`). An older time overwrites a newer one.
- A late init of a killed session takes the pending resume, so a session may be linked to
  itself or in a cycle, and is hidden for good (`mislinked`). A pruned successor makes its
  ancestor reappear.
- Two crossing refreshes may install the older menu; only a fresh open and Clear Menu refresh it.

The drawing:

- A save-all changes the picture where the two paths do not see the same (`Uniform`): boards
  with some positions written and some not, rail passives without a symbol, wrappers of
  wrappers (tests/demo_build.rs:176, layout.rs:415-418, positions.rs:122-124).
- The layout check skips the labels of every net that has a wire, so those a net of stubs
  keeps are neither linted nor obstacles for find_empty_space (layout_check.rs:338, 482).
- A tap with a vertical exit may miss the trunk (route.rs:12-16). Wires of different nets may run
  on top of one another. A net dropped because a wire crosses a body loses its stubs too.
  Stubs have no limit of span in a board placed by hand.

## 7. Not modelled, and why

- The text of a program (spans, comments, layout of statements) and edits that go to the
  file of a submodule: `NetEdit` is about one file's definitions and calls.
- The packer (`pack_by_connectivity` beyond roles and stubs): columns, rows and offsets on
  floating point numbers. Where it puts parts is a choice in `Drawing`, and no property
  relies on it. Symbols other than the resistor's box, text metrics, the circuit JSON and
  the lint's report: data and pure output with tests of their own.
- Conversion of footprints and symbols, inflating and parsing of bodies, ranking of search
  results, the catalog's listing: pure functions on files. `PartClient` takes each as one
  that accepts or refuses.
- The spacing in time of the requests' turns: no property is about time.
- Migrations, titles and the choice of the database's directory.
- Titles, transcript text, history loading, the chat's folding of events: display. The
  64-message bound of the agent's stdin queue: it takes 64 unread messages, and then a
  send keeps the agent's mutex.
- The web site and the wire protocol's parsing: no shared state with the rest.
- A build's inside: it reads all its files in one step. Reads that straddle an edit give
  a mixture, which the edit's own event makes the builder replace.
