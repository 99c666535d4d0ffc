-------------------------------- MODULE Windows --------------------------------
(***************************************************************************)
(* The application's windows across launches: opening a board (commands.rs, *)
(* open_board_file), closing its window, quitting and crashing (lib.rs), and *)
(* the restore set kept in the store (crates/store/src/lib.rs), which is     *)
(* written by tasks nobody waits for.                                       *)
(*                                                                          *)
(* A label is the instance and the window of one open board; labels start   *)
(* again at 1 with every launch.  The first build and the watcher succeed   *)
(* or fail in one step (module Builder has their inside).  Boards keep their *)
(* path: a manifest that renames an open board is left out.                 *)
(***************************************************************************)
EXTENDS Integers, FiniteSets

CONSTANTS
    Boards,       \* board files
    Users,        \* opens the user may have in flight: a dashboard card, a menu item
    Restore,      \* the opener of the boards restored at launch
    None,         \* no board
    MaxWindows,   \* bound for TLC: labels per launch
    MaxLaunches   \* bound for TLC: launches

ASSUME WindowsAssumption == MaxWindows \in Nat /\ MaxLaunches \in Nat
ASSUME OpenersAssumption == Restore \notin Users /\ None \notin Boards

Labels  == 1..MaxWindows
Openers == Users \union {Restore}

VARIABLES
    app,        \* "off", "on", "quitting" or "said": ExitRequested has been handled
    launches,   \* how many launches so far
    dashboard,  \* the dashboard is shown
    created,    \* Registry.next_id
    source,     \* [Labels -> the board of each instance]
    registered, \* Registry.instances
    windows,    \* project windows that exist
    closing,    \* windows between CloseRequested and Destroyed
    at,         \* [Openers -> where its open_board_file is]
    board,      \* [Openers -> the board it opens]
    label,      \* [Openers -> the instance it has created, or 0]
    todo,       \* boards still to restore
    loop,       \* the restore loop: "none", "empty" or "some": whether one has opened
    writes,     \* set_open_boards writes under way, in no order
    saved,      \* the open_boards preference
    clean,      \* the clean_exit preference
    left,       \* ghost: the boards the user left open when quitting; none after a crash
    stale,      \* ghost: the last launch restored nothing of `saved'
    raced       \* ghost: see Races

instances == <<created, source, registered>>
screen    == <<dashboard, windows, closing>>
opening   == <<at, board, label>>
restore   == <<todo, loop>>
prefs     == <<writes, saved, clean>>
ghosts    == <<left, stale, raced>>
vars      == <<app, launches, screen, instances, opening, restore, prefs, ghosts>>

TypeOK ==
    /\ app \in {"off", "on", "quitting", "said"}
    /\ launches \in 0..MaxLaunches /\ created \in 0..MaxWindows
    /\ dashboard \in BOOLEAN /\ clean \in BOOLEAN /\ loop \in {"none", "empty", "some"}
    /\ source \in [Labels -> Boards \union {None}]
    /\ registered \subseteq Labels
    /\ windows \subseteq Labels /\ closing \subseteq windows
    /\ at \in [Openers -> {"idle", "find", "create", "build"}]
    /\ board \in [Openers -> Boards \union {None}]
    /\ label \in [Openers -> Labels \union {0}]
    /\ \A o \in Openers : at[o] = "build" => label[o] \in Labels
    /\ todo \subseteq Boards /\ saved \subseteq Boards /\ left \subseteq Boards
    /\ writes \subseteq SUBSET Boards
    /\ stale \in BOOLEAN /\ raced \in BOOLEAN

Init ==
    /\ app = "off" /\ launches = 0
    /\ created = 0 /\ source = [l \in Labels |-> None] /\ registered = {}
    /\ windows = {} /\ closing = {} /\ dashboard = FALSE
    /\ at = [o \in Openers |-> "idle"] /\ board = [o \in Openers |-> None]
    /\ label = [o \in Openers |-> 0]
    /\ todo = {} /\ loop = "none" /\ writes = {}
    /\ saved = {} /\ clean = FALSE
    /\ left = {} /\ stale = FALSE /\ raced = FALSE

Running == app # "off"

(* Registry.open_boards: also the boards whose open is still under way *)
OpenBoards == {source[l] : l \in registered} \ {None}

Shown == {source[l] : l \in windows \ closing} \ {None}

(* What makes the saved set differ from what is open for a while: two writes under way at
   once land in any order, and a record taken while a window is closing counts it. *)
Races == writes # {} \/ closing # {}

(* write_open_boards spawns the write *)
Record(boards) == writes' = writes \union {boards}

--------------------------------------------------------------------------------
(* Opening a board: open_board_file *)

Begin(o, b) ==
    /\ at' = [at EXCEPT ![o] = "find"]
    /\ board' = [board EXCEPT ![o] = b]
    /\ UNCHANGED label

Done(o) ==
    /\ at' = [at EXCEPT ![o] = "idle"]
    /\ board' = [board EXCEPT ![o] = None]
    /\ label' = [label EXCEPT ![o] = 0]

(* The restore loop counts the boards that opened *)
Counts(o) == loop' = IF o = Restore THEN "some" ELSE loop

Open(o, b) ==
    /\ app = "on" /\ o \in Users
    /\ at[o] = "idle"
    /\ Begin(o, b)
    /\ UNCHANGED <<app, launches, screen, instances, restore, prefs, ghosts>>

(* Recording the project in the recents has been awaited; an instance that shows the
   board, or is about to, comes forward, and the dashboard hides either way; the build it asks for may
   fail, and then the open does not count *)
FindExisting(o) ==
    /\ Running /\ at[o] = "find"
    /\ board[o] \in OpenBoards
    /\ dashboard' = FALSE
    /\ Record(OpenBoards)
    /\ UNCHANGED loop \/ Counts(o)
    /\ Done(o)
    /\ raced' = (raced \/ Races)
    /\ UNCHANGED <<app, launches, windows, closing, instances, todo, saved, clean, left, stale>>

FindNone(o) ==
    /\ Running /\ at[o] = "find"
    /\ board[o] \notin OpenBoards
    /\ at' = [at EXCEPT ![o] = "create"]
    /\ UNCHANGED <<app, launches, screen, instances, board, label, restore, prefs, ghosts>>

(* create_instance awaits the MCP server before it registers the instance *)
Create(o) ==
    /\ Running /\ at[o] = "create"
    /\ created < MaxWindows
    /\ LET l == created + 1 IN
       /\ created' = l
       /\ registered' = registered \union {l}
       /\ source' = [source EXCEPT ![l] = board[o]]
       /\ label' = [label EXCEPT ![o] = l]
    /\ at' = [at EXCEPT ![o] = "build"]
    /\ raced' = (raced \/ board[o] \in OpenBoards)
    /\ UNCHANGED <<app, launches, screen, board, restore, prefs, left, stale>>

(* teardown_instance *)
TearDown(l) == registered' = registered \ {l} /\ UNCHANGED <<created, source>>

(* Mutant: a failed open leaves its instance in the registry *)
OpenFailsKeeps(o) ==
    /\ Running /\ at[o] \in {"create", "build"}
    /\ Done(o)
    /\ raced' = TRUE
    /\ UNCHANGED <<app, launches, screen, instances, restore, prefs, left, stale>>

(* The MCP server does not start, the first build fails, or no window can be made *)
OpenFails(o) ==
    /\ Running /\ at[o] \in {"create", "build"}
    /\ TearDown(label[o])
    /\ Done(o)
    /\ raced' = TRUE
    /\ UNCHANGED <<app, launches, screen, restore, prefs, left, stale>>

(* The first build is through: window, dashboard, restore set *)
ShowWindow(o) ==
    /\ Running /\ at[o] = "build"
    /\ windows' = windows \union {label[o]}
    /\ dashboard' = FALSE
    /\ Record(OpenBoards)
    /\ Counts(o)
    /\ Done(o)
    /\ raced' = (raced \/ Races)
    /\ UNCHANGED <<app, launches, closing, instances, todo, saved, clean, left, stale>>

--------------------------------------------------------------------------------
(* Window events *)

(* Mutant: the instance goes when the close is requested *)
CloseTearsDown(l) ==
    /\ app = "on"
    /\ l \in windows \ closing
    /\ closing' = closing \union {l}
    /\ TearDown(l)
    /\ Record(OpenBoards \ {source[l]})
    /\ raced' = (raced \/ Races)
    /\ UNCHANGED <<app, launches, dashboard, windows, opening, restore, saved, clean, left, stale>>

(* The user closes a project window: forget_open_board *)
CloseRequested(l) ==
    /\ app = "on"
    /\ l \in windows \ closing
    /\ closing' = closing \union {l}
    /\ Record(OpenBoards \ {source[l]})
    /\ raced' = (raced \/ Races)
    /\ UNCHANGED <<app, launches, dashboard, windows, instances, opening, restore, saved, clean,
                   left, stale>>

(* Mutant: the dashboard stays hidden *)
DestroyedLeavesHidden(l) ==
    /\ l \in closing \/ (app \in {"quitting", "said"} /\ l \in windows)
    /\ windows' = windows \ {l} /\ closing' = closing \ {l}
    /\ TearDown(l)
    /\ UNCHANGED <<app, launches, dashboard, opening, restore, prefs, ghosts>>

(* Quitting destroys windows too, before ExitRequested or after it *)
Destroyed(l) ==
    /\ l \in closing \/ (app \in {"quitting", "said"} /\ l \in windows)
    /\ windows' = windows \ {l} /\ closing' = closing \ {l}
    /\ TearDown(l)
    /\ dashboard' = (dashboard \/ (registered \ {l} = {} /\ app # "said"))
    /\ UNCHANGED <<app, launches, opening, restore, prefs, ghosts>>

(* The dashboard hides behind a project window; Show Dashboard brings it back *)
HideDashboard ==
    /\ app = "on" /\ dashboard /\ windows # {}
    /\ dashboard' = FALSE
    /\ UNCHANGED <<app, launches, windows, closing, instances, opening, restore, prefs, ghosts>>

ShowDashboard ==
    /\ app = "on" /\ ~dashboard
    /\ dashboard' = TRUE
    /\ UNCHANGED <<app, launches, windows, closing, instances, opening, restore, prefs, ghosts>>

(* Quit from the menu, or the dashboard closed as the last visible window *)
Quit ==
    /\ app = "on"
    /\ app' = "quitting"
    /\ left' = Shown
    /\ raced' = (raced \/ Races \/ todo # {} \/ \E o \in Openers : at[o] # "idle")
    /\ UNCHANGED <<launches, screen, instances, opening, restore, prefs, stale>>

ExitRequested ==
    /\ app = "quitting"
    /\ app' = "said"
    /\ clean' = TRUE
    /\ UNCHANGED <<launches, screen, instances, opening, restore, writes, saved, ghosts>>

--------------------------------------------------------------------------------
(* Writes, processes *)

WriteLands(boards) ==
    /\ Running
    /\ boards \in writes
    /\ writes' = writes \ {boards}
    /\ saved' = boards
    /\ stale' = FALSE
    /\ UNCHANGED <<app, launches, screen, instances, opening, restore, clean, left, raced>>

(* The process ends after ExitRequested, or dies at any moment; writes under way are lost *)
Ends ==
    /\ Running
    /\ app' = "off"
    /\ created' = 0 /\ source' = [l \in Labels |-> None] /\ registered' = {}
    /\ windows' = {} /\ closing' = {} /\ dashboard' = FALSE
    /\ at' = [o \in Openers |-> "idle"] /\ board' = [o \in Openers |-> None]
    /\ label' = [o \in Openers |-> 0]
    /\ todo' = {} /\ loop' = "none" /\ writes' = {}
    /\ left' = IF app = "said" THEN left ELSE {}
    /\ UNCHANGED <<launches, saved, clean, stale, raced>>

(* Mutant: the flag of the last exit stays *)
LaunchKeepsFlag ==
    /\ app = "off" /\ launches < MaxLaunches
    /\ app' = "on" /\ launches' = launches + 1
    /\ todo' = IF clean THEN saved ELSE {}
    /\ dashboard' = (todo' = {})
    /\ loop' = IF todo' = {} THEN "none" ELSE "empty"
    /\ stale' = (~clean /\ saved # {})
    /\ UNCHANGED <<windows, closing, instances, opening, prefs, left, raced>>

Launch ==
    /\ app = "off" /\ launches < MaxLaunches
    /\ app' = "on" /\ launches' = launches + 1
    /\ todo' = IF clean THEN saved ELSE {}
    /\ clean' = FALSE
    /\ dashboard' = (todo' = {})
    /\ loop' = IF todo' = {} THEN "none" ELSE "empty"
    /\ stale' = (~clean /\ saved # {})
    /\ UNCHANGED <<windows, closing, instances, opening, writes, saved, left, raced>>

RestoreNext(b) ==
    /\ Running
    /\ at[Restore] = "idle"
    /\ b \in todo
    /\ todo' = todo \ {b}
    /\ Begin(Restore, b)
    /\ UNCHANGED <<app, launches, screen, instances, loop, prefs, ghosts>>

(* A board that is gone is dropped *)
RestoreDrops(b) ==
    /\ Running
    /\ at[Restore] = "idle"
    /\ b \in todo
    /\ todo' = todo \ {b}
    /\ raced' = TRUE
    /\ UNCHANGED <<app, launches, screen, instances, opening, loop, prefs, left, stale>>

(* When nothing could be reopened the dashboard comes back *)
RestoreEnds ==
    /\ Running
    /\ todo = {} /\ at[Restore] = "idle" /\ loop # "none"
    /\ dashboard' = (dashboard \/ loop = "empty")
    /\ loop' = "none"
    /\ UNCHANGED <<app, launches, windows, closing, instances, opening, todo, prefs, ghosts>>

--------------------------------------------------------------------------------

Next ==
    \/ \E o \in Users, b \in Boards : Open(o, b)
    \/ \E o \in Openers : \/ FindExisting(o) \/ FindNone(o) \/ Create(o)
                          \/ OpenFails(o) \/ ShowWindow(o)
    \/ \E l \in Labels : CloseRequested(l) \/ Destroyed(l)
    \/ HideDashboard \/ ShowDashboard \/ Quit \/ ExitRequested
    \/ \E w \in writes : WriteLands(w)
    \/ \E b \in todo : RestoreNext(b) \/ RestoreDrops(b)
    \/ RestoreEnds \/ Launch \/ Ends

Spec == Init /\ [][Next]_vars

--------------------------------------------------------------------------------
(* Properties *)

(* A project window that takes commands has its instance, whatever closes and failing
   opens interleave: commands resolve through the registry by the window's label. *)
WindowsBacked == windows \subseteq registered

(* An instance, with its MCP server and agent, belongs to a window or to an open that is
   under way: no failed or half-finished open leaves one that nobody can close. *)
NoOrphans == registered \subseteq windows \union {label[o] : o \in Openers}

(* While the application runs and nothing opens or closes, some window is on screen,
   unless an open failed or crossed another (lib.rs:53 "Last project window gone: come back to the
   dashboard", lib.rs:154 "leave the user somewhere useful"). *)
SomethingShows ==
    /\ app = "on" /\ loop = "none" /\ closing = {}
    /\ \A o \in Openers : at[o] = "idle"
    /\ ~raced
    => dashboard \/ windows # {}

(* A launch reopens the boards that were open when the user quit, and none after a crash,
   when the writes of the restore set neither crossed nor got lost and the last launch
   replaced that set. *)
RestoresWhatWasOpen == [][Launch /\ ~raced /\ ~stale => todo' = left]_vars
================================================================================
