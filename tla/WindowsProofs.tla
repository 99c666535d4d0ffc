----------------------------- MODULE WindowsProofs -----------------------------
(***************************************************************************)
(* Theorems about the application's windows, for any boards, any number of   *)
(* opens in flight, of windows and of launches.                              *)
(***************************************************************************)
EXTENDS Windows, TLAPS

(* Who holds which instance: an open has none until it creates its own, and two opens
   never share one. *)
Ownership ==
    /\ registered \subseteq 1..created
    /\ \A o \in Openers : at[o] # "build" => label[o] = 0
    /\ \A o \in Openers : at[o] = "build" => label[o] \in registered \ windows
    /\ \A o, p \in Openers : at[o] = "build" /\ at[p] = "build" /\ label[o] = label[p] => o = p

OwnerInv == TypeOK /\ Ownership /\ WindowsBacked /\ NoOrphans

(* Every instance has a board of its own, unless two opens of one board crossed *)
Sources ==
    /\ \A o \in Openers : at[o] # "idle" => board[o] \in Boards
    /\ \A l \in registered : source[l] \in Boards
    /\ ~raced => \A l, m \in registered : source[l] = source[m] => l = m

(* Nothing is left of a process that has ended *)
Fresh ==
    app = "off" =>
        /\ registered = {} /\ windows = {} /\ closing = {} /\ writes = {} /\ todo = {}
        /\ \A o \in Openers : at[o] = "idle"

Quiescent == todo = {} /\ \A o \in Openers : at[o] = "idle"

(* The set that will be saved once nothing is under way is the one on screen *)
SetFollowsScreen ==
    app = "on" /\ ~raced =>
        /\ \A v, w \in writes : v = w
        /\ Quiescent => /\ \A w \in writes : w = Shown
                        /\ writes = {} /\ ~stale => saved = Shown

(* ... and from the quit on, the one the user left *)
SetIsLeft ==
    /\ app \in {"on", "quitting"} => ~clean
    /\ app = "said" => clean
    /\ app \in {"quitting", "said"} /\ ~raced => Quiescent /\ writes = {}
    /\ app \in {"quitting", "said"} /\ ~raced /\ ~stale => saved = left
    /\ app = "off" /\ ~raced /\ ~stale /\ clean => saved = left
    /\ app = "off" /\ ~clean => left = {}

RestoreInv == OwnerInv /\ Sources /\ Fresh /\ SetFollowsScreen /\ SetIsLeft

--------------------------------------------------------------------------------
(* Types *)

LEMMA RecordType == ASSUME TypeOK, NEW boards \in SUBSET Boards, Record(boards)
                    PROVE  writes' \subseteq SUBSET Boards
  BY DEF Record, TypeOK

LEMMA BoardsType == ASSUME TypeOK PROVE OpenBoards \subseteq Boards /\ Shown \subseteq Boards
  BY DEF OpenBoards, Shown, TypeOK

LEMMA OpeningType ==
    ASSUME TypeOK, NEW o \in Openers,
           (\E b \in Boards : Open(o, b)) \/ FindExisting(o) \/ FindNone(o) \/ Create(o)
             \/ OpenFails(o) \/ ShowWindow(o)
    PROVE  TypeOK'
<1>1. ASSUME NEW b \in Boards, Open(o, b) PROVE TypeOK'
  BY <1>1 DEF TypeOK, Open, Begin, screen, instances, restore, prefs, ghosts
<1>2. CASE FindExisting(o)
  <2>1. writes' \subseteq SUBSET Boards
    BY <1>2, RecordType, BoardsType DEF FindExisting
  <2> QED BY <1>2, <2>1 DEF TypeOK, FindExisting, Done, Counts, Races, instances
<1>3. CASE FindNone(o)
  BY <1>3 DEF TypeOK, FindNone, screen, instances, restore, prefs, ghosts
<1>4. CASE Create(o)
  <2>1. created + 1 \in Labels /\ created + 1 \in 0..MaxWindows
    BY <1>4, WindowsAssumption DEF Create, TypeOK, Labels
  <2> QED BY <1>4, <2>1 DEF TypeOK, Create, screen, restore, prefs
<1>5. CASE OpenFails(o)
  BY <1>5 DEF TypeOK, OpenFails, TearDown, Done, screen, restore, prefs
<1>6. CASE ShowWindow(o)
  <2>1. writes' \subseteq SUBSET Boards
    BY <1>6, RecordType, BoardsType DEF ShowWindow
  <2> QED BY <1>6, <2>1 DEF TypeOK, ShowWindow, Done, Counts, Races, instances
<1> QED BY <1>1, <1>2, <1>3, <1>4, <1>5, <1>6

LEMMA EventType ==
    ASSUME TypeOK, (\E l \in Labels : CloseRequested(l) \/ Destroyed(l)) \/ HideDashboard
                     \/ ShowDashboard \/ Quit \/ ExitRequested
    PROVE  TypeOK'
<1>1. ASSUME NEW l \in Labels, CloseRequested(l) PROVE TypeOK'
  <2>1. writes' \subseteq SUBSET Boards
    <3>1. OpenBoards \ {source[l]} \in SUBSET Boards
      BY BoardsType
    <3> QED BY <1>1, <3>1, RecordType DEF CloseRequested
  <2> QED BY <1>1, <2>1 DEF TypeOK, CloseRequested, Races, instances, opening, restore
<1>2. ASSUME NEW l \in Labels, Destroyed(l) PROVE TypeOK'
  BY <1>2 DEF TypeOK, Destroyed, TearDown, opening, restore, prefs, ghosts
<1>3. CASE HideDashboard \/ ShowDashboard
  BY <1>3 DEF TypeOK, HideDashboard, ShowDashboard, instances, opening, restore, prefs, ghosts
<1>4. CASE Quit
  BY <1>4, BoardsType DEF TypeOK, Quit, Races, screen, instances, opening, restore, prefs
<1>5. CASE ExitRequested
  BY <1>5 DEF TypeOK, ExitRequested, screen, instances, opening, restore, ghosts
<1> QED BY <1>1, <1>2, <1>3, <1>4, <1>5

LEMMA ProcessType ==
    ASSUME TypeOK, (\E w \in writes : WriteLands(w)) \/ (\E b \in todo : RestoreNext(b) \/ RestoreDrops(b))
                     \/ RestoreEnds \/ Launch \/ Ends
    PROVE  TypeOK'
<1>1. ASSUME NEW w \in writes, WriteLands(w) PROVE TypeOK'
  BY <1>1 DEF TypeOK, WriteLands, screen, instances, opening, restore
<1>2. ASSUME NEW b \in todo, RestoreNext(b) PROVE TypeOK'
  BY <1>2 DEF TypeOK, RestoreNext, Begin, screen, instances, prefs, ghosts, Openers
<1>3. ASSUME NEW b \in todo, RestoreDrops(b) PROVE TypeOK'
  BY <1>3 DEF TypeOK, RestoreDrops, screen, instances, opening, prefs
<1>4. CASE RestoreEnds
  BY <1>4 DEF TypeOK, RestoreEnds, instances, opening, prefs, ghosts
<1>5. CASE Launch
  <2>1. launches' \in 0..MaxLaunches
    BY <1>5, WindowsAssumption DEF TypeOK, Launch
  <2>2. dashboard' \in BOOLEAN /\ stale' \in BOOLEAN /\ clean' \in BOOLEAN
    BY <1>5, Zenon DEF Launch
  <2>3. todo' \subseteq Boards /\ loop' \in {"none", "empty"}
    BY <1>5 DEF TypeOK, Launch
  <2> QED BY <1>5, <2>1, <2>2, <2>3 DEF TypeOK, Launch, instances, opening
<1>6. CASE Ends
  <2>1. /\ app' = "off" /\ created' \in 0..MaxWindows
        /\ source' \in [Labels -> Boards \union {None}]
        /\ registered' \subseteq Labels /\ windows' \subseteq Labels /\ closing' \subseteq windows'
    BY <1>6, WindowsAssumption DEF Ends
  <2>2. /\ at' \in [Openers -> {"idle", "find", "create", "build"}]
        /\ board' \in [Openers -> Boards \union {None}] /\ label' \in [Openers -> Labels \union {0}]
        /\ \A o \in Openers : at'[o] = "build" => label'[o] \in Labels
    BY <1>6 DEF Ends
  <2>3. todo' \subseteq Boards /\ loop' = "none" /\ writes' \subseteq SUBSET Boards /\ left' \subseteq Boards
        /\ dashboard' \in BOOLEAN
    BY <1>6 DEF Ends, TypeOK
  <2> QED BY <1>6, <2>1, <2>2, <2>3 DEF TypeOK, Ends
<1> QED BY <1>1, <1>2, <1>3, <1>4, <1>5, <1>6

LEMMA InitType == Init => TypeOK
<1> SUFFICES ASSUME Init PROVE TypeOK
  OBVIOUS
<1>1. /\ created \in 0..MaxWindows /\ launches \in 0..MaxLaunches
      /\ source \in [Labels -> Boards \union {None}]
  BY WindowsAssumption DEF Init
<1>2. /\ at \in [Openers -> {"idle", "find", "create", "build"}]
      /\ board \in [Openers -> Boards \union {None}] /\ label \in [Openers -> Labels \union {0}]
      /\ \A o \in Openers : at[o] = "build" => label[o] \in Labels
  BY DEF Init
<1> QED BY <1>1, <1>2 DEF Init, TypeOK

LEMMA StepType == TypeOK /\ [Next]_vars => TypeOK'
<1> SUFFICES ASSUME TypeOK, [Next]_vars PROVE TypeOK'
  OBVIOUS
<1>1. CASE \E o \in Users, b \in Boards : Open(o, b)
  BY <1>1, OpeningType DEF Openers
<1>2. CASE \E o \in Openers : FindExisting(o) \/ FindNone(o) \/ Create(o) \/ OpenFails(o) \/ ShowWindow(o)
  BY <1>2, OpeningType
<1>3. CASE (\E l \in Labels : CloseRequested(l) \/ Destroyed(l)) \/ HideDashboard \/ ShowDashboard
             \/ Quit \/ ExitRequested
  BY <1>3, EventType
<1>4. CASE (\E w \in writes : WriteLands(w)) \/ (\E b \in todo : RestoreNext(b) \/ RestoreDrops(b))
             \/ RestoreEnds \/ Launch \/ Ends
  BY <1>4, ProcessType
<1>5. CASE UNCHANGED vars
  BY <1>5 DEF TypeOK, vars, screen, instances, opening, restore, prefs, ghosts
<1> QED BY <1>1, <1>2, <1>3, <1>4, <1>5 DEF Next

(* Every variable keeps its type *)
THEOREM TypeCorrect == Spec => []TypeOK
<1>1. Init => TypeOK
  BY InitType
<1> QED BY <1>1, StepType, PTL DEF Spec

--------------------------------------------------------------------------------
(* Windows and instances *)

(* A step that concerns neither keeps the ownership *)
LEMMA OwnershipUntouched ==
    ASSUME OwnerInv, UNCHANGED <<created, registered, windows, label>>,
           \A o \in Openers : (at'[o] = "build") = (at[o] = "build")
    PROVE  Ownership' /\ WindowsBacked' /\ NoOrphans'
  BY DEF OwnerInv, Ownership, WindowsBacked, NoOrphans

LEMMA FinishedOwnership ==
    ASSUME OwnerInv, NEW o \in Openers, Done(o), UNCHANGED created,
           \/ at[o] = "build" /\ windows' = windows \union {label[o]} /\ registered' = registered
           \/ windows' = windows /\ registered' = registered \ {label[o]}
    PROVE  Ownership' /\ WindowsBacked' /\ NoOrphans'
<1>1. /\ at' = [at EXCEPT ![o] = "idle"] /\ label' = [label EXCEPT ![o] = 0]
      /\ at \in [Openers -> {"idle", "find", "create", "build"}]
      /\ label \in [Openers -> Labels \union {0}]
      /\ windows \subseteq registered /\ registered \subseteq Labels
      /\ 0 \notin Labels
  BY DEF Done, OwnerInv, TypeOK, WindowsBacked, Labels
<1>2. label[o] \in Labels => at[o] = "build"
  BY <1>1 DEF OwnerInv, Ownership
<1>3. \A p \in Openers \ {o} : label'[p] = label[p] /\ at'[p] = at[p]
  BY <1>1
<1>4. \A p \in Openers \ {o} : at[p] = "build" => label[p] # label[o]
  BY <1>1, <1>2 DEF OwnerInv, Ownership
<1>5. at'[o] = "idle" /\ label'[o] = 0
  BY <1>1
<1>6. Ownership'
  BY <1>3, <1>4, <1>5 DEF OwnerInv, Ownership
<1>7. WindowsBacked'
  <2>1. label[o] \notin windows
    BY <1>1, <1>2 DEF OwnerInv, Ownership
  <2>2. at[o] = "build" => label[o] \in registered
    BY DEF OwnerInv, Ownership
  <2> QED BY <1>1, <2>1, <2>2 DEF WindowsBacked
<1>8. NoOrphans'
  <2> SUFFICES ASSUME NEW l \in registered', l \notin windows' PROVE \E p \in Openers : l = label'[p]
    BY DEF NoOrphans
  <2>1. l \in registered /\ l \notin windows /\ l # label[o]
    OBVIOUS
  <2>2. PICK p \in Openers : l = label[p]
    BY <2>1 DEF OwnerInv, NoOrphans
  <2> QED BY <2>1, <2>2, <1>3
<1> QED BY <1>6, <1>7, <1>8

LEMMA CreateOwnership ==
    ASSUME OwnerInv, NEW o \in Openers, Create(o)
    PROVE  Ownership' /\ WindowsBacked' /\ NoOrphans'
<1> DEFINE l == created + 1
<1>1. /\ created \in Nat /\ created' = l /\ l \in 1..l /\ registered' = registered \union {l}
      /\ windows' = windows /\ at[o] = "create"
      /\ at' = [at EXCEPT ![o] = "build"] /\ label' = [label EXCEPT ![o] = l]
      /\ at \in [Openers -> {"idle", "find", "create", "build"}]
      /\ label \in [Openers -> Labels \union {0}]
  BY DEF Create, OwnerInv, TypeOK, screen
<1>2. l \notin registered /\ l \notin windows
  BY <1>1 DEF OwnerInv, Ownership, WindowsBacked
<1>3. \A p \in Openers \ {o} : label'[p] = label[p] /\ at'[p] = at[p]
  BY <1>1
<1>4. at'[o] = "build" /\ label'[o] = l
  BY <1>1
<1>5. \A p \in Openers \ {o} : at[p] = "build" => label[p] # l
  BY <1>2 DEF OwnerInv, Ownership
<1>6. registered' \subseteq 1..created'
  BY <1>1 DEF OwnerInv, Ownership
<1>7. Ownership'
  BY <1>1, <1>2, <1>3, <1>4, <1>5, <1>6 DEF OwnerInv, Ownership
<1>8. WindowsBacked'
  BY <1>1 DEF OwnerInv, WindowsBacked
<1>9. NoOrphans'
  <2>1. label[o] = 0 /\ 0 \notin registered
    BY <1>1 DEF OwnerInv, Ownership
  <2> QED BY <1>1, <1>3, <1>4, <2>1 DEF OwnerInv, NoOrphans
<1> QED BY <1>7, <1>8, <1>9

(* The other steps *)
LEMMA StepOwnership == OwnerInv /\ [Next]_vars => Ownership' /\ WindowsBacked' /\ NoOrphans'
<1> SUFFICES ASSUME OwnerInv, [Next]_vars PROVE Ownership' /\ WindowsBacked' /\ NoOrphans'
  OBVIOUS
<1>1. ASSUME NEW o \in Openers, FindExisting(o) PROVE Ownership' /\ WindowsBacked' /\ NoOrphans'
  <2>1. label[o] \notin registered
    BY <1>1 DEF FindExisting, OwnerInv, Ownership, TypeOK, Labels
  <2> QED BY <1>1, <2>1, FinishedOwnership DEF FindExisting, instances
<1>2. ASSUME NEW o \in Openers, Create(o) PROVE Ownership' /\ WindowsBacked' /\ NoOrphans'
  BY <1>2, CreateOwnership
<1>3. ASSUME NEW o \in Openers, OpenFails(o) PROVE Ownership' /\ WindowsBacked' /\ NoOrphans'
  BY <1>3, FinishedOwnership DEF OpenFails, TearDown, screen
<1>4. ASSUME NEW o \in Openers, ShowWindow(o) PROVE Ownership' /\ WindowsBacked' /\ NoOrphans'
  BY <1>4, FinishedOwnership DEF ShowWindow, instances
<1>5. ASSUME NEW l \in Labels, Destroyed(l) PROVE Ownership' /\ WindowsBacked' /\ NoOrphans'
  <2>1. /\ l \in windows /\ windows' = windows \ {l} /\ registered' = registered \ {l}
        /\ created' = created /\ at' = at /\ label' = label
    BY <1>5 DEF Destroyed, TearDown, opening, OwnerInv, TypeOK
  <2> QED BY <2>1 DEF OwnerInv, Ownership, WindowsBacked, NoOrphans
<1>6. CASE Ends
  BY <1>6 DEF Ends, Ownership, WindowsBacked, NoOrphans
<1>7. ASSUME NEW o \in Openers, NEW b, Begin(o, b), at[o] = "idle",
             UNCHANGED <<created, registered, windows>>
      PROVE  Ownership' /\ WindowsBacked' /\ NoOrphans'
  BY <1>7, OwnershipUntouched DEF Begin, OwnerInv, TypeOK
<1>8. CASE (\E o \in Users, b \in Boards : Open(o, b)) \/ (\E b \in todo : RestoreNext(b))
  BY <1>7, <1>8 DEF Open, RestoreNext, screen, instances, Openers
<1>9. ASSUME NEW o \in Openers, FindNone(o) PROVE Ownership' /\ WindowsBacked' /\ NoOrphans'
  BY <1>9, OwnershipUntouched DEF FindNone, OwnerInv, TypeOK, screen, instances
<1>10. ASSUME UNCHANGED <<instances, windows, opening>>
       PROVE  Ownership' /\ WindowsBacked' /\ NoOrphans'
  BY <1>10, OwnershipUntouched DEF instances, opening
<1>11. CASE (\E l \in Labels : CloseRequested(l)) \/ HideDashboard \/ ShowDashboard \/ Quit \/ ExitRequested
  BY <1>10, <1>11 DEF CloseRequested, HideDashboard, ShowDashboard, Quit, ExitRequested, screen
<1>12. CASE (\E w \in writes : WriteLands(w)) \/ (\E b \in todo : RestoreDrops(b)) \/ RestoreEnds \/ Launch
  BY <1>10, <1>12 DEF WriteLands, RestoreDrops, RestoreEnds, Launch, screen
<1>13. CASE UNCHANGED vars
  BY <1>10, <1>13 DEF vars, screen
<1> QED BY <1>1, <1>2, <1>3, <1>4, <1>5, <1>6, <1>8, <1>9, <1>11, <1>12, <1>13 DEF Next

LEMMA OwnersKept == Spec => []OwnerInv
<1>1. Init => OwnerInv
  BY InitType DEF Init, OwnerInv, Ownership, WindowsBacked, NoOrphans
<1>2. OwnerInv /\ [Next]_vars => OwnerInv'
  BY StepType, StepOwnership DEF OwnerInv
<1> QED BY <1>1, <1>2, PTL DEF Spec

(* No window is ever without its instance, however opens fail and windows close *)
THEOREM WindowsHaveInstances == Spec => []WindowsBacked
<1>1. OwnerInv => WindowsBacked
  BY DEF OwnerInv
<1> QED BY <1>1, OwnersKept, PTL

(* Every instance has a window, or an open that will give it one or take it down *)
THEOREM InstancesHaveOwners == Spec => []NoOrphans
<1>1. OwnerInv => NoOrphans
  BY DEF OwnerInv
<1> QED BY <1>1, OwnersKept, PTL

--------------------------------------------------------------------------------
(* The restore set *)

LEMMA StepSources == OwnerInv /\ Sources /\ [Next]_vars => Sources'
<1> SUFFICES ASSUME OwnerInv, Sources, [Next]_vars PROVE Sources'
  OBVIOUS
<1>1. /\ at \in [Openers -> {"idle", "find", "create", "build"}]
      /\ board \in [Openers -> Boards \union {None}]
      /\ source \in [Labels -> Boards \union {None}]
      /\ registered \subseteq Labels /\ todo \subseteq Boards
  BY DEF OwnerInv, TypeOK
<1>2. ASSUME NEW o \in Openers, NEW b \in Boards, Begin(o, b), UNCHANGED <<registered, source, raced>>
      PROVE  Sources'
  BY <1>1, <1>2 DEF Begin, Sources
<1>3. CASE (\E o \in Users, b \in Boards : Open(o, b)) \/ (\E b \in todo : RestoreNext(b))
  BY <1>1, <1>2, <1>3 DEF Open, RestoreNext, instances, ghosts, Openers
<1>4. ASSUME NEW o \in Openers, Done(o), registered' \subseteq registered, source' = source,
             raced => raced'
      PROVE  Sources'
  BY <1>1, <1>4 DEF Done, Sources
<1>5. ASSUME NEW o \in Openers, FindExisting(o) \/ OpenFails(o) \/ ShowWindow(o) PROVE Sources'
  BY <1>4, <1>5 DEF FindExisting, OpenFails, ShowWindow, TearDown, instances
<1>6. ASSUME NEW o \in Openers, FindNone(o) PROVE Sources'
  BY <1>1, <1>6 DEF FindNone, Sources, instances, ghosts
<1>7. ASSUME NEW o \in Openers, Create(o) PROVE Sources'
  <2> DEFINE l == created + 1
  <2>1. /\ l \in Labels /\ l \notin registered /\ registered' = registered \union {l}
        /\ source' = [source EXCEPT ![l] = board[o]]
        /\ at' = [at EXCEPT ![o] = "build"] /\ board' = board /\ at[o] = "create"
        /\ raced' = (raced \/ board[o] \in OpenBoards)
    BY <1>7, WindowsAssumption DEF Create, OwnerInv, TypeOK, Ownership, Labels
  <2>2. board[o] \in Boards /\ source'[l] = board[o]
        /\ \A m \in registered : m # l /\ source'[m] = source[m] /\ source[m] \in Boards
    BY <1>1, <2>1 DEF Sources
  <2>3. ~raced' => \A m \in registered : source[m] # board[o]
    BY <2>1, <2>2, OpenersAssumption DEF OpenBoards
  <2>4. raced => raced'
    BY <2>1
  <2>5. \A p \in Openers : at'[p] # "idle" => board'[p] \in Boards
    BY <1>1, <2>1, <2>2 DEF Sources
  <2>6. \A m \in registered' : source'[m] \in Boards
    BY <2>1, <2>2
  <2>7. ~raced' => \A k, m \in registered' : source'[k] = source'[m] => k = m
    BY <2>1, <2>2, <2>3, <2>4 DEF Sources
  <2> QED BY <2>5, <2>6, <2>7 DEF Sources
<1>8. ASSUME at' = at, board' = board, source' = source, registered' \subseteq registered, raced => raced'
      PROVE  Sources'
  BY <1>8 DEF Sources
<1>9. ASSUME NEW l \in Labels, CloseRequested(l) \/ Destroyed(l) PROVE Sources'
  BY <1>8, <1>9 DEF CloseRequested, Destroyed, TearDown, instances, opening, ghosts
<1>10. CASE HideDashboard \/ ShowDashboard \/ Quit \/ ExitRequested
  BY <1>8, <1>10 DEF HideDashboard, ShowDashboard, Quit, ExitRequested, instances, opening, ghosts
<1>11. CASE (\E w \in writes : WriteLands(w)) \/ (\E b \in todo : RestoreDrops(b)) \/ RestoreEnds \/ Launch
  BY <1>8, <1>11 DEF WriteLands, RestoreDrops, RestoreEnds, Launch, instances, opening, ghosts
<1>12. CASE Ends
  BY <1>12 DEF Ends, Sources
<1>13. CASE UNCHANGED vars
  BY <1>8, <1>13 DEF vars, instances, opening, ghosts
<1> QED BY <1>3, <1>5, <1>6, <1>7, <1>9, <1>10, <1>11, <1>12, <1>13 DEF Next

LEMMA StepFresh == OwnerInv /\ Fresh /\ [Next]_vars => Fresh'
<1> SUFFICES ASSUME OwnerInv, Fresh, [Next]_vars PROVE Fresh'
  OBVIOUS
<1>1. CASE Ends
  BY <1>1 DEF Ends, Fresh
<1>2. ASSUME app # "off", app' = app \/ app' \in {"quitting", "said", "on"} PROVE Fresh'
  BY <1>2 DEF Fresh
<1>3. CASE Launch
  BY <1>3 DEF Launch, Fresh
<1>4. CASE UNCHANGED vars
  BY <1>4 DEF vars, Fresh, screen, instances, opening, restore, prefs
<1>5. CASE \/ \E o \in Users, b \in Boards : Open(o, b)
           \/ \E o \in Openers : FindExisting(o) \/ FindNone(o) \/ Create(o) \/ OpenFails(o) \/ ShowWindow(o)
  BY <1>2, <1>5 DEF Open, FindExisting, FindNone, Create, OpenFails, ShowWindow, Running
<1>6. ASSUME NEW l \in Labels, CloseRequested(l) \/ Destroyed(l) PROVE Fresh'
  <2>1. app # "off" /\ app' = app
    BY <1>6 DEF CloseRequested, Destroyed, Fresh
  <2> QED BY <1>2, <2>1
<1>7. CASE HideDashboard \/ ShowDashboard \/ Quit \/ ExitRequested
  BY <1>2, <1>7 DEF HideDashboard, ShowDashboard, Quit, ExitRequested
<1>8. CASE (\E w \in writes : WriteLands(w)) \/ (\E b \in todo : RestoreNext(b) \/ RestoreDrops(b)) \/ RestoreEnds
  BY <1>2, <1>8 DEF WriteLands, RestoreNext, RestoreDrops, RestoreEnds, Running
<1> QED BY <1>1, <1>3, <1>4, <1>5, <1>6, <1>7, <1>8 DEF Next

(* With nothing under way every instance has its window *)
LEMMA NothingUnderWay ==
    ASSUME OwnerInv, Quiescent
    PROVE  /\ registered = windows
           /\ closing = {} => OpenBoards = Shown
<1>1. windows \subseteq registered /\ registered \subseteq windows \union {label[o] : o \in Openers}
  BY DEF OwnerInv, WindowsBacked, NoOrphans
<1>2. \A o \in Openers : label[o] = 0
  BY DEF OwnerInv, Ownership, Quiescent
<1>3. 0 \notin registered
  BY DEF OwnerInv, TypeOK, Labels
<1>4. registered = windows
  BY <1>1, <1>2, <1>3
<1> QED BY <1>4 DEF OpenBoards, Shown

LEMMA NothingUnderWayNext == (OwnerInv /\ Quiescent /\ closing = {} => OpenBoards = Shown)'
<1>1. OwnerInv /\ Quiescent /\ closing = {} => OpenBoards = Shown
  BY NothingUnderWay
<1> QED BY <1>1, PTL

LEMMA RecordsTheScreen ==
    ASSUME OwnerInv', SetFollowsScreen, NEW o \in Openers, Record(OpenBoards),
           UNCHANGED <<source, registered, closing>>, raced' = (raced \/ Races)
    PROVE  SetFollowsScreen'
<1> SUFFICES ASSUME ~raced'
             PROVE  /\ \A v, w \in writes' : v = w
                    /\ Quiescent' => /\ \A w \in writes' : w = Shown'
                                     /\ writes' # {}
  BY DEF SetFollowsScreen
<1>1. closing' = {} /\ writes' = {OpenBoards} /\ OpenBoards' = OpenBoards
  BY DEF Races, Record, OpenBoards
<1>2. Quiescent' => OpenBoards' = Shown'
  BY <1>1, NothingUnderWayNext
<1> QED BY <1>1, <1>2

LEMMA StepScreen == RestoreInv /\ OwnerInv' /\ [Next]_vars => SetFollowsScreen'
<1> SUFFICES ASSUME RestoreInv, OwnerInv', [Next]_vars PROVE SetFollowsScreen'
  OBVIOUS
<1>1. OwnerInv /\ TypeOK /\ Sources /\ Fresh /\ SetFollowsScreen
  BY DEF RestoreInv, OwnerInv
<1>2. ASSUME NEW o \in Openers, at'[o] # "idle", app' = app, UNCHANGED writes, raced => raced'
      PROVE  SetFollowsScreen'
  BY <1>1, <1>2 DEF SetFollowsScreen, Quiescent
<1>3. ASSUME NEW o \in Openers, NEW b, Begin(o, b) PROVE at'[o] # "idle"
  BY <1>1, <1>3 DEF Begin, TypeOK
<1>4. CASE (\E o \in Users, b \in Boards : Open(o, b)) \/ (\E b \in todo : RestoreNext(b))
  BY <1>2, <1>3, <1>4 DEF Open, RestoreNext, prefs, ghosts, Openers
<1>5. ASSUME NEW o \in Openers, FindNone(o) \/ Create(o) PROVE SetFollowsScreen'
  <2>1. at'[o] # "idle"
    BY <1>1, <1>5 DEF FindNone, Create, TypeOK
  <2>2. app' = app /\ writes' = writes
    BY <1>5 DEF FindNone, Create, prefs
  <2>3. raced => raced'
    BY <1>5 DEF FindNone, Create, ghosts
  <2> QED BY <1>2, <2>1, <2>2, <2>3
<1>6. ASSUME NEW o \in Openers, FindExisting(o) \/ ShowWindow(o) PROVE SetFollowsScreen'
  BY <1>1, <1>6, RecordsTheScreen DEF FindExisting, ShowWindow, instances
<1>7. CASE (\E o \in Openers : OpenFails(o)) \/ (\E b \in todo : RestoreDrops(b))
  BY <1>7 DEF OpenFails, RestoreDrops, SetFollowsScreen
<1>8. ASSUME NEW l \in Labels, CloseRequested(l) PROVE SetFollowsScreen'
  <2> SUFFICES ASSUME ~raced'
               PROVE  /\ \A v, w \in writes' : v = w
                      /\ Quiescent' => /\ \A w \in writes' : w = Shown'
                                       /\ writes' # {}
    BY DEF SetFollowsScreen
  <2>1. ~raced /\ closing = {} /\ writes' = {OpenBoards \ {source[l]}} /\ closing' = {l}
        /\ windows' = windows /\ source' = source /\ l \in windows /\ Quiescent' = Quiescent
    BY <1>8 DEF CloseRequested, Races, Record, instances, opening, restore, Quiescent, screen
  <2>2. ASSUME Quiescent PROVE OpenBoards \ {source[l]} = Shown'
    <3>1. registered = windows
      BY <1>1, <2>2, NothingUnderWay
    <3>2. \A m \in windows : source[m] = source[l] => m = l
      BY <1>1, <2>1, <3>1 DEF Sources
    <3> QED BY <2>1, <3>1, <3>2 DEF OpenBoards, Shown
  <2> QED BY <2>1, <2>2
<1>9. ASSUME NEW l \in Labels, Destroyed(l) PROVE SetFollowsScreen'
  <2>1. app = "on" => Shown' = Shown
    BY <1>9 DEF Destroyed, TearDown, Shown
  <2> QED BY <1>1, <1>9, <2>1 DEF Destroyed, SetFollowsScreen, Quiescent, opening, restore, prefs, ghosts
<1>10. ASSUME UNCHANGED <<app, windows, closing, instances, opening, todo, prefs, ghosts>>
       PROVE  SetFollowsScreen'
  BY <1>1, <1>10 DEF SetFollowsScreen, Quiescent, Shown, instances, opening, prefs, ghosts
<1>11. CASE HideDashboard \/ ShowDashboard \/ RestoreEnds
  BY <1>10, <1>11 DEF HideDashboard, ShowDashboard, RestoreEnds, restore
<1>12. CASE Quit \/ ExitRequested \/ Ends
  BY <1>12 DEF Quit, ExitRequested, Ends, SetFollowsScreen
<1>13. ASSUME NEW w \in writes, WriteLands(w) PROVE SetFollowsScreen'
  BY <1>1, <1>13 DEF WriteLands, SetFollowsScreen, Quiescent, Shown, screen, instances, opening, restore
<1>14. CASE Launch
  <2>1. writes' = {} /\ windows' = {} /\ saved' = saved
    BY <1>1, <1>14 DEF Launch, Fresh
  <2>2. todo' = {} /\ ~stale' => saved = {}
    BY <1>14 DEF Launch
  <2>3. Shown' = {}
    BY <2>1 DEF Shown
  <2> QED BY <2>1, <2>2, <2>3 DEF SetFollowsScreen, Quiescent
<1>15. CASE UNCHANGED vars
  BY <1>10, <1>15 DEF vars, screen, restore
<1> QED BY <1>4, <1>5, <1>6, <1>7, <1>8, <1>9, <1>11, <1>12, <1>13, <1>14, <1>15 DEF Next

LEMMA StepLeft == RestoreInv /\ [Next]_vars => SetIsLeft'
<1> SUFFICES ASSUME RestoreInv, [Next]_vars PROVE SetIsLeft'
  OBVIOUS
<1>1. SetIsLeft /\ SetFollowsScreen /\ TypeOK
  BY DEF RestoreInv, OwnerInv
<1>2. ASSUME app = "on", app' = "on", UNCHANGED clean PROVE SetIsLeft'
  BY <1>1, <1>2 DEF SetIsLeft
<1>3. CASE (\E o \in Users, b \in Boards : Open(o, b)) \/ (\E l \in Labels : CloseRequested(l))
             \/ HideDashboard \/ ShowDashboard
  BY <1>2, <1>3 DEF Open, CloseRequested, HideDashboard, ShowDashboard, prefs
<1>4. ASSUME Running, UNCHANGED <<app, clean>>, raced => raced', ~(Quiescent /\ writes = {})
      PROVE  SetIsLeft'
  BY <1>1, <1>4 DEF SetIsLeft, Running
<1>5. ASSUME NEW o \in Openers, FindExisting(o) \/ FindNone(o) \/ Create(o) \/ OpenFails(o) \/ ShowWindow(o)
      PROVE  SetIsLeft'
  <2>1. ~Quiescent
    BY <1>5 DEF FindExisting, FindNone, Create, OpenFails, ShowWindow, Quiescent
  <2> QED BY <1>4, <1>5, <2>1 DEF FindExisting, FindNone, Create, OpenFails, ShowWindow, prefs, ghosts
<1>6. CASE (\E w \in writes : WriteLands(w)) \/ (\E b \in todo : RestoreNext(b) \/ RestoreDrops(b))
  BY <1>4, <1>6 DEF WriteLands, RestoreNext, RestoreDrops, Quiescent, prefs, ghosts
<1>7. ASSUME UNCHANGED <<app, todo, at, prefs, ghosts>> PROVE SetIsLeft'
  BY <1>1, <1>7 DEF SetIsLeft, Quiescent, prefs, ghosts
<1>8. CASE (\E l \in Labels : Destroyed(l)) \/ RestoreEnds \/ UNCHANGED vars
  BY <1>7, <1>8 DEF Destroyed, RestoreEnds, vars, opening, restore
<1>9. CASE Quit
  BY <1>1, <1>9 DEF Quit, SetIsLeft, SetFollowsScreen, Quiescent, Races, opening, restore, prefs
<1>10. CASE ExitRequested
  BY <1>1, <1>10 DEF ExitRequested, SetIsLeft, Quiescent, opening, restore, ghosts
<1>11. CASE Ends
  <2>1. CASE app = "said"
    BY <1>1, <1>11, <2>1 DEF Ends, SetIsLeft
  <2>2. CASE app \in {"on", "quitting"}
    BY <1>1, <1>11, <2>2 DEF Ends, SetIsLeft
  <2> QED BY <1>1, <1>11, <2>1, <2>2 DEF Ends, Running, TypeOK
<1>12. CASE Launch
  BY <1>12 DEF Launch, SetIsLeft
<1> QED BY <1>3, <1>5, <1>6, <1>8, <1>9, <1>10, <1>11, <1>12 DEF Next

LEMMA RestoreKept == Spec => []RestoreInv
<1>1. Init => RestoreInv
  <2> SUFFICES ASSUME Init PROVE RestoreInv
    OBVIOUS
  <2>1. OwnerInv
    BY InitType DEF Init, OwnerInv, Ownership, WindowsBacked, NoOrphans
  <2>2. Sources /\ Fresh /\ SetFollowsScreen /\ SetIsLeft
    BY DEF Init, Sources, Fresh, SetFollowsScreen, SetIsLeft
  <2> QED BY <2>1, <2>2 DEF RestoreInv
<1>2. RestoreInv /\ [Next]_vars => RestoreInv'
  <2> SUFFICES ASSUME RestoreInv, [Next]_vars PROVE RestoreInv'
    OBVIOUS
  <2>1. OwnerInv'
    BY StepType, StepOwnership DEF RestoreInv, OwnerInv
  <2> QED BY <2>1, StepSources, StepFresh, StepScreen, StepLeft DEF RestoreInv
<1> QED BY <1>1, <1>2, PTL DEF Spec

(* A launch reopens what the user left open, and nothing after a crash, in every order of
   opens, closes, writes, quits and crashes that does not cross two writes or lose one,
   and unless the launch before it skipped a set it did not clear. *)
THEOREM LaunchRestoresWhatWasOpen == Spec => RestoresWhatWasOpen
<1>1. RestoreInv /\ [Next]_vars => [Launch /\ ~raced /\ ~stale => todo' = left]_vars
  BY DEF RestoreInv, SetIsLeft, Launch
<1> QED BY <1>1, RestoreKept, PTL DEF Spec, RestoresWhatWasOpen

--------------------------------------------------------------------------------
(* Something is on screen *)

(* A hidden dashboard comes back with the end of the last instance, or with the end of a
   restore that has opened nothing so far. *)
WayBack == app = "on" /\ ~raced => dashboard \/ registered # {} \/ loop = "empty"

LEMMA StepWayBack == OwnerInv /\ WayBack /\ [Next]_vars => WayBack'
<1> SUFFICES ASSUME OwnerInv, WayBack, [Next]_vars PROVE WayBack'
  OBVIOUS
<1>1. /\ dashboard \in BOOLEAN /\ raced \in BOOLEAN
      /\ windows \subseteq registered
  BY DEF OwnerInv, TypeOK, WindowsBacked
<1>2. ASSUME app' = "on" => app = "on", raced => raced',
             UNCHANGED <<dashboard, registered, loop>>
      PROVE  WayBack'
  BY <1>2 DEF WayBack
<1>3. ASSUME registered' # {} PROVE WayBack'
  BY <1>3 DEF WayBack
<1>4. ASSUME NEW o \in Openers, FindExisting(o) PROVE WayBack'
  <2>1. registered # {} /\ registered' = registered
    BY <1>4 DEF FindExisting, OpenBoards, instances
  <2> QED BY <1>3, <2>1
<1>5. ASSUME NEW o \in Openers, ShowWindow(o) PROVE WayBack'
  <2>1. label[o] \in registered /\ registered' = registered
    BY <1>5 DEF ShowWindow, instances, OwnerInv, Ownership
  <2> QED BY <1>3, <2>1
<1>6. ASSUME NEW o \in Openers, Create(o) PROVE WayBack'
  BY <1>3, <1>6 DEF Create
<1>7. ASSUME NEW o \in Openers, OpenFails(o) \/ FindNone(o) PROVE WayBack'
  <2>1. CASE OpenFails(o)
    BY <2>1 DEF OpenFails, WayBack
  <2>2. CASE FindNone(o)
    BY <1>2, <2>2 DEF FindNone, screen, instances, restore, ghosts
  <2> QED BY <1>7, <2>1, <2>2
<1>8. ASSUME NEW l \in Labels, Destroyed(l) PROVE WayBack'
  <2>1. /\ registered' = registered \ {l}
        /\ dashboard' = (dashboard \/ (registered \ {l} = {} /\ app # "said"))
        /\ UNCHANGED <<app, loop, raced>>
    BY <1>8 DEF Destroyed, TearDown, restore, ghosts
  <2>2. CASE registered' = {} /\ app = "on"
    BY <2>1, <2>2 DEF WayBack
  <2>3. CASE registered' # {} \/ app # "on"
    BY <1>3, <2>1, <2>3 DEF WayBack
  <2> QED BY <2>2, <2>3
<1>9. CASE HideDashboard
  <2>1. registered' # {}
    BY <1>1, <1>9 DEF HideDashboard, instances
  <2> QED BY <1>3, <2>1
<1>10. CASE ShowDashboard
  BY <1>10 DEF ShowDashboard, WayBack
<1>11. CASE RestoreEnds
  <2>1. dashboard' = (dashboard \/ loop = "empty") /\ UNCHANGED <<app, registered, raced>>
    BY <1>11 DEF RestoreEnds, instances, ghosts
  <2> QED BY <1>1, <2>1 DEF WayBack
<1>12. CASE Launch
  BY <1>12 DEF Launch, WayBack
<1>13. CASE Quit \/ ExitRequested \/ Ends
  BY <1>13 DEF Quit, ExitRequested, Ends, WayBack
<1>14. CASE (\E o \in Users, b \in Boards : Open(o, b)) \/ (\E b \in todo : RestoreNext(b))
  BY <1>2, <1>14 DEF Open, RestoreNext, screen, instances, restore, ghosts
<1>15. CASE (\E l \in Labels : CloseRequested(l)) \/ (\E w \in writes : WriteLands(w))
  <2>1. ASSUME NEW l \in Labels, CloseRequested(l) PROVE WayBack'
    BY <1>2, <2>1 DEF CloseRequested, instances, restore
  <2>2. ASSUME NEW w \in writes, WriteLands(w) PROVE WayBack'
    BY <1>2, <2>2 DEF WriteLands, screen, instances, restore
  <2> QED BY <1>15, <2>1, <2>2
<1>16. CASE \E b \in todo : RestoreDrops(b)
  BY <1>16 DEF RestoreDrops, WayBack
<1>17. CASE UNCHANGED vars
  BY <1>2, <1>17 DEF vars, screen, instances, restore, ghosts
<1> QED BY <1>4, <1>5, <1>6, <1>7, <1>8, <1>9, <1>10, <1>11, <1>12, <1>13, <1>14, <1>15, <1>16,
           <1>17 DEF Next

(* With nothing opening, closing or being restored, the user has a window to turn to,
   whatever was opened, closed, hidden and shown in which order. *)
THEOREM UserHasAWindow == Spec => []SomethingShows
<1>1. Init => WayBack
  BY DEF Init, WayBack
<1>2. WayBack /\ OwnerInv => SomethingShows
  <2> SUFFICES ASSUME WayBack, OwnerInv, app = "on", loop = "none",
                      \A o \in Openers : at[o] = "idle", ~raced
               PROVE  dashboard \/ windows # {}
    BY DEF SomethingShows
  <2>1. dashboard \/ registered # {}
    BY DEF WayBack
  <2>2. registered \subseteq windows \union {label[o] : o \in Openers}
    BY DEF OwnerInv, NoOrphans
  <2>3. \A o \in Openers : label[o] = 0
    BY DEF OwnerInv, Ownership
  <2>4. 0 \notin registered
    BY DEF OwnerInv, TypeOK, Labels
  <2> QED BY <2>1, <2>2, <2>3, <2>4
<1> QED BY <1>1, <1>2, StepWayBack, OwnersKept, PTL DEF Spec

================================================================================
