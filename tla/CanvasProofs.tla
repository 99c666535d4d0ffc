------------------------------ MODULE CanvasProofs ------------------------------
(***************************************************************************)
(* What the builder task, the watcher and the two queues keep true, for any *)
(* boards, callers, queue capacity and number of edits (the theorems about  *)
(* Spec), and what a project window's page can rely on (those about         *)
(* PageSpec): the same argument goes on under the page's gestures, and the  *)
(* views on their way to the page keep up with it.                          *)
(***************************************************************************)
EXTENDS Canvas, FiniteSetTheorems, TLAPS

(* Edits are stamped in order, and a build reads after the one before it *)
Older(a, b) == \A f \in Files : a[f] <= b[f]

ReadInOrder ==
    /\ Older(job.zen, zen)
    /\ \A j \in tried : Older(j.zen, zen)
    /\ phase \in {"view", "publish"} => \A j \in tried : Older(j.zen, job.zen)

StampsUsed == \A f \in Files : zen[f] <= edits

(* NoChangeForgotten, for the opening window as well *)
NothingForgotten == ~missed => Covered \/ Pending

BuilderInv == TypeOK /\ StampsUsed /\ ReadInOrder /\ NothingForgotten

--------------------------------------------------------------------------------
(* Types *)

LEMMA PlainType == \A c \in Callers \union {NoCaller} : Plain(c) \in Requests
BY DEF Plain, Requests

LEMMA RequestType == \A k \in SUBSET Kinds : Request(k) \in Requests
BY DEF Request, Requests

LEMMA NoJobType == NoJob \in Inputs
BY FilesAssumption, BoundsAssumption DEF NoJob, Inputs, Files, Stamps

LEMMA ResolvedType == \A e : Resolved(e) \in Boards \union {None}
<1> SUFFICES ASSUME NEW e PROVE Resolved(e) \in Boards \union {None}
  OBVIOUS
<1>1. CASE e \in Boards
  BY <1>1 DEF Resolved
<1>2. CASE e \notin Boards /\ \E b \in Boards : Present = {b}
  <2>1. (CHOOSE b \in Boards : Present = {b}) \in Boards
    BY <1>2
  <2> QED BY <2>1, <1>2 DEF Resolved
<1>3. CASE e \notin Boards /\ ~\E b \in Boards : Present = {b}
  BY <1>3 DEF Resolved
<1> QED BY <1>1, <1>2, <1>3

LEMMA InitType == Init => TypeOK
<1> SUFFICES ASSUME Init PROVE TypeOK
  OBVIOUS
<1>1. NoJob \in Inputs /\ NoJob.zen \in [Files -> Stamps]
  BY NoJobType DEF Inputs
<1>2. zen \in [Files -> Stamps] /\ gone \subseteq Files /\ 0 \in Stamps
  BY BoundsAssumption DEF Init, Files, Stamps
<1>3. queue \in Seq(Requests) /\ Len(queue) <= Cap /\ req \in Requests
  BY PlainType, CallersAssumption, BoundsAssumption DEF Init
<1>4. rebuilds \in Seq(Callers) /\ Len(rebuilds) <= Cap
  BY BoundsAssumption DEF Init
<1>5. entry \in Boards \union {None, Missing} /\ source \in Boards
  BY FilesAssumption DEF Init
<1> QED BY <1>1, <1>2, <1>3, <1>4, <1>5, FilesAssumption DEF Init, TypeOK

(* The two queues grow by one request that fits and shrink by the one served *)
LEMMA QueueType ==
    ASSUME NEW S, NEW q \in Seq(S), NEW r \in S
    PROVE  /\ Len(q) \in Nat
           /\ Append(q, r) \in Seq(S)
           /\ Len(Append(q, r)) = Len(q) + 1
           /\ q # <<>> => /\ Head(q) \in S /\ Tail(q) \in Seq(S)
                          /\ Len(Tail(q)) = Len(q) - 1 /\ Len(q) >= 1
  OBVIOUS

LEMMA ProjectType == TypeOK /\ Project => TypeOK'
<1> SUFFICES ASSUME TypeOK, Project PROVE TypeOK'
  OBVIOUS
<1> USE DEF TypeOK, task, canvas, callers
<1>1. ASSUME edits < MaxEdits PROVE edits + 1 \in Stamps
  BY <1>1, BoundsAssumption DEF Stamps
<1>2. ASSUME NEW kind \in Kinds, Event(kind)
      PROVE  /\ fs' \subseteq Kinds /\ missed' \in BOOLEAN
             /\ UNCHANGED <<watching, batch, sending>>
  BY <1>2 DEF Event
<1>3. {"sources", "manifest", "project"} = Kinds
  BY DEF Kinds
<1>4. ASSUME NEW f \in Files, WriteZen(f) PROVE TypeOK'
  BY <1>1, <1>2, <1>3, <1>4 DEF WriteZen, Edit
<1>5. ASSUME NEW f \in Files, RemoveZen(f) PROVE TypeOK'
  BY <1>1, <1>2, <1>3, <1>5 DEF RemoveZen, Edit
<1>6. ASSUME NEW e \in Boards \union {None, Missing}, EditManifest(e) PROVE TypeOK'
  BY <1>1, <1>2, <1>3, <1>6 DEF EditManifest
<1>7. CASE EditCard
  BY <1>1, <1>2, <1>3, <1>7 DEF EditCard
<1> QED BY <1>4, <1>5, <1>6, <1>7 DEF Project

LEMMA WatcherType == TypeOK /\ Watcher => TypeOK'
<1> SUFFICES ASSUME TypeOK, Watcher PROVE TypeOK'
  OBVIOUS
<1> USE DEF TypeOK, disk, task, canvas, callers
<1>1. ASSUME NEW k \in Kinds, Gather(k) PROVE TypeOK'
  BY <1>1 DEF Gather
<1>2. CASE DebounceExpires
  BY <1>2 DEF DebounceExpires
<1>3. CASE SendRequest
  <2>1. Append(queue, Request(batch)) \in Seq(Requests)
        /\ Len(Append(queue, Request(batch))) <= Cap
    BY <1>3, RequestType, QueueType, BoundsAssumption DEF SendRequest
  <2>2. sending' \in BOOLEAN /\ batch' \subseteq Kinds
    BY <1>3 DEF SendRequest
  <2> HIDE DEF disk, task, canvas, callers
  <2>3. UNCHANGED <<disk, watching, fs, rebuilds, task, canvas, callers>>
    BY <1>3 DEF SendRequest
  <2>4. queue' = Append(queue, Request(batch))
    BY <1>3 DEF SendRequest
  <2> QED BY <2>1, <2>2, <2>3, <2>4 DEF disk, task, canvas, callers
<1> QED BY <1>1, <1>2, <1>3 DEF Watcher

LEMMA WindowType == TypeOK /\ Window => TypeOK'
<1> SUFFICES ASSUME TypeOK, Window PROVE TypeOK'
  OBVIOUS
<1> USE DEF TypeOK, disk, watcher, task, canvas, callers
<1>1. ASSUME NEW r \in Requests, Len(queue) < Cap
      PROVE  Append(queue, r) \in Seq(Requests) /\ Len(Append(queue, r)) <= Cap
  BY <1>1, QueueType, BoundsAssumption
<1>2. ASSUME NEW c \in Callers, Ask(c)
      PROVE  /\ status' \in [Callers -> {"idle", "waiting", "ok", "err"}]
             /\ asked' \in [Callers -> [Files -> Stamps]]
  BY <1>2 DEF Ask
<1>3. CASE Nudge
  BY <1>1, <1>3, PlainType DEF Nudge
<1>4. CASE ReloadWorkspace
  <2>1. Request({"manifest"}) \in Requests /\ edits + 1 \in Stamps
    BY <1>4, RequestType, BoundsAssumption DEF ReloadWorkspace, Kinds, Stamps
  <2> QED BY <1>1, <1>4, <2>1 DEF ReloadWorkspace
<1>5. ASSUME NEW c \in Callers, Reopen(c) PROVE TypeOK'
  BY <1>1, <1>2, <1>5, PlainType DEF Reopen
<1>6. ASSUME NEW c \in Callers, BuildTool(c) PROVE TypeOK'
  <2>1. Append(rebuilds, c) \in Seq(Callers) /\ Len(Append(rebuilds, c)) <= Cap
    BY <1>6, QueueType, BoundsAssumption DEF BuildTool
  <2> QED BY <1>2, <1>6, <2>1 DEF BuildTool
<1>7. CASE StartWatcher
  <2>1. watching' \in BOOLEAN /\ opened' \in {"opening", "open", "failed"}
    BY <1>7 DEF StartWatcher
  <2>2. status' \in [Callers -> {"idle", "waiting", "ok", "err"}]
    BY <1>7 DEF StartWatcher
  <2>3. UNCHANGED <<disk, fs, batch, sending, queue, rebuilds, task, canvas, asked>>
    BY <1>7 DEF StartWatcher
  <2> QED BY <2>1, <2>2, <2>3
<1>8. CASE OpenBoardFails
  BY <1>8 DEF OpenBoardFails
<1> QED BY <1>3, <1>4, <1>5, <1>6, <1>7, <1>8 DEF Window

LEMMA TakeType == TypeOK /\ (TakeRequest \/ TakeRebuild) => TypeOK'
<1> SUFFICES ASSUME TypeOK, TakeRequest \/ TakeRebuild PROVE TypeOK'
  OBVIOUS
<1> USE DEF TypeOK, disk, watcher, canvas, callers
<1>1. CASE TakeRequest
  <2>1. /\ Head(queue) \in Requests /\ Tail(queue) \in Seq(Requests)
        /\ Len(Tail(queue)) <= Cap
    BY <1>1, QueueType, BoundsAssumption, Cap \in Nat DEF TakeRequest
  <2> QED BY <1>1, <2>1 DEF TakeRequest, Begin
<1>2. CASE TakeRebuild
  <2>1. /\ Head(rebuilds) \in Callers /\ Tail(rebuilds) \in Seq(Callers)
        /\ Len(Tail(rebuilds)) <= Cap
    BY <1>2, QueueType, BoundsAssumption, Cap \in Nat DEF TakeRebuild
  <2> QED BY <1>2, <2>1, PlainType DEF TakeRebuild, Begin
<1> QED BY <1>1, <1>2

LEMMA AttemptType ==
    ASSUME TypeOK, UNCHANGED <<disk, watcher, queue, rebuilds, req, loaded, viewHash, canvas, callers>>,
           job' \in Inputs, ok' \in BOOLEAN, phase' = "view", ws' \in Boards \union {None}
    PROVE  TypeOK'
BY DEF TypeOK, disk, watcher, callers, canvas

LEMMA ServeType == TypeOK /\ Serve => TypeOK'
<1> SUFFICES ASSUME TypeOK, Serve PROVE TypeOK'
  OBVIOUS
<1> USE DEF TypeOK, disk, watcher, callers
<1>1. CASE LoadManifest
  BY <1>1 DEF LoadManifest, canvas
<1>2. CASE StoreProject
  BY <1>2, ResolvedType DEF StoreProject, AfterRefresh
<1>3. CASE StartBuild
  BY <1>3 DEF StartBuild, canvas, Inputs
<1>4. CASE OpenWorkspace
  BY <1>4 DEF OpenWorkspace, canvas, Inputs
<1>5. CASE OpenFails
  <2>1. job' \in Inputs
    BY <1>5 DEF OpenFails, Inputs
  <2>2. ok' \in BOOLEAN /\ ws' \in Boards \union {None}
    BY <1>5 DEF OpenFails
  <2> HIDE DEF TypeOK, disk, watcher, callers
  <2> QED BY <1>5, <2>1, <2>2, AttemptType DEF OpenFails
<1>6. CASE Eval
  <2>1. job' \in Inputs
    BY <1>6 DEF Eval, Inputs
  <2>2. ok' \in BOOLEAN /\ ws' \in Boards \union {None}
    BY <1>6 DEF Eval
  <2> HIDE DEF TypeOK, disk, watcher, callers
  <2> QED BY <1>6, <2>1, <2>2, AttemptType DEF Eval
<1>7. CASE EvalFails
  <2>1. job' \in Inputs
    BY <1>7 DEF EvalFails, Inputs
  <2>2. ok' \in BOOLEAN /\ ws' \in Boards \union {None}
    BY <1>7 DEF EvalFails
  <2> HIDE DEF TypeOK, disk, watcher, callers
  <2> QED BY <1>7, <2>1, <2>2, AttemptType DEF EvalFails
<1>8. CASE MakeView
  <2>1. job.board \in Files
    BY DEF Inputs, Files
  <2>2. viewHash' \in Stamps
    BY <1>8, <2>1 DEF MakeView
  <2> QED BY <1>8, <2>2 DEF MakeView, canvas
<1>9. CASE Publish
  <2>1. NoJob \in Inputs /\ NoJob.zen \in [Files -> Stamps] /\ 0 \in Stamps
    BY NoJobType, BoundsAssumption DEF Inputs, Stamps
  <2>2. \A c \in Callers : Answer(c) \in {"idle", "ok", "err"}
    BY DEF Answer
  <2>3. Plain(NoCaller) \in Requests
    BY PlainType
  <2>4. /\ status' \in [Callers -> {"idle", "waiting", "ok", "err"}]
        /\ asked' \in [Callers -> [Files -> Stamps]]
    BY <1>9, <2>1, <2>2 DEF Publish, AnswerTo
  <2>5. hash' \in Stamps /\ layout' \subseteq Inputs /\ tried' \subseteq Inputs
    BY <1>9 DEF Publish, Recorded, Files
  <2>6. /\ phase' = "recv" /\ ok' = FALSE /\ viewHash' = 0
        /\ req' \in Requests /\ job' \in Inputs
        /\ UNCHANGED <<disk, watcher, queue, rebuilds, loaded, ws, source, board, lost, opened>>
    BY <1>9, <2>1, <2>3 DEF Publish, Recorded
  <2>7. /\ queue' \in Seq(Requests) /\ Len(queue') <= Cap
        /\ rebuilds' \in Seq(Callers) /\ Len(rebuilds') <= Cap
        /\ loaded' \in Boards \union {None, Missing}
        /\ ws' \in Boards \union {None}
        /\ source' \in Boards /\ board' \in Boards \union {None}
        /\ lost' \in BOOLEAN /\ opened' \in {"opening", "open", "failed"}
    BY <2>6
  <2>8. /\ zen' \in [Files -> Stamps] /\ gone' \subseteq Files
        /\ entry' \in Boards \union {None, Missing} /\ edits' \in Stamps
        /\ watching' \in BOOLEAN /\ sending' \in BOOLEAN
        /\ fs' \subseteq Kinds /\ batch' \subseteq Kinds /\ missed' \in BOOLEAN
    BY <2>6
  <2> QED BY <2>1, <2>4, <2>5, <2>6, <2>7, <2>8
<1> QED BY <1>1, <1>2, <1>3, <1>4, <1>5, <1>6, <1>7, <1>8, <1>9 DEF Serve

LEMMA TypeStep == TypeOK /\ [Next]_vars => TypeOK'
<1>1. TypeOK /\ UNCHANGED vars => TypeOK'
  BY DEF TypeOK, vars, disk, watcher, task, canvas, callers
<1> QED BY <1>1, ProjectType, WatcherType, WindowType, TakeType, ServeType DEF Next

(* Every variable keeps its type; the two channels keep to their capacity *)
THEOREM TypeCorrect == Spec => []TypeOK
  BY InitType, TypeStep, PTL DEF Spec

--------------------------------------------------------------------------------
(* The canvas and the project *)

(* Only a refresh moves the canvas, and it moves it with the project: the two part when a
   load finds no board, and for no other reason. *)
THEOREM SourceStaysOnProject == Spec => []SourceFollowsProject
<1> USE DEF SourceFollowsProject
<1>1. Init => SourceFollowsProject
  BY DEF Init
<1>2. TypeOK /\ SourceFollowsProject /\ [Next]_vars => SourceFollowsProject'
  <2> SUFFICES ASSUME TypeOK, SourceFollowsProject, [Next]_vars PROVE SourceFollowsProject'
    OBVIOUS
  <2>1. ASSUME UNCHANGED canvas PROVE SourceFollowsProject'
    BY <2>1 DEF canvas
  <2>2. CASE Project
    BY <2>1, <2>2 DEF Project, WriteZen, RemoveZen, EditManifest, EditCard
  <2>3. CASE Watcher
    BY <2>1, <2>3 DEF Watcher, Gather, DebounceExpires, SendRequest
  <2>4. CASE Window
    BY <2>1, <2>4 DEF Window, Nudge, ReloadWorkspace, Reopen, BuildTool, StartWatcher,
       OpenBoardFails
  <2>5. CASE TakeRequest \/ TakeRebuild
    BY <2>1, <2>5 DEF TakeRequest, TakeRebuild, Begin
  <2>6. CASE StoreProject
    <3>1. CASE loaded = Missing
      BY <2>6, <3>1 DEF StoreProject
    <3>2. CASE loaded # Missing /\ Resolved(loaded) = None
      <4>1. lost' = TRUE
        BY <2>6, <3>2 DEF StoreProject, TypeOK
      <4> QED BY <4>1
    <3>3. CASE loaded # Missing /\ Resolved(loaded) # None
      <4>1. board' = Resolved(loaded) /\ (lost => lost')
        BY <2>6, <3>3 DEF StoreProject, TypeOK
      <4>2. source' = IF source = board THEN Resolved(loaded) ELSE source
        BY <2>6, <3>3 DEF StoreProject
      <4> QED BY <4>1, <4>2
    <3> QED BY <3>1, <3>2, <3>3
  <2>7. CASE Publish
    BY <2>7 DEF Publish, Recorded
  <2>8. CASE Serve /\ ~StoreProject /\ ~Publish
    BY <2>1, <2>8 DEF Serve, LoadManifest, StartBuild, OpenWorkspace, OpenFails, Eval, EvalFails,
       MakeView
  <2>9. CASE UNCHANGED vars
    BY <2>1, <2>9 DEF vars
  <2> QED BY <2>2, <2>3, <2>4, <2>5, <2>6, <2>7, <2>8, <2>9 DEF Next
<1> QED BY <1>1, <1>2, TypeCorrect, PTL DEF Spec

LEMMA BoardShownStep ==
    TypeOK /\ BuildsTheBoardShown /\ [Next]_vars => BuildsTheBoardShown'
<1> USE DEF BuildsTheBoardShown
<1> SUFFICES ASSUME TypeOK, BuildsTheBoardShown, [Next]_vars PROVE BuildsTheBoardShown'
  OBVIOUS
<1>1. ASSUME UNCHANGED <<task, canvas>> PROVE BuildsTheBoardShown'
  BY <1>1 DEF task, canvas
<1>2. CASE Project
  BY <1>1, <1>2 DEF Project, WriteZen, RemoveZen, EditManifest, EditCard
<1>3. CASE Watcher
  BY <1>1, <1>3 DEF Watcher, Gather, DebounceExpires, SendRequest
<1>4. CASE Window
  BY <1>1, <1>4 DEF Window, Nudge, ReloadWorkspace, Reopen, BuildTool, StartWatcher,
     OpenBoardFails
<1>5. CASE TakeRequest \/ TakeRebuild
  BY <1>5 DEF TakeRequest, TakeRebuild, Begin
<1>6. CASE LoadManifest \/ StoreProject
  BY <1>6 DEF LoadManifest, StoreProject, AfterRefresh
<1>7. CASE StartBuild
  BY <1>7 DEF StartBuild, NeedOpen, canvas, TypeOK, Inputs
<1>8. CASE OpenWorkspace
  BY <1>8 DEF OpenWorkspace, canvas
<1>9. CASE OpenFails \/ Eval \/ EvalFails
  BY <1>9 DEF OpenFails, Eval, EvalFails, canvas, TypeOK, Inputs
<1>10. CASE MakeView
  BY <1>10 DEF MakeView, canvas
<1>11. CASE Publish
  BY <1>11 DEF Publish, Recorded
<1>12. CASE UNCHANGED vars
  BY <1>1, <1>12 DEF vars
<1> QED BY <1>2, <1>3, <1>4, <1>5, <1>6, <1>7, <1>8, <1>9, <1>10, <1>11, <1>12 DEF Next, Serve

(* A build evaluates in a workspace opened for its own board, and that board is still
   the canvas's when the result is stored. *)
THEOREM ShownBoardIsBuilt == Spec => []BuildsTheBoardShown
<1>1. Init => BuildsTheBoardShown
  BY DEF Init, BuildsTheBoardShown
<1> QED BY <1>1, BoardShownStep, TypeCorrect, PTL DEF Spec

--------------------------------------------------------------------------------
(* Reads and edits are ordered *)

LEMMA InitReadInOrder == Init => StampsUsed /\ ReadInOrder
  BY FilesAssumption DEF Init, StampsUsed, ReadInOrder, Older, NoJob, Files

(* Each file's stamp only grows *)
LEMMA StampsGrow ==
    TypeOK /\ StampsUsed /\ [Next]_vars => StampsUsed' /\ Older(zen, zen')
<1> SUFFICES ASSUME TypeOK, StampsUsed, [Next]_vars PROVE StampsUsed' /\ Older(zen, zen')
  OBVIOUS
<1>1. zen \in [Files -> Nat] /\ edits \in Nat
  BY BoundsAssumption DEF TypeOK, Stamps
<1> USE DEF StampsUsed, Older
<1>2. ASSUME UNCHANGED zen, edits' \in {edits, edits + 1} PROVE StampsUsed' /\ Older(zen, zen')
  BY <1>1, <1>2
<1>3. ASSUME NEW f \in Files, Edit(f) PROVE StampsUsed' /\ Older(zen, zen')
  BY <1>1, <1>3 DEF Edit
<1>4. CASE Project
  BY <1>2, <1>3, <1>4 DEF Project, WriteZen, RemoveZen, EditManifest, EditCard
<1>5. CASE Watcher
  BY <1>2, <1>5 DEF Watcher, Gather, DebounceExpires, SendRequest, disk
<1>6. CASE Window
  BY <1>2, <1>6 DEF Window, Nudge, ReloadWorkspace, Reopen, BuildTool, StartWatcher,
     OpenBoardFails, disk
<1>7. CASE TakeRequest \/ TakeRebuild \/ Serve
  BY <1>2, <1>7 DEF TakeRequest, TakeRebuild, Begin, Serve, LoadManifest, StoreProject, StartBuild,
     OpenWorkspace, OpenFails, Eval, EvalFails, MakeView, Publish, Recorded, disk
<1>8. CASE UNCHANGED vars
  BY <1>2, <1>8 DEF vars, disk
<1> QED BY <1>4, <1>5, <1>6, <1>7, <1>8 DEF Next

LEMMA OlderIsTransitive ==
    ASSUME NEW a \in [Files -> Nat], NEW b \in [Files -> Nat], NEW c \in [Files -> Nat],
           Older(a, b), Older(b, c)
    PROVE  Older(a, c)
  BY DEF Older

LEMMA OlderIsReflexive == \A a \in [Files -> Nat] : Older(a, a)
  BY DEF Older

LEMMA OlderBothWays ==
    ASSUME NEW a \in [Files -> Nat], NEW b \in [Files -> Nat], Older(a, b), Older(b, a)
    PROVE  a = b
<1>1. \A f \in Files : a[f] = b[f]
  BY DEF Older
<1> QED BY <1>1

(* The files of the type invariant, with the order on them in reach *)
LEMMA FilesType ==
    TypeOK => /\ zen \in [Files -> Nat] /\ job.zen \in [Files -> Nat]
              /\ \A j \in tried : j.zen \in [Files -> Nat]
  BY BoundsAssumption DEF TypeOK, Inputs, Stamps

LEMMA ReadInOrderStep ==
    TypeOK /\ StampsUsed /\ ReadInOrder /\ [Next]_vars => ReadInOrder'
<1> SUFFICES ASSUME TypeOK, StampsUsed, ReadInOrder, [Next]_vars PROVE ReadInOrder'
  OBVIOUS
<1>1. /\ Older(zen, zen')
      /\ zen \in [Files -> Nat] /\ zen' \in [Files -> Nat] /\ job.zen \in [Files -> Nat]
      /\ \A j \in tried : j.zen \in [Files -> Nat]
  <2>1. TypeOK'
    BY ProjectType, WatcherType, WindowType, TakeType, ServeType DEF Next, TypeOK, vars, disk,
       watcher, task, canvas, callers
  <2>2. zen' \in [Files -> Nat]
    BY <2>1, BoundsAssumption DEF TypeOK, Stamps
  <2> QED BY <2>2, StampsGrow, FilesType
<1>2. Older(job.zen, zen') /\ \A j \in tried : Older(j.zen, zen')
  BY <1>1, OlderIsTransitive DEF ReadInOrder
<1>3. ASSUME job'.zen = job.zen, UNCHANGED tried,
             phase' \in {"view", "publish"} => phase \in {"view", "publish"}
      PROVE  ReadInOrder'
  BY <1>2, <1>3 DEF ReadInOrder
<1>4. CASE Project
  BY <1>3, <1>4 DEF Project, WriteZen, RemoveZen, EditManifest, EditCard, task, canvas
<1>5. CASE Watcher
  BY <1>3, <1>5 DEF Watcher, Gather, DebounceExpires, SendRequest, task, canvas
<1>6. CASE Window
  BY <1>3, <1>6 DEF Window, Nudge, ReloadWorkspace, Reopen, BuildTool, StartWatcher,
     OpenBoardFails, task, canvas
<1>7. CASE TakeRequest \/ TakeRebuild
  BY <1>3, <1>7 DEF TakeRequest, TakeRebuild, Begin, canvas
<1>8. CASE LoadManifest \/ StoreProject
  BY <1>3, <1>8 DEF LoadManifest, StoreProject, AfterRefresh, canvas
<1>9. CASE StartBuild \/ OpenWorkspace \/ MakeView
  <2>1. job'.zen = job.zen
    BY <1>9 DEF StartBuild, OpenWorkspace, MakeView, TypeOK, Inputs
  <2> QED BY <1>3, <1>9, <2>1 DEF StartBuild, OpenWorkspace, MakeView, canvas
<1>10. CASE OpenFails \/ Eval \/ EvalFails
  <2>1. job'.zen = zen /\ UNCHANGED <<zen, tried>>
    BY <1>10 DEF OpenFails, Eval, EvalFails, TypeOK, Inputs, disk, canvas
  <2> QED BY <1>1, <1>2, <2>1, OlderIsReflexive DEF ReadInOrder
<1>11. CASE Publish
  <2>1. tried' = {job} /\ job' = NoJob /\ phase' = "recv" /\ zen' = zen
    BY <1>11 DEF Publish, Recorded, disk
  <2>2. Older(NoJob.zen, zen)
    BY <1>1 DEF Older, NoJob
  <2> QED BY <1>2, <2>1, <2>2 DEF ReadInOrder
<1>12. CASE UNCHANGED vars
  BY <1>3, <1>12 DEF vars, task, canvas
<1> QED BY <1>4, <1>5, <1>6, <1>7, <1>8, <1>9, <1>10, <1>11, <1>12 DEF Next, Serve

--------------------------------------------------------------------------------
(* No change is forgotten *)

Rebuilding == {"sources", "manifest"}

(* Pending, by where the build to come is *)
InWatcher == (fs \union batch) \intersect Rebuilding # {}
InQueue   == \E i \in DOMAIN queue : queue[i].build
InTask    == \/ phase \in {"load", "store"} /\ req.build
             \/ phase \in {"start", "open", "eval"}
             \/ phase \in {"view", "publish"} /\ job.zen = zen

LEMMA PendingIs == Pending <=> InWatcher \/ InQueue \/ rebuilds # <<>> \/ InTask
  BY DEF Pending, InWatcher, InQueue, InTask, Rebuilding

(* A build in a longer queue stays in it; the one taken is in the task *)
LEMMA QueueKeeps ==
    ASSUME TypeOK, NEW r \in Requests, queue' = Append(queue, r)
    PROVE  (InQueue => InQueue') /\ (r.build => InQueue')
<1> USE DEF TypeOK, InQueue
<1>1. /\ Len(queue) \in Nat /\ Len(queue') = Len(queue) + 1
      /\ DOMAIN queue = 1..Len(queue) /\ DOMAIN queue' = 1..Len(queue')
  OBVIOUS
<1>2. \A i \in DOMAIN queue : queue'[i] = queue[i]
  OBVIOUS
<1>3. queue'[Len(queue) + 1] = r /\ Len(queue) + 1 \in DOMAIN queue'
  BY <1>1
<1>4. DOMAIN queue \subseteq DOMAIN queue'
  BY <1>1
<1>5. InQueue => InQueue'
  BY <1>2, <1>4
<1>6. r.build => InQueue'
  BY <1>3
<1> QED BY <1>5, <1>6

LEMMA QueueHands ==
    ASSUME TypeOK, queue # <<>>, queue' = Tail(queue)
    PROVE  InQueue => InQueue' \/ Head(queue).build
<1> USE DEF TypeOK, InQueue
<1> SUFFICES ASSUME NEW i \in DOMAIN queue, queue[i].build, ~Head(queue).build PROVE InQueue'
  OBVIOUS
<1>1. i \in 1..Len(queue) /\ i # 1
  OBVIOUS
<1>2. i - 1 \in DOMAIN queue' /\ queue'[i - 1] = queue[i]
  BY <1>1
<1> QED BY <1>2

LEMMA InitNothingForgotten == Init => NothingForgotten
<1> SUFFICES ASSUME Init PROVE Pending
  BY DEF NothingForgotten
<1>1. 1 \in DOMAIN queue /\ queue[1].build
  BY DEF Init, Plain
<1> QED BY <1>1 DEF Pending

LEMMA ProjectForgetsNothing == TypeOK /\ NothingForgotten /\ Project => NothingForgotten'
<1> SUFFICES ASSUME TypeOK, NothingForgotten, Project, ~missed' PROVE Covered' \/ Pending'
  BY DEF NothingForgotten
<1>1. ASSUME NEW kind, Event(kind) PROVE watching /\ ~missed /\ fs' = fs \union {kind} /\ batch' = batch
  <2>1. watching /\ ~missed
    BY <1>1 DEF Event, TypeOK
  <2> QED BY <1>1, <2>1 DEF Event
<1>2. CASE \E f \in Files : WriteZen(f) \/ RemoveZen(f)
  <2>1. Event("sources")
    BY <1>2 DEF WriteZen, RemoveZen
  <2> QED BY <1>1, <2>1 DEF Pending
<1>3. ASSUME NEW kind, Event(kind), UNCHANGED <<zen, queue, rebuilds, phase, req, job, tried>>
      PROVE  Covered' \/ Pending'
  BY <1>1, <1>3 DEF NothingForgotten, Covered, Pending
<1>4. CASE \E e \in Boards \union {None, Missing} : EditManifest(e)
  BY <1>3, <1>4 DEF EditManifest, task, canvas
<1>5. CASE EditCard
  BY <1>3, <1>5 DEF EditCard, task, canvas
<1> QED BY <1>2, <1>4, <1>5 DEF Project

LEMMA WatcherForgetsNothing == TypeOK /\ NothingForgotten /\ Watcher => NothingForgotten'
<1> SUFFICES ASSUME TypeOK, NothingForgotten, Watcher, ~missed' PROVE Covered' \/ Pending'
  BY DEF NothingForgotten
<1>1. (Covered \/ Pending) /\ UNCHANGED <<zen, rebuilds, phase, req, job, tried>>
  BY DEF NothingForgotten, Watcher, Gather, DebounceExpires, SendRequest, disk, task, canvas
<1>2. (Covered <=> Covered') /\ (InTask <=> InTask')
  BY <1>1 DEF Covered, InTask
<1>3. CASE UNCHANGED <<fs \union batch, queue>>
  BY <1>1, <1>2, <1>3 DEF Covered, Pending
<1>4. CASE SendRequest
  <2>1. Request(batch) \in Requests /\ (batch \intersect Rebuilding # {} => Request(batch).build)
    BY RequestType DEF TypeOK, Request, Rebuilding
  <2>2. (InQueue => InQueue') /\ (Request(batch).build => InQueue')
    BY <1>4, <2>1, QueueKeeps DEF SendRequest
  <2>3. fs' = fs
    BY <1>4 DEF SendRequest
  <2>4. InWatcher => InWatcher' \/ InQueue'
    BY <2>1, <2>2, <2>3 DEF InWatcher
  <2>5. Pending <=> InWatcher \/ InQueue \/ rebuilds # <<>> \/ InTask
    BY PendingIs
  <2>6. Pending' <=> InWatcher' \/ InQueue' \/ rebuilds' # <<>> \/ InTask'
    BY DEF Pending, InWatcher, InQueue, InTask, Rebuilding
  <2> QED BY <1>1, <1>2, <2>2, <2>4, <2>5, <2>6
<1>5. CASE (\E k \in Kinds : Gather(k)) \/ DebounceExpires
  BY <1>3, <1>5 DEF Gather, DebounceExpires
<1> QED BY <1>4, <1>5 DEF Watcher

LEMMA WindowForgetsNothing == TypeOK /\ NothingForgotten /\ Window => NothingForgotten'
<1> SUFFICES ASSUME TypeOK, NothingForgotten, Window, ~missed' PROVE Covered' \/ Pending'
  BY DEF NothingForgotten
<1>1. /\ Covered \/ Pending
      /\ UNCHANGED <<zen, fs, batch, phase, req, job, tried>>
  BY DEF NothingForgotten, Window, Nudge, ReloadWorkspace, Reopen, BuildTool, StartWatcher,
     OpenBoardFails, disk, watcher, task, canvas
<1>2. (Covered <=> Covered') /\ (InTask <=> InTask') /\ (InWatcher <=> InWatcher')
  BY <1>1 DEF Covered, InTask, InWatcher
<1>3. (InQueue => InQueue') /\ (rebuilds # <<>> => rebuilds' # <<>>)
  <2>1. CASE UNCHANGED <<queue, rebuilds>>
    BY <2>1 DEF InQueue
  <2>2. ASSUME NEW r \in Requests, queue' = Append(queue, r), UNCHANGED rebuilds
        PROVE  (InQueue => InQueue') /\ (rebuilds # <<>> => rebuilds' # <<>>)
    BY <2>2, QueueKeeps
  <2>3. CASE Nudge
    BY <2>2, <2>3, PlainType DEF Nudge
  <2>4. CASE ReloadWorkspace
    BY <2>2, <2>4, RequestType DEF ReloadWorkspace, Kinds
  <2>5. ASSUME NEW c \in Callers, Reopen(c)
        PROVE  (InQueue => InQueue') /\ (rebuilds # <<>> => rebuilds' # <<>>)
    BY <2>2, <2>5, PlainType DEF Reopen
  <2>6. ASSUME NEW c \in Callers, BuildTool(c)
        PROVE  (InQueue => InQueue') /\ (rebuilds # <<>> => rebuilds' # <<>>)
    <3>1. rebuilds' = Append(rebuilds, c) /\ queue' = queue
      BY <2>6 DEF BuildTool
    <3>2. rebuilds' # <<>>
      BY <3>1 DEF TypeOK
    <3> QED BY <3>1, <3>2 DEF InQueue
  <2>7. CASE StartWatcher \/ OpenBoardFails
    BY <2>1, <2>7 DEF StartWatcher, OpenBoardFails
  <2> QED BY <2>3, <2>4, <2>5, <2>6, <2>7 DEF Window
<1>4. Pending <=> InWatcher \/ InQueue \/ rebuilds # <<>> \/ InTask
  BY PendingIs
<1>5. Pending' <=> InWatcher' \/ InQueue' \/ rebuilds' # <<>> \/ InTask'
  BY DEF Pending, InWatcher, InQueue, InTask, Rebuilding
<1> QED BY <1>1, <1>2, <1>3, <1>4, <1>5

LEMMA TakeForgetsNothing ==
    TypeOK /\ NothingForgotten /\ (TakeRequest \/ TakeRebuild) => NothingForgotten'
<1> SUFFICES ASSUME TypeOK, NothingForgotten, TakeRequest \/ TakeRebuild, ~missed'
             PROVE  Covered' \/ Pending'
  BY DEF NothingForgotten
<1>1. /\ Covered \/ Pending
      /\ UNCHANGED <<zen, fs, batch, tried>>
      /\ ~InTask
  BY DEF NothingForgotten, TakeRequest, TakeRebuild, Begin, disk, watcher, canvas, InTask
<1>2. Covered <=> Covered'
  BY <1>1 DEF Covered
<1>3. InWatcher <=> InWatcher'
  BY <1>1 DEF InWatcher
<1>4. Pending <=> InWatcher \/ InQueue \/ rebuilds # <<>> \/ InTask
  BY PendingIs
<1>5. Pending' <=> InWatcher' \/ InQueue' \/ rebuilds' # <<>> \/ InTask'
  BY DEF Pending, InWatcher, InQueue, InTask, Rebuilding
<1>6. CASE TakeRequest
  <2>1. InQueue => InQueue' \/ Head(queue).build
    BY <1>6, QueueHands DEF TakeRequest
  <2>2. Head(queue).build => InTask'
    BY <1>6 DEF TakeRequest, Begin, InTask
  <2>3. rebuilds' = rebuilds
    BY <1>6 DEF TakeRequest
  <2> QED BY <1>1, <1>2, <1>3, <1>4, <1>5, <2>1, <2>2, <2>3
<1>7. CASE TakeRebuild
  <2>1. InTask'
    BY <1>7 DEF TakeRebuild, Begin, InTask, Plain
  <2> QED BY <1>5, <2>1
<1> QED BY <1>6, <1>7

LEMMA ServeForgetsNothing ==
    TypeOK /\ ReadInOrder /\ NothingForgotten /\ Serve => NothingForgotten'
<1> SUFFICES ASSUME TypeOK, ReadInOrder, NothingForgotten, Serve, ~missed'
             PROVE  Covered' \/ Pending'
  BY DEF NothingForgotten
<1>1. (Covered \/ Pending) /\ UNCHANGED <<zen, fs, batch, queue, rebuilds>>
  BY DEF NothingForgotten, Serve, LoadManifest, StoreProject, StartBuild, OpenWorkspace,
     OpenFails, Eval, EvalFails, MakeView, Publish, Recorded, disk, watcher
<1>2. Pending <=> InWatcher \/ InQueue \/ rebuilds # <<>> \/ InTask
  BY PendingIs
<1>3. Pending' <=> InWatcher' \/ InQueue' \/ rebuilds' # <<>> \/ InTask'
  BY DEF Pending, InWatcher, InQueue, InTask, Rebuilding
<1>4. (InWatcher <=> InWatcher') /\ (InQueue <=> InQueue')
  BY <1>1 DEF InWatcher, InQueue
<1>5. ASSUME InTask => InTask', UNCHANGED tried PROVE Covered' \/ Pending'
  BY <1>1, <1>2, <1>3, <1>4, <1>5 DEF Covered
<1>6. CASE LoadManifest \/ StoreProject
  BY <1>1, <1>5, <1>6 DEF LoadManifest, StoreProject, AfterRefresh, InTask, canvas
<1>7. CASE StartBuild \/ OpenWorkspace
  BY <1>1, <1>5, <1>7 DEF StartBuild, OpenWorkspace, InTask, canvas
<1>8. CASE OpenFails \/ Eval \/ EvalFails
  <2>1. job'.zen = zen /\ UNCHANGED tried /\ phase' = "view"
    BY <1>8 DEF OpenFails, Eval, EvalFails, TypeOK, Inputs, canvas
  <2> QED BY <1>1, <1>5, <2>1 DEF InTask
<1>9. CASE MakeView
  BY <1>1, <1>5, <1>9 DEF MakeView, InTask, canvas
<1>10. CASE Publish
  <2>1. phase = "publish" /\ tried' = {job}
    BY <1>10 DEF Publish, Recorded
  <2>2. ASSUME Covered \/ InTask PROVE job.zen = zen
    <3>1. CASE InTask
      BY <2>1, <3>1 DEF InTask
    <3>2. CASE Covered
      <4>1. PICK j \in tried : j.zen = zen
        BY <3>2 DEF Covered
      <4>2. Older(zen, job.zen) /\ Older(job.zen, zen)
        BY <2>1, <4>1 DEF ReadInOrder
      <4> QED BY <4>2, FilesType, OlderBothWays
    <3> QED BY <2>2, <3>1, <3>2
  <2>3. ASSUME job.zen = zen PROVE Covered'
    BY <1>1, <2>1, <2>3 DEF Covered
  <2> QED BY <1>1, <1>2, <1>3, <1>4, <2>2, <2>3
<1> QED BY <1>6, <1>7, <1>8, <1>9, <1>10 DEF Serve

LEMMA BuilderInit == Init => BuilderInv
  BY InitType, InitReadInOrder, InitNothingForgotten DEF BuilderInv

LEMMA BuilderStep == BuilderInv /\ [Next]_vars => BuilderInv'
<1> SUFFICES ASSUME BuilderInv, [Next]_vars PROVE BuilderInv'
  OBVIOUS
<1>1. TypeOK /\ StampsUsed /\ ReadInOrder /\ NothingForgotten
  BY DEF BuilderInv
<1>2. TypeOK' /\ StampsUsed' /\ ReadInOrder'
  BY <1>1, TypeStep, StampsGrow, ReadInOrderStep
<1>3. ASSUME UNCHANGED vars PROVE NothingForgotten'
  BY <1>1, <1>3 DEF NothingForgotten, Covered, Pending, vars, disk, watcher, task, canvas
<1>4. NothingForgotten'
  BY <1>1, <1>3, ProjectForgetsNothing, WatcherForgetsNothing, WindowForgetsNothing,
     TakeForgetsNothing, ServeForgetsNothing DEF Next
<1> QED BY <1>2, <1>4 DEF BuilderInv

LEMMA BuilderInvariant == Spec => []BuilderInv
  BY BuilderInit, BuilderStep, PTL DEF Spec

(* Whatever the order of edits, debounce windows, requests and builds, a change of a
   source file after the window opened has been read by the last attempt, or a build
   that will read it is in the watcher, in a queue or in the task. *)
THEOREM NothingIsForgotten == Spec => []NoChangeForgotten
<1>1. BuilderInv => NoChangeForgotten
  BY DEF BuilderInv, NothingForgotten, NoChangeForgotten
<1> QED BY <1>1, BuilderInvariant, PTL

--------------------------------------------------------------------------------
(* Answers *)

Queued(c)     == \E i \in DOMAIN queue : queue[i].reply = c
AskedToRebuild(c) == \E i \in DOMAIN rebuilds : rebuilds[i] = c

(* Whoever waits is in one place at most: on a queue, or with the task *)
InOnePlace ==
    /\ \A i, j \in DOMAIN queue :
         queue[i].reply \in Callers /\ queue[i].reply = queue[j].reply => i = j
    /\ \A i, j \in DOMAIN rebuilds : rebuilds[i] = rebuilds[j] => i = j
    /\ \A c \in Callers : Queued(c) => ~AskedToRebuild(c)
    /\ \A c \in Callers : Queued(c) \/ AskedToRebuild(c) => status[c] = "waiting" /\ req.reply # c
    /\ req.reply \in Callers => status[req.reply] = "waiting"

(* Nobody asks in the future, and the build being answered is younger than the question *)
AskedInOrder ==
    /\ \A c \in Callers : Older(asked[c], zen)
    /\ phase \in {"view", "publish"} /\ req.reply \in Callers =>
         Older(asked[req.reply], job.zen)

LEMMA Appended ==
    ASSUME NEW S, NEW q \in Seq(S), NEW r \in S
    PROVE  /\ Len(q) \in Nat
           /\ DOMAIN q = 1..Len(q) /\ DOMAIN Append(q, r) = 1..(Len(q) + 1)
           /\ \A i \in DOMAIN q : Append(q, r)[i] = q[i]
           /\ Append(q, r)[Len(q) + 1] = r
  OBVIOUS

LEMMA Taken ==
    ASSUME NEW S, NEW q \in Seq(S), q # <<>>
    PROVE  /\ Len(q) \in Nat \ {0}
           /\ DOMAIN q = 1..Len(q) /\ DOMAIN Tail(q) = 1..(Len(q) - 1)
           /\ \A i \in DOMAIN Tail(q) : Tail(q)[i] = q[i + 1]
           /\ Head(q) = q[1]
  OBVIOUS

(* A queue that grows holds what it held and the new request *)
LEMMA QueueGrows ==
    ASSUME TypeOK, NEW r \in Requests, queue' = Append(queue, r)
    PROVE  /\ \A c : Queued(c)' <=> Queued(c) \/ r.reply = c
           /\ \A i, j \in DOMAIN queue' :
                queue'[i].reply = queue'[j].reply =>
                   \/ i = j
                   \/ i \in DOMAIN queue /\ j \in DOMAIN queue /\ queue[i].reply = queue[j].reply
                   \/ Queued(r.reply)
<1>1. /\ Len(queue) \in Nat
      /\ DOMAIN queue = 1..Len(queue) /\ DOMAIN queue' = 1..(Len(queue) + 1)
      /\ \A i \in DOMAIN queue : queue'[i] = queue[i]
      /\ queue'[Len(queue) + 1] = r
  BY Appended DEF TypeOK
<1>2. \A c : Queued(c)' <=> Queued(c) \/ r.reply = c
  BY <1>1 DEF Queued
<1>3. \A i \in DOMAIN queue' : i \in DOMAIN queue \/ i = Len(queue) + 1
  BY <1>1
<1> QED BY <1>1, <1>2, <1>3 DEF Queued

LEMMA RebuildsGrow ==
    ASSUME TypeOK, NEW c \in Callers, rebuilds' = Append(rebuilds, c)
    PROVE  /\ \A d : AskedToRebuild(d)' <=> AskedToRebuild(d) \/ d = c
           /\ \A i, j \in DOMAIN rebuilds' :
                rebuilds'[i] = rebuilds'[j] =>
                   \/ i = j
                   \/ i \in DOMAIN rebuilds /\ j \in DOMAIN rebuilds /\ rebuilds[i] = rebuilds[j]
                   \/ AskedToRebuild(c)
<1>1. /\ Len(rebuilds) \in Nat
      /\ DOMAIN rebuilds = 1..Len(rebuilds) /\ DOMAIN rebuilds' = 1..(Len(rebuilds) + 1)
      /\ \A i \in DOMAIN rebuilds : rebuilds'[i] = rebuilds[i]
      /\ rebuilds'[Len(rebuilds) + 1] = c
  BY Appended DEF TypeOK
<1>2. \A d : AskedToRebuild(d)' <=> AskedToRebuild(d) \/ d = c
  BY <1>1 DEF AskedToRebuild
<1>3. \A i \in DOMAIN rebuilds' : i \in DOMAIN rebuilds \/ i = Len(rebuilds) + 1
  BY <1>1
<1> QED BY <1>1, <1>2, <1>3 DEF AskedToRebuild

LEMMA InitInOnePlace == Init => InOnePlace /\ AskedInOrder
<1> SUFFICES ASSUME Init PROVE InOnePlace /\ AskedInOrder
  OBVIOUS
<1>1. /\ DOMAIN queue = {1} /\ queue[1].reply = Opener
      /\ DOMAIN rebuilds = {} /\ req.reply = NoCaller
  BY DEF Init, Plain
<1>2. status[Opener] = "waiting" /\ Opener \in Callers /\ NoCaller \notin Callers
  BY CallersAssumption DEF Init
<1>3. InOnePlace
  BY <1>1, <1>2 DEF InOnePlace, Queued, AskedToRebuild
<1>4. AskedInOrder
  BY <1>1, <1>2 DEF Init, AskedInOrder, Older, NoJob
<1> QED BY <1>3, <1>4

(* Only the window's commands, the two receives and the answer touch who waits where *)
LEMMA SamePlace ==
    ASSUME InOnePlace, UNCHANGED <<queue, rebuilds, req, status>>
    PROVE  InOnePlace'
  BY DEF InOnePlace, Queued, AskedToRebuild

LEMMA SilentRequest ==
    ASSUME TypeOK, InOnePlace, NEW r \in Requests, r.reply = NoCaller,
           queue' = Append(queue, r), UNCHANGED <<rebuilds, req, status>>
    PROVE  InOnePlace'
<1>1. \A c \in Callers : Queued(c)' <=> Queued(c)
  BY QueueGrows, CallersAssumption
<1>2. \A c \in Callers : AskedToRebuild(c)' <=> AskedToRebuild(c)
  BY DEF AskedToRebuild
<1>3. ASSUME NEW i \in DOMAIN queue', NEW j \in DOMAIN queue',
             queue'[i].reply \in Callers, queue'[i].reply = queue'[j].reply
      PROVE  i = j
  <2>1. queue'[i].reply # NoCaller
    BY <1>3, CallersAssumption
  <2>2. /\ Len(queue) \in Nat
        /\ DOMAIN queue = 1..Len(queue) /\ DOMAIN queue' = 1..(Len(queue) + 1)
        /\ \A k \in DOMAIN queue : queue'[k] = queue[k]
        /\ queue'[Len(queue) + 1] = r
    BY Appended DEF TypeOK
  <2>3. i \in DOMAIN queue /\ j \in DOMAIN queue
    BY <1>3, <2>1, <2>2
  <2> QED BY <1>3, <2>2, <2>3 DEF InOnePlace
<1> QED BY <1>1, <1>2, <1>3 DEF InOnePlace

LEMMA WindowPlaces == TypeOK /\ InOnePlace /\ Window => InOnePlace'
<1> SUFFICES ASSUME TypeOK, InOnePlace, Window PROVE InOnePlace'
  OBVIOUS
<1>1. req' = req
  BY DEF Window, Nudge, ReloadWorkspace, Reopen, BuildTool, StartWatcher, OpenBoardFails, task
<1>2. CASE Nudge
  BY <1>2, SilentRequest, PlainType DEF Nudge, Plain, task, callers
<1>3. CASE ReloadWorkspace
  <2>1. Request({"manifest"}) \in Requests /\ Request({"manifest"}).reply = NoCaller
    BY RequestType DEF Request, Kinds
  <2> QED BY <1>3, <2>1, SilentRequest DEF ReloadWorkspace, task, callers
<1>4. ASSUME NEW c \in Callers, Ask(c)
      PROVE  /\ status[c] # "waiting" /\ status'[c] = "waiting"
             /\ \A d \in Callers : status[d] = "waiting" => status'[d] = "waiting"
             /\ ~Queued(c) /\ ~AskedToRebuild(c) /\ req.reply # c
  BY <1>4 DEF Ask, TypeOK, InOnePlace
<1>5. ASSUME NEW c \in Callers, Reopen(c) PROVE InOnePlace'
  <2>1. Ask(c) /\ queue' = Append(queue, Plain(c)) /\ rebuilds' = rebuilds
    BY <1>5 DEF Reopen
  <2>2. Plain(c) \in Requests /\ Plain(c).reply = c
    BY PlainType DEF Plain
  <2>3. /\ \A d : Queued(d)' <=> Queued(d) \/ d = c
        /\ \A i, j \in DOMAIN queue' :
             queue'[i].reply = queue'[j].reply =>
                \/ i = j
                \/ i \in DOMAIN queue /\ j \in DOMAIN queue /\ queue[i].reply = queue[j].reply
    BY <1>4, <2>1, <2>2, QueueGrows
  <2>4. \A d : AskedToRebuild(d)' <=> AskedToRebuild(d)
    BY <2>1 DEF AskedToRebuild
  <2>5. \A i \in DOMAIN queue : i \in DOMAIN queue' /\ queue'[i] = queue[i]
    BY <2>1, <2>2, Appended DEF TypeOK
  <2>6. \A i, j \in DOMAIN queue' :
          queue'[i].reply \in Callers /\ queue'[i].reply = queue'[j].reply => i = j
    BY <2>3, <2>5 DEF InOnePlace
  <2> QED BY <1>1, <1>4, <2>1, <2>3, <2>4, <2>6 DEF InOnePlace
<1>6. ASSUME NEW c \in Callers, BuildTool(c) PROVE InOnePlace'
  <2>1. Ask(c) /\ rebuilds' = Append(rebuilds, c) /\ queue' = queue
    BY <1>6 DEF BuildTool
  <2>2. /\ \A d : AskedToRebuild(d)' <=> AskedToRebuild(d) \/ d = c
        /\ \A i, j \in DOMAIN rebuilds' :
             rebuilds'[i] = rebuilds'[j] =>
                \/ i = j
                \/ i \in DOMAIN rebuilds /\ j \in DOMAIN rebuilds /\ rebuilds[i] = rebuilds[j]
    BY <1>4, <2>1, RebuildsGrow
  <2>3. \A d : Queued(d)' <=> Queued(d)
    BY <2>1 DEF Queued
  <2> QED BY <1>1, <1>4, <2>1, <2>2, <2>3 DEF InOnePlace
<1>7. CASE StartWatcher \/ OpenBoardFails
  <2>1. UNCHANGED <<queue, rebuilds>>
    BY <1>7 DEF StartWatcher, OpenBoardFails
  <2>2. \A c \in Callers : status[c] = "waiting" => status'[c] = "waiting"
    BY <1>7 DEF StartWatcher, OpenBoardFails, TypeOK
  <2> QED BY <1>1, <2>1, <2>2 DEF InOnePlace, Queued, AskedToRebuild
<1> QED BY <1>2, <1>3, <1>5, <1>6, <1>7 DEF Window

LEMMA TakePlaces == TypeOK /\ InOnePlace /\ (TakeRequest \/ TakeRebuild) => InOnePlace'
<1> SUFFICES ASSUME TypeOK, InOnePlace, TakeRequest \/ TakeRebuild PROVE InOnePlace'
  OBVIOUS
<1>1. status' = status
  BY DEF TakeRequest, TakeRebuild, Begin, callers
<1>2. CASE TakeRequest
  <2>1. req' = Head(queue) /\ queue' = Tail(queue) /\ rebuilds' = rebuilds /\ queue # <<>>
    BY <1>2 DEF TakeRequest, Begin
  <2>2. /\ Len(queue) \in Nat \ {0}
        /\ DOMAIN queue = 1..Len(queue) /\ DOMAIN queue' = 1..(Len(queue) - 1)
        /\ \A i \in DOMAIN queue' : queue'[i] = queue[i + 1]
        /\ req' = queue[1]
    BY <2>1, Taken DEF TypeOK
  <2>3. 1 \in DOMAIN queue /\ \A i \in DOMAIN queue' : i + 1 \in DOMAIN queue /\ i + 1 # 1
    BY <2>2
  <2>4. \A c : (Queued(c)' => Queued(c)) /\ (req'.reply = c => Queued(c))
    BY <2>2, <2>3 DEF Queued
  <2>5. \A c \in Callers : Queued(c)' => req'.reply # c
    BY <2>2, <2>3 DEF Queued, InOnePlace
  <2>6. \A i, j \in DOMAIN queue' :
          queue'[i].reply \in Callers /\ queue'[i].reply = queue'[j].reply => i = j
    <3> TAKE i, j \in DOMAIN queue'
    <3>1. i \in Nat /\ j \in Nat
      BY <2>2
    <3>2. queue[i + 1].reply \in Callers /\ queue[i + 1].reply = queue[j + 1].reply => i + 1 = j + 1
      BY <2>3 DEF InOnePlace
    <3> QED BY <2>2, <3>1, <3>2
  <2>7. \A c : AskedToRebuild(c)' <=> AskedToRebuild(c)
    BY <2>1 DEF AskedToRebuild
  <2> QED BY <1>1, <2>1, <2>4, <2>5, <2>6, <2>7 DEF InOnePlace
<1>3. CASE TakeRebuild
  <2>1. /\ req' = Plain(Head(rebuilds)) /\ rebuilds' = Tail(rebuilds) /\ queue' = queue
        /\ rebuilds # <<>>
    BY <1>3 DEF TakeRebuild, Begin
  <2>2. /\ Len(rebuilds) \in Nat \ {0}
        /\ DOMAIN rebuilds = 1..Len(rebuilds) /\ DOMAIN rebuilds' = 1..(Len(rebuilds) - 1)
        /\ \A i \in DOMAIN rebuilds' : rebuilds'[i] = rebuilds[i + 1]
        /\ req'.reply = rebuilds[1]
    BY <2>1, Taken DEF TypeOK, Plain
  <2>3. 1 \in DOMAIN rebuilds /\ \A i \in DOMAIN rebuilds' : i + 1 \in DOMAIN rebuilds /\ i + 1 # 1
    BY <2>2
  <2>4. \A c : (AskedToRebuild(c)' => AskedToRebuild(c)) /\ (req'.reply = c => AskedToRebuild(c))
    BY <2>2, <2>3 DEF AskedToRebuild
  <2>5. \A c : AskedToRebuild(c)' => req'.reply # c
    BY <2>2, <2>3 DEF AskedToRebuild, InOnePlace
  <2>6. \A i, j \in DOMAIN rebuilds' : rebuilds'[i] = rebuilds'[j] => i = j
    <3> TAKE i, j \in DOMAIN rebuilds'
    <3>1. i \in Nat /\ j \in Nat
      BY <2>2
    <3>2. rebuilds[i + 1] = rebuilds[j + 1] => i + 1 = j + 1
      BY <2>3 DEF InOnePlace
    <3> QED BY <2>2, <3>1, <3>2
  <2>7. \A c : Queued(c)' <=> Queued(c)
    BY <2>1 DEF Queued
  <2> QED BY <1>1, <2>1, <2>4, <2>5, <2>6, <2>7 DEF InOnePlace
<1> QED BY <1>2, <1>3

(* An answer goes to the caller of the request served, who waits nowhere else *)
LEMMA AnswerPlaces == TypeOK /\ InOnePlace /\ Publish => InOnePlace'
<1> SUFFICES ASSUME TypeOK, InOnePlace, Publish PROVE InOnePlace'
  OBVIOUS
<1>1. UNCHANGED <<queue, rebuilds>> /\ req'.reply = NoCaller
  BY DEF Publish, Recorded, Plain
<1>2. \A c \in Callers : c # req.reply => status'[c] = status[c]
  BY DEF Publish, AnswerTo
<1>3. \A c : (Queued(c)' <=> Queued(c)) /\ (AskedToRebuild(c)' <=> AskedToRebuild(c))
  BY <1>1 DEF Queued, AskedToRebuild
<1> QED BY <1>1, <1>2, <1>3, CallersAssumption DEF InOnePlace

LEMMA PlaceStep == TypeOK /\ InOnePlace /\ [Next]_vars => InOnePlace'
<1> SUFFICES ASSUME TypeOK, InOnePlace, [Next]_vars PROVE InOnePlace'
  OBVIOUS
<1>1. CASE Project
  BY <1>1, SamePlace DEF Project, WriteZen, RemoveZen, EditManifest, EditCard, task, callers
<1>2. CASE SendRequest
  <2>1. Request(batch) \in Requests /\ Request(batch).reply = NoCaller
    BY RequestType DEF Request, TypeOK
  <2> QED BY <1>2, <2>1, SilentRequest DEF SendRequest, task, callers
<1>3. CASE (\E k \in Kinds : Gather(k)) \/ DebounceExpires
  BY <1>3, SamePlace DEF Gather, DebounceExpires, task, callers
<1>4. CASE Serve /\ ~Publish
  BY <1>4, SamePlace DEF Serve, LoadManifest, StoreProject, StartBuild, OpenWorkspace, OpenFails,
     Eval, EvalFails, MakeView, callers
<1>5. CASE UNCHANGED vars
  BY <1>5, SamePlace DEF vars, task, callers
<1> QED BY <1>1, <1>2, <1>3, <1>4, <1>5, WindowPlaces, TakePlaces, AnswerPlaces DEF Next, Watcher,
        Serve

LEMMA AskedStep ==
    TypeOK /\ TypeOK' /\ InOnePlace /\ ReadInOrder /\ StampsUsed /\ AskedInOrder /\ [Next]_vars
       => AskedInOrder'
<1> SUFFICES ASSUME TypeOK, TypeOK', InOnePlace, ReadInOrder, StampsUsed, AskedInOrder, [Next]_vars
             PROVE  AskedInOrder'
  OBVIOUS
<1>1. /\ zen \in [Files -> Nat] /\ zen' \in [Files -> Nat] /\ job.zen \in [Files -> Nat]
      /\ \A c \in Callers : asked[c] \in [Files -> Nat]
      /\ Older(zen, zen') /\ Older(zen, zen)
  BY FilesType, StampsGrow, OlderIsReflexive, BoundsAssumption DEF TypeOK, Stamps
<1>2. \A c \in Callers : Older(asked[c], zen')
  BY <1>1, OlderIsTransitive DEF AskedInOrder
<1>3. ASSUME UNCHANGED asked,
             phase' \in {"view", "publish"} /\ req'.reply \in Callers =>
               phase \in {"view", "publish"} /\ UNCHANGED <<job, req>>
      PROVE  AskedInOrder'
  BY <1>2, <1>3 DEF AskedInOrder
<1>4. CASE Project
  BY <1>3, <1>4 DEF Project, WriteZen, RemoveZen, EditManifest, EditCard, task, callers
<1>5. CASE Watcher
  BY <1>3, <1>5 DEF Watcher, Gather, DebounceExpires, SendRequest, task, callers
<1>6. ASSUME NEW c \in Callers, Ask(c), UNCHANGED <<disk, task>> PROVE AskedInOrder'
  <2>1. zen' = zen /\ UNCHANGED <<phase, req, job>>
    BY <1>6 DEF disk, task
  <2>2. asked' = [asked EXCEPT ![c] = zen] /\ req.reply # c
    BY <1>6 DEF Ask, InOnePlace
  <2>3. \A d \in Callers : asked'[d] = IF d = c THEN zen ELSE asked[d]
    BY <2>2 DEF TypeOK
  <2> QED BY <1>1, <2>1, <2>2, <2>3 DEF AskedInOrder
<1>7. CASE Window
  BY <1>3, <1>6, <1>7 DEF Window, Nudge, ReloadWorkspace, Reopen, BuildTool, StartWatcher,
     OpenBoardFails, task, callers
<1>8. CASE TakeRequest \/ TakeRebuild
  BY <1>3, <1>8 DEF TakeRequest, TakeRebuild, Begin, callers
<1>9. CASE LoadManifest \/ StoreProject \/ StartBuild \/ OpenWorkspace \/ MakeView
  BY <1>3, <1>9 DEF LoadManifest, StoreProject, AfterRefresh, StartBuild, OpenWorkspace, MakeView,
     callers
<1>10. CASE OpenFails \/ Eval \/ EvalFails
  <2>1. job'.zen = zen /\ UNCHANGED <<zen, req, asked>>
    BY <1>10 DEF OpenFails, Eval, EvalFails, TypeOK, Inputs, disk, callers
  <2> QED BY <2>1 DEF AskedInOrder
<1>11. CASE Publish
  <2>1. phase' = "recv" /\ zen' = zen
    BY <1>11 DEF Publish, Recorded, disk
  <2>2. \A c \in Callers : asked'[c] \in {asked[c], NoJob.zen}
    BY <1>11 DEF Publish, AnswerTo
  <2>3. Older(NoJob.zen, zen)
    BY <1>1 DEF Older, NoJob
  <2> QED BY <2>1, <2>2, <2>3 DEF AskedInOrder
<1>12. CASE UNCHANGED vars
  BY <1>3, <1>12 DEF vars, task, callers
<1> QED BY <1>4, <1>5, <1>7, <1>8, <1>9, <1>10, <1>11, <1>12 DEF Next, Serve

(* A waiting caller stops waiting only when the build of its own request is published *)
LEMMA AnsweredByOwnBuild ==
    ASSUME TypeOK, [Next]_vars, NEW c \in Callers, status[c] = "waiting", status'[c] # "waiting"
    PROVE  phase = "publish" /\ req.reply = c
<1>1. CASE Publish
  BY <1>1 DEF Publish, Recorded, AnswerTo
<1>2. CASE Window
  BY <1>2 DEF Window, Nudge, ReloadWorkspace, Reopen, BuildTool, Ask, StartWatcher, OpenBoardFails,
     callers, TypeOK
<1>3. CASE ~Publish /\ ~Window
  <2>1. status' = status
    BY <1>3 DEF Next, Project, WriteZen, RemoveZen, EditManifest, EditCard, Watcher, Gather,
       DebounceExpires, SendRequest, TakeRequest, TakeRebuild, Begin, Serve, LoadManifest,
       StoreProject, StartBuild, OpenWorkspace, OpenFails, Eval, EvalFails, MakeView, callers, vars
  <2> QED BY <2>1
<1> QED BY <1>1, <1>2, <1>3

AnswerInv == BuilderInv /\ InOnePlace /\ AskedInOrder

LEMMA AnswerInvariant == Spec => []AnswerInv
<1>1. Init => AnswerInv
  BY BuilderInit, InitInOnePlace DEF AnswerInv
<1>2. AnswerInv /\ [Next]_vars => AnswerInv'
  BY BuilderStep, PlaceStep, AskedStep DEF AnswerInv, BuilderInv
<1> QED BY <1>1, <1>2, PTL DEF Spec

(* Whatever channel a request travels on and whatever is edited meanwhile, the build that
   answers it read every file at the asker's version or a later one. *)
THEOREM AnswersCoverTheQuestion == Spec => AnswersAreFresh
<1>1. AnswerInv /\ [Next]_vars =>
        \A c \in Callers : status[c] = "waiting" /\ status'[c] # "waiting" =>
           \A f \in Files : asked[c][f] <= job.zen[f]
  <2> SUFFICES ASSUME AnswerInv, [Next]_vars, NEW c \in Callers, status[c] = "waiting",
                      status'[c] # "waiting"
               PROVE  \A f \in Files : asked[c][f] <= job.zen[f]
    OBVIOUS
  <2>1. phase = "publish" /\ req.reply = c
    BY AnsweredByOwnBuild DEF AnswerInv, BuilderInv
  <2> QED BY <2>1 DEF AnswerInv, AskedInOrder, Older
<1> QED BY <1>1, AnswerInvariant, PTL DEF Spec, AnswersAreFresh

--------------------------------------------------------------------------------
(* The page *)

AtMostOne(S) == \A a, b \in S : a = b

PageTypes ==
    /\ \A S \in {published, snapshot, build, lastGood} : S \subseteq View /\ AtMostOne(S)
    /\ listening \in BOOLEAN
    /\ page \in {"none", "mounting", "hydrated"}
    /\ events \in Seq(View)
    /\ raced \in BOOLEAN

(* A reply is on its way only while the page mounts; the last event carries what the
   backend holds; nothing is kept for a page that does not listen. *)
EventsOK ==
    /\ ~listening => events = <<>>
    /\ page # "mounting" => snapshot = {}
    /\ events # <<>> => published = {events[Len(events)]}

(* Two views tell the page's reader the same *)
Tells(v, p) == Spelled(v) = Spelled(p) /\ (v.layout = {}) = (p.layout = {})

(* What the page shows, or will take from the reply on its way, is the last build's word *)
PageTells ==
    /\ ~raced => \A v \in snapshot, p \in published : Tells(v, p)
    /\ page = "hydrated" /\ events = <<>> /\ ~raced =>
         \A v \in build, p \in published : Tells(v, p)

(* The view's token lies between what the build read of its board and the board *)
HashInOrder ==
    phase = "publish" => job.zen[source] <= viewHash /\ viewHash <= zen[source]

(* What the backend holds is what the last attempt made of the board shown *)
VerdictOfLast ==
    \A j \in tried :
        /\ j.board = source /\ published # {}
        /\ \A p \in published : p.ok => (p.layout # {} <=> HasSchematic(j))

Current(s) == \A v \in s : v.hash = zen[source]

(* When the last attempt read the files as they are, every view that counts carries
   their token. *)
TokensCurrent ==
    Covered => /\ Current(published)
               /\ ~raced => Current(snapshot)
               /\ page = "hydrated" /\ events = <<>> /\ ~raced => Current(build)

PageInv ==
    /\ BuilderInv /\ BuildsTheBoardShown
    /\ PageTypes /\ EventsOK /\ PageTells
    /\ HashInOrder /\ TokensCurrent /\ VerdictOfLast

--------------------------------------------------------------------------------
(* The builder below the page *)

LEMMA PageActionIs ==
    PageNext <=> \/ Builds \/ PublishView
                 \/ Mount \/ Listen \/ GetState
                 \/ \E v \in snapshot : Hydrate(v)
                 \/ BuildFinished
                 \/ \E f \in Files : Gesture(f)
  BY DEF PageNext

LEMMA BuildsSteps == Builds => Next
  BY DEF Builds, Next, Project, Window, Serve

LEMMA PublishSteps == PublishView => Next
  BY DEF PublishView, Next, Serve

LEMMA PageStepsBelow ==
    Mount \/ Listen \/ GetState \/ (\E v \in snapshot : Hydrate(v)) \/ BuildFinished
      => UNCHANGED vars
  BY DEF Mount, Listen, GetState, Hydrate, BuildFinished, backend

(* A gesture writes one of the files, and its event and its nudge announce it *)
LEMMA GestureType ==
    ASSUME TypeOK, NEW f \in Files, Gesture(f)
    PROVE  TypeOK'
<1>1. edits + 1 \in Stamps
  BY BoundsAssumption DEF Gesture, Edit, TypeOK, Stamps
<1>2. zen' \in [Files -> Stamps] /\ edits' \in Stamps
  BY <1>1 DEF Gesture, Edit, TypeOK
<1>3. /\ fs' \subseteq Kinds /\ missed' \in BOOLEAN
      /\ UNCHANGED <<watching, batch, sending>>
  BY DEF Gesture, Event, TypeOK, Kinds
<1>4. queue' \in Seq(Requests) /\ Len(queue') <= Cap
  <2>1. CASE Len(queue) < Cap
    <3>1. queue' = Append(queue, Plain(NoCaller))
      BY <2>1 DEF Gesture, NudgedQueue
    <3> QED BY <2>1, <3>1, PlainType, QueueType, BoundsAssumption DEF TypeOK
  <2>2. CASE ~(Len(queue) < Cap)
    BY <2>2 DEF Gesture, NudgedQueue, TypeOK
  <2> QED BY <2>1, <2>2
<1>5. UNCHANGED <<gone, entry, rebuilds, task, canvas, callers>>
  BY DEF Gesture
<1> QED BY <1>2, <1>3, <1>4, <1>5 DEF TypeOK, task, canvas, callers

LEMMA GestureOrder ==
    ASSUME TypeOK, StampsUsed, ReadInOrder, NEW f \in Files, Gesture(f)
    PROVE  StampsUsed' /\ ReadInOrder' /\ Older(zen, zen')
<1>1. zen \in [Files -> Nat] /\ edits \in Nat
  BY BoundsAssumption DEF TypeOK, Stamps
<1>2. zen' = [zen EXCEPT ![f] = edits + 1] /\ edits' = edits + 1
  BY DEF Gesture, Edit
<1>3. StampsUsed' /\ Older(zen, zen') /\ zen' \in [Files -> Nat]
  BY <1>1, <1>2 DEF StampsUsed, Older
<1>4. UNCHANGED <<job, tried, phase>>
  BY DEF Gesture, task, canvas
<1>5. /\ job.zen \in [Files -> Nat]
      /\ \A j \in tried : j.zen \in [Files -> Nat]
  BY FilesType
<1>6. Older(job.zen, zen') /\ \A j \in tried : Older(j.zen, zen')
  BY <1>1, <1>3, <1>5, OlderIsTransitive DEF ReadInOrder
<1> QED BY <1>3, <1>4, <1>6 DEF ReadInOrder

LEMMA GestureForgetsNothing ==
    ASSUME TypeOK, NEW f \in Files, Gesture(f)
    PROVE  NothingForgotten'
<1> SUFFICES ASSUME ~missed' PROVE Pending'
  BY DEF NothingForgotten
<1>1. Event("sources")
  BY DEF Gesture
<1>2. watching
  BY <1>1 DEF Event, TypeOK
<1>3. "sources" \in fs'
  BY <1>1, <1>2 DEF Event
<1> QED BY <1>3 DEF Pending

(* What is shown above of the builder holds of every step of the page's *)
LEMMA BuilderBelow ==
    ASSUME BuilderInv, BuildsTheBoardShown, [PageNext]_allVars
    PROVE  BuilderInv' /\ BuildsTheBoardShown' /\ Older(zen, zen')
<1>1. TypeOK /\ StampsUsed /\ ReadInOrder /\ NothingForgotten
  BY DEF BuilderInv
<1>2. CASE [Next]_vars
  BY <1>1, <1>2, BuilderStep, BoardShownStep, StampsGrow
<1>3. ASSUME NEW f \in Files, Gesture(f)
      PROVE  BuilderInv' /\ BuildsTheBoardShown' /\ Older(zen, zen')
  <2>1. BuilderInv'
    BY <1>1, <1>3, GestureType, GestureOrder, GestureForgetsNothing DEF BuilderInv
  <2>2. BuildsTheBoardShown'
    BY <1>3 DEF Gesture, task, canvas, BuildsTheBoardShown
  <2> QED BY <1>1, <1>3, <2>1, <2>2, GestureOrder
<1>4. UNCHANGED allVars => UNCHANGED vars
  BY DEF allVars, backend
<1> QED BY <1>2, <1>3, <1>4, BuildsSteps, PublishSteps, PageStepsBelow, PageActionIs

(* The canvas of a page's builder keeps its board: no manifest edits here *)
LEMMA SourceStays ==
    ASSUME [PageNext]_allVars
    PROVE  source' = source
<1>1. Builds => UNCHANGED source
  BY DEF Builds, WriteZen, Watcher, Gather, DebounceExpires, SendRequest, StartWatcher,
     OpenBoardFails, TakeRequest, Begin, StartBuild, OpenWorkspace, OpenFails, Eval, EvalFails,
     MakeView, canvas
<1>2. PublishView => UNCHANGED source
  BY DEF PublishView, Publish, Recorded
<1>3. \A f \in Files : Gesture(f) => UNCHANGED source
  BY DEF Gesture, canvas
<1>4. UNCHANGED vars => UNCHANGED source
  BY DEF vars, canvas
<1>5. UNCHANGED allVars => UNCHANGED vars
  BY DEF allVars, backend
<1> QED BY <1>1, <1>2, <1>3, <1>4, <1>5, PageStepsBelow, PageActionIs

--------------------------------------------------------------------------------
(* What is on its way *)

LEMMA FinishedType == ASSUME TypeOK, Publish PROVE Finished \in View
<1>1. job.board \in Boards /\ job.zen \in [Files -> Stamps]
  BY DEF TypeOK, Inputs
<1>2. layout' \in SUBSET Inputs
  BY DEF Publish, Recorded, TypeOK
<1>3. ok \in BOOLEAN /\ viewHash \in Stamps
  BY DEF TypeOK
<1> QED BY <1>1, <1>2, <1>3 DEF Finished, View

LEMMA KeepType ==
    ASSUME NEW S \in SUBSET View, AtMostOne(S), NEW v \in View
    PROVE  Keep(S, v) \subseteq View /\ AtMostOne(Keep(S, v))
  BY DEF Keep, AtMostOne

(* A view the page accepts becomes its build, or is an echo of the build it has *)
LEMMA KeepIs ==
    ASSUME NEW S, AtMostOne(S), NEW v
    PROVE  \A b \in Keep(S, v) : Spelled(b) = Spelled(v) /\ b.hash = v.hash
                                 /\ (b.layout = {}) = (v.layout = {})
  BY DEF Keep, AtMostOne, Same

LEMMA EventQueue ==
    ASSUME NEW q \in Seq(View), NEW r \in View
    PROVE  /\ Append(q, r) \in Seq(View) /\ Append(q, r) # <<>>
           /\ Append(q, r)[Len(Append(q, r))] = r
           /\ q # <<>> => /\ Head(q) \in View /\ Tail(q) \in Seq(View)
                          /\ Tail(q) # <<>> => Tail(q)[Len(Tail(q))] = q[Len(q)]
                          /\ Tail(q) = <<>> => Head(q) = q[Len(q)]
<1>1. Len(q) \in Nat /\ Len(Append(q, r)) = Len(q) + 1
  OBVIOUS
<1>2. Append(q, r) \in Seq(View) /\ Append(q, r)[Len(q) + 1] = r
  OBVIOUS
<1>3. ASSUME q # <<>>
      PROVE  /\ Head(q) \in View /\ Tail(q) \in Seq(View)
             /\ Tail(q) # <<>> => Tail(q)[Len(Tail(q))] = q[Len(q)]
             /\ Tail(q) = <<>> => Head(q) = q[Len(q)]
  <2>1. /\ Head(q) = q[1] /\ Head(q) \in View /\ Tail(q) \in Seq(View)
        /\ Len(Tail(q)) = Len(q) - 1 /\ Len(q) >= 1
    BY <1>3
  <2>2. \A i \in 1..Len(Tail(q)) : Tail(q)[i] = q[i + 1]
    BY <1>3
  <2>3. ASSUME Tail(q) # <<>> PROVE Tail(q)[Len(Tail(q))] = q[Len(q)]
    <3>1. Len(Tail(q)) \in 1..Len(Tail(q))
      BY <2>1, <2>3
    <3> QED BY <1>1, <2>1, <2>2, <3>1
  <2>4. ASSUME Tail(q) = <<>> PROVE Head(q) = q[Len(q)]
    <3>1. Len(q) = 1
      BY <1>1, <2>1, <2>4
    <3> QED BY <2>1, <3>1
  <2> QED BY <2>1, <2>3, <2>4
<1> QED BY <1>1, <1>2, <1>3

LEMMA PageInitTypes == Init /\ PageInit => PageTypes /\ EventsOK /\ PageTells /\ TokensCurrent
<1> SUFFICES ASSUME Init, PageInit PROVE PageTypes /\ EventsOK /\ PageTells /\ TokensCurrent
  OBVIOUS
<1> USE DEF PageInit
<1>1. PageTypes /\ EventsOK /\ PageTells
  <2>1. {} \subseteq View /\ AtMostOne({}) /\ <<>> \in Seq(View)
    BY DEF AtMostOne
  <2>2. \A S \in {published, snapshot, build, lastGood} : S \subseteq View /\ AtMostOne(S)
    BY <2>1
  <2>3. PageTypes
    BY <2>1, <2>2 DEF PageTypes
  <2> QED BY <2>3 DEF EventsOK, PageTells
<1>2. TokensCurrent
  BY DEF TokensCurrent, Current
<1> QED BY <1>1, <1>2

LEMMA PageTypesStep ==
    ASSUME TypeOK, PageTypes, EventsOK, [PageNext]_allVars
    PROVE  PageTypes' /\ EventsOK'
<1>1. /\ published \subseteq View /\ snapshot \subseteq View
      /\ build \subseteq View /\ lastGood \subseteq View
      /\ AtMostOne(published) /\ AtMostOne(snapshot) /\ AtMostOne(build) /\ AtMostOne(lastGood)
      /\ events \in Seq(View)
  BY DEF PageTypes
<1>2. ASSUME UNCHANGED pageVars PROVE PageTypes' /\ EventsOK'
  BY <1>2 DEF pageVars, ui, PageTypes, AtMostOne, EventsOK
<1>3. CASE Builds \/ UNCHANGED allVars
  BY <1>2, <1>3 DEF Builds, allVars
<1>4. ASSUME NEW f \in Files, Gesture(f) PROVE PageTypes' /\ EventsOK'
  BY <1>2, <1>4 DEF Gesture, pageVars
<1>5. CASE PublishView
  <2>1. /\ Finished \in View
        /\ published' = {Finished}
        /\ events' = IF listening THEN Append(events, Finished) ELSE events
        /\ raced' = (raced \/ snapshot # {} \/ (page = "hydrated" /\ ~listening))
        /\ UNCHANGED <<listening, snapshot, page, build, lastGood>>
    BY <1>5, FinishedType DEF PublishView
  <2> HIDE DEF Finished
  <2>2. raced' \in BOOLEAN
    BY <2>1
  <2>3. events' \in Seq(View)
    BY <1>1, <2>1, EventQueue
  <2>4. PageTypes'
    BY <2>1, <2>2, <2>3 DEF PageTypes, AtMostOne
  <2>5. EventsOK'
    <3>1. CASE listening
      <4>1. events'[Len(events')] = Finished
        BY <1>1, <2>1, <3>1, EventQueue
      <4> QED BY <2>1, <3>1, <4>1 DEF EventsOK
    <3>2. CASE ~listening
      BY <2>1, <3>2 DEF EventsOK
    <3> QED BY <3>1, <3>2
  <2> QED BY <2>4, <2>5
<1>6. CASE Mount
  <2>1. /\ snapshot' = {} /\ build' = {} /\ lastGood' = {} /\ events' = <<>>
        /\ page' = "mounting" /\ listening' = FALSE /\ raced' = FALSE
        /\ UNCHANGED published
    BY <1>6 DEF Mount
  <2>2. {} \subseteq View /\ AtMostOne({}) /\ <<>> \in Seq(View)
    BY DEF AtMostOne
  <2>3. PageTypes'
    BY <1>1, <2>1, <2>2 DEF PageTypes, AtMostOne
  <2> QED BY <2>1, <2>3 DEF EventsOK
<1>7. CASE Listen
  BY <1>7 DEF Listen, PageTypes, AtMostOne, EventsOK
<1>8. CASE GetState
  <2>1. snapshot' = {[v EXCEPT !.hash = zen[source]] : v \in published} /\ page = "mounting"
    BY <1>8 DEF GetState
  <2>2. zen[source] \in Stamps
    BY DEF TypeOK, Files
  <2>3. \A v \in published : [v EXCEPT !.hash = zen[source]] \in View
    BY <1>1, <2>2 DEF View
  <2>4. snapshot' \subseteq View /\ AtMostOne(snapshot')
    BY <1>1, <2>1, <2>3 DEF AtMostOne
  <2>5. UNCHANGED <<published, listening, page, events, build, lastGood, raced>>
    BY <1>8 DEF GetState
  <2>6. PageTypes'
    BY <2>4, <2>5 DEF PageTypes, AtMostOne
  <2> QED BY <2>1, <2>5, <2>6 DEF EventsOK
<1>9. ASSUME NEW v \in View, Accept(v)
      PROVE  /\ build' \subseteq View /\ AtMostOne(build')
             /\ lastGood' \subseteq View /\ AtMostOne(lastGood')
  <2>1. build' = Keep(build, v) /\ lastGood' \in {Keep(lastGood, v), lastGood}
    BY <1>9 DEF Accept
  <2>2. Keep(build, v) \subseteq View /\ AtMostOne(Keep(build, v))
    BY <1>1, KeepType
  <2>3. Keep(lastGood, v) \subseteq View /\ AtMostOne(Keep(lastGood, v))
    BY <1>1, KeepType
  <2> QED BY <1>1, <2>1, <2>2, <2>3
<1>10. ASSUME NEW v \in snapshot, Hydrate(v) PROVE PageTypes' /\ EventsOK'
  <2>1. /\ Accept(v) /\ v \in View /\ snapshot' = {} /\ page' = "hydrated"
        /\ UNCHANGED <<published, listening, events, raced>>
    BY <1>1, <1>10 DEF Hydrate
  <2>2. /\ build' \subseteq View /\ AtMostOne(build')
        /\ lastGood' \subseteq View /\ AtMostOne(lastGood')
    BY <1>9, <2>1
  <2>3. PageTypes'
    BY <2>1, <2>2 DEF PageTypes, AtMostOne
  <2> QED BY <2>1, <2>3 DEF EventsOK
<1>11. CASE BuildFinished
  <2>1. /\ events # <<>> /\ Accept(Head(events)) /\ events' = Tail(events)
        /\ raced' \in BOOLEAN
        /\ UNCHANGED <<published, listening, snapshot, page>>
    BY <1>11 DEF BuildFinished
  <2>2. /\ Head(events) \in View /\ Tail(events) \in Seq(View)
        /\ Tail(events) # <<>> => Tail(events)[Len(Tail(events))] = events[Len(events)]
    BY <1>1, <2>1, EventQueue
  <2>3. /\ build' \subseteq View /\ AtMostOne(build')
        /\ lastGood' \subseteq View /\ AtMostOne(lastGood')
    BY <1>9, <2>1, <2>2
  <2>4. PageTypes'
    BY <2>1, <2>2, <2>3 DEF PageTypes, AtMostOne
  <2> QED BY <2>1, <2>2, <2>4 DEF EventsOK
<1> QED BY <1>3, <1>4, <1>5, <1>6, <1>7, <1>8, <1>10, <1>11, PageActionIs

--------------------------------------------------------------------------------
(* Reads, tokens and edits *)

LEMMA HashInOrderStep ==
    ASSUME BuilderInv, BuildsTheBoardShown, HashInOrder, [PageNext]_allVars
    PROVE  HashInOrder'
<1>1. TypeOK /\ ReadInOrder /\ TypeOK' /\ Older(zen, zen') /\ source' = source
  BY BuilderBelow, SourceStays DEF BuilderInv
<1>2. /\ source \in Files /\ zen[source] \in Nat /\ zen'[source] \in Nat
      /\ zen[source] <= zen'[source] /\ job.zen[source] \in Nat /\ viewHash \in Nat
  <2>1. source \in Files /\ viewHash \in Nat
    BY <1>1, BoundsAssumption DEF TypeOK, Files, Stamps
  <2>2. zen \in [Files -> Nat] /\ job.zen \in [Files -> Nat]
    BY <1>1, FilesType
  <2>3. zen' \in [Files -> Nat]
    BY <1>1, BoundsAssumption DEF TypeOK, Stamps
  <2> QED BY <1>1, <2>1, <2>2, <2>3 DEF Older
<1>3. ASSUME UNCHANGED <<phase, job, viewHash>> PROVE HashInOrder'
  <2> SUFFICES ASSUME phase = "publish"
               PROVE  job.zen[source] <= viewHash /\ viewHash <= zen'[source]
    BY <1>1, <1>3 DEF HashInOrder
  <2>1. job.zen[source] <= viewHash /\ viewHash <= zen[source]
    BY DEF HashInOrder
  <2> QED BY <1>2, <2>1
<1>4. ASSUME phase' # "publish" PROVE HashInOrder'
  BY <1>4 DEF HashInOrder
<1>5. CASE MakeView
  <2>1. viewHash' = zen[source] /\ job' = job /\ zen' = zen
    BY <1>5 DEF MakeView, BuildsTheBoardShown, disk
  <2>2. job.zen[source] <= zen[source]
    BY <1>1, <1>2 DEF ReadInOrder, Older
  <2> QED BY <1>1, <1>2, <2>1, <2>2 DEF HashInOrder
<1>6. CASE Builds /\ ~MakeView
  <2>1. CASE \E f \in Files : WriteZen(f)
    BY <1>3, <2>1 DEF WriteZen, task
  <2>2. CASE Watcher \/ StartWatcher \/ OpenBoardFails
    BY <1>3, <2>2 DEF Watcher, Gather, DebounceExpires, SendRequest, StartWatcher,
       OpenBoardFails, task
  <2>3. CASE TakeRequest
    BY <1>4, <2>3 DEF TakeRequest, Begin
  <2>4. CASE StartBuild \/ OpenWorkspace \/ OpenFails \/ Eval \/ EvalFails
    BY <1>4, <2>4 DEF StartBuild, OpenWorkspace, OpenFails, Eval, EvalFails
  <2> QED BY <1>6, <2>1, <2>2, <2>3, <2>4 DEF Builds
<1>7. CASE PublishView
  BY <1>4, <1>7 DEF PublishView, Publish, Recorded
<1>8. ASSUME NEW f \in Files, Gesture(f) PROVE HashInOrder'
  BY <1>3, <1>8 DEF Gesture, task
<1>9. UNCHANGED vars => HashInOrder'
  BY <1>3 DEF vars, task
<1>10. UNCHANGED allVars => UNCHANGED vars
  BY DEF allVars, backend
<1> QED BY <1>5, <1>6, <1>7, <1>8, <1>9, <1>10, PageStepsBelow, PageActionIs

(* An edit's stamp is new, so no attempt has read it *)
LEMMA EditUncovers ==
    ASSUME TypeOK, StampsUsed, ReadInOrder, NEW f \in Files, Edit(f), UNCHANGED tried
    PROVE  ~Covered'
<1> SUFFICES ASSUME NEW j \in tried, j.zen = zen' PROVE FALSE
  BY DEF Covered
<1>1. zen[f] \in Nat /\ edits \in Nat /\ zen[f] <= edits
  BY BoundsAssumption DEF TypeOK, Stamps, StampsUsed
<1>2. zen'[f] = edits + 1
  BY DEF Edit, TypeOK
<1>3. j.zen[f] <= zen[f]
  BY DEF ReadInOrder, Older
<1> QED BY <1>1, <1>2, <1>3

LEMMA PageTellsStep ==
    ASSUME PageTypes, EventsOK, PageTells, [PageNext]_allVars
    PROVE  PageTells'
<1>1. /\ AtMostOne(build) /\ AtMostOne(published) /\ events \in Seq(View)
      /\ raced \in BOOLEAN
  BY DEF PageTypes
<1>2. ASSUME UNCHANGED pageVars PROVE PageTells'
  BY <1>2 DEF pageVars, ui, PageTells, Tells, Spelled
<1>3. CASE Builds \/ UNCHANGED allVars
  BY <1>2, <1>3 DEF Builds, allVars
<1>4. ASSUME NEW f \in Files, Gesture(f) PROVE PageTells'
  BY <1>2, <1>4 DEF Gesture, pageVars
<1>5. CASE PublishView
  <2>1. /\ events' = IF listening THEN Append(events, Finished) ELSE events
        /\ raced' = (raced \/ snapshot # {} \/ (page = "hydrated" /\ ~listening))
        /\ UNCHANGED <<listening, snapshot, page, build>>
    BY <1>5 DEF PublishView
  <2> HIDE DEF Finished
  <2>2. listening => events' # <<>>
    BY <1>1, <2>1
  <2>3. ~raced' => snapshot' = {}
    BY <2>1
  <2>4. ~raced' /\ page' = "hydrated" => events' # <<>>
    BY <2>1, <2>2
  <2> QED BY <2>3, <2>4 DEF PageTells
<1>6. CASE Mount \/ Listen
  <2>1. UNCHANGED published /\ snapshot' \in {{}, snapshot}
    BY <1>6 DEF Mount, Listen
  <2>2. CASE Mount
    BY <2>2 DEF Mount, PageTells
  <2>3. CASE Listen
    BY <2>3 DEF Listen, PageTells, Tells, Spelled
  <2> QED BY <1>6, <2>2, <2>3
<1>7. CASE GetState
  <2>1. /\ snapshot' = {[v EXCEPT !.hash = zen[source]] : v \in published}
        /\ page' = "mounting" /\ published' = published
    BY <1>7 DEF GetState
  <2>2. \A v \in published : v \in View
    BY DEF PageTypes
  <2>3. ASSUME NEW v \in snapshot', NEW p \in published PROVE Tells(v, p)
    <3>1. v = [p EXCEPT !.hash = zen[source]]
      BY <1>1, <2>1, <2>3 DEF AtMostOne
    <3>2. v.board = p.board /\ v.ok = p.ok /\ v.layout = p.layout
      BY <2>2, <3>1 DEF View
    <3> QED BY <3>2 DEF Tells, Spelled
  <2>4. \A v \in snapshot', p \in published' : Tells(v, p)'
    BY <2>1, <2>3 DEF Tells, Spelled
  <2> QED BY <2>1, <2>4 DEF PageTells
<1>8. ASSUME NEW v, Accept(v)
      PROVE  \A b \in build' : Tells(b, v)
  BY <1>1, <1>8, KeepIs DEF Accept, Tells
<1>9. ASSUME NEW v \in snapshot, Hydrate(v) PROVE PageTells'
  <2>1. /\ Accept(v) /\ snapshot' = {} /\ published' = published /\ raced' = raced
    BY <1>9 DEF Hydrate
  <2>2. ASSUME ~raced, NEW b \in build', NEW p \in published PROVE Tells(b, p)
    <3>1. Tells(b, v)
      BY <1>8, <2>1
    <3>2. Tells(v, p)
      BY <2>2 DEF PageTells
    <3> QED BY <3>1, <3>2 DEF Tells
  <2> QED BY <2>1, <2>2 DEF PageTells, Tells, Spelled
<1>10. CASE BuildFinished
  <2>1. /\ events # <<>> /\ Accept(Head(events)) /\ events' = Tail(events)
        /\ raced' = (raced /\ page # "hydrated")
        /\ UNCHANGED <<published, snapshot, page>>
    BY <1>10 DEF BuildFinished
  <2>2. ASSUME events' = <<>> PROVE published = {Head(events)}
    <3> Head(events) \in View
      BY <1>1, <2>1
    <3>1. Head(events) = events[Len(events)]
      BY <1>1, <2>1, <2>2, EventQueue
    <3> QED BY <2>1, <3>1 DEF EventsOK
  <2>3. ASSUME events' = <<>>, NEW b \in build', NEW p \in published PROVE Tells(b, p)
    BY <1>8, <2>1, <2>2, <2>3
  <2>4. ~raced' /\ snapshot # {} => ~raced
    BY <2>1 DEF EventsOK
  <2> QED BY <2>1, <2>3, <2>4 DEF PageTells, Tells, Spelled
<1> QED BY <1>3, <1>4, <1>5, <1>6, <1>7, <1>9, <1>10, PageActionIs

(* Where the tokens stay current: nothing they hang on has moved *)
LEMMA TokensStay ==
    ASSUME TokensCurrent, UNCHANGED <<zen, source, tried, pageVars>>
    PROVE  TokensCurrent'
  BY DEF TokensCurrent, Covered, Current, pageVars, ui

LEMMA BuildsTokens ==
    ASSUME TypeOK, StampsUsed, ReadInOrder, TokensCurrent, Builds
    PROVE  TokensCurrent'
<1>1. UNCHANGED pageVars
  BY DEF Builds
<1>2. ASSUME NEW f \in Files, WriteZen(f) PROVE TokensCurrent'
  <2>1. Edit(f) /\ UNCHANGED tried
    BY <1>2 DEF WriteZen, canvas
  <2> QED BY <2>1, EditUncovers DEF TokensCurrent
<1>3. CASE Watcher \/ StartWatcher \/ OpenBoardFails
  BY <1>1, <1>3, TokensStay DEF Watcher, Gather, DebounceExpires, SendRequest, StartWatcher,
     OpenBoardFails, disk, canvas
<1>4. CASE TakeRequest
  BY <1>1, <1>4, TokensStay DEF TakeRequest, Begin, disk, canvas
<1>5. CASE StartBuild \/ OpenWorkspace \/ OpenFails \/ Eval \/ EvalFails \/ MakeView
  BY <1>1, <1>5, TokensStay DEF StartBuild, OpenWorkspace, OpenFails, Eval, EvalFails, MakeView,
     disk, canvas
<1> QED BY <1>2, <1>3, <1>4, <1>5 DEF Builds

(* The view an up-to-date build publishes carries the board's token *)
LEMMA PublishTokens ==
    ASSUME BuilderInv, PageTypes, HashInOrder, PublishView
    PROVE  TokensCurrent'
<1>1. /\ phase = "publish" /\ tried' = {job} /\ zen' = zen /\ source' = source
      /\ published' = {Finished}
      /\ events' = IF listening THEN Append(events, Finished) ELSE events
      /\ raced' = (raced \/ snapshot # {} \/ (page = "hydrated" /\ ~listening))
      /\ UNCHANGED <<snapshot, page>>
  BY DEF PublishView, Publish, Recorded, disk
<1>2. Finished.hash = viewHash
  BY DEF Finished
<1> HIDE DEF Finished
<1> SUFFICES ASSUME Covered'
             PROVE  /\ Current(published)'
                    /\ ~raced' => Current(snapshot)'
                    /\ ~(page' = "hydrated" /\ events' = <<>> /\ ~raced')
  BY DEF TokensCurrent
<1>3. job.zen = zen
  BY <1>1 DEF Covered
<1>4. viewHash = zen[source]
  <2>1. zen[source] \in Nat /\ viewHash \in Nat
    BY BoundsAssumption DEF BuilderInv, TypeOK, Files, Stamps
  <2>2. zen[source] <= viewHash /\ viewHash <= zen[source]
    BY <1>1, <1>3 DEF HashInOrder
  <2> QED BY <2>1, <2>2
<1>5. Current(published)'
  BY <1>1, <1>2, <1>4 DEF Current
<1>6. ~raced' => Current(snapshot)'
  BY <1>1 DEF Current
<1>7. listening => events' # <<>>
  BY <1>1 DEF PageTypes
<1> QED BY <1>1, <1>5, <1>6, <1>7

LEMMA TokensStep ==
    ASSUME PageInv, [PageNext]_allVars
    PROVE  TokensCurrent'
<1>1. /\ BuilderInv /\ TypeOK /\ StampsUsed /\ ReadInOrder
      /\ PageTypes /\ EventsOK /\ HashInOrder /\ TokensCurrent
  BY DEF PageInv, BuilderInv
<1>2. AtMostOne(build) /\ AtMostOne(published) /\ events \in Seq(View)
  BY <1>1 DEF PageTypes
<1>3. UNCHANGED allVars => TokensCurrent'
  BY <1>1, TokensStay DEF allVars, backend, vars, disk, canvas
<1>4. ASSUME NEW f \in Files, Gesture(f) PROVE TokensCurrent'
  <2>1. Edit(f) /\ UNCHANGED tried
    BY <1>4 DEF Gesture, canvas
  <2> QED BY <1>1, <2>1, EditUncovers DEF TokensCurrent
<1>5. ASSUME UNCHANGED vars
      PROVE  zen' = zen /\ source' = source /\ (Covered' <=> Covered)
  BY <1>5 DEF vars, disk, canvas, Covered
<1>6. CASE Mount
  <2>1. /\ UNCHANGED <<vars, published>>
        /\ snapshot' = {} /\ page' = "mounting"
    BY <1>6 DEF Mount, backend
  <2> QED BY <1>1, <1>5, <2>1 DEF TokensCurrent, Current
<1>7. CASE Listen
  <2>1. UNCHANGED <<vars, published, snapshot, page, events, build, raced>>
    BY <1>7 DEF Listen, backend
  <2> QED BY <1>1, <1>5, <2>1 DEF TokensCurrent, Current
<1>8. CASE GetState
  <2>1. /\ UNCHANGED <<vars, published>> /\ page' = "mounting"
        /\ snapshot' = {[v EXCEPT !.hash = zen[source]] : v \in published}
    BY <1>8 DEF GetState, backend
  <2>2. \A v \in published : [v EXCEPT !.hash = zen[source]].hash = zen[source]
    BY <1>1 DEF PageTypes, View
  <2> QED BY <1>1, <1>5, <2>1, <2>2 DEF TokensCurrent, Current
<1>9. ASSUME NEW v, Accept(v)
      PROVE  \A b \in build' : b.hash = v.hash
  BY <1>2, <1>9, KeepIs DEF Accept
<1>10. ASSUME NEW v \in snapshot, Hydrate(v) PROVE TokensCurrent'
  <2>1. /\ UNCHANGED <<vars, published, raced>> /\ Accept(v) /\ snapshot' = {}
    BY <1>10 DEF Hydrate, backend
  <2>2. Covered /\ ~raced => v.hash = zen[source]
    BY <1>1 DEF TokensCurrent, Current
  <2> QED BY <1>1, <1>5, <1>9, <2>1, <2>2 DEF TokensCurrent, Current
<1>11. CASE BuildFinished
  <2>1. /\ UNCHANGED <<vars, published, snapshot, page>>
        /\ raced' = (raced /\ page # "hydrated")
        /\ events # <<>> /\ Accept(Head(events)) /\ events' = Tail(events)
    BY <1>11 DEF BuildFinished, backend
  <2>2. ASSUME events' = <<>> PROVE published = {Head(events)}
    <3> Head(events) \in View
      BY <1>2, <2>1
    <3>1. Head(events) = events[Len(events)]
      BY <1>2, <2>1, <2>2, EventQueue
    <3> QED BY <1>1, <2>1, <3>1 DEF EventsOK
  <2>3. events' = <<>> /\ Covered => Current(build)'
    BY <1>1, <1>5, <1>9, <2>1, <2>2 DEF TokensCurrent, Current
  <2>4. ~raced' /\ snapshot # {} => ~raced
    BY <1>1, <2>1 DEF EventsOK
  <2>5. Covered /\ ~raced' => Current(snapshot)
    BY <1>1, <2>4 DEF TokensCurrent, Current
  <2> QED BY <1>1, <1>5, <2>1, <2>3, <2>5 DEF TokensCurrent, Current
<1> QED BY <1>1, <1>3, <1>4, <1>6, <1>7, <1>8, <1>10, <1>11, BuildsTokens, PublishTokens,
           PageActionIs

LEMMA VerdictStep ==
    ASSUME BuilderInv, BuildsTheBoardShown, VerdictOfLast, [PageNext]_allVars
    PROVE  VerdictOfLast'
<1>1. source' = source
  BY SourceStays
<1>2. ASSUME UNCHANGED <<tried, published>> PROVE VerdictOfLast'
  BY <1>1, <1>2 DEF VerdictOfLast, HasSchematic
<1>3. Builds => UNCHANGED <<tried, published>>
  BY DEF Builds, pageVars, WriteZen, Watcher, Gather, DebounceExpires, SendRequest, StartWatcher,
     OpenBoardFails, TakeRequest, Begin, StartBuild, OpenWorkspace, OpenFails, Eval, EvalFails,
     MakeView, canvas
<1>4. \A f \in Files : Gesture(f) => UNCHANGED <<tried, published>>
  BY DEF Gesture, canvas
<1>5. Mount \/ Listen \/ GetState \/ (\E v \in snapshot : Hydrate(v)) \/ BuildFinished
        => UNCHANGED <<tried, published>>
  BY DEF Mount, Listen, GetState, Hydrate, BuildFinished, backend, vars, canvas
<1>6. UNCHANGED allVars => UNCHANGED <<tried, published>>
  BY DEF allVars, backend, vars, canvas, pageVars
<1>7. CASE PublishView
  <2>1. /\ phase = "publish" /\ tried' = {job} /\ published' = {Finished}
        /\ layout' = IF ~ok THEN layout ELSE IF HasSchematic(job) THEN {job} ELSE {}
    BY <1>7 DEF PublishView, Publish, Recorded
  <2>2. job.board = source
    BY <2>1 DEF BuildsTheBoardShown
  <2>3. Finished.ok = ok /\ Finished.layout = layout'
    BY DEF Finished
  <2> HIDE DEF Finished
  <2>4. Finished.ok => (Finished.layout # {} <=> HasSchematic(job))
    BY <2>1, <2>3
  <2> QED BY <1>1, <2>1, <2>2, <2>4 DEF VerdictOfLast, HasSchematic
<1> QED BY <1>2, <1>3, <1>4, <1>5, <1>6, <1>7, PageActionIs

--------------------------------------------------------------------------------
(* The page's promises *)

LEMMA PageInvariant == PageSpec => []PageInv
<1>1. Init /\ PageInit => PageInv
  <2> SUFFICES ASSUME Init, PageInit PROVE PageInv
    OBVIOUS
  <2>1. BuildsTheBoardShown /\ HashInOrder /\ VerdictOfLast
    BY DEF Init, BuildsTheBoardShown, HashInOrder, VerdictOfLast
  <2> QED BY <2>1, BuilderInit, PageInitTypes DEF PageInv
<1>2. PageInv /\ [PageNext]_allVars => PageInv'
  <2> SUFFICES ASSUME PageInv, [PageNext]_allVars PROVE PageInv'
    OBVIOUS
  <2>1. /\ BuilderInv /\ TypeOK /\ BuildsTheBoardShown
        /\ PageTypes /\ EventsOK /\ PageTells /\ HashInOrder /\ VerdictOfLast
    BY DEF PageInv, BuilderInv
  <2>2. BuilderInv' /\ BuildsTheBoardShown'
    BY <2>1, BuilderBelow
  <2>3. PageTypes' /\ EventsOK'
    BY <2>1, PageTypesStep
  <2>4. PageTells'
    BY <2>1, PageTellsStep
  <2>5. HashInOrder'
    BY <2>1, HashInOrderStep
  <2>6. TokensCurrent'
    BY TokensStep
  <2>7. VerdictOfLast'
    BY <2>1, VerdictStep
  <2> QED BY <2>2, <2>3, <2>4, <2>5, <2>6, <2>7 DEF PageInv
<1> QED BY <1>1, <1>2, PTL DEF PageSpec

(* Every variable of the page and of the builder below it keeps its type: at most one
   view is stored, on its way, shown, or kept as the last with a schematic. *)
THEOREM PageTypesCorrect == PageSpec => []PageTypeOK
<1>1. PageInv => PageTypeOK
  <2> SUFFICES ASSUME PageInv PROVE PageTypeOK
    OBVIOUS
  <2>1. TypeOK /\ PageTypes
    BY DEF PageInv, BuilderInv
  <2>2. ASSUME NEW S, AtMostOne(S) PROVE Cardinality(S) <= 1
    <3>1. CASE S = {}
      BY <3>1, FS_EmptySet
    <3>2. CASE S # {}
      <4>1. PICK x : x \in S
        BY <3>2
      <4>2. S = {x}
        BY <2>2, <4>1 DEF AtMostOne
      <4> QED BY <4>2, FS_Singleton
    <3> QED BY <3>1, <3>2
  <2> QED BY <2>1, <2>2 DEF PageTypes, PageTypeOK
<1> QED BY <1>1, PageInvariant, PTL

(* Whatever was dropped as an echo (acceptBuild's filter, state.ts:96-104): once the page
   is settled and no change waits to be built, it shows a drawing exactly if the board and
   its parts, as they are on disk, have one.  The filter alone does not give this: it rests
   on no change being forgotten on the way from a file to the page.  Which drawing it is,
   is not claimed. *)
THEOREM PageKnowsTheVerdict == PageSpec => []PageJudgesTheFiles
<1>1. PageInv => PageJudgesTheFiles
  <2> DEFINE now == [board |-> source, zen |-> zen]
  <2> SUFFICES ASSUME PageInv, Settled, ~missed, ~Pending, NEW v \in build, v.ok
               PROVE  v.layout # {} <=> HasSchematic(now)
    BY DEF PageJudgesTheFiles
  <2>1. PICK j \in tried : j.zen = zen
    BY DEF PageInv, BuilderInv, NothingForgotten, Covered
  <2>2. /\ j.board = source /\ published # {}
        /\ \A p \in published : p.ok => (p.layout # {} <=> HasSchematic(j))
    BY DEF PageInv, VerdictOfLast
  <2>3. HasSchematic(j) <=> HasSchematic(now)
    BY <2>1, <2>2 DEF HasSchematic
  <2>4. PICK p \in published : TRUE
    BY <2>2
  <2>5. Tells(v, p)
    BY <2>4 DEF PageInv, PageTells, Settled
  <2>6. p \in View /\ v \in View
    BY <2>4 DEF PageInv, PageTypes
  <2>7. p.ok /\ (v.layout = {} <=> p.layout = {})
    BY <2>5, <2>6 DEF Tells, Spelled, View
  <2> QED BY <2>2, <2>3, <2>4, <2>7
<1> QED BY <1>1, PageInvariant, PTL

(* The edit loop cannot lock up: a page whose token is not the board's will be sent one,
   because the change that moved the board is under way in the builder
   (state.ts:250-254). *)
THEOREM TokensAreRenewed == PageSpec => []TokenCatchesUp
<1>1. PageInv => TokenCatchesUp
  <2> SUFFICES ASSUME PageInv, Settled, ~missed, ~Pending
               PROVE  \A v \in build : v.hash = zen[source]
    BY DEF TokenCatchesUp
  <2>1. Covered
    BY DEF PageInv, BuilderInv, NothingForgotten
  <2> QED BY <2>1 DEF PageInv, TokensCurrent, Current, Settled
<1> QED BY <1>1, PageInvariant, PTL

================================================================================
