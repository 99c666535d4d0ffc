--------------------------------- MODULE Canvas ---------------------------------
(***************************************************************************)
(* A project window's page (apps/desktop/src/state.ts) on top of its        *)
(* builder: hydration from get_state, build-finished events, which views    *)
(* the page keeps, and the edit loop that hangs on the hash in them.        *)
(* Gestures join the edits of the files.                                    *)
(*                                                                          *)
(* A project with one board is enough here, so the builder's project        *)
(* refresh and its waiting callers are left to Builder.                     *)
(***************************************************************************)
EXTENDS Builder

VARIABLES
    published,  \* {view}: CanvasState.build, or {} before the first build
    listening,  \* the page's build-finished listener is registered
    snapshot,   \* {view}: the reply of get_state on its way to the page
    page,       \* "none", "mounting" or "hydrated" (the reply has arrived)
    events,     \* build-finished events on their way to the page
    build,      \* {view}: the page's `build', or {}
    lastGood,   \* {view}: the page's `lastGood', or {}
    raced       \* ghost: the last build finished while the page was being mounted

backend == vars
ui      == <<listening, snapshot, page, events, build, lastGood>>
pageVars == <<published, ui, raced>>
allVars == <<backend, pageVars>>

(* A BuildView.  `read' stands for everything the build computed from its inputs,
   `layout' for the schematic it carries. *)
View == [board : Boards, ok : BOOLEAN, read : [Files -> Stamps],
         layout : SUBSET Inputs, hash : Stamps]

(* A failure names its board by the absolute path, a build relative to the root *)
Spelled(v) == [board |-> v.board, absolute |-> ~v.ok]

PageTypeOK ==
    /\ TypeOK
    /\ \A v \in {published, snapshot, build, lastGood} : v \subseteq View /\ Cardinality(v) <= 1
    /\ listening \in BOOLEAN
    /\ page \in {"none", "mounting", "hydrated"}
    /\ events \in Seq(View)
    /\ raced \in BOOLEAN

PageInit ==
    /\ published = {} /\ listening = FALSE /\ snapshot = {} /\ page = "none"
    /\ events = <<>> /\ build = {} /\ lastGood = {}
    /\ raced = FALSE

--------------------------------------------------------------------------------
(* What the backend sends *)

Finished == [board |-> job.board, ok |-> ok, read |-> job.zen, layout |-> layout',
             hash |-> viewHash]

(* set_build, then emit to this window: an event nobody listens to is lost *)
PublishView ==
    /\ Publish
    /\ published' = {Finished}
    /\ events' = IF listening THEN Append(events, Finished) ELSE events
    /\ raced' = (raced \/ snapshot # {} \/ (page = "hydrated" /\ ~listening))
    /\ UNCHANGED <<listening, snapshot, page, build, lastGood>>

Builds ==
    /\ \/ \E f \in Files : WriteZen(f)
       \/ Watcher
       \/ StartWatcher \/ OpenBoardFails
       \/ TakeRequest
       \/ StartBuild \/ OpenWorkspace \/ OpenFails
       \/ Eval \/ EvalFails \/ MakeView
    /\ UNCHANGED pageVars

--------------------------------------------------------------------------------
(* The page *)

(* The window is created after its first build; a webview reload mounts it again *)
Mount ==
    /\ opened = "open"
    /\ page # "mounting"
    /\ page' = "mounting"
    /\ listening' = FALSE /\ snapshot' = {} /\ events' = <<>>
    /\ build' = {} /\ lastGood' = {} /\ raced' = FALSE
    /\ UNCHANGED <<backend, published>>

Listen ==
    /\ page # "none" /\ ~listening
    /\ listening' = TRUE
    /\ UNCHANGED <<backend, published, snapshot, page, events, build, lastGood,
                   raced>>

(* get_state: the stored build, its board hashed as it is now *)
GetState ==
    /\ page = "mounting" /\ snapshot = {}
    /\ snapshot' = {[v EXCEPT !.hash = zen[source]] : v \in published}
    /\ UNCHANGED <<backend, published, listening, page, events, build, lastGood,
                   raced>>

(* Mutants: a view with another token, or with another verdict, is taken for an echo *)
SameButToken(p, v) == Spelled(p) = Spelled(v) /\ (p.layout = {}) = (v.layout = {})
SameButVerdict(p, v) == Spelled(p) = Spelled(v) /\ p.hash = v.hash

(* acceptBuild's `same': the spelling of the source, the token, has-a-schematic *)
Same(p, v) ==
    /\ Spelled(p) = Spelled(v)
    /\ p.hash = v.hash
    /\ (p.layout = {}) = (v.layout = {})

(* An echo keeps the object the page already has *)
Keep(old, v) == IF \E p \in old : Same(p, v) THEN old ELSE {v}

Accept(v) ==
    /\ build' = Keep(build, v)
    /\ lastGood' = IF v.layout # {} THEN Keep(lastGood, v) ELSE lastGood

Hydrate(v) ==
    /\ v \in snapshot
    /\ Accept(v)
    /\ snapshot' = {}
    /\ page' = "hydrated"
    /\ UNCHANGED <<backend, published, listening, events, raced>>

BuildFinished ==
    /\ events # <<>>
    /\ Accept(Head(events))
    /\ events' = Tail(events)
    /\ raced' = (raced /\ page # "hydrated")
    /\ UNCHANGED <<backend, published, listening, snapshot, page>>

--------------------------------------------------------------------------------
(* Structured writers *)

(* nudge_build's try_send *)
NudgedQueue == IF Len(queue) < Cap THEN Append(queue, Plain(NoCaller)) ELSE queue

(* A canvas command, whose base_hash is the page's latest build's: the gate compares it
   with the board.  The command may write any file the board loads. *)
Gesture(f) ==
    /\ page # "none"
    /\ \E v \in build : zen[source] = v.hash
    /\ Edit(f)
    /\ Event("sources")
    /\ queue' = NudgedQueue
    /\ UNCHANGED <<gone, entry, rebuilds, task, canvas, callers, published, ui, raced>>

--------------------------------------------------------------------------------

PageNext ==
    \/ Builds \/ PublishView
    \/ Mount \/ Listen \/ GetState
    \/ \E v \in snapshot : Hydrate(v)
    \/ BuildFinished
    \/ \E f \in Files : Gesture(f)

PageSpec == Init /\ PageInit /\ [][PageNext]_allVars

--------------------------------------------------------------------------------
(* Properties *)

Settled == page = "hydrated" /\ listening /\ events = <<>> /\ ~raced

(* Once the page is settled and no change waits to be built, it shows a drawing exactly if
   the files as they are now have one: through edits of boards and parts, builds that race
   them, reloads and an echo filter (state.ts:96-104) that tells views apart by the spelling
   of the board, the token and whether there is a schematic.  That the drawing is the
   latest is not said: a rebuild after a part changed is an echo by these three. *)
PageJudgesTheFiles ==
    Settled /\ ~missed /\ ~Pending =>
        \A v \in build : v.ok => (v.layout # {} <=> HasSchematic([board |-> source, zen |-> zen]))

(* A refused gesture is refused for good only if nothing is coming: while the page's
   token is not the board's, a build that will bring the new one is under way or its
   event is (state.ts:250-254, App.tsx:64-67). *)
TokenCatchesUp ==
    Settled /\ ~missed => Pending \/ \A v \in build : v.hash = zen[source]
================================================================================
