------------------------------- MODULE NetEdit -------------------------------
(***************************************************************************)
(* The structured writers of crates/zen-build/src/edit.rs, as the canvas    *)
(* commands (desktop commands.rs) and the MCP tools (crates/mcp tools.rs)   *)
(* call them.  A writer reads the file, refuses or computes the new file,   *)
(* and writes it once, all under the write gate (module WriteGate).         *)
(*                                                                          *)
(* A canvas gesture is guarded by the hash of the build the page shows.  A  *)
(* tool is not: it reads the last build, decides whether that build is      *)
(* current and reaches inner pins through ports BEFORE it takes the gate,   *)
(* so other edits may come in between.                                      *)
(*                                                                          *)
(* The page is one that shows the latest build (module Canvas is about      *)
(* that), and the edits are those of the board's entry file: a submodule    *)
(* appears through its ports.                                               *)
(***************************************************************************)
EXTENDS Netlist, Naturals

CONSTANTS
    Boards,     \* the files the session may start from
    Typed,      \* the net names users type
    MaxEdits    \* bound for TLC: how many edits a run makes

ASSUME BoardsAssumption == Boards \subseteq Files
ASSUME TypedAssumption == Typed \subseteq Names
ASSUME EditsAssumption == MaxEdits \in Nat

\* What the edits are to keep, the file they begin with has: one with an
\* undefined name does not evaluate, and orphans of hand edits are no writer's.
ASSUME WholeBoardsAssumption ==
    \A b \in Boards : RefsDefined(b) /\ OnlyCallsTakeArgs(b) /\ KeysHaveCalls(b)

VARIABLES
    file,      \* the board's file
    built,     \* what the last build read
    call,      \* an MCP tool's call between reading the build and the gate
    poisoned,  \* a writer panicked with the gate's mutex held
    edits,     \* how many edits have been applied
    last,      \* ghost: what kind of step the last one was
    strayed    \* ghost: a tool has written with a build older than the file

vars == <<file, built, call, poisoned, edits, last, strayed>>

\* sch: the schematic the writer is to be given.  ports: the pins it reached
\* through ports, as it spells them.
Idle == [op |-> "none", sch |-> None, ports |-> [i \in Insts |-> [p \in PinNames |-> {}]]]

NetTypeOK ==
    /\ file \in Files
    /\ built \in Files
    /\ call \in [op : {"none", "add", "connect"}, sch : Files \union {None},
                 ports : [Insts -> [PinNames -> SUBSET PinNames]]]
    /\ poisoned \in BOOLEAN
    /\ edits \in Nat
    /\ last \in {"connect", "blind", "merge", "pin", "attribute", "other"}
    /\ strayed \in BOOLEAN

Init ==
    /\ file \in Boards
    /\ built = file
    /\ call = Idle
    /\ poisoned = FALSE
    /\ edits = 0
    /\ last = "other"
    /\ strayed = FALSE

\* The schematic of a build: none when the board did not evaluate.
Schematic(b) == IF DefsAboveUses(b) THEN b ELSE None

-----------------------------------------------------------------------------
(* Endpoints *)

\* Pin p of i's module is a pin of something inside it, with a net of its own.
Inner(sch, i, p) == sch # None /\ sch.mod[i] # None /\ p \in DOMAIN Declares[sch.mod[i]].inner

\* The name the build gave to the net behind an inner pin, None if the call
\* leaves that io alone or computes it.
InnerNet(sch, i, p) ==
    LET e == sch.args[i][Declares[sch.mod[i]].inner[p]]
    IN  CASE e.k = "lit" -> e.x
          [] e.k = "var" -> sch.net[e.x]
          [] OTHER -> None

\* port_for_net: the arguments of i's call that carry the net called n.
PortsForNet(f, i, n) ==
    {a \in Ports : \/ f.args[i][a] = Lit(n)
                   \/ \E v \in Called(f, n) : f.args[i][a] = Var(v)}

\* wire_endpoint and translate_endpoint_via_port: how an endpoint the user
\* names is spelled in the entry file.  A pin of a library part anchors to the
\* part's call; a pin inside an authored module goes through a port that
\* carries its net.
Spelled(f, sch, i, p) ==
    CASE ~Inner(sch, i, p) -> {p}
      [] Inner(sch, i, p) /\ InnerNet(sch, i, p) # None -> PortsForNet(f, i, InnerNet(sch, i, p))
      [] OTHER -> {}

\* The io a spelled pin means on the call that stands in the file: an io by
\* its own name, when it is visible or the call carries it, else by its pin.
Resolved(f, i, p) ==
    LET facts == Facts(f.mod[i])
        io == \/ p \in facts.required \union Range(facts.pins)
              \/ p \in Ports \ facts.configs /\ f.args[i][p] # NoArg
    IN  CASE io -> p
          [] ~io /\ p \in DOMAIN facts.pins -> facts.pins[p]
          [] OTHER -> None

\* A resolved endpoint is <<instance, io>>; ArgAt is what stands there.
ArgAt(f, e) == f.args[e[1]][e[2]]
OnDef(f, e) == ArgAt(f, e).k = "var" /\ ArgAt(f, e).x \in Defined(f)
VarAt(f, e) == ArgAt(f, e).x

Endpoints(f, i, ps) ==
    {e \in {i} \X Ports : f.mod[i] # None /\ \E p \in ps : e[2] = Resolved(f, i, p)}

\* resolve_endpoint refuses what it cannot read as a net.
Wireable(f, e) == ArgAt(f, e).k \in {"none", "lit"} \/ OnDef(f, e)

-----------------------------------------------------------------------------
(* connect_pins, between resolved endpoints a and b *)

\* Mutant of SharedNet: a net is judged by its references in this file only.
SharedInFileOnly(f, sch, e) == OnDef(f, e) /\ ~OneRef(f, VarAt(f, e))

\* More than one reference here, or more than one port in the build.
SharedNet(f, sch, e) ==
    /\ OnDef(f, e)
    /\ \/ ~OneRef(f, VarAt(f, e))
       \/ /\ sch # None
          /\ \E p \in Pins(sch) : /\ OnDef(sch, p)
                                  /\ sch.net[VarAt(sch, p)] = f.net[VarAt(f, e)]
                                  /\ Spans(sch, p)

Already(f, a, b) == OnDef(f, a) /\ OnDef(f, b) /\ VarAt(f, a) = VarAt(f, b)

NeedsMerge(f, sch, a, b) == SharedNet(f, sch, a) /\ SharedNet(f, sch, b) /\ ~Already(f, a, b)

\* The merge: b's net disappears into a's, with its symbols' positions.
CanMerge(f, sch, a, b) == NeedsMerge(f, sch, a, b) /\ ~IsShadowed(VarAt(f, b))

Merged(f, a, b) ==
    LET gone == VarAt(f, b)
        g    == Prune(Redirect(f, gone, VarAt(f, a)), {gone})
    IN  [g EXCEPT !.keys = @ \ {<<f.net[gone], "sym">>}]

\* The definition both pins are to share, when a side has one: a shared one,
\* then one whose name was chosen, then a's.
Target(f, sch, a, b) ==
    LET sides  == {e \in {a, b} : OnDef(f, e)}
        shared == {e \in sides : SharedNet(f, sch, e)}
        chosen == {e \in sides : f.net[VarAt(f, e)] # PlaceholderOf[e[1]][e[2]]}
        first(S) == VarAt(f, IF a \in S THEN a ELSE b)
    IN  CASE shared # {} -> first(shared)
          [] shared = {} /\ chosen # {} -> first(chosen)
          [] OTHER -> first(sides)

\* The name of the net when neither side has a definition.
FreshName(f, a, net) ==
    CASE net # None -> net
      [] net = None /\ ArgAt(f, a).k = "lit" -> ArgAt(f, a).x
      [] OTHER -> PlaceholderOf[a[1]][a[2]]

CanDefine(f, n) == VarOf[n] \notin Bound(f)

\* Mutant of Pointed: only the drag-start side's orphan is pruned.
PointedPruningOne(f, g, a, b, v) ==
    LET orphans == {w \in Defined(f) \ {v} : ArgAt(f, a) = Var(w) /\ OneRef(f, w)}
    IN  Prune(SetArg(SetArg(g, a[1], a[2], Var(v)), b[1], b[2], Var(v)), orphans)

\* Pointing both pins at v, and pruning what that leaves without references.
Pointed(f, g, a, b, v) ==
    LET moved   == {e \in {a, b} : ~(OnDef(f, e) /\ VarAt(f, e) = v)}
        orphans == {w \in Defined(f) \ (f.uses \union {v}) :
                       Refs(f, w) # {} /\ Refs(f, w) \subseteq moved}
    IN  Prune(SetArg(SetArg(g, a[1], a[2], Var(v)), b[1], b[2], Var(v)), orphans)

\* The cases in which connect_pins writes the file without merging.
CanConnect(f, sch, a, b, net) ==
    /\ ~Already(f, a, b)
    /\ ~NeedsMerge(f, sch, a, b)
    /\ \/ OnDef(f, a) \/ OnDef(f, b)
       \/ Called(f, FreshName(f, a, net)) # {}
       \/ CanDefine(f, FreshName(f, a, net))

\* Mutant of Connected: a new definition is referenced by the net's name.
ConnectedByName(f, sch, a, b, net) ==
    LET n == FreshName(f, a, net)
    IN  CASE OnDef(f, a) \/ OnDef(f, b) -> Pointed(f, f, a, b, Target(f, sch, a, b))
          [] ~OnDef(f, a) /\ ~OnDef(f, b) /\ Called(f, n) # {} ->
               Pointed(f, f, a, b, NetByName(f, n))
          [] OTHER -> Pointed(f, Define(f, n, {a[1], b[1]}), a, b, n)

Connected(f, sch, a, b, net) ==
    LET n == FreshName(f, a, net)
    IN  CASE OnDef(f, a) \/ OnDef(f, b) -> Pointed(f, f, a, b, Target(f, sch, a, b))
          [] ~OnDef(f, a) /\ ~OnDef(f, b) /\ Called(f, n) # {} ->
               Pointed(f, f, a, b, NetByName(f, n))
          [] OTHER -> Pointed(f, Define(f, n, {a[1], b[1]}), a, b, VarOf[n])

\* `.expect("Def state has a def")': the merge and the prune of disconnect_pin
\* look for the definition among those with a literal only.
LacksLiteral(f, v) == v \notin f.named

-----------------------------------------------------------------------------
(* disconnect_pin, attach_pin_net, create_net, rename_net *)

\* A required io goes back to a placeholder, an optional one is dropped.
Disconnected(f, e) ==
    LET v == VarAt(f, e)
        required == e[2] \in Facts(f.mod[e[1]]).required
        g == SetArg(f, e[1], e[2],
                    IF required THEN Lit(PlaceholderOf[e[1]][e[2]]) ELSE NoArg)
    IN  IF OneRef(f, v) THEN Prune(g, {v}) ELSE g

CanAttach(f, n) == Called(f, n) # {} \/ CanDefine(f, n)

Attached(f, e, n) ==
    LET known  == Called(f, n) # {}
        v      == IF known THEN NetByName(f, n) ELSE VarOf[n]
        g      == IF known THEN f ELSE Define(f, n, {e[1]})
        orphan == {w \in Defined(f) \ {v} : ArgAt(f, e) = Var(w) /\ OneRef(f, w)}
    IN  Prune(SetArg(g, e[1], e[2], Var(v)), orphan)

CanCreateNet(f, n) == Called(f, n) = {} /\ CanDefine(f, n)

\* Mutant of CanRenameNet: the new name may be in use.
CanRenameNetOnto(f, v, new) == Called(f, f.net[v]) = {v} /\ ~IsShadowed(v)

CanRenameNet(f, v, new) ==
    /\ Called(f, f.net[v]) = {v}
    /\ Called(f, new) = {}
    /\ VarOf[new] # v => CanDefine(f, new)
    /\ ~IsShadowed(v)

\* Variable, literal, references and symbol positions move together.
RenamedNet(f, v, new) ==
    LET w == VarOf[new]
        spelled == v \in f.named \/ w # new
        old == f.net[v]
    IN  [Redirect(f, v, w) EXCEPT
            !.net   = [u \in Vars |-> CASE u = w -> new
                                        [] u = v /\ u # w -> None
                                        [] OTHER -> @[u]],
            !.named = (@ \ {v, w}) \union {u \in {w} : spelled},
            !.above = {p \in @ : p[1] # v} \union ({w} \X {i \in Insts : <<v, i>> \in @}),
            !.keys  = {k \in @ : k # <<old, "sym">>}
                      \union {k \in {<<new, "sym">>} : <<old, "sym">> \in @}]

-----------------------------------------------------------------------------
(* add_instance, rename_instance, set_attribute, remove_instances, moves *)

\* merge_positions: every component of the build gets a key.
Snapshot(sch) == IF sch = None THEN {} ELSE PlacedIn(sch) \X {"comp"}

CanAdd(f, sch, i, m, attrs) ==
    /\ f.mod[i] = None
    /\ sch # None => sch.mod[i] = None
    /\ Facts(m).needed \subseteq attrs
    /\ Facts(m).configs # {} => attrs \subseteq Facts(m).configs

\* Every io that is required and not given starts on a placeholder net.
PlacedArgs(i, m, attrs) ==
    [a \in Keys |-> CASE a \in attrs -> Str
                      [] a \in PlacedIos(m) \ attrs -> Lit(PlaceholderOf[i][a])
                      [] OTHER -> NoArg]

\* The position is written when the module's file names its one component.
Added(f, sch, i, m, attrs, positioned) ==
    LET child == Cardinality(Declares[m].components) = 1
    IN  [AddCall(f, i, m, PlacedArgs(i, m, attrs)) EXCEPT
            !.binds = @ \union {m},
            !.keys  = IF positioned /\ child THEN @ \union {<<i, "comp">>} \union Snapshot(sch)
                                             ELSE @]

\* Position keys follow the name, whatever they are keys of.
RenamedInstance(f, old, new) ==
    LET to(i) == IF i = old THEN new ELSE i
    IN  [f EXCEPT
            !.mod  = [@ EXCEPT ![new] = f.mod[old], ![old] = None],
            !.args = [@ EXCEPT ![new] = f.args[old], ![old] = [a \in Keys |-> NoArg]],
            !.above = {<<to(p[1]), to(p[2])>> : p \in @},
            !.keys  = {<<to(k[1]), k[2]>> : k \in @}]

CanSetAttribute(f, i, a) ==
    a \notin Facts(f.mod[i]).required \union Range(Facts(f.mod[i]).pins)

\* Mutant of Removed: the position keys stay.
RemovedKeepingKeys(f, S) ==
    LET dead == {v \in Named(f) \ f.uses : Refs(f, v) # {} /\ Refs(f, v) \subseteq S \X Keys}
        kept == {f.mod[i] : i \in PlacedIn(f) \ S}
    IN  [Prune(f, dead) EXCEPT
            !.mod   = [i \in Insts |-> IF i \in S THEN None ELSE @[i]],
            !.args  = [i \in Insts |-> IF i \in S THEN [a \in Keys |-> NoArg] ELSE @[i]],
            !.above = {p \in @ : p[1] \notin S /\ p[2] \notin S},
            !.binds = @ \ ({f.mod[i] : i \in S} \ kept)]

\* A definition dies when it had references and all sat in deleted calls.
Removed(f, S) ==
    LET dead == {v \in Named(f) \ f.uses : Refs(f, v) # {} /\ Refs(f, v) \subseteq S \X Keys}
        kept == {f.mod[i] : i \in PlacedIn(f) \ S}
    IN  [Prune(f, dead) EXCEPT
            !.mod   = [i \in Insts |-> IF i \in S THEN None ELSE @[i]],
            !.args  = [i \in Insts |-> IF i \in S THEN [a \in Keys |-> NoArg] ELSE @[i]],
            !.above = {p \in @ : p[1] \notin S /\ p[2] \notin S},
            !.binds = @ \ ({f.mod[i] : i \in S} \ kept),
            !.keys  = {k \in @ : k[1] \notin S}]

\* save_positions: known parts bring the snapshot of all of them; a part the
\* build does not know is written under its bare path.
Moved(f, sch, S) ==
    LET known == {i \in S : sch # None /\ i \in PlacedIn(sch)}
    IN  [f EXCEPT !.keys = @ \union (IF known # {} THEN Snapshot(sch) ELSE {})
                             \union ((S \ known) \X {"sym"})]

-----------------------------------------------------------------------------
(* The doors *)

\* A canvas gesture passes the gate's guard: the file is the one the page's
\* build was made of.
Guarded == file = built

Apply(f, kind) ==
    /\ file' = f
    /\ edits' = edits + 1
    /\ last' = kind
    /\ UNCHANGED <<built, poisoned>>

Panic ==
    /\ poisoned' = TRUE
    /\ last' = "other"
    /\ UNCHANGED <<file, built, edits>>

\* The canvas's verbs: under the guard.
Canvas(f, kind) == Guarded /\ Apply(f, kind) /\ UNCHANGED <<call, strayed>>

\* A tool that uses the build only to name its target: it needs one, which may
\* be stale, and goes through the gate without a guard.
Tool(f, kind) ==
    Schematic(built) # None /\ Apply(f, kind) /\ UNCHANGED <<call, strayed>>

\* The ports by which a schematic reaches each pin.
Reach(sch) == [i \in Insts |-> [p \in PinNames |-> Spelled(file, sch, i, p)]]

\* The endpoints a user can name, and whether each was reached through a port.
Ends(reach) ==
    UNION {{[end |-> e, ported |-> ip[2] \notin reach[ip[1]][ip[2]]] :
              e \in {x \in Endpoints(file, ip[1], reach[ip[1]][ip[2]]) : Wireable(file, x)}}
           : ip \in Insts \X PinNames}

\* Two inner pins of one module are wired inside it: an edit of another file.
SameScope(s, t) == s.ported /\ t.ported /\ file.mod[s.end[1]] = file.mod[t.end[1]]

\* The writer inside the gate.
Connect(sch, reach) ==
    LET ends == Ends(reach)
    IN  \E s, t \in ends, net \in Typed \union {None} :
        LET a == s.end
            b == t.end
        IN  /\ a # b
            /\ ~SameScope(s, t)
            /\ \/ /\ CanConnect(file, sch, a, b, net)
                  /\ Apply(Connected(file, sch, a, b, net),
                           IF sch = file THEN "connect" ELSE "blind")
               \/ /\ CanMerge(file, sch, a, b)      \* the user agreed
                  /\ IF LacksLiteral(file, VarAt(file, b))
                     THEN Panic
                     ELSE Apply(Merged(file, a, b), "merge")

Add(sch) ==
    \E i \in Insts, m \in Modules, attrs \in SUBSET Attrs, positioned \in BOOLEAN :
        /\ CanAdd(file, sch, i, m, attrs)
        /\ Apply(Added(file, sch, i, m, attrs, positioned), "other")

CanvasConnect ==
    /\ Guarded
    /\ Connect(Schematic(built), Reach(Schematic(built)))
    /\ UNCHANGED <<call, strayed>>

CanvasAdd == Guarded /\ Add(Schematic(built)) /\ UNCHANGED <<call, strayed>>

ToolReads(op, ports) ==
    /\ call = Idle
    /\ call' = [op |-> op,
                sch |-> IF built = file THEN Schematic(built) ELSE None,
                ports |-> ports]
    /\ last' = "other"
    /\ UNCHANGED <<file, built, poisoned, edits, strayed>>

\* connect_pins_tool and add_instance_tool up to the gate.  What else they are
\* asked for is chosen when it is used.
ToolConnectReads ==
    /\ Schematic(built) # None
    /\ ToolReads("connect", Reach(Schematic(built)))

ToolAddReads == ToolReads("add", Idle.ports)

\* ... and in the gate.  A stale schematic was dropped; one that has become
\* stale since was not.
ToolWrites ==
    /\ call' = Idle
    /\ strayed' = (strayed \/ (call.sch # None /\ call.sch # file))

ToolConnect ==
    /\ call.op = "connect"
    /\ Connect(call.sch, call.ports)
    /\ ToolWrites

ToolAdd == call.op = "add" /\ Add(call.sch) /\ ToolWrites

ToolRefused ==
    /\ call # Idle
    /\ call' = Idle
    /\ last' = "other"
    /\ UNCHANGED <<file, built, poisoned, edits, strayed>>

\* Inner pins are not reached through ports here: disconnecting one edits the
\* submodule's file.
Detachable ==
    UNION {{e \in Endpoints(file, ip[1], {ip[2]}) : OnDef(file, e)} :
             ip \in {x \in Insts \X PinNames : ~Inner(Schematic(built), x[1], x[2])}}

Unprunable(e) == OneRef(file, VarAt(file, e)) /\ LacksLiteral(file, VarAt(file, e))

CanvasDisconnect ==
    \E e \in Detachable :
        IF Unprunable(e) THEN Guarded /\ Panic /\ UNCHANGED <<call, strayed>>
                         ELSE Canvas(Disconnected(file, e), "pin")

ToolDisconnect ==
    \E e \in Detachable :
        IF Unprunable(e) THEN Schematic(built) # None /\ Panic /\ UNCHANGED <<call, strayed>>
                         ELSE Tool(Disconnected(file, e), "pin")

CanvasAttach ==
    \E i \in Insts, p \in PinNames, n \in Typed :
        \E e \in Endpoints(file, i, Spelled(file, Schematic(built), i, p)) :
            CanAttach(file, n) /\ Canvas(Attached(file, e, n), "pin")

\* Needs no build.
ToolCreateNet ==
    \E n \in Typed :
        CanCreateNet(file, n) /\ Apply(Define(file, n, {}), "other") /\ UNCHANGED <<call, strayed>>

CanvasRenameNet ==
    \E v \in Defined(file), new \in Typed :
        CanRenameNet(file, v, new) /\ Canvas(RenamedNet(file, v, new), "other")

\* Needs no build either.
ToolRenameNet ==
    \E v \in Defined(file), new \in Typed :
        /\ CanRenameNet(file, v, new)
        /\ Apply(RenamedNet(file, v, new), "other")
        /\ UNCHANGED <<call, strayed>>

CanvasRenameInstance ==
    \E old \in PlacedIn(file), new \in Insts \ PlacedIn(file) :
        Canvas(RenamedInstance(file, old, new), "other")

ToolRenameInstance ==
    \E old \in PlacedIn(file), new \in Insts \ PlacedIn(file) :
        Apply(RenamedInstance(file, old, new), "other") /\ UNCHANGED <<call, strayed>>

CanvasSetAttribute ==
    \E i \in PlacedIn(file), a \in Keys :
        CanSetAttribute(file, i, a) /\ Canvas(SetArg(file, i, a, Str), "attribute")

ToolSetAttribute ==
    \E i \in PlacedIn(file), a \in Keys :
        CanSetAttribute(file, i, a) /\ Tool(SetArg(file, i, a, Str), "attribute")

CanvasRemove ==
    \E S \in SUBSET PlacedIn(file) \ {{}} : Canvas(Removed(file, S), "other")

ToolRemove == \E i \in PlacedIn(file) : Tool(Removed(file, {i}), "other")

SavePositions ==
    \E S \in SUBSET Insts \ {{}} : Canvas(Moved(file, Schematic(built), S), "other")

\* The one tool with a guard: moves merge into the layout of a build.
SetPositions ==
    /\ Guarded
    /\ Schematic(built) # None
    /\ \E S \in SUBSET PlacedIn(built) \ {{}} : Tool(Moved(file, built, S), "other")

\* The watcher's build of what the file now holds (module Builder).
Build ==
    /\ built # file
    /\ built' = file
    /\ last' = "other"
    /\ UNCHANGED <<file, call, poisoned, edits, strayed>>

Write ==
    \/ CanvasConnect        \/ ToolConnect
    \/ CanvasAdd            \/ ToolAdd
    \/ CanvasDisconnect     \/ ToolDisconnect
    \/ CanvasAttach         \/ ToolCreateNet
    \/ CanvasRenameNet      \/ ToolRenameNet
    \/ CanvasRenameInstance \/ ToolRenameInstance
    \/ CanvasSetAttribute   \/ ToolSetAttribute
    \/ CanvasRemove         \/ ToolRemove
    \/ SavePositions        \/ SetPositions

\* No writer gets the gate once its mutex is poisoned.
Next ==
    \/ ~poisoned /\ edits < MaxEdits /\ Write
    \/ ToolConnectReads
    \/ ToolAddReads
    \/ ToolRefused
    \/ Build

Spec == Init /\ [][Next]_vars

-----------------------------------------------------------------------------
(* Correctness *)

\* Every identifier an instantiation or another statement refers to as a net
\* is defined: what connect, disconnect, attach, rename, merge and remove
\* prune or rename, they prune or rename everywhere (edit.rs's auto-prune).
NoDanglingRefs == RefsDefined(file)

Referenced(f) == {v \in Vars : v \in f.uses \/ Refs(f, v) # {}}

\* No edit but set_attribute leaves behind a definition with a literal whose
\* last reference it removed (the auto-prune of PRD 12.2 in attach_pin_net,
\* connect_pins, disconnect_pin and remove_instances).
OrphansArePruned ==
    [][last' # "attribute" =>
         \A v \in Referenced(file) \ Referenced(file') : v \notin Named(file')]_vars

\* Two nets with a definition that each span more than one pin become one only
\* in a confirmed merge, whenever the writer was given the build of the file it
\* writes (edit.rs, ConnectPinsRequest.allow_merge: never silently).
NoSilentMerge ==
    [][last' = "connect" =>
         \A p, q \in Pins(file) :
            (/\ ~Joined(file, p, q)
             /\ OnDef(file, p) /\ OnDef(file, q)
             /\ Spans(file, p) /\ Spans(file, q)) => ~Joined(file', p, q)]_vars

\* How many pins an edit names.
Touches(kind) == CASE kind \in {"connect", "blind"} -> 2
                   [] kind \in {"pin", "attribute"} -> 1
                   [] OTHER -> 0

\* Apart from a merge, an edit changes the connections of the pins it names and
\* of no others: all other pins that stay are joined as they were, whatever is
\* pruned, renamed or redirected on the way.
OtherPinsKeepTheirNets ==
    [][last' # "merge" =>
         LET stay    == Pins(file) \intersect Pins(file')
             changed == {pq \in stay \X stay :
                            Joined(file, pq[1], pq[2]) # Joined(file', pq[1], pq[2])}
         IN  \E S \in SUBSET stay :
                /\ Cardinality(S) <= Touches(last')
                /\ \A pq \in changed : {pq[1], pq[2]} \intersect S # {}]_vars

\* The position block carries no orphan of an instance: every component key
\* belongs to a placed instance, unless a tool wrote the snapshot of a build
\* that an edit had overtaken (edit.rs, remove_instances and rename_instance).
PositionsFollowInstances == ~strayed => KeysHaveCalls(file)

\* edit.rs:2553, 2830 `.expect("Def state has a def")'.
DefStateHasADef == ~poisoned

=============================================================================
