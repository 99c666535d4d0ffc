------------------------------ MODULE RailLayout ------------------------------
(***************************************************************************)
(* What the layout makes of a board before any geometry                     *)
(* (crates/zen-build/src/layout.rs): wrapper modules that are drawn as the  *)
(* component they hold, passives that hang off the power rails, and the     *)
(* short wires, the stubs, that attach such a passive to the pin it serves. *)
(*                                                                          *)
(* The code decides this twice: size_node and pack_by_connectivity for a    *)
(* board it has to place itself, rail_kids_of for one whose positions are   *)
(* all written in the file.                                                 *)
(***************************************************************************)
EXTENDS Naturals, Sequences, FiniteSets, FiniteSetsExt, Functions

CONSTANTS
    Comps,      \* components
    Tree,       \* per module, "root" among them: its children in drawing order
    PinNames,   \* per component: its pins, those of the left edge first
    Symbolic,   \* components with a symbol of their own; the rest are boxes
    PortOrder,  \* all pins, as a net lists them
    Kind,       \* per net: "Net", "Power" or "Ground"
    None

VARIABLES
    parts,      \* the components there are
    net         \* per pin: its net, or None

Modules == DOMAIN Tree
Nodes == Comps \union Modules
Nets == DOMAIN Kind
Pins == {PortOrder[i] : i \in DOMAIN PortOrder}

\* No module is in or under itself.
ASSUME TreeAssumption ==
    /\ "root" \in Modules /\ Comps \intersect Modules = {} /\ IsFiniteSet(Nodes)
    /\ \A m \in Modules : Tree[m] \in Seq(Nodes \ {"root"})
    /\ \E depth \in [Modules -> 0..Cardinality(Modules)] :
          \A m \in Modules : \A i \in DOMAIN Tree[m] :
              Tree[m][i] \in Modules => depth[Tree[m][i]] < depth[m]

\* Every pin is one of its component's, on the list once, and nothing is called None.
ASSUME PinsAssumption ==
    /\ PinNames \in [Comps -> Seq(STRING)] /\ PortOrder \in Seq(Comps \X STRING)
    /\ \A c \in Comps : \A i \in DOMAIN PinNames[c] : <<c, PinNames[c][i]>> \in Pins
    /\ \A p \in Pins : \E i \in DOMAIN PinNames[p[1]] : PinNames[p[1]][i] = p[2]
    /\ \A i, j \in DOMAIN PortOrder : i # j => PortOrder[i] # PortOrder[j]
    /\ None \notin Nets /\ None \notin Nodes /\ None \notin Pins

\* The components in or under a node; a module that holds none is gone from the
\* program.
Under[n \in Nodes] == IF n \in Comps THEN {n} ELSE UNION {Under[Tree[n][i]] : i \in DOMAIN Tree[n]}

\* Siblings share no component.
ASSUME SiblingsAssumption ==
    \A m \in Modules : \A i, j \in DOMAIN Tree[m] :
        i # j => Under[Tree[m][i]] \intersect Under[Tree[m][j]] = {}

Holds(n) == Under[n] \intersect parts

\* The first that passes a test.
FirstOf(s, Test(_)) ==
    LET those == {i \in DOMAIN s : Test(s[i])} IN IF those = {} THEN None ELSE s[Min(those)]

Drawable(n) == Holds(n) # {}
Children(m) == RestrictValues(Tree[m], Drawable)

IsPort(p, n) == p[1] \in parts /\ net[p] = n
Ports(n) == RestrictValues(PortOrder, LAMBDA p : IsPort(p, n))

KindOf(p) == IF net[p] = None THEN "none" ELSE Kind[net[p]]

-----------------------------------------------------------------------------
(* Rail idioms *)

\* A component of two pins by what they touch.
RailRole(c) ==
    LET kinds == {KindOf(<<c, PinNames[c][i]>>) : i \in {1, 2}}
    IN  IF Len(PinNames[c]) # 2 \/ kinds \intersect {"Power", "Ground"} = {} THEN "flow"
        ELSE IF {"Power", "Ground"} \subseteq kinds THEN "decoupler"
        ELSE IF "Power" \in kinds THEN "pullup" ELSE "pulldown"

IsRail(role) == role \in {"pullup", "pulldown"}

\* A passive stands with its rail pin towards its rail.
Upright(c) ==
    LET first == KindOf(<<c, PinNames[c][1]>>)
    IN  CASE RailRole(c) \in {"pullup", "decoupler"} -> IF first = "Power" THEN "down" ELSE "up"
          [] RailRole(c) = "pulldown" -> IF first # "Ground" THEN "down" ELSE "up"
          [] OTHER -> "right"

\* Mutant of DerivedRotation: rail passives are saved lying.
AlwaysFlat(c) == "right"

\* What a save-all records for a component that has no position.
DerivedRotation(c) ==
    IF RailRole(c) # "flow" /\ c \notin Symbolic THEN "right" ELSE Upright(c)

\* The pin a passive serves with.
SignalPin(c) ==
    FirstOf([i \in DOMAIN PinNames[c] |-> <<c, PinNames[c][i]>>],
            LAMBDA p : KindOf(p) \notin {"Power", "Ground"})
SignalNet(k) == IF k \in Modules \/ SignalPin(k) = None THEN None ELSE net[SignalPin(k)]

-----------------------------------------------------------------------------
(* The children of a module, as either path sees them *)

\* size_node: a module of one child that is, or becomes, a component becomes it,
\* so one that holds a single component however deep.
Hoisted(n) ==
    IF n \in Modules /\ Cardinality(Holds(n)) = 1 THEN CHOOSE c \in Holds(n) : TRUE ELSE n

\* rail_kids_of: a module of one child that is a component.
Unwrapped(n) ==
    LET child == FirstOf(Tree[n], Drawable)
    IN  IF n \in Modules /\ Cardinality(DOMAIN Children(n)) = 1 /\ child \in Comps THEN child ELSE n

Each(s, F(_)) == [i \in DOMAIN s |-> F(s[i])]
DerivedKids(m)  == Each(Children(m), Hoisted)
AuthoredKids(m) == Each(Children(m), Unwrapped)

\* The derived path packs a passive without a symbol with the flow.
DerivedRole ==
    [k \in Nodes |-> IF k \in Modules \/ k \notin Symbolic THEN "flow" ELSE RailRole(k)]
AuthoredRole == [k \in Nodes |-> IF k \in Modules THEN "flow" ELSE RailRole(k)]

-----------------------------------------------------------------------------
(* Who serves whom: rail_partition, partition_stubs *)

Owner(kids, p) == FirstOf(kids, LAMBDA k : p[1] \in Holds(k))

\* The first sibling on the passive's signal net of one of the roles.
Partner(kids, role, k, roles) ==
    LET serves(p) == LET o == Owner(kids, p)
                     IN  IsPort(p, SignalNet(k)) /\ o # None /\ o # k /\ role[o] \in roles
    IN  IF SignalNet(k) = None THEN None
        ELSE LET p == FirstOf(PortOrder, serves)
             IN  IF p = None THEN None ELSE Owner(kids, p)

Attached(kids, role) ==
    LET partner == [i \in DOMAIN kids |->
                      IF IsRail(role[kids[i]]) THEN Partner(kids, role, kids[i], {"flow"}) ELSE None]
    IN  {<<kids[i], partner[i]>> : i \in {j \in DOMAIN kids : partner[j] # None}}

\* A pull-up and a pull-down that nothing else holds make a divider; of two
\* pull-ups with one partner the first gets it.
Fused(kids, role, attached) ==
    LET loose(k, r) == role[k] = r /\ k \notin attached
        partner == [i \in DOMAIN kids |->
                      IF loose(kids[i], "pullup")
                      THEN Partner(kids, role, kids[i], {"pullup", "pulldown"}) ELSE None]
        divides(i) == partner[i] # None /\ loose(partner[i], "pulldown")
    IN  {<<kids[i], partner[i]>> :
            i \in {j \in DOMAIN kids :
                     divides(j) /\ \A h \in DOMAIN kids : h < j => partner[h] # partner[j]}}

\* An attached passive is wired to the first pin its partner has on the net.
Served(k, p) ==
    FirstOf(PortOrder, LAMBDA q : IsPort(q, SignalNet(k)) /\ q[1] # k /\ q[1] \in Holds(p))

StubsOf(kids, role) ==
    LET attached == Attached(kids, role)
    IN  {<<SignalPin(a[1]), Served(a[1], a[2])>> : a \in attached}
            \union {<<SignalPin(f[1]), SignalPin(f[2])>> :
                       f \in Fused(kids, role, {a[1] : a \in attached})}

\* A hoisted module has no packing of its own.
DerivedStubs ==
    UNION {StubsOf(kids, DerivedRole) : kids \in {DerivedKids(m) : m \in {x \in Modules : Hoisted(x) = x}}}

AuthoredStubs ==
    UNION {StubsOf(kids, AuthoredRole) : kids \in {AuthoredKids(m) : m \in Modules}}

\* The modules drawn as boxes.
DerivedBoxes  == {m \in Modules \ {"root"} : Hoisted(m) = m /\ Holds(m) # {}}
AuthoredBoxes == {m \in Modules \ {"root"} : Unwrapped(m) = m /\ Holds(m) # {}}

\* Both paths see the same: every rail passive has a symbol, and no module only
\* wraps another.
Uniform ==
    /\ \A c \in parts : RailRole(c) = "flow" \/ c \in Symbolic
    /\ \A m \in Modules \ {"root"} : Hoisted(m) = Unwrapped(m)

=============================================================================
