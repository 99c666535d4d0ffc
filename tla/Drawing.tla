------------------------------- MODULE Drawing -------------------------------
(***************************************************************************)
(* A board's drawing over its edits: where the parts stand, what is wired   *)
(* and what is labelled (crates/zen-build/src/layout.rs, positions.rs,      *)
(* route.rs, circuit_json.rs) and what the layout check makes of it         *)
(* (layout_check.rs).                                                       *)
(*                                                                          *)
(* A part's position is in the file or not.  The file's positions count     *)
(* only when every part has one; otherwise the packer places them all.  So  *)
(* every move is a save-all: it writes the places of all the others too,    *)
(* as they are drawn.  The packer's geometry is a choice among Packings,    *)
(* made anew whenever the board changes.                                    *)
(***************************************************************************)
EXTENDS RailLayout, Routing

CONSTANTS
    Boards,     \* the boards there are to begin with: their parts, nets and positions
    Packings,   \* what the packer may do: places of the parts, boxes of the modules
    Spots,      \* where parts are dragged to
    NetOrder,   \* the nets in the order of their names
    ChipWidth, LabelNear, LabelLen, LabelHeight,   \* a label without the check's margin
    MaxEdits

Places  == Int \X Int
Rects   == [lo : Places, hi : Places]
Orients == {"right", "up", "left", "down"}
Positions == [at : Places, rot : Orients]

ASSUME GeometryAssumption ==
    /\ Packings \subseteq [at : [Comps -> Places], box : [Modules \ {"root"} -> Rects]]
    /\ Spots \subseteq Places
    /\ Boards \subseteq [parts : SUBSET Comps, net : [Pins -> Nets \union {None}],
                        authored : [Comps -> Positions \union {None}], packed : Packings]
    /\ None \notin Positions
    /\ NetOrder \in Seq(Nets) /\ \A n \in Nets : \E i \in DOMAIN NetOrder : NetOrder[i] = n
    /\ \A i, j \in DOMAIN NetOrder : i # j => NetOrder[i] # NetOrder[j]
    /\ {ChipWidth, LabelNear, LabelHeight, MaxEdits} \subseteq Nat /\ LabelLen \in [Nets -> Nat]

VARIABLES
    packed,     \* the packer's choice for the board as it is
    authored,   \* per part: the position the file holds, or None
    edits       \* how many edits there have been

vars == <<parts, net, packed, authored, edits>>

Turned == [right |-> "up", up |-> "left", left |-> "down", down |-> "right"]

TypeOK ==
    /\ parts \subseteq Comps
    /\ net \in [Pins -> Nets \union {None}]
    /\ packed \in Packings
    /\ authored \in [Comps -> Positions \union {None}]
    /\ edits \in 0..MaxEdits

-----------------------------------------------------------------------------
(* compute_layout *)

AllAuthored  == parts # {} /\ \A c \in parts : authored[c] # None
NoneAuthored == \A c \in parts : authored[c] = None

Center(c) == IF AllAuthored THEN authored[c].at ELSE packed.at[c]
Look(c) == IF c \notin Symbolic THEN "chip" ELSE IF AllAuthored THEN authored[c].rot ELSE Upright(c)

Stubs == IF AllAuthored THEN AuthoredStubs ELSE DerivedStubs
Boxes == IF AllAuthored THEN AuthoredBoxes ELSE DerivedBoxes

\* The box symbol of a resistor, and where its first pin is; the second is
\* opposite.
SymbolSize(look) == IF look \in {"right", "left"} THEN <<72, 78>> ELSE <<108, 72>>
FirstPin == [right |-> <<-36, 0>>, left |-> <<36, 0>>, down |-> <<0, -36>>, up |-> <<0, 36>>]

\* A chip's pins: the first half on its left edge, evenly spaced.
LeftCount(c) == (Len(PinNames[c]) + 1) \div 2
ChipSize(c) == <<ChipWidth, Max({72, 24 * LeftCount(c) + 48})>>

ChipPin(c, i) ==
    LET left == LeftCount(c)
        row  == IF i <= left THEN i ELSE i - left
        rows == IF i <= left THEN left ELSE Len(PinNames[c]) - left
        edge == ChipWidth \div 2
    IN  <<IF i <= left THEN -edge ELSE edge,
          (ChipSize(c)[2] * row) \div (rows + 1) - ChipSize(c)[2] \div 2>>

Size(c) == IF Look(c) = "chip" THEN ChipSize(c) ELSE SymbolSize(Look(c))

PinOffset(c, i) ==
    IF Look(c) = "chip" THEN ChipPin(c, i)
    ELSE LET first == FirstPin[Look(c)]
         IN  IF i = 1 THEN first ELSE <<-first[1], -first[2]>>

\* A pin leaves its part on the side it is nearest to.
Direction(c, i) ==
    LET at == PinOffset(c, i)
        level == Look(c) = "chip" \/ at[2] = 0
    IN  IF level THEN <<IF at[1] <= 0 THEN -1 ELSE 1, 0>> ELSE <<0, IF at[2] < 0 THEN -1 ELSE 1>>

Terminal(p) ==
    LET c  == p[1]
        i  == CHOOSE k \in DOMAIN PinNames[c] : PinNames[c][k] = p[2]
        at == PinOffset(c, i)
    IN  [pin |-> p, pos |-> <<Center(c)[1] + at[1], Center(c)[2] + at[2]>>, dir |-> Direction(c, i)]

Bodies == {[center |-> Center(c), size |-> Size(c)] : c \in parts}

-----------------------------------------------------------------------------
(* route_nets *)

Terms(n) == [i \in DOMAIN Ports(n) |-> Terminal(Ports(n)[i])]

Span(S) == Max(S) - Min(S)
ShouldRoute(n, terms) ==
    LET along(i) == {terms[k].pos[i] : k \in DOMAIN terms}
    IN  /\ Kind[n] \notin {"Power", "Ground"}
        /\ Cardinality(DOMAIN terms) \in 2..RouteMaxPorts
        /\ \A i \in {1, 2} : Span(along(i)) <= RouteMaxSpan

StubWires(n) ==
    {RoutePair(Terminal(s[1]), Terminal(s[2])) : s \in {t \in Stubs : net[t[1]] = n}}

Chains(route) == route.main \union route.taps

\* A wire through a body is not drawn: a net that is all wires goes back to
\* labels as a whole, a net of stubs loses the stub.
Partly(S) == [main |-> {}, taps |-> {c \in S : ChainClear(c, Bodies)}, junctions |-> {},
              partial |-> TRUE]
Wholly(route) == IF \A c \in Chains(route) : ChainClear(c, Bodies) THEN route ELSE Partly({})

Unhopped(n) ==
    LET terms == Terms(n)
    IN  IF ShouldRoute(n, terms) THEN Wholly(RouteNet(terms)) ELSE Partly(StubWires(n))

Hopped(wires) ==
    LET edges(n) == UNION {Edges(c) : c \in Chains(wires[n])}
        rank(n)  == CHOOSE i \in DOMAIN NetOrder : NetOrder[i] = n
        before(n) == UNION {edges(m) : m \in {x \in Nets : rank(x) < rank(n)}}
    IN  [n \in Nets |-> [wires[n] EXCEPT !.main = {Hopping(c, before(n)) : c \in @},
                                         !.taps = {Hopping(c, before(n)) : c \in @}]]

Routes == Hopped([n \in Nets |-> Unhopped(n)])

-----------------------------------------------------------------------------
(* Net labels, of circuit_json.rs *)

PortSet(n) == {Ports(n)[i] : i \in DOMAIN Ports(n)}

\* Mutant of Covered: a stub counts whether or not it was drawn.
CoveredByStub(n, route) == UNION {c.ports : c \in StubWires(n)}

Covered(n, route) == UNION {c.ports : c \in route.taps}

Labelled(n, route) == IF route.partial THEN PortSet(n) \ Covered(n, route) ELSE {}

-----------------------------------------------------------------------------
(* find_empty_space *)

Around(center, size) ==
    [lo |-> <<center[1] - size[1] \div 2, center[2] - size[2] \div 2>>,
     hi |-> <<center[1] + size[1] \div 2, center[2] + size[2] \div 2>>]

Overlap(a, b) == \A i \in {1, 2} : a.lo[i] < b.hi[i] /\ b.lo[i] < a.hi[i]
Padded(r, pad) == [lo |-> <<r.lo[1] - pad, r.lo[2] - pad>>, hi |-> <<r.hi[1] + pad, r.hi[2] + pad>>]
Bounds(S) == [lo |-> <<Min({r.lo[1] : r \in S}), Min({r.lo[2] : r \in S})>>,
              hi |-> <<Max({r.hi[1] : r \in S}), Max({r.hi[2] : r \in S})>>]

BodyRect(c) == Around(Center(c), Size(c))

\* A box around what a module holds, with room for its title.
BoxRect(m) ==
    IF ~AllAuthored THEN packed.box[m]
    ELSE LET b == Bounds({BodyRect(c) : c \in Holds(m)})
         IN  [lo |-> <<b.lo[1] - 60, b.lo[2] - 96>>, hi |-> <<b.hi[1] + 60, b.hi[2] + 60>>]

LabelRect(n, t) ==
    LET far == LabelNear + LabelLen[n]
        \* a level label lies along its pin's wire, an upright one across it
        span(i) == IF t.dir[i] = 0
                   THEN LET half == (IF i = 2 THEN LabelHeight ELSE LabelLen[n]) \div 2
                        IN  {t.pos[i] - half, t.pos[i] + half}
                   ELSE {t.pos[i] + t.dir[i] * LabelNear,
                         t.pos[i] + t.dir[i] * (IF i = 1 THEN far ELSE LabelNear + LabelHeight)}
    IN  [lo |-> <<Min(span(1)), Min(span(2))>>, hi |-> <<Max(span(1)), Max(span(2))>>]

\* The check counts the labels of nets that have no wire at all.
SeenLabels(routes) ==
    UNION {{LabelRect(n, Terminal(p)) : p \in PortSet(n)} :
              n \in {x \in Nets : Chains(routes[x]) = {}}}

Obstacles ==
    {BodyRect(c) : c \in parts} \union {BoxRect(m) : m \in Boxes} \union SeenLabels(Routes)

Axis(dir) == IF dir \in {"left", "right"} THEN 1 ELSE 2
Backward(dir) == dir \in {"left", "top"}

\* Past an obstacle, never back.
Push(r, o, dir, pad) ==
    LET i    == Axis(dir)
        size == r.hi[i] - r.lo[i]
        lo   == IF Backward(dir) THEN Min({o.lo[i] - pad - size, r.lo[i]})
                                 ELSE Max({o.hi[i] + pad, r.lo[i]})
    IN  [lo |-> [r.lo EXCEPT ![i] = lo], hi |-> [r.hi EXCEPT ![i] = lo + size]]

\* Mutant of Nearer: the same order whichever way the sweep goes.
NearerTopLeft(a, b, dir) == a.lo[Axis(dir)] < b.lo[Axis(dir)]

Nearer(a, b, dir) ==
    IF Backward(dir) THEN a.lo[Axis(dir)] > b.lo[Axis(dir)] ELSE a.lo[Axis(dir)] < b.lo[Axis(dir)]

\* Beside the anchor, then past every obstacle that is in the way, in the order
\* of the sweep.  No anchor is the whole drawing.
EmptySpace(size, dir, pad, anchor, obstacles) ==
    LET holds == IF anchor = None THEN obstacles
                 ELSE {BodyRect(c) : c \in Holds(anchor)}
                        \union (IF anchor \in Boxes THEN {BoxRect(anchor)} ELSE {})
        ab    == Bounds(holds)
        start == [lo |-> ab.lo, hi |-> <<ab.lo[1] + size[1], ab.lo[2] + size[2]>>]
    IN  MapThenFoldSet(LAMBDA o, r : IF Overlap(r, Padded(o, pad)) THEN Push(r, o, dir, pad) ELSE r,
                       Push(start, ab, dir, pad), LAMBDA o : o,
                       LAMBDA S : CHOOSE o \in S : \A x \in S : ~Nearer(o, x, dir), obstacles)

-----------------------------------------------------------------------------
(* Edits *)

\* The packer runs only for a board that is not wholly placed in the file.
Repacked == IF AllAuthored' THEN packed' = packed ELSE packed' \in Packings

\* merge_positions: a moved part takes its new place, any other keeps its own
\* or gets the one it is drawn at.
Merged(moved, at, turn) ==
    [c \in Comps |->
        LET rot == IF authored[c] # None THEN authored[c].rot ELSE DerivedRotation(c)
        IN  CASE c \in moved -> [at |-> at, rot |-> IF turn THEN Turned[rot] ELSE rot]
              [] c \in parts \ moved /\ authored[c] = None -> [at |-> Center(c), rot |-> rot]
              [] OTHER -> authored[c]]

Edited == edits < MaxEdits /\ edits' = edits + 1

SavePositions(c, at, turn) ==
    /\ Edited
    /\ authored' = Merged({c}, at, turn)
    /\ UNCHANGED <<parts, net, packed>>

Move(c, at) == at # Center(c) /\ SavePositions(c, at, FALSE)

Rotate(c) == SavePositions(c, Center(c), TRUE)

\* add_instance with a place: a save-all, if there is a build to take it from.
Place(c, at, built) ==
    /\ Edited
    /\ parts' = parts \union {c}
    /\ authored' = [(IF built THEN Merged({}, at, FALSE) ELSE authored)
                        EXCEPT ![c] = [at |-> at, rot |-> "right"]]
    /\ UNCHANGED net /\ Repacked

\* The agent writes a part into the program: the board is packed again.
AddUnplaced(c) ==
    /\ Edited
    /\ parts' = parts \union {c}
    /\ UNCHANGED <<net, authored>> /\ Repacked

RemoveInstance(c) ==
    /\ Edited
    /\ parts' = parts \ {c}
    /\ authored' = [authored EXCEPT ![c] = None]
    /\ UNCHANGED net /\ Repacked

\* A pin is wired to another net.
Rewire(p, n) ==
    /\ Edited /\ p[1] \in parts /\ net[p] # n
    /\ net' = [net EXCEPT ![p] = n]
    /\ UNCHANGED <<parts, authored>> /\ Repacked

Init ==
    /\ \E b \in Boards : /\ parts = b.parts /\ net = b.net
                         /\ authored = b.authored /\ packed = b.packed
    /\ edits = 0

Next ==
    \/ \E c \in parts : Rotate(c) \/ RemoveInstance(c) \/ \E at \in Spots : Move(c, at)
    \/ \E c \in Comps \ parts :
          AddUnplaced(c) \/ \E at \in Spots, built \in BOOLEAN : Place(c, at, built)
    \/ \E p \in Pins, n \in Nets : Rewire(p, n)

Spec == Init /\ [][Next]_vars

-----------------------------------------------------------------------------
(* Properties *)

\* "A save-all must not change the drawing" (tests/demo_build.rs:176): the first
\* move hands the board from the packer to the file, and later ones write every
\* place again.  Nothing but the part that moved may look or stand different, and
\* no stub or box come or go, on a board both paths see the same and that is placed
\* wholly or not at all.
MovesKeepTheDrawing ==
    [][ (authored' # authored /\ parts' = parts /\ net' = net /\ Uniform /\ (AllAuthored \/ NoneAuthored)) =>
          LET gone   == {c \in parts : Center(c)' # Center(c)}
              turned == {c \in parts : Look(c)' # Look(c)}
          IN  /\ Cardinality(gone \union turned) <= 1 /\ gone \intersect turned = {}
              /\ Stubs' = Stubs /\ Boxes' = Boxes ]_vars

OnChain(at, c) ==
    \E e \in Edges(c) : \A i \in {1, 2} : Low(e, i) <= at[i] /\ at[i] <= High(e, i)

IsDrawn(n, route) ==
    \A p \in PortSet(n) \ Labelled(n, route) :
        \/ \E c \in Chains(route) : p \in c.ports /\ c.ports \ {p} # {}
        \/ \E tap \in route.taps, c \in route.main :
              p \in tap.ports /\ OnChain(Last(tap.edges).to, c)

\* Whatever is dropped and covered, no pin is left without a sign of its net: it has
\* its label, or a wire that reaches another pin of the net (circuit_json.rs:554-600,
\* route.rs:100-140).  The trunk of a net with an upright exit may miss a tap, so
\* such nets are left out.
EveryPinIsDrawn ==
    LET routes == Routes
    IN  \A n \in Nets :
            (\A p \in PortSet(n) : Terminal(p).dir[2] = 0) => IsDrawn(n, routes[n])

WireIsDrawable(c, places, bodies) ==
    LET es == c.edges
    IN  /\ \A i \in DOMAIN es : (es[i].from[1] = es[i].to[1]) # (es[i].from[2] = es[i].to[2])
        /\ \A i \in 1..Len(es) - 1 : es[i].to = es[i + 1].from
        /\ Head(es).from \in places
        /\ Cardinality(c.ports) = 2 => Last(es).to \in places
        /\ ChainClear(c, bodies)

CrossingIsHopped(e, o) ==
    (~e.hop /\ ~o.hop /\ Crossings(e, {o}) # {}) =>
        \E at \in Crossings(e, {o}), i \in {1, 2} : \E end \in {e.from[i], e.to[i]} :
            Level(e) = (i = 1) /\ end - at[i] \in -HOP..HOP

AreDrawable(wires, bodies) ==
    /\ \A n \in Nets : \A c \in wires[n] :
          WireIsDrawable(c, {Terminal(p).pos : p \in c.ports}, bodies)
    /\ \A i, j \in DOMAIN NetOrder : i < j =>
          \A c \in wires[NetOrder[j]], d \in wires[NetOrder[i]] :
              \A e \in Edges(c), o \in Edges(d) : CrossingIsHopped(e, o)

\* What the renderer and the reader count on (docs/decisions/0001, route.rs:12-16):
\* a wire is one polyline of level and upright pieces from its pin to its end, keeps
\* off every body after the hops are cut in, and a wire of a later net crosses one of
\* an earlier net with a hop, unless a corner or another hop is too close.
WiresAreDrawable ==
    LET routes == Routes
    IN  AreDrawable([n \in Nets |-> Chains(routes[n])], Bodies)

IsFree(room, obstacles) == \A o \in obstacles : ~Overlap(room, Padded(o, 24))
SpaceIsFree(obstacles) ==
    \A dir \in {"top", "bottom", "left", "right"}, size \in {<<240, 120>>},
       anchor \in {None} \union parts \union Boxes :
        IsFree(EmptySpace(size, dir, 24, anchor, obstacles), obstacles)

\* The tool that looks for room promises a spot "padding away from everything"
\* (layout_check.rs:338): one sweep past the obstacles, each looked at once, ends
\* clear of those it passed before, from every anchor in every direction.  The labels
\* a net of stubs keeps are no obstacles to it, and are left out.
FoundSpaceIsFree == SpaceIsFree(Obstacles)

=============================================================================
