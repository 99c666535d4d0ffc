------------------------------- MODULE Routing -------------------------------
(***************************************************************************)
(* The router of the drawing (crates/zen-build/src/route.rs): a wire for    *)
(* two pins, a trunk with taps for three or four, and the hops where wires  *)
(* of different nets cross.                                                 *)
(*                                                                          *)
(* Pure geometry on integers: a unit is 1/120 of the drawing's, which       *)
(* makes every constant of the code a whole number.  x grows to the right,  *)
(* y downward.  A terminal is a pin with its place and the direction its    *)
(* wire leaves in, an edge an axis-parallel segment, a chain a polyline     *)
(* between two pins or from a pin to the trunk.                             *)
(***************************************************************************)
EXTENDS Integers, Sequences, SequencesExt, FiniteSetsExt

STUB   == 24
HOP    == 18
MARGIN == 6
RouteMaxPorts == 4
RouteMaxSpan  == 720

\* The grid point nearest to s / 2, halves away from zero.
RoundHalf(s) == IF s >= 0 THEN 6 * ((s + 6) \div 12) ELSE -(6 * ((6 - s) \div 12))
RoundGrid(v) == RoundHalf(2 * v)

Exit(t) == <<t.pos[1] + STUB * t.dir[1], t.pos[2] + STUB * t.dir[2]>>

-----------------------------------------------------------------------------
(* Chains *)

\* From each point to the next, unless that is the same.
Leg(a, b) == IF a = b THEN <<>> ELSE <<[from |-> a, to |-> b, hop |-> FALSE]>>
EdgesOf(vs) == FlattenSeq([i \in 1..Len(vs) - 1 |-> Leg(vs[i], vs[i + 1])])

ChainThrough(a, b, mids) ==
    [edges |-> EdgesOf(<<a.pos, Exit(a)>> \o mids \o <<Exit(b), b.pos>>),
     ports |-> {a.pin, b.pin}]

\* A tap: from a pin to a point of the main chain.
Tap(t, at) == [edges |-> EdgesOf(<<t.pos, Exit(t), at>>), ports |-> {t.pin}]

\* Where two pins' wire bends: an L for a vertical exit, a channel past both
\* exits if they leave the same way, a straight or a Z if they face each other,
\* over the top if they are back to back.
Bends(a, b) ==
    LET ea == Exit(a)
        eb == Exit(b)
        vertical == a.dir[2] # 0 \/ b.dir[2] # 0
        facing   == a.dir[1] * (eb[1] - ea[1]) >= 0
        past  == IF a.dir[1] > 0 THEN RoundGrid(Max({ea[1], eb[1]}) + STUB)
                                 ELSE RoundGrid(Min({ea[1], eb[1]}) - STUB)
        mid   == RoundHalf(ea[1] + eb[1])
        above == RoundGrid(Min({ea[2], eb[2]}) - 4 * STUB)
    IN  CASE vertical -> << <<ea[1], eb[2]>> >>
          [] ~vertical /\ a.dir = b.dir -> << <<past, ea[2]>>, <<past, eb[2]>> >>
          [] ~vertical /\ a.dir # b.dir /\ facing /\ ea[2] = eb[2] -> <<>>
          [] ~vertical /\ a.dir # b.dir /\ facing /\ ea[2] # eb[2] ->
                << <<mid, ea[2]>>, <<mid, eb[2]>> >>
          [] OTHER -> << <<ea[1], above>>, <<eb[1], above>> >>

RoutePair(a, b) == ChainThrough(a, b, Bends(a, b))

\* Terminals in order, of equals the first as they come: by their exits from left to
\* right, or from the topmost down, of two on a level the left one first.
LeftOf(terms, i, j) ==
    LET x(k) == Exit(terms[k])[1]
    IN  x(i) < x(j) \/ (x(i) = x(j) /\ i < j)

Above(terms, i, j) ==
    LET x(k) == terms[k].pos[1]
        y(k) == terms[k].pos[2]
    IN  \/ y(i) < y(j)
        \/ y(i) = y(j) /\ (x(i) < x(j) \/ (x(i) = x(j) /\ i < j))

\* The n-th terminal in either order.
LeftNth(terms, n) ==
    CHOOSE i \in DOMAIN terms : Cardinality({j \in DOMAIN terms : LeftOf(terms, j, i)}) = n - 1
AboveNth(terms, n) ==
    CHOOSE i \in DOMAIN terms : Cardinality({j \in DOMAIN terms : Above(terms, j, i)}) = n - 1

\* The main chain joins the outermost two, every other pin is tapped in at its
\* foot; the junctions are there.
TrunkBetween(terms, first, last, mids, feet) ==
    LET inner == DOMAIN terms \ {first, last}
    IN  [main |-> {ChainThrough(terms[first], terms[last], mids)},
         taps |-> {Tap(terms[i], feet[i]) : i \in inner},
         junctions |-> {feet[i] : i \in inner},
         partial |-> FALSE]

\* All exits on one level: a trunk along it, between the outermost exits.
LevelTrunk(terms) ==
    TrunkBetween(terms, LeftNth(terms, 1), LeftNth(terms, Cardinality(DOMAIN terms)), <<>>,
                 [i \in DOMAIN terms |-> Exit(terms[i])])

\* A vertical trunk at the median of the exits, from the topmost pin to the
\* lowest.
VerticalTrunk(terms) ==
    LET n  == Cardinality(DOMAIN terms)
        xAt(k) == Exit(terms[LeftNth(terms, k)])[1]
        x  == RoundHalf(IF n % 2 = 1 THEN 2 * xAt(n \div 2 + 1)
                                     ELSE xAt(n \div 2) + xAt(n \div 2 + 1))
        first == AboveNth(terms, 1)
        last  == AboveNth(terms, n)
    IN  TrunkBetween(terms, first, last,
                     << <<x, Exit(terms[first])[2]>>, <<x, Exit(terms[last])[2]>> >>,
                     [i \in DOMAIN terms |-> <<x, Exit(terms[i])[2]>>])

RouteTrunk(terms) ==
    IF \A i, j \in DOMAIN terms : Exit(terms[i])[2] = Exit(terms[j])[2]
    THEN LevelTrunk(terms)
    ELSE VerticalTrunk(terms)

RouteNet(terms) ==
    IF Cardinality(DOMAIN terms) = 2
    THEN [main |-> {RoutePair(terms[Min(DOMAIN terms)], terms[Max(DOMAIN terms)])}, taps |-> {}, junctions |-> {},
          partial |-> FALSE]
    ELSE RouteTrunk(terms)

-----------------------------------------------------------------------------
(* Bodies *)

Low(e, i)  == Min({e.from[i], e.to[i]})
High(e, i) == Max({e.from[i], e.to[i]})
Edges(c)   == {c.edges[i] : i \in DOMAIN c.edges}

\* An edge enters a body, which is shrunk by a margin because pins sit on its
\* border.
Enters(e, body) ==
    \A i \in {1, 2} : /\ Low(e, i) < body.center[i] + body.size[i] \div 2 - MARGIN
                      /\ High(e, i) > body.center[i] - body.size[i] \div 2 + MARGIN

ChainClear(c, bodies) == \A e \in Edges(c), b \in bodies : ~Enters(e, b)

-----------------------------------------------------------------------------
(* Crossings *)

\* Where two edges cross inside both.
Level(e) == e.from[2] = e.to[2]
Meeting(h, v) == <<v.from[1], h.from[2]>>
Meets(h, v) == /\ Low(h, 1) < v.from[1] /\ v.from[1] < High(h, 1)
               /\ Low(v, 2) < h.from[2] /\ h.from[2] < High(v, 2)
Crossings(e, others) ==
    IF Level(e) THEN {Meeting(e, o) : o \in {x \in others : ~Level(x) /\ Meets(e, x)}}
                ELSE {Meeting(o, e) : o \in {x \in others : Level(x) /\ Meets(x, e)}}

\* Mutant of Sign: f64::signum, which has no zero.
Signum(d) == IF d < 0 THEN -1 ELSE 1

Sign(d) == IF d = 0 THEN 0 ELSE IF d < 0 THEN -1 ELSE 1

\* Places on an edge by their distance from where it starts.
Ahead(e)  == <<Sign(e.to[1] - e.from[1]), Sign(e.to[2] - e.from[2])>>
Length(e) == High(e, 1) - Low(e, 1) + High(e, 2) - Low(e, 2)
Along(e, p) == (p[1] - e.from[1]) * Ahead(e)[1] + (p[2] - e.from[2]) * Ahead(e)[2]
Piece(e, a, b, hop) ==
    LET at(d) == <<e.from[1] + d * Ahead(e)[1], e.from[2] + d * Ahead(e)[2]>>
    IN  [from |-> at(a), to |-> at(b), hop |-> hop]

\* A hop at a cut, but for one too near to an end or to the hop before it.
Cut(e, s, d) ==
    LET h == HOP \div 2
    IN  IF d - h <= s.cursor \/ d + h >= Length(e) THEN s
        ELSE [out |-> s.out \o <<Piece(e, s.cursor, d - h, FALSE), Piece(e, d - h, d + h, TRUE)>>,
              cursor |-> d + h]

\* An edge becomes pieces with hops between them; the cuts from its start on.
CutUp(e, ds) ==
    MapThenFoldSet(LAMBDA d, s : Cut(e, s, d), [out |-> <<>>, cursor |-> 0], LAMBDA d : d, Max, ds)

SplitEdge(e, cuts) ==
    LET s == CutUp(e, {Along(e, p) : p \in cuts})
    IN  IF s.cursor < Length(e)
        THEN Append(s.out, [Piece(e, s.cursor, Length(e), FALSE) EXCEPT !.to = e.to])
        ELSE s.out

\* A chain over wires that were there before it.
Hopping(c, others) ==
    LET hopped(e) == IF Crossings(e, others) = {} THEN <<e>> ELSE SplitEdge(e, Crossings(e, others))
    IN  [c EXCEPT !.edges = FlattenSeq([i \in DOMAIN c.edges |-> hopped(c.edges[i])])]

=============================================================================
