---------------------------- MODULE NetEditProofs ----------------------------
(***************************************************************************)
(* Theorems about the structured edits of a .zen file, for any file that is *)
(* whole to begin with, any modules, names and scopes, and any number of    *)
(* edits; TLC explores three edits of small boards.                         *)
(***************************************************************************)
EXTENDS NetEdit, FiniteSetTheorems, TLAPS

--------------------------------------------------------------------------------
(* Arguments *)

LEMMA Arguments ==
    /\ \A v \in Vars : Var(v) \in Exprs
    /\ \A n \in Names : Lit(n) \in Exprs
    /\ Str \in Exprs /\ NoArg \in Exprs
    /\ \A e \in Exprs : e.k = "var" => e.x \in Vars /\ e = Var(e.x)
    /\ \A e \in Exprs : e.k = "lit" => e.x \in Names
  BY DEF Exprs, Var, Lit, Str, NoArg

LEMMA KindsOfArgument ==
    /\ \A v : Var(v).k = "var" /\ Var(v).x = v
    /\ \A n : Lit(n).k = "lit" /\ Lit(n).x = n
    /\ Str.k = "str" /\ NoArg.k = "none"
  BY DEF Var, Lit, Str, NoArg

LEMMA VarsAreNoLiterals ==
    /\ \A v, n : Var(v) # Lit(n)
    /\ \A v : Var(v) # Str /\ Var(v) # NoArg
    /\ \A v, w : Var(v) = Var(w) => v = w
  BY DEF Var, Lit, Str, NoArg

LEMMA NoneIsOther == None \notin Names /\ None \notin Modules /\ None \notin Vars
  BY NoneAssumption

LEMMA PortsAreKeys == Ports \subseteq Keys /\ Attrs \subseteq Keys /\ Ports \subseteq PinNames
  BY PinAssumption DEF Keys

--------------------------------------------------------------------------------
(* Files, field by field *)

LEMMA FieldsOfFile ==
  ASSUME NEW f \in Files
  PROVE  /\ f.net \in [Vars -> Names \union {None}]
         /\ f.named \subseteq Vars
         /\ f.mod \in [Insts -> Modules \union {None}]
         /\ f.args \in [Insts -> [Keys -> Exprs]]
         /\ f.above \subseteq (Vars \union Insts) \X Insts
         /\ f.binds \subseteq Modules
         /\ f.uses \subseteq Vars
         /\ f.keys \subseteq (Insts \union Names) \X {"comp", "sym"}
  BY DEF Files

\* The same arguments for the same calls, and the same other uses
Alike(f, g) == g.mod = f.mod /\ g.args = f.args /\ g.uses = f.uses

\* One field changed, the others kept
LEMMA NetChange ==
  ASSUME NEW f \in Files, NEW x \in [Vars -> Names \union {None}]
  PROVE  LET g == [f EXCEPT !.net = x]
         IN  /\ g \in Files /\ g.net = x
             /\ g.named = f.named /\ g.mod = f.mod /\ g.args = f.args /\ g.above = f.above
             /\ g.binds = f.binds /\ g.uses = f.uses /\ g.keys = f.keys
  BY DEF Files

LEMMA NamedChange ==
  ASSUME NEW f \in Files, NEW x \in SUBSET Vars
  PROVE  LET g == [f EXCEPT !.named = x]
         IN  /\ g \in Files /\ g.named = x
             /\ g.net = f.net /\ g.mod = f.mod /\ g.args = f.args /\ g.above = f.above
             /\ g.binds = f.binds /\ g.uses = f.uses /\ g.keys = f.keys
  BY DEF Files

LEMMA ModChange ==
  ASSUME NEW f \in Files, NEW x \in [Insts -> Modules \union {None}]
  PROVE  LET g == [f EXCEPT !.mod = x]
         IN  /\ g \in Files /\ g.mod = x
             /\ g.net = f.net /\ g.named = f.named /\ g.args = f.args /\ g.above = f.above
             /\ g.binds = f.binds /\ g.uses = f.uses /\ g.keys = f.keys
  BY DEF Files

LEMMA ArgsChange ==
  ASSUME NEW f \in Files, NEW x \in [Insts -> [Keys -> Exprs]]
  PROVE  LET g == [f EXCEPT !.args = x]
         IN  /\ g \in Files /\ g.args = x
             /\ g.net = f.net /\ g.named = f.named /\ g.mod = f.mod /\ g.above = f.above
             /\ g.binds = f.binds /\ g.uses = f.uses /\ g.keys = f.keys
  BY DEF Files

LEMMA AboveChange ==
  ASSUME NEW f \in Files, NEW x \in SUBSET ((Vars \union Insts) \X Insts)
  PROVE  LET g == [f EXCEPT !.above = x]
         IN  /\ g \in Files /\ g.above = x
             /\ g.net = f.net /\ g.named = f.named /\ g.mod = f.mod /\ g.args = f.args
             /\ g.binds = f.binds /\ g.uses = f.uses /\ g.keys = f.keys
  BY DEF Files

LEMMA BindsChange ==
  ASSUME NEW f \in Files, NEW x \in SUBSET Modules
  PROVE  LET g == [f EXCEPT !.binds = x]
         IN  /\ g \in Files /\ g.binds = x
             /\ g.net = f.net /\ g.named = f.named /\ g.mod = f.mod /\ g.args = f.args
             /\ g.above = f.above /\ g.uses = f.uses /\ g.keys = f.keys
  BY DEF Files

LEMMA UsesChange ==
  ASSUME NEW f \in Files, NEW x \in SUBSET Vars
  PROVE  LET g == [f EXCEPT !.uses = x]
         IN  /\ g \in Files /\ g.uses = x
             /\ g.net = f.net /\ g.named = f.named /\ g.mod = f.mod /\ g.args = f.args
             /\ g.above = f.above /\ g.binds = f.binds /\ g.keys = f.keys
  BY DEF Files

LEMMA KeysChange ==
  ASSUME NEW f \in Files, NEW x \in SUBSET ((Insts \union Names) \X {"comp", "sym"})
  PROVE  LET g == [f EXCEPT !.keys = x]
         IN  /\ g \in Files /\ g.keys = x
             /\ g.net = f.net /\ g.named = f.named /\ g.mod = f.mod /\ g.args = f.args
             /\ g.above = f.above /\ g.binds = f.binds /\ g.uses = f.uses
  BY DEF Files

LEMMA SetArgShape ==
  ASSUME NEW f \in Files, NEW i \in Insts, NEW a \in Keys, NEW e \in Exprs
  PROVE  /\ SetArg(f, i, a, e) \in Files
         /\ SetArg(f, i, a, e).net = f.net
         /\ SetArg(f, i, a, e).named = f.named
         /\ SetArg(f, i, a, e).mod = f.mod
         /\ SetArg(f, i, a, e).uses = f.uses
         /\ SetArg(f, i, a, e).keys = f.keys
  BY DEF Files, SetArg

LEMMA SetArgArgs ==
  ASSUME NEW f \in Files, NEW i \in Insts, NEW a \in Keys, NEW e \in Exprs
  PROVE  SetArg(f, i, a, e).args = [f.args EXCEPT ![i][a] = e]
  BY DEF Files, SetArg

LEMMA ArgsAfterChange ==
  ASSUME NEW S, NEW A \in [Insts -> [Keys -> S]], NEW i \in Insts, NEW a \in Keys, NEW e,
         NEW j \in Insts, NEW b \in Keys
  PROVE  [A EXCEPT ![i][a] = e][j][b] = IF j = i /\ b = a THEN e ELSE A[j][b]
<1>1. [A EXCEPT ![i][a] = e][j] = IF j = i THEN [A[i] EXCEPT ![a] = e] ELSE A[j]
  OBVIOUS
<1>2. A[i] \in [Keys -> S]
  OBVIOUS
<1>3. [A[i] EXCEPT ![a] = e][b] = IF b = a THEN e ELSE A[i][b]
  BY <1>2
<1> QED BY <1>1, <1>3

LEMMA ArgsAfterSetArg ==
  ASSUME NEW f \in Files, NEW i \in Insts, NEW a \in Keys, NEW e \in Exprs,
         NEW j \in Insts, NEW b \in Keys
  PROVE  SetArg(f, i, a, e).args[j][b] = IF j = i /\ b = a THEN e ELSE f.args[j][b]
<1>1. f.args \in [Insts -> [Keys -> Exprs]]
  BY FieldsOfFile
<1>2. SetArg(f, i, a, e).args = [f.args EXCEPT ![i][a] = e]
  BY SetArgArgs
<1>3. [f.args EXCEPT ![i][a] = e][j][b] = IF j = i /\ b = a THEN e ELSE f.args[j][b]
  BY <1>1, ArgsAfterChange
<1> QED BY <1>2, <1>3

LEMMA PruneShape ==
  ASSUME NEW f \in Files, NEW vs
  PROVE  /\ Prune(f, vs) \in Files
         /\ Prune(f, vs).net = [v \in Vars |-> IF v \in vs THEN None ELSE f.net[v]]
         /\ Prune(f, vs).named = f.named \ vs
         /\ Alike(f, Prune(f, vs))
         /\ Prune(f, vs).keys = f.keys
<1> DEFINE net   == [v \in Vars |-> IF v \in vs THEN None ELSE f.net[v]]
           named == f.named \ vs
           above == {p \in f.above : p[1] \notin vs}
           g1 == [f EXCEPT !.net = net]
           g2 == [g1 EXCEPT !.named = named]
           g3 == [g2 EXCEPT !.above = above]
<1>1. Prune(f, vs) = g3
  BY DEF Prune
<1>2. net \in [Vars -> Names \union {None}]
  BY FieldsOfFile
<1>3. named \in SUBSET Vars /\ above \in SUBSET ((Vars \union Insts) \X Insts)
  BY FieldsOfFile
<1> HIDE DEF net, named, above
<1>4. g1 \in Files /\ g1.net = net /\ g1.keys = f.keys /\ Alike(f, g1)
  BY <1>2, NetChange DEF Alike
<1> HIDE DEF g1
<1>5. g2 \in Files /\ g2.net = net /\ g2.named = named /\ g2.keys = f.keys /\ Alike(f, g2)
  BY <1>3, <1>4, NamedChange DEF Alike
<1> HIDE DEF g2
<1>6. g3 \in Files /\ g3.net = net /\ g3.named = named /\ g3.keys = f.keys /\ Alike(f, g3)
  BY <1>3, <1>5, AboveChange DEF Alike
<1> QED BY <1>1, <1>6 DEF net, named

LEMMA DefineShape ==
  ASSUME NEW f \in Files, NEW n \in Names, NEW sites
  PROVE  /\ Define(f, n, sites) \in Files
         /\ Define(f, n, sites).net = [f.net EXCEPT ![VarOf[n]] = n]
         /\ Define(f, n, sites).named = f.named \union {VarOf[n]}
         /\ Alike(f, Define(f, n, sites))
         /\ Define(f, n, sites).keys = f.keys
<1> DEFINE net   == [f.net EXCEPT ![VarOf[n]] = n]
           named == f.named \union {VarOf[n]}
           above == f.above \union ({VarOf[n]} \X BelowAnchor(f, sites))
           g1 == [f EXCEPT !.net = net]
           g2 == [g1 EXCEPT !.named = named]
           g3 == [g2 EXCEPT !.above = above]
<1>1. Define(f, n, sites) = g3
  BY DEF Define
<1>2. VarOf[n] \in Vars /\ BelowAnchor(f, sites) \subseteq Insts
  BY VarAssumption DEF BelowAnchor, PlacedIn
<1>3. net \in [Vars -> Names \union {None}]
  BY FieldsOfFile, <1>2
<1>4. named \in SUBSET Vars /\ above \in SUBSET ((Vars \union Insts) \X Insts)
  BY FieldsOfFile, <1>2
<1> HIDE DEF net, named, above
<1>5. g1 \in Files /\ g1.net = net /\ g1.keys = f.keys /\ Alike(f, g1)
  BY <1>3, NetChange DEF Alike
<1> HIDE DEF g1
<1>6. g2 \in Files /\ g2.net = net /\ g2.named = named /\ g2.keys = f.keys /\ Alike(f, g2)
  BY <1>4, <1>5, NamedChange DEF Alike
<1> HIDE DEF g2
<1>7. g3 \in Files /\ g3.net = net /\ g3.named = named /\ g3.keys = f.keys /\ Alike(f, g3)
  BY <1>4, <1>6, AboveChange DEF Alike
<1> QED BY <1>1, <1>7 DEF net, named

LEMMA RedirectShape ==
  ASSUME NEW f \in Files, NEW v \in Vars, NEW w \in Vars
  PROVE  LET g == Redirect(f, v, w)
         IN  /\ g \in Files
             /\ g.args = [i \in Insts |-> [a \in Keys |-> IF f.args[i][a] = Var(v)
                                                         THEN Var(w) ELSE f.args[i][a]]]
             /\ g.uses = IF v \in f.uses THEN (f.uses \ {v}) \union {w} ELSE f.uses
             /\ g.net = f.net /\ g.named = f.named /\ g.mod = f.mod
             /\ g.above = f.above /\ g.keys = f.keys
<1> DEFINE args == [i \in Insts |-> [a \in Keys |-> IF f.args[i][a] = Var(v) THEN Var(w)
                                                                            ELSE f.args[i][a]]]
           uses == IF v \in f.uses THEN (f.uses \ {v}) \union {w} ELSE f.uses
           g1 == [f EXCEPT !.args = args]
           g2 == [g1 EXCEPT !.uses = uses]
<1>1. Redirect(f, v, w) = g2
  BY DEF Redirect
<1>2. args \in [Insts -> [Keys -> Exprs]]
  BY FieldsOfFile, Arguments
<1>3. uses \in SUBSET Vars
  BY FieldsOfFile
<1> HIDE DEF args, uses
<1>4. /\ g1 \in Files /\ g1.args = args /\ g1.uses = f.uses
      /\ g1.net = f.net /\ g1.named = f.named /\ g1.mod = f.mod
      /\ g1.above = f.above /\ g1.keys = f.keys
  BY <1>2, ArgsChange
<1> HIDE DEF g1
<1>5. /\ g2 \in Files /\ g2.args = args /\ g2.uses = uses
      /\ g2.net = f.net /\ g2.named = f.named /\ g2.mod = f.mod
      /\ g2.above = f.above /\ g2.keys = f.keys
  BY <1>3, <1>4, UsesChange
<1> QED BY <1>1, <1>5 DEF args, uses

--------------------------------------------------------------------------------
(* What every edit of a file f into h owes *)

\* No reference dangles, and only calls have arguments.
Whole(f) == RefsDefined(f) /\ OnlyCallsTakeArgs(f)

\* No definition with a literal loses its last reference and stays.
Prunes(f, h) == \A v \in Referenced(f) \ Referenced(h) : v \notin Named(h)

\* Outside T, pins are joined in h as they were in f.
KeepsJoins(f, h, T) ==
    \A p, q \in (Pins(f) \intersect Pins(h)) \ T : Joined(f, p, q) <=> Joined(h, p, q)

LEMMA NetOfDefined ==
  ASSUME NEW f \in Files, NEW v \in Vars
  PROVE  /\ v \in Defined(f) <=> f.net[v] # None
         /\ v \in Defined(f) => f.net[v] \in Names
  BY FieldsOfFile DEF Defined

LEMMA PinsAreArgs ==
  ASSUME NEW f \in Files, NEW p \in Pins(f)
  PROVE  /\ p \in PlacedIn(f) \X Ports /\ p[1] \in Insts /\ p[2] \in Keys
         /\ p = <<p[1], p[2]>>
         /\ f.args[p[1]][p[2]] \in Exprs
<1>1. p \in PlacedIn(f) \X Ports /\ p[1] \in Insts /\ p[2] \in Keys
  BY PortsAreKeys DEF Pins, PlacedIn
<1> QED BY <1>1, FieldsOfFile

LEMMA SameArgsSameJoins ==
  ASSUME NEW f \in Files, NEW h \in Files, NEW T,
         \A p \in (Pins(f) \intersect Pins(h)) \ T : h.args[p[1]][p[2]] = f.args[p[1]][p[2]]
  PROVE  KeepsJoins(f, h, T)
  BY DEF KeepsJoins, Joined

LEMMA RefsHaveCalls ==
  ASSUME NEW f \in Files, OnlyCallsTakeArgs(f), NEW i \in Insts, NEW a \in Keys, NEW v,
         f.args[i][a] = Var(v)
  PROVE  <<i, a>> \in Refs(f, v)
<1>1. i \in PlacedIn(f)
  BY VarsAreNoLiterals DEF OnlyCallsTakeArgs, PlacedIn
<1> QED BY <1>1 DEF Refs

LEMMA RefsAreCallArgs ==
  ASSUME NEW f \in Files, NEW v, NEW r \in Refs(f, v)
  PROVE  /\ r[1] \in PlacedIn(f) /\ r[1] \in Insts /\ r[2] \in Keys /\ r = <<r[1], r[2]>>
         /\ f.args[r[1]][r[2]] = Var(v)
  BY DEF Refs, PlacedIn

--------------------------------------------------------------------------------
(* Pointing two pins at a definition *)

Loose(f, a, b, v) == {e \in {a, b} : ~(OnDef(f, e) /\ VarAt(f, e) = v)}

Orphans(f, a, b, v) ==
    {w \in Defined(f) \ (f.uses \union {v}) : Refs(f, w) # {} /\ Refs(f, w) \subseteq Loose(f, a, b, v)}

\* h is g with a and b at v, and without the orphans
Repointed(f, g, a, b, v, h) ==
    /\ h \in Files
    /\ h.mod = f.mod /\ h.uses = f.uses /\ h.keys = g.keys
    /\ \A u \in Vars : h.net[u] = IF u \in Orphans(f, a, b, v) THEN None ELSE g.net[u]
    /\ h.named = g.named \ Orphans(f, a, b, v)
    /\ \A i \in Insts, k \in Keys :
         h.args[i][k] = IF <<i, k>> \in {a, b} THEN Var(v) ELSE f.args[i][k]

LEMMA PointedShape ==
  ASSUME NEW f \in Files, NEW g \in Files, Alike(f, g), NEW v \in Vars,
         NEW a \in PlacedIn(f) \X Ports, NEW b \in PlacedIn(f) \X Ports
  PROVE  Repointed(f, g, a, b, v, Pointed(f, g, a, b, v))
<1> DEFINE g1 == SetArg(g, a[1], a[2], Var(v))
           g2 == SetArg(g1, b[1], b[2], Var(v))
           o  == Orphans(f, a, b, v)
           h  == Prune(g2, o)
<1>1. Pointed(f, g, a, b, v) = h
  BY DEF Pointed, Orphans, Loose
<1>2. /\ a[1] \in Insts /\ a[2] \in Keys /\ b[1] \in Insts /\ b[2] \in Keys
      /\ a = <<a[1], a[2]>> /\ b = <<b[1], b[2]>>
      /\ Var(v) \in Exprs
  BY PortsAreKeys, Arguments DEF PlacedIn
<1>3. /\ g1 \in Files /\ g1.net = g.net /\ g1.named = g.named /\ g1.mod = g.mod
      /\ g1.uses = g.uses /\ g1.keys = g.keys
      /\ \A i \in Insts, k \in Keys :
           g1.args[i][k] = IF i = a[1] /\ k = a[2] THEN Var(v) ELSE g.args[i][k]
  <2>1. /\ g1 \in Files /\ g1.net = g.net /\ g1.named = g.named /\ g1.mod = g.mod
        /\ g1.uses = g.uses /\ g1.keys = g.keys
    BY <1>2, SetArgShape
  <2>2. \A i \in Insts, k \in Keys :
           g1.args[i][k] = IF i = a[1] /\ k = a[2] THEN Var(v) ELSE g.args[i][k]
    BY <1>2, ArgsAfterSetArg
  <2> QED BY <2>1, <2>2
<1> HIDE DEF g1
<1>4. /\ g2 \in Files /\ g2.net = g.net /\ g2.named = g.named /\ g2.mod = g.mod
      /\ g2.uses = g.uses /\ g2.keys = g.keys
      /\ \A i \in Insts, k \in Keys :
           g2.args[i][k] = IF i = b[1] /\ k = b[2] THEN Var(v) ELSE g1.args[i][k]
  <2>1. /\ g2 \in Files /\ g2.net = g1.net /\ g2.named = g1.named /\ g2.mod = g1.mod
        /\ g2.uses = g1.uses /\ g2.keys = g1.keys
    BY <1>2, <1>3, SetArgShape
  <2>2. \A i \in Insts, k \in Keys :
           g2.args[i][k] = IF i = b[1] /\ k = b[2] THEN Var(v) ELSE g1.args[i][k]
    BY <1>2, <1>3, ArgsAfterSetArg
  <2> QED BY <1>3, <2>1, <2>2
<1> HIDE DEF g2, o
<1>5. /\ h \in Files /\ h.mod = g.mod /\ h.uses = g.uses /\ h.keys = g.keys /\ h.args = g2.args
      /\ h.net = [u \in Vars |-> IF u \in o THEN None ELSE g.net[u]]
      /\ h.named = g.named \ o
  BY <1>4, PruneShape DEF Alike
<1>6. ASSUME NEW i \in Insts, NEW k \in Keys
      PROVE  h.args[i][k] = IF <<i, k>> \in {a, b} THEN Var(v) ELSE f.args[i][k]
  <2>1. <<i, k>> \in {a, b} <=> \/ i = a[1] /\ k = a[2]
                                \/ i = b[1] /\ k = b[2]
    BY <1>2
  <2> HIDE DEF h
  <2> QED BY <1>3, <1>4, <1>5, <2>1 DEF Alike
<1> HIDE DEF h
<1> QED BY <1>1, <1>5, <1>6 DEF Alike, Repointed, o

LEMMA PointedIsWhole ==
  ASSUME NEW f \in Files, NEW g \in Files, Alike(f, g), NEW v \in Vars,
         NEW a \in PlacedIn(f) \X Ports, NEW b \in PlacedIn(f) \X Ports,
         g.net[v] # None, \A u \in Vars \ {v} : g.net[u] = f.net[u], Whole(f)
  PROVE  Whole(Pointed(f, g, a, b, v))
<1> DEFINE h == Pointed(f, g, a, b, v)
           o == Orphans(f, a, b, v)
<1>1. /\ h \in Files /\ h.mod = f.mod /\ h.uses = f.uses
      /\ \A u \in Vars : h.net[u] = IF u \in o THEN None ELSE g.net[u]
      /\ \A i \in Insts, k \in Keys :
           h.args[i][k] = IF <<i, k>> \in {a, b} THEN Var(v) ELSE f.args[i][k]
  BY PointedShape DEF Repointed
<1> HIDE DEF h
<1>2. \A u \in Vars : f.net[u] # None => g.net[u] # None
  OBVIOUS
<1>3. v \notin o /\ \A u \in o : u \notin f.uses /\ Refs(f, u) \subseteq {a, b}
  BY DEF Orphans, Loose
<1>4. ASSUME NEW i \in Insts, NEW k \in Keys, NEW u \in Vars, h.args[i][k] = Var(u)
      PROVE  h.net[u] # None
  <2>1. CASE <<i, k>> \in {a, b}
    <3>1. u = v
      BY <1>1, <1>4, <2>1, VarsAreNoLiterals
    <3> QED BY <1>1, <1>3, <3>1
  <2>2. CASE <<i, k>> \notin {a, b}
    <3>1. f.args[i][k] = Var(u)
      BY <1>1, <1>4, <2>2
    <3>2. f.net[u] # None
      BY <3>1, NetOfDefined DEF Whole, RefsDefined
    <3>3. <<i, k>> \in Refs(f, u)
      BY <3>1, RefsHaveCalls DEF Whole
    <3>4. u \notin o
      BY <3>3, <2>2, <1>3
    <3> QED BY <1>1, <1>2, <3>2, <3>4
  <2> QED BY <2>1, <2>2
<1>5. ASSUME NEW u \in h.uses PROVE u \in Vars /\ h.net[u] # None
  <2>1. u \in Vars /\ u \in f.uses /\ f.net[u] # None
    BY <1>1, FieldsOfFile DEF Whole, RefsDefined, Defined
  <2> QED BY <1>1, <1>2, <1>3, <2>1
<1>6. RefsDefined(h)
  BY <1>1, <1>4, <1>5, NetOfDefined DEF RefsDefined
<1>7. OnlyCallsTakeArgs(h)
  <2> SUFFICES ASSUME NEW i \in Insts, h.mod[i] = None, NEW k \in Keys
               PROVE  h.args[i][k] = NoArg
    BY DEF OnlyCallsTakeArgs
  <2>1. i \notin PlacedIn(f) /\ f.args[i][k] = NoArg
    BY <1>1 DEF PlacedIn, Whole, OnlyCallsTakeArgs
  <2>2. <<i, k>> \notin {a, b}
    BY <2>1
  <2> QED BY <1>1, <2>1, <2>2
<1> QED BY <1>6, <1>7 DEF Whole, h

LEMMA PointedPrunes ==
  ASSUME NEW f \in Files, NEW g \in Files, Alike(f, g), NEW v \in Vars,
         NEW a \in PlacedIn(f) \X Ports, NEW b \in PlacedIn(f) \X Ports,
         \A u \in Vars \ {v} : g.net[u] = f.net[u]
  PROVE  Prunes(f, Pointed(f, g, a, b, v))
<1> DEFINE h == Pointed(f, g, a, b, v)
           o == Orphans(f, a, b, v)
<1>1. /\ h \in Files /\ h.mod = f.mod /\ h.uses = f.uses
      /\ \A u \in Vars : h.net[u] = IF u \in o THEN None ELSE g.net[u]
      /\ \A i \in Insts, k \in Keys :
           h.args[i][k] = IF <<i, k>> \in {a, b} THEN Var(v) ELSE f.args[i][k]
  BY PointedShape DEF Repointed
<1> HIDE DEF h
<1> SUFFICES ASSUME NEW u \in Referenced(f) \ Referenced(h) PROVE u \notin Named(h)
  BY DEF Prunes, h
<1>2. u \in Vars /\ u \notin f.uses /\ Refs(f, u) # {} /\ Refs(h, u) = {}
  BY <1>1 DEF Referenced
<1>3. PlacedIn(h) = PlacedIn(f)
  BY <1>1 DEF PlacedIn
<1>4. u # v
  <2>1. a[1] \in PlacedIn(f) /\ a[1] \in Insts /\ a[2] \in Keys /\ a = <<a[1], a[2]>>
    BY PortsAreKeys DEF PlacedIn
  <2>2. h.args[a[1]][a[2]] = Var(v)
    BY <1>1, <2>1
  <2>3. a \in Refs(h, v)
    BY <1>3, <2>1, <2>2 DEF Refs
  <2> QED BY <1>2, <2>3
<1>5. ASSUME NEW r \in Refs(f, u) PROVE r \in Loose(f, a, b, v)
  <2>1. /\ r[1] \in PlacedIn(f) /\ r[1] \in Insts /\ r[2] \in Keys /\ r = <<r[1], r[2]>>
        /\ f.args[r[1]][r[2]] = Var(u)
    BY RefsAreCallArgs
  <2>2. r \in {a, b}
    <3> SUFFICES ASSUME r \notin {a, b} PROVE FALSE
      OBVIOUS
    <3>1. h.args[r[1]][r[2]] = Var(u)
      BY <1>1, <2>1
    <3>2. r \in Refs(h, u)
      BY <1>3, <2>1, <3>1 DEF Refs
    <3> QED BY <1>2, <3>2
  <2>3. VarAt(f, r) = u
    BY <2>1, KindsOfArgument DEF VarAt, ArgAt
  <2> QED BY <2>2, <2>3, <1>4 DEF Loose
<1>6. u \in Defined(f) => u \in o
  BY <1>2, <1>4, <1>5 DEF Orphans
<1>7. h.net[u] = None
  BY <1>1, <1>2, <1>4, <1>6, NetOfDefined
<1> QED BY <1>7 DEF Named, Defined

LEMMA PointedJoins ==
  ASSUME NEW f \in Files, NEW g \in Files, Alike(f, g), NEW v \in Vars,
         NEW a \in PlacedIn(f) \X Ports, NEW b \in PlacedIn(f) \X Ports
  PROVE  KeepsJoins(f, Pointed(f, g, a, b, v), {a, b})
<1> DEFINE h == Pointed(f, g, a, b, v)
<1>1. /\ h \in Files
      /\ \A i \in Insts, k \in Keys :
           h.args[i][k] = IF <<i, k>> \in {a, b} THEN Var(v) ELSE f.args[i][k]
  BY PointedShape DEF Repointed
<1> HIDE DEF h
<1>2. \A p \in (Pins(f) \intersect Pins(h)) \ {a, b} : h.args[p[1]][p[2]] = f.args[p[1]][p[2]]
  BY <1>1, PinsAreArgs
<1>3. KeepsJoins(f, h, {a, b})
  BY <1>1, <1>2, SameArgsSameJoins
<1> QED BY <1>3 DEF h

--------------------------------------------------------------------------------
(* Endpoints, names and definitions *)

LEMMA EndpointsAreArgs ==
  ASSUME NEW f \in Files, NEW i \in Insts, NEW ps, NEW e \in Endpoints(f, i, ps)
  PROVE  e \in PlacedIn(f) \X Ports
  BY DEF Endpoints, PlacedIn

LEMMA EndsAreArgs ==
  ASSUME NEW reach, NEW s \in Ends(reach)
  PROVE  s.end \in PlacedIn(file) \X Ports
<1>1. PICK ip \in Insts \X PinNames :
        \E e \in Endpoints(file, ip[1], reach[ip[1]][ip[2]]) : s.end = e
  BY DEF Ends
<1>2. ip[1] \in Insts
  OBVIOUS
<1>3. s.end \in {ip[1]} \X Ports /\ file.mod[ip[1]] # None
  BY <1>1 DEF Endpoints
<1> QED BY <1>2, <1>3 DEF PlacedIn

LEMMA ArgAtIsArg ==
  ASSUME NEW f \in Files, NEW e \in PlacedIn(f) \X Ports
  PROVE  /\ ArgAt(f, e) \in Exprs
         /\ e[1] \in Insts /\ e[2] \in Keys /\ e = <<e[1], e[2]>>
         /\ OnDef(f, e) => /\ VarAt(f, e) \in Vars
                           /\ f.net[VarAt(f, e)] \in Names
                           /\ ArgAt(f, e) = Var(VarAt(f, e))
                           /\ e \in Refs(f, VarAt(f, e))
<1>1. e[1] \in Insts /\ e[1] \in PlacedIn(f) /\ e[2] \in Keys /\ e = <<e[1], e[2]>>
  BY PortsAreKeys DEF PlacedIn
<1>2. ArgAt(f, e) \in Exprs
  BY <1>1, FieldsOfFile DEF ArgAt
<1>3. ASSUME OnDef(f, e)
      PROVE  /\ VarAt(f, e) \in Vars /\ f.net[VarAt(f, e)] \in Names
             /\ ArgAt(f, e) = Var(VarAt(f, e))
  <2>1. VarAt(f, e) \in Defined(f) /\ ArgAt(f, e).k = "var"
    BY <1>3 DEF OnDef, VarAt
  <2>2. VarAt(f, e) \in Vars
    BY <2>1 DEF Defined
  <2>3. ArgAt(f, e) = Var(VarAt(f, e))
    BY <1>2, <2>1, Arguments DEF VarAt
  <2> QED BY <2>1, <2>2, <2>3, NetOfDefined
<1>4. ASSUME OnDef(f, e) PROVE e \in Refs(f, VarAt(f, e))
  BY <1>1, <1>3, <1>4 DEF Refs, ArgAt
<1> QED BY <1>1, <1>2, <1>3, <1>4

LEMMA NetByNameIsCalled ==
  ASSUME NEW f \in Files, NEW n \in Names, Called(f, n) # {}
  PROVE  NetByName(f, n) \in Vars /\ f.net[NetByName(f, n)] = n
<1>1. \E v \in Called(f, n) : Called(f, n) \intersect f.named # {} => v \in f.named
  OBVIOUS
<1>2. NetByName(f, n) \in Called(f, n)
  BY <1>1 DEF NetByName
<1> QED BY <1>2 DEF Called

LEMMA FreshNameIsName ==
  ASSUME NEW f \in Files, NEW a \in PlacedIn(f) \X Ports, NEW net \in Names \union {None}
  PROVE  FreshName(f, a, net) \in Names
<1>1. ArgAt(f, a) \in Exprs
  BY ArgAtIsArg
<1>2. ArgAt(f, a).k = "lit" => ArgAt(f, a).x \in Names
  BY <1>1, Arguments
<1>3. PlaceholderOf[a[1]][a[2]] \in Names
  BY PlaceholderAssumption DEF PlacedIn
<1> QED BY <1>2, <1>3 DEF FreshName

LEMMA TargetIsOnASide ==
  ASSUME NEW f, NEW sch, NEW a, NEW b, OnDef(f, a) \/ OnDef(f, b)
  PROVE  \E e \in {a, b} : OnDef(f, e) /\ Target(f, sch, a, b) = VarAt(f, e)
<1> DEFINE sides == {e \in {a, b} : OnDef(f, e)}
           first(S) == VarAt(f, IF a \in S THEN a ELSE b)
<1>1. ASSUME NEW S \in SUBSET sides, S # {}
      PROVE  \E e \in {a, b} : OnDef(f, e) /\ first(S) = VarAt(f, e)
  BY <1>1
<1>2. sides # {}
  OBVIOUS
<1>3. \E S \in SUBSET sides : S # {} /\ Target(f, sch, a, b) = first(S)
  <2> DEFINE shared == {e \in sides : SharedNet(f, sch, e)}
             chosen == {e \in sides : f.net[VarAt(f, e)] # PlaceholderOf[e[1]][e[2]]}
  <2>1. CASE shared # {}
    <3>1. Target(f, sch, a, b) = first(shared)
      BY <2>1 DEF Target
    <3> QED BY <2>1, <3>1
  <2>2. CASE shared = {} /\ chosen # {}
    <3>1. Target(f, sch, a, b) = first(chosen)
      BY <2>2 DEF Target
    <3> QED BY <2>2, <3>1
  <2>3. CASE shared = {} /\ chosen = {}
    <3>1. Target(f, sch, a, b) = first(sides)
      BY <2>3 DEF Target
    <3> QED BY <1>2, <3>1
  <2> QED BY <2>1, <2>2, <2>3
<1> QED BY <1>1, <1>3

\* A definition more, in an identifier that nothing binds
LEMMA DefineAdds ==
  ASSUME NEW f \in Files, NEW n \in Names, NEW sites
  PROVE  LET g == Define(f, n, sites)
         IN  /\ g \in Files /\ Alike(f, g) /\ g.keys = f.keys
             /\ VarOf[n] \in Vars /\ g.net[VarOf[n]] # None
             /\ \A u \in Vars \ {VarOf[n]} : g.net[u] = f.net[u]
<1>1. VarOf[n] \in Vars /\ n # None
  BY VarAssumption, NoneIsOther
<1>2. f.net \in [Vars -> Names \union {None}]
  BY FieldsOfFile
<1>3. Define(f, n, sites).net = [f.net EXCEPT ![VarOf[n]] = n]
  BY DefineShape
<1>4. /\ [f.net EXCEPT ![VarOf[n]] = n][VarOf[n]] = n
      /\ \A u \in Vars \ {VarOf[n]} : [f.net EXCEPT ![VarOf[n]] = n][u] = f.net[u]
  BY <1>1, <1>2
<1> QED BY <1>1, <1>3, <1>4, DefineShape

--------------------------------------------------------------------------------
(* connect_pins *)

\* Whether it writes an existing definition or a new one, g, at v
LEMMA ConnectedPoints ==
  ASSUME NEW f \in Files, NEW sch, NEW a \in PlacedIn(f) \X Ports, NEW b \in PlacedIn(f) \X Ports,
         NEW net \in Names \union {None}
  PROVE  \E g \in Files, v \in Vars :
            /\ Connected(f, sch, a, b, net) = Pointed(f, g, a, b, v)
            /\ Alike(f, g) /\ g.keys = f.keys
            /\ g.net[v] # None /\ \A u \in Vars \ {v} : g.net[u] = f.net[u]
            /\ OnDef(f, a) \/ OnDef(f, b) =>
                 \E e \in {a, b} : OnDef(f, e) /\ v = VarAt(f, e)
<1> DEFINE n == FreshName(f, a, net)
<1>1. CASE OnDef(f, a) \/ OnDef(f, b)
  <2>1. PICK e \in {a, b} : OnDef(f, e) /\ Target(f, sch, a, b) = VarAt(f, e)
    BY <1>1, TargetIsOnASide
  <2>2. VarAt(f, e) \in Vars /\ f.net[VarAt(f, e)] # None
    BY <2>1, ArgAtIsArg, NoneIsOther
  <2>3. Connected(f, sch, a, b, net) = Pointed(f, f, a, b, VarAt(f, e))
    BY <1>1, <2>1 DEF Connected
  <2> QED BY <2>1, <2>2, <2>3 DEF Alike
<1>2. CASE ~OnDef(f, a) /\ ~OnDef(f, b) /\ Called(f, n) # {}
  <2>1. n \in Names
    BY FreshNameIsName
  <2>2. NetByName(f, n) \in Vars /\ f.net[NetByName(f, n)] # None
    BY <1>2, <2>1, NetByNameIsCalled, NoneIsOther
  <2>3. Connected(f, sch, a, b, net) = Pointed(f, f, a, b, NetByName(f, n))
    BY <1>2 DEF Connected
  <2> QED BY <1>2, <2>2, <2>3 DEF Alike
<1>3. CASE ~OnDef(f, a) /\ ~OnDef(f, b) /\ Called(f, n) = {}
  <2>1. n \in Names
    BY FreshNameIsName
  <2>2. Connected(f, sch, a, b, net) = Pointed(f, Define(f, n, {a[1], b[1]}), a, b, VarOf[n])
    BY <1>3 DEF Connected
  <2> HIDE DEF n
  <2> QED BY <1>3, <2>1, <2>2, DefineAdds
<1> QED BY <1>1, <1>2, <1>3

\* What is asked of an edit of f into h that names the pins T
Careful(f, h, T) ==
    /\ h \in Files
    /\ Whole(h)
    /\ Prunes(f, h)
    /\ KeepsJoins(f, h, T)
    /\ KeysHaveCalls(f) => KeysHaveCalls(h)

LEMMA KeysStay ==
  ASSUME NEW f, NEW h, h.mod = f.mod, KeysHaveCalls(f),
         \A i \in Insts : <<i, "comp">> \in h.keys => <<i, "comp">> \in f.keys
  PROVE  KeysHaveCalls(h)
  BY DEF KeysHaveCalls, PlacedIn

LEMMA ConnectedIsCareful ==
  ASSUME NEW f \in Files, Whole(f), NEW sch, NEW net \in Names \union {None},
         NEW a \in PlacedIn(f) \X Ports, NEW b \in PlacedIn(f) \X Ports
  PROVE  Careful(f, Connected(f, sch, a, b, net), {a, b})
<1>1. PICK g \in Files, v \in Vars :
            /\ Connected(f, sch, a, b, net) = Pointed(f, g, a, b, v)
            /\ Alike(f, g) /\ g.keys = f.keys
            /\ g.net[v] # None /\ \A u \in Vars \ {v} : g.net[u] = f.net[u]
  BY ConnectedPoints
<1> DEFINE h == Pointed(f, g, a, b, v)
<1>2. h \in Files /\ h.mod = f.mod /\ h.keys = f.keys
  BY <1>1, PointedShape DEF Repointed
<1>3. Whole(h)
  BY <1>1, PointedIsWhole
<1>4. Prunes(f, h)
  BY <1>1, PointedPrunes
<1>5. KeepsJoins(f, h, {a, b})
  BY <1>1, PointedJoins
<1> HIDE DEF h
<1>6. KeysHaveCalls(f) => KeysHaveCalls(h)
  BY <1>2, KeysStay
<1>7. Careful(f, h, {a, b})
  BY <1>2, <1>3, <1>4, <1>5, <1>6 DEF Careful
<1> QED BY <1>1, <1>7 DEF h

\* A pin on e's net that spans in the build makes the net shared.
LEMMA SpanningIsShared ==
  ASSUME NEW f \in Files, NEW e \in PlacedIn(f) \X Ports, OnDef(f, e),
         NEW p \in Pins(f), OnDef(f, p), Spans(f, p), VarAt(f, p) = VarAt(f, e)
  PROVE  SharedNet(f, f, e)
  BY FilesAssumption DEF SharedNet

LEMMA MovedPinIsNotMerged ==
  ASSUME NEW f \in Files, NEW net \in Names \union {None},
         NEW a \in PlacedIn(f) \X Ports, NEW b \in PlacedIn(f) \X Ports,
         CanConnect(f, f, a, b, net),
         NEW p \in Pins(f), NEW q \in Pins(f), p \in {a, b}, ~Joined(f, p, q),
         OnDef(f, p), OnDef(f, q), Spans(f, p), Spans(f, q)
  PROVE  Connected(f, f, a, b, net).args[p[1]][p[2]] # Connected(f, f, a, b, net).args[q[1]][q[2]]
<1>1. PICK g \in Files, v \in Vars :
            /\ Connected(f, f, a, b, net) = Pointed(f, g, a, b, v)
            /\ Alike(f, g)
            /\ OnDef(f, a) \/ OnDef(f, b) =>
                 \E e \in {a, b} : OnDef(f, e) /\ v = VarAt(f, e)
  BY ConnectedPoints
<1> DEFINE h == Pointed(f, g, a, b, v)
<1> SUFFICES ASSUME h.args[p[1]][p[2]] = h.args[q[1]][q[2]] PROVE FALSE
  BY <1>1
<1>2. \A i \in Insts, k \in Keys :
         h.args[i][k] = IF <<i, k>> \in {a, b} THEN Var(v) ELSE f.args[i][k]
  BY <1>1, PointedShape DEF Repointed
<1> HIDE DEF h
<1>3. PICK e \in {a, b} : OnDef(f, e) /\ v = VarAt(f, e)
  BY <1>1
<1>4. /\ p \in PlacedIn(f) \X Ports /\ p[1] \in Insts /\ p[2] \in Keys /\ p = <<p[1], p[2]>>
      /\ q \in PlacedIn(f) \X Ports /\ q[1] \in Insts /\ q[2] \in Keys /\ q = <<q[1], q[2]>>
  BY PinsAreArgs
<1>5. ArgAt(f, p) = Var(VarAt(f, p)) /\ ArgAt(f, q) = Var(VarAt(f, q))
  BY <1>4, ArgAtIsArg
<1>6. p # q /\ VarAt(f, p) # VarAt(f, q)
  <2>1. p # q
    BY DEF Joined
  <2>2. ArgAt(f, p) # ArgAt(f, q)
    BY DEF Joined, OnDef, ArgAt
  <2> QED BY <2>1, <2>2, <1>5
<1>7. SharedNet(f, f, p) /\ SharedNet(f, f, q)
  BY <1>4, SpanningIsShared
<1>8. ASSUME q \in {a, b} PROVE FALSE
  <2>1. {a, b} = {p, q}
    BY <1>6, <1>8
  <2>2. SharedNet(f, f, a) /\ SharedNet(f, f, b) /\ ~Already(f, a, b)
    BY <2>1, <1>6, <1>7 DEF Already
  <2> QED BY <2>2 DEF CanConnect, NeedsMerge
<1>9. ASSUME q \notin {a, b} PROVE FALSE
  <2>1. h.args[p[1]][p[2]] = Var(v) /\ h.args[q[1]][q[2]] = Var(VarAt(f, q))
    BY <1>2, <1>4, <1>5, <1>9 DEF ArgAt
  <2>2. VarAt(f, q) = v
    BY <2>1, VarsAreNoLiterals
  <2>3. e # p /\ {a, b} = {p, e}
    BY <2>2, <1>3, <1>6
  <2>4. SharedNet(f, f, e)
    BY <2>2, <1>3, SpanningIsShared
  <2>5. SharedNet(f, f, a) /\ SharedNet(f, f, b) /\ ~Already(f, a, b)
    BY <2>2, <2>3, <2>4, <1>3, <1>6, <1>7 DEF Already
  <2> QED BY <2>5 DEF CanConnect, NeedsMerge
<1> QED BY <1>8, <1>9

LEMMA ConnectedNeverMerges ==
  ASSUME NEW f \in Files, NEW net \in Names \union {None},
         NEW a \in PlacedIn(f) \X Ports, NEW b \in PlacedIn(f) \X Ports,
         CanConnect(f, f, a, b, net),
         NEW p \in Pins(f), NEW q \in Pins(f), ~Joined(f, p, q),
         OnDef(f, p), OnDef(f, q), Spans(f, p), Spans(f, q)
  PROVE  ~Joined(Connected(f, f, a, b, net), p, q)
<1> DEFINE h == Connected(f, f, a, b, net)
<1>1. p # q /\ f.args[p[1]][p[2]] # f.args[q[1]][q[2]]
  BY DEF Joined, OnDef, ArgAt
<1>2. ~Joined(f, q, p)
  BY <1>1 DEF Joined
<1>3. PICK g \in Files, v \in Vars : h = Pointed(f, g, a, b, v) /\ Alike(f, g)
  BY ConnectedPoints
<1>4. \A i \in Insts, k \in Keys : <<i, k>> \notin {a, b} => h.args[i][k] = f.args[i][k]
  BY <1>3, PointedShape DEF Repointed
<1>5. CASE p \in {a, b}
  BY <1>1, <1>5, MovedPinIsNotMerged DEF Joined
<1>6. CASE q \in {a, b}
  BY <1>1, <1>2, <1>6, MovedPinIsNotMerged DEF Joined
<1>7. CASE p \notin {a, b} /\ q \notin {a, b}
  <2>1. h.args[p[1]][p[2]] = f.args[p[1]][p[2]] /\ h.args[q[1]][q[2]] = f.args[q[1]][q[2]]
    BY <1>4, <1>7, PinsAreArgs
  <2> QED BY <1>1, <2>1 DEF Joined
<1> QED BY <1>5, <1>6, <1>7

--------------------------------------------------------------------------------
(* The merge of two nets *)

LEMMA MergedShape ==
  ASSUME NEW f \in Files, NEW a \in PlacedIn(f) \X Ports, NEW b \in PlacedIn(f) \X Ports,
         OnDef(f, a), OnDef(f, b)
  PROVE  LET h == Merged(f, a, b)
         IN  /\ h \in Files /\ h.mod = f.mod
             /\ h.keys \subseteq f.keys
             /\ \A u \in Vars : h.net[u] = IF u = VarAt(f, b) THEN None ELSE f.net[u]
             /\ \A i \in Insts, k \in Keys :
                  h.args[i][k] = IF f.args[i][k] = Var(VarAt(f, b)) THEN Var(VarAt(f, a))
                                                                    ELSE f.args[i][k]
             /\ h.uses = IF VarAt(f, b) \in f.uses
                         THEN (f.uses \ {VarAt(f, b)}) \union {VarAt(f, a)} ELSE f.uses
<1> DEFINE gone == VarAt(f, b)
           r == Redirect(f, gone, VarAt(f, a))
           g == Prune(r, {gone})
           keys == g.keys \ {<<f.net[gone], "sym">>}
           h == [g EXCEPT !.keys = keys]
<1>1. Merged(f, a, b) = h
  BY DEF Merged
<1>2. gone \in Vars /\ VarAt(f, a) \in Vars
  BY ArgAtIsArg
<1>3. /\ r \in Files /\ r.net = f.net /\ r.mod = f.mod /\ r.keys = f.keys
      /\ r.uses = IF gone \in f.uses THEN (f.uses \ {gone}) \union {VarAt(f, a)} ELSE f.uses
      /\ r.args = [i \in Insts |-> [k \in Keys |-> IF f.args[i][k] = Var(gone)
                                                   THEN Var(VarAt(f, a)) ELSE f.args[i][k]]]
  BY <1>2, RedirectShape
<1> HIDE DEF r
<1>4. /\ g \in Files /\ g.keys = f.keys /\ Alike(r, g)
      /\ g.net = [u \in Vars |-> IF u \in {gone} THEN None ELSE r.net[u]]
  BY <1>3, PruneShape
<1> HIDE DEF g, gone
<1>5. keys \in SUBSET ((Insts \union Names) \X {"comp", "sym"})
  BY <1>4, FieldsOfFile
<1> HIDE DEF keys
<1>6. /\ h \in Files /\ h.keys = keys
      /\ h.net = g.net /\ h.mod = g.mod /\ h.args = g.args /\ h.uses = g.uses
  BY <1>4, <1>5, KeysChange
<1> HIDE DEF h
<1>7. h.keys \subseteq f.keys /\ h.mod = f.mod
  BY <1>3, <1>4, <1>6 DEF keys, Alike
<1>8. \A u \in Vars : h.net[u] = IF u = gone THEN None ELSE f.net[u]
  BY <1>3, <1>4, <1>6
<1>9. h.uses = IF gone \in f.uses THEN (f.uses \ {gone}) \union {VarAt(f, a)} ELSE f.uses
  BY <1>3, <1>4, <1>6 DEF Alike
<1>10. \A i \in Insts, k \in Keys :
         h.args[i][k] = IF f.args[i][k] = Var(gone) THEN Var(VarAt(f, a)) ELSE f.args[i][k]
  BY <1>3, <1>4, <1>6 DEF Alike
<1> QED BY <1>1, <1>6, <1>7, <1>8, <1>9, <1>10 DEF gone

LEMMA MergedIsSafe ==
  ASSUME NEW f \in Files, Whole(f), NEW a \in PlacedIn(f) \X Ports, NEW b \in PlacedIn(f) \X Ports,
         OnDef(f, a), OnDef(f, b), ~Already(f, a, b)
  PROVE  /\ Merged(f, a, b) \in Files
         /\ Whole(Merged(f, a, b))
         /\ Prunes(f, Merged(f, a, b))
         /\ KeysHaveCalls(f) => KeysHaveCalls(Merged(f, a, b))
<1> DEFINE h == Merged(f, a, b)
           gone == VarAt(f, b)
           t == VarAt(f, a)
<1>1. /\ h \in Files /\ h.mod = f.mod /\ h.keys \subseteq f.keys
      /\ \A u \in Vars : h.net[u] = IF u = gone THEN None ELSE f.net[u]
      /\ \A i \in Insts, k \in Keys :
           h.args[i][k] = IF f.args[i][k] = Var(gone) THEN Var(t) ELSE f.args[i][k]
      /\ h.uses = IF gone \in f.uses THEN (f.uses \ {gone}) \union {t} ELSE f.uses
  BY MergedShape
<1>2. gone \in Vars /\ t \in Vars /\ gone # t /\ f.net[t] # None
  BY ArgAtIsArg, NoneIsOther DEF Already
<1> HIDE DEF h, gone, t
<1>3. RefsDefined(h)
  <2>1. ASSUME NEW i \in Insts, NEW k \in Keys, NEW u \in Vars, h.args[i][k] = Var(u)
        PROVE  h.net[u] # None
    <3>1. CASE f.args[i][k] = Var(gone)
      <4>1. u = t
        BY <1>1, <2>1, <3>1, VarsAreNoLiterals
      <4> QED BY <1>1, <1>2, <4>1
    <3>2. CASE f.args[i][k] # Var(gone)
      <4>1. f.args[i][k] = Var(u)
        BY <1>1, <2>1, <3>2
      <4>2. u # gone /\ f.net[u] # None
        BY <3>2, <4>1, NetOfDefined DEF Whole, RefsDefined
      <4> QED BY <1>1, <4>2
    <3> QED BY <3>1, <3>2
  <2>2. ASSUME NEW u \in h.uses PROVE u \in Vars /\ h.net[u] # None
    <3>1. u = t \/ (u \in f.uses /\ u # gone)
      BY <1>1, <2>2
    <3>2. u \in f.uses => u \in Vars /\ f.net[u] # None
      BY DEF Whole, RefsDefined, Defined
    <3> QED BY <1>1, <1>2, <3>1, <3>2
  <2> QED BY <1>1, <2>1, <2>2, NetOfDefined DEF RefsDefined
<1>4. OnlyCallsTakeArgs(h)
  <2> SUFFICES ASSUME NEW i \in Insts, h.mod[i] = None, NEW k \in Keys
               PROVE  h.args[i][k] = NoArg
    BY DEF OnlyCallsTakeArgs
  <2>1. f.args[i][k] = NoArg
    BY <1>1 DEF Whole, OnlyCallsTakeArgs
  <2> QED BY <1>1, <2>1, VarsAreNoLiterals
<1>5. Prunes(f, h)
  <2> SUFFICES ASSUME NEW u \in Referenced(f) \ Referenced(h) PROVE u \notin Named(h)
    BY DEF Prunes
  <2>1. u \in Vars /\ u \notin h.uses /\ Refs(h, u) = {} /\ (u \in f.uses \/ Refs(f, u) # {})
    BY DEF Referenced
  <2>2. ASSUME u # gone PROVE FALSE
    <3>1. u \notin f.uses
      BY <1>1, <2>1, <2>2
    <3>2. PICK r \in Refs(f, u) : TRUE
      BY <2>1, <3>1
    <3>3. /\ r[1] \in PlacedIn(f) /\ r[1] \in Insts /\ r[2] \in Keys /\ r = <<r[1], r[2]>>
          /\ f.args[r[1]][r[2]] = Var(u)
      BY RefsAreCallArgs
    <3>4. h.args[r[1]][r[2]] = Var(u)
      BY <1>1, <2>2, <3>3, VarsAreNoLiterals
    <3>5. r[1] \in PlacedIn(h)
      BY <1>1, <3>3 DEF PlacedIn
    <3>6. r \in Refs(h, u)
      BY <3>3, <3>4, <3>5 DEF Refs
    <3> QED BY <2>1, <3>6
  <2>3. h.net[u] = None
    BY <1>1, <2>1, <2>2
  <2> QED BY <2>3 DEF Named, Defined
<1>6. KeysHaveCalls(f) => KeysHaveCalls(h)
  BY <1>1, KeysStay
<1> QED BY <1>1, <1>3, <1>4, <1>5, <1>6 DEF Whole, h

--------------------------------------------------------------------------------
(* One argument changed: disconnect_pin and attach_pin_net *)

\* The definitions that lose their one reference when the argument at e becomes x
GivenUp(f, e, x) ==
    {w \in Defined(f) : ArgAt(f, e) = Var(w) /\ Var(w) # x /\ OneRef(f, w)}

Reargued(f, e, x, h) ==
    /\ h \in Files
    /\ h.mod = f.mod /\ h.uses = f.uses /\ h.keys = f.keys
    /\ \A i \in Insts, k \in Keys : h.args[i][k] = IF <<i, k>> = e THEN x ELSE f.args[i][k]
    /\ \A u \in GivenUp(f, e, x) : h.net[u] = None
    /\ \A u \in Vars \ GivenUp(f, e, x) : Var(u) # x => h.net[u] = f.net[u]
    /\ \A u \in Vars : Var(u) = x => h.net[u] # None

LEMMA OneRefIsTheRef ==
  ASSUME NEW f, NEW v, OneRef(f, v), NEW r \in Refs(f, v), NEW s \in Refs(f, v)
  PROVE  r = s /\ v \notin f.uses
  BY DEF OneRef

LEMMA ReargueIsCareful ==
  ASSUME NEW f \in Files, Whole(f), NEW e \in PlacedIn(f) \X Ports, NEW x, NEW h,
         Reargued(f, e, x, h)
  PROVE  Careful(f, h, {e})
<1> DEFINE o == GivenUp(f, e, x)
<1>1. /\ h \in Files /\ h.mod = f.mod /\ h.uses = f.uses /\ h.keys = f.keys
      /\ \A i \in Insts, k \in Keys : h.args[i][k] = IF <<i, k>> = e THEN x ELSE f.args[i][k]
      /\ \A u \in o : h.net[u] = None
      /\ \A u \in Vars \ o : Var(u) # x => h.net[u] = f.net[u]
      /\ \A u \in Vars : Var(u) = x => h.net[u] # None
  BY DEF Reargued
<1>2. e[1] \in PlacedIn(f) /\ e[1] \in Insts /\ e[2] \in Keys /\ e = <<e[1], e[2]>>
  BY PortsAreKeys DEF PlacedIn
<1>3. \A w \in o : w \in Vars /\ ArgAt(f, e) = Var(w) /\ Var(w) # x /\ OneRef(f, w)
  BY DEF GivenUp, Defined
<1> HIDE DEF o
<1>4. ASSUME NEW w \in o PROVE e \in Refs(f, w) /\ w \notin f.uses
  BY <1>2, <1>3 DEF Refs, ArgAt, OneRef
<1>5. RefsDefined(h)
  <2>1. ASSUME NEW i \in Insts, NEW k \in Keys, NEW u \in Vars, h.args[i][k] = Var(u)
        PROVE  h.net[u] # None
    <3>1. CASE <<i, k>> = e
      BY <1>1, <2>1, <3>1
    <3>2. CASE <<i, k>> # e
      <4>1. f.args[i][k] = Var(u)
        BY <1>1, <2>1, <3>2
      <4>2. f.net[u] # None
        BY <4>1, NetOfDefined DEF Whole, RefsDefined
      <4>3. <<i, k>> \in Refs(f, u)
        BY <4>1, RefsHaveCalls DEF Whole
      <4>4. u \notin o
        BY <1>3, <1>4, <3>2, <4>3, OneRefIsTheRef
      <4> QED BY <1>1, <4>2, <4>4
    <3> QED BY <3>1, <3>2
  <2>2. ASSUME NEW u \in h.uses PROVE u \in Vars /\ h.net[u] # None
    <3>1. u \in f.uses /\ u \in Vars /\ f.net[u] # None
      BY <1>1 DEF Whole, RefsDefined, Defined
    <3> QED BY <1>1, <1>4, <3>1
  <2> QED BY <1>1, <2>1, <2>2, NetOfDefined DEF RefsDefined
<1>6. OnlyCallsTakeArgs(h)
  <2> SUFFICES ASSUME NEW i \in Insts, h.mod[i] = None, NEW k \in Keys
               PROVE  h.args[i][k] = NoArg
    BY DEF OnlyCallsTakeArgs
  <2>1. i \notin PlacedIn(f) /\ f.args[i][k] = NoArg
    BY <1>1 DEF PlacedIn, Whole, OnlyCallsTakeArgs
  <2> QED BY <1>1, <1>2, <2>1
<1>7. Prunes(f, h)
  <2> SUFFICES ASSUME NEW u \in Referenced(f) \ Referenced(h) PROVE u \notin Named(h)
    BY DEF Prunes
  <2>1. u \in Vars /\ u \notin f.uses /\ Refs(f, u) # {} /\ Refs(h, u) = {}
    BY <1>1 DEF Referenced
  <2>2. PlacedIn(h) = PlacedIn(f)
    BY <1>1 DEF PlacedIn
  <2>3. ASSUME NEW r \in Refs(f, u) PROVE r = e
    <3> SUFFICES ASSUME r # e PROVE FALSE
      OBVIOUS
    <3>1. /\ r[1] \in PlacedIn(f) /\ r[1] \in Insts /\ r[2] \in Keys /\ r = <<r[1], r[2]>>
          /\ f.args[r[1]][r[2]] = Var(u)
      BY RefsAreCallArgs
    <3>2. h.args[r[1]][r[2]] = Var(u)
      BY <1>1, <3>1
    <3>3. r \in Refs(h, u)
      BY <2>2, <3>1, <3>2 DEF Refs
    <3> QED BY <2>1, <3>3
  <2>4. Refs(f, u) = {e}
    BY <2>1, <2>3
  <2>5. ArgAt(f, e) = Var(u) /\ OneRef(f, u)
    BY <2>1, <2>4, RefsAreCallArgs DEF ArgAt, OneRef
  <2>6. Var(u) # x
    <3> SUFFICES ASSUME Var(u) = x PROVE FALSE
      OBVIOUS
    <3>1. h.args[e[1]][e[2]] = Var(u)
      BY <1>1, <1>2
    <3>2. e \in Refs(h, u)
      BY <1>2, <2>2, <3>1 DEF Refs
    <3> QED BY <2>1, <3>2
  <2>7. u \in Defined(f) => u \in o
    BY <2>5, <2>6 DEF GivenUp, o
  <2>8. h.net[u] = None
    BY <1>1, <2>1, <2>6, <2>7, NetOfDefined
  <2> QED BY <2>8 DEF Named, Defined
<1>8. KeepsJoins(f, h, {e})
  <2>1. \A p \in (Pins(f) \intersect Pins(h)) \ {e} : h.args[p[1]][p[2]] = f.args[p[1]][p[2]]
    BY <1>1, PinsAreArgs
  <2> QED BY <1>1, <2>1, SameArgsSameJoins
<1>9. KeysHaveCalls(f) => KeysHaveCalls(h)
  BY <1>1, KeysStay
<1> QED BY <1>1, <1>5, <1>6, <1>7, <1>8, <1>9 DEF Careful, Whole

LEMMA DisconnectedIsCareful ==
  ASSUME NEW f \in Files, Whole(f), NEW e \in PlacedIn(f) \X Ports, OnDef(f, e)
  PROVE  Careful(f, Disconnected(f, e), {e})
<1> DEFINE v == VarAt(f, e)
           x == IF e[2] \in Facts(f.mod[e[1]]).required
                THEN Lit(PlaceholderOf[e[1]][e[2]]) ELSE NoArg
           g == SetArg(f, e[1], e[2], x)
           h == Disconnected(f, e)
<1>1. /\ e[1] \in Insts /\ e[2] \in Keys /\ e[2] \in Ports /\ e = <<e[1], e[2]>>
      /\ v \in Vars /\ f.net[v] # None /\ ArgAt(f, e) = Var(v)
  BY ArgAtIsArg, NoneIsOther
<1>2. x \in Exprs /\ \A u : Var(u) # x
  <2>1. PlaceholderOf[e[1]][e[2]] \in Names
    BY <1>1, PlaceholderAssumption
  <2> QED BY <2>1, Arguments, VarsAreNoLiterals
<1>3. h = IF OneRef(f, v) THEN Prune(g, {v}) ELSE g
  BY DEF Disconnected
<1> HIDE DEF x, h
<1>4. /\ g \in Files /\ g.net = f.net /\ g.mod = f.mod /\ g.uses = f.uses /\ g.keys = f.keys
  BY <1>1, <1>2, SetArgShape
<1>5. \A i \in Insts, k \in Keys : g.args[i][k] = IF <<i, k>> = e THEN x ELSE f.args[i][k]
  <2>1. \A i \in Insts, k \in Keys :
          g.args[i][k] = IF i = e[1] /\ k = e[2] THEN x ELSE f.args[i][k]
    BY <1>1, <1>2, ArgsAfterSetArg
  <2>2. \A i, k : <<i, k>> = e <=> i = e[1] /\ k = e[2]
    BY <1>1
  <2> QED BY <2>1, <2>2
<1> HIDE DEF g
<1>6. GivenUp(f, e, x) = {w \in {v} : OneRef(f, v)}
  <2>1. v \in Defined(f)
    BY <1>1, NetOfDefined
  <2>2. \A w : ArgAt(f, e) = Var(w) <=> w = v
    BY <1>1, VarsAreNoLiterals
  <2> HIDE DEF v
  <2> QED BY <1>2, <2>1, <2>2 DEF GivenUp
<1>7. Reargued(f, e, x, h)
  <2> HIDE DEF v
  <2>1. CASE OneRef(f, v)
    <3>1. /\ h \in Files /\ h.mod = g.mod /\ h.uses = g.uses /\ h.args = g.args /\ h.keys = g.keys
          /\ h.net = [u \in Vars |-> IF u \in {v} THEN None ELSE g.net[u]]
      BY <1>3, <1>4, <2>1, PruneShape DEF Alike
    <3>2. GivenUp(f, e, x) = {v}
      BY <1>6, <2>1
    <3> QED BY <1>1, <1>2, <1>4, <1>5, <3>1, <3>2 DEF Reargued
  <2>2. CASE ~OneRef(f, v)
    <3>1. GivenUp(f, e, x) = {} /\ h = g
      BY <1>3, <1>6, <2>2
    <3> QED BY <1>2, <1>4, <1>5, <3>1 DEF Reargued
  <2> QED BY <2>1, <2>2
<1>8. Careful(f, h, {e})
  BY <1>7, ReargueIsCareful
<1> QED BY <1>8 DEF h

LEMMA AttachedIsCareful ==
  ASSUME NEW f \in Files, Whole(f), NEW e \in PlacedIn(f) \X Ports, NEW n \in Names
  PROVE  Careful(f, Attached(f, e, n), {e})
<1> DEFINE known == Called(f, n) # {}
           v == IF known THEN NetByName(f, n) ELSE VarOf[n]
           g == IF known THEN f ELSE Define(f, n, {e[1]})
           o == {w \in Defined(f) \ {v} : ArgAt(f, e) = Var(w) /\ OneRef(f, w)}
           s == SetArg(g, e[1], e[2], Var(v))
           h == Attached(f, e, n)
<1>1. h = Prune(s, o)
  BY DEF Attached
<1>2. /\ g \in Files /\ Alike(f, g) /\ g.keys = f.keys /\ v \in Vars /\ g.net[v] # None
      /\ \A u \in Vars \ {v} : g.net[u] = f.net[u]
  <2>1. CASE known
    <3>1. NetByName(f, n) \in Vars /\ f.net[NetByName(f, n)] # None
      BY <2>1, NetByNameIsCalled, NoneIsOther
    <3> QED BY <2>1, <3>1 DEF Alike
  <2>2. CASE ~known
    <3>1. v = VarOf[n] /\ g = Define(f, n, {e[1]})
      BY <2>2
    <3> HIDE DEF v, g
    <3> QED BY <3>1, DefineAdds
  <2> QED BY <2>1, <2>2
<1>3. o = GivenUp(f, e, Var(v))
  BY VarsAreNoLiterals DEF GivenUp
<1> HIDE DEF h, g, v, o
<1>4. e[1] \in Insts /\ e[2] \in Keys /\ e = <<e[1], e[2]>> /\ Var(v) \in Exprs
  BY <1>2, ArgAtIsArg, Arguments
<1>5. s \in Files /\ s.net = g.net /\ s.mod = g.mod /\ s.uses = g.uses /\ s.keys = g.keys
  BY <1>2, <1>4, SetArgShape
<1>6. \A i \in Insts, k \in Keys : s.args[i][k] = IF <<i, k>> = e THEN Var(v) ELSE f.args[i][k]
  <2>1. \A i \in Insts, k \in Keys :
          s.args[i][k] = IF i = e[1] /\ k = e[2] THEN Var(v) ELSE g.args[i][k]
    BY <1>2, <1>4, ArgsAfterSetArg
  <2>2. \A i, k : <<i, k>> = e <=> i = e[1] /\ k = e[2]
    BY <1>4
  <2> QED BY <1>2, <2>1, <2>2 DEF Alike
<1> HIDE DEF s
<1>7. /\ h \in Files /\ h.mod = s.mod /\ h.uses = s.uses /\ h.args = s.args /\ h.keys = s.keys
      /\ h.net = [u \in Vars |-> IF u \in o THEN None ELSE s.net[u]]
  BY <1>1, <1>5, PruneShape DEF Alike
<1>8. v \notin o
  BY <1>3 DEF GivenUp
<1>9. Reargued(f, e, Var(v), h)
  <2>1. h.mod = f.mod /\ h.uses = f.uses /\ h.keys = f.keys
    BY <1>2, <1>5, <1>7 DEF Alike
  <2>2. \A i \in Insts, k \in Keys : h.args[i][k] = IF <<i, k>> = e THEN Var(v) ELSE f.args[i][k]
    BY <1>6, <1>7
  <2>3. \A u \in o : h.net[u] = None
    BY <1>3, <1>7 DEF GivenUp, Defined
  <2>4. \A u \in Vars \ o : Var(u) # Var(v) => h.net[u] = f.net[u]
    BY <1>2, <1>5, <1>7
  <2>5. \A u \in Vars : Var(u) = Var(v) => h.net[u] # None
    BY <1>2, <1>5, <1>7, <1>8, VarsAreNoLiterals
  <2> QED BY <1>3, <1>7, <2>1, <2>2, <2>3, <2>4, <2>5 DEF Reargued
<1>10. Careful(f, h, {e})
  BY <1>9, ReargueIsCareful
<1> QED BY <1>10 DEF h

--------------------------------------------------------------------------------
(* create_net and set_attribute *)

LEMMA DefineIsCareful ==
  ASSUME NEW f \in Files, Whole(f), NEW n \in Names, NEW sites
  PROVE  Careful(f, Define(f, n, sites), {})
<1> DEFINE h == Define(f, n, sites)
<1>1. /\ h \in Files /\ h.mod = f.mod /\ h.args = f.args /\ h.uses = f.uses /\ h.keys = f.keys
      /\ \A u \in Vars : f.net[u] # None => h.net[u] # None
  BY DefineAdds DEF Alike
<1> HIDE DEF h
<1>2. RefsDefined(h)
  <2>1. \A i \in Insts, k \in Keys, u \in Vars : h.args[i][k] = Var(u) => u \in Defined(h)
    BY <1>1 DEF Whole, RefsDefined, Defined
  <2>2. h.uses \subseteq Defined(h)
    BY <1>1 DEF Whole, RefsDefined, Defined
  <2> QED BY <2>1, <2>2 DEF RefsDefined
<1>3. OnlyCallsTakeArgs(h)
  BY <1>1 DEF Whole, OnlyCallsTakeArgs
<1>4. Prunes(f, h)
  BY <1>1 DEF Prunes, Referenced, Refs, PlacedIn
<1>5. KeepsJoins(f, h, {})
  BY <1>1, SameArgsSameJoins
<1>6. KeysHaveCalls(f) => KeysHaveCalls(h)
  BY <1>1, KeysStay
<1> QED BY <1>1, <1>2, <1>3, <1>4, <1>5, <1>6 DEF Careful, Whole, h

LEMMA SetToStringIsSafe ==
  ASSUME NEW f \in Files, Whole(f), NEW i \in PlacedIn(f), NEW a \in Keys
  PROVE  LET h == SetArg(f, i, a, Str)
         IN  /\ h \in Files
             /\ Whole(h)
             /\ KeepsJoins(f, h, {<<i, a>>})
             /\ KeysHaveCalls(f) => KeysHaveCalls(h)
<1> DEFINE h == SetArg(f, i, a, Str)
<1>1. i \in Insts /\ Str \in Exprs /\ f.mod[i] # None
  BY Arguments DEF PlacedIn
<1>2. h \in Files /\ h.net = f.net /\ h.mod = f.mod /\ h.uses = f.uses /\ h.keys = f.keys
  BY <1>1, SetArgShape
<1>3. \A j \in Insts, b \in Keys :
        h.args[j][b] = IF j = i /\ b = a THEN Str ELSE f.args[j][b]
  BY <1>1, ArgsAfterSetArg
<1> HIDE DEF h
<1>4. RefsDefined(h)
  <2>1. \A j \in Insts, b \in Keys, u \in Vars : h.args[j][b] = Var(u) => f.args[j][b] = Var(u)
    BY <1>3, VarsAreNoLiterals
  <2>2. Defined(h) = Defined(f)
    BY <1>2 DEF Defined
  <2> QED BY <1>2, <2>1, <2>2 DEF Whole, RefsDefined
<1>5. OnlyCallsTakeArgs(h)
  BY <1>1, <1>2, <1>3 DEF Whole, OnlyCallsTakeArgs
<1>6. KeepsJoins(f, h, {<<i, a>>})
  <2>1. \A p \in (Pins(f) \intersect Pins(h)) \ {<<i, a>>} :
           h.args[p[1]][p[2]] = f.args[p[1]][p[2]]
    BY <1>3, PinsAreArgs
  <2> QED BY <1>2, <2>1, SameArgsSameJoins
<1>7. KeysHaveCalls(f) => KeysHaveCalls(h)
  BY <1>2, KeysStay
<1> QED BY <1>2, <1>4, <1>5, <1>6, <1>7 DEF Whole, h

--------------------------------------------------------------------------------
(* rename_net *)

LEMMA RenamedNetShape ==
  ASSUME NEW f \in Files, NEW v \in Vars, NEW new \in Names
  PROVE  LET h == RenamedNet(f, v, new)
             w == VarOf[new]
         IN  /\ h \in Files /\ h.mod = f.mod
             /\ \A u \in Vars : h.net[u] = IF u = w THEN new ELSE IF u = v THEN None ELSE f.net[u]
             /\ \A i \in Insts, k \in Keys :
                  h.args[i][k] = IF f.args[i][k] = Var(v) THEN Var(w) ELSE f.args[i][k]
             /\ h.uses = IF v \in f.uses THEN (f.uses \ {v}) \union {w} ELSE f.uses
             /\ \A i \in Insts : <<i, "comp">> \in h.keys => <<i, "comp">> \in f.keys
<1> DEFINE w == VarOf[new]
           r == Redirect(f, v, w)
           spelled == v \in f.named \/ w # new
           net   == [u \in Vars |-> CASE u = w -> new
                                      [] u = v /\ u # w -> None
                                      [] OTHER -> r.net[u]]
           named == (r.named \ {v, w}) \union {u \in {w} : spelled}
           above == {p \in r.above : p[1] # v} \union ({w} \X {i \in Insts : <<v, i>> \in r.above})
           keys  == {k \in r.keys : k # <<f.net[v], "sym">>}
                      \union {k \in {<<new, "sym">>} : <<f.net[v], "sym">> \in r.keys}
           g1 == [r EXCEPT !.net = net]
           g2 == [g1 EXCEPT !.named = named]
           g3 == [g2 EXCEPT !.above = above]
           h  == [g3 EXCEPT !.keys = keys]
<1>1. RenamedNet(f, v, new) = h
  BY DEF RenamedNet
<1>2. w \in Vars
  BY VarAssumption
<1> HIDE DEF w
<1>3. /\ r \in Files /\ r.net = f.net /\ r.mod = f.mod /\ r.keys = f.keys
      /\ r.uses = IF v \in f.uses THEN (f.uses \ {v}) \union {w} ELSE f.uses
      /\ r.args = [i \in Insts |-> [k \in Keys |-> IF f.args[i][k] = Var(v)
                                                   THEN Var(w) ELSE f.args[i][k]]]
  BY <1>2, RedirectShape
<1> HIDE DEF r
<1>4. net \in [Vars -> Names \union {None}]
  BY <1>3, FieldsOfFile
<1>5. named \in SUBSET Vars
  BY <1>2, <1>3, FieldsOfFile
<1>6. above \in SUBSET ((Vars \union Insts) \X Insts)
  BY <1>2, <1>3, FieldsOfFile
<1>7. keys \in SUBSET ((Insts \union Names) \X {"comp", "sym"})
  BY <1>3, FieldsOfFile
<1>8. \A i \in Insts : <<i, "comp">> \in keys => <<i, "comp">> \in f.keys
  BY <1>3
<1>9. \A u \in Vars : net[u] = IF u = w THEN new ELSE IF u = v THEN None ELSE f.net[u]
  BY <1>3
<1> HIDE DEF net, named, above, keys
<1>10. g1 \in Files /\ g1.net = net /\ g1.mod = r.mod /\ g1.args = r.args /\ g1.uses = r.uses
  BY <1>3, <1>4, NetChange
<1> HIDE DEF g1
<1>11. g2 \in Files /\ g2.net = net /\ g2.mod = r.mod /\ g2.args = r.args /\ g2.uses = r.uses
  BY <1>5, <1>10, NamedChange
<1> HIDE DEF g2
<1>12. g3 \in Files /\ g3.net = net /\ g3.mod = r.mod /\ g3.args = r.args /\ g3.uses = r.uses
  BY <1>6, <1>11, AboveChange
<1> HIDE DEF g3
<1>13. /\ h \in Files /\ h.net = net /\ h.mod = r.mod /\ h.args = r.args /\ h.uses = r.uses
       /\ h.keys = keys
  BY <1>7, <1>12, KeysChange
<1> HIDE DEF h
<1>14. \A i \in Insts, k \in Keys :
         h.args[i][k] = IF f.args[i][k] = Var(v) THEN Var(w) ELSE f.args[i][k]
  BY <1>3, <1>13
<1> QED BY <1>1, <1>3, <1>8, <1>9, <1>13, <1>14 DEF w

LEMMA RenamedNetIsCareful ==
  ASSUME NEW f \in Files, Whole(f), NEW v \in Defined(f), NEW new \in Names,
         CanRenameNet(f, v, new)
  PROVE  Careful(f, RenamedNet(f, v, new), {})
<1> DEFINE h == RenamedNet(f, v, new)
           w == VarOf[new]
<1>1. v \in Vars /\ w \in Vars /\ new # None
  BY VarAssumption, NoneIsOther DEF Defined
<1>2. /\ h \in Files /\ h.mod = f.mod
      /\ \A u \in Vars : h.net[u] = IF u = w THEN new ELSE IF u = v THEN None ELSE f.net[u]
      /\ \A i \in Insts, k \in Keys :
           h.args[i][k] = IF f.args[i][k] = Var(v) THEN Var(w) ELSE f.args[i][k]
      /\ h.uses = IF v \in f.uses THEN (f.uses \ {v}) \union {w} ELSE f.uses
      /\ \A i \in Insts : <<i, "comp">> \in h.keys => <<i, "comp">> \in f.keys
  BY <1>1, RenamedNetShape
\* The new identifier is referred to only where the old one was.
<1>3. w # v => w \notin Defined(f)
  BY DEF CanRenameNet, CanDefine, Bound
<1> HIDE DEF h, w
<1>4. \A i \in Insts, k \in Keys : f.args[i][k] = Var(w) => w = v
  BY <1>1, <1>3 DEF Whole, RefsDefined
<1>5. RefsDefined(h)
  <2>1. ASSUME NEW i \in Insts, NEW k \in Keys, NEW u \in Vars, h.args[i][k] = Var(u)
        PROVE  h.net[u] # None
    <3>1. CASE f.args[i][k] = Var(v)
      <4>1. u = w
        BY <1>2, <2>1, <3>1, VarsAreNoLiterals
      <4> QED BY <1>1, <1>2, <4>1
    <3>2. CASE f.args[i][k] # Var(v)
      <4>1. f.args[i][k] = Var(u)
        BY <1>2, <2>1, <3>2
      <4>2. u # v /\ f.net[u] # None
        BY <3>2, <4>1, NetOfDefined DEF Whole, RefsDefined
      <4> QED BY <1>1, <1>2, <4>2
    <3> QED BY <3>1, <3>2
  <2>2. ASSUME NEW u \in h.uses PROVE u \in Vars /\ h.net[u] # None
    <3>1. u = w \/ (u \in f.uses /\ u # v)
      BY <1>2, <2>2
    <3>2. u \in f.uses => u \in Vars /\ f.net[u] # None
      BY DEF Whole, RefsDefined, Defined
    <3> QED BY <1>1, <1>2, <3>1, <3>2
  <2> QED BY <1>2, <2>1, <2>2, NetOfDefined DEF RefsDefined
<1>6. OnlyCallsTakeArgs(h)
  <2> SUFFICES ASSUME NEW i \in Insts, h.mod[i] = None, NEW k \in Keys
               PROVE  h.args[i][k] = NoArg
    BY DEF OnlyCallsTakeArgs
  <2>1. f.args[i][k] = NoArg
    BY <1>2 DEF Whole, OnlyCallsTakeArgs
  <2> QED BY <1>2, <2>1, VarsAreNoLiterals
<1>7. Prunes(f, h)
  <2> SUFFICES ASSUME NEW u \in Referenced(f) \ Referenced(h) PROVE u \notin Named(h)
    BY DEF Prunes
  <2>1. u \in Vars /\ u \notin h.uses /\ Refs(h, u) = {} /\ (u \in f.uses \/ Refs(f, u) # {})
    BY DEF Referenced
  <2>2. ASSUME u # v PROVE FALSE
    <3>1. u \notin f.uses
      BY <1>2, <2>1, <2>2
    <3>2. PICK r \in Refs(f, u) : TRUE
      BY <2>1, <3>1
    <3>3. /\ r[1] \in PlacedIn(f) /\ r[1] \in Insts /\ r[2] \in Keys /\ r = <<r[1], r[2]>>
          /\ f.args[r[1]][r[2]] = Var(u)
      BY RefsAreCallArgs
    <3>4. h.args[r[1]][r[2]] = Var(u)
      BY <1>2, <2>2, <3>3, VarsAreNoLiterals
    <3>5. r[1] \in PlacedIn(h)
      BY <1>2, <3>3 DEF PlacedIn
    <3>6. r \in Refs(h, u)
      BY <3>3, <3>4, <3>5 DEF Refs
    <3> QED BY <2>1, <3>6
  <2>3. ASSUME u = w PROVE FALSE
    <3>1. u = v
      BY <2>2
    <3>2. u \notin f.uses
      BY <1>2, <2>1, <2>3, <3>1
    <3>3. PICK r \in Refs(f, u) : TRUE
      BY <2>1, <3>2
    <3>4. /\ r[1] \in PlacedIn(f) /\ r[1] \in Insts /\ r[2] \in Keys /\ r = <<r[1], r[2]>>
          /\ f.args[r[1]][r[2]] = Var(u)
      BY RefsAreCallArgs
    <3>5. h.args[r[1]][r[2]] = Var(u)
      BY <1>2, <2>3, <3>1, <3>4
    <3>6. r[1] \in PlacedIn(h)
      BY <1>2, <3>4 DEF PlacedIn
    <3>7. r \in Refs(h, u)
      BY <3>4, <3>5, <3>6 DEF Refs
    <3> QED BY <2>1, <3>7
  <2>4. h.net[u] = None
    BY <1>2, <2>1, <2>2, <2>3
  <2> QED BY <2>4 DEF Named, Defined
<1>8. KeepsJoins(f, h, {})
  <2> SUFFICES ASSUME NEW p \in Pins(f) \intersect Pins(h), NEW q \in Pins(f) \intersect Pins(h)
               PROVE  Joined(f, p, q) <=> Joined(h, p, q)
    BY DEF KeepsJoins
  <2> DEFINE fp == f.args[p[1]][p[2]]
             fq == f.args[q[1]][q[2]]
             hp == h.args[p[1]][p[2]]
             hq == h.args[q[1]][q[2]]
  <2>1. p[1] \in Insts /\ p[2] \in Keys /\ q[1] \in Insts /\ q[2] \in Keys
    BY PinsAreArgs
  <2>2. /\ hp = IF fp = Var(v) THEN Var(w) ELSE fp
        /\ hq = IF fq = Var(v) THEN Var(w) ELSE fq
    BY <1>2, <2>1
  <2>3. (fp = Var(w) => w = v) /\ (fq = Var(w) => w = v)
    BY <1>4, <2>1
  <2>4. Joined(f, p, q) <=> p = q \/ (fp.k = "var" /\ fp = fq)
    BY DEF Joined
  <2>5. Joined(h, p, q) <=> p = q \/ (hp.k = "var" /\ hp = hq)
    BY DEF Joined
  <2> HIDE DEF fp, fq, hp, hq
  <2>6. hp = hq <=> fp = fq
    BY <2>2, <2>3
  <2>7. hp.k = "var" <=> fp.k = "var"
    BY <2>2, KindsOfArgument
  <2> QED BY <2>4, <2>5, <2>6, <2>7
<1>9. KeysHaveCalls(f) => KeysHaveCalls(h)
  BY <1>2, KeysStay
<1> QED BY <1>2, <1>5, <1>6, <1>7, <1>8, <1>9 DEF Careful, Whole, h

--------------------------------------------------------------------------------
(* rename_instance *)

LEMMA RenamedInstanceShape ==
  ASSUME NEW f \in Files, NEW old \in PlacedIn(f), NEW new \in Insts \ PlacedIn(f)
  PROVE  LET h == RenamedInstance(f, old, new)
         IN  /\ h \in Files /\ h.net = f.net /\ h.uses = f.uses
             /\ \A i \in Insts : h.mod[i] = IF i = old THEN None ELSE
                                            IF i = new THEN f.mod[old] ELSE f.mod[i]
             /\ \A i \in Insts, k \in Keys :
                  h.args[i][k] = IF i = old THEN NoArg ELSE
                                 IF i = new THEN f.args[old][k] ELSE f.args[i][k]
             /\ \A i \in Insts : <<i, "comp">> \in h.keys =>
                                   i = new \/ (i # old /\ <<i, "comp">> \in f.keys)
<1> DEFINE to(i) == IF i = old THEN new ELSE i
           mod   == [f.mod EXCEPT ![new] = f.mod[old], ![old] = None]
           args  == [f.args EXCEPT ![new] = f.args[old], ![old] = [a \in Keys |-> NoArg]]
           above == {<<to(p[1]), to(p[2])>> : p \in f.above}
           keys  == {<<to(k[1]), k[2]>> : k \in f.keys}
           g1 == [f EXCEPT !.mod = mod]
           g2 == [g1 EXCEPT !.args = args]
           g3 == [g2 EXCEPT !.above = above]
           h  == [g3 EXCEPT !.keys = keys]
<1>1. RenamedInstance(f, old, new) = h
  BY DEF RenamedInstance
<1>2. old \in Insts /\ new \in Insts /\ old # new
  BY DEF PlacedIn
<1>3. f.mod \in [Insts -> Modules \union {None}] /\ f.args \in [Insts -> [Keys -> Exprs]]
  BY FieldsOfFile
<1>4. mod \in [Insts -> Modules \union {None}]
  BY <1>2, <1>3
<1>5. args \in [Insts -> [Keys -> Exprs]]
  <2>1. [a \in Keys |-> NoArg] \in [Keys -> Exprs]
    BY Arguments
  <2> QED BY <1>2, <1>3, <2>1
<1>6. above \in SUBSET ((Vars \union Insts) \X Insts)
  <2> SUFFICES ASSUME NEW p \in f.above
               PROVE  to(p[1]) \in Vars \union Insts /\ to(p[2]) \in Insts
    OBVIOUS
  <2> QED BY <1>2, FieldsOfFile
<1>7. keys \in SUBSET ((Insts \union Names) \X {"comp", "sym"})
  <2> SUFFICES ASSUME NEW k \in f.keys
               PROVE  to(k[1]) \in Insts \union Names /\ k[2] \in {"comp", "sym"}
    OBVIOUS
  <2> QED BY <1>2, FieldsOfFile
<1>8. \A i \in Insts : mod[i] = IF i = old THEN None ELSE IF i = new THEN f.mod[old] ELSE f.mod[i]
  BY <1>2, <1>3
<1>9. ASSUME NEW i \in Insts, NEW k \in Keys
      PROVE  args[i][k] = IF i = old THEN NoArg ELSE IF i = new THEN f.args[old][k] ELSE f.args[i][k]
  <2>1. args[i] = IF i = old THEN [a \in Keys |-> NoArg] ELSE
                  IF i = new THEN f.args[old] ELSE f.args[i]
    BY <1>2, <1>3
  <2> HIDE DEF args
  <2> QED BY <2>1
<1>10. ASSUME NEW i \in Insts, <<i, "comp">> \in keys
       PROVE  i = new \/ (i # old /\ <<i, "comp">> \in f.keys)
  <2>1. PICK k \in f.keys : <<i, "comp">> = <<to(k[1]), k[2]>>
    BY <1>10
  <2>2. k = <<k[1], k[2]>> /\ i = to(k[1]) /\ k[2] = "comp"
    BY <2>1, FieldsOfFile
  <2> QED BY <1>2, <2>2
<1> HIDE DEF mod, args, above, keys
<1>11. g1 \in Files /\ g1.mod = mod /\ g1.net = f.net /\ g1.uses = f.uses
  BY <1>4, ModChange
<1> HIDE DEF g1
<1>12. g2 \in Files /\ g2.mod = mod /\ g2.args = args /\ g2.net = f.net /\ g2.uses = f.uses
  BY <1>5, <1>11, ArgsChange
<1> HIDE DEF g2
<1>13. g3 \in Files /\ g3.mod = mod /\ g3.args = args /\ g3.net = f.net /\ g3.uses = f.uses
  BY <1>6, <1>12, AboveChange
<1> HIDE DEF g3
<1>14. /\ h \in Files /\ h.mod = mod /\ h.args = args /\ h.net = f.net /\ h.uses = f.uses
       /\ h.keys = keys
  BY <1>7, <1>13, KeysChange
<1> HIDE DEF h
<1> QED BY <1>1, <1>8, <1>9, <1>10, <1>14

LEMMA RenamedInstanceIsCareful ==
  ASSUME NEW f \in Files, Whole(f), NEW old \in PlacedIn(f), NEW new \in Insts \ PlacedIn(f)
  PROVE  Careful(f, RenamedInstance(f, old, new), {})
<1> DEFINE h == RenamedInstance(f, old, new)
<1>1. /\ h \in Files /\ h.net = f.net /\ h.uses = f.uses
      /\ \A i \in Insts : h.mod[i] = IF i = old THEN None ELSE
                                     IF i = new THEN f.mod[old] ELSE f.mod[i]
      /\ \A i \in Insts, k \in Keys :
           h.args[i][k] = IF i = old THEN NoArg ELSE
                          IF i = new THEN f.args[old][k] ELSE f.args[i][k]
      /\ \A i \in Insts : <<i, "comp">> \in h.keys =>
                            i = new \/ (i # old /\ <<i, "comp">> \in f.keys)
  BY RenamedInstanceShape
<1> HIDE DEF h
<1>2. old \in Insts /\ new \in Insts /\ old # new /\ f.mod[old] # None /\ f.mod[new] = None
  BY DEF PlacedIn
<1>3. Defined(h) = Defined(f)
  BY <1>1 DEF Defined
<1>4. PlacedIn(h) = (PlacedIn(f) \ {old}) \union {new}
  BY <1>1, <1>2 DEF PlacedIn
<1>5. RefsDefined(h)
  <2>1. ASSUME NEW i \in Insts, NEW k \in Keys, NEW u \in Vars, h.args[i][k] = Var(u)
        PROVE  u \in Defined(f)
    <3>1. i # old
      BY <1>1, <2>1, VarsAreNoLiterals
    <3>2. \E j \in Insts : f.args[j][k] = Var(u)
      BY <1>1, <1>2, <2>1, <3>1
    <3> QED BY <3>2 DEF Whole, RefsDefined
  <2> QED BY <1>1, <1>3, <2>1 DEF Whole, RefsDefined
<1>6. OnlyCallsTakeArgs(h)
  <2> SUFFICES ASSUME NEW i \in Insts, h.mod[i] = None, NEW k \in Keys
               PROVE  h.args[i][k] = NoArg
    BY DEF OnlyCallsTakeArgs
  <2>1. CASE i = old
    BY <1>1, <2>1
  <2>2. CASE i # old
    <3>1. i # new /\ f.mod[i] = None
      BY <1>1, <1>2, <2>2
    <3>2. f.args[i][k] = NoArg
      BY <3>1 DEF Whole, OnlyCallsTakeArgs
    <3> QED BY <1>1, <2>2, <3>1, <3>2
  <2> QED BY <2>1, <2>2
<1>7. Prunes(f, h)
  <2> SUFFICES ASSUME NEW u \in Referenced(f), u \notin Referenced(h) PROVE FALSE
    BY DEF Prunes
  <2>1. u \in Vars /\ Refs(h, u) = {} /\ Refs(f, u) # {}
    BY <1>1 DEF Referenced
  <2>2. PICK r \in Refs(f, u) : TRUE
    BY <2>1
  <2>3. /\ r[1] \in PlacedIn(f) /\ r[1] \in Insts /\ r[2] \in Keys
        /\ f.args[r[1]][r[2]] = Var(u)
    BY RefsAreCallArgs
  <2>4. CASE r[1] = old
    <3>1. h.args[new][r[2]] = Var(u)
      BY <1>1, <1>2, <2>3, <2>4
    <3>2. <<new, r[2]>> \in Refs(h, u)
      BY <1>4, <2>3, <3>1 DEF Refs
    <3> QED BY <2>1, <3>2
  <2>5. CASE r[1] # old
    <3>1. r[1] # new
      BY <2>3 DEF PlacedIn
    <3>2. h.args[r[1]][r[2]] = Var(u)
      BY <1>1, <2>3, <2>5, <3>1
    <3>3. <<r[1], r[2]>> \in Refs(h, u)
      BY <1>4, <2>3, <2>5, <3>2 DEF Refs
    <3> QED BY <2>1, <3>3
  <2> QED BY <2>4, <2>5
<1>8. KeepsJoins(f, h, {})
  <2> SUFFICES ASSUME NEW p \in Pins(f) \intersect Pins(h)
               PROVE  h.args[p[1]][p[2]] = f.args[p[1]][p[2]]
    BY <1>1, SameArgsSameJoins
  <2>1. p[1] \in PlacedIn(f) /\ p[1] \in PlacedIn(h) /\ p[1] \in Insts /\ p[2] \in Keys
    BY <1>1, PinsAreArgs
  <2>2. p[1] # old /\ p[1] # new
    BY <1>2, <1>4, <2>1
  <2> QED BY <1>1, <2>1, <2>2
<1>9. KeysHaveCalls(f) => KeysHaveCalls(h)
  BY <1>1, <1>2, <1>4 DEF KeysHaveCalls
<1> QED BY <1>1, <1>5, <1>6, <1>7, <1>8, <1>9 DEF Careful, Whole, h

--------------------------------------------------------------------------------
(* add_instance *)

\* A writer that has no build, or the build of the file it writes, snapshots
\* no positions of calls that are gone.
LEMMA SnapshotKeys ==
  ASSUME NEW sch
  PROVE  /\ Snapshot(sch) \subseteq (Insts \union Names) \X {"comp", "sym"}
         /\ \A f : sch \in {None, f} =>
              \A i \in Insts : <<i, "comp">> \in Snapshot(sch) => i \in PlacedIn(f)
  BY DEF Snapshot, PlacedIn

LEMMA PlacedArgsAreArgs ==
  ASSUME NEW i \in Insts, NEW m \in Modules, NEW attrs
  PROVE  /\ PlacedArgs(i, m, attrs) \in [Keys -> Exprs]
         /\ \A a \in Keys : \A v : PlacedArgs(i, m, attrs)[a] # Var(v)
<1>1. PlacedIos(m) \subseteq Ports
  BY DeclaresAssumption DEF PlacedIos, Facts
<1>2. \A a \in PlacedIos(m) : Lit(PlaceholderOf[i][a]) \in Exprs
  BY <1>1, PlaceholderAssumption, Arguments
<1>3. ASSUME NEW a \in Keys
      PROVE  /\ PlacedArgs(i, m, attrs)[a] \in Exprs
             /\ \A v : PlacedArgs(i, m, attrs)[a] # Var(v)
  <2>1. \/ PlacedArgs(i, m, attrs)[a] = Str
        \/ PlacedArgs(i, m, attrs)[a] = NoArg
        \/ a \in PlacedIos(m) /\ PlacedArgs(i, m, attrs)[a] = Lit(PlaceholderOf[i][a])
    BY DEF PlacedArgs
  <2> QED BY <2>1, <1>2, Arguments, VarsAreNoLiterals
<1>4. \E F : PlacedArgs(i, m, attrs) = [a \in Keys |-> F[a]]
  <2>1. PlacedArgs(i, m, attrs) = [a \in Keys |-> PlacedArgs(i, m, attrs)[a]]
    BY DEF PlacedArgs
  <2> QED BY <2>1
<1> QED BY <1>3, <1>4

LEMMA AddedShape ==
  ASSUME NEW f \in Files, NEW sch, NEW i \in Insts, NEW m \in Modules, NEW attrs,
         NEW positioned \in BOOLEAN
  PROVE  LET h == Added(f, sch, i, m, attrs, positioned)
         IN  /\ h \in Files /\ h.net = f.net /\ h.uses = f.uses
             /\ h.mod = [f.mod EXCEPT ![i] = m]
             /\ h.args = [f.args EXCEPT ![i] = PlacedArgs(i, m, attrs)]
             /\ h.keys \subseteq f.keys \union {<<i, "comp">>} \union Snapshot(sch)
<1> DEFINE placed == PlacedArgs(i, m, attrs)
           child == Cardinality(Declares[m].components) = 1
           higher == PlacedIn(f) \union {v \in Vars : \E j \in PlacedIn(f) : <<v, j>> \in f.above}
           mod   == [f.mod EXCEPT ![i] = m]
           args  == [f.args EXCEPT ![i] = placed]
           above == f.above \union (higher \X {i})
           g1 == [f EXCEPT !.mod = mod]
           g2 == [g1 EXCEPT !.args = args]
           g3 == [g2 EXCEPT !.above = above]
           binds == g3.binds \union {m}
           keys  == IF positioned /\ child THEN g3.keys \union {<<i, "comp">>} \union Snapshot(sch)
                                           ELSE g3.keys
           g4 == [g3 EXCEPT !.binds = binds]
           h  == [g4 EXCEPT !.keys = keys]
<1>1. g3 = AddCall(f, i, m, placed)
  BY DEF AddCall
<1>2. Added(f, sch, i, m, attrs, positioned) =
        [AddCall(f, i, m, placed) EXCEPT !.binds = binds, !.keys = keys]
  BY <1>1 DEF Added
<1>3. Added(f, sch, i, m, attrs, positioned) = h
  BY <1>1, <1>2
<1>4. mod \in [Insts -> Modules \union {None}]
  BY FieldsOfFile
<1>5. args \in [Insts -> [Keys -> Exprs]]
  BY FieldsOfFile, PlacedArgsAreArgs
<1>6. above \in SUBSET ((Vars \union Insts) \X Insts)
  BY FieldsOfFile DEF PlacedIn
<1> HIDE DEF placed, higher, mod, args, above
<1>7. g1 \in Files /\ g1.mod = mod /\ g1.net = f.net /\ g1.uses = f.uses /\ g1.keys = f.keys
  BY <1>4, ModChange
<1> HIDE DEF g1
<1>8. /\ g2 \in Files /\ g2.mod = mod /\ g2.args = args
      /\ g2.net = f.net /\ g2.uses = f.uses /\ g2.keys = f.keys
  BY <1>5, <1>7, ArgsChange
<1> HIDE DEF g2
<1>9. /\ g3 \in Files /\ g3.mod = mod /\ g3.args = args
      /\ g3.net = f.net /\ g3.uses = f.uses /\ g3.keys = f.keys
  BY <1>6, <1>8, AboveChange
<1> HIDE DEF g3
<1>10. binds \in SUBSET Modules
  BY <1>9, FieldsOfFile
<1>11. keys \in SUBSET ((Insts \union Names) \X {"comp", "sym"})
  BY <1>9, FieldsOfFile, SnapshotKeys
<1>12. keys \subseteq f.keys \union {<<i, "comp">>} \union Snapshot(sch)
  BY <1>9
<1> HIDE DEF binds, keys
<1>13. /\ g4 \in Files /\ g4.mod = mod /\ g4.args = args
       /\ g4.net = f.net /\ g4.uses = f.uses
  BY <1>9, <1>10, BindsChange
<1> HIDE DEF g4
<1>14. /\ h \in Files /\ h.mod = mod /\ h.args = args /\ h.keys = keys
       /\ h.net = f.net /\ h.uses = f.uses
  BY <1>11, <1>13, KeysChange
<1> HIDE DEF h
<1> QED BY <1>3, <1>12, <1>14 DEF mod, args, placed

LEMMA AddedIsSafe ==
  ASSUME NEW f \in Files, Whole(f), NEW sch, NEW i \in Insts, NEW m \in Modules, NEW attrs,
         NEW positioned \in BOOLEAN, f.mod[i] = None
  PROVE  LET h == Added(f, sch, i, m, attrs, positioned)
         IN  /\ h \in Files
             /\ Whole(h)
             /\ Prunes(f, h)
             /\ KeepsJoins(f, h, {})
             /\ KeysHaveCalls(f) /\ sch \in {None, f} => KeysHaveCalls(h)
<1> DEFINE h == Added(f, sch, i, m, attrs, positioned)
           placed == PlacedArgs(i, m, attrs)
<1>1. /\ h \in Files /\ h.net = f.net /\ h.uses = f.uses
      /\ h.mod = [f.mod EXCEPT ![i] = m]
      /\ h.args = [f.args EXCEPT ![i] = placed]
      /\ h.keys \subseteq f.keys \union {<<i, "comp">>} \union Snapshot(sch)
  BY AddedShape
<1>2. \A a \in Keys : \A v : placed[a] # Var(v)
  BY PlacedArgsAreArgs
<1>3. f.mod \in [Insts -> Modules \union {None}] /\ f.args \in [Insts -> [Keys -> Exprs]]
  BY FieldsOfFile
<1> HIDE DEF h, placed
<1>4. \A j \in Insts : /\ h.mod[j] = IF j = i THEN m ELSE f.mod[j]
                       /\ h.args[j] = IF j = i THEN placed ELSE f.args[j]
  BY <1>1, <1>3
<1>5. Defined(h) = Defined(f) /\ PlacedIn(h) = PlacedIn(f) \union {i} /\ i \notin PlacedIn(f)
  BY <1>1, <1>4, NoneIsOther DEF Defined, PlacedIn
<1>6. RefsDefined(h)
  <2>1. ASSUME NEW j \in Insts, NEW k \in Keys, NEW u \in Vars, h.args[j][k] = Var(u)
        PROVE  u \in Defined(f)
    <3>1. j # i
      BY <1>2, <1>4, <2>1
    <3>2. f.args[j][k] = Var(u)
      BY <1>4, <2>1, <3>1
    <3> QED BY <3>2 DEF Whole, RefsDefined
  <2> QED BY <1>1, <1>5, <2>1 DEF Whole, RefsDefined
<1>7. OnlyCallsTakeArgs(h)
  BY <1>4, NoneIsOther DEF Whole, OnlyCallsTakeArgs
<1>8. Prunes(f, h)
  <2> SUFFICES ASSUME NEW u \in Referenced(f), u \notin Referenced(h) PROVE FALSE
    BY DEF Prunes
  <2>1. u \in Vars /\ Refs(h, u) = {} /\ Refs(f, u) # {}
    BY <1>1 DEF Referenced
  <2>2. PICK r \in Refs(f, u) : TRUE
    BY <2>1
  <2>3. /\ r[1] \in PlacedIn(f) /\ r[1] \in Insts /\ r[2] \in Keys
        /\ f.args[r[1]][r[2]] = Var(u)
    BY RefsAreCallArgs
  <2>4. h.args[r[1]][r[2]] = Var(u)
    BY <1>4, <1>5, <2>3
  <2>5. <<r[1], r[2]>> \in Refs(h, u)
    BY <1>5, <2>3, <2>4 DEF Refs
  <2> QED BY <2>1, <2>5
<1>9. KeepsJoins(f, h, {})
  <2> SUFFICES ASSUME NEW p \in Pins(f) \intersect Pins(h)
               PROVE  h.args[p[1]][p[2]] = f.args[p[1]][p[2]]
    BY <1>1, SameArgsSameJoins
  <2>1. p[1] \in PlacedIn(f) /\ p[1] \in Insts
    BY <1>1, PinsAreArgs
  <2> QED BY <1>4, <1>5, <2>1
<1>10. KeysHaveCalls(f) /\ sch \in {None, f} => KeysHaveCalls(h)
  <2> SUFFICES ASSUME KeysHaveCalls(f), sch \in {None, f},
                      NEW j \in Insts, <<j, "comp">> \in h.keys
               PROVE  j \in PlacedIn(h)
    BY DEF KeysHaveCalls
  <2>1. <<j, "comp">> \in f.keys \/ j = i \/ <<j, "comp">> \in Snapshot(sch)
    BY <1>1
  <2> QED BY <1>5, <2>1, SnapshotKeys DEF KeysHaveCalls
<1> QED BY <1>1, <1>6, <1>7, <1>8, <1>9, <1>10 DEF Whole, h

--------------------------------------------------------------------------------
(* save_positions *)

LEMMA MovedIsSafe ==
  ASSUME NEW f \in Files, Whole(f), NEW sch, NEW S \in SUBSET Insts
  PROVE  LET h == Moved(f, sch, S)
         IN  /\ h \in Files
             /\ Whole(h)
             /\ Prunes(f, h)
             /\ KeepsJoins(f, h, {})
             /\ KeysHaveCalls(f) /\ sch \in {None, f} => KeysHaveCalls(h)
<1> DEFINE h == Moved(f, sch, S)
           known == {i \in S : sch # None /\ i \in PlacedIn(sch)}
           keys == f.keys \union (IF known # {} THEN Snapshot(sch) ELSE {})
                          \union ((S \ known) \X {"sym"})
           g == [f EXCEPT !.keys = keys]
<1>1. h = g
  BY DEF Moved
<1>2. keys \in SUBSET ((Insts \union Names) \X {"comp", "sym"})
  BY FieldsOfFile, SnapshotKeys
<1>3. \A i \in Insts : <<i, "comp">> \in keys =>
                         <<i, "comp">> \in f.keys \/ <<i, "comp">> \in Snapshot(sch)
  OBVIOUS
<1> HIDE DEF h, keys
<1>4. /\ g \in Files /\ g.keys = keys
      /\ g.net = f.net /\ g.mod = f.mod /\ g.args = f.args /\ g.uses = f.uses
  BY <1>2, KeysChange
<1> HIDE DEF g
<1>5. Defined(g) = Defined(f) /\ PlacedIn(g) = PlacedIn(f)
  BY <1>4 DEF Defined, PlacedIn
<1>6. Whole(g)
  BY <1>4, <1>5 DEF Whole, RefsDefined, OnlyCallsTakeArgs
<1>7. Prunes(f, g)
  BY <1>4, <1>5 DEF Prunes, Referenced, Refs
<1>8. KeepsJoins(f, g, {})
  BY <1>4, SameArgsSameJoins
<1>9. KeysHaveCalls(f) /\ sch \in {None, f} => KeysHaveCalls(g)
  BY <1>3, <1>4, <1>5, SnapshotKeys DEF KeysHaveCalls
<1> QED BY <1>1, <1>4, <1>6, <1>7, <1>8, <1>9 DEF h

--------------------------------------------------------------------------------
(* remove_instances *)

Dead(f, S) == {v \in Named(f) \ f.uses : Refs(f, v) # {} /\ Refs(f, v) \subseteq S \X Keys}

LEMMA RemovedShape ==
  ASSUME NEW f \in Files, NEW S \in SUBSET PlacedIn(f)
  PROVE  LET h == Removed(f, S)
         IN  /\ h \in Files /\ h.uses = f.uses
             /\ \A u \in Vars : h.net[u] = IF u \in Dead(f, S) THEN None ELSE f.net[u]
             /\ h.named = f.named \ Dead(f, S)
             /\ \A i \in Insts : h.mod[i] = IF i \in S THEN None ELSE f.mod[i]
             /\ \A i \in Insts, k \in Keys :
                  h.args[i][k] = IF i \in S THEN NoArg ELSE f.args[i][k]
             /\ h.keys = {k \in f.keys : k[1] \notin S}
<1> DEFINE dead == Dead(f, S)
           r == Prune(f, dead)
           mod   == [i \in Insts |-> IF i \in S THEN None ELSE r.mod[i]]
           args  == [i \in Insts |-> IF i \in S THEN [a \in Keys |-> NoArg] ELSE r.args[i]]
           above == {p \in r.above : p[1] \notin S /\ p[2] \notin S}
           binds == r.binds \ ({f.mod[i] : i \in S} \ {f.mod[i] : i \in PlacedIn(f) \ S})
           keys  == {k \in r.keys : k[1] \notin S}
           g1 == [r EXCEPT !.mod = mod]
           g2 == [g1 EXCEPT !.args = args]
           g3 == [g2 EXCEPT !.above = above]
           g4 == [g3 EXCEPT !.binds = binds]
           h  == [g4 EXCEPT !.keys = keys]
<1>1. Removed(f, S) = h
  BY DEF Removed, Dead
<1> HIDE DEF dead
<1>2. /\ r \in Files /\ r.mod = f.mod /\ r.args = f.args /\ r.uses = f.uses /\ r.keys = f.keys
      /\ r.net = [u \in Vars |-> IF u \in dead THEN None ELSE f.net[u]]
      /\ r.named = f.named \ dead
  BY PruneShape DEF Alike
<1> HIDE DEF r
<1>3. mod \in [Insts -> Modules \union {None}]
  BY <1>2, FieldsOfFile
<1>4. args \in [Insts -> [Keys -> Exprs]]
  <2>1. [a \in Keys |-> NoArg] \in [Keys -> Exprs]
    BY Arguments
  <2> QED BY <1>2, <2>1, FieldsOfFile
<1>5. above \in SUBSET ((Vars \union Insts) \X Insts) /\ binds \in SUBSET Modules
  BY <1>2, FieldsOfFile
<1>6. keys \in SUBSET ((Insts \union Names) \X {"comp", "sym"})
  BY <1>2, FieldsOfFile
<1>7. \A i \in Insts : mod[i] = IF i \in S THEN None ELSE f.mod[i]
  BY <1>2
<1>8. \A i \in Insts, k \in Keys : args[i][k] = IF i \in S THEN NoArg ELSE f.args[i][k]
  BY <1>2
<1>9. keys = {k \in f.keys : k[1] \notin S}
  BY <1>2
<1> HIDE DEF mod, args, above, binds, keys
<1>10. g1 \in Files /\ g1.mod = mod /\ g1.net = r.net /\ g1.named = r.named /\ g1.uses = r.uses
  BY <1>2, <1>3, ModChange
<1> HIDE DEF g1
<1>11. /\ g2 \in Files /\ g2.mod = mod /\ g2.args = args
       /\ g2.net = r.net /\ g2.named = r.named /\ g2.uses = r.uses
  BY <1>4, <1>10, ArgsChange
<1> HIDE DEF g2
<1>12. /\ g3 \in Files /\ g3.mod = mod /\ g3.args = args
       /\ g3.net = r.net /\ g3.named = r.named /\ g3.uses = r.uses
  BY <1>5, <1>11, AboveChange
<1> HIDE DEF g3
<1>13. /\ g4 \in Files /\ g4.mod = mod /\ g4.args = args
       /\ g4.net = r.net /\ g4.named = r.named /\ g4.uses = r.uses
  BY <1>5, <1>12, BindsChange
<1> HIDE DEF g4
<1>14. /\ h \in Files /\ h.mod = mod /\ h.args = args /\ h.keys = keys
       /\ h.net = r.net /\ h.named = r.named /\ h.uses = r.uses
  BY <1>6, <1>13, KeysChange
<1> HIDE DEF h
<1>15. \A u \in Vars : h.net[u] = IF u \in dead THEN None ELSE f.net[u]
  BY <1>2, <1>14
<1> QED BY <1>1, <1>2, <1>7, <1>8, <1>9, <1>14, <1>15 DEF dead

LEMMA RemovedIsCareful ==
  ASSUME NEW f \in Files, Whole(f), NEW S \in SUBSET PlacedIn(f)
  PROVE  Careful(f, Removed(f, S), {})
<1> DEFINE h == Removed(f, S)
           dead == Dead(f, S)
<1>1. /\ h \in Files /\ h.uses = f.uses
      /\ \A u \in Vars : h.net[u] = IF u \in dead THEN None ELSE f.net[u]
      /\ h.named = f.named \ dead
      /\ \A i \in Insts : h.mod[i] = IF i \in S THEN None ELSE f.mod[i]
      /\ \A i \in Insts, k \in Keys : h.args[i][k] = IF i \in S THEN NoArg ELSE f.args[i][k]
      /\ h.keys = {k \in f.keys : k[1] \notin S}
  BY RemovedShape
<1>2. \A u \in dead : u \notin f.uses /\ \A r \in Refs(f, u) : r[1] \in S
  BY DEF Dead
<1> HIDE DEF h, dead
<1>3. PlacedIn(h) = PlacedIn(f) \ S
  BY <1>1 DEF PlacedIn
<1>4. RefsDefined(h)
  <2>1. ASSUME NEW i \in Insts, NEW k \in Keys, NEW u \in Vars, h.args[i][k] = Var(u)
        PROVE  h.net[u] # None
    <3>1. i \notin S /\ f.args[i][k] = Var(u)
      BY <1>1, <2>1, VarsAreNoLiterals
    <3>2. f.net[u] # None /\ <<i, k>> \in Refs(f, u)
      BY <3>1, NetOfDefined, RefsHaveCalls DEF Whole, RefsDefined
    <3> QED BY <1>1, <1>2, <3>1, <3>2
  <2>2. ASSUME NEW u \in h.uses PROVE u \in Vars /\ h.net[u] # None
    <3>1. u \in f.uses /\ u \in Vars /\ f.net[u] # None
      BY <1>1 DEF Whole, RefsDefined, Defined
    <3> QED BY <1>1, <1>2, <3>1
  <2> QED BY <1>1, <2>1, <2>2, NetOfDefined DEF RefsDefined
<1>5. OnlyCallsTakeArgs(h)
  BY <1>1 DEF Whole, OnlyCallsTakeArgs
<1>6. Prunes(f, h)
  <2> SUFFICES ASSUME NEW u \in Referenced(f) \ Referenced(h), u \in Named(h) PROVE FALSE
    BY DEF Prunes
  <2>1. u \in Vars /\ u \notin f.uses /\ Refs(f, u) # {} /\ Refs(h, u) = {}
    BY <1>1 DEF Referenced
  <2>2. ASSUME NEW r \in Refs(f, u) PROVE r \in S \X Keys
    <3>1. /\ r[1] \in PlacedIn(f) /\ r[1] \in Insts /\ r[2] \in Keys /\ r = <<r[1], r[2]>>
          /\ f.args[r[1]][r[2]] = Var(u)
      BY RefsAreCallArgs
    <3>2. r[1] \in S
      <4> SUFFICES ASSUME r[1] \notin S PROVE FALSE
        OBVIOUS
      <4>1. h.args[r[1]][r[2]] = Var(u)
        BY <1>1, <3>1
      <4>2. r \in Refs(h, u)
        BY <1>3, <3>1, <4>1 DEF Refs
      <4> QED BY <2>1, <4>2
    <3> QED BY <3>1, <3>2
  <2>3. u \notin dead /\ u \in Named(f)
    BY <1>1 DEF Named, Defined
  <2> QED BY <2>1, <2>2, <2>3 DEF Dead, dead
<1>7. KeepsJoins(f, h, {})
  <2> SUFFICES ASSUME NEW p \in Pins(f) \intersect Pins(h)
               PROVE  h.args[p[1]][p[2]] = f.args[p[1]][p[2]]
    BY <1>1, SameArgsSameJoins
  <2>1. p[1] \in PlacedIn(h) /\ p[1] \in Insts /\ p[2] \in Keys
    BY <1>1, PinsAreArgs
  <2> QED BY <1>1, <1>3, <2>1
<1>8. KeysHaveCalls(f) => KeysHaveCalls(h)
  BY <1>1, <1>3 DEF KeysHaveCalls
<1> QED BY <1>1, <1>4, <1>5, <1>6, <1>7, <1>8 DEF Careful, Whole, h

--------------------------------------------------------------------------------
(* The inductive invariant: the file is whole, and its keys have calls as long *)
(* as no tool has written with a build that an edit had overtaken.             *)

NetInv == NetTypeOK /\ Whole(file) /\ PositionsFollowInstances

\* What the three action properties say of a step
PruneStep == last' # "attribute" => Prunes(file, file')

NeverMerges(f, h) ==
    \A p, q \in Pins(f) :
       (/\ ~Joined(f, p, q)
        /\ OnDef(f, p) /\ OnDef(f, q)
        /\ Spans(f, p) /\ Spans(f, q)) => ~Joined(h, p, q)

MergeStep == last' = "connect" => NeverMerges(file, file')

\* The joins that an edit of f into h changes are those of at most n pins.
ChangesFew(f, h, n) ==
    LET stay    == Pins(f) \intersect Pins(h)
        changed == {pq \in stay \X stay : Joined(f, pq[1], pq[2]) # Joined(h, pq[1], pq[2])}
    IN  \E S \in SUBSET stay :
           /\ Cardinality(S) <= n
           /\ \A pq \in changed : {pq[1], pq[2]} \intersect S # {}

JoinStep == last' # "merge" => ChangesFew(file, file', Touches(last'))

GoodStep == NetInv' /\ PruneStep /\ MergeStep /\ JoinStep

EditKinds == {"connect", "blind", "merge", "pin", "attribute", "other"}

Calls == [op : {"none", "add", "connect"}, sch : Files \union {None},
          ports : [Insts -> [PinNames -> SUBSET PinNames]]]

LEMMA JoinsOfFew ==
  ASSUME NEW f, NEW h, NEW T, KeepsJoins(f, h, T), IsFiniteSet(T), NEW n \in Nat,
         Cardinality(T) <= n
  PROVE  ChangesFew(f, h, n)
<1> DEFINE stay    == Pins(f) \intersect Pins(h)
           changed == {pq \in stay \X stay : Joined(f, pq[1], pq[2]) # Joined(h, pq[1], pq[2])}
           S == T \intersect stay
<1>1. Cardinality(S) <= n
  <2>1. S \in SUBSET T
    OBVIOUS
  <2>2. IsFiniteSet(S) /\ Cardinality(S) <= Cardinality(T)
    BY <2>1, FS_Subset
  <2>3. Cardinality(S) \in Nat /\ Cardinality(T) \in Nat
    BY <2>2, FS_CardinalityType
  <2> HIDE DEF S
  <2> QED BY <2>2, <2>3
<1>2. ASSUME NEW pq \in changed PROVE {pq[1], pq[2]} \intersect S # {}
  <2>1. pq[1] \in stay /\ pq[2] \in stay
    OBVIOUS
  <2>2. ~(Joined(f, pq[1], pq[2]) <=> Joined(h, pq[1], pq[2]))
    BY DEF Joined
  <2>3. pq[1] \in T \/ pq[2] \in T
    BY <2>1, <2>2 DEF KeepsJoins
  <2> QED BY <2>1, <2>3
<1> QED BY <1>1, <1>2 DEF ChangesFew

LEMMA NothingNamed == IsFiniteSet({}) /\ Cardinality({}) = 0
  BY FS_EmptySet

LEMMA OneNamed == \A e : IsFiniteSet({e}) /\ Cardinality({e}) = 1
  BY FS_Singleton

LEMMA TwoNamed ==
  ASSUME NEW a, NEW b, a # b
  PROVE  IsFiniteSet({a, b}) /\ Cardinality({a, b}) = 2
<1>1. IsFiniteSet({a}) /\ Cardinality({a}) = 1
  BY FS_Singleton
<1>2. {a, b} = {a} \union {b} /\ b \notin {a}
  OBVIOUS
<1>3. IsFiniteSet({a} \union {b}) /\ Cardinality({a} \union {b}) = Cardinality({a}) + 1
  BY <1>1, <1>2, FS_AddElement
<1> QED BY <1>1, <1>2, <1>3

LEMMA TouchesOf ==
    /\ Touches("connect") = 2 /\ Touches("blind") = 2
    /\ Touches("pin") = 1 /\ Touches("attribute") = 1
    /\ Touches("other") = 0 /\ Touches("merge") = 0
  BY DEF Touches

LEMMA AppliedStep ==
  ASSUME NetInv, NEW h, NEW kind \in EditKinds, NEW T, Apply(h, kind),
         h \in Files, Whole(h),
         kind # "attribute" => Prunes(file, h),
         kind = "connect" => NeverMerges(file, h),
         kind # "merge" => /\ KeepsJoins(file, h, T)
                           /\ IsFiniteSet(T) /\ Cardinality(T) <= Touches(kind),
         call' \in Calls, strayed' \in BOOLEAN, ~strayed' => KeysHaveCalls(h)
  PROVE  GoodStep
<1>1. file' = h /\ last' = kind /\ edits' = edits + 1 /\ UNCHANGED <<built, poisoned>>
  BY DEF Apply
<1>2. NetTypeOK'
  <2>1. edits' \in Nat
    BY <1>1 DEF NetInv, NetTypeOK
  <2> QED BY <1>1, <2>1 DEF NetInv, NetTypeOK, Calls, EditKinds
<1>3. Whole(file)' /\ PositionsFollowInstances'
  <2>1. Whole(file') /\ (~strayed' => KeysHaveCalls(file'))
    BY <1>1
  <2> QED BY <2>1 DEF PositionsFollowInstances, Whole, RefsDefined, OnlyCallsTakeArgs,
               KeysHaveCalls, Defined, PlacedIn
<1>4. PruneStep /\ MergeStep
  BY <1>1 DEF PruneStep, MergeStep
<1>5. JoinStep
  <2> SUFFICES ASSUME kind # "merge" PROVE ChangesFew(file, h, Touches(kind))
    BY <1>1 DEF JoinStep
  <2>1. Touches(kind) \in Nat
    BY TouchesOf DEF EditKinds
  <2> QED BY <2>1, JoinsOfFew
<1> QED BY <1>2, <1>3, <1>4, <1>5 DEF GoodStep, NetInv

\* A step that leaves the file alone
LEMMA QuietStep ==
  ASSUME NetInv, file' = file, last' \in EditKinds \ {"merge"}, built' \in Files, call' \in Calls,
         poisoned' \in BOOLEAN, edits' = edits, strayed' \in BOOLEAN, ~strayed' => ~strayed
  PROVE  GoodStep
<1>1. NetTypeOK'
  BY DEF NetInv, NetTypeOK, Calls, EditKinds
<1>2. Whole(file)' /\ PositionsFollowInstances'
  <2>1. Whole(file') /\ (~strayed' => KeysHaveCalls(file'))
    BY DEF NetInv, PositionsFollowInstances
  <2> QED BY <2>1 DEF PositionsFollowInstances, Whole, RefsDefined, OnlyCallsTakeArgs,
               KeysHaveCalls, Defined, PlacedIn
<1>3. PruneStep /\ MergeStep
  BY DEF PruneStep, MergeStep, Prunes, NeverMerges
<1>4. JoinStep
  <2>1. KeepsJoins(file, file, {})
    BY DEF KeepsJoins
  <2>2. Touches(last') \in Nat /\ 0 <= Touches(last')
    BY TouchesOf DEF EditKinds
  <2>3. ChangesFew(file, file, Touches(last'))
    BY <2>1, <2>2, NothingNamed, JoinsOfFew
  <2> QED BY <2>3 DEF JoinStep
<1> QED BY <1>1, <1>2, <1>3, <1>4 DEF GoodStep, NetInv

--------------------------------------------------------------------------------
(* Reading the build *)

LEMMA PortsForNetArePorts ==
  ASSUME NEW f, NEW i, NEW n
  PROVE  PortsForNet(f, i, n) \subseteq PinNames
  BY PortsAreKeys DEF PortsForNet

LEMMA SpelledArePins ==
  ASSUME NEW f, NEW sch, NEW i, NEW p \in PinNames
  PROVE  Spelled(f, sch, i, p) \in SUBSET PinNames
<1>1. CASE ~Inner(sch, i, p)
  BY <1>1 DEF Spelled
<1>2. CASE Inner(sch, i, p) /\ InnerNet(sch, i, p) # None
  <2>1. Spelled(f, sch, i, p) = PortsForNet(f, i, InnerNet(sch, i, p))
    BY <1>2 DEF Spelled
  <2> QED BY <2>1, PortsForNetArePorts
<1>3. CASE Inner(sch, i, p) /\ InnerNet(sch, i, p) = None
  BY <1>3 DEF Spelled
<1> QED BY <1>1, <1>2, <1>3

LEMMA ReachType ==
  ASSUME NEW sch
  PROVE  Reach(sch) \in [Insts -> [PinNames -> SUBSET PinNames]]
<1>1. \A i \in Insts, p \in PinNames : Spelled(file, sch, i, p) \in SUBSET PinNames
  BY SpelledArePins
<1> QED BY <1>1 DEF Reach

LEMMA IdleIsCall == Idle \in Calls
<1>1. [i \in Insts |-> [p \in PinNames |-> {}]] \in [Insts -> [PinNames -> SUBSET PinNames]]
  OBVIOUS
<1> QED BY <1>1 DEF Idle, Calls

LEMMA ReadStep ==
  ASSUME NetInv, NEW op \in {"add", "connect"},
         NEW ports \in [Insts -> [PinNames -> SUBSET PinNames]], ToolReads(op, ports)
  PROVE  GoodStep
<1>1. Schematic(built) \in Files \union {None}
  BY DEF NetInv, NetTypeOK, Schematic
<1>2. call' \in Calls
  BY <1>1 DEF ToolReads, Calls
<1>3. /\ file' = file /\ built' \in Files /\ poisoned' \in BOOLEAN /\ edits' = edits
      /\ strayed' = strayed /\ strayed \in BOOLEAN /\ last' = "other"
  BY DEF ToolReads, NetInv, NetTypeOK
<1> QED BY <1>2, <1>3, QuietStep DEF EditKinds

LEMMA ReadsAreGood ==
  ASSUME NetInv, ToolConnectReads \/ ToolAddReads \/ ToolRefused \/ Build
  PROVE  GoodStep
<1>1. CASE ToolConnectReads
  BY <1>1, ReachType, ReadStep DEF ToolConnectReads
<1>2. CASE ToolAddReads
  <2>1. Idle.ports \in [Insts -> [PinNames -> SUBSET PinNames]]
    BY IdleIsCall DEF Calls
  <2> QED BY <1>2, <2>1, ReadStep DEF ToolAddReads
<1>3. CASE ToolRefused
  <2>1. /\ file' = file /\ built' \in Files /\ poisoned' \in BOOLEAN /\ edits' = edits
        /\ strayed' = strayed /\ strayed \in BOOLEAN /\ last' = "other" /\ call' \in Calls
    BY <1>3, IdleIsCall DEF ToolRefused, NetInv, NetTypeOK
  <2> QED BY <2>1, QuietStep DEF EditKinds
<1>4. CASE Build
  <2>1. /\ file' = file /\ built' \in Files /\ poisoned' \in BOOLEAN /\ edits' = edits
        /\ strayed' = strayed /\ strayed \in BOOLEAN /\ last' = "other" /\ call' \in Calls
    BY <1>4 DEF Build, NetInv, NetTypeOK, Calls
  <2> QED BY <2>1, QuietStep DEF EditKinds
<1> QED BY <1>1, <1>2, <1>3, <1>4

--------------------------------------------------------------------------------
(* The writers *)

\* A writer that leaves the tool's call and the ghost alone
LEMMA CarefulStep ==
  ASSUME NetInv, NEW h, NEW kind \in {"pin", "other"}, NEW T, Apply(h, kind),
         UNCHANGED <<call, strayed>>, Careful(file, h, T),
         IsFiniteSet(T), Cardinality(T) <= Touches(kind)
  PROVE  GoodStep
<1>1. call' \in Calls /\ strayed' \in BOOLEAN
  BY DEF NetInv, NetTypeOK, Calls
<1>2. ~strayed' => KeysHaveCalls(h)
  BY DEF NetInv, PositionsFollowInstances, Careful
<1>3. /\ h \in Files /\ Whole(h) /\ Prunes(file, h) /\ KeepsJoins(file, h, T)
      /\ kind \in EditKinds /\ kind # "connect"
  BY DEF Careful, EditKinds
<1> QED BY <1>1, <1>2, <1>3, AppliedStep

LEMMA PanicStep ==
  ASSUME NetInv, Panic, call' \in Calls, strayed' \in BOOLEAN, ~strayed' => ~strayed
  PROVE  GoodStep
<1>1. /\ file' = file /\ built' \in Files /\ poisoned' \in BOOLEAN /\ edits' = edits
      /\ last' = "other"
  BY DEF Panic, NetInv, NetTypeOK
<1> QED BY <1>1, QuietStep DEF EditKinds

LEMMA ConnectStep ==
  ASSUME NetInv, NEW sch, NEW reach, Connect(sch, reach),
         call' \in Calls, strayed' \in BOOLEAN, ~strayed' => ~strayed
  PROVE  GoodStep
<1>1. PICK s \in Ends(reach), t \in Ends(reach), net \in Typed \union {None} :
         /\ s.end # t.end
         /\ \/ /\ CanConnect(file, sch, s.end, t.end, net)
               /\ Apply(Connected(file, sch, s.end, t.end, net),
                        IF sch = file THEN "connect" ELSE "blind")
            \/ /\ CanMerge(file, sch, s.end, t.end)
               /\ IF LacksLiteral(file, VarAt(file, t.end))
                  THEN Panic
                  ELSE Apply(Merged(file, s.end, t.end), "merge")
  BY DEF Connect
<1> DEFINE a == s.end
           b == t.end
<1>2. /\ a \in PlacedIn(file) \X Ports /\ b \in PlacedIn(file) \X Ports
      /\ net \in Names \union {None} /\ file \in Files /\ Whole(file)
  BY EndsAreArgs, TypedAssumption DEF NetInv, NetTypeOK
<1> HIDE DEF a, b
<1>3. ASSUME CanConnect(file, sch, a, b, net),
             Apply(Connected(file, sch, a, b, net), IF sch = file THEN "connect" ELSE "blind")
      PROVE  GoodStep
  <2> DEFINE h == Connected(file, sch, a, b, net)
             kind == IF sch = file THEN "connect" ELSE "blind"
  <2>1. Careful(file, h, {a, b})
    BY <1>2, ConnectedIsCareful
  <2>2. ASSUME kind = "connect" PROVE NeverMerges(file, h)
    <3>1. sch = file
      BY <2>2
    <3> SUFFICES ASSUME NEW p \in Pins(file), NEW q \in Pins(file), ~Joined(file, p, q),
                        OnDef(file, p), OnDef(file, q), Spans(file, p), Spans(file, q)
                 PROVE  ~Joined(Connected(file, file, a, b, net), p, q)
      BY <3>1 DEF NeverMerges
    <3> QED BY <1>2, <1>3, <3>1, ConnectedNeverMerges
  <2>3. a # b
    BY <1>1 DEF a, b
  <2>4. /\ kind \in EditKinds /\ kind # "merge" /\ kind # "attribute"
        /\ IsFiniteSet({a, b}) /\ Cardinality({a, b}) <= Touches(kind)
    <3>1. kind \in {"connect", "blind"}
      OBVIOUS
    <3>2. Touches(kind) = 2
      <4> HIDE DEF kind
      <4> QED BY <3>1, TouchesOf
    <3>3. IsFiniteSet({a, b}) /\ Cardinality({a, b}) = 2
      BY <2>3, TwoNamed
    <3> HIDE DEF kind
    <3> QED BY <3>1, <3>2, <3>3 DEF EditKinds
  <2>5. ~strayed' => KeysHaveCalls(h)
    BY <2>1 DEF Careful, NetInv, PositionsFollowInstances
  <2>6. h \in Files /\ Whole(h) /\ Prunes(file, h) /\ KeepsJoins(file, h, {a, b})
    BY <2>1 DEF Careful
  <2>7. Apply(h, kind)
    BY <1>3
  <2> HIDE DEF h, kind
  <2> QED BY <2>2, <2>4, <2>5, <2>6, <2>7, AppliedStep
<1>4. ASSUME CanMerge(file, sch, a, b), Apply(Merged(file, a, b), "merge")
      PROVE  GoodStep
  <2> DEFINE h == Merged(file, a, b)
  <2>1. OnDef(file, a) /\ OnDef(file, b) /\ ~Already(file, a, b)
    BY <1>4 DEF CanMerge, NeedsMerge, SharedNet
  <2>2. /\ h \in Files /\ Whole(h) /\ Prunes(file, h)
        /\ KeysHaveCalls(file) => KeysHaveCalls(h)
    BY <1>2, <2>1, MergedIsSafe
  <2>3. ~strayed' => KeysHaveCalls(h)
    BY <2>2 DEF NetInv, PositionsFollowInstances
  <2>4. Apply(h, "merge") /\ "merge" \in EditKinds
    BY <1>4 DEF EditKinds
  <2> HIDE DEF h
  <2> QED BY <2>2, <2>3, <2>4, AppliedStep
<1>5. ASSUME Panic PROVE GoodStep
  BY <1>5, PanicStep
<1> QED BY <1>1, <1>3, <1>4, <1>5 DEF a, b

LEMMA AddStep ==
  ASSUME NetInv, NEW sch, Add(sch),
         call' \in Calls, strayed' \in BOOLEAN, ~strayed' => ~strayed /\ sch \in {None, file}
  PROVE  GoodStep
<1>1. PICK i \in Insts, m \in Modules, attrs \in SUBSET Attrs, positioned \in BOOLEAN :
        /\ CanAdd(file, sch, i, m, attrs)
        /\ Apply(Added(file, sch, i, m, attrs, positioned), "other")
  BY DEF Add
<1> DEFINE h == Added(file, sch, i, m, attrs, positioned)
<1>2. file \in Files /\ Whole(file) /\ file.mod[i] = None
  BY <1>1 DEF CanAdd, NetInv, NetTypeOK
<1>3. /\ h \in Files /\ Whole(h) /\ Prunes(file, h) /\ KeepsJoins(file, h, {})
      /\ KeysHaveCalls(file) /\ sch \in {None, file} => KeysHaveCalls(h)
  BY <1>2, AddedIsSafe
<1>4. Apply(h, "other")
  BY <1>1
<1> HIDE DEF h
<1>5. ~strayed' => KeysHaveCalls(h)
  BY <1>3 DEF NetInv, PositionsFollowInstances
<1>6. "other" \in EditKinds /\ IsFiniteSet({}) /\ Cardinality({}) <= Touches("other")
  BY NothingNamed, TouchesOf DEF EditKinds
<1> QED BY <1>3, <1>4, <1>5, <1>6, AppliedStep

LEMMA NetNames ==
  ASSUME NetInv
  PROVE  file \in Files /\ Whole(file) /\ Typed \subseteq Names
  BY TypedAssumption DEF NetInv, NetTypeOK

LEMMA Numbers ==
    /\ IsFiniteSet({}) /\ Cardinality({}) <= Touches("other")
    /\ \A e : IsFiniteSet({e}) /\ Cardinality({e}) <= Touches("pin")
    /\ \A e : IsFiniteSet({e}) /\ Cardinality({e}) <= Touches("attribute")
<1>1. IsFiniteSet({}) /\ Cardinality({}) = 0 /\ Touches("other") = 0
  BY NothingNamed, TouchesOf
<1>2. Touches("pin") = 1 /\ Touches("attribute") = 1
  BY TouchesOf
<1>3. \A e : IsFiniteSet({e}) /\ Cardinality({e}) <= 1
  <2> TAKE e
  <2>1. IsFiniteSet({e}) /\ Cardinality({e}) = 1
    BY OneNamed
  <2> QED BY <2>1
<1>4. Cardinality({}) <= Touches("other")
  BY <1>1
<1>5. \A e : IsFiniteSet({e}) /\ Cardinality({e}) <= Touches("pin")
  <2> TAKE e
  <2> QED BY <1>2, <1>3
<1>6. \A e : IsFiniteSet({e}) /\ Cardinality({e}) <= Touches("attribute")
  <2> TAKE e
  <2> QED BY <1>2, <1>3
<1> QED BY <1>1, <1>4, <1>5, <1>6

LEMMA DetachableAreArgs ==
  ASSUME NetInv, NEW e \in Detachable
  PROVE  e \in PlacedIn(file) \X Ports /\ OnDef(file, e)
<1>1. PICK ip \in Insts \X PinNames : e \in Endpoints(file, ip[1], {ip[2]}) /\ OnDef(file, e)
  BY DEF Detachable
<1>2. ip[1] \in Insts
  OBVIOUS
<1> QED BY <1>1, <1>2, NetNames, EndpointsAreArgs

LEMMA DisconnectStep ==
  ASSUME NetInv, NEW e \in Detachable, Panic \/ Apply(Disconnected(file, e), "pin"),
         UNCHANGED <<call, strayed>>
  PROVE  GoodStep
<1>1. CASE Panic
  <2>1. call' \in Calls /\ strayed' \in BOOLEAN /\ (~strayed' => ~strayed)
    BY DEF NetInv, NetTypeOK, Calls
  <2> QED BY <1>1, <2>1, PanicStep
<1>2. CASE Apply(Disconnected(file, e), "pin")
  <2>1. Careful(file, Disconnected(file, e), {e})
    BY NetNames, DetachableAreArgs, DisconnectedIsCareful
  <2> QED BY <1>2, <2>1, Numbers, CarefulStep
<1> QED BY <1>1, <1>2

LEMMA AttachStep ==
  ASSUME NetInv, CanvasAttach
  PROVE  GoodStep
<1>0. PICK i \in Insts, p \in PinNames, n \in Typed :
        \E e \in Endpoints(file, i, Spelled(file, Schematic(built), i, p)) :
           Canvas(Attached(file, e, n), "pin")
  BY DEF CanvasAttach
<1>1. PICK e \in Endpoints(file, i, Spelled(file, Schematic(built), i, p)) :
        Canvas(Attached(file, e, n), "pin")
  BY <1>0
<1>2. e \in PlacedIn(file) \X Ports /\ n \in Names
  BY NetNames, EndpointsAreArgs
<1>3. Careful(file, Attached(file, e, n), {e})
  BY <1>2, NetNames, AttachedIsCareful
<1>4. Apply(Attached(file, e, n), "pin") /\ UNCHANGED <<call, strayed>>
  BY <1>1 DEF Canvas
<1> QED BY <1>3, <1>4, Numbers, CarefulStep

LEMMA NetStep ==
  ASSUME NetInv, ToolCreateNet \/ CanvasRenameNet \/ ToolRenameNet
  PROVE  GoodStep
<1>1. CASE ToolCreateNet
  <2>1. PICK n \in Typed : Apply(Define(file, n, {}), "other") /\ UNCHANGED <<call, strayed>>
    BY <1>1 DEF ToolCreateNet
  <2>2. Careful(file, Define(file, n, {}), {})
    BY NetNames, DefineIsCareful
  <2> QED BY <2>1, <2>2, Numbers, CarefulStep
<1>2. CASE CanvasRenameNet \/ ToolRenameNet
  <2>1. PICK v \in Defined(file), new \in Typed :
          /\ CanRenameNet(file, v, new)
          /\ Apply(RenamedNet(file, v, new), "other") /\ UNCHANGED <<call, strayed>>
    BY <1>2 DEF CanvasRenameNet, ToolRenameNet, Canvas
  <2>2. Careful(file, RenamedNet(file, v, new), {})
    BY <2>1, NetNames, RenamedNetIsCareful
  <2> QED BY <2>1, <2>2, Numbers, CarefulStep
<1> QED BY <1>1, <1>2

LEMMA InstanceStep ==
  ASSUME NetInv, CanvasRenameInstance \/ ToolRenameInstance \/ CanvasRemove \/ ToolRemove
  PROVE  GoodStep
<1>1. CASE CanvasRenameInstance \/ ToolRenameInstance
  <2>1. PICK old \in PlacedIn(file), new \in Insts \ PlacedIn(file) :
          Apply(RenamedInstance(file, old, new), "other") /\ UNCHANGED <<call, strayed>>
    BY <1>1 DEF CanvasRenameInstance, ToolRenameInstance, Canvas
  <2>2. Careful(file, RenamedInstance(file, old, new), {})
    BY NetNames, RenamedInstanceIsCareful
  <2> QED BY <2>1, <2>2, Numbers, CarefulStep
<1>2. CASE CanvasRemove \/ ToolRemove
  <2>1. PICK S \in SUBSET PlacedIn(file) :
          Apply(Removed(file, S), "other") /\ UNCHANGED <<call, strayed>>
    BY <1>2 DEF CanvasRemove, ToolRemove, Canvas, Tool
  <2>2. Careful(file, Removed(file, S), {})
    BY NetNames, RemovedIsCareful
  <2> QED BY <2>1, <2>2, Numbers, CarefulStep
<1> QED BY <1>1, <1>2

LEMMA AttributeStep ==
  ASSUME NetInv, CanvasSetAttribute \/ ToolSetAttribute
  PROVE  GoodStep
<1>1. PICK i \in PlacedIn(file), a \in Keys :
        Apply(SetArg(file, i, a, Str), "attribute") /\ UNCHANGED <<call, strayed>>
  BY DEF CanvasSetAttribute, ToolSetAttribute, Canvas, Tool
<1> DEFINE h == SetArg(file, i, a, Str)
<1>2. /\ h \in Files /\ Whole(h) /\ KeepsJoins(file, h, {<<i, a>>})
      /\ KeysHaveCalls(file) => KeysHaveCalls(h)
  BY NetNames, SetToStringIsSafe
<1>3. Apply(h, "attribute")
  BY <1>1
<1> HIDE DEF h
<1>4. call' \in Calls /\ strayed' \in BOOLEAN /\ (~strayed' => KeysHaveCalls(h))
  BY <1>1, <1>2 DEF NetInv, NetTypeOK, Calls, PositionsFollowInstances
<1>5. /\ "attribute" \in EditKinds
      /\ IsFiniteSet({<<i, a>>}) /\ Cardinality({<<i, a>>}) <= Touches("attribute")
  BY Numbers DEF EditKinds
<1> QED BY <1>2, <1>3, <1>4, <1>5, AppliedStep

LEMMA MoveStep ==
  ASSUME NetInv, SavePositions \/ SetPositions
  PROVE  GoodStep
<1>1. PICK S \in SUBSET Insts, sch \in {None, file} :
        Apply(Moved(file, sch, S), "other") /\ UNCHANGED <<call, strayed>>
  <2>1. CASE SavePositions
    <3>1. PICK S \in SUBSET Insts : Canvas(Moved(file, Schematic(built), S), "other")
      BY <2>1 DEF SavePositions
    <3>2. Schematic(built) \in {None, file}
      BY <3>1 DEF Canvas, Guarded, Schematic
    <3> QED BY <3>1, <3>2 DEF Canvas
  <2>2. CASE SetPositions
    <3>1. PICK S \in SUBSET PlacedIn(built) : Tool(Moved(file, built, S), "other")
      BY <2>2 DEF SetPositions
    <3>2. built = file /\ S \in SUBSET Insts
      BY <2>2 DEF SetPositions, Guarded, PlacedIn
    <3> QED BY <3>1, <3>2 DEF Tool
  <2> QED BY <2>1, <2>2
<1> DEFINE h == Moved(file, sch, S)
<1>2. /\ h \in Files /\ Whole(h) /\ Prunes(file, h) /\ KeepsJoins(file, h, {})
      /\ KeysHaveCalls(file) => KeysHaveCalls(h)
  BY NetNames, MovedIsSafe
<1>3. Careful(file, h, {})
  BY <1>2 DEF Careful
<1> HIDE DEF h
<1> QED BY <1>1, <1>3, Numbers, CarefulStep DEF h

--------------------------------------------------------------------------------
(* Every step, and what follows *)

LEMMA NetStepIsGood ==
  ASSUME NetInv, Next
  PROVE  GoodStep
<1>1. CASE CanvasConnect
  <2>1. call' \in Calls /\ strayed' \in BOOLEAN /\ (~strayed' => ~strayed)
    BY <1>1 DEF CanvasConnect, NetInv, NetTypeOK, Calls
  <2>2. Connect(Schematic(built), Reach(Schematic(built)))
    BY <1>1 DEF CanvasConnect
  <2> QED BY <2>1, <2>2, ConnectStep
<1>2. CASE ToolConnect
  <2>1. call' \in Calls /\ strayed' \in BOOLEAN /\ (~strayed' => ~strayed)
    BY <1>2, IdleIsCall DEF ToolConnect, ToolWrites, NetInv, NetTypeOK
  <2>2. Connect(call.sch, call.ports)
    BY <1>2 DEF ToolConnect
  <2> QED BY <2>1, <2>2, ConnectStep
<1>3. CASE CanvasAdd
  <2>1. call' \in Calls /\ strayed' \in BOOLEAN /\ (~strayed' => ~strayed)
    BY <1>3 DEF CanvasAdd, NetInv, NetTypeOK, Calls
  <2>2. Add(Schematic(built)) /\ Schematic(built) \in {None, file}
    BY <1>3 DEF CanvasAdd, Guarded, Schematic
  <2> QED BY <2>1, <2>2, AddStep
<1>4. CASE ToolAdd
  <2>1. call' \in Calls /\ strayed' \in BOOLEAN
    BY <1>4, IdleIsCall DEF ToolAdd, ToolWrites, NetInv, NetTypeOK
  <2>2. ~strayed' => ~strayed /\ call.sch \in {None, file}
    BY <1>4 DEF ToolAdd, ToolWrites
  <2>3. Add(call.sch)
    BY <1>4 DEF ToolAdd
  <2> QED BY <2>1, <2>2, <2>3, AddStep
<1>5. CASE CanvasDisconnect
  BY <1>5, DisconnectStep DEF CanvasDisconnect, Canvas
<1>6. CASE ToolDisconnect
  BY <1>6, DisconnectStep DEF ToolDisconnect, Tool
<1>7. CASE Write
  BY <1>1, <1>2, <1>3, <1>4, <1>5, <1>6, <1>7, AttachStep, NetStep, InstanceStep, AttributeStep,
     MoveStep DEF Write
<1> QED BY <1>7, ReadsAreGood DEF Next

LEMMA NetInitHolds == Init => NetInv
<1> SUFFICES ASSUME Init PROVE NetInv
  OBVIOUS
<1>1. file \in Files /\ built \in Files /\ Whole(file) /\ KeysHaveCalls(file)
  BY BoardsAssumption, WholeBoardsAssumption DEF Init, Whole
<1>2. NetTypeOK
  BY <1>1, IdleIsCall DEF Init, NetTypeOK, Calls
<1> QED BY <1>1, <1>2 DEF NetInv, PositionsFollowInstances

LEMMA NetStutter == NetInv /\ UNCHANGED vars => NetInv'
<1> SUFFICES ASSUME NetInv, UNCHANGED vars PROVE NetInv'
  OBVIOUS
<1>1. /\ file' = file /\ built' = built /\ call' = call /\ poisoned' = poisoned
      /\ edits' = edits /\ last' = last /\ strayed' = strayed
  BY DEF vars
<1>2. NetTypeOK'
  BY <1>1 DEF NetInv, NetTypeOK
<1>3. Whole(file') /\ (~strayed' => KeysHaveCalls(file'))
  BY <1>1 DEF NetInv, PositionsFollowInstances
<1> QED BY <1>2, <1>3 DEF NetInv, PositionsFollowInstances, Whole, RefsDefined,
             OnlyCallsTakeArgs, KeysHaveCalls, Defined, PlacedIn

LEMMA NetInvHolds == Spec => []NetInv
<1>1. Init => NetInv
  BY NetInitHolds
<1>2. NetInv /\ [Next]_vars => NetInv'
  BY NetStepIsGood, NetStutter DEF GoodStep
<1> QED BY <1>1, <1>2, PTL DEF Spec

\* Every edit writes a file of the shape the program reads, whatever it prunes,
\* renames or redirects.
THEOREM EditsWriteFiles == Spec => []NetTypeOK
<1>1. NetInv => NetTypeOK
  BY DEF NetInv
<1> QED BY <1>1, NetInvHolds, PTL

\* No edit leaves a reference to a net that is not defined (edit.rs's auto-prune,
\* redirections and renames).
THEOREM EditsLeaveNoDanglingRefs == Spec => []NoDanglingRefs
<1>1. NetInv => NoDanglingRefs
  BY DEF NetInv, Whole, NoDanglingRefs
<1> QED BY <1>1, NetInvHolds, PTL

\* Component keys belong to placed instances as long as no tool wrote with a
\* build that an edit had overtaken (edit.rs, remove_instances, rename_instance).
THEOREM PositionsFollow == Spec => []PositionsFollowInstances
<1>1. NetInv => PositionsFollowInstances
  BY DEF NetInv
<1> QED BY <1>1, NetInvHolds, PTL

\* Only set_attribute leaves behind a spelled definition whose last reference it
\* removed (the auto-prune of the other writers).
THEOREM EditsPruneOrphans == Spec => OrphansArePruned
<1>1. NetInv /\ [Next]_vars =>
        [last' # "attribute" =>
           \A v \in Referenced(file) \ Referenced(file') : v \notin Named(file')]_vars
  <2> SUFFICES ASSUME NetInv, Next, last' # "attribute"
               PROVE  \A v \in Referenced(file) \ Referenced(file') : v \notin Named(file')
    OBVIOUS
  <2> QED BY NetStepIsGood DEF GoodStep, PruneStep, Prunes
<1> QED BY <1>1, NetInvHolds, PTL DEF Spec, OrphansArePruned

\* Two spanning nets become one only in a confirmed merge, when the writer has
\* the build of the file it writes (ConnectPinsRequest.allow_merge).
THEOREM NetsAreNotMergedSilently == Spec => NoSilentMerge
<1>1. NetInv /\ [Next]_vars =>
        [last' = "connect" =>
           \A p, q \in Pins(file) :
              (/\ ~Joined(file, p, q)
               /\ OnDef(file, p) /\ OnDef(file, q)
               /\ Spans(file, p) /\ Spans(file, q)) => ~Joined(file', p, q)]_vars
  <2> SUFFICES ASSUME NetInv, Next, last' = "connect"
               PROVE  \A p, q \in Pins(file) :
                         (/\ ~Joined(file, p, q)
                          /\ OnDef(file, p) /\ OnDef(file, q)
                          /\ Spans(file, p) /\ Spans(file, q)) => ~Joined(file', p, q)
    OBVIOUS
  <2> QED BY NetStepIsGood DEF GoodStep, MergeStep, NeverMerges
<1> QED BY <1>1, NetInvHolds, PTL DEF Spec, NoSilentMerge

\* Apart from a merge, an edit changes the connections of at most the pins it
\* names; all others stay joined as they were.
THEOREM OtherPinsStayJoined == Spec => OtherPinsKeepTheirNets
<1>1. NetInv /\ [Next]_vars =>
        [last' # "merge" =>
           LET stay    == Pins(file) \intersect Pins(file')
               changed == {pq \in stay \X stay :
                              Joined(file, pq[1], pq[2]) # Joined(file', pq[1], pq[2])}
           IN  \E S \in SUBSET stay :
                  /\ Cardinality(S) <= Touches(last')
                  /\ \A pq \in changed : {pq[1], pq[2]} \intersect S # {}]_vars
  <2> SUFFICES ASSUME NetInv, Next, last' # "merge"
               PROVE  ChangesFew(file, file', Touches(last'))
    BY DEF ChangesFew
  <2> QED BY NetStepIsGood DEF GoodStep, JoinStep
<1> QED BY <1>1, NetInvHolds, PTL DEF Spec, OtherPinsKeepTheirNets

================================================================================
