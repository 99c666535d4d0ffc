------------------------------- MODULE Netlist -------------------------------
(***************************************************************************)
(* What the edit layer sees of one .zen file (crates/zen-build/src/edit.rs, *)
(* index_content): its net definitions, its instantiation calls with their *)
(* arguments, its module bindings, and the keys of its `# pcb:sch' block.   *)
(* Text, spans and formatting are left out; what is kept of the order of    *)
(* statements is which of them stand above which call, because the program  *)
(* is evaluated from top to bottom.                                         *)
(*                                                                          *)
(* A module's own file is known by what module_facts reads from it and by   *)
(* what the evaluator demands of an instantiation.                          *)
(***************************************************************************)
EXTENDS FiniteSets, Functions

CONSTANTS
    Insts,         \* names an instantiation may carry
    Modules,       \* modules that can be instantiated
    Ports,         \* io identifiers
    PinNames,      \* how users name pins: io identifiers, component pins, inner pins
    Attrs,         \* config() parameters
    Names,         \* names of nets
    Vars,          \* identifiers of a file
    None,
    VarOf,         \* net_variable: the identifier of a net's name
    PlaceholderOf, \* "{instance}_{io}", by instance and io
    BindOf,        \* the identifier a module is bound to
    Declares,      \* what the module's source declares, by module
    Binders        \* what the file's nested scopes bind

ASSUME VarAssumption == VarOf \in [Names -> Vars]
ASSUME PinAssumption == Ports \subseteq PinNames
ASSUME PlaceholderAssumption == PlaceholderOf \in [Insts -> [Ports -> Names]]
ASSUME BindAssumption == BindOf \in [Modules -> Vars]
ASSUME BindersAssumption ==
    Binders \subseteq [kind : {"def", "lambda", "for", "comprehension"}, binds : Vars]
ASSUME NoneAssumption == None \notin Names \union Modules \union Vars

(***************************************************************************)
(* A module's source: the ios it declares literally, those of them that are *)
(* optional, the ios that only the evaluator finds (a comprehension), the   *)
(* configs, those without a default, one pin dictionary per Component call, *)
(* the inner pins on an io's net that no pin dictionary names, and whether  *)
(* the workspace can evaluate it.                                           *)
(***************************************************************************)
ASSUME DeclaresAssumption ==
    \A m \in Modules : /\ Declares[m].ios \subseteq Ports
                       /\ Declares[m].optional \subseteq Ports
                       /\ Declares[m].computed \subseteq Ports
                       /\ Declares[m].configs \subseteq Attrs
                       /\ Declares[m].needed \subseteq Attrs
                       /\ \A d \in Declares[m].components : Range(d) \subseteq Ports
                       /\ Range(Declares[m].inner) \subseteq Ports

NoPins == [p \in {} |-> None]

\* module_facts: everything it can read from literals, and nothing at all
\* when a second Component call makes the child ambiguous.
Facts(m) ==
    LET d == Declares[m]
        clear == Cardinality(d.components) <= 1
    IN  [required |-> IF clear THEN d.ios \ d.optional ELSE {},
         pins     |-> IF clear /\ d.components # {} THEN CHOOSE c \in d.components : TRUE
                                                    ELSE NoPins,
         configs  |-> IF clear THEN d.configs ELSE {},
         needed   |-> IF clear THEN d.needed ELSE {}]

\* The ios a placement writes: those the preflight finds the evaluator to
\* require, or the statically visible ones when the module does not evaluate.
PlacedIos(m) ==
    IF Declares[m].evaluates
    THEN (Declares[m].ios \ Declares[m].optional) \union Declares[m].computed
    ELSE Facts(m).required

-----------------------------------------------------------------------------
(* The file *)

\* The value of an argument: a reference, an inline Net("...") placeholder, a
\* string, or (NoArg) no argument at all.
Var(v) == [k |-> "var", x |-> v]
Lit(n) == [k |-> "lit", x |-> n]
Str    == [k |-> "str", x |-> None]
NoArg  == [k |-> "none", x |-> None]

Exprs == [k : {"var"}, x : Vars] \union [k : {"lit"}, x : Names] \union {Str, NoArg}
Keys  == Ports \union Attrs

\* net: the name of the net a variable defines, if it does; named: those
\* that spell it (`SW = Net()' takes its variable's).  mod, args: the calls.
\* above: <<s, i>> when the definition or call s stands above the call i.
\* uses: identifiers referenced outside instantiations.  keys: <<n, "comp">>
\* is a component's position (`n.R'), <<n, "sym">> one of net n's symbols.
Files == [net   : [Vars -> Names \union {None}],
          named : SUBSET Vars,
          mod   : [Insts -> Modules \union {None}],
          args  : [Insts -> [Keys -> Exprs]],
          above : SUBSET ((Vars \union Insts) \X Insts),
          binds : SUBSET Modules,
          uses  : SUBSET Vars,
          keys  : SUBSET ((Insts \union Names) \X {"comp", "sym"})]

\* A file is not None.
ASSUME FilesAssumption == None \notin Files

Defined(f)    == {v \in Vars : f.net[v] # None}
PlacedIn(f)   == {i \in Insts : f.mod[i] # None}
Bound(f)      == Defined(f) \union {BindOf[m] : m \in f.binds}
Named(f)      == {v \in Defined(f) : v \in f.named}
Called(f, n)  == {v \in Vars : f.net[v] = n}

\* FileIndex::net_by_name: the definitions with a literal come first.
NetByName(f, n) ==
    CHOOSE v \in Called(f, n) : Called(f, n) \intersect f.named # {} => v \in f.named

\* ident_ref_spans, for references that are arguments of calls.
Refs(f, v)   == {r \in PlacedIn(f) \X Keys : f.args[r[1]][r[2]] = Var(v)}
\* Mutant of OneRef: only arguments of calls count.
OneRefInCalls(f, v) == \E r \in Refs(f, v) : Refs(f, v) = {r}

OneRef(f, v) == v \notin f.uses /\ \E r \in Refs(f, v) : Refs(f, v) = {r}

\* ident_is_shadowed: a parameter, a loop target or a comprehension's variable
\* of that name makes a rewrite of references ambiguous.
IsShadowed(v) == \E b \in Binders : b.binds = v

-----------------------------------------------------------------------------
(* Elementary edits *)

SetArg(f, i, a, e) == [f EXCEPT !.args[i][a] = e]

\* Deleting definitions deletes their lines.
Prune(f, vs) == [f EXCEPT !.net   = [v \in Vars |-> IF v \in vs THEN None ELSE @[v]],
                          !.named = @ \ vs,
                          !.above = {p \in @ : p[1] \notin vs}]

\* net_def_anchor: below the last definition that spells its name, else below
\* the bindings (above every call); but above the given calls.
BelowAnchor(f, sites) ==
    {i \in PlacedIn(f) : \/ \A v \in Named(f) : <<v, i>> \in f.above
                         \/ i \in sites
                         \/ \E s \in sites : <<s, i>> \in f.above}

Define(f, n, sites) ==
    [f EXCEPT !.net[VarOf[n]] = n,
              !.named = @ \union {VarOf[n]},
              !.above = @ \union ({VarOf[n]} \X BelowAnchor(f, sites))]

\* A new call goes below the last call, or, when there is none, below the
\* bindings and so above the definitions that follow them.
AddCall(f, i, m, args) ==
    LET higher == PlacedIn(f) \union {v \in Vars : \E j \in PlacedIn(f) : <<v, j>> \in f.above}
    IN  [f EXCEPT !.mod[i] = m, !.args[i] = args, !.above = @ \union (higher \X {i})]

\* Every reference to v, wherever it is, becomes a reference to w.
Redirect(f, v, w) ==
    [f EXCEPT !.args = [i \in Insts |-> [a \in Keys |-> IF @[i][a] = Var(v) THEN Var(w)
                                                                          ELSE @[i][a]]],
              !.uses = IF v \in @ THEN (@ \ {v}) \union {w} ELSE @]

-----------------------------------------------------------------------------
(* What the evaluator makes of it: pins are joined when their arguments name *)
(* the same definition; an inline literal is a net of its own.               *)

Pins(f) == {p \in PlacedIn(f) \X Ports : f.args[p[1]][p[2]].k \in {"var", "lit"}}

Joined(f, p, q) ==
    /\ {p, q} \subseteq Pins(f)
    /\ \/ p = q
       \/ f.args[p[1]][p[2]].k = "var" /\ f.args[p[1]][p[2]] = f.args[q[1]][q[2]]

\* A port through which the net reaches more than one pin: those its own
\* component wires to the io and those of the module's innards.
Wide(f, p) ==
    LET d == Declares[f.mod[p[1]]]
        behind == {wire \in (d.components \union {d.inner}) \X PinNames :
                      wire[2] \in DOMAIN wire[1] /\ wire[1][wire[2]] = p[2]}
    IN  Cardinality(behind) > 1

\* The net of pin p spans more than one component pin.
Spans(f, p) == \E q \in Pins(f) : Joined(f, p, q) /\ (q # p \/ Wide(f, q))

\* Every definition stands above the calls that refer to it.
DefsAboveUses(f) ==
    \A i \in PlacedIn(f), a \in Keys, v \in Vars :
        f.args[i][a] = Var(v) => <<v, i>> \in f.above

-----------------------------------------------------------------------------
(* What makes a file whole *)

\* Every identifier a call or another statement refers to as a net is defined.
RefsDefined(f) ==
    /\ \A i \in Insts, a \in Keys, v \in Vars : f.args[i][a] = Var(v) => v \in Defined(f)
    /\ f.uses \subseteq Defined(f)

\* A name no call carries has no arguments.
OnlyCallsTakeArgs(f) ==
    \A i \in Insts : f.mod[i] = None => \A a \in Keys : f.args[i][a] = NoArg

\* The position block has no component key without its call.
KeysHaveCalls(f) == \A i \in Insts : <<i, "comp">> \in f.keys => i \in PlacedIn(f)

=============================================================================
