------------------------------ MODULE Placement ------------------------------
(***************************************************************************)
(* Placing a component (crates/zen-build/src/edit.rs): before the board is  *)
(* touched the evaluator is asked, with a scratch file at the root of the   *)
(* workspace, which inputs the instantiation needs.  What it finds is kept  *)
(* by module and modification time, so that arming a palette item warms     *)
(* the drop.                                                                *)
(*                                                                          *)
(* Drops are gestures and run one at a time behind the write gate; arming   *)
(* runs on a thread of its own, as often as the user arms.  They all use    *)
(* the same scratch file.                                                   *)
(***************************************************************************)
EXTENDS Components

CONSTANTS
    Generics,     \* modules of the standard library
    Demands,      \* per part and generic: its required inputs and their types
    Constructible \* the types the canvas can construct: built in or loadable

VARIABLES
    scratch,      \* .etchable-probe.zen: the instantiation it holds
    pre,          \* per task: the evaluation under way
    preflights,   \* the cache: the inputs found, by key
    unproven      \* ghost: keys whose evaluation ran beside another one

placementVars == <<scratch, pre, preflights, unproven>>

Specs == CompNames \union Generics
Inputs == UNION {DOMAIN Demands[m] : m \in DOMAIN Demands}
Types == {"Net"} \union UNION {{Demands[m][i] : i \in DOMAIN Demands[m]} : m \in DOMAIN Demands}
Pins == UNION {[I -> Types] : I \in SUBSET Inputs}
NoPins == [i \in {} |-> "Net"]
Rounds == 6

\* One evaluation: for a drop or an armed item, what it is kept under, the
\* types the module alone shows, the inputs found so far.
Evaluations == [drop : BOOLEAN, key : Specs \X Nat, hints : Pins, pins : Pins,
                round : 1..Rounds, written : BOOLEAN, alone : BOOLEAN]

\* Every part and every generic demands inputs of some types, perhaps none.
ASSUME DemandsAssumption ==
    \A m \in Parts \union Generics :
        m \in DOMAIN Demands /\ Demands[m] \in [DOMAIN Demands[m] -> Types]
ASSUME NoEvaluationAssumption == None \notin Evaluations

PlacementTypeOK ==
    /\ scratch = None \/ scratch \in [spec : Specs, pins : Pins]
    /\ pre \in [Tasks -> Evaluations \union {None}]
    /\ \A k \in DOMAIN preflights : k \in Specs \X Nat /\ preflights[k] \in Pins
    /\ unproven \subseteq DOMAIN preflights

PlacementInit ==
    /\ scratch = None
    /\ pre = [t \in Tasks |-> None]
    /\ preflights = [k \in {} |-> NoPins]
    /\ unproven = {}

-----------------------------------------------------------------------------
(* The evaluator *)

\* The part, or the generic, that a module which evaluates is of.
Evaluates(s) == s \in CompNames => Sound(s)
Module(s) == IF s \in Generics THEN s ELSE files[s].zen

\* The errors it reports of an instantiation.
Missing(x) == DOMAIN Demands[Module(x.spec)] \ DOMAIN x.pins
Mistyped(x) == {i \in DOMAIN Demands[Module(x.spec)] \intersect DOMAIN x.pins :
                  x.pins[i] # Demands[Module(x.spec)][i]}
Accepted(x) == Evaluates(x.spec) /\ x.pins = Demands[Module(x.spec)]

\* probe_module_ios: the types of a module's nets as it stands alone.
Probed(s) == IF Evaluates(s) THEN Demands[Module(s)] ELSE NoPins

-----------------------------------------------------------------------------
(* One preflight *)

\* Mutant of Key: the module's name alone.
KeyOfName(s) == <<s, 0>>

Key(s) == <<s, IF s \in Generics THEN 0 ELSE stamp[s]>>

Evaluating == {t \in Tasks : pre[t] # None}

\* A palette item is armed, or dropped.  What is cached for the module is
\* taken as it is.
BeginPlacement(t) ==
    /\ Starts(t)
    /\ \E s \in Specs, drop \in BOOLEAN :
          /\ drop => \A u \in Evaluating : ~pre[u].drop
          /\ Key(s) \notin DOMAIN preflights
          /\ pre' = [u \in Tasks |->
                IF u = t
                THEN [drop |-> drop, key |-> Key(s), hints |-> Probed(s), pins |-> NoPins,
                      round |-> 1, written |-> FALSE, alone |-> Evaluating = {}]
                ELSE IF u \in Evaluating THEN [pre[u] EXCEPT !.alone = FALSE] ELSE pre[u]]
    /\ UNCHANGED <<scratch, preflights, unproven, files, stamp, sheets, torn>>

\* The instantiation with the inputs known so far.
WriteScratch(t) ==
    /\ pre[t] # None /\ ~pre[t].written
    /\ scratch' = [spec |-> pre[t].key[1], pins |-> pre[t].pins]
    /\ pre' = [pre EXCEPT ![t].written = TRUE]
    /\ UNCHANGED <<preflights, unproven, componentVars>>

\* The guard deletes the scratch file, whoever wrote it.
Finishes(t) ==
    /\ Ends(t)
    /\ scratch' = None
    /\ pre' = [pre EXCEPT ![t] = None]
    /\ UNCHANGED <<files, stamp, sheets, calls, torn>>

\* The evaluator accepts: the inputs found are kept under the key.
Proves(t) ==
    /\ pre[t] # None /\ pre[t].written
    /\ scratch # None /\ Accepted(scratch)
    /\ preflights' = [k \in DOMAIN preflights \union {pre[t].key} |->
                        IF k = pre[t].key THEN pre[t].pins ELSE preflights[k]]
    /\ unproven' = (unproven \ {pre[t].key}) \union {k \in {pre[t].key} : ~pre[t].alone}
    /\ Finishes(t)

\* The inputs the errors name: a missing one as it was hinted, a mistyped one
\* as it was expected.
Guess(t, i) == IF i \in DOMAIN pre[t].hints /\ pre[t].hints[i] \in {"Power", "Ground"}
               THEN pre[t].hints[i] ELSE "Net"
Solved(t) ==
    LET new == Missing(scratch) \ DOMAIN pre[t].pins
        fix == Mistyped(scratch) \intersect DOMAIN pre[t].pins
    IN  [i \in DOMAIN pre[t].pins \union new |->
            IF i \in new THEN Guess(t, i)
            ELSE IF i \in fix THEN Demands[Module(scratch.spec)][i] ELSE pre[t].pins[i]]

\* Mistyped inputs count as progress even if they already had that type.
Progresses(t) ==
    \/ Missing(scratch) \ DOMAIN pre[t].pins # {}
    \/ Mistyped(scratch) \intersect DOMAIN pre[t].pins # {}

\* The errors can be solved: another round.
Retries(t) ==
    /\ pre[t] # None /\ pre[t].written /\ pre[t].round < Rounds
    /\ scratch # None /\ Evaluates(scratch.spec) /\ ~Accepted(scratch)
    /\ Progresses(t)
    /\ \A i \in DOMAIN Solved(t) : Solved(t)[i] \in Constructible
    /\ pre' = [pre EXCEPT ![t].pins = Solved(t), ![t].round = @ + 1, ![t].written = FALSE]
    /\ UNCHANGED <<scratch, preflights, unproven, componentVars>>

\* No file, a module that does not evaluate, an error that cannot be solved,
\* or the last round: a refusal, or the inputs the text shows; nothing is kept.
GivesUp(t) ==
    /\ pre[t] # None /\ pre[t].written
    /\ \/ scratch = None
       \/ scratch # None /\ ~Evaluates(scratch.spec)
       \/ /\ scratch # None /\ Evaluates(scratch.spec) /\ ~Accepted(scratch)
          /\ \/ ~Progresses(t)
             \/ pre[t].round = Rounds
             \/ \E i \in DOMAIN Solved(t) : Solved(t)[i] \notin Constructible
    /\ Finishes(t)
    /\ UNCHANGED <<preflights, unproven>>

\* The process starts again: the cache was in its memory, the file was not.
PlacementCrash ==
    /\ pre' = [t \in Tasks |-> None]
    /\ preflights' = [k \in {} |-> NoPins]
    /\ unproven' = {}
    /\ UNCHANGED scratch

Placements(t) ==
    BeginPlacement(t) \/ WriteScratch(t) \/ Proves(t) \/ Retries(t) \/ GivesUp(t)

-----------------------------------------------------------------------------
(* Correctness *)

\* Whatever is installed or replaced meanwhile, the inputs kept for a module
\* as it is on disk are those the evaluator demands of it, unless another
\* evaluation used the scratch file at the same time (edit.rs:1033 "The hard
\* guarantee behind placement").
PreflightsAreProven ==
    \A k \in DOMAIN preflights \ unproven :
        k = Key(k[1]) /\ (k[1] \in Generics \/ files[k[1]].zen # None) =>
            preflights[k] = Demands[Module(k[1])]

=============================================================================
