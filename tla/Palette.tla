------------------------------- MODULE Palette -------------------------------
(***************************************************************************)
(* The parts palette and the agent's part tools together: calls that        *)
(* search, look up and install parts, and placements that evaluate what is  *)
(* installed, over one components/ directory, with the process dying and    *)
(* starting again at any step.                                              *)
(***************************************************************************)
EXTENDS PartClient, Placement

vars == <<componentVars, clientVars, placementVars>>

\* A project with nothing installed, or with components of any parts, and a
\* cache that knows some parts.
Init ==
    /\ \E installed \in [CompNames -> Parts \union {None}] : ComponentsInit(installed)
    /\ \E known \in SUBSET Parts : ClientInit(known)
    /\ PlacementInit

\* What was being installed stays as it was left.
Crash ==
    /\ ClientCrash
    /\ PlacementCrash
    /\ busy' = {}
    /\ UNCHANGED <<files, stamp, sheets, calls, torn>>

Time ==
    \/ \E e \in Entries : Expires(e)
    \/ BanEnds

Next ==
    \/ \E t \in Tasks : Calls(t) /\ UNCHANGED placementVars
    \/ Time /\ UNCHANGED placementVars
    \/ \E t \in Tasks : Placements(t) /\ UNCHANGED clientVars
    \/ Crash

Spec == Init /\ [][Next]_vars

-----------------------------------------------------------------------------
(* Correctness *)

\* Types, and that a task is at most in one call: a placement or one of the
\* vendor's, which every way out ends.
PaletteTypeOK ==
    /\ ComponentsTypeOK
    /\ ClientTypeOK
    /\ PlacementTypeOK
    /\ {t \in Tasks : job[t] # None} \intersect Evaluating = {}
    /\ busy = {t \in Tasks : job[t] # None} \union Evaluating

=============================================================================
