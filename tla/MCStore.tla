------------------------------- MODULE MCStore -------------------------------
(* Two tasks; three projects of which two are kept, and, apart from them,     *)
(* three sessions of one workspace of which two are kept.                     *)
EXTENDS Store, TLC

MCHome == [i \in Ids |-> CHOOSE w \in Workspaces : TRUE]

Recents(t) == op[t] # None /\ op[t].next \in {"insert", "select", "prune", "read", "install", "clear"}

\* Bounds: projects and sessions are recorded in different behaviours, for they
\* are different tables; no session is linked wrongly; the menu is made while
\* no other call is under way; one project at a time is off the list, and one was
\* recorded in between.
Explored ==
    /\ (\A r \in Roots : latest[r] = 0) \/ announced = {}
    /\ announced # {} => \A t \in Tasks : ~Recents(t)
    /\ mislinked = {}
    /\ Cardinality(forgotten) <= 1 /\ Cardinality(crossed) <= 1
    /\ \A t, u \in Tasks :
          t # u /\ (Doing(t, "read") \/ Doing(t, "install")) => op[u] = None

Alike == Permutations(Tasks) \union Permutations(Roots) \union Permutations(Ids)

=============================================================================
