----------------------------- MODULE StoreProofs -----------------------------
(***************************************************************************)
(* The recent projects of Store are the newest, and a hidden session has a  *)
(* listed successor, for any number of tasks, projects, sessions and limits. *)
(***************************************************************************)
EXTENDS Store, FiniteSetTheorems, TLAPS

USE HomeAssumption, LimitsAssumption, RootsAssumption, NoneAssumption

-----------------------------------------------------------------------------
(* Types *)

\* The call a task is in determines its fields.
LEMMA CallShapes ==
    ASSUME TypeOK, NEW t \in Tasks, op[t] # None
    PROVE  /\ op[t].next \in {"insert", "select", "prune"} =>
                op[t] \in [next : {"insert", "select", "prune", "read", "install"},
                           root : Roots, at : Nat, keep : SUBSET Roots]
           /\ op[t].next \in {"read", "install"} =>
                \/ op[t] \in [next : {"insert", "select", "prune", "read", "install"},
                              root : Roots, at : Nat, keep : SUBSET Roots]
                \/ op[t] \in [next : {"clear", "read", "install"}, keep : SUBSET Roots]
           /\ op[t].next = "clear" =>
                op[t] \in [next : {"clear", "read", "install"}, keep : SUBSET Roots]
           /\ op[t].next \in {"find", "record", "choose", "drop"} =>
                op[t] \in [next : {"find", "record", "choose", "drop"}, id : Ids, at : Nat,
                           from : Ids \union {None}, found : Rows \union {None},
                           keep : SUBSET Ids]
           /\ op[t].next = "touch" =>
                op[t] \in [next : {"touch"}, id : Ids, at : Nat, keep : SUBSET Ids]
BY DEF TypeOK, CallKinds

THEOREM TypeCorrect == Spec => []TypeOK
<1>1. Init => TypeOK
  BY DEF Init, TypeOK
<1>2. TypeOK /\ [Next]_vars => TypeOK'
  <2> SUFFICES ASSUME TypeOK, [Next]_vars PROVE TypeOK'
    OBVIOUS
  <2> USE DEF TypeOK
  <2>1. ASSUME NEW t \in Tasks, Open(t) PROVE TypeOK'
    BY <2>1 DEF Open, Begins, CallKinds, recentsVars, sessionVars
  <2>2. ASSUME NEW t \in Tasks, Insert(t) PROVE TypeOK'
    BY <2>2, CallShapes DEF Insert, Doing, Then, CallKinds, sessionVars
  <2>3. ASSUME NEW t \in Tasks, Select(t) PROVE TypeOK'
    BY <2>3, CallShapes DEF Select, Doing, Newest, Opened, CallKinds, recentsVars, sessionVars
  <2>4. ASSUME NEW t \in Tasks, Prune(t) PROVE TypeOK'
    BY <2>4, CallShapes DEF Prune, Doing, Then, Done, CallKinds, sessionVars
  <2>5. ASSUME NEW t \in Tasks, RefreshMenu(t) PROVE TypeOK'
    BY <2>5 DEF RefreshMenu, Begins, CallKinds, recentsVars, sessionVars
  <2>6. ASSUME NEW t \in Tasks, ReadRecents(t) PROVE TypeOK'
    BY <2>6, CallShapes DEF ReadRecents, Doing, Newest, Opened, CallKinds, recentsVars, sessionVars
  <2>7. ASSUME NEW t \in Tasks, InstallMenu(t) PROVE TypeOK'
    BY <2>7, CallShapes DEF InstallMenu, Doing, Done, recentsVars, sessionVars
  <2>8. ASSUME NEW t \in Tasks, ClearMenu(t) PROVE TypeOK'
    BY <2>8 DEF ClearMenu, Begins, Opened, CallKinds, recentsVars, sessionVars
  <2>9. ASSUME NEW t \in Tasks, Clears(t) PROVE TypeOK'
    BY <2>9, CallShapes DEF Clears, Doing, Then, Forgets, CallKinds, recentsVars, sessionVars
  <2>10. ASSUME NEW t \in Tasks, Announced(t) PROVE TypeOK'
    BY <2>10 DEF Announced, Begins, CallKinds, recentsVars
  <2>11. ASSUME NEW t \in Tasks, Find(t) PROVE TypeOK'
    BY <2>11, CallShapes DEF Find, Doing, CallKinds, recentsVars, sessionVars
  <2>12. ASSUME NEW t \in Tasks, Record(t) PROVE TypeOK'
    BY <2>12, CallShapes DEF Record, Doing, Then, Done, Rows, CallKinds, recentsVars
  <2>13. ASSUME NEW t \in Tasks, Choose(t) PROVE TypeOK'
    BY <2>13, CallShapes DEF Choose, Doing, Newest, Stored, CallKinds, recentsVars, sessionVars
  <2>14. ASSUME NEW t \in Tasks, Drop(t) PROVE TypeOK'
    BY <2>14 DEF Drop, Done, recentsVars
  <2>15. ASSUME NEW t \in Tasks, Touch(t) PROVE TypeOK'
    BY <2>15 DEF Touch, Begins, CallKinds, recentsVars, sessionVars
  <2>16. ASSUME NEW t \in Tasks, Touches(t) PROVE TypeOK'
    BY <2>16, CallShapes DEF Touches, Doing, Done, Rows, recentsVars
  <2>17. ASSUME NEW r \in Roots, Remove(r) PROVE TypeOK'
    BY <2>17 DEF Remove, Forgets, sessionVars
  <2>18. CASE Tick
    BY <2>18 DEF Tick, recentsVars, sessionVars
  <2>19. CASE Restart
    BY <2>19 DEF Restart, recentsVars, sessionVars
  <2>20. CASE UNCHANGED vars
    BY <2>20 DEF vars, recentsVars, sessionVars
  <2>. QED
    BY <2>1, <2>2, <2>3, <2>4, <2>5, <2>6, <2>7, <2>8, <2>9, <2>10, <2>11, <2>12, <2>13,
       <2>14, <2>15, <2>16, <2>17, <2>18, <2>19, <2>20 DEF Next
<1>. QED
  BY <1>1, <1>2, PTL DEF Spec

-----------------------------------------------------------------------------
(* The recents *)

\* The projects opened as late as r, and whether they push it off the list.
Rivals(r)  == {s \in Roots \ {r} : latest[s] >= latest[r]}
Crowded(r) == Cardinality(Rivals(r)) >= MaxProjects

\* A row holds the latest opening, unless a later one was recorded before it.
TimesAgree ==
    \A r \in Roots : projects[r] # None =>
        projects[r] <= latest[r] /\ (r \notin crossed => projects[r] = latest[r])

\* What an opening is about to prune was crowded out when it chose, and is still.
PrunedAreCrowded ==
    \A t \in Tasks : Doing(t, "prune") =>
        \A r \in Roots \ (forgotten \union crossed \union op[t].keep) :
            latest[r] # 0 => Crowded(r)

RecentsInv == TypeOK /\ TimesAgree /\ PrunedAreCrowded /\ RecentsHoldTheNewest

LEMMA RivalsFinite ==
    ASSUME NEW r \in Roots
    PROVE  IsFiniteSet(Rivals(r)) /\ Cardinality(Rivals(r)) \in Nat
BY FS_Subset, FS_CardinalityType DEF Rivals

\* Once crowded out, a project stays so until it is opened again.
LEMMA CrowdsGrow ==
    ASSUME TypeOK, TypeOK', NEW r \in Roots, Crowded(r), latest'[r] = latest[r],
           \A s \in Roots : latest'[s] >= latest[s]
    PROVE  Crowded(r)'
<1>1. Rivals(r) \subseteq Rivals(r)'
  BY DEF Rivals, TypeOK
<1>2. IsFiniteSet(Rivals(r)')
  BY FS_Subset DEF Rivals
<1>3. Cardinality(Rivals(r)) <= Cardinality(Rivals(r)')
  BY <1>1, <1>2, FS_Subset
<1>4. Cardinality(Rivals(r)) \in Nat /\ Cardinality(Rivals(r)') \in Nat
  BY <1>2, RivalsFinite, FS_CardinalityType
<1>. QED
  BY <1>3, <1>4 DEF Crowded

\* A step that records nothing and starts no pruning.
LEMMA RecentsUntouched ==
    ASSUME RecentsInv, TypeOK', UNCHANGED recentsVars,
           \A u \in Tasks : Doing(u, "prune")' => Doing(u, "prune") /\ op'[u].keep = op[u].keep
    PROVE  RecentsInv'
<1>1. \A r \in Roots : Rivals(r)' = Rivals(r) /\ Crowded(r)' = Crowded(r)
  BY DEF Rivals, Crowded, recentsVars
<1>. QED
  BY <1>1 DEF RecentsInv, TimesAgree, PrunedAreCrowded, RecentsHoldTheNewest, Rivals, Crowded,
              recentsVars

\* Taking a project off the list exempts it.
LEMMA ForgottenAreExempt ==
    ASSUME RecentsInv, TypeOK', NEW r \in Roots, Forgets(r),
           \A u \in Tasks : Doing(u, "prune")' => Doing(u, "prune") /\ op'[u].keep = op[u].keep
    PROVE  RecentsInv'
<1>1. \A s \in Roots : Crowded(s)' = Crowded(s)
  BY DEF Rivals, Crowded, Forgets
<1>2. TimesAgree'
  BY DEF RecentsInv, TimesAgree, Forgets, TypeOK
<1>3. PrunedAreCrowded'
  BY <1>1 DEF RecentsInv, PrunedAreCrowded, Forgets
<1>4. RecentsHoldTheNewest'
  BY <1>1 DEF RecentsInv, RecentsHoldTheNewest, Forgets, TypeOK, Rivals, Crowded
<1>. QED
  BY <1>2, <1>3, <1>4 DEF RecentsInv

\* Recording a project crowds the others further, and exempts it from a pruning
\* that was chosen without it.
LEMMA InsertKeeps ==
    ASSUME RecentsInv, TypeOK', NEW t \in Tasks, Insert(t)
    PROVE  RecentsInv'
<1>. DEFINE r == op[t].root
            at == op[t].at
<1>1. /\ r \in Roots /\ at \in Nat /\ Doing(t, "insert")
      /\ projects' = [projects EXCEPT ![r] = at]
      /\ latest' = [latest EXCEPT ![r] = IF at > @ THEN at ELSE @]
      /\ forgotten' = forgotten \ {r}
  BY CallShapes DEF RecentsInv, Insert, Doing
<1>2. /\ crossed' \in {crossed \union {r}, crossed \ {r}}
      /\ r \notin crossed' => /\ at >= latest[r]
                              /\ \A u \in Tasks \ {t} : Doing(u, "prune") => r \in op[u].keep
  BY <1>1 DEF Insert, RecentsInv, TypeOK
<1>3. \A u \in Tasks : Doing(u, "prune")' =>
         u # t /\ Doing(u, "prune") /\ op'[u].keep = op[u].keep
  BY DEF Insert, Then, Doing, RecentsInv, TypeOK
<1>4. \A s \in Roots : latest'[s] >= latest[s] /\ (s # r => latest'[s] = latest[s])
  BY <1>1 DEF RecentsInv, TypeOK
<1>5. \A s \in Roots \ {r} : Crowded(s) => Crowded(s)'
  BY <1>4, CrowdsGrow DEF RecentsInv
<1>6. TimesAgree'
  BY <1>1, <1>2, <1>4 DEF RecentsInv, TimesAgree, TypeOK
<1>7. PrunedAreCrowded'
  <2> SUFFICES ASSUME NEW u \in Tasks, Doing(u, "prune")',
                      NEW s \in Roots, s \notin forgotten', s \notin crossed',
                      s \notin op'[u].keep, latest'[s] # 0
               PROVE  Crowded(s)'
    BY DEF PrunedAreCrowded
  <2>1. s # r
    BY <1>2, <1>3
  <2>2. s \notin forgotten /\ s \notin crossed /\ latest[s] # 0
    BY <2>1, <1>1, <1>2, <1>4
  <2>. QED
    BY <2>1, <2>2, <1>3, <1>5 DEF RecentsInv, PrunedAreCrowded
<1>8. RecentsHoldTheNewest'
  <2> SUFFICES ASSUME NEW s \in Roots, s \notin forgotten', s \notin crossed',
                      latest'[s] # 0, projects'[s] = None
               PROVE  Crowded(s)'
    BY DEF RecentsHoldTheNewest, Crowded, Rivals
  <2>1. s # r
    BY <1>1 DEF RecentsInv, TypeOK
  <2>2. s \notin forgotten /\ s \notin crossed /\ latest[s] # 0 /\ projects[s] = None
    BY <2>1, <1>1, <1>2, <1>4 DEF RecentsInv, TypeOK
  <2>3. Crowded(s)
    BY <2>2 DEF RecentsInv, RecentsHoldTheNewest, Crowded, Rivals
  <2>. QED
    BY <2>1, <2>3, <1>5
<1>. QED
  BY <1>6, <1>7, <1>8 DEF RecentsInv

\* What an opening does not keep is crowded out by what it keeps.
LEMMA SelectKeeps ==
    ASSUME RecentsInv, TypeOK', NEW t \in Tasks, Select(t)
    PROVE  RecentsInv'
<1>1. PICK keep \in Newest(Opened, projects, MaxProjects) :
         op' = [op EXCEPT ![t].keep = keep, ![t].next = "prune"]
  BY DEF Select
<1>2. /\ keep \subseteq Opened
      /\ Cardinality(keep) = IF Cardinality(Opened) < MaxProjects
                             THEN Cardinality(Opened) ELSE MaxProjects
      /\ \A k \in keep, s \in Opened \ keep : projects[k] >= projects[s]
  BY DEF Newest
<1>3. UNCHANGED recentsVars
  BY DEF Select
<1>4. \A s \in Roots : Crowded(s)' = Crowded(s)
  BY <1>3 DEF recentsVars, Crowded, Rivals
<1>5. \A s \in Roots : s \notin keep /\ s \notin forgotten /\ s \notin crossed /\ latest[s] # 0
         => Crowded(s)
  <2> SUFFICES ASSUME NEW s \in Roots, s \notin keep, s \notin forgotten, s \notin crossed,
                      latest[s] # 0
               PROVE  Crowded(s)
    OBVIOUS
  <2>1. CASE projects[s] = None
    BY <2>1 DEF RecentsInv, RecentsHoldTheNewest, Crowded, Rivals
  <2>2. CASE projects[s] # None
    <3>1. s \in Opened /\ Opened \subseteq Roots
      BY <2>2 DEF Opened
    <3>2. IsFiniteSet(Opened) /\ IsFiniteSet(keep)
      BY <3>1, <1>2, FS_Subset
    <3>3. Cardinality(keep) # Cardinality(Opened)
      BY <3>1, <3>2, <1>2, FS_Subset
    <3>4. Cardinality(keep) = MaxProjects
      BY <1>2, <3>3
    <3>5. keep \subseteq Rivals(s)
      BY <1>2, <2>2, <3>1 DEF Rivals, RecentsInv, TimesAgree, TypeOK, Opened
    <3>6. Cardinality(keep) <= Cardinality(Rivals(s))
      BY <3>5, RivalsFinite, FS_Subset
    <3>. QED
      BY <3>4, <3>6 DEF Crowded
  <2>. QED
    BY <2>1, <2>2
<1>6. TimesAgree' /\ RecentsHoldTheNewest'
  BY <1>3 DEF RecentsInv, TimesAgree, RecentsHoldTheNewest, recentsVars
<1>7. PrunedAreCrowded'
  <2> SUFFICES ASSUME NEW u \in Tasks, Doing(u, "prune")',
                      NEW s \in Roots, s \notin forgotten, s \notin crossed,
                      s \notin op'[u].keep, latest[s] # 0
               PROVE  Crowded(s)
    BY <1>3, <1>4 DEF PrunedAreCrowded, recentsVars
  <2>1. CASE u = t
    <3>1. op'[t].keep = keep
      BY <1>1, CallShapes DEF Select, Doing, RecentsInv, TypeOK
    <3>. QED
      BY <2>1, <3>1, <1>5
  <2>2. CASE u # t
    BY <2>2, <1>1 DEF RecentsInv, PrunedAreCrowded, Doing, TypeOK
  <2>. QED
    BY <2>1, <2>2
<1>. QED
  BY <1>6, <1>7 DEF RecentsInv

LEMMA PruneKeeps ==
    ASSUME RecentsInv, TypeOK', NEW t \in Tasks, Prune(t)
    PROVE  RecentsInv'
<1>1. /\ Doing(t, "prune")
      /\ projects' = [r \in Roots |-> IF r \in op[t].keep THEN projects[r] ELSE None]
      /\ UNCHANGED <<latest, forgotten, crossed>>
  BY DEF Prune
<1>2. \A u \in Tasks : Doing(u, "prune")' => Doing(u, "prune") /\ op'[u].keep = op[u].keep
  BY CallShapes DEF Prune, Then, Done, Doing, RecentsInv, TypeOK
<1>3. \A s \in Roots : Crowded(s)' = Crowded(s)
  BY <1>1 DEF Crowded, Rivals
<1>4. TimesAgree'
  BY <1>1 DEF RecentsInv, TimesAgree
<1>5. PrunedAreCrowded'
  BY <1>1, <1>2, <1>3 DEF RecentsInv, PrunedAreCrowded
<1>6. RecentsHoldTheNewest'
  <2> SUFFICES ASSUME NEW s \in Roots, s \notin forgotten, s \notin crossed,
                      latest[s] # 0, projects'[s] = None
               PROVE  Crowded(s)
    BY <1>1, <1>3 DEF RecentsHoldTheNewest, Crowded, Rivals
  <2>1. CASE s \in op[t].keep
    BY <2>1, <1>1 DEF RecentsInv, RecentsHoldTheNewest, Crowded, Rivals
  <2>2. CASE s \notin op[t].keep
    BY <2>2, <1>1 DEF RecentsInv, PrunedAreCrowded
  <2>. QED
    BY <2>1, <2>2
<1>. QED
  BY <1>4, <1>5, <1>6 DEF RecentsInv

\* The calls that neither record a project nor take one off the list.
LEMMA OtherCallsKeep ==
    ASSUME RecentsInv, TypeOK', NEW t \in Tasks,
           \/ Open(t) \/ RefreshMenu(t) \/ ReadRecents(t) \/ InstallMenu(t) \/ ClearMenu(t)
           \/ Announced(t) \/ Find(t) \/ Record(t) \/ Choose(t) \/ Drop(t)
           \/ Touch(t) \/ Touches(t)
    PROVE  RecentsInv'
<1>1. UNCHANGED recentsVars
  BY DEF Open, RefreshMenu, ReadRecents, InstallMenu, ClearMenu, Announced, Find, Record, Choose,
         Drop, Touch, Touches
<1>2. ASSUME NEW u \in Tasks
      PROVE  Doing(u, "prune")' => Doing(u, "prune") /\ op'[u].keep = op[u].keep
  <2> USE DEF RecentsInv, TypeOK, Doing, Begins, Then, Done
  <2>1. CASE Open(t) \/ RefreshMenu(t) \/ ClearMenu(t) \/ Announced(t) \/ Touch(t)
    BY <2>1 DEF Open, RefreshMenu, ClearMenu, Announced, Touch
  <2>2. CASE ReadRecents(t)
    <3>1. PICK shown : op' = [op EXCEPT ![t].keep = shown, ![t].next = "install"]
      BY <2>2 DEF ReadRecents
    <3>2. op[t] # None /\ op[t].next = "read"
      BY <2>2 DEF ReadRecents
    <3>3. op'[t].next = "install"
      BY <3>1, <3>2, CallShapes
    <3>. QED
      BY <3>1, <3>3
  <2>3. CASE InstallMenu(t) \/ Drop(t) \/ Touches(t)
    BY <2>3 DEF InstallMenu, Drop, Touches
  <2>4. CASE Find(t)
    BY <2>4 DEF Find
  <2>5. CASE Record(t)
    BY <2>5, CallShapes DEF Record
  <2>6. CASE Choose(t)
    <3>1. PICK keep : op' = [op EXCEPT ![t].keep = keep, ![t].next = "drop"]
      BY <2>6 DEF Choose
    <3>2. op[t] # None /\ op[t].next = "choose"
      BY <2>6 DEF Choose
    <3>3. op'[t].next = "drop"
      BY <3>1, <3>2, CallShapes
    <3>. QED
      BY <3>1, <3>3
  <2>. QED
    BY <2>1, <2>2, <2>3, <2>4, <2>5, <2>6
<1>. QED
  BY <1>1, <1>2, RecentsUntouched

\* The recents are the newest: whatever calls, crashes and removals interleave,
\* for any number of tasks, projects and any limits (lib.rs record_project_opened).
THEOREM RecentsStayNewest == Spec => []RecentsHoldTheNewest
<1>1. Init => RecentsInv
  <2> SUFFICES ASSUME Init PROVE RecentsInv
    OBVIOUS
  <2>1. TypeOK
    BY DEF Init, TypeOK
  <2>. QED
    BY <2>1 DEF Init, RecentsInv, TimesAgree, PrunedAreCrowded, Doing, RecentsHoldTheNewest
<1>2. RecentsInv /\ TypeOK' /\ [Next]_vars => RecentsInv'
  <2> SUFFICES ASSUME RecentsInv, TypeOK', [Next]_vars PROVE RecentsInv'
    OBVIOUS
  <2>1. ASSUME NEW t \in Tasks, Insert(t) PROVE RecentsInv'
    BY <2>1, InsertKeeps
  <2>2. ASSUME NEW t \in Tasks, Select(t) PROVE RecentsInv'
    BY <2>2, SelectKeeps
  <2>3. ASSUME NEW t \in Tasks, Prune(t) PROVE RecentsInv'
    BY <2>3, PruneKeeps
  <2>4. ASSUME NEW t \in Tasks, Clears(t) PROVE RecentsInv'
    <3>1. \A u \in Tasks : Doing(u, "prune")' => Doing(u, "prune") /\ op'[u].keep = op[u].keep
      BY <2>4, CallShapes DEF Clears, Doing, Then, RecentsInv, TypeOK
    <3>2. CASE op[t].keep = {}
      BY <2>4, <3>1, <3>2, RecentsUntouched DEF Clears
    <3>3. CASE op[t].keep # {}
      <4>1. PICK r \in op[t].keep : Forgets(r)
        BY <2>4, <3>3 DEF Clears
      <4>2. r \in Roots
        BY <2>4, CallShapes DEF Clears, Doing, RecentsInv
      <4>. QED
        BY <4>1, <4>2, <3>1, ForgottenAreExempt
    <3>. QED
      BY <3>2, <3>3
  <2>5. ASSUME NEW r \in Roots, Remove(r) PROVE RecentsInv'
    BY <2>5, ForgottenAreExempt DEF Remove, Doing
  <2>6. CASE Tick
    BY <2>6, RecentsUntouched DEF Tick, Doing
  <2>7. CASE Restart
    BY <2>7, RecentsUntouched DEF Restart, Doing
  <2>8. CASE UNCHANGED vars
    BY <2>8, RecentsUntouched DEF vars, Doing
  <2>. QED
    BY <2>1, <2>2, <2>3, <2>4, <2>5, <2>6, <2>7, <2>8, OtherCallsKeep DEF Next
<1>3. RecentsInv => RecentsHoldTheNewest
  BY DEF RecentsInv
<1>. QED
  BY <1>1, <1>2, <1>3, TypeCorrect, PTL DEF Spec

-----------------------------------------------------------------------------
(* The sessions *)

Announcing(t) == Doing(t, "find") \/ Doing(t, "record")

\* The link of a row, or one that a call in progress may still give it.
Linked(i, p) ==
    \/ sessions[i] # None /\ sessions[i].from = p
    \/ \E t \in Tasks : Announcing(t) /\ op[t].id = i /\ op[t].from = p

\* Sessions are stored, and linked to, after they were announced.
AnnouncedFirst ==
    /\ \A i \in Ids : sessions[i] # None => i \in announced
    /\ \A t \in Tasks : Announcing(t) => op[t].id \in announced
    /\ \A i, p \in Ids : Linked(i, p) => p \in announced

\* No chain of resumes comes back to where it was: among any sessions there is
\* one that none of them resumed.
ChainsEnd ==
    \A X \in SUBSET (Ids \ mislinked) : X # {} =>
        \E l \in X : \A j \in X : ~Linked(j, l)

LinksInv == AnnouncedFirst /\ ChainsEnd

\* A step that announces nobody and adds no link.
LEMMA NoNewLinks ==
    ASSUME TypeOK, LinksInv, UNCHANGED <<announced, mislinked>>,
           \A i \in Ids : sessions'[i] # None => i \in announced,
           \A t \in Tasks : Announcing(t)' => op'[t].id \in announced,
           \A i, p \in Ids : Linked(i, p)' => Linked(i, p)
    PROVE  LinksInv'
BY DEF LinksInv, AnnouncedFirst, ChainsEnd

\* ... for instance one that leaves the sessions and the announcements alone.
LEMMA SameLinks ==
    ASSUME TypeOK, LinksInv, UNCHANGED sessionVars,
           \A t \in Tasks : Announcing(t)' => Announcing(t) /\ op'[t].id = op[t].id
                                              /\ op'[t].from = op[t].from
    PROVE  LinksInv'
<1>1. UNCHANGED <<sessions, announced, mislinked>>
  BY DEF sessionVars
<1>2. \A i, p \in Ids : Linked(i, p)' => Linked(i, p)
  BY <1>1 DEF Linked
<1>3. \A t \in Tasks : Announcing(t)' => op'[t].id \in announced
  BY DEF LinksInv, AnnouncedFirst
<1>. QED
  BY <1>1, <1>2, <1>3, NoNewLinks DEF LinksInv, AnnouncedFirst

\* A session that was never announced is linked to by nobody; one that was, and is
\* linked now, is mislinked.
LEMMA AnnouncedKeeps ==
    ASSUME TypeOK, LinksInv, NEW t \in Tasks, Announced(t)
    PROVE  LinksInv'
<1>1. PICK i \in Ids, link \in Ids \union {None} :
         /\ link # None => sessions[link] # None
         /\ Begins(t, [next |-> "find", id |-> i, at |-> now, from |-> link,
                       found |-> None, keep |-> {}])
         /\ announced' = announced \union {i}
         /\ mislinked' = mislinked \union {j \in announced \intersect {i} : link # None}
  BY DEF Announced
<1>2. UNCHANGED sessions
  BY DEF Announced
<1>3. /\ op'[t].next = "find" /\ op'[t].id = i /\ op'[t].from = link
      /\ \A u \in Tasks \ {t} : op'[u] = op[u]
  <2>. DEFINE call == [next |-> "find", id |-> i, at |-> now, from |-> link,
                       found |-> None, keep |-> {}]
  <2>1. op'[t] = call
    BY <1>1 DEF Begins, TypeOK
  <2>2. \A u \in Tasks \ {t} : op'[u] = op[u]
    BY <1>1 DEF Begins, TypeOK
  <2>. QED
    BY <2>1, <2>2
<1>4. \A j, p \in Ids : Linked(j, p)' => Linked(j, p) \/ (j = i /\ p = link)
  BY <1>2, <1>3 DEF Linked, Announcing, Doing
<1>5. link # None => link \in announced
  BY <1>1 DEF LinksInv, AnnouncedFirst
<1>6. AnnouncedFirst'
  <2>1. \A j \in Ids : sessions'[j] # None => j \in announced'
    BY <1>1, <1>2 DEF LinksInv, AnnouncedFirst
  <2>2. \A u \in Tasks : Announcing(u)' => op'[u].id \in announced'
    BY <1>1, <1>3 DEF LinksInv, AnnouncedFirst, Announcing, Doing
  <2>3. \A j, p \in Ids : Linked(j, p)' => p \in announced'
    BY <1>1, <1>4, <1>5 DEF LinksInv, AnnouncedFirst
  <2>. QED
    BY <2>1, <2>2, <2>3 DEF AnnouncedFirst
<1>7. ChainsEnd'
  <2> SUFFICES ASSUME NEW X \in SUBSET (Ids \ mislinked'), X # {}
               PROVE  \E l \in X : \A j \in X : ~Linked(j, l)'
    BY DEF ChainsEnd
  <2>1. X \in SUBSET (Ids \ mislinked)
    BY <1>1
  <2>2. CASE i \in X /\ i \notin announced
    <3>1. \A j \in X : ~Linked(j, i)'
      BY <2>2, <1>4, <1>5 DEF LinksInv, AnnouncedFirst
    <3>. QED
      BY <2>2, <3>1
  <2>3. CASE i \in X /\ i \in announced
    <3>1. link = None
      BY <2>3, <1>1
    <3>2. \A j, p \in Ids : Linked(j, p)' => Linked(j, p)
      BY <3>1, <1>4
    <3>. QED
      BY <2>1, <3>2 DEF LinksInv, ChainsEnd
  <2>4. CASE i \notin X
    <3>1. \A j, p \in X : Linked(j, p)' => Linked(j, p)
      BY <2>4, <1>4
    <3>2. PICK l \in X : \A j \in X : ~Linked(j, l)
      BY <2>1 DEF LinksInv, ChainsEnd
    <3>. QED
      BY <3>1, <3>2
  <2>. QED
    BY <2>2, <2>3, <2>4
<1>. QED
  BY <1>6, <1>7 DEF LinksInv

\* The row gets the link it was announced with, or keeps the one it has.
LEMMA RecordKeeps ==
    ASSUME TypeOK, LinksInv, NEW t \in Tasks, Record(t)
    PROVE  LinksInv'
<1>. DEFINE i == op[t].id
<1>1. Doing(t, "record") /\ i \in Ids /\ op[t].from \in Ids \union {None}
  BY CallShapes DEF Record, Doing
<1>2. UNCHANGED <<announced, mislinked>>
  BY DEF Record
<1>3. \A u \in Tasks : Announcing(u)' => u # t /\ Announcing(u) /\ op'[u] = op[u]
  <2>1. Then(t, "choose") \/ Done(t)
    BY DEF Record
  <2>2. op'[t] # None => op'[t].next = "choose"
    BY <1>1, <2>1, CallShapes DEF Then, Done, Doing, TypeOK
  <2>3. \A u \in Tasks \ {t} : op'[u] = op[u]
    BY <2>1 DEF Then, Done, TypeOK
  <2>. QED
    BY <2>2, <2>3 DEF Announcing, Doing
<1>4. /\ \A j \in Ids \ {i} : sessions'[j] = sessions[j]
      /\ sessions'[i] # None =>
            \/ sessions'[i].from = op[t].from
            \/ sessions[i] # None /\ sessions'[i].from = sessions[i].from
  BY <1>1 DEF Record, TypeOK
<1>5. i \in announced
  BY <1>1 DEF LinksInv, AnnouncedFirst, Announcing
<1>6. \A j, p \in Ids : Linked(j, p)' => Linked(j, p)
  BY <1>1, <1>3, <1>4 DEF Linked, Announcing
<1>7. \A j \in Ids : sessions'[j] # None => j \in announced
  BY <1>4, <1>5 DEF LinksInv, AnnouncedFirst
<1>8. \A u \in Tasks : Announcing(u)' => op'[u].id \in announced
  BY <1>3 DEF LinksInv, AnnouncedFirst
<1>. QED
  BY <1>2, <1>6, <1>7, <1>8, NoNewLinks

\* Rows go, or are used.
LEMMA DropKeeps ==
    ASSUME TypeOK, LinksInv, NEW t \in Tasks, Drop(t) \/ Touches(t)
    PROVE  LinksInv'
<1>1. UNCHANGED <<announced, mislinked>>
  BY DEF Drop, Touches
<1>2. \A j \in Ids : sessions'[j] # None => sessions[j] # None /\ sessions'[j].from = sessions[j].from
  BY DEF Drop, Touches, TypeOK, Rows
<1>3. \A u \in Tasks : Announcing(u)' => Announcing(u) /\ op'[u] = op[u]
  BY DEF Drop, Touches, Done, Doing, Announcing, TypeOK
<1>4. \A j, p \in Ids : Linked(j, p)' => Linked(j, p)
  BY <1>2, <1>3 DEF Linked
<1>. QED
  BY <1>1, <1>2, <1>3, <1>4, NoNewLinks DEF LinksInv, AnnouncedFirst

\* The calls that touch no row.
LEMMA OtherLinks ==
    ASSUME TypeOK, LinksInv, NEW t \in Tasks,
           \/ Open(t) \/ Insert(t) \/ Select(t) \/ Prune(t)
           \/ RefreshMenu(t) \/ ReadRecents(t) \/ InstallMenu(t)
           \/ ClearMenu(t) \/ Clears(t) \/ Find(t) \/ Choose(t) \/ Touch(t)
    PROVE  LinksInv'
<1>1. UNCHANGED sessionVars
  BY DEF Open, Insert, Select, Prune, RefreshMenu, ReadRecents, InstallMenu, ClearMenu, Clears, Find,
         Choose, Touch
<1> USE DEF TypeOK, Announcing, Doing, Begins, Then, Done
<1> DEFINE Stays == \A u \in Tasks : Announcing(u)' => Announcing(u) /\ op'[u].id = op[u].id
                                                       /\ op'[u].from = op[u].from
<1>2. CASE Open(t) \/ RefreshMenu(t) \/ ClearMenu(t) \/ Touch(t)
  <2>1. Stays
    BY <1>2 DEF Open, RefreshMenu, ClearMenu, Touch
  <2>. QED
    BY <1>1, <2>1, SameLinks
<1>3. CASE Insert(t) \/ Prune(t) \/ InstallMenu(t)
  <2>1. Stays
    BY <1>3, CallShapes DEF Insert, Prune, InstallMenu
  <2>. QED
    BY <1>1, <2>1, SameLinks
<1>4. ASSUME NEW k, NEW n \in {"prune", "install", "drop"}, op[t] # None,
             op' = [op EXCEPT ![t].keep = k, ![t].next = n],
             op[t].next \in {"select", "read", "choose"}
      PROVE  LinksInv'
  <2>1. op'[t].next = n
    BY <1>4, CallShapes
  <2>2. Stays
    BY <1>4, <2>1
  <2>. QED
    BY <1>1, <2>2, SameLinks
<1>5. CASE Select(t) \/ ReadRecents(t) \/ Choose(t)
  BY <1>4, <1>5 DEF Select, ReadRecents, Choose
<1>6. CASE Clears(t)
  <2>1. op'[t].next \in {"clear", "read"}
    BY <1>6, CallShapes DEF Clears
  <2>2. Stays
    BY <1>6, <2>1 DEF Clears
  <2>. QED
    BY <1>1, <2>2, SameLinks
<1>7. CASE Find(t)
  <2>1. Stays
    BY <1>7, CallShapes DEF Find
  <2>. QED
    BY <1>1, <2>1, SameLinks
<1>. QED
  BY <1>2, <1>3, <1>5, <1>6, <1>7

LEMMA LinksStep == TypeOK /\ LinksInv /\ [Next]_vars => LinksInv'
<1> SUFFICES ASSUME TypeOK, LinksInv, [Next]_vars PROVE LinksInv'
  OBVIOUS
<1>1. ASSUME NEW t \in Tasks,
             \/ Announced(t) \/ Record(t) \/ Drop(t) \/ Touches(t)
             \/ Open(t) \/ Insert(t) \/ Select(t) \/ Prune(t)
             \/ RefreshMenu(t) \/ ReadRecents(t) \/ InstallMenu(t)
             \/ ClearMenu(t) \/ Clears(t) \/ Find(t) \/ Choose(t) \/ Touch(t)
      PROVE  LinksInv'
  BY <1>1, AnnouncedKeeps, RecordKeeps, DropKeeps, OtherLinks
<1>2. ASSUME NEW r \in Roots, Remove(r) PROVE LinksInv'
  BY <1>2, SameLinks DEF Remove, Announcing, Doing
<1>3. CASE Tick
  BY <1>3, SameLinks DEF Tick, Announcing, Doing
<1>4. CASE Restart
  BY <1>4, SameLinks DEF Restart, Announcing, Doing
<1>5. CASE UNCHANGED vars
  BY <1>5, SameLinks DEF vars, Announcing, Doing
<1>. QED
  BY <1>1, <1>2, <1>3, <1>4, <1>5 DEF Next

\* Among the sessions that carry a hidden one forward there is one that nobody
\* resumed, and it is listed.
LEMMA HiddenAreCarried == LinksInv => HiddenSessionsContinue
<1> SUFFICES ASSUME LinksInv, NEW w \in Workspaces, \A i \in Stored(w) : i \notin mislinked,
                    NEW i \in Stored(w) \ Listed(w)
             PROVE  Carriers(w, i) \intersect Listed(w) # {}
  BY DEF HiddenSessionsContinue
<1>1. Carriers(w, i) \in SUBSET (Ids \ mislinked) /\ i \in Carriers(w, i)
  BY DEF Carriers, Stored
<1>2. \A j \in Stored(w) : sessions[j].from \in Carriers(w, i) => j \in Carriers(w, i)
  BY DEF Carriers, Forwards
<1>3. PICK l \in Carriers(w, i) : \A j \in Carriers(w, i) : ~Linked(j, l)
  BY <1>1 DEF LinksInv, ChainsEnd
<1>4. \A j \in Stored(w) : sessions[j].from # l
  BY <1>2, <1>3 DEF Linked, Stored
<1>5. l \in Listed(w)
  BY <1>3, <1>4 DEF Listed, Superseded, Carriers
<1>. QED
  BY <1>3, <1>5

\* Whatever calls, prunings and restarts interleave, a session that is hidden
\* because it was resumed has a successor in the list (lib.rs sessions_for).
THEOREM HiddenSessionsAreCarried == Spec => []HiddenSessionsContinue
<1>1. Init => LinksInv
  BY DEF Init, LinksInv, AnnouncedFirst, ChainsEnd, Linked, Announcing, Doing
<1>. QED
  BY <1>1, LinksStep, HiddenAreCarried, TypeCorrect, PTL DEF Spec

=============================================================================
