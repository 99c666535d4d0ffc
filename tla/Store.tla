-------------------------------- MODULE Store --------------------------------
(***************************************************************************)
(* What the application keeps in its database (crates/store/src/lib.rs):    *)
(* the recently opened projects and the agent's sessions, both pruned as    *)
(* they are recorded; and the Open Recent menu, which shows the former.     *)
(*                                                                          *)
(* Every query is a statement of its own.  Openers, the menu and the pumps  *)
(* of the windows' agents run them from tasks of their own over one         *)
(* connection, so the statements of two calls interleave, but not within    *)
(* one statement.                                                           *)
(***************************************************************************)
EXTENDS Naturals, FiniteSets

CONSTANTS
    Tasks,
    Roots,          \* projects, by root
    Ids,            \* session ids the agent's CLI announces
    Workspaces,
    Home,           \* the workspace of each session
    MaxProjects, MaxSessions,
    MenuLength,     \* how many recents the menu shows
    MaxTime,        \* bound for TLC: milliseconds that pass
    None

ASSUME HomeAssumption == Home \in [Ids -> Workspaces]
ASSUME LimitsAssumption == {MaxProjects, MaxSessions, MenuLength, MaxTime} \subseteq Nat \ {0}
ASSUME RootsAssumption == IsFiniteSet(Roots)
ASSUME NoneAssumption == None \notin Roots \union Ids \union Nat

VARIABLES
    now,        \* the clock
    projects,   \* per root: when it was last opened, or None
    sessions,   \* per id: when it was used and what it was resumed from, or None
    menu,       \* the roots the menu shows
    op,         \* per task: the call under way, or None
    latest,     \* ghost: per root, the latest opening recorded, or 0
    forgotten,  \* ghost: roots the user took off the list
    crossed,    \* ghost: roots recorded in between another call's statements
    announced,  \* ghost: ids of sessions that were announced
    mislinked   \* ghost: sessions linked when they had been announced before

recentsVars == <<projects, latest, forgotten, crossed>>
sessionVars == <<sessions, announced, mislinked>>
vars == <<now, recentsVars, sessionVars, menu, op>>

\* A row of the sessions, and the calls: an opening, with the menu's refresh after
\* it; a refresh by itself or after a clearing; an init; a result.
Rows == [used : Nat, from : Ids \union {None}]
CallKinds ==
    [next : {"insert", "select", "prune", "read", "install"},
     root : Roots, at : Nat, keep : SUBSET Roots]
    \union [next : {"clear", "read", "install"}, keep : SUBSET Roots]
    \union [next : {"find", "record", "choose", "drop"}, id : Ids, at : Nat,
            from : Ids \union {None}, found : Rows \union {None}, keep : SUBSET Ids]
    \union [next : {"touch"}, id : Ids, at : Nat, keep : SUBSET Ids]

TypeOK ==
    /\ now \in 1..MaxTime
    /\ projects \in [Roots -> Nat \union {None}]
    /\ sessions \in [Ids -> Rows \union {None}]
    /\ menu \subseteq Roots
    /\ op \in [Tasks -> CallKinds \union {None}]
    /\ latest \in [Roots -> Nat]
    /\ forgotten \subseteq Roots /\ crossed \subseteq Roots
    /\ announced \subseteq Ids /\ mislinked \subseteq announced

Init ==
    /\ now = 1
    /\ projects = [r \in Roots |-> None]
    /\ sessions = [i \in Ids |-> None]
    /\ menu = {}
    /\ op = [t \in Tasks |-> None]
    /\ latest = [r \in Roots |-> 0]
    /\ forgotten = {} /\ crossed = {}
    /\ announced = {} /\ mislinked = {}

Doing(t, what) == op[t] # None /\ op[t].next = what
Begins(t, call) == op[t] = None /\ op' = [op EXCEPT ![t] = call]
Then(t, what) == op' = [op EXCEPT ![t].next = what]
Done(t) == op' = [op EXCEPT ![t] = None]

Opened  == {r \in Roots : projects[r] # None}
Stored(w) == {i \in Ids : sessions[i] # None /\ Home[i] = w}

\* Mutant of Newest: the order is that of the oldest first.
Oldest(S, at, n) ==
    {K \in SUBSET S : /\ Cardinality(K) = IF Cardinality(S) < n THEN Cardinality(S) ELSE n
                      /\ \A k \in K, s \in S \ K : at[k] <= at[s]}

\* ORDER BY at DESC LIMIT n: equal times come in any order.
Newest(S, at, n) ==
    {K \in SUBSET S : /\ Cardinality(K) = IF Cardinality(S) < n THEN Cardinality(S) ELSE n
                      /\ \A k \in K, s \in S \ K : at[k] >= at[s]}

-----------------------------------------------------------------------------
(* record_project_opened, by an opener *)

Open(t) ==
    /\ \E r \in Roots :
          Begins(t, [next |-> "insert", root |-> r, at |-> now, keep |-> {}])
    /\ UNCHANGED <<now, recentsVars, sessionVars, menu>>

\* The row is there with this time from now on, whatever it had.
Insert(t) ==
    LET r == op[t].root
        at == op[t].at
        beside == \E u \in Tasks \ {t} : Doing(u, "prune") /\ r \notin op[u].keep
    IN  /\ Doing(t, "insert")
        /\ Then(t, "select")
        /\ projects' = [projects EXCEPT ![r] = at]
        /\ latest' = [latest EXCEPT ![r] = IF at > @ THEN at ELSE @]
        /\ forgotten' = forgotten \ {r}
        /\ crossed' = IF beside \/ at < latest[r] THEN crossed \union {r} ELSE crossed \ {r}
        /\ UNCHANGED <<now, sessionVars, menu>>

Select(t) ==
    /\ Doing(t, "select")
    /\ \E keep \in Newest(Opened, projects, MaxProjects) :
          op' = [op EXCEPT ![t].keep = keep, ![t].next = "prune"]
    /\ UNCHANGED <<now, recentsVars, sessionVars, menu>>

\* The opener goes on; the menu is rebuilt unless it failed or the board was
\* open already.
Prune(t) ==
    /\ Doing(t, "prune")
    /\ projects' = [r \in Roots |-> IF r \in op[t].keep THEN projects[r] ELSE None]
    /\ Then(t, "read") \/ Done(t)
    /\ UNCHANGED <<now, latest, forgotten, crossed, sessionVars, menu>>

-----------------------------------------------------------------------------
(* The menu and the list *)

\* menu::refresh reads the recents, then installs a menu made of them.
RefreshMenu(t) ==
    /\ Begins(t, [next |-> "read", keep |-> {}])
    /\ UNCHANGED <<now, recentsVars, sessionVars, menu>>

ReadRecents(t) ==
    /\ Doing(t, "read")
    /\ \E shown \in Newest(Opened, projects, MenuLength) :
          op' = [op EXCEPT ![t].keep = shown, ![t].next = "install"]
    /\ UNCHANGED <<now, recentsVars, sessionVars, menu>>

InstallMenu(t) ==
    /\ Doing(t, "install")
    /\ menu' = op[t].keep
    /\ Done(t)
    /\ UNCHANGED <<now, recentsVars, sessionVars>>

Forgets(r) ==
    /\ projects' = [projects EXCEPT ![r] = None]
    /\ forgotten' = forgotten \union {r}
    /\ UNCHANGED <<latest, crossed>>

\* From the dashboard.
Remove(r) ==
    /\ Forgets(r)
    /\ UNCHANGED <<now, sessionVars, menu, op>>

\* Clear Menu: what the list holds is taken off one by one.
ClearMenu(t) ==
    /\ Begins(t, [next |-> "clear", keep |-> Opened])
    /\ UNCHANGED <<now, recentsVars, sessionVars, menu>>

Clears(t) ==
    /\ Doing(t, "clear")
    /\ IF op[t].keep = {}
       THEN Then(t, "read") /\ UNCHANGED recentsVars
       ELSE \E r \in op[t].keep :
               /\ op' = [op EXCEPT ![t].keep = @ \ {r}]
               /\ Forgets(r)
    /\ UNCHANGED <<now, sessionVars, menu>>

-----------------------------------------------------------------------------
(* record_session_started and touch_session, by a pump *)

\* An init announces a session; the link is whatever resume_session parked.  A
\* late init of a killed session may find the link meant for its successor.
Announced(t) ==
    /\ \E i \in Ids, link \in Ids \union {None} :
          /\ link # None => sessions[link] # None /\ Home[link] = Home[i]
          /\ Begins(t, [next |-> "find", id |-> i, at |-> now, from |-> link,
                        found |-> None, keep |-> {}])
          /\ announced' = announced \union {i}
          /\ mislinked' = mislinked \union {j \in announced \intersect {i} : link # None}
    /\ UNCHANGED <<now, recentsVars, sessions, menu>>

Find(t) ==
    /\ Doing(t, "find")
    /\ op' = [op EXCEPT ![t].found = sessions[op[t].id], ![t].next = "record"]
    /\ UNCHANGED <<now, recentsVars, sessionVars, menu>>

\* The link of a row, as its title and model, is set once; a row that went away, or came,
\* since it was looked for is an error, which ends the call.
Record(t) ==
    LET i   == op[t].id
        old == op[t].found
        put(row) == sessions' = [sessions EXCEPT ![i] = row]
    IN  /\ Doing(t, "record")
        /\ IF (old = None) # (sessions[i] = None)
           THEN Done(t) /\ UNCHANGED sessions
           ELSE /\ Then(t, "choose")
                /\ IF old = None
                   THEN put([used |-> op[t].at, from |-> op[t].from])
                   ELSE put([used |-> op[t].at,
                             from |-> IF old.from = None THEN op[t].from ELSE sessions[i].from])
        /\ UNCHANGED <<now, recentsVars, announced, mislinked, menu>>

Choose(t) ==
    LET w == Home[op[t].id]
    IN  /\ Doing(t, "choose")
        /\ \E keep \in Newest(Stored(w), [i \in Stored(w) |-> sessions[i].used], MaxSessions) :
              op' = [op EXCEPT ![t].keep = keep, ![t].next = "drop"]
        /\ UNCHANGED <<now, recentsVars, sessionVars, menu>>

Drop(t) ==
    /\ Doing(t, "drop")
    /\ sessions' = [i \in Ids |-> IF i \in Stored(Home[op[t].id]) \ op[t].keep
                                  THEN None ELSE sessions[i]]
    /\ Done(t)
    /\ UNCHANGED <<now, recentsVars, announced, mislinked, menu>>

\* A result: the session was used.
Touch(t) ==
    /\ \E i \in Ids : sessions[i] # None /\
          Begins(t, [next |-> "touch", id |-> i, at |-> now, keep |-> {}])
    /\ UNCHANGED <<now, recentsVars, sessionVars, menu>>

Touches(t) ==
    LET i == op[t].id
    IN  /\ Doing(t, "touch")
        /\ sessions' = [sessions EXCEPT
              ![i] = IF @ = None THEN None ELSE [@ EXCEPT !.used = op[t].at]]
        /\ Done(t)
        /\ UNCHANGED <<now, recentsVars, announced, mislinked, menu>>

-----------------------------------------------------------------------------
Tick ==
    /\ now < MaxTime
    /\ now' = now + 1
    /\ UNCHANGED <<recentsVars, sessionVars, menu, op>>

\* The application dies between two statements and starts again, with an empty
\* menu.
Restart ==
    /\ op' = [t \in Tasks |-> None]
    /\ menu' = {}
    /\ UNCHANGED <<now, recentsVars, sessionVars>>

Next ==
    \/ \E t \in Tasks :
          \/ Open(t) \/ Insert(t) \/ Select(t) \/ Prune(t)
          \/ RefreshMenu(t) \/ ReadRecents(t) \/ InstallMenu(t)
          \/ ClearMenu(t) \/ Clears(t)
          \/ Announced(t) \/ Find(t) \/ Record(t) \/ Choose(t) \/ Drop(t)
          \/ Touch(t) \/ Touches(t)
    \/ \E r \in Roots : Remove(r)
    \/ Tick
    \/ Restart

Spec == Init /\ [][Next]_vars

-----------------------------------------------------------------------------
(* What the application lists *)

\* Mutant of Superseded: the sessions that resumed another go, not those that
\* were resumed.
Resuming(w) == {i \in Stored(w) : sessions[i].from \in Stored(w)}

Superseded(w) == {sessions[i].from : i \in Stored(w)}

\* sessions_for, but for its limit.
Listed(w) == Stored(w) \ Superseded(w)

-----------------------------------------------------------------------------
(* Correctness *)

\* Whatever calls, crashes and removals interleave, a project that was opened
\* is on the list until the user takes it off or MaxProjects others were opened
\* as late; except one recorded in between another call's choice of what to
\* keep and its pruning, or after a later opening of it (lib.rs:158 "keep the
\* newest MAX_PROJECTS").
RecentsHoldTheNewest ==
    \A r \in Roots \ (forgotten \union crossed) :
        latest[r] # 0 /\ projects[r] = None =>
            Cardinality({s \in Roots \ {r} : latest[s] >= latest[r]}) >= MaxProjects

\* The sessions that carry i forward: i, those that resumed it, and so on.
Forwards(w) ==
    {X \in SUBSET Stored(w) : \A j \in Stored(w) : sessions[j].from \in X => j \in X}
Carriers(w, i) == {j \in Stored(w) : \A X \in Forwards(w) : i \in X => j \in X}

\* However the rows are pruned, a session that is hidden is continued by one
\* that is listed, in a workspace whose links are those of resumes (lib.rs:278
\* "their forked successor carries the history forward").
HiddenSessionsContinue ==
    \A w \in Workspaces :
        (\A i \in Stored(w) : i \notin mislinked) =>
            \A i \in Stored(w) \ Listed(w) : Carriers(w, i) \intersect Listed(w) # {}

=============================================================================
