------------------------------ MODULE Components ------------------------------
(***************************************************************************)
(* A project's components/ directory as the installer writes it             *)
(* (crates/zen-build/src/scaffold.rs, install_component) and as placements  *)
(* read it (edit.rs): the pieces of each component, which part each piece   *)
(* is of, and the modification time of its wrapper.                         *)
(*                                                                          *)
(* An install takes no lock and goes through no gate: the page's            *)
(* lcsc_install and the agent's add_component may run it at once.           *)
(***************************************************************************)
EXTENDS Naturals, FiniteSets, Sequences

CONSTANTS
    Tasks,      \* calls that may be under way at once
    CompNames,  \* component names users choose
    Parts,      \* parts of the vendor's catalog
    MaxCalls,   \* bound for TLC: how many calls are started
    None

ASSUME CallsAssumption == MaxCalls \in Nat
ASSUME NoPartAssumption == None \notin Parts

VARIABLES
    files,   \* components/<name>.*: which part each piece was written for
    stamp,   \* modification time of components/<name>.zen
    sheets,  \* datasheets/<name>.pdf: whose it is
    busy,    \* tasks with a call under way
    calls,   \* how many have been started
    torn     \* ghost: names whose installs crossed, replaced or were cut short

componentVars == <<files, stamp, sheets, busy, calls, torn>>

Pieces == {"dir", "sym", "mod", "step", "card", "zen"}

ComponentsTypeOK ==
    /\ files \in [CompNames -> [Pieces -> Parts \union {None}]]
    /\ stamp \in [CompNames -> Nat]
    /\ sheets \in [CompNames -> Parts \union {None}]
    /\ busy \subseteq Tasks
    /\ calls \in 0..MaxCalls
    /\ torn \subseteq CompNames

ComponentsInit(installed) ==
    /\ files = [n \in CompNames |-> [x \in Pieces |-> installed[n]]]
    /\ stamp = [n \in CompNames |-> IF installed[n] = None THEN 0 ELSE 1]
    /\ sheets = installed
    /\ busy = {}
    /\ calls = 0
    /\ torn = {}

\* A call starts in a task that has none.
Starts(t) ==
    /\ t \notin busy
    /\ calls < MaxCalls
    /\ busy' = busy \union {t}
    /\ calls' = calls + 1

Ends(t) == busy' = busy \ {t}

\* The clobber guard: it looks at three of the paths.
Clobbers(n) == \E x \in {"dir", "card", "zen"} : files[n][x] # None

\* Mutant of MayInstall: nothing looks.
InstallsAnyway(n, over) == TRUE

MayInstall(n, over) == over \/ ~Clobbers(n)

\* Mutant of WriteOrder: the wrapper goes first.
WrapperFirst == <<"dir", "zen", "sym", "mod", "step", "card">>

\* The assets first, the card next, the wrapper last: its write is what the
\* watcher sees.
WriteOrder == <<"dir", "sym", "mod", "step", "card", "zen">>

\* One file of part p's component n is written; the wrapper's time moves.
WritePiece(n, x, p) ==
    /\ files' = [files EXCEPT ![n][x] = p]
    /\ stamp' = IF x = "zen" THEN [stamp EXCEPT ![n] = @ + 1] ELSE stamp

\* What a wrapper of a part refers to.
Referenced(n) == {files[n][x] : x \in {"sym", "mod"}}

\* The evaluator accepts the wrapper: its symbol has the pins it names.
Sound(n) == files[n].zen # None /\ files[n].sym = files[n].zen

-----------------------------------------------------------------------------
(* Correctness *)

\* A wrapper is on disk only with the assets and the card it needs, whatever
\* was cut short and whoever installed at the same time; and they are of its
\* own part unless two installs of the name crossed or one replaced another
\* (scaffold.rs:49 "the `.zen` LAST ... by then every referenced file exists").
WrapperHasItsFiles ==
    \A n \in CompNames :
        files[n].zen # None =>
            /\ None \notin Referenced(n) \union {files[n].card}
            /\ n \notin torn => Referenced(n) = {files[n].zen}

=============================================================================
