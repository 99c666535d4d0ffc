------------------------------ MODULE PartClient ------------------------------
(***************************************************************************)
(* Getting parts from the vendor (crates/lcsc, crates/mcp/src/lcsc_tools.rs)*)
(* and installing them: searches, part checks and installs of the page and  *)
(* of the agent, all over one HTTP client and one on-disk cache.            *)
(*                                                                          *)
(* A call is a plan of fetches, each answered from the cache or by one      *)
(* request; the request looks at the circuit breaker, waits for its turn,   *)
(* goes out, may be sent once more, and its answer is put in the cache      *)
(* through a temporary file.  The network answers anything, the process may *)
(* die at any step and start again.                                         *)
(***************************************************************************)
EXTENDS Components

CONSTANTS Offline   \* ETCHABLE_LCSC_OFFLINE
ASSUME OfflineAssumption == Offline \in BOOLEAN

VARIABLES
    job,       \* per task: the call, where it is, and what it holds
    handle,    \* per task: the file its put has open
    cache,     \* entries by namespace and part
    tmp,       \* temporary files of this process, by entry
    breaker,   \* the breaker file: none, being written, or an expiry to come
    banned,    \* ghost: the service blocks us
    strays,    \* ghost: tasks whose request was past the breaker's check by then
    crossed    \* ghost: entries two tasks have put at once

ban        == <<breaker, banned, strays>>
puts       == <<handle, cache, tmp, crossed>>
directory  == <<files, stamp, sheets, torn>>
clientVars == <<job, ban, puts>>

\* mcp/lcsc_tools.rs: the fetches of search_tier, get_part and add_component.
Plan == [search |-> <<"search">>,
         get    |-> <<"jlc", "numbers", "docs">>,
         add    |-> <<"numbers", "docs", "jlc", "models">>]

Kinds      == DOMAIN Plan
Namespaces == {"search", "jlc", "numbers", "docs", "models"}
Entries    == Namespaces \X Parts

\* A file is whole, or a reader finds only a part of it.
Contents == {"whole", "part"}
NoEntry  == [content |-> None, fresh |-> FALSE]

\* at: a stage of the current fetch, or the install, whose next write is that
\* of piece, or the datasheet.  mirror: the second host of the 3D models.
Stages == {"look", "check", "queued", "sent", "tripping", "open", "write", "rename",
           "install", "sheet"}
Jobs == [kind : Kinds, part : Parts, name : CompNames, over : BOOLEAN,
         at : Stages, piece : 0..Len(WriteOrder), fetch : 1..4,
         retried : BOOLEAN, mirror : BOOLEAN, step : Contents \union {None}]

ASSUME NoJobAssumption == None \notin Jobs \union Contents

ClientTypeOK ==
    /\ job \in [Tasks -> Jobs \union {None}]
    /\ handle \in [Tasks -> {"none", "tmp", "entry"}]
    /\ cache \in [Entries -> [content : Contents \union {None}, fresh : BOOLEAN]]
    /\ tmp \in [Entries -> Contents \union {None}]
    /\ breaker \in {"none", "empty", "until"}
    /\ banned \in BOOLEAN
    /\ strays \subseteq Tasks
    /\ crossed \subseteq Entries

\* Some parts' entries are there from earlier runs of the application.
ClientInit(known) ==
    /\ job = [t \in Tasks |-> None]
    /\ handle = [t \in Tasks |-> "none"]
    /\ cache = [e \in Entries |-> IF e[2] \in known THEN [content |-> "whole", fresh |-> TRUE]
                                   ELSE NoEntry]
    /\ tmp = [e \in Entries |-> None]
    /\ breaker = "none"
    /\ banned = FALSE
    /\ strays = {}
    /\ crossed = {}

At(t, where) == job[t] # None /\ job[t].at \in where
Ns(t)        == Plan[job[t].kind][job[t].fetch]
Entry(t)     == <<Ns(t), job[t].part>>
Goes(t, where) == job' = [job EXCEPT ![t].at = where]

-----------------------------------------------------------------------------
(* Calls and their fetches *)

StartCall(t) ==
    /\ Starts(t)
    /\ \E k \in Kinds, p \in Parts, n \in CompNames, over \in BOOLEAN :
          /\ over => k = "add"
          /\ job' = [job EXCEPT ![t] =
                [kind |-> k, part |-> p, name |-> n, over |-> over, at |-> "look",
                 piece |-> 0, fetch |-> 1, retried |-> FALSE, mirror |-> FALSE, step |-> None]]
    /\ UNCHANGED <<ban, puts, directory>>

\* The call returns, with what it was asked for or with an error.
Return(t) ==
    /\ Ends(t)
    /\ job' = [job EXCEPT ![t] = None]
    /\ strays' = strays \ {t}

\* Whether a call goes on after fetch ns: an answer, or an error that is or is
\* not that of being offline or blocked.
GoesOn(kind, ns, outcome) ==
    \/ kind = "get" /\ ns = "jlc" /\ outcome # "blocked"
    \/ kind = "get" /\ ns = "numbers" /\ outcome = "got"
    \/ kind = "add" /\ (ns \in {"jlc", "models"} \/ outcome = "got")

\* The next fetch of the plan, the install after the last one, or the end.
Proceeds(t, outcome, step) ==
    IF GoesOn(job[t].kind, Ns(t), outcome)
    THEN /\ job' = [job EXCEPT ![t] =
                      IF job[t].fetch = Len(Plan[job[t].kind])
                      THEN [@ EXCEPT !.at = "install", !.step = step]
                      ELSE [@ EXCEPT !.at = "look", !.step = step, !.fetch = job[t].fetch + 1,
                                     !.retried = FALSE, !.mirror = FALSE]]
         /\ strays' = strays \ {t}
         /\ UNCHANGED busy
    ELSE Return(t)

\* The call keeps what a fetch got if it is the 3D model.
Got(t, content) == Proceeds(t, "got", IF Ns(t) = "models" THEN content ELSE job[t].step)
Lacks(t, outcome) == Proceeds(t, outcome, job[t].step)

\* A request that failed: a search or a detail falls back on an expired entry.
Failed(t, outcome) ==
    IF Ns(t) \in {"search", "jlc"} /\ cache[Entry(t)].content = "whole"
    THEN Got(t, "whole")
    ELSE Lacks(t, outcome)

\* What is parsed is used only if it is whole; a 3D model is handed on as read.
Usable(t) ==
    /\ cache[Entry(t)].fresh
    /\ cache[Entry(t)].content = "part" => Ns(t) = "models"

Look(t) ==
    /\ At(t, {"look"})
    /\ IF Usable(t)
       THEN Got(t, cache[Entry(t)].content)
       ELSE Goes(t, "check") /\ UNCHANGED <<busy, strays>>
    /\ UNCHANGED <<breaker, banned, puts, directory, calls>>

\* The part has no 3D model, or none was asked for.
NoModel(t) ==
    /\ At(t, {"look"}) /\ Ns(t) = "models"
    /\ Lacks(t, "other")
    /\ UNCHANGED <<breaker, banned, puts, directory, calls>>

-----------------------------------------------------------------------------
(* One request: http.rs, Client::request *)

\* The breaker file is read once, before the request waits for its turn.  A
\* file that another task is just writing reads as none.
Check(t) ==
    /\ At(t, {"check"})
    /\ IF Offline \/ breaker = "until"
       THEN Failed(t, "blocked")
       ELSE /\ Goes(t, "queued")
            /\ strays' = strays \union {u \in {t} : banned /\ breaker = "empty"}
            /\ UNCHANGED busy
    /\ UNCHANGED <<breaker, banned, puts, directory, calls>>

\* Its turn has come; the turn is over before the answer is in.
Send(t) ==
    /\ At(t, {"queued"})
    /\ Goes(t, "sent")
    /\ UNCHANGED <<ban, puts, componentVars>>

\* A good body, parsed, is put in the cache; a 3D model over the cap is not.
Answered(t) ==
    /\ At(t, {"sent"})
    /\ \/ /\ job' = [job EXCEPT ![t].at = "open", ![t].retried = FALSE, ![t].mirror = FALSE]
          /\ UNCHANGED <<busy, strays>>
       \/ Ns(t) = "models" /\ Lacks(t, "other")
    /\ UNCHANGED <<breaker, banned, puts, directory, calls>>

\* 429 or a server error: once more, after a pause.
AskedToRetry(t) ==
    /\ At(t, {"sent"}) /\ ~job[t].retried
    /\ job' = [job EXCEPT ![t].retried = TRUE, ![t].at = "queued"]
    /\ UNCHANGED <<ban, puts, componentVars>>

\* Any other error, or no answer: the mirror is asked for a 3D model.
Refused(t) ==
    /\ At(t, {"sent"})
    /\ \/ /\ Ns(t) = "models" /\ ~job[t].mirror
          /\ job' = [job EXCEPT ![t].mirror = TRUE, ![t].retried = FALSE, ![t].at = "check"]
          /\ strays' = strays \ {t}
          /\ UNCHANGED busy
       \/ (Ns(t) = "models" => job[t].mirror) /\ Failed(t, "other")
    /\ UNCHANGED <<breaker, banned, puts, directory, calls>>

\* A body that is not what was asked for: no fallback on the cache.
Misunderstood(t) ==
    /\ At(t, {"sent"})
    /\ Lacks(t, "other")
    /\ UNCHANGED <<breaker, banned, puts, directory, calls>>

\* 403: the breaker file is truncated, then holds an expiry.
Blocked(t) ==
    /\ At(t, {"sent"})
    /\ Goes(t, "tripping")
    /\ breaker' = "empty"
    /\ banned' = TRUE
    /\ strays' = strays \union {u \in Tasks : At(u, {"queued", "sent"})}
    /\ UNCHANGED <<puts, componentVars>>

Tripped(t) ==
    /\ At(t, {"tripping"})
    /\ breaker' = "until"
    /\ Failed(t, "blocked")
    /\ UNCHANGED <<banned, puts, directory, calls>>

-----------------------------------------------------------------------------
(* One put: cache.rs, Cache::put *)

\* Mutant of PutName: the entry is written in place.
PutInPlace == "entry"

PutName == "tmp"

Putting(e) == {u \in Tasks : At(u, {"write", "rename"}) /\ Entry(u) = e}

\* The file is created or truncated.
PutOpens(t) ==
    LET e == Entry(t)
    IN  /\ At(t, {"open"})
        /\ Goes(t, "write")
        /\ handle' = [handle EXCEPT ![t] = PutName]
        /\ tmp' = [tmp EXCEPT ![e] = IF PutName = "tmp" THEN "part" ELSE @]
        /\ cache' = [cache EXCEPT ![e].content = IF PutName = "entry" THEN "part" ELSE @]
        /\ crossed' = crossed \union {x \in {e} : Putting(e) # {}}
        /\ UNCHANGED <<ban, componentVars>>

\* The bytes are written, wherever the open file is by now.  Two writers of
\* one file leave it whole when they write the same bytes, as those of a 3D
\* model are, and perhaps not otherwise.
PutWrites(t) ==
    LET e == Entry(t)
    IN  /\ At(t, {"write"})
        /\ Goes(t, "rename")
        /\ \E c \in IF Ns(t) # "models" /\ e \in crossed THEN Contents ELSE {"whole"} :
              /\ tmp' = [tmp EXCEPT ![e] = IF handle[t] = "tmp" THEN c ELSE @]
              /\ cache' = [cache EXCEPT ![e].content = IF handle[t] = "entry" THEN c ELSE @]
        /\ UNCHANGED <<handle, crossed, ban, componentVars>>

\* The temporary file takes the entry's place, with whoever still writes it.
\* It may be gone: another task renamed it.  The error is ignored.
PutRenames(t) ==
    LET e == Entry(t)
        there == tmp[e] # None
        moved(u) == IF handle[u] = "tmp" THEN "entry" ELSE "none"
    IN  /\ At(t, {"rename"})
        /\ cache' = [cache EXCEPT ![e] = IF there THEN [content |-> tmp[e], fresh |-> TRUE] ELSE @]
        /\ tmp' = [tmp EXCEPT ![e] = None]
        /\ handle' = [u \in Tasks |-> IF u = t THEN "none"
                                      ELSE IF there /\ u \in Putting(e) THEN moved(u) ELSE handle[u]]
        /\ Got(t, "whole")
        /\ UNCHANGED <<crossed, breaker, banned, directory, calls>>

\* A write fails half-way (a full disk): the answer is used all the same.  A
\* temporary file left alone is as good as none, the next put truncates it.
PutFails(t) ==
    /\ At(t, {"open", "write"})
    /\ handle' = [handle EXCEPT ![t] = "none"]
    /\ tmp' = [tmp EXCEPT ![Entry(t)] = IF Putting(Entry(t)) \ {t} = {} THEN None ELSE @]
    /\ Got(t, "whole")
    /\ UNCHANGED <<cache, crossed, breaker, banned, directory, calls>>

-----------------------------------------------------------------------------
(* The install *)

Installing(t) == At(t, {"install"}) /\ job[t].piece # 0
OthersInstalling(t) == {u \in Tasks \ {t} : Installing(u) /\ job[u].name = job[t].name}

\* Conversion and validation may refuse.  The clobber guard looks before any
\* file is written.
BeginInstall(t) ==
    LET n == job[t].name
    IN  /\ At(t, {"install"}) /\ job[t].piece = 0
        /\ \/ /\ MayInstall(n, job[t].over)
              /\ job' = [job EXCEPT ![t].piece = 1]
              /\ torn' = torn \union {m \in {n} : (Clobbers(n) /\ job[t].over)
                                                    \/ OthersInstalling(t) # {}}
              /\ UNCHANGED <<strays, busy>>
           \/ Return(t) /\ UNCHANGED torn
        /\ UNCHANGED <<breaker, banned, puts, files, stamp, sheets, calls>>

InstallWrites(t) ==
    LET x == WriteOrder[job[t].piece]
    IN  /\ Installing(t)
        /\ job' = [job EXCEPT ![t] = IF @.piece = Len(WriteOrder) THEN [@ EXCEPT !.at = "sheet"]
                                     ELSE [@ EXCEPT !.piece = job[t].piece + 1]]
        /\ IF x = "step" /\ job[t].step = None
           THEN UNCHANGED <<files, stamp>>
           ELSE WritePiece(job[t].name, x, job[t].part)
        /\ UNCHANGED <<ban, puts, sheets, busy, calls, torn>>

\* A write fails: what was written stays.
InstallFails(t) ==
    /\ Installing(t)
    /\ Return(t)
    /\ UNCHANGED <<breaker, banned, puts, directory, calls>>

\* datasheet.rs: a file that is there is taken for the datasheet; a download
\* that fails is only a warning.
Datasheet(t) ==
    LET n == job[t].name
    IN  /\ At(t, {"sheet"})
        /\ sheets' \in {sheets, [sheets EXCEPT ![n] = IF @ = None THEN job[t].part ELSE @]}
        /\ Return(t)
        /\ UNCHANGED <<breaker, banned, puts, files, stamp, calls, torn>>

-----------------------------------------------------------------------------
(* Around the calls *)

\* Entries expire, but not those addressed by uuid.
Expires(e) ==
    /\ e[1] \notin {"docs", "models"} /\ cache[e].fresh
    /\ cache' = [cache EXCEPT ![e].fresh = FALSE]
    /\ UNCHANGED <<job, ban, handle, tmp, crossed, componentVars>>

\* Thirty minutes later: the expiry is past.  An empty file reads as none too.
BanEnds ==
    /\ banned
    /\ \A t \in Tasks : ~At(t, {"tripping"})
    /\ banned' = FALSE
    /\ breaker' = "none"
    /\ strays' = {}
    /\ UNCHANGED <<job, puts, componentVars>>

\* Mutant of BreakerAfterCrash: the breaker lives in memory.
BreakerForgotten == "none"

BreakerAfterCrash == breaker

\* The process dies and starts again: another pid, other temporary files.
ClientCrash ==
    /\ job' = [t \in Tasks |-> None]
    /\ handle' = [t \in Tasks |-> "none"]
    /\ tmp' = [e \in Entries |-> None]
    /\ breaker' = BreakerAfterCrash
    /\ strays' = {}
    /\ UNCHANGED <<cache, banned, crossed>>

Calls(t) ==
    \/ StartCall(t) \/ Look(t) \/ NoModel(t) \/ Check(t) \/ Send(t)
    \/ Answered(t) \/ AskedToRetry(t) \/ Refused(t) \/ Misunderstood(t) \/ Blocked(t) \/ Tripped(t)
    \/ PutOpens(t) \/ PutWrites(t) \/ PutRenames(t) \/ PutFails(t)
    \/ BeginInstall(t) \/ InstallWrites(t) \/ InstallFails(t) \/ Datasheet(t)

-----------------------------------------------------------------------------
(* Correctness *)

\* From a 403 until the breaker's expiry only requests go out that were past
\* the breaker's check by then, or that looked while the file was being
\* written; also when the application is started again in between (http.rs:3
\* "retrying makes it worse", :67 "so a ban survives app restarts").
NoRequestInBan ==
    [][\A t \in Tasks : Send(t) /\ banned => t \in strays]_clientVars

\* Whatever tasks and crashes interleave, an entry is either whole or was put
\* by two tasks at once (cache.rs:93 "Atomic write"); and so is the 3D model
\* an install vendors, which nothing parses.
CacheIsWhole ==
    /\ \A e \in Entries : cache[e].content = "part" => e \in crossed
    /\ \A t \in Tasks :
          job[t] # None /\ job[t].step = "part" => <<"models", job[t].part>> \in crossed

=============================================================================
