----------------------------- MODULE PaletteProofs -----------------------------
(***************************************************************************)
(* Theorems about getting, installing and placing parts, for any number of  *)
(* tasks, parts, component names and calls.  TLC explores them where the    *)
(* run's constraint lets requests, writes and placements overlap only a     *)
(* little; here they overlap as they may.                                   *)
(***************************************************************************)
EXTENDS Palette, TLAPS

(* A call is inside its plan, and writes no file before its install begins *)
JobOK(j) ==
    /\ j.fetch <= Len(Plan[j.kind])
    /\ j.at \notin {"install", "sheet"} => j.piece = 0

JobsOK == job \in [Tasks -> Jobs \union {None}] /\ \A t \in Tasks : job[t] # None => JobOK(job[t])

(* The rest of PaletteTypeOK, part by part *)
CacheOK ==
    /\ handle \in [Tasks -> {"none", "tmp", "entry"}]
    /\ cache \in [Entries -> [content : Contents \union {None}, fresh : BOOLEAN]]
    /\ tmp \in [Entries -> Contents \union {None}]
    /\ crossed \subseteq Entries

BreakerOK == breaker \in {"none", "empty", "until"} /\ banned \in BOOLEAN /\ strays \subseteq Tasks

DirectoryOK ==
    /\ files \in [CompNames -> [Pieces -> Parts \union {None}]]
    /\ stamp \in [CompNames -> Nat]
    /\ sheets \in [CompNames -> Parts \union {None}]
    /\ torn \subseteq CompNames

BusyOK ==
    /\ pre \in [Tasks -> Evaluations \union {None}]
    /\ calls \in 0..MaxCalls
    /\ busy = {t \in Tasks : job[t] # None} \union Evaluating
    /\ \A t \in Tasks : job[t] = None \/ pre[t] = None

TypeInv == JobsOK /\ CacheOK /\ BreakerOK /\ DirectoryOK /\ BusyOK /\ PlacementTypeOK

LEMMA TypeInvImplies == TypeInv => PaletteTypeOK
<1> SUFFICES ASSUME TypeInv PROVE PaletteTypeOK
  OBVIOUS
<1>1. ComponentsTypeOK
  BY DEF TypeInv, DirectoryOK, BusyOK, ComponentsTypeOK, Evaluating
<1>2. ClientTypeOK
  BY DEF TypeInv, JobsOK, CacheOK, BreakerOK, ClientTypeOK
<1>3. {t \in Tasks : job[t] # None} \intersect Evaluating = {}
  BY DEF TypeInv, BusyOK, Evaluating
<1> QED BY <1>1, <1>2, <1>3 DEF TypeInv, BusyOK, PaletteTypeOK

--------------------------------------------------------------------------------
(* The plans, and what a task fetches *)

LEMMA PlanShape ==
    /\ Kinds = {"search", "get", "add"}
    /\ Len(Plan["search"]) = 1 /\ Len(Plan["get"]) = 3 /\ Len(Plan["add"]) = 4
    /\ \A k \in Kinds : Len(Plan[k]) \in 1..4
    /\ \A k \in Kinds : \A i \in 1..4 : i <= Len(Plan[k]) => Plan[k][i] \in Namespaces
  BY DEF Kinds, Plan, Namespaces

LEMMA OrderShape ==
    /\ Len(WriteOrder) = 6
    /\ WriteOrder[1] = "dir" /\ WriteOrder[2] = "sym" /\ WriteOrder[3] = "mod"
    /\ WriteOrder[4] = "step" /\ WriteOrder[5] = "card" /\ WriteOrder[6] = "zen"
    /\ \A i \in 1..6 : WriteOrder[i] \in Pieces
  BY DEF WriteOrder, Pieces

LEMMA FetchType ==
    ASSUME JobsOK, NEW t \in Tasks, job[t] # None
    PROVE  job[t] \in Jobs /\ JobOK(job[t]) /\ Ns(t) \in Namespaces /\ Entry(t) \in Entries
<1>1. job[t] \in Jobs /\ JobOK(job[t])
  BY DEF JobsOK
<1>2. job[t].kind \in Kinds /\ job[t].fetch \in 1..4 /\ job[t].part \in Parts
  BY <1>1 DEF Jobs
<1>3. Ns(t) \in Namespaces
  BY <1>1, <1>2, PlanShape DEF Ns, JobOK
<1> QED BY <1>1, <1>2, <1>3 DEF Entry, Entries

(* What a step of its own makes of a call: it ends, or it is the same call   *)
(* further on                                                                *)
SameCall(a, b) ==
    /\ b \in Jobs /\ JobOK(b)
    /\ b.kind = a.kind /\ b.part = a.part /\ b.name = a.name /\ b.over = a.over

Moves(t, j) ==
    /\ job' = [job EXCEPT ![t] = j]
    /\ \/ j = None /\ busy' = busy \ {t}
       \/ SameCall(job[t], j) /\ busy' = busy

LEMMA GoesMoves ==
    ASSUME JobsOK, NEW t \in Tasks, job[t] # None, NEW where \in Stages, Goes(t, where),
           where \notin {"install", "sheet"} => job[t].piece = 0, busy' = busy
    PROVE  \E j \in Jobs : /\ Moves(t, j) /\ j.at = where /\ j.step = job[t].step
                           /\ j.piece = job[t].piece /\ j.fetch = job[t].fetch
<1> DEFINE j == [job[t] EXCEPT !.at = where]
<1>1. job[t] \in Jobs /\ JobOK(job[t])
  BY FetchType
<1>2. /\ j \in Jobs /\ j.at = where /\ j.step = job[t].step /\ j.piece = job[t].piece
      /\ j.fetch = job[t].fetch /\ j.kind = job[t].kind /\ j.part = job[t].part
      /\ j.name = job[t].name /\ j.over = job[t].over
  BY <1>1 DEF Jobs
<1>3. JobOK(j)
  BY <1>1, <1>2 DEF JobOK
<1>4. job' = [job EXCEPT ![t] = j]
  BY DEF Goes, JobsOK
<1> HIDE DEF j
<1> QED BY <1>2, <1>3, <1>4 DEF Moves, SameCall

LEMMA ProceedsMoves ==
    ASSUME JobsOK, NEW t \in Tasks, job[t] # None, job[t].piece = 0,
           NEW step \in Contents \union {None}, NEW outcome, Proceeds(t, outcome, step)
    PROVE  \E j \in Jobs \union {None} :
              /\ Moves(t, j)
              /\ strays' = strays \ {t}
              /\ j # None => j.at \in {"look", "install"} /\ j.step = step /\ j.piece = 0
<1>1. job[t] \in Jobs /\ JobOK(job[t]) /\ job[t].kind \in Kinds /\ job[t].fetch \in 1..4
  BY FetchType DEF Jobs
<1>2. CASE ~GoesOn(job[t].kind, Ns(t), outcome)
  BY <1>2 DEF Proceeds, Return, Ends, Moves
<1>3. CASE GoesOn(job[t].kind, Ns(t), outcome) /\ job[t].fetch = Len(Plan[job[t].kind])
  <2> DEFINE j == [job[t] EXCEPT !.at = "install", !.step = step]
  <2>1. job' = [job EXCEPT ![t] = j] /\ strays' = strays \ {t} /\ busy' = busy
    BY <1>3 DEF Proceeds, JobsOK
  <2>2. /\ j \in Jobs /\ j.at = "install" /\ j.step = step /\ j.piece = 0
        /\ j.fetch = job[t].fetch /\ j.kind = job[t].kind /\ j.part = job[t].part
        /\ j.name = job[t].name /\ j.over = job[t].over
    BY <1>1 DEF Jobs, Stages
  <2>3. JobOK(j)
    BY <1>1, <2>2 DEF JobOK
  <2> HIDE DEF j
  <2> QED BY <2>1, <2>2, <2>3 DEF Moves, SameCall
<1>4. CASE GoesOn(job[t].kind, Ns(t), outcome) /\ job[t].fetch # Len(Plan[job[t].kind])
  <2> DEFINE j == [job[t] EXCEPT !.at = "look", !.step = step, !.fetch = @ + 1,
                                 !.retried = FALSE, !.mirror = FALSE]
  <2>1. job' = [job EXCEPT ![t] = j] /\ strays' = strays \ {t} /\ busy' = busy
    BY <1>4 DEF Proceeds, JobsOK
  <2>2. job[t].fetch + 1 \in 1..4 /\ job[t].fetch + 1 <= Len(Plan[job[t].kind])
    <3>1. \A f, l \in 1..4 : f <= l /\ f # l => f + 1 \in 1..4 /\ f + 1 <= l
      OBVIOUS
    <3>2. Len(Plan[job[t].kind]) \in 1..4
      BY <1>1, PlanShape
    <3> QED BY <1>1, <1>4, <3>1, <3>2 DEF JobOK
  <2>3. /\ j \in Jobs /\ j.at = "look" /\ j.step = step /\ j.piece = 0
        /\ j.fetch = job[t].fetch + 1 /\ j.kind = job[t].kind /\ j.part = job[t].part
        /\ j.name = job[t].name /\ j.over = job[t].over
    BY <1>1, <2>2 DEF Jobs, Stages
  <2>4. JobOK(j)
    BY <2>2, <2>3 DEF JobOK
  <2> HIDE DEF j
  <2> QED BY <2>1, <2>3, <2>4 DEF Moves, SameCall
<1> QED BY <1>2, <1>3, <1>4

LEMMA AnswerMoves ==
    ASSUME JobsOK, NEW t \in Tasks, job[t] # None, job[t].piece = 0,
           NEW c \in Contents \union {None}, NEW outcome,
           Got(t, c) \/ Lacks(t, outcome) \/ Failed(t, outcome)
    PROVE  \E j \in Jobs \union {None} :
              /\ Moves(t, j)
              /\ strays' = strays \ {t}
              /\ j # None => /\ j.at \in {"look", "install"} /\ j.piece = 0
                             /\ j.step = job[t].step \/ (Ns(t) = "models" /\ j.step = c)
<1>1. job[t].step \in Contents \union {None} /\ "whole" \in Contents
  BY FetchType DEF Jobs, Contents
<1>2. PICK o \in {"got", outcome}, step \in Contents \union {None} :
        Proceeds(t, o, step) /\ (step = job[t].step \/ (Ns(t) = "models" /\ step = c))
  BY <1>1 DEF Got, Lacks, Failed
<1>3. PICK j \in Jobs \union {None} :
        /\ Moves(t, j) /\ strays' = strays \ {t}
        /\ j # None => j.at \in {"look", "install"} /\ j.step = step /\ j.piece = 0
  BY <1>2, ProceedsMoves
<1> QED BY <1>2, <1>3

--------------------------------------------------------------------------------
(* The steps of a call by what they touch: a fetch touches the breaker, a     *)
(* put the cache, an install the directory                                   *)
FetchStep(t) ==
    \/ Look(t) \/ NoModel(t) \/ Check(t) \/ Send(t) \/ Answered(t) \/ AskedToRetry(t)
    \/ Refused(t) \/ Misunderstood(t) \/ Blocked(t) \/ Tripped(t)
PutStep(t)     == PutOpens(t) \/ PutWrites(t) \/ PutRenames(t) \/ PutFails(t)
InstallStep(t) == BeginInstall(t) \/ InstallWrites(t) \/ InstallFails(t) \/ Datasheet(t)

LEMMA CallSteps == \A t : Calls(t) <=> StartCall(t) \/ FetchStep(t) \/ PutStep(t) \/ InstallStep(t)
  BY DEF Calls, FetchStep, PutStep, InstallStep

(* What a fetch step leaves of the call *)
Fetched(t, j) ==
    /\ Moves(t, j)
    /\ j # None =>
          /\ j.at \in {"look", "check", "queued", "sent", "tripping", "open", "install"}
          /\ j.piece = 0
          /\ j.step = job[t].step \/ (Ns(t) = "models" /\ j.step = cache[Entry(t)].content)

LEMMA FetchMoves ==
    ASSUME TypeInv, NEW t \in Tasks, FetchStep(t)
    PROVE  /\ At(t, {"look", "check", "queued", "sent", "tripping"}) /\ job[t].piece = 0
           /\ UNCHANGED <<puts, directory, calls>>
           /\ \E j \in Jobs \union {None} : Fetched(t, j)
<1>1. At(t, {"look", "check", "queued", "sent", "tripping"})
  BY DEF FetchStep, Look, NoModel, Check, Send, Answered, AskedToRetry, Refused, Misunderstood,
         Blocked, Tripped, At
<1>2. UNCHANGED <<puts, directory, calls>>
  BY DEF FetchStep, Look, NoModel, Check, Send, Answered, AskedToRetry, Refused, Misunderstood,
         Blocked, Tripped, componentVars, directory
<1>3. /\ job[t] # None /\ job[t] \in Jobs /\ JobOK(job[t]) /\ Entry(t) \in Entries
      /\ job[t].piece = 0
  BY <1>1, FetchType DEF TypeInv, At, JobOK
<1> SUFFICES \E j \in Jobs \union {None} : Fetched(t, j)
  BY <1>1, <1>2, <1>3
<1>4. cache[Entry(t)].content \in Contents \union {None} /\ strays \subseteq Tasks /\ JobsOK
  BY <1>3 DEF TypeInv, CacheOK, BreakerOK
<1>5. ASSUME NEW outcome, NEW c \in Contents \union {None},
             Got(t, c) \/ Lacks(t, outcome) \/ Failed(t, outcome),
             c = cache[Entry(t)].content
      PROVE  \E j \in Jobs \union {None} : Fetched(t, j)
  <2>1. PICK j \in Jobs \union {None} :
           /\ Moves(t, j)
           /\ j # None => /\ j.at \in {"look", "install"} /\ j.piece = 0
                          /\ j.step = job[t].step \/ (Ns(t) = "models" /\ j.step = c)
    BY <1>3, <1>4, <1>5, AnswerMoves
  <2> QED BY <1>5, <2>1 DEF Fetched
<1>6. ASSUME NEW where \in {"check", "queued", "sent", "tripping", "open"}, Goes(t, where), busy' = busy
      PROVE  \E j \in Jobs \union {None} : Fetched(t, j)
  BY <1>3, <1>4, <1>6, GoesMoves DEF Fetched, Stages
<1> DEFINE Answer == \E outcome : Got(t, cache[Entry(t)].content) \/ Lacks(t, outcome) \/ Failed(t, outcome)
           Go == \E where \in {"check", "queued", "sent", "tripping", "open"} : Goes(t, where) /\ busy' = busy
<1>7. ASSUME Answer \/ Go PROVE \E j \in Jobs \union {None} : Fetched(t, j)
  BY <1>4, <1>5, <1>6, <1>7
<1>8. CASE Look(t) \/ NoModel(t)
  BY <1>7, <1>8 DEF Look, NoModel
<1>9. CASE Check(t)
  BY <1>7, <1>9 DEF Check
<1>10. CASE Send(t) \/ Blocked(t)
  BY <1>7, <1>10 DEF Send, Blocked, componentVars
<1>11. CASE Misunderstood(t) \/ Tripped(t)
  BY <1>7, <1>11 DEF Misunderstood, Tripped
<1>12. CASE Answered(t)
  <2>1. CASE Lacks(t, "other")
    BY <1>7, <2>1
  <2>2. ASSUME job' = [job EXCEPT ![t].at = "open", ![t].retried = FALSE, ![t].mirror = FALSE],
               UNCHANGED <<busy, strays>>
        PROVE  \E j \in Jobs \union {None} : Fetched(t, j)
    <3> DEFINE j == [job[t] EXCEPT !.at = "open", !.retried = FALSE, !.mirror = FALSE]
    <3>1. job' = [job EXCEPT ![t] = j]
      BY <1>4, <2>2 DEF JobsOK
    <3>2. /\ j \in Jobs /\ j.at = "open" /\ j.step = job[t].step /\ j.piece = 0
          /\ j.fetch = job[t].fetch /\ j.kind = job[t].kind /\ j.part = job[t].part
          /\ j.name = job[t].name /\ j.over = job[t].over
      BY <1>3 DEF Jobs, Stages
    <3> HIDE DEF j
    <3> QED BY <1>3, <2>2, <3>1, <3>2 DEF Fetched, Moves, SameCall, JobOK
  <2> QED BY <1>12, <2>1, <2>2 DEF Answered
<1>13. CASE AskedToRetry(t)
  <2> DEFINE j == [job[t] EXCEPT !.retried = TRUE, !.at = "queued"]
  <2>1. job' = [job EXCEPT ![t] = j] /\ busy' = busy
    BY <1>4, <1>13 DEF AskedToRetry, JobsOK, componentVars
  <2>2. /\ j \in Jobs /\ j.at = "queued" /\ j.step = job[t].step /\ j.piece = 0
        /\ j.fetch = job[t].fetch /\ j.kind = job[t].kind /\ j.part = job[t].part
        /\ j.name = job[t].name /\ j.over = job[t].over
    BY <1>3 DEF Jobs, Stages
  <2> HIDE DEF j
  <2> QED BY <1>3, <2>1, <2>2 DEF Fetched, Moves, SameCall, JobOK
<1>14. CASE Refused(t)
  <2>1. CASE Failed(t, "other")
    BY <1>7, <2>1
  <2>2. ASSUME job' = [job EXCEPT ![t].mirror = TRUE, ![t].retried = FALSE, ![t].at = "check"],
               UNCHANGED busy
        PROVE  \E j \in Jobs \union {None} : Fetched(t, j)
    <3> DEFINE j == [job[t] EXCEPT !.mirror = TRUE, !.retried = FALSE, !.at = "check"]
    <3>1. job' = [job EXCEPT ![t] = j]
      BY <1>4, <2>2 DEF JobsOK
    <3>2. /\ j \in Jobs /\ j.at = "check" /\ j.step = job[t].step /\ j.piece = 0
          /\ j.fetch = job[t].fetch /\ j.kind = job[t].kind /\ j.part = job[t].part
          /\ j.name = job[t].name /\ j.over = job[t].over
      BY <1>3 DEF Jobs, Stages
    <3> HIDE DEF j
    <3> QED BY <1>3, <2>2, <3>1, <3>2 DEF Fetched, Moves, SameCall, JobOK
  <2> QED BY <1>14, <2>1, <2>2 DEF Refused
<1> QED BY <1>8, <1>9, <1>10, <1>11, <1>12, <1>13, <1>14 DEF FetchStep

LEMMA FetchBreaker ==
    ASSUME TypeInv, NEW t \in Tasks, FetchStep(t)
    PROVE  BreakerOK'
<1>1. breaker' \in {"none", "empty", "until"} /\ banned' \in BOOLEAN
  BY DEF TypeInv, BreakerOK, FetchStep, Look, NoModel, Check, Send, Answered, AskedToRetry, Refused,
         Misunderstood, Blocked, Tripped, ban
<1>2. job[t] # None /\ job[t].piece = 0 /\ job[t] \in Jobs /\ Entry(t) \in Entries
  BY FetchMoves, FetchType DEF TypeInv, At
<1>3. cache[Entry(t)].content \in Contents \union {None}
  BY <1>2 DEF TypeInv, CacheOK
<1>4. ASSUME NEW outcome, Got(t, cache[Entry(t)].content) \/ Lacks(t, outcome) \/ Failed(t, outcome)
      PROVE  strays' = strays \ {t}
  BY <1>2, <1>3, <1>4, AnswerMoves DEF TypeInv
<1>5. strays' \subseteq strays \union Tasks
  BY <1>4 DEF FetchStep, Look, NoModel, Check, Send, Answered, AskedToRetry, Refused,
         Misunderstood, Blocked, Tripped, ban
<1> QED BY <1>1, <1>5 DEF TypeInv, BreakerOK

LEMMA PutMoves ==
    ASSUME TypeInv, NEW t \in Tasks, PutStep(t)
    PROVE  /\ At(t, {"open", "write", "rename"}) /\ job[t].piece = 0
           /\ UNCHANGED <<directory, calls, breaker, banned>> /\ strays' \in {strays, strays \ {t}}
           /\ \E j \in Jobs \union {None} :
                /\ Moves(t, j)
                /\ j # None => /\ j.at \in {"write", "rename", "look", "install"} /\ j.piece = 0
                               /\ j.step = job[t].step \/ (Ns(t) = "models" /\ j.step = "whole")
<1>1. At(t, {"open", "write", "rename"})
  BY DEF PutStep, PutOpens, PutWrites, PutRenames, PutFails, At
<1>2. UNCHANGED <<directory, calls, breaker, banned>>
  BY DEF PutStep, PutOpens, PutWrites, PutRenames, PutFails, directory, componentVars, ban
<1>3. job[t] # None /\ job[t] \in Jobs /\ JobOK(job[t]) /\ job[t].piece = 0 /\ JobsOK
  BY <1>1, FetchType DEF TypeInv, At, JobOK
<1>4. ASSUME NEW where \in {"write", "rename"}, Goes(t, where), busy' = busy
      PROVE  \E j \in Jobs : /\ Moves(t, j) /\ j.at = where /\ j.step = job[t].step
                             /\ j.piece = job[t].piece
  BY <1>3, <1>4, GoesMoves DEF Stages
<1>5. ASSUME Got(t, "whole")
      PROVE  \E j \in Jobs \union {None} :
                /\ Moves(t, j) /\ strays' = strays \ {t}
                /\ j # None => /\ j.at \in {"look", "install"} /\ j.piece = 0
                               /\ j.step = job[t].step \/ (Ns(t) = "models" /\ j.step = "whole")
  BY <1>3, <1>5, AnswerMoves DEF Contents
<1>6. CASE PutOpens(t)
  <2>1. Goes(t, "write") /\ busy' = busy /\ strays' = strays
    BY <1>6 DEF PutOpens, ban, componentVars
  <2> QED BY <1>1, <1>2, <1>3, <1>4, <2>1
<1>7. CASE PutWrites(t)
  <2>1. Goes(t, "rename") /\ busy' = busy /\ strays' = strays
    BY <1>7 DEF PutWrites, ban, componentVars
  <2> QED BY <1>1, <1>2, <1>3, <1>4, <2>1
<1>8. CASE PutRenames(t) \/ PutFails(t)
  <2>1. Got(t, "whole")
    BY <1>8 DEF PutRenames, PutFails
  <2> QED BY <1>1, <1>2, <1>3, <1>5, <2>1
<1> QED BY <1>6, <1>7, <1>8 DEF PutStep

(* An install begins, writes one piece, or leaves the task *)
LEMMA InstallMoves ==
    ASSUME TypeInv, NEW t \in Tasks, InstallStep(t)
    PROVE  /\ At(t, {"install", "sheet"})
           /\ UNCHANGED <<puts, calls, breaker, banned>> /\ strays' \in {strays, strays \ {t}}
           /\ \E j \in Jobs \union {None} :
                /\ Moves(t, j)
                /\ j # None =>
                      /\ j.at \in {"install", "sheet"} /\ j.step = job[t].step
                      /\ BeginInstall(t) => j.at = "install" /\ j.piece = 1
                      /\ InstallWrites(t) =>
                            \/ job[t].piece = 6 /\ j.at = "sheet"
                            \/ job[t].piece # 6 /\ j.at = "install" /\ j.piece = job[t].piece + 1
<1>1. At(t, {"install", "sheet"})
  BY DEF InstallStep, BeginInstall, InstallWrites, InstallFails, Datasheet, Installing, At
<1>2. UNCHANGED <<puts, calls, breaker, banned>>
  BY DEF InstallStep, BeginInstall, InstallWrites, InstallFails, Datasheet, ban
<1>3. job[t] # None /\ job[t] \in Jobs /\ JobOK(job[t]) /\ JobsOK
  BY <1>1, FetchType DEF TypeInv, At
<1> DEFINE Aims(j) ==
      /\ Moves(t, j)
      /\ j # None =>
            /\ j.at \in {"install", "sheet"} /\ j.step = job[t].step
            /\ BeginInstall(t) => j.at = "install" /\ j.piece = 1
            /\ InstallWrites(t) =>
                  \/ job[t].piece = 6 /\ j.at = "sheet"
                  \/ job[t].piece # 6 /\ j.at = "install" /\ j.piece = job[t].piece + 1
<1> SUFFICES strays' \in {strays, strays \ {t}} /\ \E j \in Jobs \union {None} : Aims(j)
  BY <1>1, <1>2
<1>4. ASSUME Return(t) PROVE strays' \in {strays, strays \ {t}} /\ \E j \in Jobs \union {None} : Aims(j)
  <2>1. Moves(t, None) /\ strays' = strays \ {t}
    BY <1>4 DEF Return, Ends, Moves
  <2>2. Aims(None)
    BY <2>1
  <2> QED BY <2>1, <2>2
<1>5. ASSUME BeginInstall(t), ~Return(t)
      PROVE  strays' = strays /\ \E j \in Jobs \union {None} : Aims(j)
  <2> DEFINE j == [job[t] EXCEPT !.piece = 1]
  <2>1. job' = [job EXCEPT ![t] = j] /\ busy' = busy /\ strays' = strays
    BY <1>3, <1>5 DEF BeginInstall, JobsOK
  <2>2. job[t].at = "install" /\ job[t].piece = 0
    BY <1>5 DEF BeginInstall, At
  <2>3. /\ j \in Jobs /\ j.at = job[t].at /\ j.step = job[t].step /\ j.piece = 1
        /\ j.fetch = job[t].fetch /\ j.kind = job[t].kind /\ j.part = job[t].part
        /\ j.name = job[t].name /\ j.over = job[t].over
    BY <1>3, OrderShape DEF Jobs
  <2> HIDE DEF j
  <2>4. Moves(t, j)
    BY <1>3, <2>1, <2>2, <2>3 DEF Moves, SameCall, JobOK
  <2>5. ~InstallWrites(t)
    BY <2>2 DEF InstallWrites, Installing
  <2>6. Aims(j)
    BY <2>2, <2>3, <2>4, <2>5
  <2> QED BY <2>1, <2>3, <2>6
<1>6. ASSUME InstallWrites(t)
      PROVE  strays' = strays /\ \E j \in Jobs \union {None} : Aims(j)
  <2>1. job[t].at = "install" /\ job[t].piece # 0 /\ job[t].piece \in 0..6
    BY <1>3, <1>6, OrderShape DEF InstallWrites, Installing, At, Jobs
  <2>2. ~BeginInstall(t)
    BY <2>1 DEF BeginInstall
  <2>3. strays' = strays /\ busy' = busy
    BY <1>6 DEF InstallWrites, ban
  <2>4. CASE job[t].piece = 6
    <3> DEFINE j == [job[t] EXCEPT !.at = "sheet"]
    <3>1. job' = [job EXCEPT ![t] = j]
      BY <1>3, <1>6, <2>4, OrderShape DEF InstallWrites, JobsOK
    <3>2. /\ j \in Jobs /\ j.at = "sheet" /\ j.step = job[t].step
          /\ j.fetch = job[t].fetch /\ j.kind = job[t].kind /\ j.part = job[t].part
          /\ j.name = job[t].name /\ j.over = job[t].over
      BY <1>3 DEF Jobs, Stages
    <3> HIDE DEF j
    <3>3. Moves(t, j)
      BY <1>3, <2>3, <3>1, <3>2 DEF Moves, SameCall, JobOK
    <3>4. Aims(j)
      BY <2>2, <2>4, <3>2, <3>3
    <3> QED BY <2>3, <3>2, <3>4
  <2>5. CASE job[t].piece # 6
    <3> DEFINE j == [job[t] EXCEPT !.piece = job[t].piece + 1]
    <3>1. job' = [job EXCEPT ![t] = j]
      BY <1>3, <1>6, <2>5, OrderShape DEF InstallWrites, JobsOK
    <3>2. job[t].piece + 1 \in 0..6
      BY <2>1, <2>5
    <3>3. /\ j \in Jobs /\ j.at = "install" /\ j.step = job[t].step /\ j.piece = job[t].piece + 1
          /\ j.fetch = job[t].fetch /\ j.kind = job[t].kind /\ j.part = job[t].part
          /\ j.name = job[t].name /\ j.over = job[t].over
      BY <1>3, <2>1, <3>2, OrderShape DEF Jobs
    <3> HIDE DEF j
    <3>4. Moves(t, j)
      BY <1>3, <2>3, <3>1, <3>3 DEF Moves, SameCall, JobOK
    <3>5. Aims(j)
      BY <2>2, <2>5, <3>3, <3>4
    <3> QED BY <2>3, <3>3, <3>5
  <2> QED BY <2>4, <2>5
<1> HIDE DEF Aims
<1>7. CASE InstallFails(t) \/ Datasheet(t)
  BY <1>4, <1>7 DEF InstallFails, Datasheet
<1> QED BY <1>4, <1>5, <1>6, <1>7 DEF InstallStep

--------------------------------------------------------------------------------
(* Types *)

LEMMA MovesType ==
    ASSUME TypeInv, NEW t \in Tasks, job[t] # None, NEW j \in Jobs \union {None}, Moves(t, j),
           UNCHANGED <<pre, calls>>
    PROVE  JobsOK' /\ BusyOK'
<1>1. job' \in [Tasks -> Jobs \union {None}] /\ job'[t] = j /\ \A u \in Tasks \ {t} : job'[u] = job[u]
  BY DEF TypeInv, JobsOK, Moves
<1>2. j # None => j \in Jobs /\ JobOK(j)
  BY DEF Moves, SameCall
<1>3. \A b : JobOK(b)' = JobOK(b)
  BY DEF JobOK
<1>4. JobsOK'
  BY <1>1, <1>2, <1>3 DEF TypeInv, JobsOK
<1>5. pre[t] = None /\ Evaluating' = Evaluating /\ t \notin Evaluating
  BY DEF TypeInv, BusyOK, Evaluating
<1>6. busy' = {u \in Tasks : job'[u] # None} \union Evaluating'
  <2>1. CASE j = None
    <3>1. busy' = busy \ {t}
      BY <2>1, NoJobAssumption DEF Moves, SameCall
    <3> QED BY <1>1, <1>5, <2>1, <3>1 DEF TypeInv, BusyOK
  <2>2. CASE j # None
    <3>1. busy' = busy
      BY <2>2 DEF Moves
    <3> QED BY <1>1, <1>5, <2>2, <3>1 DEF TypeInv, BusyOK
  <2> QED BY <2>1, <2>2
<1> QED BY <1>1, <1>4, <1>5, <1>6 DEF TypeInv, BusyOK

LEMMA PutType ==
    ASSUME TypeInv, NEW t \in Tasks, PutStep(t)
    PROVE  CacheOK'
<1> DEFINE e == Entry(t)
<1>1. e \in Entries /\ CacheOK
  BY PutMoves, FetchType DEF TypeInv, At
<1>2. cache[e] \in [content : Contents \union {None}, fresh : BOOLEAN] /\ tmp[e] \in Contents \union {None}
  BY <1>1 DEF CacheOK
<1> HIDE DEF e
<1> USE DEF CacheOK, Contents
<1>3. CASE PutOpens(t)
  <2>1. /\ handle' = [handle EXCEPT ![t] = "tmp"] /\ tmp' = [tmp EXCEPT ![e] = "part"]
        /\ cache' = [cache EXCEPT ![e].content = @]
        /\ crossed' = crossed \union {x \in {e} : Putting(e) # {}}
    BY <1>3 DEF PutOpens, PutName, e
  <2>2. cache' = cache
    BY <1>1, <1>2, <2>1
  <2> QED BY <1>1, <2>1, <2>2
<1>4. CASE PutWrites(t)
  <2>1. PICK c \in Contents :
          /\ tmp' = [tmp EXCEPT ![e] = IF handle[t] = "tmp" THEN c ELSE @]
          /\ cache' = [cache EXCEPT ![e].content = IF handle[t] = "entry" THEN c ELSE @]
    BY <1>4 DEF PutWrites, e
  <2>2. handle' = handle /\ crossed' = crossed
    BY <1>4 DEF PutWrites
  <2> QED BY <1>1, <1>2, <2>1, <2>2
<1>5. CASE PutRenames(t)
  <2>1. /\ cache' = [cache EXCEPT ![e] = IF tmp[e] # None THEN [content |-> tmp[e], fresh |-> TRUE] ELSE @]
        /\ tmp' = [tmp EXCEPT ![e] = None] /\ crossed' = crossed
    BY <1>5 DEF PutRenames, e
  <2>2. handle' \in [Tasks -> {"none", "tmp", "entry"}]
    BY <1>1, <1>5 DEF PutRenames
  <2> QED BY <1>1, <1>2, <2>1, <2>2
<1>6. CASE PutFails(t)
  <2>1. /\ handle' = [handle EXCEPT ![t] = "none"]
        /\ tmp' = [tmp EXCEPT ![e] = IF Putting(e) \ {t} = {} THEN None ELSE @]
        /\ UNCHANGED <<cache, crossed>>
    BY <1>6 DEF PutFails, e
  <2> QED BY <1>1, <1>2, <2>1
<1> QED BY <1>3, <1>4, <1>5, <1>6 DEF PutStep

LEMMA InstallType ==
    ASSUME TypeInv, NEW t \in Tasks, InstallStep(t)
    PROVE  DirectoryOK'
<1>1. job[t] # None /\ job[t] \in Jobs
  BY InstallMoves, FetchType DEF TypeInv, At
<1>2. job[t].name \in CompNames /\ job[t].part \in Parts /\ job[t].piece \in 0..6
  BY <1>1, OrderShape DEF Jobs
<1>3. CASE BeginInstall(t)
  BY <1>2, <1>3 DEF BeginInstall, TypeInv, DirectoryOK
<1>4. CASE InstallWrites(t)
  <2> DEFINE x == WriteOrder[job[t].piece]
  <2>1. x \in Pieces /\ UNCHANGED <<sheets, torn>>
    BY <1>2, <1>4, OrderShape DEF InstallWrites, Installing
  <2>2. UNCHANGED <<files, stamp>> \/ WritePiece(job[t].name, x, job[t].part)
    BY <1>4 DEF InstallWrites
  <2> HIDE DEF x
  <2>3. CASE WritePiece(job[t].name, x, job[t].part)
    <3>1. files' = [files EXCEPT ![job[t].name][x] = job[t].part]
          /\ stamp' \in {stamp, [stamp EXCEPT ![job[t].name] = @ + 1]}
      BY <2>3 DEF WritePiece
    <3>2. files' \in [CompNames -> [Pieces -> Parts \union {None}]]
      BY <1>2, <2>1, <3>1 DEF TypeInv, DirectoryOK
    <3>3. stamp' \in [CompNames -> Nat]
      BY <1>2, <3>1 DEF TypeInv, DirectoryOK
    <3> QED BY <2>1, <3>2, <3>3 DEF TypeInv, DirectoryOK
  <2> QED BY <2>1, <2>2, <2>3 DEF TypeInv, DirectoryOK
<1>5. CASE InstallFails(t)
  BY <1>5 DEF InstallFails, directory, TypeInv, DirectoryOK
<1>6. CASE Datasheet(t)
  <2>1. /\ sheets' \in {sheets, [sheets EXCEPT ![job[t].name] = IF @ = None THEN job[t].part ELSE @]}
        /\ UNCHANGED <<files, stamp, torn>>
    BY <1>6 DEF Datasheet
  <2> QED BY <1>2, <2>1 DEF TypeInv, DirectoryOK
<1> QED BY <1>3, <1>4, <1>5, <1>6 DEF InstallStep

(* A call starts in a task that has none, at the look-up of its first fetch *)
LEMMA StartMoves ==
    ASSUME TypeInv, NEW t \in Tasks, StartCall(t)
    PROVE  /\ job[t] = None /\ pre[t] = None /\ UNCHANGED <<ban, puts, directory>>
           /\ busy' = busy \union {t} /\ calls' \in 0..MaxCalls
           /\ \E j \in Jobs : /\ job' = [job EXCEPT ![t] = j] /\ JobOK(j)
                              /\ j.at = "look" /\ j.piece = 0 /\ j.step = None
<1>1. t \notin busy /\ calls < MaxCalls /\ calls' = calls + 1 /\ busy' = busy \union {t}
      /\ UNCHANGED <<ban, puts, directory>>
  BY DEF StartCall, Starts
<1>2. job[t] = None /\ pre[t] = None /\ calls' \in 0..MaxCalls
  BY <1>1, CallsAssumption DEF TypeInv, BusyOK, Evaluating
<1>3. PICK k \in Kinds, p \in Parts, n \in CompNames, over \in BOOLEAN :
        job' = [job EXCEPT ![t] =
                  [kind |-> k, part |-> p, name |-> n, over |-> over, at |-> "look", piece |-> 0,
                   fetch |-> 1, retried |-> FALSE, mirror |-> FALSE, step |-> None]]
  BY DEF StartCall
<1> DEFINE j == [kind |-> k, part |-> p, name |-> n, over |-> over, at |-> "look", piece |-> 0,
                 fetch |-> 1, retried |-> FALSE, mirror |-> FALSE, step |-> None]
<1>4. j \in Jobs
  BY OrderShape DEF Jobs, Stages
<1>5. JobOK(j)
  <2>2. j.kind = k /\ j.fetch = 1 /\ j.piece = 0
    OBVIOUS
  <2> HIDE DEF j
  <2> DEFINE len == Len(Plan[k])
  <2>0. len \in 1..4
    BY PlanShape
  <2> HIDE DEF len
  <2>1. 1 <= len
    BY <2>0
  <2>3. j.fetch <= Len(Plan[j.kind])
    BY <2>1, <2>2 DEF len
  <2> QED BY <2>2, <2>3 DEF JobOK
<1> QED BY <1>1, <1>2, <1>3, <1>4, <1>5

LEMMA StartType ==
    ASSUME TypeInv, NEW t \in Tasks, StartCall(t), UNCHANGED placementVars
    PROVE  TypeInv'
<1>1. PICK j \in Jobs : job' = [job EXCEPT ![t] = j] /\ JobOK(j)
  BY StartMoves
<1>2. job' \in [Tasks -> Jobs \union {None}] /\ job'[t] = j /\ \A u \in Tasks \ {t} : job'[u] = job[u]
  BY <1>1 DEF TypeInv, JobsOK
<1>3. \A b : JobOK(b)' = JobOK(b)
  BY DEF JobOK
<1>4. JobsOK'
  BY <1>1, <1>2, <1>3 DEF TypeInv, JobsOK
<1>5. j # None /\ pre' = pre /\ Evaluating' = Evaluating
  BY NoJobAssumption DEF placementVars, Evaluating
<1>6. busy' = {u \in Tasks : job'[u] # None} \union Evaluating'
  BY <1>2, <1>5, StartMoves DEF TypeInv, BusyOK
<1>7. BusyOK'
  BY <1>2, <1>5, <1>6, StartMoves DEF TypeInv, BusyOK
<1>8. CacheOK' /\ BreakerOK' /\ DirectoryOK' /\ PlacementTypeOK'
  BY StartMoves DEF TypeInv, CacheOK, BreakerOK, DirectoryOK, PlacementTypeOK, ban, puts, directory,
                    placementVars
<1> QED BY <1>4, <1>7, <1>8 DEF TypeInv

LEMMA CallType ==
    ASSUME TypeInv, NEW t \in Tasks, Calls(t), UNCHANGED placementVars
    PROVE  TypeInv'
<1>1. PlacementTypeOK' /\ pre' = pre
  BY DEF TypeInv, PlacementTypeOK, placementVars
<1>2. CASE FetchStep(t)
  <2>1. PICK j \in Jobs \union {None} : Moves(t, j)
    BY <1>2, FetchMoves DEF Fetched
  <2>2. job[t] # None /\ UNCHANGED <<puts, directory, calls>>
    BY <1>2, FetchMoves DEF At
  <2>3. JobsOK' /\ BusyOK'
    BY <1>1, <2>1, <2>2, MovesType
  <2>4. BreakerOK'
    BY <1>2, FetchBreaker
  <2>5. CacheOK' /\ DirectoryOK'
    BY <2>2 DEF TypeInv, CacheOK, DirectoryOK, puts, directory
  <2> QED BY <1>1, <2>3, <2>4, <2>5 DEF TypeInv
<1>3. CASE PutStep(t)
  <2>1. PICK j \in Jobs \union {None} : Moves(t, j)
    BY <1>3, PutMoves
  <2>2. job[t] # None /\ UNCHANGED <<directory, calls, breaker, banned>> /\ strays' \in {strays, strays \ {t}}
    BY <1>3, PutMoves DEF At
  <2>3. JobsOK' /\ BusyOK'
    BY <1>1, <2>1, <2>2, MovesType
  <2>4. BreakerOK' /\ DirectoryOK'
    BY <2>2 DEF TypeInv, BreakerOK, DirectoryOK, directory
  <2> QED BY <1>1, <1>3, <2>3, <2>4, PutType DEF TypeInv
<1>4. CASE InstallStep(t)
  <2>1. PICK j \in Jobs \union {None} : Moves(t, j)
    BY <1>4, InstallMoves
  <2>2. job[t] # None /\ UNCHANGED <<puts, calls, breaker, banned>> /\ strays' \in {strays, strays \ {t}}
    BY <1>4, InstallMoves DEF At
  <2>3. JobsOK' /\ BusyOK'
    BY <1>1, <2>1, <2>2, MovesType
  <2>4. BreakerOK' /\ CacheOK'
    BY <2>2 DEF TypeInv, BreakerOK, CacheOK, puts
  <2> QED BY <1>1, <1>4, <2>3, <2>4, InstallType DEF TypeInv
<1> QED BY <1>2, <1>3, <1>4, StartType, CallSteps

(* What the evaluator answers with are inputs of the right kind *)
LEMMA DemandsType ==
    ASSUME NEW m \in Parts \union Generics
    PROVE  Demands[m] \in Pins /\ DOMAIN Demands[m] \subseteq Inputs
           /\ \A i \in DOMAIN Demands[m] : Demands[m][i] \in Types
<1>1. m \in DOMAIN Demands /\ Demands[m] \in [DOMAIN Demands[m] -> Types]
  BY DemandsAssumption
<1>2. DOMAIN Demands[m] \in SUBSET Inputs
  BY <1>1 DEF Inputs
<1> QED BY <1>1, <1>2 DEF Pins

LEMMA PinsShape ==
    /\ NoPins \in Pins /\ "Net" \in Types
    /\ \A I \in SUBSET Inputs : \A f \in [I -> Types] : f \in Pins
    /\ \A f \in Pins : f \in [DOMAIN f -> Types] /\ DOMAIN f \in SUBSET Inputs
<1>1. "Net" \in Types
  BY DEF Types
<1>2. \A I \in SUBSET Inputs : \A f \in [I -> Types] : f \in Pins
  BY DEF Pins
<1>3. \A f \in Pins : f \in [DOMAIN f -> Types] /\ DOMAIN f \in SUBSET Inputs
  BY DEF Pins
<1>4. NoPins \in Pins
  <2>1. NoPins \in [{} -> Types]
    BY DEF NoPins
  <2> QED BY <1>2, <2>1
<1> QED BY <1>1, <1>2, <1>3, <1>4

LEMMA ModuleType ==
    ASSUME DirectoryOK, NEW s \in Specs, Evaluates(s)
    PROVE  Module(s) \in Parts \union Generics
<1>1. CASE s \in Generics
  BY <1>1 DEF Module
<1>2. CASE s \notin Generics
  <2>1. s \in CompNames /\ files[s].zen # None
    BY <1>2 DEF Specs, Evaluates, Sound
  <2>2. files[s].zen \in Parts \union {None}
    BY <2>1 DEF DirectoryOK, Pieces
  <2> QED BY <1>2, <2>1, <2>2 DEF Module
<1> QED BY <1>1, <1>2

LEMMA ProbedType == ASSUME DirectoryOK, NEW s \in Specs PROVE Probed(s) \in Pins
  BY ModuleType, DemandsType, PinsShape DEF Probed

LEMMA SolvedType ==
    ASSUME DirectoryOK, PlacementTypeOK, NEW t \in Tasks, pre[t] # None, scratch # None,
           Evaluates(scratch.spec)
    PROVE  Solved(t) \in Pins
<1> DEFINE m == Module(scratch.spec)
           new == Missing(scratch) \ DOMAIN pre[t].pins
           fix == Mistyped(scratch) \intersect DOMAIN pre[t].pins
<1>1. scratch.spec \in Specs /\ m \in Parts \union Generics
  BY ModuleType DEF PlacementTypeOK
<1>2. pre[t] \in Evaluations /\ pre[t].pins \in Pins /\ pre[t].hints \in Pins
  BY DEF PlacementTypeOK, Evaluations
<1>3. new \in SUBSET DOMAIN Demands[m] /\ fix \in SUBSET DOMAIN Demands[m]
  BY DEF Missing, Mistyped
<1>4. DOMAIN pre[t].pins \union new \in SUBSET Inputs
  BY <1>1, <1>2, <1>3, DemandsType, PinsShape
<1>5. ASSUME NEW i PROVE Guess(t, i) \in Types
  <2>1. CASE i \in DOMAIN pre[t].hints
    BY <1>2, <2>1, PinsShape DEF Guess
  <2> QED BY <2>1, PinsShape DEF Guess
<1>6. ASSUME NEW i \in DOMAIN pre[t].pins \union new
      PROVE  (IF i \in new THEN Guess(t, i) ELSE IF i \in fix THEN Demands[m][i] ELSE pre[t].pins[i])
                \in Types
  <2>1. CASE i \in new
    BY <1>5, <2>1
  <2>2. CASE i \notin new /\ i \in fix
    <3>1. i \in DOMAIN Demands[m]
      BY <1>3, <2>2
    <3> QED BY <1>1, <2>2, <3>1, DemandsType
  <2>3. CASE i \notin new /\ i \notin fix
    <3>1. pre[t].pins \in [DOMAIN pre[t].pins -> Types] /\ i \in DOMAIN pre[t].pins
      BY <1>2, <1>6, <2>3, PinsShape
    <3> QED BY <2>3, <3>1
  <2> QED BY <2>1, <2>2, <2>3
<1>7. Solved(t) = [i \in DOMAIN pre[t].pins \union new |->
                     IF i \in new THEN Guess(t, i)
                     ELSE IF i \in fix THEN Demands[m][i] ELSE pre[t].pins[i]]
  BY Zenon DEF Solved
<1> HIDE DEF m, new, fix
<1>8. Solved(t) \in [DOMAIN pre[t].pins \union new -> Types]
  BY <1>6, <1>7
<1> QED BY <1>4, <1>8, PinsShape

(* What an evaluation is after a step of its own *)
LEMMA EvaluationShape ==
    ASSUME NEW a \in Evaluations
    PROVE  /\ [a EXCEPT !.alone = FALSE] \in Evaluations
           /\ [a EXCEPT !.alone = FALSE].key = a.key
           /\ [a EXCEPT !.alone = FALSE].alone = FALSE
           /\ [a EXCEPT !.written = TRUE] \in Evaluations
           /\ [a EXCEPT !.written = TRUE].key = a.key
           /\ [a EXCEPT !.written = TRUE].pins = a.pins
           /\ [a EXCEPT !.written = TRUE].alone = a.alone
           /\ \A p \in Pins : a.round < Rounds =>
                 LET b == [a EXCEPT !.pins = p, !.round = a.round + 1, !.written = FALSE]
                 IN  b \in Evaluations /\ b.key = a.key /\ b.alone = a.alone /\ b.written = FALSE
<1>1. ASSUME NEW p \in Pins, a.round < Rounds
      PROVE  LET b == [a EXCEPT !.pins = p, !.round = a.round + 1, !.written = FALSE]
             IN  b \in Evaluations /\ b.key = a.key /\ b.alone = a.alone /\ b.written = FALSE
  <2>1. a.round + 1 \in 1..Rounds
    BY <1>1 DEF Evaluations, Rounds
  <2> QED BY <2>1 DEF Evaluations
<1>2. /\ [a EXCEPT !.alone = FALSE] \in Evaluations
      /\ [a EXCEPT !.alone = FALSE].key = a.key
      /\ [a EXCEPT !.alone = FALSE].alone = FALSE
  BY DEF Evaluations
<1>3. /\ [a EXCEPT !.written = TRUE] \in Evaluations
      /\ [a EXCEPT !.written = TRUE].key = a.key
      /\ [a EXCEPT !.written = TRUE].pins = a.pins
      /\ [a EXCEPT !.written = TRUE].alone = a.alone
  BY DEF Evaluations
<1> QED BY <1>1, <1>2, <1>3

LEMMA BeginPlacementShape ==
    ASSUME TypeInv, NEW t \in Tasks, BeginPlacement(t)
    PROVE  /\ t \notin busy /\ job[t] = None /\ pre[t] = None
           /\ busy' = busy \union {t} /\ calls' \in 0..MaxCalls
           /\ UNCHANGED <<scratch, preflights, unproven, files, stamp, sheets, torn>>
           /\ pre' \in [Tasks -> Evaluations \union {None}]
           /\ \E s \in Specs : pre'[t] # None /\ pre'[t].key = Key(s) /\ pre'[t].written = FALSE
           /\ pre'[t].alone <=> Evaluating = {}
           /\ \A u \in Tasks \ {t} :
                 IF pre[u] = None THEN pre'[u] = None
                 ELSE pre'[u] # None /\ pre'[u].alone = FALSE /\ pre'[u].key = pre[u].key
<1>1. /\ t \notin busy /\ calls < MaxCalls /\ calls' = calls + 1 /\ busy' = busy \union {t}
      /\ UNCHANGED <<scratch, preflights, unproven, files, stamp, sheets, torn>>
  BY DEF BeginPlacement, Starts
<1>2. job[t] = None /\ pre[t] = None /\ calls' \in 0..MaxCalls
  BY <1>1, CallsAssumption DEF TypeInv, BusyOK, Evaluating
<1>3. PICK s \in Specs, drop \in BOOLEAN :
        pre' = [u \in Tasks |->
                  IF u = t
                  THEN [drop |-> drop, key |-> Key(s), hints |-> Probed(s), pins |-> NoPins,
                        round |-> 1, written |-> FALSE, alone |-> Evaluating = {}]
                  ELSE IF u \in Evaluating THEN [pre[u] EXCEPT !.alone = FALSE] ELSE pre[u]]
  BY DEF BeginPlacement
<1> DEFINE own == [drop |-> drop, key |-> Key(s), hints |-> Probed(s), pins |-> NoPins,
                   round |-> 1, written |-> FALSE, alone |-> Evaluating = {}]
<1>4. Key(s) \in Specs \X Nat
  BY DEF Key, Specs, TypeInv, DirectoryOK
<1>5. Probed(s) \in Pins /\ NoPins \in Pins /\ 1 \in 1..Rounds
  BY ProbedType, PinsShape DEF TypeInv, Rounds
<1>6. own \in Evaluations /\ own.key = Key(s) /\ own.written = FALSE /\ (own.alone <=> Evaluating = {})
  <2> DEFINE alone == Evaluating = {}
  <2>1. alone \in BOOLEAN
    OBVIOUS
  <2> HIDE DEF alone
  <2>2. [drop |-> drop, key |-> Key(s), hints |-> Probed(s), pins |-> NoPins,
         round |-> 1, written |-> FALSE, alone |-> alone] \in Evaluations
    BY <1>4, <1>5, <2>1 DEF Evaluations
  <2> USE DEF alone
  <2> QED BY <2>2
<1>7. pre'[t] = own
  BY <1>3
<1>8. ASSUME NEW u \in Tasks \ {t}
      PROVE  /\ pre'[u] \in Evaluations \union {None}
             /\ IF pre[u] = None THEN pre'[u] = None
                ELSE pre'[u] # None /\ pre'[u].alone = FALSE /\ pre'[u].key = pre[u].key
  <2>1. CASE pre[u] = None
    <3>1. pre'[u] = pre[u]
      BY <1>3, <2>1 DEF Evaluating
    <3> QED BY <2>1, <3>1
  <2>2. CASE pre[u] # None
    <3>1. pre'[u] = [pre[u] EXCEPT !.alone = FALSE] /\ pre[u] \in Evaluations
      BY <1>3, <2>2 DEF Evaluating, TypeInv, BusyOK
    <3> QED BY <2>2, <3>1, EvaluationShape, NoEvaluationAssumption
  <2> QED BY <2>1, <2>2
<1> HIDE DEF own
<1>9. pre' \in [Tasks -> Evaluations \union {None}]
  <2>1. \A u \in Tasks : pre'[u] \in Evaluations \union {None}
    BY <1>6, <1>7, <1>8
  <2> QED BY <1>3, <2>1
<1>10. pre'[t] # None
  BY <1>6, <1>7, NoEvaluationAssumption
<1> QED BY <1>1, <1>2, <1>6, <1>7, <1>8, <1>9, <1>10

LEMMA FinishesShape ==
    ASSUME TypeInv, NEW t \in Tasks, pre[t] # None, Finishes(t), UNCHANGED clientVars
    PROVE  JobsOK' /\ CacheOK' /\ BreakerOK' /\ DirectoryOK' /\ BusyOK'
<1>1. /\ job' = job /\ busy' = busy \ {t} /\ pre' = [pre EXCEPT ![t] = None]
      /\ UNCHANGED <<files, stamp, sheets, calls, torn, ban, puts>>
  BY DEF Finishes, Ends, clientVars
<1>2. JobsOK' /\ CacheOK' /\ BreakerOK' /\ DirectoryOK'
  BY <1>1 DEF TypeInv, JobsOK, JobOK, CacheOK, BreakerOK, DirectoryOK, ban, puts
<1>3. job[t] = None /\ pre' \in [Tasks -> Evaluations \union {None}]
  BY <1>1 DEF TypeInv, BusyOK
<1>4. Evaluating' = Evaluating \ {t}
  BY <1>1 DEF Evaluating, TypeInv, BusyOK
<1> QED BY <1>1, <1>2, <1>3, <1>4 DEF TypeInv, BusyOK

LEMMA PlacementType ==
    ASSUME TypeInv, NEW t \in Tasks, Placements(t), UNCHANGED clientVars
    PROVE  TypeInv'
<1>1. job' = job /\ UNCHANGED <<ban, puts>>
  BY DEF clientVars
<1>2. JobsOK' /\ CacheOK' /\ BreakerOK'
  BY <1>1 DEF TypeInv, JobsOK, JobOK, CacheOK, BreakerOK, ban, puts
<1>3. CASE BeginPlacement(t)
  <2>1. DirectoryOK'
    BY <1>3, BeginPlacementShape DEF TypeInv, DirectoryOK
  <2>2. Evaluating' = Evaluating \union {t}
    BY <1>3, BeginPlacementShape DEF Evaluating
  <2>3. BusyOK'
    BY <1>1, <1>3, <2>2, BeginPlacementShape DEF TypeInv, BusyOK
  <2>4. PlacementTypeOK'
    BY <1>3, BeginPlacementShape DEF TypeInv, PlacementTypeOK
  <2> QED BY <1>2, <2>1, <2>3, <2>4 DEF TypeInv
<1>4. CASE WriteScratch(t) \/ Retries(t)
  <2>1. pre[t] # None /\ pre[t] \in Evaluations /\ UNCHANGED <<preflights, unproven, componentVars>>
    BY <1>4 DEF WriteScratch, Retries, TypeInv, BusyOK
  <2>2. \E b \in Evaluations : pre' = [pre EXCEPT ![t] = b]
    <3>1. CASE WriteScratch(t)
      BY <2>1, <3>1, EvaluationShape DEF WriteScratch, TypeInv, BusyOK
    <3>2. CASE Retries(t)
      <4> DEFINE b == [pre[t] EXCEPT !.pins = Solved(t), !.round = pre[t].round + 1, !.written = FALSE]
      <4>1. Solved(t) \in Pins /\ pre[t].round < Rounds
        BY <3>2, SolvedType DEF Retries, TypeInv
      <4>2. b \in Evaluations
        BY <2>1, <4>1, EvaluationShape
      <4>3. pre' = [pre EXCEPT ![t] = b]
        BY <3>2 DEF Retries, TypeInv, BusyOK
      <4> QED BY <4>2, <4>3
    <3> QED BY <1>4, <3>1, <3>2
  <2>3. PICK b \in Evaluations : pre' = [pre EXCEPT ![t] = b]
    BY <2>2
  <2>4. pre' \in [Tasks -> Evaluations \union {None}] /\ Evaluating' = Evaluating /\ b # None
    BY <2>1, <2>3, NoEvaluationAssumption DEF TypeInv, BusyOK, Evaluating
  <2>5. scratch' = scratch \/ scratch' \in [spec : Specs, pins : Pins]
    <3>1. pre[t].key[1] \in Specs /\ pre[t].pins \in Pins
      BY <2>1 DEF Evaluations
    <3> QED BY <1>4, <3>1 DEF WriteScratch, Retries
  <2>6. PlacementTypeOK'
    BY <2>1, <2>4, <2>5 DEF TypeInv, PlacementTypeOK
  <2>7. DirectoryOK' /\ busy' = busy /\ calls' = calls
    BY <2>1 DEF TypeInv, DirectoryOK, componentVars
  <2>8. BusyOK'
    <3>1. job[t] = None
      BY <2>1 DEF TypeInv, BusyOK
    <3>2. \A u \in Tasks : job[u] = None \/ pre'[u] = None
      BY <2>3, <3>1 DEF TypeInv, BusyOK
    <3> QED BY <1>1, <2>4, <2>7, <3>2 DEF TypeInv, BusyOK
  <2> QED BY <1>2, <2>6, <2>7, <2>8 DEF TypeInv
<1>5. CASE Proves(t) \/ GivesUp(t)
  <2>1. pre[t] # None /\ Finishes(t) /\ pre[t] \in Evaluations
    BY <1>5 DEF Proves, GivesUp, TypeInv, BusyOK
  <2>2. scratch' = None /\ pre' \in [Tasks -> Evaluations \union {None}]
    BY <2>1, FinishesShape DEF Finishes, BusyOK
  <2>3. pre[t].key \in Specs \X Nat /\ pre[t].pins \in Pins
    BY <2>1 DEF Evaluations
  <2>4. CASE Proves(t)
    <3>1. /\ preflights' = [k \in DOMAIN preflights \union {pre[t].key} |->
                              IF k = pre[t].key THEN pre[t].pins ELSE preflights[k]]
          /\ unproven' = (unproven \ {pre[t].key}) \union {k \in {pre[t].key} : ~pre[t].alone}
      BY <2>4 DEF Proves
    <3>2. DOMAIN preflights' = DOMAIN preflights \union {pre[t].key}
      BY <3>1
    <3>3. \A k \in DOMAIN preflights' : k \in Specs \X Nat /\ preflights'[k] \in Pins
      BY <2>3, <3>1 DEF TypeInv, PlacementTypeOK
    <3>4. unproven' \subseteq DOMAIN preflights'
      BY <3>1, <3>2 DEF TypeInv, PlacementTypeOK
    <3> QED BY <1>2, <2>1, <2>2, <3>3, <3>4, FinishesShape DEF TypeInv, PlacementTypeOK
  <2>5. CASE GivesUp(t)
    <3>1. UNCHANGED <<preflights, unproven>>
      BY <2>5 DEF GivesUp
    <3> QED BY <1>2, <2>1, <2>2, <3>1, FinishesShape DEF TypeInv, PlacementTypeOK
  <2> QED BY <1>5, <2>4, <2>5
<1> QED BY <1>3, <1>4, <1>5 DEF Placements

LEMMA InitType == Init => TypeInv
<1> SUFFICES ASSUME Init PROVE TypeInv
  OBVIOUS
<1>1. PICK installed \in [CompNames -> Parts \union {None}] : ComponentsInit(installed)
  BY DEF Init
<1>2. PICK known \in SUBSET Parts : ClientInit(known)
  BY DEF Init
<1>3. JobsOK
  BY <1>2 DEF ClientInit, JobsOK
<1>4. CacheOK
  <2>1. [content |-> "whole", fresh |-> TRUE] \in [content : Contents \union {None}, fresh : BOOLEAN]
        /\ NoEntry \in [content : Contents \union {None}, fresh : BOOLEAN]
    BY DEF NoEntry, Contents
  <2> QED BY <1>2, <2>1 DEF ClientInit, CacheOK
<1>5. BreakerOK
  BY <1>2 DEF ClientInit, BreakerOK
<1>6. DirectoryOK
  BY <1>1 DEF ComponentsInit, DirectoryOK
<1>7. BusyOK
  BY <1>1, <1>2, CallsAssumption DEF Init, ComponentsInit, ClientInit, PlacementInit, BusyOK, Evaluating
<1>8. PlacementTypeOK
  BY DEF Init, PlacementInit, PlacementTypeOK
<1> QED BY <1>3, <1>4, <1>5, <1>6, <1>7, <1>8 DEF TypeInv

LEMMA CrashType == TypeInv /\ Crash => TypeInv'
<1> SUFFICES ASSUME TypeInv, Crash PROVE TypeInv'
  OBVIOUS
<1>1. JobsOK'
  BY DEF Crash, ClientCrash, JobsOK
<1>2. CacheOK'
  BY DEF Crash, ClientCrash, CacheOK, TypeInv
<1>3. BreakerOK' /\ DirectoryOK'
  BY DEF Crash, ClientCrash, BreakerAfterCrash, BreakerOK, DirectoryOK, TypeInv
<1>4. BusyOK'
  BY DEF Crash, ClientCrash, PlacementCrash, BusyOK, Evaluating, TypeInv
<1>5. PlacementTypeOK'
  BY DEF Crash, PlacementCrash, PlacementTypeOK, TypeInv
<1> QED BY <1>1, <1>2, <1>3, <1>4, <1>5 DEF TypeInv

LEMMA TimeType == TypeInv /\ Time /\ UNCHANGED placementVars => TypeInv'
<1> SUFFICES ASSUME TypeInv, Time, UNCHANGED placementVars PROVE TypeInv'
  OBVIOUS
<1>1. UNCHANGED <<job, placementVars, componentVars, handle, tmp, crossed>>
  BY DEF Time, Expires, BanEnds, puts
<1>2. JobsOK' /\ DirectoryOK' /\ BusyOK' /\ PlacementTypeOK'
  BY <1>1 DEF TypeInv, JobsOK, JobOK, DirectoryOK, BusyOK, Evaluating, PlacementTypeOK, componentVars,
              placementVars
<1>3. CacheOK' /\ BreakerOK'
  <2>1. CASE BanEnds
    BY <2>1 DEF BanEnds, TypeInv, CacheOK, BreakerOK, puts
  <2>2. ASSUME NEW e \in Entries, Expires(e) PROVE CacheOK' /\ BreakerOK'
    <3>1. cache' = [cache EXCEPT ![e].fresh = FALSE] /\ UNCHANGED ban
      BY <2>2 DEF Expires
    <3>2. cache' \in [Entries -> [content : Contents \union {None}, fresh : BOOLEAN]]
      BY <3>1 DEF TypeInv, CacheOK
    <3> QED BY <1>1, <3>1, <3>2 DEF TypeInv, CacheOK, BreakerOK, ban
  <2> QED BY <2>1, <2>2 DEF Time
<1> QED BY <1>2, <1>3 DEF TypeInv

LEMMA TypeStep == TypeInv /\ [Next]_vars => TypeInv'
<1> SUFFICES ASSUME TypeInv, [Next]_vars PROVE TypeInv'
  OBVIOUS
<1>1. CASE UNCHANGED vars
  BY <1>1 DEF vars, componentVars, clientVars, placementVars, ban, puts, TypeInv, JobsOK, JobOK, CacheOK,
              BreakerOK, DirectoryOK, BusyOK, Evaluating, PlacementTypeOK
<1> QED BY <1>1, CallType, TimeType, PlacementType, CrashType DEF Next

(* Every variable keeps its type, and a task is in one call at most.         *)
THEOREM TypeCorrect == Spec => []PaletteTypeOK
<1>1. Spec => []TypeInv
  BY InitType, TypeStep, PTL DEF Spec
<1> QED BY <1>1, TypeInvImplies, PTL

--------------------------------------------------------------------------------
(* The ban: while the service blocks us the breaker file is there, and what   *)
(* waits for its turn or is on its way had passed the check before            *)
BanKnown ==
    banned =>
        /\ breaker # "none"
        /\ \A t \in Tasks : At(t, {"queued", "sent"}) => t \in strays

LEMMA InitBan == Init => BanKnown
  BY DEF Init, ClientInit, BanKnown

(* A task that is not on its way afterwards need not be a stray *)
LEMMA OthersBan ==
    ASSUME TypeInv, BanKnown, NEW t \in Tasks, NEW j \in Jobs \union {None}, job' = [job EXCEPT ![t] = j],
           j # None => j.at \notin {"queued", "sent"},
           banned' => banned /\ breaker' # "none",
           strays \ {t} \subseteq strays'
    PROVE  BanKnown'
<1>1. job'[t] = j /\ \A u \in Tasks \ {t} : job'[u] = job[u]
  BY DEF TypeInv, JobsOK
<1>2. ASSUME NEW u \in Tasks, banned', At(u, {"queued", "sent"})' PROVE u \in strays'
  <2>1. u # t
    BY <1>1, <1>2 DEF At
  <2>2. At(u, {"queued", "sent"})
    BY <1>1, <1>2, <2>1 DEF At
  <2> QED BY <1>2, <2>1, <2>2 DEF BanKnown
<1> QED BY <1>2 DEF BanKnown

LEMMA FetchBan ==
    ASSUME TypeInv, BanKnown, NEW t \in Tasks, FetchStep(t)
    PROVE  BanKnown'
<1>1. /\ job[t] # None /\ job[t].piece = 0 /\ job[t] \in Jobs /\ Entry(t) \in Entries
      /\ job \in [Tasks -> Jobs \union {None}] /\ JobsOK
      /\ cache[Entry(t)].content \in Contents \union {None}
  BY FetchMoves, FetchType DEF TypeInv, At, JobsOK, CacheOK
<1>2. ASSUME NEW outcome, Got(t, cache[Entry(t)].content) \/ Lacks(t, outcome) \/ Failed(t, outcome),
             banned' => banned /\ breaker' # "none"
      PROVE  BanKnown'
  <2>1. PICK j \in Jobs \union {None} :
          Moves(t, j) /\ strays' = strays \ {t} /\ (j # None => j.at \in {"look", "install"})
    BY <1>1, <1>2, AnswerMoves
  <2> QED BY <1>2, <2>1, OthersBan DEF Moves
<1>3. ASSUME NEW where \in {"check", "tripping", "open"}, Goes(t, where), banned' => banned /\ breaker' # "none",
             strays \subseteq strays'
      PROVE  BanKnown'
  <2>1. [job[t] EXCEPT !.at = where] \in Jobs /\ [job[t] EXCEPT !.at = where].at = where
    BY <1>1 DEF Jobs, Stages
  <2> QED BY <1>3, <2>1, OthersBan DEF Goes
<1>4. UNCHANGED <<breaker, banned>> => (banned' => banned /\ breaker' # "none")
  BY DEF BanKnown
<1>5. CASE Look(t) \/ NoModel(t) \/ Misunderstood(t)
  BY <1>2, <1>3, <1>4, <1>5 DEF Look, NoModel, Misunderstood
<1>6. CASE Check(t)
  <2>1. CASE Failed(t, "blocked")
    BY <1>2, <1>4, <1>6, <2>1 DEF Check
  <2>2. ASSUME breaker # "until", Goes(t, "queued"),
               strays' = strays \union {u \in {t} : banned /\ breaker = "empty"}
        PROVE  BanKnown'
    <3>1. UNCHANGED <<breaker, banned>> /\ \A u \in Tasks \ {t} : job'[u] = job[u]
      BY <1>1, <1>6, <2>2 DEF Check, Goes
    <3>2. banned => breaker = "empty" /\ t \in strays'
      BY <2>2 DEF BanKnown, TypeInv, BreakerOK
    <3> QED BY <2>2, <3>1, <3>2 DEF BanKnown, At
  <2> QED BY <1>6, <2>1, <2>2 DEF Check
<1>7. CASE Send(t) \/ AskedToRetry(t)
  <2>1. At(t, {"queued", "sent"}) /\ UNCHANGED ban /\ \A u \in Tasks \ {t} : job'[u] = job[u]
    BY <1>1, <1>7 DEF Send, AskedToRetry, At, Goes
  <2> QED BY <2>1 DEF BanKnown, At, ban
<1>8. CASE Answered(t)
  <2>1. CASE Lacks(t, "other")
    BY <1>2, <1>4, <1>8, <2>1 DEF Answered
  <2>2. ASSUME job' = [job EXCEPT ![t].at = "open", ![t].retried = FALSE, ![t].mirror = FALSE],
               strays' = strays
        PROVE  BanKnown'
    <3> DEFINE j == [job[t] EXCEPT !.at = "open", !.retried = FALSE, !.mirror = FALSE]
    <3>1. job' = [job EXCEPT ![t] = j] /\ j \in Jobs /\ j.at = "open"
      BY <1>1, <2>2 DEF Jobs, Stages
    <3> HIDE DEF j
    <3> QED BY <1>4, <1>8, <2>2, <3>1, OthersBan DEF Answered
  <2> QED BY <1>8, <2>1, <2>2 DEF Answered
<1>9. CASE Refused(t)
  <2>1. CASE Failed(t, "other")
    BY <1>2, <1>4, <1>9, <2>1 DEF Refused
  <2>2. ASSUME job' = [job EXCEPT ![t].mirror = TRUE, ![t].retried = FALSE, ![t].at = "check"],
               strays' = strays \ {t}
        PROVE  BanKnown'
    <3> DEFINE j == [job[t] EXCEPT !.mirror = TRUE, !.retried = FALSE, !.at = "check"]
    <3>1. job' = [job EXCEPT ![t] = j] /\ j \in Jobs /\ j.at = "check"
      BY <1>1, <2>2 DEF Jobs, Stages
    <3> HIDE DEF j
    <3> QED BY <1>4, <1>9, <2>2, <3>1, OthersBan DEF Refused
  <2> QED BY <1>9, <2>1, <2>2 DEF Refused
<1>10. CASE Blocked(t)
  <2>1. /\ Goes(t, "tripping") /\ breaker' = "empty"
        /\ strays' = strays \union {u \in Tasks : At(u, {"queued", "sent"})}
    BY <1>10 DEF Blocked
  <2>2. ASSUME NEW u \in Tasks, At(u, {"queued", "sent"})' PROVE u \in strays'
    <3>1. u # t
      BY <1>1, <2>1, <2>2 DEF Goes, At, Jobs
    <3>2. At(u, {"queued", "sent"})
      BY <1>1, <2>1, <2>2, <3>1 DEF Goes, At
    <3> QED BY <2>1, <3>2
  <2> QED BY <2>1, <2>2 DEF BanKnown
<1>11. CASE Tripped(t)
  BY <1>2, <1>11 DEF Tripped
<1> QED BY <1>5, <1>6, <1>7, <1>8, <1>9, <1>10, <1>11 DEF FetchStep

LEMMA StepBan == TypeInv /\ BanKnown /\ [Next]_vars => BanKnown'
<1> SUFFICES ASSUME TypeInv, BanKnown, [Next]_vars PROVE BanKnown'
  OBVIOUS
<1>1. ASSUME UNCHANGED clientVars PROVE BanKnown'
  BY <1>1 DEF clientVars, ban, BanKnown, At
<1>2. ASSUME NEW t \in Tasks, StartCall(t) PROVE BanKnown'
  <2>1. PICK j \in Jobs : job' = [job EXCEPT ![t] = j] /\ j.at = "look"
    BY <1>2, StartMoves
  <2> QED BY <1>2, <2>1, StartMoves, OthersBan DEF ban, BanKnown
<1>3. ASSUME NEW t \in Tasks, PutStep(t) PROVE BanKnown'
  <2>1. PICK j \in Jobs \union {None} :
          Moves(t, j) /\ (j # None => j.at \in {"write", "rename", "look", "install"})
    BY <1>3, PutMoves
  <2> QED BY <1>3, <2>1, PutMoves, OthersBan DEF Moves, BanKnown
<1>4. ASSUME NEW t \in Tasks, InstallStep(t) PROVE BanKnown'
  <2>1. PICK j \in Jobs \union {None} : Moves(t, j) /\ (j # None => j.at \in {"install", "sheet"})
    BY <1>4, InstallMoves
  <2> QED BY <1>4, <2>1, InstallMoves, OthersBan DEF Moves, BanKnown
<1>5. CASE \E t \in Tasks : Calls(t)
  BY <1>2, <1>3, <1>4, <1>5, CallSteps, FetchBan
<1>6. CASE Time
  BY <1>6 DEF Time, Expires, BanEnds, BanKnown, At, ban
<1>7. CASE Crash
  BY <1>7 DEF Crash, ClientCrash, BreakerAfterCrash, BanKnown, At
<1> QED BY <1>1, <1>5, <1>6, <1>7 DEF Next, vars

(* From a 403 until the expiry no request goes out but those that were past  *)
(* the breaker's check, or looked while its file was being written.          *)
THEOREM BansAreKept == Spec => NoRequestInBan
<1>1. TypeInv /\ BanKnown /\ [Next]_vars
        => [\A t \in Tasks : Send(t) /\ banned => t \in strays]_clientVars
  BY DEF BanKnown, Send, At
<1>2. Spec => [](TypeInv /\ BanKnown)
  BY InitType, TypeStep, InitBan, StepBan, PTL DEF Spec
<1> QED BY <1>1, <1>2, PTL DEF Spec, NoRequestInBan

--------------------------------------------------------------------------------
(* The cache: who puts an entry that was never put twice at once has its      *)
(* temporary file open, is alone in it, and finds it whole when it renames it *)
Puts(t) == At(t, {"write", "rename"})

PutsOK ==
    \A t \in Tasks : Puts(t) /\ Entry(t) \notin crossed =>
        /\ handle[t] = "tmp"
        /\ Putting(Entry(t)) = {t}
        /\ job[t].at = "rename" => tmp[Entry(t)] # "part"

EntriesWhole == \A e \in Entries : cache[e].content = "part" => e \in crossed
ModelsWhole ==
    \A t \in Tasks : job[t] # None /\ job[t].step = "part" => <<"models", job[t].part>> \in crossed

CacheInv == PutsOK /\ EntriesWhole /\ ModelsWhole

LEMMA CacheParts == CacheIsWhole <=> EntriesWhole /\ ModelsWhole
  BY DEF CacheIsWhole, EntriesWhole, ModelsWhole

LEMMA PuttingShape == \A e : Putting(e) = {u \in Tasks : Puts(u) /\ Entry(u) = e}
  BY DEF Putting, Puts

LEMMA InitCache == Init => CacheInv
<1> SUFFICES ASSUME Init PROVE CacheInv
  OBVIOUS
<1>1. PICK known \in SUBSET Parts : ClientInit(known)
  BY DEF Init
<1>2. PutsOK /\ ModelsWhole
  BY <1>1 DEF ClientInit, PutsOK, Puts, At, ModelsWhole
<1>3. ASSUME NEW e \in Entries PROVE cache[e].content # "part"
  BY <1>1, NoJobAssumption DEF ClientInit, NoEntry, Contents
<1> QED BY <1>2, <1>3 DEF CacheInv, EntriesWhole

(* What a call keeps of a model is what was read of its entry *)
LEMMA ModelStep ==
    ASSUME TypeInv, EntriesWhole, ModelsWhole, NEW t \in Tasks, NEW j \in Jobs \union {None},
           job[t] # None, Moves(t, j), crossed \subseteq crossed',
           j # None => \/ j.step = job[t].step
                       \/ Ns(t) = "models" /\ j.step \in {"whole", cache[Entry(t)].content}
    PROVE  ModelsWhole'
<1>1. job'[t] = j /\ (\A u \in Tasks \ {t} : job'[u] = job[u]) /\ Entry(t) \in Entries
  BY FetchType DEF TypeInv, JobsOK, Moves
<1>2. ASSUME j # None, j.step = "part" PROVE <<"models", j.part>> \in crossed'
  <2>1. j.part = job[t].part
    BY <1>2 DEF Moves, SameCall
  <2>2. CASE j.step = job[t].step
    BY <1>2, <2>1, <2>2 DEF ModelsWhole
  <2>3. CASE Ns(t) = "models" /\ j.step = cache[Entry(t)].content
    <3>1. Entry(t) = <<"models", job[t].part>>
      BY <2>3 DEF Entry
    <3> QED BY <1>1, <1>2, <2>1, <2>3, <3>1 DEF EntriesWhole
  <2> QED BY <1>2, <2>2, <2>3
<1> QED BY <1>1, <1>2 DEF ModelsWhole

(* A step of a task that does not put, before or after *)
LEMMA OthersPut ==
    ASSUME TypeInv, PutsOK, NEW t \in Tasks, NEW j, job' = [job EXCEPT ![t] = j],
           ~Puts(t), j # None => j.at \notin {"write", "rename"}, UNCHANGED puts
    PROVE  PutsOK'
<1>1. job'[t] = j /\ \A u \in Tasks \ {t} : job'[u] = job[u]
  BY DEF TypeInv, JobsOK
<1>2. ~Puts(t)' /\ \A u \in Tasks \ {t} : (Puts(u)' <=> Puts(u)) /\ Entry(u)' = Entry(u)
  BY <1>1 DEF Puts, At, Entry, Ns
<1>3. \A e : Putting(e)' = Putting(e)
  BY <1>2 DEF Putting, Puts
<1>4. ASSUME NEW u \in Tasks, Puts(u)', Entry(u)' \notin crossed'
      PROVE  handle'[u] = "tmp" /\ Putting(Entry(u))' = {u}
             /\ (job'[u].at = "rename" => tmp'[Entry(u)'] # "part")
  <2>1. u # t /\ Puts(u) /\ Entry(u)' = Entry(u) /\ Entry(u) \notin crossed /\ job'[u] = job[u]
    BY <1>1, <1>2, <1>4 DEF puts
  <2>2. Putting(Entry(u))' = Putting(Entry(u))
    BY <1>3, <2>1
  <2> QED BY <2>1, <2>2 DEF PutsOK, puts
<1> QED BY <1>4 DEF PutsOK

LEMMA PutCache ==
    ASSUME TypeInv, CacheInv, NEW t \in Tasks, PutStep(t)
    PROVE  CacheInv'
<1> DEFINE e == Entry(t)
<1>1. job[t] # None /\ job[t] \in Jobs /\ e \in Entries
  BY PutMoves, FetchType DEF TypeInv, At
<1>2. PICK j \in Jobs \union {None} :
        /\ Moves(t, j)
        /\ j # None => \/ j.step = job[t].step
                       \/ Ns(t) = "models" /\ j.step = "whole"
  BY PutMoves
<1>3. job'[t] = j /\ \A u \in Tasks \ {t} : job'[u] = job[u]
  BY <1>2 DEF Moves, TypeInv, JobsOK
<1>4. \A u \in Tasks \ {t} : (Puts(u)' <=> Puts(u)) /\ Entry(u)' = Entry(u)
  BY <1>3 DEF Puts, At, Entry, Ns
<1>5. crossed \subseteq crossed'
  BY DEF PutStep, PutOpens, PutWrites, PutRenames, PutFails
<1>6. ModelsWhole'
  BY <1>1, <1>2, <1>5, ModelStep DEF CacheInv
<1>7. /\ handle \in [Tasks -> {"none", "tmp", "entry"}]
      /\ cache \in [Entries -> [content : Contents \union {None}, fresh : BOOLEAN]]
      /\ tmp \in [Entries -> Contents \union {None}]
      /\ PutsOK /\ EntriesWhole
  BY DEF TypeInv, CacheOK, CacheInv
(* What another task that puts keeps *)
<1> DEFINE Keeps(u) == handle'[u] = handle[u] /\ (tmp'[Entry(u)] = tmp[Entry(u)] \/ tmp'[Entry(u)] # "part")
<1>8. ASSUME NEW u \in Tasks \ {t}, Puts(u), Entry(u) \notin crossed',
             Puts(t)' => Entry(t)' = e /\ (Puts(t) \/ e # Entry(u)), Keeps(u)
      PROVE  handle'[u] = "tmp" /\ Putting(Entry(u))' = {u}
             /\ (job'[u].at = "rename" => tmp'[Entry(u)] # "part")
  <2>1. handle[u] = "tmp" /\ Putting(Entry(u)) = {u} /\ (job[u].at = "rename" => tmp[Entry(u)] # "part")
    BY <1>5, <1>7, <1>8 DEF PutsOK
  <2>2. Putting(Entry(u))' = {v \in Tasks : Puts(v)' /\ Entry(v)' = Entry(u)'}
    BY DEF Putting, Puts
  <2>3. t \notin Putting(Entry(u))
    BY <2>1
  <2>4. ~(Puts(t)' /\ Entry(t)' = Entry(u)')
    BY <1>4, <1>8, <2>3 DEF Putting, Puts
  <2>5. Putting(Entry(u))' = {u}
    BY <1>4, <1>8, <2>1, <2>2, <2>4, PuttingShape
  <2> QED BY <1>3, <1>8, <2>1, <2>5
<1>9. CASE PutOpens(t)
  <2>1. /\ job[t].at = "open" /\ handle' = [handle EXCEPT ![t] = "tmp"] /\ tmp' = [tmp EXCEPT ![e] = "part"]
        /\ cache' = [cache EXCEPT ![e].content = @]
        /\ crossed' = crossed \union {x \in {e} : Putting(e) # {}}
    BY <1>9 DEF PutOpens, PutName, At
  <2>2. ~Puts(t) /\ EntriesWhole'
    BY <1>5, <1>7, <2>1 DEF Puts, At, EntriesWhole
  <2>3. Entry(t)' = e /\ Puts(t)' /\ job'[t].at = "write"
    <3>1. job'[t] = [job[t] EXCEPT !.at = "write"]
      BY <1>9 DEF PutOpens, Goes, TypeInv, JobsOK
    <3>2. /\ job'[t].at = "write" /\ job'[t].kind = job[t].kind /\ job'[t].fetch = job[t].fetch
          /\ job'[t].part = job[t].part /\ job'[t] \in Jobs
      BY <1>1, <3>1 DEF Jobs, Stages
    <3> QED BY <3>2, NoJobAssumption DEF Entry, Ns, Puts, At
  <2>4. ASSUME NEW u \in Tasks \ {t}, Puts(u)', Entry(u)' \notin crossed'
        PROVE  handle'[u] = "tmp" /\ Putting(Entry(u))' = {u}
               /\ (job'[u].at = "rename" => tmp'[Entry(u)'] # "part")
    <3>1. Puts(u) /\ Entry(u)' = Entry(u)
      BY <1>4, <2>4
    <3>2. Entry(u) # e
      BY <2>1, <2>4, <3>1, PuttingShape
    <3>3. Keeps(u)
      BY <1>7, <2>1, <3>2
    <3> QED BY <1>8, <2>3, <2>4, <3>1, <3>2, <3>3
  <2>5. ASSUME e \notin crossed' PROVE Putting(e)' = {t}
    <3>1. Putting(e) = {}
      BY <2>1, <2>5
    <3>2. Putting(e)' = {v \in Tasks : Puts(v)' /\ Entry(v)' = e'}
      BY DEF Putting, Puts
    <3> QED BY <1>4, <2>3, <3>1, <3>2, PuttingShape
  <2>6. handle'[t] = "tmp"
    BY <1>7, <2>1
  <2>7. PutsOK'
    BY <2>3, <2>4, <2>5, <2>6 DEF PutsOK
  <2> QED BY <1>6, <2>2, <2>7 DEF CacheInv
<1>10. CASE PutWrites(t)
  <2>1. PICK c \in IF Ns(t) # "models" /\ e \in crossed THEN Contents ELSE {"whole"} :
          /\ tmp' = [tmp EXCEPT ![e] = IF handle[t] = "tmp" THEN c ELSE @]
          /\ cache' = [cache EXCEPT ![e].content = IF handle[t] = "entry" THEN c ELSE @]
    BY <1>10 DEF PutWrites
  <2>2. Puts(t) /\ UNCHANGED <<handle, crossed>>
    BY <1>10 DEF PutWrites, Puts, At
  <2>3. Entry(t)' = e /\ Puts(t)'
    <3>1. job'[t] = [job[t] EXCEPT !.at = "rename"]
      BY <1>10 DEF PutWrites, Goes, TypeInv, JobsOK
    <3>2. /\ job'[t].at = "rename" /\ job'[t].kind = job[t].kind /\ job'[t].fetch = job[t].fetch
          /\ job'[t].part = job[t].part /\ job'[t] \in Jobs
      BY <1>1, <3>1 DEF Jobs, Stages
    <3> QED BY <3>2, NoJobAssumption DEF Entry, Ns, Puts, At
  <2>4. e \notin crossed => handle[t] = "tmp" /\ Putting(e) = {t} /\ c = "whole"
    BY <1>7, <2>1, <2>2 DEF PutsOK
  <2>5. EntriesWhole'
    BY <1>1, <1>7, <2>1, <2>2, <2>4 DEF EntriesWhole, Contents
  <2>6. ASSUME NEW u \in Tasks \ {t}, Puts(u)', Entry(u)' \notin crossed'
        PROVE  handle'[u] = "tmp" /\ Putting(Entry(u))' = {u}
               /\ (job'[u].at = "rename" => tmp'[Entry(u)'] # "part")
    <3>1. Puts(u) /\ Entry(u)' = Entry(u) /\ Entry(u) \notin crossed
      BY <1>4, <2>2, <2>6
    <3>2. Entry(u) # e
      BY <2>4, <3>1, PuttingShape
    <3>3. Keeps(u)
      BY <1>7, <2>1, <2>2, <3>2
    <3> QED BY <1>8, <2>2, <2>3, <2>6, <3>1, <3>2, <3>3
  <2>7. ASSUME e \notin crossed'
        PROVE  handle'[t] = "tmp" /\ Putting(e)' = {t} /\ tmp'[e] # "part"
    <3>1. e \notin crossed /\ handle[t] = "tmp" /\ Putting(e) = {t} /\ c = "whole"
      BY <2>2, <2>4, <2>7
    <3>2. Putting(e)' = {v \in Tasks : Puts(v)' /\ Entry(v)' = e'}
      BY DEF Putting, Puts
    <3>3. Putting(e)' = {t}
      BY <1>4, <2>2, <2>3, <3>1, <3>2, PuttingShape
    <3> QED BY <1>1, <1>7, <2>1, <2>2, <3>1, <3>3
  <2>8. PutsOK'
    BY <2>3, <2>6, <2>7 DEF PutsOK
  <2> QED BY <1>6, <2>5, <2>8 DEF CacheInv
<1>11. CASE PutRenames(t)
  <2>1. /\ Puts(t) /\ job[t].at = "rename" /\ crossed' = crossed
        /\ cache' = [cache EXCEPT ![e] = IF tmp[e] # None THEN [content |-> tmp[e], fresh |-> TRUE] ELSE @]
        /\ tmp' = [tmp EXCEPT ![e] = None]
        /\ \A u \in Tasks \ {t} : u \notin Putting(e) => handle'[u] = handle[u]
        /\ Got(t, "whole")
    BY <1>11 DEF PutRenames, Puts, At
  <2>2. ~Puts(t)'
    <3>1. \E i \in Jobs \union {None} : Moves(t, i) /\ (i # None => i.at \in {"look", "install"})
      <4>1. job[t].piece = 0
        BY PutMoves
      <4> QED BY <1>1, <2>1, <4>1, AnswerMoves DEF TypeInv, Contents
    <3> QED BY <3>1 DEF Moves, TypeInv, JobsOK, Puts, At
  <2>3. e \notin crossed => tmp[e] # "part" /\ Putting(e) = {t}
    BY <1>7, <2>1 DEF PutsOK
  <2>4. EntriesWhole'
    BY <1>1, <1>7, <2>1, <2>3 DEF EntriesWhole
  <2>5. ASSUME NEW u \in Tasks \ {t}, Puts(u)', Entry(u)' \notin crossed'
        PROVE  handle'[u] = "tmp" /\ Putting(Entry(u))' = {u}
               /\ (job'[u].at = "rename" => tmp'[Entry(u)'] # "part")
    <3>1. Puts(u) /\ Entry(u)' = Entry(u) /\ Entry(u) \notin crossed
      BY <1>4, <2>1, <2>5
    <3>2. Entry(u) # e
      BY <2>3, <3>1, PuttingShape
    <3>3. Keeps(u)
      BY <1>7, <2>1, <3>2, PuttingShape
    <3> QED BY <1>8, <2>1, <2>2, <3>1, <3>3
  <2>6. PutsOK'
    BY <2>2, <2>5 DEF PutsOK
  <2> QED BY <1>6, <2>4, <2>6 DEF CacheInv
<1>12. CASE PutFails(t)
  <2>1. /\ handle' = [handle EXCEPT ![t] = "none"] /\ UNCHANGED <<cache, crossed>>
        /\ tmp' = [tmp EXCEPT ![e] = IF Putting(e) \ {t} = {} THEN None ELSE @]
        /\ Got(t, "whole")
    BY <1>12 DEF PutFails
  <2>2. ~Puts(t)'
    <3>1. \E i \in Jobs \union {None} : Moves(t, i) /\ (i # None => i.at \in {"look", "install"})
      <4>1. job[t].piece = 0
        BY PutMoves
      <4> QED BY <1>1, <2>1, <4>1, AnswerMoves DEF TypeInv, Contents
    <3> QED BY <3>1 DEF Moves, TypeInv, JobsOK, Puts, At
  <2>3. EntriesWhole'
    BY <1>7, <2>1 DEF EntriesWhole
  <2>4. ASSUME NEW u \in Tasks \ {t}, Puts(u)', Entry(u)' \notin crossed'
        PROVE  handle'[u] = "tmp" /\ Putting(Entry(u))' = {u}
               /\ (job'[u].at = "rename" => tmp'[Entry(u)'] # "part")
    <3>1. Puts(u) /\ Entry(u)' = Entry(u) /\ Entry(u) \notin crossed
      BY <1>4, <2>1, <2>4
    <3>2. Keeps(u)
      <4>1. Entry(u) = e => u \in Putting(e) \ {t}
        BY <3>1, PuttingShape
      <4>2. tmp'[Entry(u)] = tmp[Entry(u)] \/ tmp'[Entry(u)] = None
        BY <1>7, <2>1
      <4>3. None # "part"
        BY NoJobAssumption DEF Contents
      <4> QED BY <1>7, <2>1, <4>2, <4>3
    <3> QED BY <1>8, <2>1, <2>2, <3>1, <3>2
  <2>5. PutsOK'
    BY <2>2, <2>4 DEF PutsOK
  <2> QED BY <1>6, <2>3, <2>5 DEF CacheInv
<1> QED BY <1>9, <1>10, <1>11, <1>12 DEF PutStep

LEMMA StepCache == TypeInv /\ CacheInv /\ [Next]_vars => CacheInv'
<1> SUFFICES ASSUME TypeInv, CacheInv, [Next]_vars PROVE CacheInv'
  OBVIOUS
<1>1. ASSUME UNCHANGED clientVars PROVE CacheInv'
  BY <1>1 DEF clientVars, ban, puts, CacheInv, PutsOK, Puts, At, Entry, Ns, Putting, EntriesWhole, ModelsWhole
<1>2. ASSUME NEW t \in Tasks, StartCall(t) PROVE CacheInv'
  <2>1. PICK j \in Jobs : job' = [job EXCEPT ![t] = j] /\ j.at = "look" /\ j.step = None
    BY <1>2, StartMoves
  <2>2. job[t] = None /\ UNCHANGED puts
    BY <1>2, StartMoves
  <2>3. PutsOK'
    BY <2>1, <2>2, OthersPut DEF CacheInv, Puts, At
  <2>4. EntriesWhole' /\ ModelsWhole'
    BY <2>1, <2>2, NoJobAssumption
       DEF CacheInv, EntriesWhole, ModelsWhole, puts, TypeInv, JobsOK, Contents
  <2> QED BY <2>3, <2>4 DEF CacheInv
<1>3. ASSUME NEW t \in Tasks, FetchStep(t) PROVE CacheInv'
  <2>1. PICK j \in Jobs \union {None} : Fetched(t, j)
    BY <1>3, FetchMoves
  <2>2. job[t] # None /\ ~Puts(t) /\ UNCHANGED puts
    BY <1>3, FetchMoves DEF At, Puts
  <2>3. PutsOK'
    BY <2>1, <2>2, OthersPut DEF CacheInv, Fetched, Moves
  <2>4. ModelsWhole'
    BY <2>1, <2>2, ModelStep DEF CacheInv, Fetched, puts
  <2> QED BY <2>2, <2>3, <2>4 DEF CacheInv, EntriesWhole, puts
<1>4. ASSUME NEW t \in Tasks, InstallStep(t) PROVE CacheInv'
  <2>1. PICK j \in Jobs \union {None} :
          Moves(t, j) /\ (j # None => j.at \in {"install", "sheet"} /\ j.step = job[t].step)
    BY <1>4, InstallMoves
  <2>2. job[t] # None /\ ~Puts(t) /\ UNCHANGED puts
    BY <1>4, InstallMoves DEF At, Puts
  <2>3. PutsOK'
    BY <2>1, <2>2, OthersPut DEF CacheInv, Moves
  <2>4. ModelsWhole'
    BY <2>1, <2>2, ModelStep DEF CacheInv, puts
  <2> QED BY <2>2, <2>3, <2>4 DEF CacheInv, EntriesWhole, puts
<1>5. CASE \E t \in Tasks : Calls(t)
  BY <1>2, <1>3, <1>4, <1>5, CallSteps, PutCache
<1>6. CASE BanEnds
  BY <1>6 DEF BanEnds, puts, CacheInv, PutsOK, Puts, At, Entry, Ns, Putting, EntriesWhole, ModelsWhole
<1>7. ASSUME NEW e \in Entries, Expires(e) PROVE CacheInv'
  <2>1. cache' = [cache EXCEPT ![e].fresh = FALSE] /\ UNCHANGED <<job, handle, tmp, crossed>>
    BY <1>7 DEF Expires
  <2>2. PutsOK' /\ ModelsWhole'
    BY <2>1 DEF CacheInv, PutsOK, Puts, At, Entry, Ns, Putting, ModelsWhole
  <2>3. EntriesWhole'
    BY <2>1 DEF CacheInv, EntriesWhole, TypeInv, CacheOK
  <2> QED BY <2>2, <2>3 DEF CacheInv
<1>8. CASE Crash
  BY <1>8 DEF Crash, ClientCrash, CacheInv, PutsOK, Puts, At, EntriesWhole, ModelsWhole
<1> QED BY <1>1, <1>5, <1>6, <1>7, <1>8 DEF Next, Time, vars

(* Whatever tasks and crashes interleave, an entry of the cache, and a model  *)
(* on its way into the project, is whole or was put by two tasks at once.     *)
THEOREM CacheStaysWhole == Spec => []CacheIsWhole
<1>1. Spec => [](TypeInv /\ CacheInv)
  BY InitType, TypeStep, InitCache, StepCache, PTL DEF Spec
<1>2. TypeInv /\ CacheInv => CacheIsWhole
  BY CacheParts DEF CacheInv
<1> QED BY <1>1, <1>2, PTL

--------------------------------------------------------------------------------
(* The directory: an install has written the pieces before the one it is at;  *)
(* where nothing crossed it is the only one of its name, nobody has written   *)
(* over its pieces, and the wrapper is not there yet                          *)
Own(t, x) == files[job[t].name][x]

WrittenOK ==
    \A t \in Tasks : Installing(t) =>
        /\ \A i \in 1..6 : i < job[t].piece /\ WriteOrder[i] # "step" =>
              Own(t, WriteOrder[i]) # None
              /\ (job[t].name \notin torn => Own(t, WriteOrder[i]) = job[t].part)
        /\ job[t].name \notin torn => Own(t, "zen") = None /\ OthersInstalling(t) = {}

InstallInv == WrittenOK /\ WrapperHasItsFiles

LEMMA InitInstall == Init => InstallInv
<1> SUFFICES ASSUME Init PROVE InstallInv
  OBVIOUS
<1>1. PICK installed \in [CompNames -> Parts \union {None}] : ComponentsInit(installed)
  BY DEF Init
<1>2. WrittenOK
  BY DEF Init, ClientInit, WrittenOK, Installing, At
<1>3. WrapperHasItsFiles
  BY <1>1 DEF ComponentsInit, WrapperHasItsFiles, Referenced, Pieces
<1> QED BY <1>2, <1>3 DEF InstallInv

(* A step that writes no file, of a task that does not install afterwards *)
LEMMA OthersInstall ==
    ASSUME TypeInv, InstallInv, NEW t \in Tasks, NEW j, job' = [job EXCEPT ![t] = j],
           j # None => j.at # "install" \/ j.piece = 0, UNCHANGED <<files, torn>>
    PROVE  InstallInv'
<1>1. job'[t] = j /\ \A u \in Tasks \ {t} : job'[u] = job[u]
  BY DEF TypeInv, JobsOK
<1>2. ~Installing(t)'
  BY <1>1 DEF Installing, At
<1>3. ASSUME NEW u \in Tasks, Installing(u)'
      PROVE  u # t /\ Installing(u) /\ job'[u] = job[u] /\ OthersInstalling(u)' \subseteq OthersInstalling(u)
  <2>1. u # t /\ Installing(u) /\ job'[u] = job[u]
    BY <1>1, <1>2, <1>3 DEF Installing, At
  <2>2. ASSUME NEW v \in Tasks, v \in OthersInstalling(u)' PROVE v \in OthersInstalling(u)
    BY <1>1, <1>2, <2>1, <2>2 DEF OthersInstalling, Installing, At
  <2>3. OthersInstalling(u)' \subseteq Tasks
    BY DEF OthersInstalling
  <2> QED BY <2>1, <2>2, <2>3
<1>4. WrittenOK'
  BY <1>3 DEF InstallInv, WrittenOK, Own
<1> QED BY <1>4 DEF InstallInv, WrapperHasItsFiles, Referenced

LEMMA BeginWrites ==
    ASSUME TypeInv, InstallInv, NEW t \in Tasks, BeginInstall(t)
    PROVE  InstallInv'
<1> DEFINE n == job[t].name
<1>1. job[t] # None /\ job[t] \in Jobs /\ job[t].at = "install" /\ job[t].piece = 0 /\ n \in CompNames
  BY FetchType DEF BeginInstall, TypeInv, At, Jobs
<1>2. CASE Return(t)
  <2>1. job' = [job EXCEPT ![t] = None] /\ files' = files
    BY <1>2 DEF BeginInstall, Return
  <2>2. CASE torn' = torn
    BY <2>1, <2>2, OthersInstall
  <2>3. CASE torn' # torn
    <3>1. job' = [job EXCEPT ![t].piece = 1]
      BY <2>3 DEF BeginInstall
    <3>2. job'[t] = None /\ job'[t] = [job[t] EXCEPT !.piece = 1]
      BY <2>1, <3>1 DEF TypeInv, JobsOK
    <3>3. [job[t] EXCEPT !.piece = 1] \in Jobs
      BY <1>1, OrderShape DEF Jobs
    <3> QED BY <3>2, <3>3, NoJobAssumption
  <2> QED BY <2>2, <2>3
<1>3. CASE ~Return(t)
  <2>1. /\ MayInstall(n, job[t].over) /\ job' = [job EXCEPT ![t].piece = 1] /\ files' = files
        /\ torn' = torn \union {m \in {n} : (Clobbers(n) /\ job[t].over) \/ OthersInstalling(t) # {}}
    BY <1>3 DEF BeginInstall
  <2> DEFINE j == [job[t] EXCEPT !.piece = 1]
  <2>2. /\ job'[t] = j /\ j \in Jobs /\ j.at = "install" /\ j.piece = 1 /\ j.name = n
        /\ \A u \in Tasks \ {t} : job'[u] = job[u]
    BY <1>1, <2>1, OrderShape DEF Jobs, TypeInv, JobsOK
  <2> HIDE DEF j
  <2>3. \A u \in Tasks \ {t} : Installing(u)' <=> Installing(u)
    BY <2>2 DEF Installing, At
  <2>4. n \notin torn' => OthersInstalling(t) = {} /\ files[n].zen = None
    BY <2>1 DEF MayInstall, Clobbers
  <2>5. ASSUME NEW u \in Tasks, Installing(u)', u # t, job'[u].name \notin torn'
        PROVE  OthersInstalling(u)' = {}
    <3>1. Installing(u) /\ job'[u] = job[u] /\ job[u].name \notin torn
      BY <2>1, <2>2, <2>3, <2>5
    <3>2. OthersInstalling(u) = {}
      BY <3>1 DEF InstallInv, WrittenOK
    <3>3. job[u].name # n
      BY <2>4, <2>5, <3>1 DEF OthersInstalling
    <3>4. ASSUME NEW v \in Tasks, v \in OthersInstalling(u)' PROVE FALSE
      <4>1. v # u /\ Installing(v)' /\ job'[v].name = job[u].name
        BY <3>1, <3>4 DEF OthersInstalling
      <4>2. v # t
        BY <2>2, <3>3, <4>1
      <4> QED BY <2>2, <2>3, <3>2, <4>1, <4>2 DEF OthersInstalling
    <3> QED BY <3>4 DEF OthersInstalling
  <2>6. ASSUME n \notin torn' PROVE OthersInstalling(t)' = {}
    BY <2>2, <2>3, <2>4, <2>6 DEF OthersInstalling
  <2>7. ASSUME NEW u \in Tasks, Installing(u)'
        PROVE  /\ \A i \in 1..6 : i < job'[u].piece /\ WriteOrder[i] # "step" =>
                     Own(u, WriteOrder[i])' # None
                     /\ (job'[u].name \notin torn' => Own(u, WriteOrder[i])' = job'[u].part)
               /\ job'[u].name \notin torn' => Own(u, "zen")' = None /\ OthersInstalling(u)' = {}
    <3>1. CASE u = t
      BY <2>1, <2>2, <2>4, <2>6, <3>1 DEF Own
    <3>2. CASE u # t
      <4>1. Installing(u) /\ job'[u] = job[u] /\ (job[u].name \notin torn' => job[u].name \notin torn)
        BY <2>1, <2>2, <2>3, <2>7, <3>2
      <4> QED BY <2>1, <2>5, <2>7, <3>2, <4>1 DEF Own, InstallInv, WrittenOK
    <3> QED BY <3>1, <3>2
  <2>8. WrittenOK'
    BY <2>7 DEF WrittenOK, Own
  <2>9. WrapperHasItsFiles'
    BY <2>1 DEF InstallInv, WrapperHasItsFiles, Referenced
  <2> QED BY <2>8, <2>9 DEF InstallInv
<1> QED BY <1>2, <1>3

LEMMA PieceWrites ==
    ASSUME TypeInv, InstallInv, NEW t \in Tasks, InstallWrites(t)
    PROVE  InstallInv'
<1> DEFINE n == job[t].name
           p == job[t].part
           x == WriteOrder[job[t].piece]
<1>1. /\ job[t] # None /\ job[t] \in Jobs /\ job[t].at = "install" /\ job[t].piece \in 1..6
      /\ n \in CompNames /\ p \in Parts /\ p # None /\ Installing(t) /\ x \in Pieces
  <2>1. Installing(t) /\ job[t] \in Jobs
    BY FetchType DEF InstallWrites, Installing, TypeInv, At
  <2>2. job[t].piece \in 1..6 /\ n \in CompNames /\ p \in Parts
    BY <2>1, OrderShape DEF Installing, Jobs
  <2> QED BY <2>1, <2>2, OrderShape, NoPartAssumption DEF Installing, At
<1>2. PICK j \in Jobs \union {None} :
        /\ Moves(t, j)
        /\ j # None => \/ job[t].piece = 6 /\ j.at = "sheet"
                       \/ job[t].piece # 6 /\ j.at = "install" /\ j.piece = job[t].piece + 1
  BY InstallMoves DEF InstallStep
<1>3. job'[t] = j /\ (\A u \in Tasks \ {t} : job'[u] = job[u]) /\ (j # None => j.name = n /\ j.part = p)
  BY <1>2 DEF Moves, SameCall, TypeInv, JobsOK
<1>4. torn' = torn /\ \A u \in Tasks \ {t} : Installing(u)' <=> Installing(u)
  BY <1>3 DEF InstallWrites, Installing, At
<1>5. \/ x = "step" /\ files' = files
      \/ files' = [files EXCEPT ![n][x] = p]
  BY DEF InstallWrites, WritePiece
<1> HIDE DEF n, p, x
<1>6. /\ \A m \in CompNames : \A y \in Pieces : m # n \/ y # x => files'[m][y] = files[m][y]
      /\ x # "step" => files'[n][x] = p
  BY <1>1, <1>5 DEF TypeInv, DirectoryOK
<1>7. WrittenOK /\ WrapperHasItsFiles
  BY DEF InstallInv
<1>8. n \notin torn => Own(t, "zen") = None /\ OthersInstalling(t) = {}
  BY <1>1, <1>7 DEF WrittenOK, n
<1>9. \A i \in 1..6 : i < job[t].piece /\ WriteOrder[i] # "step" =>
        files[n][WriteOrder[i]] # None /\ (n \notin torn => files[n][WriteOrder[i]] = p)
  BY <1>1, <1>7 DEF WrittenOK, Own, n, p
(* What t has written after this step *)
<1>10. \A i \in 1..6 : i <= job[t].piece /\ WriteOrder[i] # "step" =>
         files'[n][WriteOrder[i]] # None /\ (n \notin torn => files'[n][WriteOrder[i]] = p)
  <2>1. ASSUME NEW i \in 1..6, i <= job[t].piece, WriteOrder[i] # "step"
        PROVE  files'[n][WriteOrder[i]] # None /\ (n \notin torn => files'[n][WriteOrder[i]] = p)
    <3>1. WriteOrder[i] \in Pieces
      BY OrderShape
    <3>2. CASE WriteOrder[i] = x
      BY <1>1, <1>6, <2>1, <3>2
    <3>3. CASE WriteOrder[i] # x
      <4>1. i # job[t].piece
        BY <3>3 DEF x
      <4>2. i < job[t].piece
        BY <1>1, <2>1, <4>1
      <4>3. files'[n][WriteOrder[i]] = files[n][WriteOrder[i]]
        BY <1>1, <1>6, <3>1, <3>3
      <4> QED BY <1>9, <2>1, <4>2, <4>3
    <3> QED BY <3>2, <3>3
  <2> QED BY <2>1
<1>11. ASSUME NEW u \in Tasks, Installing(u)', job'[u].name \notin torn' PROVE OthersInstalling(u)' = {}
  <2>1. ASSUME NEW v \in Tasks, v \in OthersInstalling(u)' PROVE FALSE
    <3>1. v # u /\ Installing(v)' /\ job'[v].name = job'[u].name
      BY <2>1 DEF OthersInstalling
    <3>2. ASSUME NEW w \in Tasks, Installing(w)' PROVE Installing(w) /\ job'[w].name = job[w].name
      BY <1>1, <1>3, <1>4, <3>2 DEF Installing, At, n
    <3>3. Installing(u) /\ v \in OthersInstalling(u) /\ job[u].name \notin torn
      BY <1>4, <1>11, <3>1, <3>2 DEF OthersInstalling
    <3> QED BY <1>7, <3>3 DEF WrittenOK
  <2> QED BY <2>1 DEF OthersInstalling
<1>12. ASSUME NEW u \in Tasks, Installing(u)'
       PROVE  /\ \A i \in 1..6 : i < job'[u].piece /\ WriteOrder[i] # "step" =>
                    Own(u, WriteOrder[i])' # None
                    /\ (job'[u].name \notin torn' => Own(u, WriteOrder[i])' = job'[u].part)
              /\ job'[u].name \notin torn' => Own(u, "zen")' = None
  <2>1. CASE u = t
    <3>1. j # None /\ job[t].piece # 6 /\ j.piece = job[t].piece + 1 /\ j.name = n /\ j.part = p
      BY <1>2, <1>3, <1>12, <2>1 DEF Installing, At
    <3>2. \A i \in 1..6 : i < job[t].piece + 1 => i <= job[t].piece
      BY <1>1
    <3>3. x # "zen" /\ "zen" \in Pieces
      BY <1>1, <3>1, OrderShape DEF x, Pieces
    <3>4. files'[n]["zen"] = files[n]["zen"]
      BY <1>1, <1>6, <3>3
    <3>5. job'[u].name = n /\ job'[u].part = p /\ job'[u].piece = job[t].piece + 1
      BY <1>3, <2>1, <3>1
    <3>6. job[t].name = n
      BY DEF n
    <3> QED BY <1>4, <1>8, <1>10, <3>2, <3>4, <3>5, <3>6 DEF Own
  <2>2. CASE u # t
    <3>1. Installing(u) /\ job'[u] = job[u] /\ job[u] \in Jobs
      BY <1>3, <1>4, <1>12, <2>2, FetchType DEF Installing, TypeInv, At
    <3>2. job[u].name \in CompNames /\ "zen" \in Pieces /\ \A i \in 1..6 : WriteOrder[i] \in Pieces
      BY <3>1, OrderShape DEF Jobs, Pieces
    <3>3. CASE job[u].name # n
      <4>1. \A y \in Pieces : files'[job[u].name][y] = files[job[u].name][y]
        BY <1>6, <3>2, <3>3
      <4> QED BY <1>4, <1>7, <3>1, <3>2, <4>1 DEF WrittenOK, Own
    <3>4. CASE job[u].name = n
      <4>1. n \in torn
        BY <1>8, <2>2, <3>1, <3>4 DEF OthersInstalling, n
      <4>2. \A y \in Pieces : files'[n][y] = files[n][y] \/ (y = x /\ files'[n][y] \in {files[n][y], p})
        BY <1>1, <1>5 DEF TypeInv, DirectoryOK
      <4>3. \A i \in 1..6 : i < job[u].piece /\ WriteOrder[i] # "step" => files[n][WriteOrder[i]] # None
        BY <1>7, <3>1, <3>4 DEF WrittenOK, Own
      <4>4. \A i \in 1..6 : i < job[u].piece /\ WriteOrder[i] # "step" => files'[n][WriteOrder[i]] # None
        BY <1>1, <3>2, <4>2, <4>3
      <4> QED BY <1>4, <3>1, <3>4, <4>1, <4>4 DEF Own
    <3> QED BY <3>3, <3>4
  <2> QED BY <2>1, <2>2
<1>13. WrittenOK'
  BY <1>11, <1>12 DEF WrittenOK, Own
<1>14. WrapperHasItsFiles'
  <2> SUFFICES ASSUME NEW m \in CompNames, files'[m].zen # None
               PROVE  /\ None \notin {files'[m]["sym"], files'[m]["mod"], files'[m]["card"]}
                      /\ m \notin torn' => {files'[m]["sym"], files'[m]["mod"]} = {files'[m].zen}
    BY DEF WrapperHasItsFiles, Referenced
  <2>1. {"sym", "mod", "card", "zen"} \subseteq Pieces
    BY DEF Pieces
  <2>2. files[m].zen # None =>
          /\ None \notin {files[m]["sym"], files[m]["mod"], files[m]["card"]}
          /\ m \notin torn => {files[m]["sym"], files[m]["mod"]} = {files[m].zen}
    BY <1>7 DEF WrapperHasItsFiles, Referenced
  <2>3. CASE m # n
    BY <1>4, <1>6, <2>1, <2>2, <2>3
  <2>4. CASE m = n /\ x = "zen"
    <3>1. job[t].piece = 6
      BY <1>1, <2>4, OrderShape DEF x
    <3>2. /\ files'[n]["sym"] # None /\ files'[n]["mod"] # None /\ files'[n]["card"] # None
          /\ n \notin torn => files'[n]["sym"] = p /\ files'[n]["mod"] = p
      BY <1>10, <3>1, OrderShape
    <3>3. files'[n].zen = p
      BY <1>6, <2>4
    <3> QED BY <1>4, <2>4, <3>2, <3>3
  <2>5. CASE m = n /\ x # "zen"
    <3>1. files'[n].zen = files[n].zen
      BY <1>1, <1>6, <2>1, <2>5
    <3>2. n \in torn
      BY <1>8, <2>5, <3>1 DEF Own, n
    <3>3. \A y \in Pieces : files'[n][y] \in {files[n][y], p}
      BY <1>1, <1>5 DEF TypeInv, DirectoryOK
    <3> QED BY <1>1, <1>4, <2>1, <2>2, <2>5, <3>1, <3>2, <3>3
  <2> QED BY <2>3, <2>4, <2>5
<1> QED BY <1>13, <1>14 DEF InstallInv

LEMMA StepInstall == TypeInv /\ InstallInv /\ [Next]_vars => InstallInv'
<1> SUFFICES ASSUME TypeInv, InstallInv, [Next]_vars PROVE InstallInv'
  OBVIOUS
<1>1. ASSUME UNCHANGED <<job, files, torn>> PROVE InstallInv'
  BY <1>1 DEF InstallInv, WrittenOK, Installing, At, Own, OthersInstalling, WrapperHasItsFiles, Referenced
<1>2. ASSUME NEW t \in Tasks, Calls(t) PROVE InstallInv'
  <2>1. CASE StartCall(t)
    <3>1. PICK j \in Jobs : job' = [job EXCEPT ![t] = j] /\ j.piece = 0
      BY <2>1, StartMoves
    <3> QED BY <2>1, <3>1, StartMoves, OthersInstall DEF directory
  <2>2. CASE FetchStep(t)
    <3>1. PICK j \in Jobs \union {None} : Fetched(t, j)
      BY <2>2, FetchMoves
    <3>2. UNCHANGED <<files, torn>>
      BY <2>2, FetchMoves DEF directory
    <3> QED BY <3>1, <3>2, OthersInstall DEF Fetched, Moves
  <2>3. CASE PutStep(t)
    <3>1. PICK j \in Jobs \union {None} : Moves(t, j) /\ (j # None => j.piece = 0)
      BY <2>3, PutMoves
    <3>2. UNCHANGED <<files, torn>>
      BY <2>3, PutMoves DEF directory
    <3> QED BY <3>1, <3>2, OthersInstall DEF Moves
  <2>4. CASE InstallFails(t) \/ Datasheet(t)
    <3>1. job' = [job EXCEPT ![t] = None] /\ UNCHANGED <<files, torn>>
      BY <2>4 DEF InstallFails, Datasheet, Return, directory
    <3> QED BY <3>1, OthersInstall
  <2> QED BY <1>2, <2>1, <2>2, <2>3, <2>4, CallSteps, BeginWrites, PieceWrites DEF InstallStep
<1>3. CASE Time /\ UNCHANGED placementVars
  BY <1>1, <1>3 DEF Time, Expires, BanEnds, componentVars
<1>4. ASSUME NEW t \in Tasks, Placements(t), UNCHANGED clientVars PROVE InstallInv'
  BY <1>1, <1>4 DEF Placements, BeginPlacement, WriteScratch, Proves, Retries, GivesUp, Finishes,
                    clientVars, componentVars
<1>5. CASE Crash
  BY <1>5 DEF Crash, ClientCrash, InstallInv, WrittenOK, Installing, At, WrapperHasItsFiles, Referenced
<1>6. CASE UNCHANGED vars
  BY <1>1, <1>6 DEF vars, componentVars, clientVars
<1> QED BY <1>2, <1>3, <1>4, <1>5, <1>6 DEF Next

(* A wrapper on disk has its assets and its card, and they are of its part    *)
(* unless installs of its name crossed or one replaced another.               *)
THEOREM WrappersAreComplete == Spec => []WrapperHasItsFiles
<1>1. Spec => [](TypeInv /\ InstallInv)
  BY InitType, TypeStep, InitInstall, StepInstall, PTL DEF Spec
<1>2. InstallInv => WrapperHasItsFiles
  BY DEF InstallInv
<1> QED BY <1>1, <1>2, PTL

--------------------------------------------------------------------------------
(* Preflights: an evaluation that ran beside no other finds in the scratch     *)
(* file what it wrote there; and a key that is not of the module as it is now  *)
(* never will be again                                                        *)
AloneOK ==
    \A t \in Tasks : pre[t] # None /\ pre[t].alone =>
        /\ \A u \in Tasks \ {t} : pre[u] = None
        /\ pre[t].written => scratch = [spec |-> pre[t].key[1], pins |-> pre[t].pins]

Past(k) == k[1] \in Generics \/ k[2] <= stamp[k[1]]

KeysOK ==
    /\ \A t \in Tasks : pre[t] # None => Past(pre[t].key)
    /\ \A k \in DOMAIN preflights : Past(k)

PreflightInv == AloneOK /\ KeysOK /\ PreflightsAreProven

LEMMA InitPreflight == Init => PreflightInv
  BY DEF Init, PlacementInit, PreflightInv, AloneOK, KeysOK, PreflightsAreProven

(* The directory changes under the placements: a wrapper's time grows         *)
LEMMA DirectoryPreflight ==
    ASSUME TypeInv, PreflightInv, UNCHANGED placementVars,
           \A n \in CompNames :
              \/ stamp'[n] = stamp[n] /\ files'[n].zen = files[n].zen
              \/ stamp'[n] = stamp[n] + 1
    PROVE  PreflightInv'
<1>1. AloneOK'
  BY DEF placementVars, PreflightInv, AloneOK
<1>2. ASSUME NEW k \in Specs \X Nat, Past(k)
      PROVE  Past(k)' /\ (k = Key(k[1])' /\ k[1] \notin Generics =>
                             stamp'[k[1]] = stamp[k[1]] /\ files'[k[1]].zen = files[k[1]].zen)
  <2>1. CASE k[1] \in Generics
    BY <2>1 DEF Past
  <2>2. CASE k[1] \notin Generics
    <3>1. k[1] \in CompNames /\ k[2] \in Nat /\ stamp[k[1]] \in Nat /\ k[2] <= stamp[k[1]]
      BY <1>2, <2>2 DEF Specs, Past, TypeInv, DirectoryOK
    <3>2. k = Key(k[1])' => k[2] = stamp'[k[1]]
      BY <2>2 DEF Key
    <3> QED BY <2>2, <3>1, <3>2 DEF Past
  <2> QED BY <2>1, <2>2
<1>3. \A k \in DOMAIN preflights : k \in Specs \X Nat /\ Past(k)
  BY DEF TypeInv, PlacementTypeOK, PreflightInv, KeysOK
<1>4. \A t \in Tasks : pre[t] # None => pre[t].key \in Specs \X Nat /\ Past(pre[t].key)
  BY DEF TypeInv, BusyOK, Evaluations, PreflightInv, KeysOK
<1>5. KeysOK'
  BY <1>2, <1>3, <1>4 DEF placementVars, KeysOK
<1>6. ASSUME NEW k \in DOMAIN preflights' \ unproven', k = Key(k[1])',
             k[1] \in Generics \/ files'[k[1]].zen # None
      PROVE  preflights'[k] = Demands[Module(k[1])']
  <2>1. k \in DOMAIN preflights \ unproven /\ preflights'[k] = preflights[k] /\ k \in Specs \X Nat /\ Past(k)
    BY <1>3, <1>6 DEF placementVars
  <2>2. CASE k[1] \in Generics
    <3>1. k = Key(k[1]) /\ Module(k[1])' = Module(k[1])
      BY <1>6, <2>2 DEF Key, Module
    <3> QED BY <2>1, <2>2, <3>1 DEF PreflightInv, PreflightsAreProven
  <2>3. CASE k[1] \notin Generics
    <3>1. stamp'[k[1]] = stamp[k[1]] /\ files'[k[1]].zen = files[k[1]].zen
      BY <1>2, <1>6, <2>1, <2>3
    <3>2. k = Key(k[1]) /\ Module(k[1])' = Module(k[1]) /\ files[k[1]].zen # None
      BY <1>6, <2>3, <3>1 DEF Key, Module
    <3> QED BY <2>1, <3>2 DEF PreflightInv, PreflightsAreProven
  <2> QED BY <2>2, <2>3
<1>7. PreflightsAreProven'
  BY <1>6 DEF PreflightsAreProven
<1> QED BY <1>1, <1>5, <1>7 DEF PreflightInv

LEMMA PlacementPreflight ==
    ASSUME TypeInv, PreflightInv, NEW t \in Tasks, Placements(t)
    PROVE  PreflightInv'
<1>1. UNCHANGED <<files, stamp>>
  BY DEF Placements, BeginPlacement, WriteScratch, Proves, Retries, GivesUp, Finishes, componentVars
<1>2. (\A k : Past(k)' <=> Past(k)) /\ (\A s : Key(s)' = Key(s)) /\ (\A s : Module(s)' = Module(s))
  BY <1>1 DEF Past, Key, Module
<1>3. ASSUME UNCHANGED <<preflights, unproven>> PROVE PreflightsAreProven'
  BY <1>1, <1>2, <1>3 DEF PreflightInv, PreflightsAreProven
<1>4. pre \in [Tasks -> Evaluations \union {None}] /\ AloneOK /\ KeysOK /\ PreflightsAreProven
  BY DEF TypeInv, BusyOK, PreflightInv
<1>5. CASE BeginPlacement(t)
  <2>1. PICK s \in Specs : pre'[t] # None /\ pre'[t].key = Key(s) /\ pre'[t].written = FALSE
    BY <1>5, BeginPlacementShape
  <2>2. Past(Key(s))
    BY DEF Past, Key, Specs, TypeInv, DirectoryOK
  <2>3. KeysOK'
    BY <1>2, <1>4, <1>5, <2>1, <2>2, BeginPlacementShape DEF KeysOK
  <2>4. ASSUME NEW u \in Tasks, pre'[u] # None, pre'[u].alone
        PROVE  (\A v \in Tasks \ {u} : pre'[v] = None) /\ ~pre'[u].written
    <3>1. u = t
      BY <1>5, <2>4, BeginPlacementShape
    <3>2. Evaluating = {}
      BY <1>5, <2>4, <3>1, BeginPlacementShape
    <3>3. \A v \in Tasks \ {t} : pre[v] = None
      BY <3>2 DEF Evaluating
    <3>4. \A v \in Tasks \ {t} : pre'[v] = None
      BY <1>5, <3>3, BeginPlacementShape
    <3> QED BY <2>1, <3>1, <3>4
  <2>5. AloneOK'
    BY <2>4 DEF AloneOK
  <2> QED BY <1>3, <1>5, <2>3, <2>5, BeginPlacementShape DEF PreflightInv
<1>6. CASE WriteScratch(t)
  <2> DEFINE b == [pre[t] EXCEPT !.written = TRUE]
  <2>1. /\ pre[t] # None /\ pre' = [pre EXCEPT ![t] = b] /\ UNCHANGED <<preflights, unproven>>
        /\ scratch' = [spec |-> pre[t].key[1], pins |-> pre[t].pins] /\ pre[t] \in Evaluations
    BY <1>4, <1>6 DEF WriteScratch
  <2>2. b.key = pre[t].key /\ b.pins = pre[t].pins /\ b.alone = pre[t].alone
    BY <2>1, EvaluationShape
  <2> HIDE DEF b
  <2>3. pre'[t] = b /\ \A u \in Tasks \ {t} : pre'[u] = pre[u]
    BY <1>4, <2>1
  <2>4. KeysOK'
    BY <1>2, <1>4, <2>1, <2>2, <2>3 DEF KeysOK
  <2>5. AloneOK'
    BY <1>4, <2>1, <2>2, <2>3 DEF AloneOK
  <2> QED BY <1>3, <2>1, <2>4, <2>5 DEF PreflightInv
<1>7. CASE Retries(t)
  <2> DEFINE b == [pre[t] EXCEPT !.pins = Solved(t), !.round = pre[t].round + 1, !.written = FALSE]
  <2>1. /\ pre[t] # None /\ pre' = [pre EXCEPT ![t] = b] /\ UNCHANGED <<preflights, unproven, scratch>>
        /\ pre[t].round < Rounds /\ pre[t] \in Evaluations
    BY <1>4, <1>7 DEF Retries
  <2>2. Solved(t) \in Pins
    BY <1>7, SolvedType DEF Retries, TypeInv
  <2>3. b.key = pre[t].key /\ b.alone = pre[t].alone /\ b.written = FALSE
    BY <2>1, <2>2, EvaluationShape
  <2> HIDE DEF b
  <2>4. pre'[t] = b /\ \A u \in Tasks \ {t} : pre'[u] = pre[u]
    BY <1>4, <2>1
  <2>5. KeysOK'
    BY <1>2, <1>4, <2>1, <2>3, <2>4 DEF KeysOK
  <2>6. AloneOK'
    BY <1>4, <2>1, <2>3, <2>4 DEF AloneOK
  <2> QED BY <1>3, <2>1, <2>5, <2>6 DEF PreflightInv
<1>8. CASE Proves(t) \/ GivesUp(t)
  <2>1. pre[t] # None /\ pre' = [pre EXCEPT ![t] = None] /\ pre[t].written
    BY <1>8 DEF Proves, GivesUp, Finishes
  <2>2. pre'[t] = None /\ \A u \in Tasks \ {t} : pre'[u] = pre[u]
    BY <1>4, <2>1
  <2>3. AloneOK'
    BY <1>4, <2>1, <2>2 DEF AloneOK
  <2>4. CASE GivesUp(t)
    <3>1. UNCHANGED <<preflights, unproven>>
      BY <2>4 DEF GivesUp
    <3>2. KeysOK'
      BY <1>2, <1>4, <2>2, <3>1 DEF KeysOK
    <3> QED BY <1>3, <2>3, <3>1, <3>2 DEF PreflightInv
  <2>5. CASE Proves(t)
    <3>1. /\ preflights' = [k \in DOMAIN preflights \union {pre[t].key} |->
                              IF k = pre[t].key THEN pre[t].pins ELSE preflights[k]]
          /\ unproven' = (unproven \ {pre[t].key}) \union {k \in {pre[t].key} : ~pre[t].alone}
          /\ Accepted(scratch)
      BY <2>5 DEF Proves
    <3>2. KeysOK'
      BY <1>2, <1>4, <2>1, <2>2, <3>1 DEF KeysOK
    <3>3. ASSUME NEW k \in DOMAIN preflights' \ unproven', k = Key(k[1])',
                 k[1] \in Generics \/ files'[k[1]].zen # None
          PROVE  preflights'[k] = Demands[Module(k[1])']
      <4>1. CASE k = pre[t].key
        <5>1. pre[t].alone
          BY <3>1, <3>3, <4>1
        <5>2. scratch = [spec |-> pre[t].key[1], pins |-> pre[t].pins]
          BY <1>4, <2>1, <5>1 DEF AloneOK
        <5>3. pre[t].pins = Demands[Module(pre[t].key[1])]
          BY <3>1, <5>2 DEF Accepted
        <5>4. preflights'[k] = pre[t].pins
          BY <3>1, <4>1
        <5> QED BY <1>2, <4>1, <5>3, <5>4
      <4>2. CASE k # pre[t].key
        <5>1. k \in DOMAIN preflights \ unproven /\ preflights'[k] = preflights[k]
          BY <3>1, <3>3, <4>2
        <5> QED BY <1>1, <1>2, <1>4, <3>3, <5>1 DEF PreflightsAreProven
      <4> QED BY <4>1, <4>2
    <3>4. PreflightsAreProven'
      BY <3>3 DEF PreflightsAreProven
    <3> QED BY <2>3, <3>2, <3>4 DEF PreflightInv
  <2> QED BY <1>8, <2>4, <2>5
<1> QED BY <1>5, <1>6, <1>7, <1>8 DEF Placements

LEMMA StepPreflight == TypeInv /\ PreflightInv /\ [Next]_vars => PreflightInv'
<1> SUFFICES ASSUME TypeInv, PreflightInv, [Next]_vars PROVE PreflightInv'
  OBVIOUS
<1>1. ASSUME UNCHANGED <<files, stamp, placementVars>> PROVE PreflightInv'
  BY <1>1, DirectoryPreflight
<1>2. ASSUME NEW t \in Tasks, Calls(t), UNCHANGED placementVars PROVE PreflightInv'
  <2>1. CASE StartCall(t)
    BY <1>1, <1>2, <2>1, StartMoves DEF directory
  <2>2. CASE FetchStep(t)
    BY <1>1, <1>2, <2>2, FetchMoves DEF directory
  <2>3. CASE PutStep(t)
    BY <1>1, <1>2, <2>3, PutMoves DEF directory
  <2>4. CASE BeginInstall(t) \/ InstallFails(t) \/ Datasheet(t)
    BY <1>1, <1>2, <2>4 DEF BeginInstall, InstallFails, Datasheet, directory
  <2>5. CASE InstallWrites(t)
    <3>1. job[t] \in Jobs
      BY <2>5, FetchType DEF InstallWrites, Installing, At, TypeInv
    <3>2. job[t].name \in CompNames /\ job[t].piece \in 0..6 /\ job[t].piece # 0
      BY <2>5, <3>1, OrderShape DEF Jobs, InstallWrites, Installing
    <3>3. CASE UNCHANGED <<files, stamp>>
      BY <1>1, <1>2, <3>3
    <3>4. ASSUME NEW x \in Pieces, WritePiece(job[t].name, x, job[t].part) PROVE PreflightInv'
      <4>1. ASSUME NEW n \in CompNames
            PROVE  \/ stamp'[n] = stamp[n] /\ files'[n].zen = files[n].zen
                   \/ stamp'[n] = stamp[n] + 1
        <5>1. stamp \in [CompNames -> Nat] /\ files \in [CompNames -> [Pieces -> Parts \union {None}]]
              /\ "zen" \in Pieces
          BY DEF TypeInv, DirectoryOK, Pieces
        <5>2. CASE n = job[t].name /\ x = "zen"
          BY <3>4, <5>1, <5>2 DEF WritePiece
        <5>3. CASE n # job[t].name
          BY <3>4, <5>1, <5>3 DEF WritePiece
        <5>4. CASE x # "zen"
          <6>1. stamp' = stamp /\ files' = [files EXCEPT ![job[t].name][x] = job[t].part]
            BY <3>4, <5>4 DEF WritePiece
          <6> QED BY <3>2, <5>1, <5>4, <6>1
        <5> QED BY <5>2, <5>3, <5>4
      <4> QED BY <1>2, <4>1, DirectoryPreflight
    <3> QED BY <2>5, <3>2, <3>3, <3>4, OrderShape DEF InstallWrites
  <2> QED BY <1>2, <2>1, <2>2, <2>3, <2>4, <2>5, CallSteps DEF InstallStep
<1>3. CASE Time /\ UNCHANGED placementVars
  BY <1>1, <1>3 DEF Time, Expires, BanEnds, componentVars
<1>4. CASE Crash
  BY <1>4 DEF Crash, PlacementCrash, PreflightInv, AloneOK, KeysOK, PreflightsAreProven
<1>5. CASE UNCHANGED vars
  BY <1>1, <1>5 DEF vars, componentVars
<1> QED BY <1>2, <1>3, <1>4, <1>5, PlacementPreflight DEF Next

(* The inputs kept for a module as it is on disk are those the evaluator       *)
(* demands of it, unless another evaluation shared the scratch file.          *)
THEOREM PreflightsProven == Spec => []PreflightsAreProven
<1>1. Spec => [](TypeInv /\ PreflightInv)
  BY InitType, TypeStep, InitPreflight, StepPreflight, PTL DEF Spec
<1>2. PreflightInv => PreflightsAreProven
  BY DEF PreflightInv
<1> QED BY <1>1, <1>2, PTL

================================================================================
