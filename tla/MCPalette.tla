------------------------------ MODULE MCPalette ------------------------------
(* Two tasks, one component name, two parts and two generics with different   *)
(* inputs, of which one cannot be constructed.                              *)
EXTENDS Palette, TLC

MCDemands ==
    [c1 |-> [V |-> "Power", A |-> "Net"], c2 |-> [A |-> "Bus"], R |-> [P |-> "Net"], X |-> [B |-> "Can"]]
MCConstructible == {"Net", "Power", "Ground", "Bus"}

Fetching(t) == job[t] # None /\ job[t].at \notin {"look", "install", "sheet"}

Expired == {e \in Entries : cache[e].content # None /\ ~cache[e].fresh}
Disk(t) == Installing(t) \/ At(t, {"sheet"}) \/ pre[t] # None

\* Bounds.  One entry is expired at a time.  Requests are made for c1 only,
\* with nothing installed or placed, while all of c2 is cached; two tasks are
\* past the look-up of a fetch only if they fetch the same entry.  Files are
\* written, and placements made, while nobody fetches, the service does not
\* block us, and no entry is expired or was put twice.
Explored ==
    /\ \A p, q \in Expired : p = q
    /\ \A e \in Entries : e[2] = "c2" => cache[e].fresh
    /\ \A t, u \in Tasks : Fetching(t) /\ Fetching(u) => Entry(t) = Entry(u)
    /\ (\E t \in Tasks : Fetching(t)) =>
          /\ \A n \in CompNames, x \in Pieces : files[n][x] = None
          /\ preflights = [k \in {} |-> NoPins]
    /\ (\E t \in Tasks : Disk(t)) =>
          /\ ~banned /\ Expired \union crossed = {}
          /\ \A t \in Tasks : ~Fetching(t) /\ ~At(t, {"look"})

AnyTask == Permutations(Tasks)

=============================================================================
