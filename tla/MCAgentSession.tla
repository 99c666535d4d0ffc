------------------------------ MODULE MCAgentSession ------------------------------
EXTENDS AgentSession, TLC

SenderSymmetry == Permutations(Senders)

(* Once tangled or lost a run stays so and most properties say nothing more of it; that
   there is one process per window is proved for those runs too. *)
StillClear == ~tangled /\ ~lost

(* The dashboard's prompt is sent before there is a session; one call at a time outlives its
   page, and none while the page is overtaken; the page asks for a new session once it has
   its state and listens, and an answer that comes before it listens has prompts to show. *)
Explored ==
    /\ StillClear
    /\ initial => spawned = 0
    /\ Cardinality(orphans) <= 1
    /\ overtaken => orphans = {}
    /\ hydration = "answered" /\ ~listening => shown # {}
    /\ IF hydration = "done" THEN listening ELSE command # New
================================================================================
