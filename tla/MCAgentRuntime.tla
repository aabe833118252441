--------------------------- MODULE MCAgentRuntime ---------------------------
(* Instances of AgentRuntime for TLC. *)
EXTENDS AgentRuntime, TLC

CONSTANTS a1, a2, c1, t1, r1, r2, r3, r4

MCTo == [t \in Tasks |-> a1]
\* Two wakes of a1's cycle, one of a2's, whose plan may message a1, and a chat with a1.
MCAgentOf == [r \in Runs |-> IF r = r3 THEN a2 ELSE a1]
MCSymmetry == Permutations({r1, r2})

\* A bound: the cycle of a2 only runs beside the chat, and no more than two calls at all.
MCTwoCalls ==
    /\ Cardinality({r \in Runs : pc[r] # "idle"}) <= 2
    /\ pc[r3] # "idle" => pc[r1] = "idle" /\ pc[r2] = "idle"
=============================================================================
