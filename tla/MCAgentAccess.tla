---------------------------- MODULE MCAgentAccess ----------------------------
(* Instance of AgentAccess for TLC. *)
EXTENDS AgentAccess, TLC

CONSTANTS a, b, o1

MCLimits == {[perCall |-> 1, perWindow |-> 2, duration |-> 2]}
MCBatches == {<<1>>, <<1, 1>>, <<1, 1, 1>>}
\* The owners are alike, and every property is of safety.
MCSymmetry == Permutations(Owners)
=============================================================================
