---------------------------- MODULE MCRewardEpochs ----------------------------
(* Instance of RewardEpochs for TLC. *)
EXTENDS RewardEpochs, TLC

CONSTANTS a, b

MCInitialHolder == (1 :> a) @@ (2 :> b)
\* Readings of the voting power of tokens 1 and 2.
MCPowers == {<<1, 1>>, <<2, 1>>}
=============================================================================
