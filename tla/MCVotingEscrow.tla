--------------------------- MODULE MCVotingEscrow ---------------------------
(* Instances of VotingEscrow for TLC. *)
EXTENDS VotingEscrow, TLC

CONSTANTS u1, u2

MCSymmetry == Permutations(Users)
=============================================================================
