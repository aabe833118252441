----------------------------- MODULE MCAgentPlan -----------------------------
(* An instance of AgentPlan for TLC. *)
EXTENDS AgentPlan

MCAssets == {1, 2}
SupplyOne == [kind |-> "supply", asset |-> 1, amount |-> 1, spender |-> "pool", out |-> 2]
Of(kind, amount) == [SupplyOne EXCEPT !.kind = kind, !.amount = amount]
MCProposals ==
    {<<Of("supply", 1), Of("supply", 1)>>,
     <<Of("approve", 1), Of("repay", 2)>>,
     <<[Of("approve", 2) EXCEPT !.spender = "router"], Of("swap", 1)>>,
     <<Of("borrow", 1), Of("withdraw", 1)>>}
MCCap == [a \in MCAssets |-> 2]
MCPolicies ==
    {[actions |-> Kinds \ {"approve"}, assets |-> MCAssets, cap |-> MCCap, maxActions |-> 2],
     [actions |-> {"repay"}, assets |-> {1}, cap |-> [MCCap EXCEPT ![1] = 1], maxActions |-> 1]}
MCAccounts ==
    {[balance |-> <<3, 1>>, supplied |-> <<3, 0>>, debt |-> <<3, 1>>, standing |-> 1]}
=============================================================================
