---------------------------- MODULE MCLendingPool ----------------------------
(***************************************************************************)
(* LendingPool with small numbers: indexes and values in hundredths, basis *)
(* points in tenths, one tick a year, tokens of one decimal.               *)
(***************************************************************************)
EXTENDS LendingPool, TLC

CONSTANTS col, usd, u1, u2

MCUnit == [a \in Assets |-> 10]

MCParams == {[ltv |-> 5, lt |-> 8, bonus |-> 11, factor |-> 1, supplyCap |-> 85, borrowCap |-> 60]}

\* For one asset: a threshold that interest alone passes, a second valid choice,
\* and one the pool refuses (bonus above 120%).
MCParamChoice ==
    {[ltv |-> 5, lt |-> 5, bonus |-> 11, factor |-> 1, supplyCap |-> 85, borrowCap |-> 60],
     [ltv |-> 4, lt |-> 4, bonus |-> 12, factor |-> 1, supplyCap |-> 85, borrowCap |-> 40],
     [ltv |-> 5, lt |-> 8, bonus |-> 13, factor |-> 1, supplyCap |-> 85, borrowCap |-> 60]}

\* Bound of the run with one asset: the second choice is explored while nothing
\* is borrowed under it.
MCFirstChoice ==
    \A a \in Assets : config[a].ltv = 4 => reserve[a].totalScaledBorrow = 0

\* Bound of the run with two assets: u1 lends usd, u2 borrows it against col,
\* the price of usd stands still, and the pool is not paused.
MCRoles ==
    /\ scaledSupply[u1][col] = 0 /\ scaledBorrow[u1] = [a \in Assets |-> 0]
    /\ scaledSupply[u2][usd] = 0 /\ scaledBorrow[u2][col] = 0
    /\ price[usd] = 10 /\ ~paused

MCSymmetry == Permutations(Users)
=============================================================================
