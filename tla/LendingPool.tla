----------------------------- MODULE LendingPool -----------------------------
(***************************************************************************)
(* contracts/core/CentryLendingPool.sol with the rate curve of             *)
(* contracts/core/CentryInterestRateStrategy.sol.  A transaction is one    *)
(* action (nonReentrant, and reserves are plain ERC-20s); one that reverts *)
(* is disabled.  Amounts are integers with the code's rounding: `\div' is  *)
(* Solidity's `/'.  The tokens' own ledgers are external: the pool's       *)
(* balance is kept, and a payer has what it approves.  Subtractions are     *)
(* checked: one that would go below zero reverts.                          *)
(***************************************************************************)
EXTENDS Integers, FiniteSets, Functions

CONSTANTS
    Assets, Users,
    Params,         \* risk parameters the owner may choose, valid or not
    Amounts,        \* amounts passed to the calls
    Prices,         \* oracle answers; 0 stands for a call that reverts too (stale)
    Unit,           \* Unit[a] = 10 ** decimals
    Ray, Wad, Bps,  \* fixed-point units: 1e27, 1e18, 10_000
    Year,           \* 365 days
    MaxUint,        \* type(uint256).max, "everything"
    Base, Slope1, Slope2, Kink, MaxRate,    \* the rate strategy
    MaxElapsed,     \* bound: longest time a reserve is left alone
    MaxIndex,       \* bound: no time passes once an index exceeds it
    MaxCash         \* bound: the supply of a token, the most the pool can hold

ASSUME UnitsAssumption ==
    /\ Ray \in Nat \ {0} /\ Wad \in Nat \ {0} /\ Bps \in Nat \ {0} /\ Year \in Nat \ {0}
    /\ MaxUint \in Nat /\ Wad <= MaxUint /\ Amounts \subseteq Nat /\ Prices \subseteq Nat
    /\ Unit \in [Assets -> Nat \ {0}]

\* reservesList is an array, and finitely many accounts have called the pool.
ASSUME FiniteAssumption == IsFiniteSet(Assets) /\ IsFiniteSet(Users)

\* The constructor of CentryInterestRateStrategy.
ASSUME RateAssumption ==
    /\ Base \in Nat /\ Slope1 \in Nat /\ Slope2 \in Nat
    /\ Kink \in 1 .. Wad - 1 /\ MaxRate \in Nat \ {0}
    /\ Base + Slope1 + Slope2 <= MaxRate

RiskParams == [ltv : Nat, lt : Nat, bonus : Nat, factor : Nat, supplyCap : Nat, borrowCap : Nat]

ASSUME ParamsAssumption == Params \subseteq RiskParams

VARIABLES
    config,         \* risk parameters of each reserve, NoReserve before addReserve
    reserve,        \* indexes, scaled totals, and the time since lastAccrual
    scaledSupply,   \* scaledSupply[user][asset]
    scaledBorrow,   \* scaledBorrow[user][asset]
    cash,           \* IERC20(asset).balanceOf(pool)
    price,          \* what the oracle answers
    paused

vars == <<config, reserve, scaledSupply, scaledBorrow, cash, price, paused>>

NoReserve == [ltv |-> 0, lt |-> 0, bonus |-> 0, factor |-> 0, supplyCap |-> 0, borrowCap |-> 0]
Active(a) == config[a] # NoReserve

Init ==
    /\ config = [a \in Assets |-> NoReserve]
    /\ reserve = [a \in Assets |-> [liquidityIndex |-> 0, borrowIndex |-> 0, elapsed |-> 0,
                                    totalScaledSupply |-> 0, totalScaledBorrow |-> 0]]
    /\ scaledSupply = [u \in Users |-> [a \in Assets |-> 0]]
    /\ scaledBorrow = [u \in Users |-> [a \in Assets |-> 0]]
    /\ cash = [a \in Assets |-> 0]
    /\ price \in [Assets -> Prices]
    /\ paused = FALSE

-----------------------------------------------------------------------------
(* Interest *)

Lesser(m, n) == IF m < n THEN m ELSE n

Scaled(amount, index) == (amount * index) \div Ray

\* Mistake: rounded down.
ToScaledDown(amount, index) == (amount * Ray) \div index

ToScaledUp(amount, index) == (amount * Ray + index - 1) \div index

Utilization(borrowed, available) ==
    IF borrowed = 0 THEN 0 ELSE (borrowed * Wad) \div (available + borrowed)

BorrowRate(utilization) ==
    IF utilization <= Kink
    THEN Base + (Slope1 * utilization) \div Kink
    ELSE Base + Slope1 + (Slope2 * (utilization - Kink)) \div (Wad - Kink)

CurrentSupply(r) == Scaled(r.totalScaledSupply, r.liquidityIndex)
CurrentBorrows(r) == Scaled(r.totalScaledBorrow, r.borrowIndex)

UtilizationOf(a) == Utilization(CurrentBorrows(reserve[a]), cash[a])

\* Mistake: suppliers earn the borrowers' rate on all they supplied.
ProjectFullRate(a) ==
    LET rate == BorrowRate(UtilizationOf(a))
    IN  (reserve[a].liquidityIndex * (Wad + (rate * reserve[a].elapsed) \div Year)) \div Wad

ProjectLiquidityIndex(a) ==
    LET used == UtilizationOf(a)
        supplyRate == (BorrowRate(used) * used * (Bps - config[a].factor)) \div (Wad * Bps)
    IN  (reserve[a].liquidityIndex * (Wad + (supplyRate * reserve[a].elapsed) \div Year)) \div Wad

ProjectBorrowIndex(a) ==
    LET rate == BorrowRate(UtilizationOf(a))
    IN  (reserve[a].borrowIndex * (Wad + (rate * reserve[a].elapsed) \div Year)) \div Wad

\* _accrue: the reserve every operation on it starts from.
Accrued(a) ==
    [reserve[a] EXCEPT !.liquidityIndex = ProjectLiquidityIndex(a),
                       !.borrowIndex = ProjectBorrowIndex(a),
                       !.elapsed = 0]

-----------------------------------------------------------------------------
(* What a user owns and owes, at the indexes a transaction sees *)

Collateral(ss, u, a) == Scaled(ss[u][a], ProjectLiquidityIndex(a))
Debt(sb, u, a) == Scaled(sb[u][a], ProjectBorrowIndex(a))
Reserves == {a \in Assets : Active(a)}

AssetValue(a, amount) == (amount * price[a]) \div Unit[a]
AmountFromValue(a, value) == (value * Unit[a]) \div price[a]

DebtPriced(sb, u) == \A a \in Reserves : Debt(sb, u, a) # 0 => price[a] # 0
CollateralPriced(ss, u) == \A a \in Reserves : Collateral(ss, u, a) # 0 => price[a] # 0

DebtValue(sb, u) == SumFunction([a \in Reserves |-> AssetValue(a, Debt(sb, u, a))])

AdjustedCollateral(ss, u) ==
    SumFunction([a \in Reserves |-> (AssetValue(a, Collateral(ss, u, a)) * config[a].lt) \div Bps])

BorrowPower(ss, u) ==
    SumFunction([a \in Reserves |-> (AssetValue(a, Collateral(ss, u, a)) * config[a].ltv) \div Bps])

HealthFactor(ss, sb, u) ==
    IF DebtValue(sb, u) = 0 THEN MaxUint
    ELSE (AdjustedCollateral(ss, u) * Wad) \div DebtValue(sb, u)

\* healthFactor does not revert.
Priced(ss, sb, u) == DebtPriced(sb, u) /\ (DebtValue(sb, u) # 0 => CollateralPriced(ss, u))

Healthy(u) ==
    /\ Priced(scaledSupply, scaledBorrow, u)
    /\ HealthFactor(scaledSupply, scaledBorrow, u) >= Wad

Liquidatable(u) ==
    /\ Priced(scaledSupply, scaledBorrow, u)
    /\ HealthFactor(scaledSupply, scaledBorrow, u) < Wad

-----------------------------------------------------------------------------
(* Owner *)

ValidRiskParams(p) ==
    /\ p.ltv > 0 /\ p.ltv <= p.lt /\ p.lt < Bps
    /\ p.bonus >= Bps /\ p.bonus <= (12 * Bps) \div 10 /\ p.factor <= (3 * Bps) \div 10
    /\ p.supplyCap > 0 /\ p.borrowCap > 0 /\ p.borrowCap <= p.supplyCap

AddReserve(a, p) ==
    /\ ~Active(a) /\ ValidRiskParams(p)
    /\ config' = [config EXCEPT ![a] = p]
    /\ reserve' = [reserve EXCEPT ![a] = [liquidityIndex |-> Ray, borrowIndex |-> Ray, elapsed |-> 0,
                                          totalScaledSupply |-> 0, totalScaledBorrow |-> 0]]
    /\ UNCHANGED <<scaledSupply, scaledBorrow, cash, price, paused>>

\* The reserve factor stays.
SetReserveRiskParams(a, p) ==
    /\ Active(a) /\ ValidRiskParams([p EXCEPT !.factor = config[a].factor])
    /\ config' = [config EXCEPT ![a] = [p EXCEPT !.factor = config[a].factor]]
    /\ UNCHANGED <<reserve, scaledSupply, scaledBorrow, cash, price, paused>>

SetPaused == /\ paused' = ~paused
             /\ UNCHANGED <<config, reserve, scaledSupply, scaledBorrow, cash, price>>

Available(a, r) == cash[a] + CurrentBorrows(r) - CurrentSupply(r)

SweepProtocolFees(a, amount) ==
    LET r == Accrued(a)
        requested == IF amount = MaxUint THEN Available(a, r) ELSE amount
    IN  /\ Active(a) /\ ~paused
        /\ requested > 0 /\ requested <= Available(a, r)
        /\ requested <= cash[a]
        /\ cash' = [cash EXCEPT ![a] = @ - requested]
        /\ reserve' = [reserve EXCEPT ![a] = r]
        /\ UNCHANGED <<config, scaledSupply, scaledBorrow, price, paused>>

-----------------------------------------------------------------------------
(* Users *)

Supply(u, a, amount) ==
    LET r == Accrued(a)
        scaled == ToScaledUp(amount, r.liquidityIndex)
    IN  /\ Active(a) /\ ~paused /\ amount > 0
        /\ CurrentSupply(r) + amount <= config[a].supplyCap
        /\ cash[a] + amount <= MaxCash
        /\ cash' = [cash EXCEPT ![a] = @ + amount]
        /\ scaledSupply' = [scaledSupply EXCEPT ![u][a] = @ + scaled]
        /\ reserve' = [reserve EXCEPT ![a] = [r EXCEPT !.totalScaledSupply = @ + scaled]]
        /\ UNCHANGED <<config, scaledBorrow, price, paused>>

\* Mistake: the health check is on the position before the withdrawal.
WithdrawChecking(u, a, amount) ==
    LET r == Accrued(a)
        balance == Scaled(scaledSupply[u][a], r.liquidityIndex)
        withdrawn == IF amount = MaxUint THEN balance ELSE amount
        scaled == Lesser(ToScaledUp(withdrawn, r.liquidityIndex), scaledSupply[u][a])
    IN  /\ Active(a) /\ ~paused
        /\ withdrawn > 0 /\ withdrawn <= balance /\ withdrawn <= cash[a]
        /\ scaled <= r.totalScaledSupply
        /\ Healthy(u)
        /\ scaledSupply' = [scaledSupply EXCEPT ![u][a] = @ - scaled]
        /\ reserve' = [reserve EXCEPT ![a] = [r EXCEPT !.totalScaledSupply = @ - scaled]]
        /\ cash' = [cash EXCEPT ![a] = @ - withdrawn]
        /\ UNCHANGED <<config, scaledBorrow, price, paused>>

Withdraw(u, a, amount) ==
    LET r == Accrued(a)
        balance == Scaled(scaledSupply[u][a], r.liquidityIndex)
        withdrawn == IF amount = MaxUint THEN balance ELSE amount
        scaled == Lesser(ToScaledUp(withdrawn, r.liquidityIndex), scaledSupply[u][a])
        ss == [scaledSupply EXCEPT ![u][a] = @ - scaled]
    IN  /\ Active(a) /\ ~paused
        /\ withdrawn > 0 /\ withdrawn <= balance /\ withdrawn <= cash[a]
        /\ scaled <= r.totalScaledSupply
        /\ Priced(ss, scaledBorrow, u)
        /\ HealthFactor(ss, scaledBorrow, u) >= Wad
        /\ scaledSupply' = ss
        /\ reserve' = [reserve EXCEPT ![a] = [r EXCEPT !.totalScaledSupply = @ - scaled]]
        /\ cash' = [cash EXCEPT ![a] = @ - withdrawn]
        /\ UNCHANGED <<config, scaledBorrow, price, paused>>

\* Mistake: nobody looks whether the pool has that much.
BorrowBeyondCash(u, a, amount) ==
    LET r == Accrued(a)
        scaled == ToScaledUp(amount, r.borrowIndex)
        sb == [scaledBorrow EXCEPT ![u][a] = @ + scaled]
    IN  /\ Active(a) /\ ~paused /\ amount > 0
        /\ CurrentBorrows(r) + amount <= config[a].borrowCap
        /\ DebtPriced(sb, u) /\ CollateralPriced(scaledSupply, u)
        /\ DebtValue(sb, u) <= BorrowPower(scaledSupply, u)
        /\ scaledBorrow' = sb
        /\ reserve' = [reserve EXCEPT ![a] = [r EXCEPT !.totalScaledBorrow = @ + scaled]]
        /\ cash' = [cash EXCEPT ![a] = @ - amount]
        /\ UNCHANGED <<config, scaledSupply, price, paused>>

Borrow(u, a, amount) ==
    LET r == Accrued(a)
        scaled == ToScaledUp(amount, r.borrowIndex)
        sb == [scaledBorrow EXCEPT ![u][a] = @ + scaled]
    IN  /\ Active(a) /\ ~paused /\ amount > 0
        /\ CurrentBorrows(r) + amount <= config[a].borrowCap
        /\ amount <= cash[a]
        /\ DebtPriced(sb, u) /\ CollateralPriced(scaledSupply, u)
        /\ DebtValue(sb, u) <= BorrowPower(scaledSupply, u)
        /\ scaledBorrow' = sb
        /\ reserve' = [reserve EXCEPT ![a] = [r EXCEPT !.totalScaledBorrow = @ + scaled]]
        /\ cash' = [cash EXCEPT ![a] = @ - amount]
        /\ UNCHANGED <<config, scaledSupply, price, paused>>

\* Mistake: the debt is scaled back with the index from before the accrual.
RepayStaleIndex(u, a, amount) ==
    LET r == Accrued(a)
        debt == Scaled(scaledBorrow[u][a], r.borrowIndex)
        repaid == IF amount = MaxUint THEN debt ELSE amount
        scaled == Lesser(ToScaledUp(repaid, reserve[a].borrowIndex), scaledBorrow[u][a])
    IN  /\ Active(a)
        /\ repaid > 0 /\ repaid <= debt /\ cash[a] + repaid <= MaxCash
        /\ scaled <= r.totalScaledBorrow
        /\ cash' = [cash EXCEPT ![a] = @ + repaid]
        /\ scaledBorrow' = [scaledBorrow EXCEPT ![u][a] = @ - scaled]
        /\ reserve' = [reserve EXCEPT ![a] = [r EXCEPT !.totalScaledBorrow = @ - scaled]]
        /\ UNCHANGED <<config, scaledSupply, price, paused>>

\* repay and repayFor, which work while paused; u is the borrower.
Repay(u, a, amount) ==
    LET r == Accrued(a)
        debt == Scaled(scaledBorrow[u][a], r.borrowIndex)
        repaid == IF amount = MaxUint THEN debt ELSE amount
        scaled == Lesser(ToScaledUp(repaid, r.borrowIndex), scaledBorrow[u][a])
    IN  /\ Active(a)
        /\ repaid > 0 /\ repaid <= debt /\ cash[a] + repaid <= MaxCash
        /\ scaled <= r.totalScaledBorrow
        /\ cash' = [cash EXCEPT ![a] = @ + repaid]
        /\ scaledBorrow' = [scaledBorrow EXCEPT ![u][a] = @ - scaled]
        /\ reserve' = [reserve EXCEPT ![a] = [r EXCEPT !.totalScaledBorrow = @ - scaled]]
        /\ UNCHANGED <<config, scaledSupply, price, paused>>

\* Mistake: the repayment is not recomputed when the collateral runs out.
QuoteAnyway(c, d, u, amount) ==
    LET wanted == Lesser(amount, Debt(scaledBorrow, u, d) \div 2)
        seize == (AssetValue(d, wanted) * config[c].bonus * Unit[c]) \div (price[c] * Bps)
    IN  [repay |-> wanted, seize |-> seize]

\* _buildLiquidationQuote: at most half the debt, for collateral worth that
\* much and the bonus, or all the collateral for what it is worth.
Quote(c, d, u, amount) ==
    LET maxRepay == Debt(scaledBorrow, u, d) \div 2
        wanted == Lesser(amount, maxRepay)
        seize == (AssetValue(d, wanted) * config[c].bonus * Unit[c]) \div (price[c] * Bps)
        held == Collateral(scaledSupply, u, c)
        worth == (((held * price[c]) \div Unit[c]) * Bps) \div config[c].bonus
    IN  IF seize <= held
        THEN [repay |-> wanted, seize |-> seize]
        ELSE [repay |-> Lesser(AmountFromValue(d, worth), maxRepay), seize |-> held]

\* Mistake: both reserves are worked on as copies and written back, which loses
\* the first when they are the same.
LiquidateCopies(c, d, u, amount) ==
    LET rc == Accrued(c)
        rd == Accrued(d)
        quote == Quote(c, d, u, amount)
        debtScaled == Lesser(ToScaledUp(quote.repay, rd.borrowIndex), scaledBorrow[u][d])
        collateralScaled == Lesser(ToScaledUp(quote.seize, rc.liquidityIndex), scaledSupply[u][c])
        paid == [cash EXCEPT ![d] = @ + quote.repay]
    IN  /\ Active(c) /\ Active(d) /\ ~paused /\ amount > 0
        /\ Liquidatable(u) /\ price[c] # 0 /\ price[d] # 0
        /\ quote.repay > 0 /\ quote.seize > 0
        /\ paid[d] <= MaxCash /\ quote.seize <= paid[c]
        /\ debtScaled <= rd.totalScaledBorrow /\ collateralScaled <= rc.totalScaledSupply
        /\ scaledBorrow' = [scaledBorrow EXCEPT ![u][d] = @ - debtScaled]
        /\ scaledSupply' = [scaledSupply EXCEPT ![u][c] = @ - collateralScaled]
        /\ reserve' = [reserve EXCEPT ![d] = [rd EXCEPT !.totalScaledBorrow = @ - debtScaled],
                                      ![c] = [rc EXCEPT !.totalScaledSupply = @ - collateralScaled]]
        /\ cash' = [paid EXCEPT ![c] = @ - quote.seize]
        /\ UNCHANGED <<config, price, paused>>

Liquidate(c, d, u, amount) ==
    LET rc == Accrued(c)
        rd == Accrued(d)
        quote == Quote(c, d, u, amount)
        debtScaled == Lesser(ToScaledUp(quote.repay, rd.borrowIndex), scaledBorrow[u][d])
        collateralScaled == Lesser(ToScaledUp(quote.seize, rc.liquidityIndex), scaledSupply[u][c])
        paid == [cash EXCEPT ![d] = @ + quote.repay]
    IN  /\ Active(c) /\ Active(d) /\ ~paused /\ amount > 0
        /\ Liquidatable(u) /\ price[c] # 0 /\ price[d] # 0
        /\ quote.repay > 0 /\ quote.seize > 0
        /\ paid[d] <= MaxCash /\ quote.seize <= paid[c]
        /\ debtScaled <= rd.totalScaledBorrow /\ collateralScaled <= rc.totalScaledSupply
        /\ scaledBorrow' = [scaledBorrow EXCEPT ![u][d] = @ - debtScaled]
        /\ scaledSupply' = [scaledSupply EXCEPT ![u][c] = @ - collateralScaled]
        /\ reserve' = [[reserve EXCEPT ![c] = rc, ![d] = rd]
                          EXCEPT ![d].totalScaledBorrow = @ - debtScaled,
                                 ![c].totalScaledSupply = @ - collateralScaled]
        /\ cash' = [paid EXCEPT ![c] = @ - quote.seize]
        /\ UNCHANGED <<config, price, paused>>

-----------------------------------------------------------------------------
(* The surroundings *)

SetPrice(a, p) ==
    /\ price' = [price EXCEPT ![a] = p]
    /\ UNCHANGED <<config, reserve, scaledSupply, scaledBorrow, cash, paused>>

\* Tokens sent to the pool outside any of its functions.
Donate(a, amount) ==
    /\ cash[a] + amount <= MaxCash
    /\ cash' = [cash EXCEPT ![a] = @ + amount]
    /\ UNCHANGED <<config, reserve, scaledSupply, scaledBorrow, price, paused>>

\* block.timestamp moves on, for all reserves alike.
Advance ==
    /\ \A a \in Reserves : /\ reserve[a].elapsed < MaxElapsed
                           /\ ProjectBorrowIndex(a) <= MaxIndex
    /\ reserve' = [a \in Assets |-> IF Active(a) THEN [reserve[a] EXCEPT !.elapsed = @ + 1]
                                    ELSE reserve[a]]
    /\ UNCHANGED <<config, scaledSupply, scaledBorrow, cash, price, paused>>

Next ==
    \/ \E a \in Assets, p \in Params : AddReserve(a, p) \/ SetReserveRiskParams(a, p)
    \/ SetPaused
    \/ \E a \in Assets, n \in Amounts : SweepProtocolFees(a, n) \/ Donate(a, n)
    \/ \E u \in Users, a \in Assets, n \in Amounts :
          Supply(u, a, n) \/ Withdraw(u, a, n) \/ Borrow(u, a, n) \/ Repay(u, a, n)
    \/ \E u \in Users, c, d \in Assets, n \in Amounts : Liquidate(c, d, u, n)
    \/ \E a \in Assets, p \in Prices : SetPrice(a, p)
    \/ Advance

Spec == Init /\ [][Next]_vars

-----------------------------------------------------------------------------
(* Properties *)

ReserveState == [liquidityIndex : Nat, borrowIndex : Nat, elapsed : Nat,
                 totalScaledSupply : Nat, totalScaledBorrow : Nat]

TypeOK ==
    /\ config \in [Assets -> RiskParams]
    /\ reserve \in [Assets -> ReserveState]
    /\ scaledSupply \in [Users -> [Assets -> Nat]]
    /\ scaledBorrow \in [Users -> [Assets -> Nat]]
    /\ cash \in [Assets -> Nat]
    /\ price \in [Assets -> Prices]
    /\ paused \in BOOLEAN

\* The totals of a reserve are the sums of what its users hold and owe: every
\* operation changes a user's position and the total by the same scaled amount,
\* so that no exit reverts because a total has fallen behind.
TotalsAreSums ==
    \A a \in Assets :
      /\ reserve[a].totalScaledSupply = SumFunction([u \in Users |-> scaledSupply[u][a]])
      /\ reserve[a].totalScaledBorrow = SumFunction([u \in Users |-> scaledBorrow[u][a]])

\* What a reserve is short of, in units of 1 / Ray, at given indexes.
Shortfall(a, supplyIndex, borrowIndex) ==
    reserve[a].totalScaledSupply * supplyIndex
      - (cash[a] * Ray + reserve[a].totalScaledBorrow * borrowIndex)

StoredShortfall(a) == Shortfall(a, reserve[a].liquidityIndex, reserve[a].borrowIndex)
AccruedShortfall(a) == Shortfall(a, ProjectLiquidityIndex(a), ProjectBorrowIndex(a))

CostsLessThanAUnit(a) ==
    \E before \in {0, AccruedShortfall(a)}, index \in {reserve'[a].liquidityIndex, reserve'[a].borrowIndex} :
       StoredShortfall(a)' < before + index

\* A call rounds against the pool by less than one scaled unit: whatever it pays
\* out or books, the shortfall of a reserve it leaves up to date is below what it
\* was with interest booked, or below nothing, plus the larger index.
RoundingBounded ==
    [][\A a \in Assets : Active(a)' /\ reserve'[a].elapsed = 0 => CostsLessThanAUnit(a)]_vars

\* Borrowers pay for what suppliers earn: a reserve that can pay everyone now can
\* still do so when interest is booked, up to the truncations of _accrue (each
\* growth factor, the borrow index, and the one of the borrowed amount).
InterestCovered ==
    \A a \in Reserves :
      StoredShortfall(a) <= 0 =>
        LET r == reserve[a]
            growth == (BorrowRate(UtilizationOf(a)) * r.elapsed) \div Year
        IN  AccruedShortfall(a) <= r.totalScaledBorrow + ((r.totalScaledBorrow * r.borrowIndex) \div Wad)
                                     + ((Ray * (growth + 1)) \div Wad) + 2

\* No call, of the user or of anyone else, turns a position that is healthy and
\* priced into one that can be liquidated: only prices, risk parameters, time
\* and tokens sent past the functions (they move the projected indexes) do.
HealthKept ==
    [][/\ price' = price
       /\ \A a \in Assets : Active(a) => config'[a] = config[a]
       /\ reserve' # reserve /\ \A a \in Assets : reserve'[a].elapsed <= reserve[a].elapsed
       => \A u \in Users : Healthy(u) => ~Liquidatable(u)']_vars

\* A liquidation repays no more than was offered and than half the debt, and
\* takes no more collateral than the user has and than the repaid value with
\* the bonus buys, up to one unit of debt and the truncations of the values.
LiquidationFair ==
    \A u \in Users, c, d \in Reserves, n \in Amounts \ {0} :
      price[c] # 0 /\ price[d] # 0 =>
        LET quote == Quote(c, d, u, n)
            worth == (quote.seize * price[c]) \div Unit[c]
            paid == ((quote.repay + 1) * price[d]) \div Unit[d] + 1
        IN  /\ quote.repay <= n
            /\ 2 * quote.repay <= Debt(scaledBorrow, u, d)
            /\ quote.seize <= Collateral(scaledSupply, u, c)
            /\ worth * Bps <= paid * config[c].bonus

\* Repaying the whole debt, or withdrawing the whole balance, leaves no scaled
\* amount behind: a position that reads zero is zero.
FullExitClears ==
    \A u \in Users, a \in Reserves :
      /\ ToScaledUp(Debt(scaledBorrow, u, a), ProjectBorrowIndex(a)) = scaledBorrow[u][a]
      /\ ToScaledUp(Collateral(scaledSupply, u, a), ProjectLiquidityIndex(a)) = scaledSupply[u][a]
=============================================================================
