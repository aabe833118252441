------------------------- MODULE LendingPoolProofs -------------------------
(***************************************************************************)
(* Proofs about LendingPool, for any assets, users, units and parameters:  *)
(* types and indexes, that a full exit leaves nothing behind, that a call  *)
(* costs a reserve less than one scaled unit, that liquidations are fair,  *)
(* that totals are the sums of the positions, that no call makes a healthy *)
(* position liquidatable, and that borrowers pay what suppliers earn.      *)
(***************************************************************************)
EXTENDS LendingPool, FiniteSums

\* The inductive invariant: types, and an active reserve has indexes of at least
\* Ray and risk parameters that were validated.
PoolInv ==
    /\ TypeOK
    /\ \A a \in Reserves : /\ reserve[a].liquidityIndex >= Ray /\ reserve[a].borrowIndex >= Ray
                           /\ config[a].factor <= Bps /\ config[a].bonus >= Bps

-----------------------------------------------------------------------------
(* Arithmetic *)

\* What an integer division leaves.
LEMMA Division ==
    ASSUME NEW x \in Int, NEW y \in Nat \ {0}
    PROVE  /\ x \div y \in Int
           /\ y * (x \div y) <= x /\ x < y * (x \div y) + y
           /\ x >= 0 => x \div y \in Nat
  BY SMT

\* A quotient below a bound.
LEMMA QuotientBelow ==
    ASSUME NEW q \in Int, NEW z \in Int, NEW y \in Nat \ {0}, y * q < y * z + y
    PROVE  q <= z
<1>1. SUFFICES ASSUME q >= z + 1 PROVE FALSE
  OBVIOUS
<1>2. y * q >= y * (z + 1)
  BY <1>1, SMT
<1> QED BY <1>2, SMT

\* _toScaledUp: the scaled amount is worth the amount, and less than an index more.
LEMMA ScaledUp ==
    ASSUME NEW amount \in Nat, NEW index \in Nat \ {0}
    PROVE  /\ ToScaledUp(amount, index) \in Nat
           /\ amount * Ray <= index * ToScaledUp(amount, index)
           /\ index * ToScaledUp(amount, index) < amount * Ray + index
<1> DEFINE x == amount * Ray + index - 1
<1>1. amount * Ray \in Nat
  BY UnitsAssumption, SMT
<1>2. x \in Nat
  BY <1>1
<1>3. ToScaledUp(amount, index) = x \div index
  BY DEF ToScaledUp
<1> HIDE DEF x
<1>4. /\ x \div index \in Nat /\ index * (x \div index) <= x /\ x < index * (x \div index) + index
  BY <1>2, Division, SMT
<1> QED BY <1>1, <1>3, <1>4, SMT DEF x

\* A scaled amount read at an index of at least Ray, and scaled back, is itself.
LEMMA RoundTrip ==
    ASSUME NEW s \in Nat, NEW index \in Nat, index >= Ray
    PROVE  ToScaledUp(Scaled(s, index), index) = s
<1> DEFINE f == Scaled(s, index)
           k == ToScaledUp(f, index)
<1>1. index \in Nat \ {0} /\ s * index \in Nat /\ Ray \in Nat \ {0}
  BY UnitsAssumption, SMT
<1>2. f \in Nat /\ Ray * f <= s * index /\ s * index < Ray * f + Ray
  BY <1>1, Division, SMT DEF Scaled
<1> HIDE DEF f
<1>3. k \in Nat /\ f * Ray <= index * k /\ index * k < f * Ray + index
  BY <1>1, <1>2, ScaledUp
<1> HIDE DEF k
<1>4. f * Ray = Ray * f /\ s * index = index * s
  BY <1>1, <1>2, SMT
<1>5. k <= s
  <2>1. index * k < index * s + index
    BY <1>1, <1>2, <1>3, <1>4, SMT
  <2> QED BY <2>1, <1>1, <1>3, QuotientBelow
<1>6. s <= k
  <2>1. index * s < index * k + index
    BY <1>1, <1>2, <1>3, <1>4, SMT
  <2> QED BY <2>1, <1>1, <1>3, QuotientBelow
<1>7. k = s
  BY <1>3, <1>5, <1>6
<1> QED BY <1>7 DEF f, k

\* Interest never lowers an index, and no time leaves it alone.
LEMMA Grown ==
    ASSUME NEW index \in Nat, NEW growth \in Nat
    PROVE  /\ (index * (Wad + growth)) \div Wad \in Nat
           /\ (index * (Wad + growth)) \div Wad >= index
           /\ growth = 0 => (index * (Wad + growth)) \div Wad = index
<1> DEFINE x == index * (Wad + growth)
           q == x \div Wad
<1>1. Wad \in Nat \ {0} /\ index * growth \in Nat /\ Wad * index \in Nat
  BY UnitsAssumption, SMT
<1>2. x = Wad * index + index * growth
  BY <1>1, SMT
<1>3. x \in Nat
  BY <1>1, <1>2
<1> HIDE DEF x
<1>4. q \in Nat /\ Wad * q <= x /\ x < Wad * q + Wad
  BY <1>1, <1>3, Division, SMT
<1> HIDE DEF q
<1>5. index <= q
  <2>1. Wad * index < Wad * q + Wad
    BY <1>1, <1>2, <1>3, <1>4, SMT
  <2> QED BY <2>1, <1>1, <1>4, QuotientBelow
<1>6. growth = 0 => q <= index
  <2>1. growth = 0 => Wad * q < Wad * index + Wad
    BY <1>1, <1>2, <1>4, SMT
  <2> QED BY <2>1, <1>1, <1>4, QuotientBelow
<1>7. q \in Nat /\ q >= index /\ (growth = 0 => q = index)
  BY <1>4, <1>5, <1>6
<1> QED BY <1>7 DEF q, x

-----------------------------------------------------------------------------
(* Interest *)

LEMMA RateNat ==
    ASSUME NEW u \in Nat
    PROVE  BorrowRate(u) \in Nat
<1>1. CASE u <= Kink
  <2>1. Slope1 * u \in Nat /\ Kink \in Nat \ {0}
    BY RateAssumption, UnitsAssumption, SMT
  <2>2. (Slope1 * u) \div Kink \in Nat
    BY <2>1, Division
  <2> QED BY <1>1, <2>2, RateAssumption DEF BorrowRate
<1>2. CASE ~(u <= Kink)
  <2>1. Slope2 * (u - Kink) \in Nat /\ Wad - Kink \in Nat \ {0}
    BY <1>2, RateAssumption, UnitsAssumption, SMT
  <2>2. (Slope2 * (u - Kink)) \div (Wad - Kink) \in Nat
    BY <2>1, Division
  <2> QED BY <1>2, <2>2, RateAssumption DEF BorrowRate
<1> QED BY <1>1, <1>2

LEMMA UtilizationNat ==
    ASSUME NEW b \in Nat, NEW c \in Nat
    PROVE  Utilization(b, c) \in Nat
<1>1. CASE b = 0
  BY <1>1 DEF Utilization
<1>2. CASE b # 0
  <2>1. b * Wad \in Nat /\ c + b \in Nat \ {0}
    BY <1>2, UnitsAssumption, SMT
  <2> QED BY <1>2, <2>1, Division DEF Utilization
<1> QED BY <1>1, <1>2

\* Projected indexes are natural numbers no smaller than the stored ones, and the
\* stored ones when no time has passed.
LEMMA Projected ==
    ASSUME PoolInv, NEW a \in Reserves
    PROVE  /\ ProjectLiquidityIndex(a) \in Nat /\ ProjectBorrowIndex(a) \in Nat
           /\ ProjectLiquidityIndex(a) >= reserve[a].liquidityIndex
           /\ ProjectBorrowIndex(a) >= reserve[a].borrowIndex
           /\ reserve[a].elapsed = 0 => /\ ProjectLiquidityIndex(a) = reserve[a].liquidityIndex
                                        /\ ProjectBorrowIndex(a) = reserve[a].borrowIndex
<1> DEFINE used == UtilizationOf(a)
           rate == BorrowRate(used)
           supplyRate == (rate * used * (Bps - config[a].factor)) \div (Wad * Bps)
           e == reserve[a].elapsed
<1>0. /\ a \in Assets /\ reserve[a] \in ReserveState /\ cash[a] \in Nat /\ config[a] \in RiskParams
      /\ config[a].factor <= Bps
  BY DEF PoolInv, TypeOK, Reserves
<1>1. used \in Nat
  <2>1. reserve[a].totalScaledBorrow * reserve[a].borrowIndex \in Nat
    BY <1>0, SMT DEF ReserveState
  <2>2. CurrentBorrows(reserve[a]) \in Nat
    BY <2>1, UnitsAssumption, Division DEF CurrentBorrows, Scaled
  <2> QED BY <2>2, <1>0, UtilizationNat DEF UtilizationOf
<1>2. rate \in Nat
  BY <1>1, RateNat
<1> HIDE DEF used, rate
<1>3. supplyRate \in Nat
  <2>1. Bps - config[a].factor \in Nat /\ Wad * Bps \in Nat \ {0} /\ rate * used \in Nat
    BY <1>0, <1>1, <1>2, UnitsAssumption, SMT DEF RiskParams
  <2>2. rate * used * (Bps - config[a].factor) \in Nat
    BY <2>1, SMT
  <2> QED BY <2>1, <2>2, Division
<1> HIDE DEF supplyRate
<1>4. e \in Nat /\ Year \in Nat \ {0} /\ rate * e \in Nat /\ supplyRate * e \in Nat
  BY <1>0, <1>2, <1>3, UnitsAssumption, SMT DEF ReserveState
<1>5. (rate * e) \div Year \in Nat /\ (supplyRate * e) \div Year \in Nat
  BY <1>4, Division
<1>6. e = 0 => (rate * e) \div Year = 0 /\ (supplyRate * e) \div Year = 0
  BY <1>2, <1>3, UnitsAssumption, SMT
<1>7. ProjectLiquidityIndex(a) = (reserve[a].liquidityIndex * (Wad + (supplyRate * e) \div Year)) \div Wad
  BY DEF ProjectLiquidityIndex, supplyRate, rate, used
<1>8. ProjectBorrowIndex(a) = (reserve[a].borrowIndex * (Wad + (rate * e) \div Year)) \div Wad
  BY DEF ProjectBorrowIndex, rate, used
<1>9. reserve[a].liquidityIndex \in Nat /\ reserve[a].borrowIndex \in Nat
  BY <1>0 DEF ReserveState
<1> DEFINE g1 == (supplyRate * e) \div Year
           g2 == (rate * e) \div Year
<1>10. /\ g1 \in Nat /\ g2 \in Nat /\ (e = 0 => g1 = 0 /\ g2 = 0)
       /\ ProjectLiquidityIndex(a) = (reserve[a].liquidityIndex * (Wad + g1)) \div Wad
       /\ ProjectBorrowIndex(a) = (reserve[a].borrowIndex * (Wad + g2)) \div Wad
  BY <1>5, <1>6, <1>7, <1>8
<1> HIDE DEF g1, g2
<1>11. /\ ProjectLiquidityIndex(a) \in Nat /\ ProjectLiquidityIndex(a) >= reserve[a].liquidityIndex
       /\ g1 = 0 => ProjectLiquidityIndex(a) = reserve[a].liquidityIndex
  BY <1>9, <1>10, Grown
<1>12. /\ ProjectBorrowIndex(a) \in Nat /\ ProjectBorrowIndex(a) >= reserve[a].borrowIndex
       /\ g2 = 0 => ProjectBorrowIndex(a) = reserve[a].borrowIndex
  BY <1>9, <1>10, Grown
<1> QED BY <1>10, <1>11, <1>12

\* What every operation on a reserve starts from.
LEMMA AccruedState ==
    ASSUME PoolInv, NEW a \in Reserves
    PROVE  /\ Accrued(a).liquidityIndex = ProjectLiquidityIndex(a)
           /\ Accrued(a).borrowIndex = ProjectBorrowIndex(a)
           /\ Accrued(a).elapsed = 0
           /\ Accrued(a).totalScaledSupply = reserve[a].totalScaledSupply
           /\ Accrued(a).totalScaledBorrow = reserve[a].totalScaledBorrow
           /\ Accrued(a) \in ReserveState
           /\ Accrued(a).liquidityIndex >= Ray /\ Accrued(a).borrowIndex >= Ray
<1>1. reserve[a] \in ReserveState /\ reserve[a].liquidityIndex >= Ray /\ reserve[a].borrowIndex >= Ray
  BY DEF PoolInv, TypeOK, Reserves
<1>2. /\ ProjectLiquidityIndex(a) \in Nat /\ ProjectLiquidityIndex(a) >= Ray
      /\ ProjectBorrowIndex(a) \in Nat /\ ProjectBorrowIndex(a) >= Ray
  BY <1>1, Projected, UnitsAssumption DEF ReserveState
<1> QED BY <1>1, <1>2 DEF Accrued, ReserveState

\* Replacing one reserve by a well-formed one whose indexes are large enough
\* keeps the invariant.
LEMMA ReserveReplaced ==
    ASSUME PoolInv, NEW a \in Reserves, NEW r \in ReserveState,
           r.liquidityIndex >= Ray, r.borrowIndex >= Ray,
           reserve' = [reserve EXCEPT ![a] = r],
           scaledSupply' \in [Users -> [Assets -> Nat]],
           scaledBorrow' \in [Users -> [Assets -> Nat]],
           cash' \in [Assets -> Nat],
           UNCHANGED <<config, price, paused>>
    PROVE  PoolInv'
<1>1. TypeOK'
  BY DEF PoolInv, TypeOK, Reserves
<1>2. \A b \in Reserves' : b \in Reserves /\ config'[b] = config[b]
                           /\ reserve'[b] = IF b = a THEN r ELSE reserve[b]
  BY DEF PoolInv, TypeOK, Reserves, Active
<1> QED BY <1>1, <1>2 DEF PoolInv

-----------------------------------------------------------------------------
(* The invariant *)

LEMMA PoolInit == Init => PoolInv
<1> SUFFICES ASSUME Init PROVE PoolInv
  OBVIOUS
<1>1. NoReserve \in RiskParams
  BY DEF NoReserve, RiskParams
<1>2. TypeOK
  BY <1>1 DEF Init, TypeOK, ReserveState
<1>3. Reserves = {}
  BY DEF Init, Reserves, Active
<1> QED BY <1>2, <1>3 DEF PoolInv

LEMMA ValidFactor ==
    ASSUME NEW p \in RiskParams, ValidRiskParams(p)
    PROVE  p.factor <= Bps /\ p.bonus >= Bps /\ p # NoReserve
<1>1. (3 * Bps) \div 10 <= Bps
  BY UnitsAssumption, SMT
<1> QED BY <1>1, UnitsAssumption DEF ValidRiskParams, RiskParams, NoReserve

LEMMA PoolOwner ==
    ASSUME PoolInv, NEW a \in Assets, NEW p \in Params,
           AddReserve(a, p) \/ SetReserveRiskParams(a, p)
    PROVE  PoolInv'
<1>0. p \in RiskParams /\ config \in [Assets -> RiskParams] /\ config[a] \in RiskParams /\ reserve \in [Assets -> ReserveState]
  BY ParamsAssumption DEF PoolInv, TypeOK
<1>1. CASE AddReserve(a, p)
  <2> DEFINE fresh == [liquidityIndex |-> Ray, borrowIndex |-> Ray, elapsed |-> 0,
                       totalScaledSupply |-> 0, totalScaledBorrow |-> 0]
  <2>1. /\ config' = [config EXCEPT ![a] = p] /\ reserve' = [reserve EXCEPT ![a] = fresh]
        /\ UNCHANGED <<scaledSupply, scaledBorrow, cash, price, paused>> /\ ValidRiskParams(p)
    BY <1>1 DEF AddReserve
  <2>2. fresh \in ReserveState /\ fresh.liquidityIndex = Ray /\ fresh.borrowIndex = Ray
    BY UnitsAssumption DEF ReserveState
  <2> HIDE DEF fresh
  <2>3. TypeOK'
    BY <1>0, <2>1, <2>2 DEF PoolInv, TypeOK
  <2>4. \A b \in Reserves' : /\ b # a => b \in Reserves /\ config'[b] = config[b] /\ reserve'[b] = reserve[b]
                             /\ b = a => config'[b] = p /\ reserve'[b] = fresh
    BY <1>0, <2>1 DEF Reserves, Active
  <2>5. Ray \in Nat /\ p.factor <= Bps /\ p.bonus >= Bps
    BY <1>0, <2>1, ValidFactor, UnitsAssumption
  <2> QED BY <2>2, <2>3, <2>4, <2>5 DEF PoolInv
<1>2. CASE SetReserveRiskParams(a, p)
  <2> DEFINE q == [p EXCEPT !.factor = config[a].factor]
  <2>1. /\ config' = [config EXCEPT ![a] = q] /\ a \in Reserves /\ ValidRiskParams(q)
        /\ UNCHANGED <<reserve, scaledSupply, scaledBorrow, cash, price, paused>>
    BY <1>2 DEF SetReserveRiskParams, Reserves
  <2>2. q \in RiskParams
    BY <1>0 DEF RiskParams
  <2> HIDE DEF q
  <2>3. TypeOK'
    BY <1>0, <2>1, <2>2 DEF PoolInv, TypeOK
  <2>4. \A b \in Reserves' : /\ b \in Reserves /\ reserve'[b] = reserve[b]
                             /\ config'[b] = IF b = a THEN q ELSE config[b]
    BY <1>0, <2>1 DEF Reserves, Active
  <2>5. q.factor <= Bps /\ q.bonus >= Bps
    BY <2>1, <2>2, ValidFactor
  <2> QED BY <2>3, <2>4, <2>5 DEF PoolInv
<1> QED BY <1>1, <1>2

LEMMA PoolSweep ==
    ASSUME PoolInv, NEW a \in Assets, NEW n \in Amounts, SweepProtocolFees(a, n)
    PROVE  PoolInv'
<1> DEFINE r == Accrued(a)
           requested == IF n = MaxUint THEN Available(a, r) ELSE n
<1>1. /\ a \in Reserves /\ requested > 0 /\ requested <= cash[a]
      /\ cash' = [cash EXCEPT ![a] = @ - requested] /\ reserve' = [reserve EXCEPT ![a] = r]
      /\ UNCHANGED <<config, scaledSupply, scaledBorrow, price, paused>>
  BY DEF SweepProtocolFees, Reserves
<1>2. r \in ReserveState /\ r.liquidityIndex >= Ray /\ r.borrowIndex >= Ray
  BY <1>1, AccruedState
<1>3. requested \in Int
  <2>1. /\ CurrentBorrows(r) \in Int /\ CurrentSupply(r) \in Int
    <3>1. r.totalScaledBorrow * r.borrowIndex \in Int /\ r.totalScaledSupply * r.liquidityIndex \in Int
      BY <1>2, SMT DEF ReserveState
    <3> QED BY <3>1, UnitsAssumption, Division DEF CurrentBorrows, CurrentSupply, Scaled
  <2> QED BY <2>1, UnitsAssumption DEF PoolInv, TypeOK, Available
<1> HIDE DEF r, requested
<1>4. cash' \in [Assets -> Nat]
  BY <1>1, <1>3 DEF PoolInv, TypeOK
<1>5. scaledSupply' \in [Users -> [Assets -> Nat]] /\ scaledBorrow' \in [Users -> [Assets -> Nat]]
  BY <1>1 DEF PoolInv, TypeOK
<1> QED BY <1>1, <1>2, <1>4, <1>5, ReserveReplaced

LEMMA PoolSupply ==
    ASSUME PoolInv, NEW u \in Users, NEW a \in Assets, NEW n \in Amounts, Supply(u, a, n)
    PROVE  PoolInv'
<1> DEFINE r == Accrued(a)
           scaled == ToScaledUp(n, r.liquidityIndex)
           r2 == [r EXCEPT !.totalScaledSupply = @ + scaled]
<1>1. /\ a \in Reserves /\ reserve' = [reserve EXCEPT ![a] = r2]
      /\ cash' = [cash EXCEPT ![a] = @ + n]
      /\ scaledSupply' = [scaledSupply EXCEPT ![u][a] = @ + scaled]
      /\ UNCHANGED <<config, scaledBorrow, price, paused>>
  BY DEF Supply, Reserves
<1>2. r \in ReserveState /\ r.liquidityIndex >= Ray /\ r.borrowIndex >= Ray
  BY <1>1, AccruedState
<1>3. n \in Nat /\ r.liquidityIndex \in Nat \ {0}
  BY <1>2, UnitsAssumption DEF ReserveState
<1>4. scaled \in Nat
  BY <1>3, ScaledUp
<1> HIDE DEF r, scaled
<1>5. r2 \in ReserveState /\ r2.liquidityIndex >= Ray /\ r2.borrowIndex >= Ray
  BY <1>2, <1>4 DEF ReserveState
<1> HIDE DEF r2
<1>6. /\ scaledSupply' \in [Users -> [Assets -> Nat]] /\ scaledBorrow' \in [Users -> [Assets -> Nat]]
      /\ cash' \in [Assets -> Nat]
  BY <1>1, <1>3, <1>4 DEF PoolInv, TypeOK
<1> QED BY <1>1, <1>5, <1>6, ReserveReplaced

LEMMA PoolBorrow ==
    ASSUME PoolInv, NEW u \in Users, NEW a \in Assets, NEW n \in Amounts, Borrow(u, a, n)
    PROVE  PoolInv'
<1> DEFINE r == Accrued(a)
           scaled == ToScaledUp(n, r.borrowIndex)
           r2 == [r EXCEPT !.totalScaledBorrow = @ + scaled]
<1>1. /\ a \in Reserves /\ reserve' = [reserve EXCEPT ![a] = r2] /\ n <= cash[a]
      /\ cash' = [cash EXCEPT ![a] = @ - n]
      /\ scaledBorrow' = [scaledBorrow EXCEPT ![u][a] = @ + scaled]
      /\ UNCHANGED <<config, scaledSupply, price, paused>>
  BY DEF Borrow, Reserves
<1>2. r \in ReserveState /\ r.liquidityIndex >= Ray /\ r.borrowIndex >= Ray
  BY <1>1, AccruedState
<1>3. n \in Nat /\ r.borrowIndex \in Nat \ {0}
  BY <1>2, UnitsAssumption DEF ReserveState
<1>4. scaled \in Nat
  BY <1>3, ScaledUp
<1> HIDE DEF r, scaled
<1>5. r2 \in ReserveState /\ r2.liquidityIndex >= Ray /\ r2.borrowIndex >= Ray
  BY <1>2, <1>4 DEF ReserveState
<1> HIDE DEF r2
<1>6. /\ scaledSupply' \in [Users -> [Assets -> Nat]] /\ scaledBorrow' \in [Users -> [Assets -> Nat]]
      /\ cash' \in [Assets -> Nat]
  BY <1>1, <1>3, <1>4 DEF PoolInv, TypeOK
<1> QED BY <1>1, <1>5, <1>6, ReserveReplaced

LEMMA LesserNat ==
    ASSUME NEW m \in Nat, NEW n \in Nat
    PROVE  Lesser(m, n) \in Nat /\ Lesser(m, n) <= m /\ Lesser(m, n) <= n
  BY DEF Lesser

LEMMA ScaledNat ==
    ASSUME NEW s \in Nat, NEW index \in Nat
    PROVE  Scaled(s, index) \in Nat
<1>1. s * index \in Nat
  BY SMT
<1> QED BY <1>1, UnitsAssumption, Division DEF Scaled

LEMMA PoolWithdraw ==
    ASSUME PoolInv, NEW u \in Users, NEW a \in Assets, NEW n \in Amounts, Withdraw(u, a, n)
    PROVE  PoolInv'
<1> DEFINE r == Accrued(a)
           balance == Scaled(scaledSupply[u][a], r.liquidityIndex)
           withdrawn == IF n = MaxUint THEN balance ELSE n
           scaled == Lesser(ToScaledUp(withdrawn, r.liquidityIndex), scaledSupply[u][a])
           r2 == [r EXCEPT !.totalScaledSupply = @ - scaled]
<1>1. /\ a \in Reserves /\ reserve' = [reserve EXCEPT ![a] = r2]
      /\ withdrawn <= cash[a] /\ scaled <= r.totalScaledSupply
      /\ cash' = [cash EXCEPT ![a] = @ - withdrawn]
      /\ scaledSupply' = [scaledSupply EXCEPT ![u][a] = @ - scaled]
      /\ UNCHANGED <<config, scaledBorrow, price, paused>>
  BY DEF Withdraw, Reserves
<1>2. r \in ReserveState /\ r.liquidityIndex >= Ray /\ r.borrowIndex >= Ray
  BY <1>1, AccruedState
<1>3. n \in Nat /\ r.liquidityIndex \in Nat \ {0} /\ scaledSupply[u][a] \in Nat
  BY <1>2, UnitsAssumption DEF ReserveState, PoolInv, TypeOK
<1>4. withdrawn \in Nat
  BY <1>3, ScaledNat
<1>5. scaled \in Nat /\ scaled <= scaledSupply[u][a]
  BY <1>3, <1>4, ScaledUp, LesserNat
<1> HIDE DEF r, withdrawn, scaled
<1>6. r2 \in ReserveState /\ r2.liquidityIndex >= Ray /\ r2.borrowIndex >= Ray
  BY <1>1, <1>2, <1>5 DEF ReserveState
<1> HIDE DEF r2
<1>7. /\ scaledSupply' \in [Users -> [Assets -> Nat]] /\ scaledBorrow' \in [Users -> [Assets -> Nat]]
      /\ cash' \in [Assets -> Nat]
  BY <1>1, <1>3, <1>4, <1>5 DEF PoolInv, TypeOK
<1> QED BY <1>1, <1>6, <1>7, ReserveReplaced

LEMMA PoolRepay ==
    ASSUME PoolInv, NEW u \in Users, NEW a \in Assets, NEW n \in Amounts, Repay(u, a, n)
    PROVE  PoolInv'
<1> DEFINE r == Accrued(a)
           debt == Scaled(scaledBorrow[u][a], r.borrowIndex)
           repaid == IF n = MaxUint THEN debt ELSE n
           scaled == Lesser(ToScaledUp(repaid, r.borrowIndex), scaledBorrow[u][a])
           r2 == [r EXCEPT !.totalScaledBorrow = @ - scaled]
<1>1. /\ a \in Reserves /\ reserve' = [reserve EXCEPT ![a] = r2] /\ scaled <= r.totalScaledBorrow
      /\ cash' = [cash EXCEPT ![a] = @ + repaid]
      /\ scaledBorrow' = [scaledBorrow EXCEPT ![u][a] = @ - scaled]
      /\ UNCHANGED <<config, scaledSupply, price, paused>>
  BY DEF Repay, Reserves
<1>2. r \in ReserveState /\ r.liquidityIndex >= Ray /\ r.borrowIndex >= Ray
  BY <1>1, AccruedState
<1>3. n \in Nat /\ r.borrowIndex \in Nat \ {0} /\ scaledBorrow[u][a] \in Nat
  BY <1>2, UnitsAssumption DEF ReserveState, PoolInv, TypeOK
<1>4. repaid \in Nat
  BY <1>3, ScaledNat
<1>5. scaled \in Nat /\ scaled <= scaledBorrow[u][a]
  BY <1>3, <1>4, ScaledUp, LesserNat
<1> HIDE DEF r, repaid, scaled
<1>6. r2 \in ReserveState /\ r2.liquidityIndex >= Ray /\ r2.borrowIndex >= Ray
  BY <1>1, <1>2, <1>5 DEF ReserveState
<1> HIDE DEF r2
<1>7. /\ scaledSupply' \in [Users -> [Assets -> Nat]] /\ scaledBorrow' \in [Users -> [Assets -> Nat]]
      /\ cash' \in [Assets -> Nat]
  BY <1>1, <1>3, <1>4, <1>5 DEF PoolInv, TypeOK
<1> QED BY <1>1, <1>6, <1>7, ReserveReplaced

\* The values a liquidation computes with.
LEMMA ValueNat ==
    ASSUME PoolInv, NEW a \in Assets, NEW n \in Nat
    PROVE  AssetValue(a, n) \in Nat /\ price[a] \in Nat /\ Unit[a] \in Nat \ {0}
<1>1. price[a] \in Nat /\ Unit[a] \in Nat \ {0}
  BY UnitsAssumption DEF PoolInv, TypeOK
<1>2. n * price[a] \in Nat
  BY <1>1, SMT
<1> QED BY <1>1, <1>2, Division DEF AssetValue

LEMMA PositionNat ==
    ASSUME PoolInv, NEW u \in Users, NEW a \in Reserves
    PROVE  Debt(scaledBorrow, u, a) \in Nat /\ Collateral(scaledSupply, u, a) \in Nat
<1>1. /\ ProjectLiquidityIndex(a) \in Nat /\ ProjectBorrowIndex(a) \in Nat
      /\ scaledSupply[u][a] \in Nat /\ scaledBorrow[u][a] \in Nat
  BY Projected DEF PoolInv, TypeOK, Reserves
<1> QED BY <1>1, ScaledNat DEF Debt, Collateral

LEMMA QuoteNat ==
    ASSUME PoolInv, NEW u \in Users, NEW c \in Reserves, NEW d \in Reserves, NEW n \in Nat,
           price[c] # 0, price[d] # 0
    PROVE  /\ Quote(c, d, u, n).repay \in Nat
           /\ Quote(c, d, u, n).seize \in Nat
<1> DEFINE maxRepay == Debt(scaledBorrow, u, d) \div 2
           wanted == Lesser(n, maxRepay)
           value == AssetValue(d, wanted)
           seize == (value * config[c].bonus * Unit[c]) \div (price[c] * Bps)
           held == Collateral(scaledSupply, u, c)
           heldValue == (held * price[c]) \div Unit[c]
           worth == (heldValue * Bps) \div config[c].bonus
           back == (worth * Unit[d]) \div price[d]
<1>1. maxRepay \in Nat /\ held \in Nat /\ c \in Assets /\ d \in Assets /\ config[c] \in RiskParams
      /\ config[c].bonus \in Nat \ {0} /\ Bps \in Nat \ {0}
  <2>1. Debt(scaledBorrow, u, d) \in Nat /\ held \in Nat
    BY PositionNat
  <2>2. c \in Assets /\ d \in Assets /\ config[c] \in RiskParams /\ config[c].bonus >= Bps
    BY DEF PoolInv, TypeOK, Reserves
  <2>3. maxRepay \in Nat
    BY <2>1, Division
  <2> QED BY <2>1, <2>2, <2>3, UnitsAssumption DEF RiskParams
<1> HIDE DEF maxRepay, held
<1>2. wanted \in Nat
  BY <1>1, LesserNat
<1> HIDE DEF wanted
<1>3. /\ value \in Nat /\ price[c] \in Nat \ {0} /\ price[d] \in Nat \ {0}
      /\ Unit[c] \in Nat \ {0} /\ Unit[d] \in Nat \ {0}
  BY <1>1, <1>2, ValueNat
<1> HIDE DEF value
<1>4. seize \in Nat
  <2>1. value * config[c].bonus \in Nat /\ price[c] * Bps \in Nat \ {0}
    BY <1>1, <1>3, SMT
  <2>2. value * config[c].bonus * Unit[c] \in Nat
    BY <2>1, <1>3, SMT
  <2> QED BY <2>1, <2>2, Division
<1>5. heldValue \in Nat
  <2>1. held * price[c] \in Nat
    BY <1>1, <1>3, SMT
  <2> QED BY <2>1, <1>3, Division
<1> HIDE DEF heldValue
<1>6. worth \in Nat
  <2>1. heldValue * Bps \in Nat
    BY <1>1, <1>5, SMT
  <2> QED BY <2>1, <1>1, Division
<1> HIDE DEF worth
<1>7. back \in Nat /\ Lesser(back, maxRepay) \in Nat
  <2>1. worth * Unit[d] \in Nat
    BY <1>3, <1>6, SMT
  <2>2. back \in Nat
    BY <2>1, <1>3, Division
  <2> QED BY <2>2, <1>1, LesserNat
<1>8. Quote(c, d, u, n) = IF seize <= held THEN [repay |-> wanted, seize |-> seize]
                          ELSE [repay |-> Lesser(back, maxRepay), seize |-> held]
  BY DEF Quote, AmountFromValue, maxRepay, wanted, value, held, heldValue, worth
<1> QED BY <1>1, <1>2, <1>4, <1>7, <1>8

LEMMA PoolLiquidate ==
    ASSUME PoolInv, NEW u \in Users, NEW c \in Assets, NEW d \in Assets, NEW n \in Amounts,
           Liquidate(c, d, u, n)
    PROVE  PoolInv'
<1> DEFINE rc == Accrued(c)
           rd == Accrued(d)
           quote == Quote(c, d, u, n)
           debtScaled == Lesser(ToScaledUp(quote.repay, rd.borrowIndex), scaledBorrow[u][d])
           collateralScaled == Lesser(ToScaledUp(quote.seize, rc.liquidityIndex), scaledSupply[u][c])
           paid == [cash EXCEPT ![d] = @ + quote.repay]
           both == [reserve EXCEPT ![c] = rc, ![d] = rd]
<1>1. /\ c \in Reserves /\ d \in Reserves /\ price[c] # 0 /\ price[d] # 0
      /\ quote.seize <= paid[c]
      /\ debtScaled <= rd.totalScaledBorrow /\ collateralScaled <= rc.totalScaledSupply
      /\ scaledBorrow' = [scaledBorrow EXCEPT ![u][d] = @ - debtScaled]
      /\ scaledSupply' = [scaledSupply EXCEPT ![u][c] = @ - collateralScaled]
      /\ reserve' = [both EXCEPT ![d].totalScaledBorrow = @ - debtScaled,
                                 ![c].totalScaledSupply = @ - collateralScaled]
      /\ cash' = [paid EXCEPT ![c] = @ - quote.seize]
      /\ UNCHANGED <<config, price, paused>>
  BY DEF Liquidate, Reserves
<1>2. /\ rc \in ReserveState /\ rc.liquidityIndex >= Ray /\ rc.borrowIndex >= Ray
      /\ rd \in ReserveState /\ rd.liquidityIndex >= Ray /\ rd.borrowIndex >= Ray
      /\ c = d => rc = rd
  BY <1>1, AccruedState
<1>3. /\ rc.liquidityIndex \in Nat \ {0} /\ rd.borrowIndex \in Nat \ {0}
      /\ scaledBorrow[u][d] \in Nat /\ scaledSupply[u][c] \in Nat
  BY <1>2, UnitsAssumption DEF ReserveState, PoolInv, TypeOK
<1>4. quote.repay \in Nat /\ quote.seize \in Nat
  BY <1>1, UnitsAssumption, QuoteNat
<1>5. /\ debtScaled \in Nat /\ debtScaled <= scaledBorrow[u][d]
      /\ collateralScaled \in Nat /\ collateralScaled <= scaledSupply[u][c]
  BY <1>3, <1>4, ScaledUp, LesserNat
<1> HIDE DEF rc, rd, quote, debtScaled, collateralScaled
<1>6. scaledSupply' \in [Users -> [Assets -> Nat]] /\ scaledBorrow' \in [Users -> [Assets -> Nat]]
  BY <1>1, <1>3, <1>5 DEF PoolInv, TypeOK
<1>7. paid \in [Assets -> Nat]
  BY <1>4 DEF PoolInv, TypeOK
<1> HIDE DEF paid
<1>8. cash' \in [Assets -> Nat]
  BY <1>1, <1>4, <1>7
<1>9. /\ both \in [Assets -> ReserveState]
      /\ both[c] = rc /\ both[d] = rd /\ \A b \in Assets \ {c, d} : both[b] = reserve[b]
  BY <1>1, <1>2 DEF PoolInv, TypeOK
<1> HIDE DEF both
<1>10. /\ reserve' \in [Assets -> ReserveState]
       /\ \A b \in Assets : /\ reserve'[b].liquidityIndex = both[b].liquidityIndex
                            /\ reserve'[b].borrowIndex = both[b].borrowIndex
  BY <1>1, <1>2, <1>5, <1>9 DEF ReserveState
<1>11. TypeOK'
  BY <1>1, <1>6, <1>8, <1>10 DEF PoolInv, TypeOK
<1>12. \A b \in Reserves' : /\ b \in Reserves /\ config'[b] = config[b]
                            /\ both[b].liquidityIndex >= Ray /\ both[b].borrowIndex >= Ray
  BY <1>1, <1>2, <1>9 DEF Reserves, Active, PoolInv
<1> QED BY <1>10, <1>11, <1>12 DEF PoolInv, Reserves

LEMMA PoolAround ==
    ASSUME PoolInv,
           SetPaused \/ Advance \/ (\E a \in Assets, n \in Amounts : Donate(a, n))
                     \/ (\E a \in Assets, p \in Prices : SetPrice(a, p))
    PROVE  PoolInv'
<1>1. CASE Advance
  <2>1. ASSUME NEW a \in Assets
        PROVE  /\ reserve'[a] \in ReserveState
               /\ reserve'[a].liquidityIndex = reserve[a].liquidityIndex
               /\ reserve'[a].borrowIndex = reserve[a].borrowIndex
    <3>1. reserve[a] \in ReserveState
      BY DEF PoolInv, TypeOK
    <3>2. reserve'[a] = IF Active(a) THEN [reserve[a] EXCEPT !.elapsed = @ + 1] ELSE reserve[a]
      BY <1>1 DEF Advance
    <3> QED BY <3>1, <3>2 DEF ReserveState
  <2>2. \E f : reserve' = [a \in Assets |-> f[a]]
    <3>1. reserve' = [a \in Assets |-> reserve'[a]]
      BY <1>1 DEF Advance
    <3> QED BY <3>1
  <2>3. reserve' \in [Assets -> ReserveState]
    BY <2>1, <2>2
  <2>4. TypeOK' /\ Reserves' = Reserves /\ config' = config
    BY <1>1, <2>3 DEF Advance, PoolInv, TypeOK, Reserves, Active
  <2> QED BY <2>1, <2>4 DEF PoolInv, Reserves
<1>2. CASE SetPaused
  BY <1>2 DEF SetPaused, PoolInv, TypeOK, Reserves, Active
<1>3. CASE \E a \in Assets, n \in Amounts : Donate(a, n)
  <2>1. cash' \in [Assets -> Nat] /\ UNCHANGED <<config, reserve, scaledSupply, scaledBorrow, price, paused>>
    BY <1>3, UnitsAssumption DEF Donate, PoolInv, TypeOK
  <2> QED BY <2>1 DEF PoolInv, TypeOK, Reserves, Active
<1>4. CASE \E a \in Assets, p \in Prices : SetPrice(a, p)
  <2>1. price' \in [Assets -> Prices] /\ UNCHANGED <<config, reserve, scaledSupply, scaledBorrow, cash, paused>>
    BY <1>4 DEF SetPrice, PoolInv, TypeOK
  <2> QED BY <2>1 DEF PoolInv, TypeOK, Reserves, Active
<1> QED BY <1>1, <1>2, <1>3, <1>4

LEMMA PoolNext == PoolInv /\ [Next]_vars => PoolInv'
<1> SUFFICES ASSUME PoolInv, [Next]_vars PROVE PoolInv'
  OBVIOUS
<1>1. CASE UNCHANGED vars
  BY <1>1 DEF vars, PoolInv, TypeOK, Reserves, Active
<1>2. CASE \E a \in Assets, p \in Params : AddReserve(a, p) \/ SetReserveRiskParams(a, p)
  BY <1>2, PoolOwner
<1>3. CASE \E a \in Assets, n \in Amounts : SweepProtocolFees(a, n)
  BY <1>3, PoolSweep
<1>4. CASE \E u \in Users, a \in Assets, n \in Amounts :
             Supply(u, a, n) \/ Withdraw(u, a, n) \/ Borrow(u, a, n) \/ Repay(u, a, n)
  BY <1>4, PoolSupply, PoolWithdraw, PoolBorrow, PoolRepay
<1>5. CASE \E u \in Users, c, d \in Assets, n \in Amounts : Liquidate(c, d, u, n)
  BY <1>5, PoolLiquidate
<1>6. CASE SetPaused \/ Advance \/ (\E a \in Assets, n \in Amounts : Donate(a, n))
                     \/ (\E a \in Assets, p \in Prices : SetPrice(a, p))
  BY <1>6, PoolAround
<1> QED BY <1>1, <1>2, <1>3, <1>4, <1>5, <1>6 DEF Next

LEMMA PoolInvariant == Spec => []PoolInv
<1> QED BY PoolInit, PoolNext, PTL DEF Spec

\* Balances, totals, indexes and the pool's tokens are natural numbers in every
\* reachable state: no call takes out more than there is.
THEOREM PoolTypeCorrect == Spec => []TypeOK
<1>1. PoolInv => TypeOK
  BY DEF PoolInv
<1> QED BY <1>1, PoolInvariant, PTL

\* A full repayment or withdrawal clears the scaled amount, at any indexes.
THEOREM FullExitCorrect == Spec => []FullExitClears
<1>1. PoolInv => FullExitClears
  <2> SUFFICES ASSUME PoolInv, NEW u \in Users, NEW a \in Reserves
               PROVE  /\ ToScaledUp(Debt(scaledBorrow, u, a), ProjectBorrowIndex(a)) = scaledBorrow[u][a]
                      /\ ToScaledUp(Collateral(scaledSupply, u, a), ProjectLiquidityIndex(a)) = scaledSupply[u][a]
    BY DEF FullExitClears
  <2>1. /\ scaledBorrow[u][a] \in Nat /\ scaledSupply[u][a] \in Nat
        /\ reserve[a].liquidityIndex >= Ray /\ reserve[a].borrowIndex >= Ray
        /\ reserve[a].liquidityIndex \in Nat /\ reserve[a].borrowIndex \in Nat
    BY DEF PoolInv, TypeOK, Reserves, ReserveState
  <2>2. /\ ProjectBorrowIndex(a) \in Nat /\ ProjectBorrowIndex(a) >= Ray
        /\ ProjectLiquidityIndex(a) \in Nat /\ ProjectLiquidityIndex(a) >= Ray
    BY <2>1, Projected, UnitsAssumption
  <2> QED BY <2>1, <2>2, RoundTrip DEF Debt, Collateral
<1> QED BY <1>1, PoolInvariant, PTL

-----------------------------------------------------------------------------
(* Rounding *)

\* How a reserve's shortfall changes, from what changes in its parts.
LEMMA ShortfallChange ==
    ASSUME NEW S \in Int, NEW I \in Int, NEW C \in Int, NEW B \in Int, NEW J \in Int,
           NEW ds \in Int, NEW dc \in Int, NEW db \in Int, NEW m \in Int, NEW R \in Int,
           I * ds - R * dc - J * db < m
    PROVE  (S + ds) * I - ((C + dc) * R + (B + db) * J) < (S * I - (C * R + B * J)) + m
<1>1. /\ (S + ds) * I = S * I + I * ds
      /\ (C + dc) * R = C * R + R * dc
      /\ (B + db) * J = B * J + J * db
  BY SMT
<1>2. /\ S * I \in Int /\ I * ds \in Int /\ C * R \in Int /\ R * dc \in Int
      /\ B * J \in Int /\ J * db \in Int
  BY SMT
<1> HIDE DEF StoredShortfall
<1> QED BY <1>1, <1>2, SMT

\* A step that accrues a reserve and then books ds, dc and db costs it no more
\* than these cost.
LEMMA Booked ==
    ASSUME PoolInv, NEW a \in Reserves,
           NEW ds \in Int, NEW dc \in Int, NEW db \in Int,
           NEW I, I = ProjectLiquidityIndex(a), NEW J, J = ProjectBorrowIndex(a),
           reserve'[a].liquidityIndex = I, reserve'[a].borrowIndex = J,
           reserve'[a].totalScaledSupply = reserve[a].totalScaledSupply + ds,
           reserve'[a].totalScaledBorrow = reserve[a].totalScaledBorrow + db,
           cash'[a] = cash[a] + dc,
           \/ I * ds - Ray * dc - J * db < I
           \/ I * ds - Ray * dc - J * db < J
    PROVE  CostsLessThanAUnit(a)
<1>1. /\ reserve[a].totalScaledSupply \in Int /\ reserve[a].totalScaledBorrow \in Int /\ cash[a] \in Int
      /\ I \in Int /\ J \in Int /\ Ray \in Int
  BY Projected, UnitsAssumption DEF PoolInv, TypeOK, Reserves, ReserveState
<1>2. ASSUME NEW m \in {I, J}, I * ds - Ray * dc - J * db < m
      PROVE  StoredShortfall(a)' < AccruedShortfall(a) + m
  <2>1. StoredShortfall(a)' = (reserve[a].totalScaledSupply + ds) * I
                                - ((cash[a] + dc) * Ray + (reserve[a].totalScaledBorrow + db) * J)
    BY DEF StoredShortfall, Shortfall
  <2>2. AccruedShortfall(a) = reserve[a].totalScaledSupply * I
                                - (cash[a] * Ray + reserve[a].totalScaledBorrow * J)
    BY DEF AccruedShortfall, Shortfall
  <2>3. m \in Int
    BY <1>1
  <2> QED BY <1>1, <1>2, <2>1, <2>2, <2>3, ShortfallChange
<1> QED BY <1>2 DEF CostsLessThanAUnit

\* What leaves a position is worth at least what is paid for it, clamped or not.
LEMMA ExitCovers ==
    ASSUME NEW s \in Nat, NEW index \in Nat \ {0}, NEW w \in Nat, w <= Scaled(s, index)
    PROVE  Ray * w <= index * Lesser(ToScaledUp(w, index), s)
<1>1. w * Ray <= index * ToScaledUp(w, index) /\ ToScaledUp(w, index) \in Nat
  BY ScaledUp
<1>2. Ray * w <= index * s
  <2>1. s * index \in Nat
    BY SMT
  <2>2. Ray * Scaled(s, index) <= s * index /\ Scaled(s, index) \in Nat
    BY <2>1, UnitsAssumption, Division, ScaledNat DEF Scaled
  <2>3. Ray * w <= Ray * Scaled(s, index)
    BY <2>2, UnitsAssumption, SMT
  <2>4. Ray * w \in Nat /\ s * index = index * s
    BY UnitsAssumption, SMT
  <2> QED BY <2>1, <2>2, <2>3, <2>4, UnitsAssumption, SMT
<1>3. w * Ray = Ray * w
  BY UnitsAssumption, SMT
<1> QED BY <1>1, <1>2, <1>3 DEF Lesser

\* A repayment clears less than one scaled unit more than it pays for.
LEMMA RepaymentCovers ==
    ASSUME NEW s \in Nat, NEW index \in Nat \ {0}, NEW w \in Nat
    PROVE  index * Lesser(ToScaledUp(w, index), s) < Ray * w + index
<1> DEFINE up == ToScaledUp(w, index)
           l == Lesser(up, s)
<1>1. up \in Nat /\ index * up < w * Ray + index
  BY ScaledUp
<1>2. l \in Nat /\ l <= up
  BY <1>1, LesserNat
<1> HIDE DEF up, l
<1>3. index * l <= index * up /\ index * l \in Nat /\ index * up \in Nat
  BY <1>1, <1>2, SMT
<1>4. w * Ray = Ray * w /\ Ray * w \in Nat
  BY UnitsAssumption, SMT
<1>5. index * l < Ray * w + index
  BY <1>1, <1>3, <1>4
<1> QED BY <1>5 DEF l, up

\* A reserve that a step leaves alone, but for tokens coming in.
LEMMA LeftAlone ==
    ASSUME PoolInv, NEW a \in Reserves, reserve'[a] = reserve[a], reserve[a].elapsed = 0,
           NEW dc \in Nat, cash'[a] = cash[a] + dc
    PROVE  CostsLessThanAUnit(a)
<1>1. /\ reserve[a] \in ReserveState /\ reserve[a].liquidityIndex >= Ray
      /\ ProjectLiquidityIndex(a) = reserve[a].liquidityIndex
      /\ ProjectBorrowIndex(a) = reserve[a].borrowIndex
  BY Projected DEF PoolInv, TypeOK, Reserves
<1> DEFINE I == ProjectLiquidityIndex(a)
           J == ProjectBorrowIndex(a)
<1>2. I \in Nat \ {0} /\ J \in Nat
  BY <1>1, UnitsAssumption DEF ReserveState
<1>3. /\ reserve'[a].totalScaledSupply = reserve[a].totalScaledSupply + 0
      /\ reserve'[a].totalScaledBorrow = reserve[a].totalScaledBorrow + 0
      /\ reserve'[a].liquidityIndex = I /\ reserve'[a].borrowIndex = J
  BY <1>1 DEF ReserveState
<1>4. I * 0 - Ray * dc - J * 0 < I
  <2>1. Ray * dc \in Nat /\ I * 0 = 0 /\ J * 0 = 0
    BY <1>2, UnitsAssumption, SMT
  <2> HIDE DEF I, J
  <2> QED BY <1>2, <2>1, SMT
<1> HIDE DEF I, J
<1>5. I = ProjectLiquidityIndex(a) /\ J = ProjectBorrowIndex(a)
  BY DEF I, J
<1>6. 0 \in Int /\ dc \in Int
  OBVIOUS
<1> QED BY <1>3, <1>4, <1>5, <1>6, Booked

LEMMA RoundSupply ==
    ASSUME PoolInv, NEW u \in Users, NEW a \in Assets, NEW n \in Amounts, Supply(u, a, n)
    PROVE  CostsLessThanAUnit(a)
<1> DEFINE r == Accrued(a)
           scaled == ToScaledUp(n, r.liquidityIndex)
           I == ProjectLiquidityIndex(a)
           J == ProjectBorrowIndex(a)
<1>1. /\ a \in Reserves /\ cash' = [cash EXCEPT ![a] = @ + n]
      /\ reserve' = [reserve EXCEPT ![a] = [r EXCEPT !.totalScaledSupply = @ + scaled]]
  BY DEF Supply, Reserves
<1>2. /\ r \in ReserveState /\ r.liquidityIndex >= Ray /\ r.liquidityIndex = I /\ r.borrowIndex = J
      /\ r.totalScaledSupply = reserve[a].totalScaledSupply
      /\ r.totalScaledBorrow = reserve[a].totalScaledBorrow
  BY <1>1, AccruedState
<1>3. n \in Nat /\ I \in Nat \ {0} /\ J \in Nat
  BY <1>2, UnitsAssumption DEF ReserveState
<1>4. scaled \in Nat /\ I * scaled < n * Ray + I
  BY <1>2, <1>3, ScaledUp
<1> HIDE DEF r, scaled, I, J
<1>5. /\ reserve'[a].liquidityIndex = I /\ reserve'[a].borrowIndex = J
      /\ reserve'[a].totalScaledSupply = reserve[a].totalScaledSupply + scaled
      /\ reserve'[a].totalScaledBorrow = reserve[a].totalScaledBorrow + 0
      /\ cash'[a] = cash[a] + n
  BY <1>1, <1>2, <1>4 DEF PoolInv, TypeOK, ReserveState
<1>6. I * scaled - Ray * n - J * 0 < I
  <2>1. n * Ray = Ray * n /\ Ray * n \in Nat /\ J * 0 = 0 /\ I * scaled \in Nat
    BY <1>3, <1>4, UnitsAssumption, SMT
  <2> QED BY <2>1, <1>3, <1>4, SMT
<1>7. scaled \in Int /\ n \in Int /\ 0 \in Int /\ I = ProjectLiquidityIndex(a) /\ J = ProjectBorrowIndex(a)
  BY <1>3, <1>4 DEF I, J
<1> QED BY <1>1, <1>5, <1>6, <1>7, Booked

LEMMA RoundWithdraw ==
    ASSUME PoolInv, NEW u \in Users, NEW a \in Assets, NEW n \in Amounts, Withdraw(u, a, n)
    PROVE  CostsLessThanAUnit(a)
<1> DEFINE r == Accrued(a)
           I == ProjectLiquidityIndex(a)
           J == ProjectBorrowIndex(a)
           balance == Scaled(scaledSupply[u][a], r.liquidityIndex)
           w == IF n = MaxUint THEN balance ELSE n
           scaled == Lesser(ToScaledUp(w, r.liquidityIndex), scaledSupply[u][a])
<1>1. /\ a \in Reserves /\ w <= balance /\ cash' = [cash EXCEPT ![a] = @ - w]
      /\ reserve' = [reserve EXCEPT ![a] = [r EXCEPT !.totalScaledSupply = @ - scaled]]
  BY DEF Withdraw, Reserves
<1>2. /\ r \in ReserveState /\ r.liquidityIndex >= Ray /\ r.liquidityIndex = I /\ r.borrowIndex = J
      /\ r.totalScaledSupply = reserve[a].totalScaledSupply
      /\ r.totalScaledBorrow = reserve[a].totalScaledBorrow
  BY <1>1, AccruedState
<1>3. n \in Nat /\ I \in Nat \ {0} /\ J \in Nat /\ scaledSupply[u][a] \in Nat
  BY <1>2, UnitsAssumption DEF ReserveState, PoolInv, TypeOK
<1>4. w \in Nat
  BY <1>2, <1>3, ScaledNat
<1>5. scaled \in Nat /\ Ray * w <= I * scaled
  BY <1>1, <1>2, <1>3, <1>4, ScaledUp, LesserNat, ExitCovers
<1> HIDE DEF r, balance, w, scaled, I, J
<1>6. /\ reserve'[a].liquidityIndex = I /\ reserve'[a].borrowIndex = J
      /\ reserve'[a].totalScaledSupply = reserve[a].totalScaledSupply + (-scaled)
      /\ reserve'[a].totalScaledBorrow = reserve[a].totalScaledBorrow + 0
      /\ cash'[a] = cash[a] + (-w)
  BY <1>1, <1>2, <1>4, <1>5 DEF PoolInv, TypeOK, ReserveState
<1>7. I * (-scaled) - Ray * (-w) - J * 0 < I
  <2>1. I * (-scaled) = -(I * scaled) /\ Ray * (-w) = -(Ray * w) /\ J * 0 = 0
        /\ I * scaled \in Nat /\ Ray * w \in Nat
    BY <1>3, <1>4, <1>5, UnitsAssumption, SMT
  <2> QED BY <2>1, <1>3, <1>5, SMT
<1>8. -scaled \in Int /\ -w \in Int /\ 0 \in Int /\ I = ProjectLiquidityIndex(a) /\ J = ProjectBorrowIndex(a)
  BY <1>4, <1>5 DEF I, J
<1> QED BY <1>1, <1>6, <1>7, <1>8, Booked

LEMMA RoundBorrow ==
    ASSUME PoolInv, NEW u \in Users, NEW a \in Assets, NEW n \in Amounts, Borrow(u, a, n)
    PROVE  CostsLessThanAUnit(a)
<1> DEFINE r == Accrued(a)
           scaled == ToScaledUp(n, r.borrowIndex)
           I == ProjectLiquidityIndex(a)
           J == ProjectBorrowIndex(a)
<1>1. /\ a \in Reserves /\ cash' = [cash EXCEPT ![a] = @ - n]
      /\ reserve' = [reserve EXCEPT ![a] = [r EXCEPT !.totalScaledBorrow = @ + scaled]]
  BY DEF Borrow, Reserves
<1>2. /\ r \in ReserveState /\ r.liquidityIndex >= Ray /\ r.borrowIndex >= Ray
      /\ r.liquidityIndex = I /\ r.borrowIndex = J
      /\ r.totalScaledSupply = reserve[a].totalScaledSupply
      /\ r.totalScaledBorrow = reserve[a].totalScaledBorrow
  BY <1>1, AccruedState
<1>3. n \in Nat /\ I \in Nat \ {0} /\ J \in Nat \ {0}
  BY <1>2, UnitsAssumption DEF ReserveState
<1>4. scaled \in Nat /\ n * Ray <= J * scaled
  BY <1>2, <1>3, ScaledUp
<1> HIDE DEF r, scaled, I, J
<1>5. /\ reserve'[a].liquidityIndex = I /\ reserve'[a].borrowIndex = J
      /\ reserve'[a].totalScaledSupply = reserve[a].totalScaledSupply + 0
      /\ reserve'[a].totalScaledBorrow = reserve[a].totalScaledBorrow + scaled
      /\ cash'[a] = cash[a] + (-n)
  BY <1>1, <1>2, <1>3, <1>4 DEF PoolInv, TypeOK, ReserveState
<1>6. I * 0 - Ray * (-n) - J * scaled < I
  <2>1. I * 0 = 0 /\ Ray * (-n) = -(n * Ray) /\ n * Ray \in Nat /\ J * scaled \in Nat
    BY <1>3, <1>4, UnitsAssumption, SMT
  <2> QED BY <2>1, <1>3, <1>4, SMT
<1>7. scaled \in Int /\ -n \in Int /\ 0 \in Int /\ I = ProjectLiquidityIndex(a) /\ J = ProjectBorrowIndex(a)
  BY <1>3, <1>4 DEF I, J
<1> QED BY <1>1, <1>5, <1>6, <1>7, Booked

LEMMA RoundRepay ==
    ASSUME PoolInv, NEW u \in Users, NEW a \in Assets, NEW n \in Amounts, Repay(u, a, n)
    PROVE  CostsLessThanAUnit(a)
<1> DEFINE r == Accrued(a)
           I == ProjectLiquidityIndex(a)
           J == ProjectBorrowIndex(a)
           debt == Scaled(scaledBorrow[u][a], r.borrowIndex)
           w == IF n = MaxUint THEN debt ELSE n
           scaled == Lesser(ToScaledUp(w, r.borrowIndex), scaledBorrow[u][a])
<1>1. /\ a \in Reserves /\ cash' = [cash EXCEPT ![a] = @ + w]
      /\ reserve' = [reserve EXCEPT ![a] = [r EXCEPT !.totalScaledBorrow = @ - scaled]]
  BY DEF Repay, Reserves
<1>2. /\ r \in ReserveState /\ r.borrowIndex >= Ray /\ r.liquidityIndex = I /\ r.borrowIndex = J
      /\ r.totalScaledSupply = reserve[a].totalScaledSupply
      /\ r.totalScaledBorrow = reserve[a].totalScaledBorrow
  BY <1>1, AccruedState
<1>3. n \in Nat /\ I \in Nat /\ J \in Nat \ {0} /\ scaledBorrow[u][a] \in Nat
  BY <1>2, UnitsAssumption DEF ReserveState, PoolInv, TypeOK
<1>4. w \in Nat
  BY <1>2, <1>3, ScaledNat
<1>5. scaled \in Nat /\ J * scaled < Ray * w + J
  BY <1>2, <1>3, <1>4, ScaledUp, LesserNat, RepaymentCovers
<1> HIDE DEF r, debt, w, scaled, I, J
<1>6. /\ reserve'[a].liquidityIndex = I /\ reserve'[a].borrowIndex = J
      /\ reserve'[a].totalScaledSupply = reserve[a].totalScaledSupply + 0
      /\ reserve'[a].totalScaledBorrow = reserve[a].totalScaledBorrow + (-scaled)
      /\ cash'[a] = cash[a] + w
  BY <1>1, <1>2, <1>4, <1>5 DEF PoolInv, TypeOK, ReserveState
<1>7. I * 0 - Ray * w - J * (-scaled) < J
  <2>1. I * 0 = 0 /\ J * (-scaled) = -(J * scaled) /\ J * scaled \in Nat /\ Ray * w \in Nat
    BY <1>3, <1>4, <1>5, UnitsAssumption, SMT
  <2> QED BY <2>1, <1>3, <1>5, SMT
<1>8. -scaled \in Int /\ w \in Int /\ 0 \in Int /\ I = ProjectLiquidityIndex(a) /\ J = ProjectBorrowIndex(a)
  BY <1>4, <1>5 DEF I, J
<1> QED BY <1>1, <1>6, <1>7, <1>8, Booked

LEMMA RoundSweep ==
    ASSUME PoolInv, NEW a \in Assets, NEW n \in Amounts, SweepProtocolFees(a, n)
    PROVE  CostsLessThanAUnit(a)
<1> DEFINE r == Accrued(a)
           requested == IF n = MaxUint THEN Available(a, r) ELSE n
           owed == r.totalScaledSupply * r.liquidityIndex
           due == r.totalScaledBorrow * r.borrowIndex
           s == CurrentSupply(r)
           b == CurrentBorrows(r)
<1>1. /\ a \in Reserves /\ requested <= Available(a, r)
      /\ cash' = [cash EXCEPT ![a] = @ - requested] /\ reserve' = [reserve EXCEPT ![a] = r]
  BY DEF SweepProtocolFees, Reserves
<1>2. r \in ReserveState /\ r.liquidityIndex >= Ray
  BY <1>1, AccruedState
<1>3. owed \in Nat /\ due \in Nat /\ Ray \in Nat \ {0} /\ cash[a] \in Nat /\ n \in Nat
  BY <1>2, UnitsAssumption, SMT DEF ReserveState, PoolInv, TypeOK
<1>4. Available(a, r) = cash[a] + b - s /\ s = owed \div Ray /\ b = due \div Ray
  BY DEF Available, CurrentSupply, CurrentBorrows, Scaled
<1> HIDE DEF s, b, owed, due
<1>5. s \in Nat /\ owed < Ray * s + Ray /\ b \in Nat /\ Ray * b <= due
  BY <1>3, <1>4, Division
<1>6. requested \in Int /\ requested <= cash[a] + b - s
  BY <1>1, <1>3, <1>4, <1>5
<1>7. /\ reserve'[a] = r /\ cash'[a] = cash[a] - requested
  BY <1>1, <1>6 DEF PoolInv, TypeOK
<1>8. StoredShortfall(a)' = owed - ((cash[a] - requested) * Ray + due)
  BY <1>7 DEF StoredShortfall, Shortfall, owed, due
<1> HIDE DEF requested, r
<1>9. owed - ((cash[a] - requested) * Ray + due) < Ray
  <2>1. (s - b) * Ray <= (cash[a] - requested) * Ray
    <3>1. s - b <= cash[a] - requested /\ s - b \in Int /\ cash[a] - requested \in Int
      BY <1>3, <1>4, <1>6
    <3> QED BY <3>1, <1>3, SMT
  <2>2. (s - b) * Ray = Ray * s - Ray * b /\ Ray * s \in Int /\ Ray * b \in Int
        /\ (cash[a] - requested) * Ray \in Int
    BY <1>3, <1>4, <1>6, SMT
  <2> QED BY <2>1, <2>2, <1>3, <1>4, SMT
<1>10. StoredShortfall(a)' < Ray /\ StoredShortfall(a)' \in Int
  <2>1. (cash[a] - requested) * Ray \in Int
    BY <1>3, <1>6, SMT
  <2> QED BY <2>1, <1>3, <1>8, <1>9
<1>11. StoredShortfall(a)' < 0 + reserve'[a].liquidityIndex
  BY <1>2, <1>3, <1>7, <1>10 DEF ReserveState
<1> QED BY <1>11 DEF CostsLessThanAUnit

LEMMA QuoteSeizes ==
    ASSUME PoolInv, NEW u \in Users, NEW c \in Reserves, NEW d \in Reserves, NEW n \in Nat,
           price[c] # 0, price[d] # 0
    PROVE  Quote(c, d, u, n).seize <= Collateral(scaledSupply, u, c)
<1> DEFINE q == Quote(c, d, u, n)
           held == Collateral(scaledSupply, u, c)
           maxRepay == Debt(scaledBorrow, u, d) \div 2
           wanted == Lesser(n, maxRepay)
           seize == (AssetValue(d, wanted) * config[c].bonus * Unit[c]) \div (price[c] * Bps)
           worth == (((held * price[c]) \div Unit[c]) * Bps) \div config[c].bonus
           back == Lesser(AmountFromValue(d, worth), maxRepay)
<1>1. held \in Nat /\ q.seize \in Nat
  BY PositionNat, QuoteNat
<1>2. q = IF seize <= held THEN [repay |-> wanted, seize |-> seize] ELSE [repay |-> back, seize |-> held]
  BY DEF Quote
<1> HIDE DEF held, q, wanted, seize, back
<1>3. q.seize <= held
  BY <1>1, <1>2
<1> QED BY <1>3 DEF held, q

LEMMA RoundLiquidate ==
    ASSUME PoolInv, NEW u \in Users, NEW c \in Assets, NEW d \in Assets, NEW n \in Amounts,
           Liquidate(c, d, u, n), NEW a \in {c, d}
    PROVE  CostsLessThanAUnit(a)
<1> DEFINE rc == Accrued(c)
           rd == Accrued(d)
           quote == Quote(c, d, u, n)
           x == quote.repay
           y == quote.seize
           debtScaled == Lesser(ToScaledUp(x, rd.borrowIndex), scaledBorrow[u][d])
           collateralScaled == Lesser(ToScaledUp(y, rc.liquidityIndex), scaledSupply[u][c])
           paid == [cash EXCEPT ![d] = @ + x]
           both == [reserve EXCEPT ![c] = rc, ![d] = rd]
           I == ProjectLiquidityIndex(a)
           J == ProjectBorrowIndex(a)
<1>1. /\ c \in Reserves /\ d \in Reserves /\ price[c] # 0 /\ price[d] # 0
      /\ reserve' = [both EXCEPT ![d].totalScaledBorrow = @ - debtScaled,
                                 ![c].totalScaledSupply = @ - collateralScaled]
      /\ cash' = [paid EXCEPT ![c] = @ - y]
  BY DEF Liquidate, Reserves
<1>2. /\ rc \in ReserveState /\ rc.liquidityIndex >= Ray /\ rc.borrowIndex >= Ray
      /\ rd \in ReserveState /\ rd.liquidityIndex >= Ray /\ rd.borrowIndex >= Ray
      /\ c = d => rc = rd
      /\ a = c => /\ rc.liquidityIndex = I /\ rc.borrowIndex = J
                  /\ rc.totalScaledSupply = reserve[a].totalScaledSupply
                  /\ rc.totalScaledBorrow = reserve[a].totalScaledBorrow
      /\ a = d => /\ rd.liquidityIndex = I /\ rd.borrowIndex = J
                  /\ rd.totalScaledSupply = reserve[a].totalScaledSupply
                  /\ rd.totalScaledBorrow = reserve[a].totalScaledBorrow
  BY <1>1, AccruedState
<1>3. /\ rc.liquidityIndex \in Nat \ {0} /\ rd.borrowIndex \in Nat \ {0}
      /\ scaledBorrow[u][d] \in Nat /\ scaledSupply[u][c] \in Nat
      /\ I \in Nat \ {0} /\ J \in Nat \ {0} /\ n \in Nat
  BY <1>2, UnitsAssumption DEF ReserveState, PoolInv, TypeOK
<1>4. x \in Nat /\ y \in Nat /\ y <= Scaled(scaledSupply[u][c], rc.liquidityIndex)
  <2>1. rc.liquidityIndex = ProjectLiquidityIndex(c)
    BY <1>1, AccruedState
  <2> QED BY <1>1, <1>3, <2>1, QuoteNat, QuoteSeizes DEF Collateral
<1> HIDE DEF rc, rd, quote, x, y
<1>5. /\ debtScaled \in Nat /\ rd.borrowIndex * debtScaled < Ray * x + rd.borrowIndex
      /\ collateralScaled \in Nat /\ Ray * y <= rc.liquidityIndex * collateralScaled
  BY <1>3, <1>4, ScaledUp, LesserNat, RepaymentCovers, ExitCovers
<1> HIDE DEF debtScaled, collateralScaled
<1> DEFINE ds == IF a = c THEN -collateralScaled ELSE 0
           db == IF a = d THEN -debtScaled ELSE 0
           dc == (IF a = d THEN x ELSE 0) - (IF a = c THEN y ELSE 0)
<1>6. /\ paid \in [Assets -> Int] /\ cash[a] \in Nat /\ reserve[a] \in ReserveState /\ a \in Assets /\ a \in Reserves
      /\ paid[a] = IF a = d THEN cash[a] + x ELSE cash[a]
  BY <1>1, <1>4 DEF PoolInv, TypeOK, Reserves
<1>7. /\ both \in [Assets -> ReserveState] /\ both[c] = rc /\ both[d] = rd
  BY <1>1, <1>2 DEF PoolInv, TypeOK
<1> HIDE DEF paid, both
<1>8. cash'[a] = cash[a] + dc
  BY <1>1, <1>4, <1>6
<1>9. /\ reserve'[a].liquidityIndex = I /\ reserve'[a].borrowIndex = J
      /\ reserve'[a].totalScaledSupply = reserve[a].totalScaledSupply + ds
      /\ reserve'[a].totalScaledBorrow = reserve[a].totalScaledBorrow + db
  BY <1>1, <1>2, <1>5, <1>6, <1>7 DEF ReserveState
<1> HIDE DEF I, J
<1>10. I * ds - Ray * dc - J * db < J \/ I * ds - Ray * dc - J * db < I
  <2>1. /\ a = c => Ray * y <= I * collateralScaled
        /\ a = d => J * debtScaled < Ray * x + J
    BY <1>2, <1>5
  <2>2. /\ Ray * x \in Nat /\ Ray * y \in Nat /\ I * collateralScaled \in Nat /\ J * debtScaled \in Nat
        /\ I * 0 = 0 /\ J * 0 = 0 /\ Ray * 0 = 0
        /\ I * (-collateralScaled) = -(I * collateralScaled) /\ J * (-debtScaled) = -(J * debtScaled)
        /\ Ray * (x - y) = Ray * x - Ray * y /\ Ray * (0 - y) = -(Ray * y) /\ Ray * (x - 0) = Ray * x
    BY <1>3, <1>4, <1>5, UnitsAssumption, SMT
  <2>3. CASE a = c /\ a = d
    <3>1. ds = -collateralScaled /\ dc = x - y /\ db = -debtScaled
      BY <2>3
    <3> HIDE DEF ds, dc, db
    <3> QED BY <2>1, <2>2, <2>3, <3>1, <1>3
  <2>4. CASE a = c /\ a # d
    <3>1. ds = -collateralScaled /\ dc = 0 - y /\ db = 0
      BY <2>4
    <3> HIDE DEF ds, dc, db
    <3> QED BY <2>1, <2>2, <2>4, <3>1, <1>3
  <2>5. CASE a # c /\ a = d
    <3>1. ds = 0 /\ dc = x - 0 /\ db = -debtScaled
      BY <2>5
    <3> HIDE DEF ds, dc, db
    <3> QED BY <2>1, <2>2, <2>5, <3>1, <1>3
  <2> QED BY <2>3, <2>4, <2>5
<1>11. ds \in Int /\ dc \in Int /\ db \in Int /\ I = ProjectLiquidityIndex(a) /\ J = ProjectBorrowIndex(a)
  BY <1>4, <1>5 DEF I, J
<1> HIDE DEF ds, dc, db
<1> QED BY <1>6, <1>8, <1>9, <1>10, <1>11, Booked

\* Every other reserve, and every reserve in a step that touches none.
LEMMA RoundElsewhere ==
    ASSUME PoolInv, NEW a \in Assets, Active(a)', Active(a)' => Active(a),
           reserve'[a].elapsed = 0, reserve'[a] = reserve[a], NEW dc \in Nat, cash'[a] = cash[a] + dc
    PROVE  CostsLessThanAUnit(a)
<1>1. a \in Reserves /\ reserve[a].elapsed = 0
  BY DEF Active, Reserves
<1> QED BY <1>1, LeftAlone

LEMMA RoundAdd ==
    ASSUME PoolInv, NEW a \in Assets, NEW p \in Params, AddReserve(a, p)
    PROVE  CostsLessThanAUnit(a)
<1>1. /\ reserve'[a].liquidityIndex = Ray /\ reserve'[a].borrowIndex = Ray
      /\ reserve'[a].totalScaledSupply = 0 /\ reserve'[a].totalScaledBorrow = 0
      /\ cash'[a] = cash[a] /\ cash[a] \in Nat /\ Ray \in Nat \ {0}
  BY UnitsAssumption DEF AddReserve, PoolInv, TypeOK
<1>2. StoredShortfall(a)' = 0 * Ray - (cash[a] * Ray + 0 * Ray)
  BY <1>1 DEF StoredShortfall, Shortfall
<1>3. StoredShortfall(a)' < 0 + reserve'[a].liquidityIndex
  <2>1. cash[a] * Ray \in Nat
    BY <1>1, SMT
  <2> QED BY <1>1, <1>2, <2>1, SMT
<1> QED BY <1>3 DEF CostsLessThanAUnit

LEMMA RoundNext ==
    ASSUME PoolInv, [Next]_vars, NEW a \in Assets, Active(a)', reserve'[a].elapsed = 0
    PROVE  CostsLessThanAUnit(a)
<1>0. /\ cash[a] \in Nat /\ cash[a] = cash[a] + 0
      /\ DOMAIN reserve = Assets /\ DOMAIN cash = Assets /\ DOMAIN config = Assets
  BY DEF PoolInv, TypeOK
<1>1. CASE UNCHANGED vars
  <2>1. reserve'[a] = reserve[a] /\ cash'[a] = cash[a] + 0 /\ (Active(a)' => Active(a))
    BY <1>0, <1>1 DEF vars, Active
  <2> QED BY <2>1, RoundElsewhere
<1>2. ASSUME NEW b \in Assets, NEW p \in Params, AddReserve(b, p) PROVE CostsLessThanAUnit(a)
  <2>1. CASE a = b
    BY <1>2, <2>1, RoundAdd
  <2>2. CASE a # b
    <3>1. reserve'[a] = reserve[a] /\ cash'[a] = cash[a] + 0 /\ (Active(a)' => Active(a))
      BY <1>0, <1>2, <2>2 DEF AddReserve, Active
    <3> QED BY <3>1, RoundElsewhere
  <2> QED BY <2>1, <2>2
<1>3. ASSUME NEW b \in Assets, NEW p \in Params, SetReserveRiskParams(b, p) PROVE CostsLessThanAUnit(a)
  <2>1. reserve'[a] = reserve[a] /\ cash'[a] = cash[a] + 0 /\ (Active(a)' => Active(a))
    BY <1>0, <1>3 DEF SetReserveRiskParams, Active
  <2> QED BY <2>1, RoundElsewhere
<1>4. CASE SetPaused \/ (\E b \in Assets, p \in Prices : SetPrice(b, p))
  <2>1. reserve'[a] = reserve[a] /\ cash'[a] = cash[a] + 0 /\ (Active(a)' => Active(a))
    BY <1>0, <1>4 DEF SetPaused, SetPrice, Active
  <2> QED BY <2>1, RoundElsewhere
<1>5. ASSUME NEW b \in Assets, NEW n \in Amounts, Donate(b, n) PROVE CostsLessThanAUnit(a)
  <2>1. reserve'[a] = reserve[a] /\ (Active(a)' => Active(a))
    BY <1>5 DEF Donate, Active
  <2>2. CASE a = b
    <3>1. n \in Nat /\ cash'[a] = cash[a] + n
      BY <1>0, <1>5, <2>2, UnitsAssumption DEF Donate
    <3> QED BY <2>1, <3>1, RoundElsewhere
  <2>3. CASE a # b
    <3>1. cash'[a] = cash[a] + 0
      BY <1>0, <1>5, <2>3 DEF Donate
    <3> QED BY <2>1, <3>1, RoundElsewhere
  <2> QED BY <2>2, <2>3
<1>6. ASSUME Advance PROVE FALSE
  <2>1. Active(a) /\ reserve[a] \in ReserveState
    BY <1>6 DEF Advance, Active, PoolInv, TypeOK
  <2>2. reserve'[a] = [reserve[a] EXCEPT !.elapsed = @ + 1]
    BY <1>6, <2>1 DEF Advance
  <2> QED BY <2>1, <2>2 DEF ReserveState
<1>7. ASSUME NEW b \in Assets, NEW n \in Amounts, SweepProtocolFees(b, n) PROVE CostsLessThanAUnit(a)
  <2>1. CASE a = b
    BY <1>7, <2>1, RoundSweep
  <2>2. CASE a # b
    <3>1. reserve'[a] = reserve[a] /\ cash'[a] = cash[a] + 0 /\ (Active(a)' => Active(a))
      BY <1>0, <1>7, <2>2 DEF SweepProtocolFees, Active
    <3> QED BY <3>1, RoundElsewhere
  <2> QED BY <2>1, <2>2
<1>8. ASSUME NEW u \in Users, NEW b \in Assets, NEW n \in Amounts,
             Supply(u, b, n) \/ Withdraw(u, b, n) \/ Borrow(u, b, n) \/ Repay(u, b, n)
      PROVE  CostsLessThanAUnit(a)
  <2>1. CASE a = b
    BY <1>8, <2>1, RoundSupply, RoundWithdraw, RoundBorrow, RoundRepay
  <2>2. CASE a # b
    <3>1. reserve'[a] = reserve[a] /\ cash'[a] = cash[a] + 0 /\ (Active(a)' => Active(a))
      BY <1>0, <1>8, <2>2 DEF Supply, Withdraw, Borrow, Repay, Active
    <3> QED BY <3>1, RoundElsewhere
  <2> QED BY <2>1, <2>2
<1>9. ASSUME NEW u \in Users, NEW c \in Assets, NEW d \in Assets, NEW n \in Amounts, Liquidate(c, d, u, n)
      PROVE  CostsLessThanAUnit(a)
  <2>1. CASE a \in {c, d}
    BY <1>9, <2>1, RoundLiquidate
  <2>2. CASE a \notin {c, d}
    <3>1. reserve'[a] = reserve[a] /\ cash'[a] = cash[a] + 0 /\ (Active(a)' => Active(a))
      BY <1>0, <1>9, <2>2 DEF Liquidate, Active
    <3> QED BY <3>1, RoundElsewhere
  <2> QED BY <2>1, <2>2
<1> QED BY <1>1, <1>2, <1>3, <1>4, <1>5, <1>6, <1>7, <1>8, <1>9 DEF Next

\* Whatever the amounts, units, rates and prices: a call costs a reserve less than
\* one scaled unit, and a sweep leaves it short of less than one.
THEOREM RoundingCorrect == Spec => RoundingBounded
<1>1. PoolInv /\ [Next]_vars =>
        [\A a \in Assets : Active(a)' /\ reserve'[a].elapsed = 0 => CostsLessThanAUnit(a)]_vars
  BY RoundNext
<1> QED BY <1>1, PoolInvariant, PTL DEF Spec, RoundingBounded

-----------------------------------------------------------------------------
(* Liquidation *)

LEMMA Monotone ==
    ASSUME NEW x \in Nat, NEW y \in Nat, x <= y, NEW k \in Nat
    PROVE  k * x <= k * y /\ x * k <= y * k /\ k * x \in Nat /\ k * y \in Nat /\ x * k \in Nat /\ y * k \in Nat
  BY SMT

LEMMA QuotientAbove ==
    ASSUME NEW x \in Nat, NEW y \in Nat \ {0}, NEW z \in Nat, y * z <= x
    PROVE  z <= x \div y
<1> DEFINE q == x \div y
<1>1. q \in Nat /\ x < y * q + y
  BY Division
<1> HIDE DEF q
<1>2. y * z < y * q + y
  <2>1. y * z \in Nat /\ y * q \in Nat
    BY <1>1, SMT
  <2> QED BY <1>1, <2>1
<1>3. z <= q
  BY <1>1, <1>2, QuotientBelow
<1> QED BY <1>3 DEF q

\* Turning an amount into value and the value into collateral never gains.
LEMMA SeizedWorth ==
    ASSUME NEW V \in Nat, NEW bonus \in Nat \ {0}, NEW Uc \in Nat \ {0}, NEW pc \in Nat \ {0},
           NEW seize \in Nat, (pc * Bps) * seize <= V * bonus * Uc,
           NEW worth \in Nat, Uc * worth <= seize * pc
    PROVE  worth * Bps <= V * bonus
<1>1. Bps \in Nat \ {0}
  BY UnitsAssumption
<1>2. (Uc * worth) * Bps <= (seize * pc) * Bps
  <2>1. Uc * worth \in Nat /\ seize * pc \in Nat
    BY SMT
  <2> QED BY <1>1, <2>1, Monotone
<1>3. /\ (Uc * worth) * Bps = Uc * (worth * Bps)
      /\ (seize * pc) * Bps = (pc * Bps) * seize
      /\ V * bonus * Uc = Uc * (V * bonus)
  BY <1>1, SMT
<1> DEFINE x == worth * Bps
           y == V * bonus
           p == (Uc * worth) * Bps
           q == (seize * pc) * Bps
           t == (pc * Bps) * seize
           w == V * bonus * Uc
<1>5. p <= q /\ q = t /\ t <= w /\ p = Uc * x /\ w = Uc * y
  BY <1>2, <1>3
<1>6. x \in Nat /\ y \in Nat /\ p \in Nat /\ t \in Nat /\ w \in Nat
  BY <1>1, SMT
<1> HIDE DEF x, y, p, q, t, w
<1>7. Uc * x < Uc * y + Uc
  <2>1. Uc * x \in Nat /\ Uc * y \in Nat
    BY <1>6, SMT
  <2> QED BY <1>5, <1>6, <2>1
<1>8. x <= y
  BY <1>6, <1>7, QuotientBelow
<1> QED BY <1>8 DEF x, y

LEMMA LiquidationIsFair ==
    ASSUME PoolInv, NEW u \in Users, NEW c \in Reserves, NEW d \in Reserves, NEW n \in Nat,
           price[c] # 0, price[d] # 0
    PROVE  LET quote == Quote(c, d, u, n)
               worth == (quote.seize * price[c]) \div Unit[c]
               paid == ((quote.repay + 1) * price[d]) \div Unit[d] + 1
           IN  /\ quote.repay <= n
               /\ 2 * quote.repay <= Debt(scaledBorrow, u, d)
               /\ quote.seize <= Collateral(scaledSupply, u, c)
               /\ worth * Bps <= paid * config[c].bonus
<1> DEFINE debt == Debt(scaledBorrow, u, d)
           maxRepay == debt \div 2
           wanted == Lesser(n, maxRepay)
           V == AssetValue(d, wanted)
           bonus == config[c].bonus
           pc == price[c]
           pd == price[d]
           Uc == Unit[c]
           Ud == Unit[d]
           held == Collateral(scaledSupply, u, c)
           seize == (V * bonus * Uc) \div (pc * Bps)
           H == (held * pc) \div Uc
           X == (H * Bps) \div bonus
           back == (X * Ud) \div pd
           q == Quote(c, d, u, n)
           Paid(r) == ((r + 1) * pd) \div Ud
<1>1. q = IF seize <= held THEN [repay |-> wanted, seize |-> seize]
          ELSE [repay |-> Lesser(back, maxRepay), seize |-> held]
  BY DEF Quote, AmountFromValue
<1>2. /\ debt \in Nat /\ held \in Nat /\ Bps \in Nat \ {0} /\ bonus \in Nat \ {0}
      /\ pc \in Nat \ {0} /\ pd \in Nat \ {0} /\ Uc \in Nat \ {0} /\ Ud \in Nat \ {0}
  <2>1. debt \in Nat /\ held \in Nat
    BY PositionNat
  <2>2. c \in Assets /\ d \in Assets /\ config[c] \in RiskParams /\ config[c].bonus >= Bps
    BY DEF PoolInv, TypeOK, Reserves
  <2>3. pc \in Nat \ {0} /\ pd \in Nat \ {0} /\ Uc \in Nat \ {0} /\ Ud \in Nat \ {0}
    BY <2>2, ValueNat
  <2> QED BY <2>1, <2>2, <2>3, UnitsAssumption DEF RiskParams
<1>3. V = (wanted * pd) \div Ud
  BY DEF AssetValue
<1> HIDE DEF debt, bonus, pc, pd, Uc, Ud, held, q
<1>4. maxRepay \in Nat /\ 2 * maxRepay <= debt
  BY <1>2, Division
<1> HIDE DEF maxRepay
<1>5. wanted \in Nat /\ wanted <= n /\ wanted <= maxRepay
  BY <1>4, LesserNat
<1> HIDE DEF wanted
<1>6. V \in Nat /\ Ud * V <= wanted * pd
  <2>1. wanted * pd \in Nat
    BY <1>2, <1>5, SMT
  <2> QED BY <1>2, <1>3, <2>1, Division
<1> HIDE DEF V
<1>7. seize \in Nat /\ (pc * Bps) * seize <= V * bonus * Uc
  <2>1. V * bonus \in Nat /\ pc * Bps \in Nat \ {0}
    BY <1>2, <1>6, SMT
  <2>2. V * bonus * Uc \in Nat
    BY <2>1, <1>2, SMT
  <2> QED BY <2>1, <2>2, Division
<1> HIDE DEF seize
<1>8. H \in Nat /\ Uc * H <= held * pc
  <2>1. held * pc \in Nat
    BY <1>2, SMT
  <2> QED BY <1>2, <2>1, Division
<1>9. ASSUME NEW r \in Nat PROVE Paid(r) \in Nat /\ \A z \in Nat : Ud * z <= (r + 1) * pd => z <= Paid(r)
  <2>1. (r + 1) * pd \in Nat
    BY <1>2, SMT
  <2> QED BY <1>2, <2>1, Division, QuotientAbove
<1> HIDE DEF Paid
<1>10. CASE seize <= held
  <2>1. q.repay = wanted /\ q.seize = seize
    BY <1>1, <1>10
  <2> DEFINE worth == (seize * pc) \div Uc
  <2>2. worth \in Nat /\ Uc * worth <= seize * pc
    <3>1. seize * pc \in Nat
      BY <1>2, <1>7, SMT
    <3> QED BY <1>2, <3>1, Division
  <2> HIDE DEF worth
  <2>3. worth * Bps <= V * bonus
    BY <1>2, <1>6, <1>7, <2>2, SeizedWorth
  <2>4. V <= Paid(wanted) + 1 /\ Paid(wanted) \in Nat
    <3>1. (wanted + 1) * pd = wanted * pd + pd /\ wanted * pd \in Nat /\ Ud * V \in Nat
      BY <1>2, <1>5, <1>6, SMT
    <3>2. Ud * V <= (wanted + 1) * pd
      BY <3>1, <1>2, <1>6
    <3> QED BY <3>2, <1>5, <1>6, <1>9
  <2>5. V * bonus <= (Paid(wanted) + 1) * bonus /\ V * bonus \in Nat /\ (Paid(wanted) + 1) * bonus \in Nat
    BY <2>4, <1>2, <1>6, Monotone
  <2>6. worth * Bps <= (Paid(wanted) + 1) * bonus
    <3>1. worth * Bps \in Nat
      BY <2>2, <1>2, SMT
    <3> QED BY <2>3, <2>5, <3>1
  <2>7. q.repay <= n /\ 2 * q.repay <= debt /\ q.seize <= held
    BY <2>1, <1>2, <1>4, <1>5, <1>10
  <2> QED BY <2>1, <2>6, <2>7 DEF worth, Paid, q, debt, held, bonus, pc, pd, Uc, Ud
<1>11. CASE ~(seize <= held)
  <2>0. q.repay = Lesser(back, maxRepay) /\ q.seize = held /\ held <= seize
    BY <1>1, <1>2, <1>7, <1>11
  <2>1. X \in Nat /\ bonus * X <= H * Bps /\ H * Bps < bonus * X + bonus
    <3>1. H * Bps \in Nat
      BY <1>2, <1>8, SMT
    <3> QED BY <1>2, <3>1, Division
  <2> HIDE DEF H
  <2>2. H * Bps <= V * bonus
    <3>1. (pc * Bps) * held <= V * bonus * Uc
      <4>1. pc * Bps \in Nat /\ V * bonus * Uc \in Nat
        BY <1>2, <1>6, SMT
      <4>2. (pc * Bps) * held <= (pc * Bps) * seize /\ (pc * Bps) * held \in Nat /\ (pc * Bps) * seize \in Nat
        BY <4>1, <2>0, <1>2, <1>7, Monotone
      <4> QED BY <4>1, <4>2, <1>7
    <3> QED BY <3>1, <1>2, <1>6, <1>8, SeizedWorth
  <2> HIDE DEF X
  <2>3. back \in Nat /\ pd * back <= X * Ud /\ X * Ud < pd * back + pd
    <3> DEFINE m == X * Ud
    <3>1. m \in Nat
      BY <1>2, <2>1, SMT
    <3>2. back = m \div pd
      OBVIOUS
    <3> HIDE DEF m, back
    <3>3. back \in Nat /\ pd * back <= m /\ m < pd * back + pd
      BY <1>2, <3>1, <3>2, Division
    <3> QED BY <3>3 DEF m
  <2> HIDE DEF back
  <2>4. X <= V
    <3>1. bonus * X < bonus * V + bonus
      <4>1. bonus * X \in Nat /\ bonus * V \in Nat /\ V * bonus = bonus * V /\ H * Bps \in Nat
        BY <1>2, <1>6, <1>8, <2>1, SMT
      <4> QED BY <4>1, <2>1, <2>2, <1>2
    <3> QED BY <3>1, <1>2, <1>6, <2>1, QuotientBelow
  <2>5. back <= wanted
    <3>1. X * Ud <= V * Ud /\ X * Ud \in Nat /\ V * Ud \in Nat
      BY <2>1, <2>4, <1>2, <1>6, Monotone
    <3>2. V * Ud = Ud * V /\ wanted * pd = pd * wanted /\ pd * back \in Nat /\ pd * wanted \in Nat
      BY <1>2, <1>5, <1>6, <2>3, SMT
    <3>3. pd * back < pd * wanted + pd
      BY <3>1, <3>2, <2>3, <1>2, <1>6
    <3> QED BY <3>3, <1>2, <1>5, <2>3, QuotientBelow
  <2>6. q.repay = back
    BY <2>0, <2>3, <2>5, <1>4, <1>5 DEF Lesser
  <2>7. X <= Paid(back) /\ Paid(back) \in Nat
    <3>1. (back + 1) * pd = pd * back + pd /\ Ud * X = X * Ud /\ X * Ud \in Nat /\ pd * back \in Nat
      BY <1>2, <2>1, <2>3, SMT
    <3>2. Ud * X <= (back + 1) * pd
      BY <3>1, <2>3, <1>2
    <3> QED BY <3>2, <2>1, <2>3, <1>9
  <2>8. (X + 1) * bonus <= (Paid(back) + 1) * bonus /\ (X + 1) * bonus \in Nat /\ (Paid(back) + 1) * bonus \in Nat
    <3>1. X + 1 <= Paid(back) + 1 /\ X + 1 \in Nat /\ Paid(back) + 1 \in Nat
      BY <2>1, <2>7
    <3> QED BY <3>1, <1>2, Monotone
  <2>9. H * Bps <= (Paid(back) + 1) * bonus
    <3>1. (X + 1) * bonus = bonus * X + bonus /\ H * Bps \in Nat /\ bonus * X \in Nat
      BY <1>2, <1>8, <2>1, SMT
    <3> QED BY <3>1, <2>1, <2>8, <1>2
  <2>10. q.repay <= n /\ 2 * q.repay <= debt /\ q.seize <= held
    BY <2>0, <2>3, <2>5, <2>6, <1>2, <1>4, <1>5
  <2> QED BY <2>0, <2>6, <2>9, <2>10 DEF H, Paid, q, debt, held, bonus, pc, pd, Uc, Ud
<1> QED BY <1>10, <1>11

\* For every state and every offer, whatever prices, decimals and bonus.
THEOREM LiquidationCorrect == Spec => []LiquidationFair
<1>1. PoolInv => LiquidationFair
  BY LiquidationIsFair, UnitsAssumption DEF LiquidationFair
<1> QED BY <1>1, PoolInvariant, PTL

-----------------------------------------------------------------------------
(* Totals *)

\* A reserve that was never added has no positions and no totals.
Untouched ==
    \A a \in Assets \ Reserves :
      /\ reserve[a].totalScaledSupply = 0 /\ reserve[a].totalScaledBorrow = 0
      /\ \A u \in Users : scaledSupply[u][a] = 0 /\ scaledBorrow[u][a] = 0

TotalsInv == PoolInv /\ Untouched /\ TotalsAreSums

LEMMA SupplySumFollows ==
    ASSUME PoolInv, PoolInv', NEW u \in Users, NEW a \in Assets,
           reserve[a].totalScaledSupply = SumFunction([v \in Users |-> scaledSupply[v][a]]),
           \A v \in Users \ {u} : scaledSupply'[v][a] = scaledSupply[v][a],
           reserve'[a].totalScaledSupply - reserve[a].totalScaledSupply
             = scaledSupply'[u][a] - scaledSupply[u][a]
    PROVE  reserve'[a].totalScaledSupply = SumFunction([v \in Users |-> scaledSupply'[v][a]])
<1> DEFINE s == [v \in Users |-> scaledSupply[v][a]]
           sn == [v \in Users |-> scaledSupply'[v][a]]
<1>1. s \in [Users -> Int] /\ sn \in [Users -> Int]
  BY DEF PoolInv, TypeOK
<1>2. /\ \A v \in Users \ {u} : sn[v] = s[v]
      /\ s[u] = scaledSupply[u][a] /\ sn[u] = scaledSupply'[u][a]
      /\ reserve[a].totalScaledSupply = SumFunction(s)
  OBVIOUS
<1>3. /\ reserve[a].totalScaledSupply \in Int /\ reserve'[a].totalScaledSupply \in Int
      /\ scaledSupply[u][a] \in Int /\ scaledSupply'[u][a] \in Int
  BY DEF PoolInv, TypeOK, ReserveState
<1> HIDE DEF s, sn
<1>4. SumFunction(sn) = SumFunction(s) - s[u] + sn[u]
  BY <1>1, <1>2, FiniteAssumption, SumFunctionUpdate
<1>5. reserve'[a].totalScaledSupply = SumFunction(sn)
  BY <1>2, <1>3, <1>4
<1> QED BY <1>5 DEF sn

LEMMA BorrowSumFollows ==
    ASSUME PoolInv, PoolInv', NEW u \in Users, NEW a \in Assets,
           reserve[a].totalScaledBorrow = SumFunction([v \in Users |-> scaledBorrow[v][a]]),
           \A v \in Users \ {u} : scaledBorrow'[v][a] = scaledBorrow[v][a],
           reserve'[a].totalScaledBorrow - reserve[a].totalScaledBorrow
             = scaledBorrow'[u][a] - scaledBorrow[u][a]
    PROVE  reserve'[a].totalScaledBorrow = SumFunction([v \in Users |-> scaledBorrow'[v][a]])
<1> DEFINE s == [v \in Users |-> scaledBorrow[v][a]]
           sn == [v \in Users |-> scaledBorrow'[v][a]]
<1>1. s \in [Users -> Int] /\ sn \in [Users -> Int]
  BY DEF PoolInv, TypeOK
<1>2. /\ \A v \in Users \ {u} : sn[v] = s[v]
      /\ s[u] = scaledBorrow[u][a] /\ sn[u] = scaledBorrow'[u][a]
      /\ reserve[a].totalScaledBorrow = SumFunction(s)
  OBVIOUS
<1>3. /\ reserve[a].totalScaledBorrow \in Int /\ reserve'[a].totalScaledBorrow \in Int
      /\ scaledBorrow[u][a] \in Int /\ scaledBorrow'[u][a] \in Int
  BY DEF PoolInv, TypeOK, ReserveState
<1> HIDE DEF s, sn
<1>4. SumFunction(sn) = SumFunction(s) - s[u] + sn[u]
  BY <1>1, <1>2, FiniteAssumption, SumFunctionUpdate
<1>5. reserve'[a].totalScaledBorrow = SumFunction(sn)
  BY <1>2, <1>3, <1>4
<1> QED BY <1>5 DEF sn

\* Only user u's positions in the active reserves of A move, and the totals of
\* those move with them.
UserMoves(u, A) ==
    /\ config' = config
    /\ \A b \in Assets \ A : reserve'[b] = reserve[b]
    /\ \A v \in Users, b \in Assets : v # u \/ b \notin A =>
          scaledSupply'[v][b] = scaledSupply[v][b] /\ scaledBorrow'[v][b] = scaledBorrow[v][b]
    /\ \A b \in A : /\ reserve'[b].totalScaledSupply - reserve[b].totalScaledSupply
                        = scaledSupply'[u][b] - scaledSupply[u][b]
                   /\ reserve'[b].totalScaledBorrow - reserve[b].totalScaledBorrow
                        = scaledBorrow'[u][b] - scaledBorrow[u][b]

LEMMA TotalsFollow ==
    ASSUME TotalsInv, PoolInv', NEW u \in Users, NEW A \in SUBSET Reserves, UserMoves(u, A)
    PROVE  TotalsInv'
<1>1. PoolInv /\ Untouched /\ TotalsAreSums
  BY DEF TotalsInv
<1>2. Reserves' = Reserves
  BY DEF UserMoves, Reserves, Active
<1>3. Untouched'
  BY <1>1, <1>2 DEF Untouched, UserMoves
<1>4. ASSUME NEW a \in Assets
      PROVE  /\ \A v \in Users \ {u} : /\ scaledSupply'[v][a] = scaledSupply[v][a]
                                       /\ scaledBorrow'[v][a] = scaledBorrow[v][a]
             /\ reserve'[a].totalScaledSupply - reserve[a].totalScaledSupply
                  = scaledSupply'[u][a] - scaledSupply[u][a]
             /\ reserve'[a].totalScaledBorrow - reserve[a].totalScaledBorrow
                  = scaledBorrow'[u][a] - scaledBorrow[u][a]
  <2>1. CASE a \in A
    BY <2>1 DEF UserMoves
  <2>2. CASE a \notin A
    <3>1. /\ reserve'[a] = reserve[a]
          /\ scaledSupply'[u][a] = scaledSupply[u][a] /\ scaledBorrow'[u][a] = scaledBorrow[u][a]
      BY <2>2 DEF UserMoves
    <3>2. reserve[a].totalScaledSupply \in Int /\ reserve[a].totalScaledBorrow \in Int
          /\ scaledSupply[u][a] \in Int /\ scaledBorrow[u][a] \in Int
      BY <1>1 DEF PoolInv, TypeOK, ReserveState
    <3>3. \A v \in Users \ {u} : /\ scaledSupply'[v][a] = scaledSupply[v][a]
                                /\ scaledBorrow'[v][a] = scaledBorrow[v][a]
      BY DEF UserMoves
    <3> QED BY <3>1, <3>2, <3>3
  <2> QED BY <2>1, <2>2
<1>5. TotalsAreSums'
  <2> SUFFICES ASSUME NEW a \in Assets
               PROVE  /\ reserve'[a].totalScaledSupply = SumFunction([v \in Users |-> scaledSupply'[v][a]])
                      /\ reserve'[a].totalScaledBorrow = SumFunction([v \in Users |-> scaledBorrow'[v][a]])
    BY DEF TotalsAreSums
  <2>1. /\ reserve[a].totalScaledSupply = SumFunction([v \in Users |-> scaledSupply[v][a]])
        /\ reserve[a].totalScaledBorrow = SumFunction([v \in Users |-> scaledBorrow[v][a]])
    BY <1>1 DEF TotalsAreSums
  <2> QED BY <1>1, <1>4, <2>1, SupplySumFollows, BorrowSumFollows
<1> QED BY <1>3, <1>5 DEF TotalsInv

\* No position moves, nor the totals of a reserve.
LEMMA TotalsStay ==
    ASSUME TotalsInv, PoolInv', config' = config, UNCHANGED <<scaledSupply, scaledBorrow>>,
           \A a \in Assets : /\ reserve'[a].totalScaledSupply = reserve[a].totalScaledSupply
                             /\ reserve'[a].totalScaledBorrow = reserve[a].totalScaledBorrow
    PROVE  TotalsInv'
<1>1. Reserves' = Reserves
  BY DEF Reserves, Active
<1> QED BY <1>1 DEF TotalsInv, Untouched, TotalsAreSums

LEMMA TotalsInit == Init => TotalsInv
<1> SUFFICES ASSUME Init PROVE Untouched /\ TotalsAreSums
  BY PoolInit DEF TotalsInv
<1>1. Untouched
  BY DEF Init, Untouched
<1>2. ASSUME NEW a \in Assets
      PROVE  /\ SumFunction([v \in Users |-> scaledSupply[v][a]]) = 0
             /\ SumFunction([v \in Users |-> scaledBorrow[v][a]]) = 0
  <2> DEFINE s == [v \in Users |-> scaledSupply[v][a]]
             b == [v \in Users |-> scaledBorrow[v][a]]
  <2>1. /\ DOMAIN s = Users /\ DOMAIN b = Users
        /\ \A v \in Users : s[v] = 0 /\ b[v] = 0
    BY DEF Init
  <2> HIDE DEF s, b
  <2>2. SumFunction(s) = 0 /\ SumFunction(b) = 0
    BY <2>1, FiniteAssumption, SumFunctionZero
  <2> QED BY <2>2 DEF s, b
<1>3. \A a \in Assets : reserve[a].totalScaledSupply = 0 /\ reserve[a].totalScaledBorrow = 0
  BY DEF Init
<1> QED BY <1>1, <1>2, <1>3 DEF TotalsAreSums

LEMMA MovesSupply ==
    ASSUME PoolInv, NEW u \in Users, NEW a \in Assets, NEW n \in Amounts, Supply(u, a, n)
    PROVE  a \in Reserves /\ UserMoves(u, {a})
<1> DEFINE r == Accrued(a)
           scaled == ToScaledUp(n, r.liquidityIndex)
           r2 == [r EXCEPT !.totalScaledSupply = @ + scaled]
<1>1. /\ a \in Reserves /\ reserve' = [reserve EXCEPT ![a] = r2]
      /\ scaledSupply' = [scaledSupply EXCEPT ![u][a] = @ + scaled]
      /\ UNCHANGED <<config, scaledBorrow>>
  BY DEF Supply, Reserves
<1>2. /\ r \in ReserveState /\ r.totalScaledSupply = reserve[a].totalScaledSupply
      /\ r.totalScaledBorrow = reserve[a].totalScaledBorrow /\ r.liquidityIndex >= Ray
  BY <1>1, AccruedState
<1>3. n \in Nat /\ r.liquidityIndex \in Nat \ {0}
  BY <1>2, UnitsAssumption DEF ReserveState
<1>4. scaled \in Nat
  BY <1>3, ScaledUp
<1> HIDE DEF r, scaled
<1>5. /\ r2.totalScaledSupply = reserve[a].totalScaledSupply + scaled
      /\ r2.totalScaledBorrow = reserve[a].totalScaledBorrow
  BY <1>2 DEF ReserveState
<1> HIDE DEF r2
<1> QED BY <1>1, <1>4, <1>5 DEF UserMoves, PoolInv, TypeOK, ReserveState

LEMMA MovesWithdraw ==
    ASSUME PoolInv, NEW u \in Users, NEW a \in Assets, NEW n \in Amounts, Withdraw(u, a, n)
    PROVE  a \in Reserves /\ UserMoves(u, {a})
<1> DEFINE r == Accrued(a)
           balance == Scaled(scaledSupply[u][a], r.liquidityIndex)
           withdrawn == IF n = MaxUint THEN balance ELSE n
           scaled == Lesser(ToScaledUp(withdrawn, r.liquidityIndex), scaledSupply[u][a])
           r2 == [r EXCEPT !.totalScaledSupply = @ - scaled]
<1>1. /\ a \in Reserves /\ reserve' = [reserve EXCEPT ![a] = r2]
      /\ scaledSupply' = [scaledSupply EXCEPT ![u][a] = @ - scaled]
      /\ UNCHANGED <<config, scaledBorrow>>
  BY DEF Withdraw, Reserves
<1>2. /\ r \in ReserveState /\ r.totalScaledSupply = reserve[a].totalScaledSupply
      /\ r.totalScaledBorrow = reserve[a].totalScaledBorrow /\ r.liquidityIndex >= Ray
  BY <1>1, AccruedState
<1>3. n \in Nat /\ r.liquidityIndex \in Nat \ {0} /\ scaledSupply[u][a] \in Nat
  BY <1>2, UnitsAssumption DEF ReserveState, PoolInv, TypeOK
<1>4. withdrawn \in Nat
  BY <1>3, ScaledNat
<1>5. scaled \in Nat
  BY <1>3, <1>4, ScaledUp, LesserNat
<1> HIDE DEF r, scaled
<1>6. /\ r2.totalScaledSupply = reserve[a].totalScaledSupply - scaled
      /\ r2.totalScaledBorrow = reserve[a].totalScaledBorrow
  BY <1>2 DEF ReserveState
<1> HIDE DEF r2
<1> QED BY <1>1, <1>5, <1>6 DEF UserMoves, PoolInv, TypeOK, ReserveState

LEMMA MovesBorrow ==
    ASSUME PoolInv, NEW u \in Users, NEW a \in Assets, NEW n \in Amounts, Borrow(u, a, n)
    PROVE  a \in Reserves /\ UserMoves(u, {a})
<1> DEFINE r == Accrued(a)
           scaled == ToScaledUp(n, r.borrowIndex)
           r2 == [r EXCEPT !.totalScaledBorrow = @ + scaled]
<1>1. /\ a \in Reserves /\ reserve' = [reserve EXCEPT ![a] = r2]
      /\ scaledBorrow' = [scaledBorrow EXCEPT ![u][a] = @ + scaled]
      /\ UNCHANGED <<config, scaledSupply>>
  BY DEF Borrow, Reserves
<1>2. /\ r \in ReserveState /\ r.totalScaledSupply = reserve[a].totalScaledSupply
      /\ r.totalScaledBorrow = reserve[a].totalScaledBorrow /\ r.borrowIndex >= Ray
  BY <1>1, AccruedState
<1>3. n \in Nat /\ r.borrowIndex \in Nat \ {0}
  BY <1>2, UnitsAssumption DEF ReserveState
<1>4. scaled \in Nat
  BY <1>3, ScaledUp
<1> HIDE DEF r, scaled
<1>5. /\ r2.totalScaledBorrow = reserve[a].totalScaledBorrow + scaled
      /\ r2.totalScaledSupply = reserve[a].totalScaledSupply
  BY <1>2 DEF ReserveState
<1> HIDE DEF r2
<1> QED BY <1>1, <1>4, <1>5 DEF UserMoves, PoolInv, TypeOK, ReserveState

LEMMA MovesRepay ==
    ASSUME PoolInv, NEW u \in Users, NEW a \in Assets, NEW n \in Amounts, Repay(u, a, n)
    PROVE  a \in Reserves /\ UserMoves(u, {a})
<1> DEFINE r == Accrued(a)
           debt == Scaled(scaledBorrow[u][a], r.borrowIndex)
           repaid == IF n = MaxUint THEN debt ELSE n
           scaled == Lesser(ToScaledUp(repaid, r.borrowIndex), scaledBorrow[u][a])
           r2 == [r EXCEPT !.totalScaledBorrow = @ - scaled]
<1>1. /\ a \in Reserves /\ reserve' = [reserve EXCEPT ![a] = r2]
      /\ scaledBorrow' = [scaledBorrow EXCEPT ![u][a] = @ - scaled]
      /\ UNCHANGED <<config, scaledSupply>>
  BY DEF Repay, Reserves
<1>2. /\ r \in ReserveState /\ r.totalScaledSupply = reserve[a].totalScaledSupply
      /\ r.totalScaledBorrow = reserve[a].totalScaledBorrow /\ r.borrowIndex >= Ray
  BY <1>1, AccruedState
<1>3. n \in Nat /\ r.borrowIndex \in Nat \ {0} /\ scaledBorrow[u][a] \in Nat
  BY <1>2, UnitsAssumption DEF ReserveState, PoolInv, TypeOK
<1>4. repaid \in Nat
  BY <1>3, ScaledNat
<1>5. scaled \in Nat
  BY <1>3, <1>4, ScaledUp, LesserNat
<1> HIDE DEF r, scaled
<1>6. /\ r2.totalScaledBorrow = reserve[a].totalScaledBorrow - scaled
      /\ r2.totalScaledSupply = reserve[a].totalScaledSupply
  BY <1>2 DEF ReserveState
<1> HIDE DEF r2
<1> QED BY <1>1, <1>5, <1>6 DEF UserMoves, PoolInv, TypeOK, ReserveState

LEMMA MovesLiquidate ==
    ASSUME PoolInv, NEW u \in Users, NEW c \in Assets, NEW d \in Assets, NEW n \in Amounts,
           Liquidate(c, d, u, n)
    PROVE  {c, d} \in SUBSET Reserves /\ UserMoves(u, {c, d})
<1> DEFINE rc == Accrued(c)
           rd == Accrued(d)
           quote == Quote(c, d, u, n)
           debtScaled == Lesser(ToScaledUp(quote.repay, rd.borrowIndex), scaledBorrow[u][d])
           collateralScaled == Lesser(ToScaledUp(quote.seize, rc.liquidityIndex), scaledSupply[u][c])
           both == [reserve EXCEPT ![c] = rc, ![d] = rd]
<1>1. /\ c \in Reserves /\ d \in Reserves /\ price[c] # 0 /\ price[d] # 0
      /\ scaledBorrow' = [scaledBorrow EXCEPT ![u][d] = @ - debtScaled]
      /\ scaledSupply' = [scaledSupply EXCEPT ![u][c] = @ - collateralScaled]
      /\ reserve' = [both EXCEPT ![d].totalScaledBorrow = @ - debtScaled,
                                 ![c].totalScaledSupply = @ - collateralScaled]
      /\ config' = config
  BY DEF Liquidate, Reserves
<1>2. /\ rc \in ReserveState /\ rc.liquidityIndex >= Ray
      /\ rd \in ReserveState /\ rd.borrowIndex >= Ray
      /\ rc.totalScaledSupply = reserve[c].totalScaledSupply
      /\ rc.totalScaledBorrow = reserve[c].totalScaledBorrow
      /\ rd.totalScaledSupply = reserve[d].totalScaledSupply
      /\ rd.totalScaledBorrow = reserve[d].totalScaledBorrow
      /\ c = d => rc = rd
  BY <1>1, AccruedState
<1>3. /\ rc.liquidityIndex \in Nat \ {0} /\ rd.borrowIndex \in Nat \ {0}
      /\ scaledBorrow[u][d] \in Nat /\ scaledSupply[u][c] \in Nat
  BY <1>2, UnitsAssumption DEF ReserveState, PoolInv, TypeOK
<1>4. quote.repay \in Nat /\ quote.seize \in Nat
  BY <1>1, UnitsAssumption, QuoteNat
<1>5. debtScaled \in Nat /\ collateralScaled \in Nat
  BY <1>3, <1>4, ScaledUp, LesserNat
<1> HIDE DEF rc, rd, quote, debtScaled, collateralScaled
<1>6. /\ both \in [Assets -> ReserveState]
      /\ both[c] = rc /\ both[d] = rd /\ \A b \in Assets \ {c, d} : both[b] = reserve[b]
  BY <1>1, <1>2 DEF PoolInv, TypeOK
<1> HIDE DEF both
<1>7. \A b \in {c, d} :
        /\ reserve'[b].totalScaledBorrow = IF b = d THEN reserve[b].totalScaledBorrow - debtScaled
                                           ELSE reserve[b].totalScaledBorrow
        /\ reserve'[b].totalScaledSupply = IF b = c THEN reserve[b].totalScaledSupply - collateralScaled
                                           ELSE reserve[b].totalScaledSupply
  BY <1>1, <1>2, <1>6 DEF ReserveState
<1>8. \A b \in Assets \ {c, d} : reserve'[b] = reserve[b]
  BY <1>1, <1>6
<1>9. \A v \in Users, b \in Assets :
        /\ scaledBorrow'[v][b] = IF v = u /\ b = d THEN scaledBorrow[v][b] - debtScaled ELSE scaledBorrow[v][b]
        /\ scaledSupply'[v][b] = IF v = u /\ b = c THEN scaledSupply[v][b] - collateralScaled ELSE scaledSupply[v][b]
  BY <1>1 DEF PoolInv, TypeOK
<1>10. \A b \in {c, d} : /\ reserve[b].totalScaledBorrow \in Nat /\ reserve[b].totalScaledSupply \in Nat
                         /\ scaledBorrow[u][b] \in Nat /\ scaledSupply[u][b] \in Nat
  BY DEF PoolInv, TypeOK, ReserveState
<1>11. ASSUME NEW b \in {c, d}
       PROVE  /\ reserve'[b].totalScaledSupply - reserve[b].totalScaledSupply
                   = scaledSupply'[u][b] - scaledSupply[u][b]
              /\ reserve'[b].totalScaledBorrow - reserve[b].totalScaledBorrow
                   = scaledBorrow'[u][b] - scaledBorrow[u][b]
  <2>1. CASE b = c
    <3>1. reserve'[b].totalScaledSupply - reserve[b].totalScaledSupply
            = scaledSupply'[u][b] - scaledSupply[u][b]
      BY <2>1, <1>5, <1>7, <1>9, <1>10
    <3>2. b = d => reserve'[b].totalScaledBorrow - reserve[b].totalScaledBorrow
                     = scaledBorrow'[u][b] - scaledBorrow[u][b]
      BY <1>5, <1>7, <1>9, <1>10
    <3>3. b # d => reserve'[b].totalScaledBorrow - reserve[b].totalScaledBorrow
                     = scaledBorrow'[u][b] - scaledBorrow[u][b]
      BY <1>7, <1>9, <1>10
    <3> QED BY <3>1, <3>2, <3>3
  <2>2. CASE b = d
    <3>1. reserve'[b].totalScaledBorrow - reserve[b].totalScaledBorrow
            = scaledBorrow'[u][b] - scaledBorrow[u][b]
      BY <2>2, <1>5, <1>7, <1>9, <1>10
    <3>2. b # c => reserve'[b].totalScaledSupply - reserve[b].totalScaledSupply
                     = scaledSupply'[u][b] - scaledSupply[u][b]
      BY <1>7, <1>9, <1>10
    <3> QED BY <3>1, <3>2, <2>1
  <2> QED BY <2>1, <2>2
<1>12. \A v \in Users, b \in Assets : v # u \/ b \notin {c, d} =>
         scaledSupply'[v][b] = scaledSupply[v][b] /\ scaledBorrow'[v][b] = scaledBorrow[v][b]
  BY <1>9
<1> QED BY <1>1, <1>8, <1>11, <1>12 DEF UserMoves

\* Adding a reserve starts its totals at zero, which is what everyone has in it.
LEMMA TotalsAdd ==
    ASSUME TotalsInv, PoolInv', NEW a \in Assets, NEW p \in Params, AddReserve(a, p)
    PROVE  TotalsInv'
<1>1. PoolInv /\ Untouched /\ TotalsAreSums
  BY DEF TotalsInv
<1>2. /\ a \in Assets \ Reserves /\ ValidRiskParams(p) /\ UNCHANGED <<scaledSupply, scaledBorrow>>
      /\ config' = [config EXCEPT ![a] = p]
      /\ reserve' = [reserve EXCEPT ![a] = [liquidityIndex |-> Ray, borrowIndex |-> Ray, elapsed |-> 0,
                                           totalScaledSupply |-> 0, totalScaledBorrow |-> 0]]
  BY DEF AddReserve, Reserves
<1>3. \A b \in Assets : /\ reserve'[b].totalScaledSupply = reserve[b].totalScaledSupply
                        /\ reserve'[b].totalScaledBorrow = reserve[b].totalScaledBorrow
  BY <1>1, <1>2 DEF Untouched, PoolInv, TypeOK
<1>4. Reserves' = Reserves \cup {a}
  <2>1. p # NoReserve
    BY <1>2, ValidFactor, ParamsAssumption
  <2> QED BY <1>1, <1>2, <2>1 DEF Reserves, Active, PoolInv, TypeOK
<1>5. Untouched'
  BY <1>1, <1>2, <1>3, <1>4 DEF Untouched
<1>6. TotalsAreSums'
  BY <1>1, <1>2, <1>3 DEF TotalsAreSums
<1> QED BY <1>5, <1>6 DEF TotalsInv

LEMMA TotalsNext == TotalsInv /\ [Next]_vars => TotalsInv'
<1> SUFFICES ASSUME TotalsInv, [Next]_vars PROVE TotalsInv'
  OBVIOUS
<1>0. PoolInv /\ PoolInv'
  BY PoolNext DEF TotalsInv
<1>1. CASE UNCHANGED vars \/ SetPaused \/ (\E a \in Assets, n \in Amounts : Donate(a, n))
                          \/ (\E a \in Assets, p \in Prices : SetPrice(a, p))
  <2>1. UNCHANGED <<config, reserve, scaledSupply, scaledBorrow>>
    BY <1>1 DEF vars, SetPaused, Donate, SetPrice
  <2> QED BY <1>0, <2>1, TotalsStay
<1>2. ASSUME NEW a \in Assets, NEW p \in Params, AddReserve(a, p) PROVE TotalsInv'
  BY <1>0, <1>2, TotalsAdd
<1>3. ASSUME NEW a \in Assets, NEW p \in Params, SetReserveRiskParams(a, p) PROVE TotalsInv'
  <2>1. /\ UNCHANGED <<reserve, scaledSupply, scaledBorrow>>
        /\ \E q : config' = [config EXCEPT ![a] = q]
        /\ a \in Reserves
    BY <1>3 DEF SetReserveRiskParams, Reserves
  <2>2. \A b \in Assets \ Reserves' : b \in Assets \ Reserves
    <3>1. \A b \in Reserves \ {a} : b \in Reserves'
      BY <2>1 DEF Reserves, Active, PoolInv, TypeOK
    <3>2. a \in Reserves'
      <4> DEFINE q == [p EXCEPT !.factor = config[a].factor]
      <4>1. q \in RiskParams /\ ValidRiskParams(q)
        BY <1>0, <1>3, ParamsAssumption DEF SetReserveRiskParams, RiskParams, PoolInv, TypeOK
      <4>2. config'[a] = q
        BY <1>0, <1>3 DEF SetReserveRiskParams, PoolInv, TypeOK
      <4> HIDE DEF q
      <4> QED BY <4>1, <4>2, ValidFactor DEF Reserves, Active
    <3> QED BY <3>1, <3>2
  <2>3. Untouched'
    BY <2>1, <2>2 DEF TotalsInv, Untouched
  <2>4. TotalsAreSums'
    BY <2>1 DEF TotalsInv, TotalsAreSums
  <2> QED BY <1>0, <2>3, <2>4 DEF TotalsInv
<1>4. ASSUME NEW a \in Assets, NEW n \in Amounts, SweepProtocolFees(a, n) PROVE TotalsInv'
  <2>1. /\ a \in Reserves /\ reserve' = [reserve EXCEPT ![a] = Accrued(a)]
        /\ UNCHANGED <<config, scaledSupply, scaledBorrow>>
    BY <1>4 DEF SweepProtocolFees, Reserves
  <2>2. \A b \in Assets : /\ reserve'[b].totalScaledSupply = reserve[b].totalScaledSupply
                          /\ reserve'[b].totalScaledBorrow = reserve[b].totalScaledBorrow
    BY <1>0, <2>1, AccruedState DEF PoolInv, TypeOK
  <2> QED BY <1>0, <2>1, <2>2, TotalsStay
<1>5. ASSUME NEW u \in Users, NEW a \in Assets, NEW n \in Amounts,
             Supply(u, a, n) \/ Withdraw(u, a, n) \/ Borrow(u, a, n) \/ Repay(u, a, n)
      PROVE  TotalsInv'
  <2>1. {a} \in SUBSET Reserves /\ UserMoves(u, {a})
    BY <1>0, <1>5, MovesSupply, MovesWithdraw, MovesBorrow, MovesRepay
  <2> QED BY <1>0, <2>1, TotalsFollow
<1>6. ASSUME NEW u \in Users, NEW c \in Assets, NEW d \in Assets, NEW n \in Amounts, Liquidate(c, d, u, n)
      PROVE  TotalsInv'
  <2>1. {c, d} \in SUBSET Reserves /\ UserMoves(u, {c, d})
    BY <1>0, <1>6, MovesLiquidate
  <2> QED BY <1>0, <2>1, TotalsFollow
<1>7. CASE Advance
  <2>1. ASSUME NEW a \in Assets
        PROVE  /\ reserve'[a].totalScaledSupply = reserve[a].totalScaledSupply
               /\ reserve'[a].totalScaledBorrow = reserve[a].totalScaledBorrow
    <3>1. reserve'[a] = IF Active(a) THEN [reserve[a] EXCEPT !.elapsed = @ + 1] ELSE reserve[a]
      BY <1>7 DEF Advance
    <3>2. reserve[a] \in ReserveState
      BY <1>0 DEF PoolInv, TypeOK
    <3> QED BY <3>1, <3>2 DEF ReserveState
  <2>2. UNCHANGED <<config, scaledSupply, scaledBorrow>>
    BY <1>7 DEF Advance
  <2> QED BY <1>0, <2>1, <2>2, TotalsStay
<1> QED BY <1>1, <1>2, <1>3, <1>4, <1>5, <1>6, <1>7 DEF Next

LEMMA TotalsInvariant == Spec => []TotalsInv
<1> QED BY TotalsInit, TotalsNext, PTL DEF Spec

\* For any number of users and assets: what a reserve books in total is the sum
\* of what its users hold and owe, through every call, liquidations included.
THEOREM TotalsCorrect == Spec => []TotalsAreSums
<1>1. TotalsInv => TotalsAreSums
  BY DEF TotalsInv
<1> QED BY <1>1, TotalsInvariant, PTL

-----------------------------------------------------------------------------
(* Health *)

\* HealthInv also holds that what can be borrowed against collateral is no more
\* than what keeps a position from liquidation.
HealthInv ==
    /\ TotalsInv
    /\ \A a \in Reserves : config[a].ltv <= config[a].lt

LEMMA HealthInvInit == Init => HealthInv
<1>1. Init => Reserves = {}
  BY DEF Init, Reserves, Active
<1> QED BY <1>1, TotalsInit DEF HealthInv

LEMMA HealthInvNext == HealthInv /\ [Next]_vars => HealthInv'
<1> SUFFICES ASSUME HealthInv, [Next]_vars
             PROVE  \A a \in Reserves' : config'[a].ltv <= config'[a].lt
  BY TotalsNext DEF HealthInv
<1>0. config \in [Assets -> RiskParams]
  BY DEF HealthInv, TotalsInv, PoolInv, TypeOK
<1>1. CASE config' = config
  BY <1>1 DEF HealthInv, Reserves, Active
<1>2. ASSUME NEW a \in Assets, NEW p \in Params, AddReserve(a, p) \/ SetReserveRiskParams(a, p)
      PROVE  \A b \in Reserves' : config'[b].ltv <= config'[b].lt
  <2>1. p \in RiskParams /\ config[a] \in RiskParams
    BY <1>0, ParamsAssumption
  <2>2. PICK q \in RiskParams : config' = [config EXCEPT ![a] = q] /\ q.ltv <= q.lt
    BY <1>2, <2>1 DEF AddReserve, SetReserveRiskParams, ValidRiskParams, RiskParams
  <2> QED BY <1>0, <2>2 DEF HealthInv, Reserves, Active
<1>3. CASE UNCHANGED vars \/ SetPaused \/ Advance \/ \E a \in Assets, p \in Prices : SetPrice(a, p)
  BY <1>1, <1>3 DEF vars, SetPaused, Advance, SetPrice
<1>4. CASE \E a \in Assets, n \in Amounts : SweepProtocolFees(a, n) \/ Donate(a, n)
  BY <1>1, <1>4 DEF SweepProtocolFees, Donate
<1>5. CASE \E u \in Users, a \in Assets, n \in Amounts :
             Supply(u, a, n) \/ Withdraw(u, a, n) \/ Borrow(u, a, n) \/ Repay(u, a, n)
  BY <1>1, <1>5 DEF Supply, Withdraw, Borrow, Repay
<1>6. CASE \E u \in Users, c, d \in Assets, n \in Amounts : Liquidate(c, d, u, n)
  BY <1>1, <1>6 DEF Liquidate
<1> QED BY <1>2, <1>3, <1>4, <1>5, <1>6 DEF Next

LEMMA HealthInvariant == Spec => []HealthInv
<1> QED BY HealthInvInit, HealthInvNext, PTL DEF Spec

\* A health factor of at least one says that the adjusted collateral covers the debt.
LEMMA FactorMeans ==
    ASSUME NEW debt \in Nat, NEW adjusted \in Nat
    PROVE  (IF debt = 0 THEN MaxUint ELSE (adjusted * Wad) \div debt) >= Wad <=> debt <= adjusted
<1>1. CASE debt = 0
  BY <1>1, UnitsAssumption
<1>2. CASE debt # 0
  <2> DEFINE x == adjusted * Wad
             q == x \div debt
  <2>1. x \in Nat /\ debt \in Nat \ {0} /\ Wad \in Nat \ {0}
    BY <1>2, UnitsAssumption, SMT
  <2>2. x = Wad * adjusted
    BY <2>1, SMT
  <2> HIDE DEF x
  <2>3. q \in Nat /\ debt * q <= x /\ x < debt * q + debt
    BY <2>1, Division
  <2> HIDE DEF q
  <2>4. ASSUME debt <= adjusted PROVE q >= Wad
    <3>1. Wad * debt <= Wad * adjusted /\ Wad * debt \in Nat
      BY <2>1, <2>4, Monotone
    <3>2. debt * Wad < debt * q + debt
      BY <3>1, <2>1, <2>2, <2>3, SMT
    <3> QED BY <3>2, <2>1, <2>3, QuotientBelow
  <2>5. ASSUME q >= Wad PROVE debt <= adjusted
    <3>1. debt * Wad <= debt * q /\ debt * Wad \in Nat /\ debt * q \in Nat
      BY <2>1, <2>3, <2>5, Monotone
    <3>2. Wad * debt < Wad * adjusted + Wad
      BY <3>1, <2>1, <2>2, <2>3, SMT
    <3> QED BY <3>2, <2>1, QuotientBelow
  <2>6. q >= Wad <=> debt <= adjusted
    BY <2>4, <2>5
  <2> QED BY <1>2, <2>6 DEF q, x
<1> QED BY <1>1, <1>2

\* A larger amount is worth no less, and counts for no less.
LEMMA QuotientMonotone ==
    ASSUME NEW m \in Nat, NEW n \in Nat, m <= n, NEW k \in Nat, NEW y \in Nat \ {0}
    PROVE  (m * k) \div y <= (n * k) \div y /\ (m * k) \div y \in Nat /\ (n * k) \div y \in Nat
<1> DEFINE x == m * k
           z == n * k
<1>1. x \in Nat /\ z \in Nat /\ x <= z
  BY Monotone
<1> HIDE DEF x, z
<1>2. x \div y \in Nat /\ y * (x \div y) <= x /\ z \div y \in Nat
  BY <1>1, Division
<1>3. x \div y <= z \div y
  <2> DEFINE q == x \div y
  <2>1. q \in Nat /\ y * q <= z
    <3>1. y * q \in Nat
      BY <1>2, SMT
    <3> QED BY <3>1, <1>1, <1>2
  <2> HIDE DEF q
  <2>2. q <= z \div y
    BY <1>1, <2>1, QuotientAbove
  <2> QED BY <2>2 DEF q
<1> QED BY <1>2, <1>3 DEF x, z

LEMMA ScaledMonotone ==
    ASSUME NEW m \in Nat, NEW n \in Nat, m <= n, NEW index \in Nat
    PROVE  Scaled(m, index) <= Scaled(n, index)
BY QuotientMonotone, UnitsAssumption DEF Scaled

LEMMA ValueMonotone ==
    ASSUME PoolInv, NEW a \in Assets, NEW m \in Nat, NEW n \in Nat, m <= n
    PROVE  AssetValue(a, m) <= AssetValue(a, n) /\ AssetValue(a, m) \in Nat /\ AssetValue(a, n) \in Nat
<1>1. price[a] \in Nat /\ Unit[a] \in Nat \ {0}
  BY ValueNat
<1> QED BY <1>1, QuotientMonotone DEF AssetValue

Positions == [Users -> [Assets -> Nat]]

LEMMA ReservesFinite == IsFiniteSet(Reserves)
<1>1. Reserves \in SUBSET Assets
  BY DEF Reserves
<1> QED BY <1>1, FiniteAssumption, FS_Subset

\* A smaller debt is worth no more.
LEMMA DebtMonotone ==
    ASSUME PoolInv, NEW u \in Users, NEW sb \in Positions, NEW sc \in Positions,
           \A a \in Reserves : sb[u][a] <= sc[u][a]
    PROVE  DebtValue(sb, u) <= DebtValue(sc, u) /\ DebtValue(sb, u) \in Nat /\ DebtValue(sc, u) \in Nat
<1> DEFINE f == [a \in Reserves |-> AssetValue(a, Debt(sb, u, a))]
           g == [a \in Reserves |-> AssetValue(a, Debt(sc, u, a))]
<1>1. ASSUME NEW a \in Reserves
      PROVE  /\ AssetValue(a, Debt(sb, u, a)) <= AssetValue(a, Debt(sc, u, a))
             /\ AssetValue(a, Debt(sb, u, a)) \in Nat /\ AssetValue(a, Debt(sc, u, a)) \in Nat
  <2>1. a \in Assets /\ ProjectBorrowIndex(a) \in Nat /\ sb[u][a] \in Nat /\ sc[u][a] \in Nat
    BY Projected DEF Reserves, Positions
  <2>2. Debt(sb, u, a) <= Debt(sc, u, a) /\ Debt(sb, u, a) \in Nat /\ Debt(sc, u, a) \in Nat
    BY <2>1, ScaledMonotone, ScaledNat DEF Debt
  <2> QED BY <2>1, <2>2, ValueMonotone
<1>2. f \in [Reserves -> Nat] /\ g \in [Reserves -> Nat] /\ \A a \in Reserves : f[a] <= g[a]
  BY <1>1
<1>3. DebtValue(sb, u) = SumFunction(f) /\ DebtValue(sc, u) = SumFunction(g)
  BY DEF DebtValue
<1> HIDE DEF f, g
<1>4. f \in [Reserves -> Int] /\ g \in [Reserves -> Int]
  BY <1>2
<1> QED BY <1>2, <1>3, <1>4, ReservesFinite, SumFunctionMonotone, SumFunctionNat

\* More collateral counts for no less.
LEMMA CollateralMonotone ==
    ASSUME PoolInv, NEW u \in Users, NEW ss \in Positions, NEW st \in Positions,
           \A a \in Reserves : ss[u][a] <= st[u][a]
    PROVE  /\ AdjustedCollateral(ss, u) <= AdjustedCollateral(st, u)
           /\ AdjustedCollateral(ss, u) \in Nat /\ AdjustedCollateral(st, u) \in Nat
<1> DEFINE f == [a \in Reserves |-> (AssetValue(a, Collateral(ss, u, a)) * config[a].lt) \div Bps]
           g == [a \in Reserves |-> (AssetValue(a, Collateral(st, u, a)) * config[a].lt) \div Bps]
<1>1. ASSUME NEW a \in Reserves
      PROVE  /\ f[a] <= g[a] /\ f[a] \in Nat /\ g[a] \in Nat
  <2>1. /\ a \in Assets /\ ProjectLiquidityIndex(a) \in Nat /\ ss[u][a] \in Nat /\ st[u][a] \in Nat
        /\ config[a].lt \in Nat /\ Bps \in Nat \ {0}
    BY Projected, UnitsAssumption DEF Reserves, Positions, PoolInv, TypeOK, RiskParams
  <2>2. Collateral(ss, u, a) <= Collateral(st, u, a) /\ Collateral(ss, u, a) \in Nat /\ Collateral(st, u, a) \in Nat
    BY <2>1, ScaledMonotone, ScaledNat DEF Collateral
  <2>3. /\ AssetValue(a, Collateral(ss, u, a)) <= AssetValue(a, Collateral(st, u, a))
        /\ AssetValue(a, Collateral(ss, u, a)) \in Nat /\ AssetValue(a, Collateral(st, u, a)) \in Nat
    BY <2>1, <2>2, ValueMonotone
  <2>4. /\ f[a] = (AssetValue(a, Collateral(ss, u, a)) * config[a].lt) \div Bps
        /\ g[a] = (AssetValue(a, Collateral(st, u, a)) * config[a].lt) \div Bps
    OBVIOUS
  <2> DEFINE v == AssetValue(a, Collateral(ss, u, a))
             w == AssetValue(a, Collateral(st, u, a))
  <2>5. /\ (v * config[a].lt) \div Bps <= (w * config[a].lt) \div Bps
        /\ (v * config[a].lt) \div Bps \in Nat /\ (w * config[a].lt) \div Bps \in Nat
    <3>1. v \in Nat /\ w \in Nat /\ v <= w
      BY <2>3
    <3> HIDE DEF v, w
    <3> QED BY <2>1, <3>1, QuotientMonotone
  <2> HIDE DEF f, g
  <2> QED BY <2>4, <2>5, Zenon DEF v, w
<1>2. AdjustedCollateral(ss, u) = SumFunction(f) /\ AdjustedCollateral(st, u) = SumFunction(g)
  BY DEF AdjustedCollateral
<1>3. DOMAIN f = Reserves /\ f = [a \in Reserves |-> f[a]] /\ DOMAIN g = Reserves /\ g = [a \in Reserves |-> g[a]]
  BY Zenon
<1> HIDE DEF f, g
<1>4. /\ f \in [Reserves -> Nat] /\ g \in [Reserves -> Nat]
      /\ f \in [Reserves -> Int] /\ g \in [Reserves -> Int]
  BY <1>1, <1>3
<1> QED BY <1>1, <1>2, <1>4, ReservesFinite, SumFunctionMonotone, SumFunctionNat

\* What can be borrowed against collateral is below what protects it.
LEMMA PowerBelowAdjusted ==
    ASSUME HealthInv, NEW u \in Users, NEW ss \in Positions
    PROVE  /\ BorrowPower(ss, u) <= AdjustedCollateral(ss, u)
           /\ BorrowPower(ss, u) \in Nat
<1> DEFINE f == [a \in Reserves |-> (AssetValue(a, Collateral(ss, u, a)) * config[a].ltv) \div Bps]
           g == [a \in Reserves |-> (AssetValue(a, Collateral(ss, u, a)) * config[a].lt) \div Bps]
<1>0. PoolInv
  BY DEF HealthInv, TotalsInv
<1>1. ASSUME NEW a \in Reserves
      PROVE  /\ f[a] <= g[a] /\ f[a] \in Nat /\ g[a] \in Nat
  <2>1. /\ a \in Assets /\ ProjectLiquidityIndex(a) \in Nat /\ ss[u][a] \in Nat
        /\ config[a].lt \in Nat /\ config[a].ltv \in Nat /\ config[a].ltv <= config[a].lt /\ Bps \in Nat \ {0}
    BY <1>0, Projected, UnitsAssumption DEF HealthInv, Reserves, Positions, PoolInv, TypeOK, RiskParams
  <2> DEFINE value == AssetValue(a, Collateral(ss, u, a))
  <2>2. value \in Nat
    BY <1>0, <2>1, ScaledNat, ValueNat DEF Collateral
  <2>3. f[a] = (value * config[a].ltv) \div Bps /\ g[a] = (value * config[a].lt) \div Bps
    OBVIOUS
  <2> HIDE DEF value, f, g
  <2>4. value * config[a].ltv = config[a].ltv * value /\ value * config[a].lt = config[a].lt * value
    BY <2>1, <2>2, SMT
  <2> DEFINE v == config[a].ltv
             w == config[a].lt
  <2>5. /\ (v * value) \div Bps <= (w * value) \div Bps
        /\ (v * value) \div Bps \in Nat /\ (w * value) \div Bps \in Nat
    <3>1. v \in Nat /\ w \in Nat /\ v <= w
      BY <2>1
    <3> HIDE DEF v, w
    <3> QED BY <2>1, <2>2, <3>1, QuotientMonotone
  <2> QED BY <2>3, <2>4, <2>5, Zenon DEF v, w
<1>2. BorrowPower(ss, u) = SumFunction(f) /\ AdjustedCollateral(ss, u) = SumFunction(g)
  BY DEF BorrowPower, AdjustedCollateral
<1>3. DOMAIN f = Reserves /\ f = [a \in Reserves |-> f[a]] /\ DOMAIN g = Reserves /\ g = [a \in Reserves |-> g[a]]
  BY Zenon
<1> HIDE DEF f, g
<1>4. /\ f \in [Reserves -> Nat] /\ g \in [Reserves -> Nat]
      /\ f \in [Reserves -> Int] /\ g \in [Reserves -> Int]
  BY <1>1, <1>3
<1> QED BY <1>1, <1>2, <1>4, ReservesFinite, SumFunctionMonotone, SumFunctionNat

LEMMA HealthyCovered ==
    ASSUME PoolInv, NEW u \in Users, NEW ss \in Positions, NEW sb \in Positions
    PROVE  HealthFactor(ss, sb, u) >= Wad <=> DebtValue(sb, u) <= AdjustedCollateral(ss, u)
<1>1. DebtValue(sb, u) \in Nat /\ AdjustedCollateral(ss, u) \in Nat
  <2>1. \A a \in Reserves : sb[u][a] <= sb[u][a] /\ ss[u][a] <= ss[u][a]
    BY DEF Positions, Reserves
  <2> QED BY <2>1, DebtMonotone, CollateralMonotone
<1> QED BY <1>1, FactorMeans DEF HealthFactor

\* Of the state before a step and of the state after it: the debt of a healthy
\* position is covered, that of one that can be liquidated is not, and a reserve
\* left alone for no time reads at its stored indexes.
Covered(u) == DebtValue(scaledBorrow, u) <= AdjustedCollateral(scaledSupply, u)

HealthReads ==
    /\ \A u \in Users : (Healthy(u) => Covered(u)) /\ (Liquidatable(u) => ~Covered(u))
    /\ \A a \in Reserves : reserve[a].elapsed = 0 =>
          /\ ProjectLiquidityIndex(a) = reserve[a].liquidityIndex
          /\ ProjectBorrowIndex(a) = reserve[a].borrowIndex
    /\ \A a \in Reserves : ProjectLiquidityIndex(a) \in Nat /\ ProjectBorrowIndex(a) \in Nat

LEMMA HealthRead == PoolInv => HealthReads
<1> SUFFICES ASSUME PoolInv PROVE HealthReads
  OBVIOUS
<1>1. scaledSupply \in Positions /\ scaledBorrow \in Positions
  BY DEF PoolInv, TypeOK, Positions
<1>2. ASSUME NEW u \in Users
      PROVE  HealthFactor(scaledSupply, scaledBorrow, u) >= Wad <=> Covered(u)
  BY <1>1, HealthyCovered DEF Covered
<1>3. ASSUME NEW u \in Users
      PROVE  (Healthy(u) => Covered(u)) /\ (Liquidatable(u) => ~Covered(u))
  <2> DEFINE h == HealthFactor(scaledSupply, scaledBorrow, u)
  <2>1. h \in Int
    <3>1. \A a \in Reserves : scaledBorrow[u][a] <= scaledBorrow[u][a] /\ scaledSupply[u][a] <= scaledSupply[u][a]
      BY <1>1 DEF Positions, Reserves
    <3>2. DebtValue(scaledBorrow, u) \in Nat /\ AdjustedCollateral(scaledSupply, u) \in Nat
      BY <1>1, <3>1, DebtMonotone, CollateralMonotone
    <3> DEFINE debt == DebtValue(scaledBorrow, u)
               x == AdjustedCollateral(scaledSupply, u) * Wad
    <3>3. x \in Int /\ h = IF debt = 0 THEN MaxUint ELSE x \div debt
      BY <3>2, UnitsAssumption, SMT DEF HealthFactor
    <3> HIDE DEF h, x, debt
    <3>4. debt \in Nat
      BY <3>2 DEF debt
    <3> QED BY <3>3, <3>4, Division, UnitsAssumption
  <2>2. h >= Wad <=> Covered(u)
    BY <1>2
  <2>3. (Healthy(u) => h >= Wad) /\ (Liquidatable(u) => h < Wad)
    BY DEF Healthy, Liquidatable
  <2> HIDE DEF h
  <2> QED BY <2>1, <2>2, <2>3, UnitsAssumption
<1> QED BY <1>3, Projected DEF HealthReads

LEMMA HealthReadNext == (PoolInv => HealthReads)'
BY HealthRead, PTL

\* A call brings the reserves of A up to date and leaves the others alone: all
\* indexes read as before.
BroughtUpToDate(A) ==
    /\ config' = config /\ price' = price
    /\ \A a \in A : /\ reserve'[a].liquidityIndex = ProjectLiquidityIndex(a)
                    /\ reserve'[a].borrowIndex = ProjectBorrowIndex(a)
                    /\ reserve'[a].elapsed = 0
    /\ \A a \in Assets \ A : reserve'[a] = reserve[a] /\ cash'[a] = cash[a]

LEMMA IndexesKept ==
    ASSUME PoolInv', NEW A \in SUBSET Reserves, BroughtUpToDate(A), NEW a \in Reserves
    PROVE  /\ ProjectLiquidityIndex(a)' = ProjectLiquidityIndex(a)
           /\ ProjectBorrowIndex(a)' = ProjectBorrowIndex(a)
<1>1. Reserves' = Reserves
  BY DEF BroughtUpToDate, Reserves, Active
<1>2. CASE a \in A
  <2>1. reserve'[a].elapsed = 0 => /\ ProjectLiquidityIndex(a)' = reserve'[a].liquidityIndex
                                   /\ ProjectBorrowIndex(a)' = reserve'[a].borrowIndex
    BY <1>1, HealthReadNext DEF HealthReads
  <2> QED BY <1>2, <2>1 DEF BroughtUpToDate
<1>3. CASE a \notin A
  <2>1. reserve'[a] = reserve[a] /\ cash'[a] = cash[a] /\ config'[a] = config[a]
    BY <1>3 DEF BroughtUpToDate, Reserves
  <2> QED BY <2>1 DEF ProjectLiquidityIndex, ProjectBorrowIndex, UtilizationOf
<1> QED BY <1>2, <1>3

LEMMA ValuesKept ==
    ASSUME PoolInv', NEW A \in SUBSET Reserves, BroughtUpToDate(A), NEW u \in Users
    PROVE  Covered(u)' <=> DebtValue(scaledBorrow', u) <= AdjustedCollateral(scaledSupply', u)
<1>1. Reserves' = Reserves /\ config' = config /\ price' = price
  BY DEF BroughtUpToDate, Reserves, Active
<1>2. \A a \in Reserves : /\ Debt(scaledBorrow, u, a)' = Debt(scaledBorrow', u, a)
                          /\ Collateral(scaledSupply, u, a)' = Collateral(scaledSupply', u, a)
  BY IndexesKept DEF Debt, Collateral
<1>3. \A a \in Reserves : /\ AssetValue(a, Debt(scaledBorrow, u, a))' = AssetValue(a, Debt(scaledBorrow', u, a))
                          /\ AssetValue(a, Collateral(scaledSupply, u, a))'
                               = AssetValue(a, Collateral(scaledSupply', u, a))
  BY <1>1, <1>2 DEF AssetValue
<1>4. [a \in Reserves' |-> AssetValue(a, Debt(scaledBorrow, u, a))']
        = [a \in Reserves |-> AssetValue(a, Debt(scaledBorrow', u, a))]
  BY <1>1, <1>3
<1>5. [a \in Reserves' |-> (AssetValue(a, Collateral(scaledSupply, u, a))' * config'[a].lt) \div Bps]
        = [a \in Reserves |-> (AssetValue(a, Collateral(scaledSupply', u, a)) * config[a].lt) \div Bps]
  BY <1>1, <1>3
<1>6. DebtValue(scaledBorrow, u)' = DebtValue(scaledBorrow', u)
  BY <1>4, Zenon DEF DebtValue
<1>7. AdjustedCollateral(scaledSupply, u)' = AdjustedCollateral(scaledSupply', u)
  BY <1>5, Zenon DEF AdjustedCollateral
<1> QED BY <1>6, <1>7 DEF Covered

\* More collateral and less debt keep a position covered.
LEMMA CoverKept ==
    ASSUME PoolInv, PoolInv', NEW A \in SUBSET Reserves, BroughtUpToDate(A),
           NEW u \in Users, Covered(u),
           \A a \in Reserves : /\ scaledSupply[u][a] <= scaledSupply'[u][a]
                               /\ scaledBorrow'[u][a] <= scaledBorrow[u][a]
    PROVE  Covered(u)'
<1>1. /\ scaledSupply \in Positions /\ scaledBorrow \in Positions
      /\ scaledSupply' \in Positions /\ scaledBorrow' \in Positions
  BY DEF PoolInv, TypeOK, Positions
<1>2. /\ DebtValue(scaledBorrow', u) <= DebtValue(scaledBorrow, u)
      /\ DebtValue(scaledBorrow', u) \in Nat /\ DebtValue(scaledBorrow, u) \in Nat
  BY <1>1, DebtMonotone
<1>3. /\ AdjustedCollateral(scaledSupply, u) <= AdjustedCollateral(scaledSupply', u)
      /\ AdjustedCollateral(scaledSupply, u) \in Nat /\ AdjustedCollateral(scaledSupply', u) \in Nat
  BY <1>1, CollateralMonotone
<1>4. DebtValue(scaledBorrow', u) <= AdjustedCollateral(scaledSupply', u)
  BY <1>2, <1>3 DEF Covered
<1> QED BY <1>4, ValuesKept

\* What each call leaves in the reserve it works on.
LEMMA UpToDate ==
    ASSUME PoolInv, NEW a \in Assets, NEW n \in Amounts,
           \/ SweepProtocolFees(a, n)
           \/ \E u \in Users : Supply(u, a, n) \/ Withdraw(u, a, n) \/ Borrow(u, a, n) \/ Repay(u, a, n)
    PROVE  a \in Reserves /\ BroughtUpToDate({a})
<1>1. reserve \in [Assets -> ReserveState] /\ cash \in [Assets -> Nat]
  BY DEF PoolInv, TypeOK
<1>2. a \in Reserves
  BY DEF SweepProtocolFees, Supply, Withdraw, Borrow, Repay, Reserves
<1>3. Accrued(a) \in ReserveState /\ Accrued(a).liquidityIndex = ProjectLiquidityIndex(a)
      /\ Accrued(a).borrowIndex = ProjectBorrowIndex(a) /\ Accrued(a).elapsed = 0
  BY <1>2, AccruedState
<1> DEFINE r == Accrued(a)
<1> HIDE DEF r
<1>4. /\ config' = config /\ price' = price
      /\ \E m : cash' = [cash EXCEPT ![a] = m]
  BY DEF SweepProtocolFees, Supply, Withdraw, Borrow, Repay
<1>5. /\ \E q : reserve' = [reserve EXCEPT ![a] = q]
      /\ reserve'[a].liquidityIndex = r.liquidityIndex /\ reserve'[a].borrowIndex = r.borrowIndex
      /\ reserve'[a].elapsed = r.elapsed
  <2>1. CASE SweepProtocolFees(a, n)
    <3>1. reserve' = [reserve EXCEPT ![a] = r]
      BY <2>1 DEF SweepProtocolFees, r
    <3> QED BY <1>1, <3>1
  <2>2. CASE \E u \in Users : Supply(u, a, n) \/ Withdraw(u, a, n)
    <3>1. PICK s : reserve' = [reserve EXCEPT ![a] = [r EXCEPT !.totalScaledSupply = s]]
      BY <2>2 DEF Supply, Withdraw, r
    <3>2. reserve'[a] = [r EXCEPT !.totalScaledSupply = s]
      BY <1>1, <3>1
    <3> QED BY <1>3, <3>1, <3>2 DEF r, ReserveState
  <2>3. CASE \E u \in Users : Borrow(u, a, n) \/ Repay(u, a, n)
    <3>1. PICK b : reserve' = [reserve EXCEPT ![a] = [r EXCEPT !.totalScaledBorrow = b]]
      BY <2>3 DEF Borrow, Repay, r
    <3>2. reserve'[a] = [r EXCEPT !.totalScaledBorrow = b]
      BY <1>1, <3>1
    <3> QED BY <1>3, <3>1, <3>2 DEF r, ReserveState
  <2> QED BY <2>1, <2>2, <2>3
<1>6. \A b \in Assets \ {a} : reserve'[b] = reserve[b] /\ cash'[b] = cash[b]
  BY <1>1, <1>4, <1>5
<1> QED BY <1>2, <1>3, <1>4, <1>5, <1>6 DEF BroughtUpToDate, r

LEMMA UpToDateLiquidate ==
    ASSUME PoolInv, NEW u \in Users, NEW c \in Assets, NEW d \in Assets, NEW n \in Amounts,
           Liquidate(c, d, u, n)
    PROVE  {c, d} \in SUBSET Reserves /\ BroughtUpToDate({c, d})
<1> DEFINE rc == Accrued(c)
           rd == Accrued(d)
           both == [reserve EXCEPT ![c] = rc, ![d] = rd]
<1>1. /\ c \in Reserves /\ d \in Reserves
      /\ config' = config /\ price' = price
      /\ \E k, m : reserve' = [both EXCEPT ![d].totalScaledBorrow = k, ![c].totalScaledSupply = m]
      /\ \E k, m : cash' = [[cash EXCEPT ![d] = k] EXCEPT ![c] = m]
  BY DEF Liquidate, Reserves
<1>2. /\ rc \in ReserveState /\ rc.liquidityIndex = ProjectLiquidityIndex(c)
      /\ rc.borrowIndex = ProjectBorrowIndex(c) /\ rc.elapsed = 0
      /\ rd \in ReserveState /\ rd.liquidityIndex = ProjectLiquidityIndex(d)
      /\ rd.borrowIndex = ProjectBorrowIndex(d) /\ rd.elapsed = 0
      /\ c = d => rc = rd
  BY <1>1, AccruedState
<1> HIDE DEF rc, rd
<1>3. /\ both \in [Assets -> ReserveState]
      /\ both[c] = rc /\ both[d] = rd /\ \A b \in Assets \ {c, d} : both[b] = reserve[b]
  BY <1>1, <1>2 DEF PoolInv, TypeOK
<1> HIDE DEF both
<1>4. /\ \A b \in Assets : /\ reserve'[b].liquidityIndex = both[b].liquidityIndex
                            /\ reserve'[b].borrowIndex = both[b].borrowIndex
                            /\ reserve'[b].elapsed = both[b].elapsed
      /\ \A b \in Assets \ {c, d} : reserve'[b] = both[b]
  BY <1>1, <1>3 DEF ReserveState
<1>5. \A b \in Assets \ {c, d} : cash'[b] = cash[b]
  BY <1>1 DEF PoolInv, TypeOK
<1>6. \A b \in {c, d} : /\ reserve'[b].liquidityIndex = ProjectLiquidityIndex(b)
                        /\ reserve'[b].borrowIndex = ProjectBorrowIndex(b)
                        /\ reserve'[b].elapsed = 0
  <2>1. {c, d} \in SUBSET Assets
    OBVIOUS
  <2> QED BY <2>1, <1>2, <1>3, <1>4
<1> QED BY <1>1, <1>3, <1>4, <1>5, <1>6 DEF BroughtUpToDate

\* Nobody has anything in a reserve that is added: every sum gains a zero.
LEMMA CoverAdd ==
    ASSUME HealthInv, PoolInv', NEW a \in Assets, NEW p \in Params, AddReserve(a, p),
           NEW u \in Users, Covered(u)
    PROVE  Covered(u)'
<1>0. PoolInv /\ Untouched
  BY DEF HealthInv, TotalsInv
<1>1. /\ a \in Assets \ Reserves /\ UNCHANGED <<scaledSupply, scaledBorrow, cash, price>>
      /\ config' = [config EXCEPT ![a] = p] /\ ValidRiskParams(p)
      /\ \A b \in Reserves : reserve'[b] = reserve[b] /\ config'[b] = config[b]
  BY <1>0 DEF AddReserve, Reserves, PoolInv, TypeOK
<1>2. Reserves' = Reserves \cup {a}
  <2>1. p # NoReserve
    BY <1>1, ValidFactor, ParamsAssumption
  <2> QED BY <1>0, <1>1, <2>1 DEF Reserves, Active, PoolInv, TypeOK
<1>3. \A b \in Reserves : /\ ProjectLiquidityIndex(b)' = ProjectLiquidityIndex(b)
                          /\ ProjectBorrowIndex(b)' = ProjectBorrowIndex(b)
  BY <1>1 DEF ProjectLiquidityIndex, ProjectBorrowIndex, UtilizationOf
<1>4. scaledSupply[u][a] = 0 /\ scaledBorrow[u][a] = 0
  BY <1>0, <1>1 DEF Untouched
<1>5. ProjectLiquidityIndex(a)' \in Nat /\ ProjectBorrowIndex(a)' \in Nat
  BY <1>2, HealthReadNext DEF HealthReads
<1>6. \A k \in Nat : Scaled(0, k) = 0
  BY UnitsAssumption, SMT DEF Scaled
<1>7. price[a] \in Nat /\ Unit[a] \in Nat \ {0} /\ Bps \in Nat \ {0} /\ p.lt \in Nat
  BY <1>0, UnitsAssumption, ParamsAssumption DEF PoolInv, TypeOK, RiskParams
<1>8. AssetValue(a, 0)' = 0
  BY <1>1, <1>7, SMT DEF AssetValue
<1> DEFINE f == [b \in Reserves |-> AssetValue(b, Debt(scaledBorrow, u, b))]
           fn == [b \in Reserves' |-> AssetValue(b, Debt(scaledBorrow, u, b))']
           g == [b \in Reserves |-> (AssetValue(b, Collateral(scaledSupply, u, b)) * config[b].lt) \div Bps]
           gn == [b \in Reserves' |-> (AssetValue(b, Collateral(scaledSupply, u, b))' * config'[b].lt) \div Bps]
<1>9. fn[a] = 0 /\ \A b \in Reserves : fn[b] = f[b]
  <2>1. Debt(scaledBorrow, u, a)' = 0
    BY <1>1, <1>4, <1>5, <1>6 DEF Debt
  <2>2. AssetValue(a, Debt(scaledBorrow, u, a))' = 0
    BY <2>1, <1>8 DEF AssetValue
  <2>3. \A b \in Reserves : AssetValue(b, Debt(scaledBorrow, u, b))' = AssetValue(b, Debt(scaledBorrow, u, b))
    BY <1>1, <1>3 DEF AssetValue, Debt
  <2> QED BY <1>2, <2>2, <2>3
<1>10. gn[a] = 0 /\ \A b \in Reserves : gn[b] = g[b]
  <2>1. Collateral(scaledSupply, u, a)' = 0
    BY <1>1, <1>4, <1>5, <1>6 DEF Collateral
  <2>2. AssetValue(a, Collateral(scaledSupply, u, a))' = 0
    BY <2>1, <1>8 DEF AssetValue
  <2>3. config'[a].lt = p.lt
    BY <1>0, <1>1 DEF PoolInv, TypeOK
  <2>4. (0 * p.lt) \div Bps = 0
    BY <1>7, SMT
  <2>5. \A b \in Reserves : AssetValue(b, Collateral(scaledSupply, u, b))' = AssetValue(b, Collateral(scaledSupply, u, b))
    BY <1>1, <1>3 DEF AssetValue, Collateral
  <2>6. gn[a] = (AssetValue(a, Collateral(scaledSupply, u, a))' * config'[a].lt) \div Bps
    BY <1>2
  <2>7. gn[a] = 0
    <3> HIDE DEF gn
    <3> QED BY <2>2, <2>3, <2>4, <2>6, Zenon
  <2>8. \A b \in Reserves : gn[b] = (AssetValue(b, Collateral(scaledSupply, u, b)) * config[b].lt) \div Bps
    BY <1>1, <1>2, <2>5
  <2> QED BY <2>7, <2>8
<1>11. \A b \in Reserves : f[b] \in Nat /\ g[b] \in Nat
  <2> SUFFICES ASSUME NEW b \in Reserves PROVE f[b] \in Nat /\ g[b] \in Nat
    BY Zenon
  <2>1. /\ b \in Assets /\ config[b].lt \in Nat
        /\ Debt(scaledBorrow, u, b) \in Nat /\ Collateral(scaledSupply, u, b) \in Nat
    BY <1>0, PositionNat DEF PoolInv, TypeOK, Reserves, RiskParams
  <2>2. /\ AssetValue(b, Debt(scaledBorrow, u, b)) \in Nat
        /\ AssetValue(b, Collateral(scaledSupply, u, b)) \in Nat
    BY <1>0, <2>1, ValueNat
  <2>3. AssetValue(b, Collateral(scaledSupply, u, b)) * config[b].lt \in Nat
    BY <2>1, <2>2, SMT
  <2>4. (AssetValue(b, Collateral(scaledSupply, u, b)) * config[b].lt) \div Bps \in Nat
    BY <2>3, <1>7, Division
  <2> QED BY <2>2, <2>4
<1>12. /\ DebtValue(scaledBorrow, u) = SumFunction(f) /\ DebtValue(scaledBorrow, u)' = SumFunction(fn)
       /\ AdjustedCollateral(scaledSupply, u) = SumFunction(g)
       /\ AdjustedCollateral(scaledSupply, u)' = SumFunction(gn)
  BY DEF DebtValue, AdjustedCollateral
<1>13. /\ f = [b \in Reserves |-> f[b]] /\ fn = [b \in Reserves' |-> fn[b]]
       /\ g = [b \in Reserves |-> g[b]] /\ gn = [b \in Reserves' |-> gn[b]]
  BY Zenon
<1> HIDE DEF f, fn, g, gn
<1>14. /\ f \in [Reserves -> Int] /\ fn \in [Reserves \cup {a} -> Int]
       /\ g \in [Reserves -> Int] /\ gn \in [Reserves \cup {a} -> Int]
  BY <1>2, <1>9, <1>10, <1>11, <1>13
<1>15. /\ SumFunction(fn) = SumFunction(f) + 0 /\ SumFunction(gn) = SumFunction(g) + 0
  <2>1. a \notin Reserves
    BY <1>1
  <2>2. SumFunction(fn) = SumFunction(f) + fn[a]
    BY <1>9, <1>14, <2>1, ReservesFinite, SumFunctionExtend
  <2>3. SumFunction(gn) = SumFunction(g) + gn[a]
    BY <1>10, <1>14, <2>1, ReservesFinite, SumFunctionExtend
  <2> QED BY <1>9, <1>10, <2>2, <2>3
<1>16. SumFunction(f) \in Nat /\ SumFunction(g) \in Nat
  <2>1. f \in [Reserves -> Nat] /\ g \in [Reserves -> Nat]
    BY <1>11, <1>13
  <2> QED BY <2>1, ReservesFinite, SumFunctionNat
<1> QED BY <1>12, <1>15, <1>16 DEF Covered

\* A call that books on a reserve leaves no healthy position open to liquidation.
LEMMA CoverNext ==
    ASSUME HealthInv, [Next]_vars, price' = price, reserve' # reserve,
           \A a \in Assets : reserve'[a].elapsed <= reserve[a].elapsed,
           NEW u \in Users, Covered(u), Healthy(u)
    PROVE  Covered(u)'
<1>0. PoolInv /\ PoolInv' /\ TotalsInv
  BY PoolNext DEF HealthInv, TotalsInv
<1>1. /\ scaledSupply \in Positions /\ scaledBorrow \in Positions
      /\ scaledSupply' \in Positions /\ scaledBorrow' \in Positions
  BY <1>0 DEF PoolInv, TypeOK, Positions
<1>2. ASSUME NEW a \in Assets, NEW p \in Params, AddReserve(a, p) PROVE Covered(u)'
  BY <1>0, <1>2, CoverAdd
<1>3. ASSUME NEW a \in Assets, NEW n \in Amounts, SweepProtocolFees(a, n) PROVE Covered(u)'
  <2>1. {a} \in SUBSET Reserves /\ BroughtUpToDate({a}) /\ UNCHANGED <<scaledSupply, scaledBorrow>>
    BY <1>0, <1>3, UpToDate DEF SweepProtocolFees
  <2>2. \A b \in Reserves : scaledSupply[u][b] <= scaledSupply'[u][b] /\ scaledBorrow'[u][b] <= scaledBorrow[u][b]
    BY <1>1, <2>1 DEF Positions, Reserves
  <2> QED BY <1>0, <2>1, <2>2, CoverKept
<1>4. ASSUME NEW v \in Users, NEW a \in Assets, NEW n \in Amounts,
             Supply(v, a, n) \/ Withdraw(v, a, n) \/ Borrow(v, a, n) \/ Repay(v, a, n)
      PROVE  Covered(u)'
  <2>1. {a} \in SUBSET Reserves /\ BroughtUpToDate({a}) /\ UserMoves(v, {a})
    BY <1>0, <1>4, UpToDate, MovesSupply, MovesWithdraw, MovesBorrow, MovesRepay
  <2>2. CASE u # v
    <3>1. \A b \in Reserves : scaledSupply'[u][b] = scaledSupply[u][b] /\ scaledBorrow'[u][b] = scaledBorrow[u][b]
      BY <2>1, <2>2 DEF UserMoves, Reserves
    <3>2. \A b \in Reserves : scaledSupply[u][b] <= scaledSupply'[u][b] /\ scaledBorrow'[u][b] <= scaledBorrow[u][b]
      BY <1>1, <3>1 DEF Positions, Reserves
    <3> QED BY <1>0, <2>1, <3>2, CoverKept
  <2>3. CASE u = v /\ (Supply(v, a, n) \/ Repay(v, a, n))
    <3>1. \A b \in Reserves : scaledSupply[u][b] <= scaledSupply'[u][b] /\ scaledBorrow'[u][b] <= scaledBorrow[u][b]
      <4>1. /\ Accrued(a).liquidityIndex \in Nat \ {0} /\ Accrued(a).borrowIndex \in Nat \ {0} /\ n \in Nat
        BY <1>0, <2>1, AccruedState, UnitsAssumption DEF ReserveState
      <4>2. CASE Supply(v, a, n)
        <5> DEFINE scaled == ToScaledUp(n, Accrued(a).liquidityIndex)
        <5>1. scaledSupply' = [scaledSupply EXCEPT ![v][a] = @ + scaled] /\ scaledBorrow' = scaledBorrow
          BY <4>2 DEF Supply
        <5>2. scaled \in Nat
          BY <4>1, ScaledUp
        <5> HIDE DEF scaled
        <5> QED BY <1>1, <5>1, <5>2, <2>3 DEF Positions, Reserves
      <4>3. CASE Repay(v, a, n)
        <5> DEFINE debt == Scaled(scaledBorrow[v][a], Accrued(a).borrowIndex)
                   repaid == IF n = MaxUint THEN debt ELSE n
                   scaled == Lesser(ToScaledUp(repaid, Accrued(a).borrowIndex), scaledBorrow[v][a])
        <5>1. scaledBorrow' = [scaledBorrow EXCEPT ![v][a] = @ - scaled] /\ scaledSupply' = scaledSupply
          BY <4>3 DEF Repay
        <5>2. scaledBorrow[v][a] \in Nat
          BY <1>1 DEF Positions
        <5>3. repaid \in Nat
          BY <4>1, <5>2, ScaledNat
        <5>4. scaled \in Nat
          BY <4>1, <5>2, <5>3, ScaledUp, LesserNat
        <5> HIDE DEF scaled
        <5> QED BY <1>1, <5>1, <5>4, <2>3 DEF Positions, Reserves
      <4> QED BY <2>3, <4>2, <4>3
    <3> QED BY <1>0, <2>1, <3>1, CoverKept
  <2>4. CASE u = v /\ Withdraw(v, a, n)
    <3>1. HealthFactor(scaledSupply', scaledBorrow, u) >= Wad /\ scaledBorrow' = scaledBorrow
      BY <2>4 DEF Withdraw
    <3>2. DebtValue(scaledBorrow', u) <= AdjustedCollateral(scaledSupply', u)
      BY <1>0, <1>1, <3>1, HealthyCovered
    <3> QED BY <1>0, <2>1, <3>2, ValuesKept
  <2>5. CASE u = v /\ Borrow(v, a, n)
    <3>1. DebtValue(scaledBorrow', u) <= BorrowPower(scaledSupply, u) /\ scaledSupply' = scaledSupply
      BY <2>5 DEF Borrow
    <3>2. /\ BorrowPower(scaledSupply, u) <= AdjustedCollateral(scaledSupply, u)
          /\ BorrowPower(scaledSupply, u) \in Nat
      BY <1>1, PowerBelowAdjusted
    <3>3. DebtValue(scaledBorrow', u) \in Nat /\ AdjustedCollateral(scaledSupply, u) \in Nat
      <4>1. \A b \in Reserves : scaledBorrow'[u][b] <= scaledBorrow'[u][b] /\ scaledSupply[u][b] <= scaledSupply[u][b]
        BY <1>1 DEF Positions, Reserves
      <4> QED BY <1>0, <1>1, <4>1, DebtMonotone, CollateralMonotone
    <3>4. DebtValue(scaledBorrow', u) <= AdjustedCollateral(scaledSupply', u)
      BY <3>1, <3>2, <3>3
    <3> QED BY <1>0, <2>1, <3>4, ValuesKept
  <2> QED BY <1>4, <2>2, <2>3, <2>4, <2>5
<1>5. ASSUME NEW v \in Users, NEW c \in Assets, NEW d \in Assets, NEW n \in Amounts, Liquidate(c, d, v, n)
      PROVE  Covered(u)'
  <2>1. {c, d} \in SUBSET Reserves /\ BroughtUpToDate({c, d}) /\ UserMoves(v, {c, d})
    BY <1>0, <1>5, UpToDateLiquidate, MovesLiquidate
  <2>2. u # v
    <3>1. Liquidatable(v)
      BY <1>5 DEF Liquidate
    <3> QED BY <1>0, <3>1, HealthRead DEF HealthReads
  <2>3. \A b \in Reserves : scaledSupply'[u][b] = scaledSupply[u][b] /\ scaledBorrow'[u][b] = scaledBorrow[u][b]
    BY <2>1, <2>2 DEF UserMoves, Reserves
  <2>4. \A b \in Reserves : scaledSupply[u][b] <= scaledSupply'[u][b] /\ scaledBorrow'[u][b] <= scaledBorrow[u][b]
    BY <1>1, <2>3 DEF Positions, Reserves
  <2> QED BY <1>0, <2>1, <2>4, CoverKept
<1>6. ~Advance
  <2> SUFFICES ASSUME Advance PROVE FALSE
    OBVIOUS
  <2>1. reserve' = [a \in Assets |-> IF Active(a) THEN [reserve[a] EXCEPT !.elapsed = @ + 1] ELSE reserve[a]]
    BY DEF Advance
  <2>2. reserve \in [Assets -> ReserveState]
    BY <1>0 DEF PoolInv, TypeOK
  <2>3. ASSUME NEW a \in Assets PROVE ~Active(a)
    <3> SUFFICES ASSUME Active(a) PROVE FALSE
      OBVIOUS
    <3>1. reserve'[a] = [reserve[a] EXCEPT !.elapsed = @ + 1]
      BY <2>1
    <3> QED BY <2>2, <3>1 DEF ReserveState
  <2>4. reserve' = reserve
    BY <2>1, <2>2, <2>3
  <2> QED BY <2>4
<1>7. ~ (UNCHANGED vars \/ SetPaused \/ (\E a \in Assets, n \in Amounts : Donate(a, n))
           \/ (\E a \in Assets, p \in Prices : SetPrice(a, p))
           \/ (\E a \in Assets, p \in Params : SetReserveRiskParams(a, p)))
  BY DEF vars, SetPaused, Donate, SetPrice, SetReserveRiskParams
<1> QED BY <1>2, <1>3, <1>4, <1>5, <1>6, <1>7 DEF Next

\* Whatever the assets, users, prices and parameters: a call that books on a
\* reserve never opens a healthy position to liquidation, the caller's or anyone
\* else's; rounding included.
THEOREM HealthCorrect == Spec => HealthKept
<1>1. HealthInv /\ [Next]_vars =>
        [/\ price' = price
         /\ \A a \in Assets : Active(a) => config'[a] = config[a]
         /\ reserve' # reserve /\ \A a \in Assets : reserve'[a].elapsed <= reserve[a].elapsed
         => \A u \in Users : Healthy(u) => ~Liquidatable(u)']_vars
  <2> SUFFICES ASSUME HealthInv, [Next]_vars, price' = price, reserve' # reserve,
                      \A a \in Assets : reserve'[a].elapsed <= reserve[a].elapsed,
                      NEW u \in Users, Healthy(u)
               PROVE  ~Liquidatable(u)'
    BY Zenon
  <2>1. PoolInv /\ PoolInv'
    BY PoolNext DEF HealthInv, TotalsInv
  <2>2. Covered(u)
    BY <2>1, HealthRead DEF HealthReads
  <2>3. Covered(u)'
    BY <2>2, CoverNext
  <2>4. Liquidatable(u)' => ~Covered(u)'
    BY <2>1, HealthReadNext DEF HealthReads
  <2> QED BY <2>3, <2>4
<1> QED BY <1>1, HealthInvariant, PTL DEF Spec, HealthKept

-----------------------------------------------------------------------------
(* Interest covers interest *)

LEMMA ProductNat == ASSUME NEW m \in Nat, NEW n \in Nat PROVE m * n \in Nat
BY SMT

\* An inequality, multiplied.
LEMMA Times ==
    ASSUME NEW k \in Nat, NEW x \in Int, NEW y \in Int, x <= y
    PROVE  k * x <= k * y
BY SMT

\* The interest of suppliers against that of borrowers, in units of 1 / Wad:
\* utilization keeps the growth g1 of the supply index within the growth g2 of
\* the borrow index, in the proportion of x borrowed to c in cash.
LEMMA GrowthCovered ==
    ASSUME NEW S \in Nat, NEW ls \in Nat, NEW ls2 \in Nat, NEW B \in Nat, NEW lb \in Nat, NEW lb2 \in Nat,
           NEW c \in Nat, NEW x \in Nat, NEW g1 \in Nat, NEW g2 \in Nat,
           S * ls <= c * Ray + B * lb,
           Wad * ls2 <= ls * (Wad + g1), lb * (Wad + g2) < Wad * lb2 + Wad,
           Ray * x <= B * lb, B * lb < Ray * x + Ray,
           (c + x) * g1 <= (g2 + 1) * x, g1 <= g2 + 1
    PROVE  Wad * (S * ls2 - (c * Ray + B * lb2)) <= B * lb + Ray * (g2 + 1) + B * Wad
<1> DEFINE owed == S * ls
           owned == c * Ray + B * lb
<1>0. Wad \in Nat /\ Ray \in Nat
  BY UnitsAssumption
<1>1. owed \in Nat /\ B * lb \in Nat /\ c * Ray \in Nat /\ owned \in Nat /\ owed <= owned
  BY <1>0, SMT
<1>2. S * (Wad * ls2) <= S * (ls * (Wad + g1))
  BY <1>0, Times, SMT
<1>3. S * (ls * (Wad + g1)) = owed * Wad + owed * g1 /\ S * (Wad * ls2) = Wad * (S * ls2)
  BY <1>0, SMT
<1>4. B * (lb * (Wad + g2)) <= B * (Wad * lb2 + Wad)
  BY <1>0, Times, SMT
<1>5. /\ B * (lb * (Wad + g2)) = (B * lb) * Wad + (B * lb) * g2
      /\ B * (Wad * lb2 + Wad) = Wad * (B * lb2) + B * Wad
  BY <1>0, SMT
<1> HIDE DEF owed, owned
<1>6. owed * Wad <= owned * Wad /\ owed * g1 <= owned * g1
  BY <1>0, <1>1, Monotone
<1>7. owned * g1 <= (Ray * (c + x) + Ray) * g1
  <2>1. owned <= Ray * (c + x) + Ray /\ Ray * (c + x) + Ray \in Nat
    BY <1>0, SMT DEF owned
  <2> QED BY <1>1, <2>1, Monotone
<1>8. Ray * ((c + x) * g1) <= Ray * ((g2 + 1) * x) /\ Ray * g1 <= Ray * (g2 + 1)
  <2>1. (c + x) * g1 \in Nat /\ (g2 + 1) * x \in Nat /\ g2 + 1 \in Nat
    BY SMT
  <2> QED BY <1>0, <2>1, Times
<1>9. (Ray * x) * g2 <= (B * lb) * g2
  <2>1. Ray * x \in Nat
    BY <1>0, SMT
  <2> QED BY <1>1, <2>1, Monotone
<1>10. owned * g1 <= (Ray * x) * g2 + Ray * x + Ray * (g2 + 1)
  BY <1>0, <1>1, <1>7, <1>8, SMT
<1>11. owned * g1 - (B * lb) * g2 <= B * lb + Ray * (g2 + 1)
  BY <1>0, <1>1, <1>9, <1>10, SMT
<1>12. Wad * (S * ls2) <= owned * Wad + owned * g1
  BY <1>0, <1>1, <1>2, <1>3, <1>6, SMT
<1>13. (B * lb) * Wad + (B * lb) * g2 <= Wad * (B * lb2) + B * Wad
  BY <1>4, <1>5
<1>14. owned * Wad = Wad * (c * Ray) + (B * lb) * Wad
  BY <1>0, SMT DEF owned
<1>15. Wad * (S * ls2 - (c * Ray + B * lb2)) = Wad * (S * ls2) - Wad * (c * Ray) - Wad * (B * lb2)
  BY <1>0, SMT
<1> QED BY <1>0, <1>1, <1>11, <1>12, <1>13, <1>14, <1>15, SMT

\* How the products of the accrual are regrouped.
LEMMA Rearranged ==
    ASSUME NEW i \in Nat, NEW j \in Nat, NEW k \in Nat, NEW l \in Nat
    PROVE  /\ i * ((j * k) * l) = (j * l) * (i * k)
           /\ (j * l) * (k * i) = i * ((j * l) * k)
           /\ (j * k) * l = (j * l) * k
           /\ (j * l) * i = i * (j * l)
BY SMT

\* What _accrue adds to the two indexes, per Wad.
Earned(rate, used, keep, e) == (((rate * used * keep) \div (Wad * Bps)) * e) \div Year
Charged(rate, e) == (rate * e) \div Year

\* Suppliers are paid for the share of the pool that is lent out, at most.
LEMMA GrowthShared ==
    ASSUME NEW c \in Nat, NEW x \in Nat, NEW e \in Nat, NEW rate \in Nat, NEW keep \in Nat, keep <= Bps,
           NEW g1, g1 = Earned(rate, Utilization(x, c), keep, e), NEW g2, g2 = Charged(rate, e)
    PROVE  /\ g1 \in Nat /\ g2 \in Nat
           /\ (c + x) * g1 <= (g2 + 1) * x /\ g1 <= g2 + 1
<1> DEFINE used == Utilization(x, c)
<1>u. used = Utilization(x, c) /\ g1 = Earned(rate, used, keep, e)
  OBVIOUS
<1> HIDE DEF used
<1> DEFINE sr == (rate * used * keep) \div (Wad * Bps)
<1>0. Wad \in Nat \ {0} /\ Bps \in Nat \ {0} /\ Year \in Nat \ {0} /\ used \in Nat
  BY <1>u, UnitsAssumption, UtilizationNat
<1>1. (c + x) * used <= x * Wad
  <2>1. CASE x = 0
    <3>1. used = 0
      BY <1>u, <2>1 DEF Utilization
    <3> QED BY <2>1, <3>1, <1>0, SMT
  <2>2. CASE x # 0
    <3>1. used = (x * Wad) \div (c + x) /\ c + x \in Nat \ {0} /\ x * Wad \in Nat
      BY <1>u, <2>2, <1>0, SMT DEF Utilization
    <3> QED BY <3>1, Division
  <2> QED BY <2>1, <2>2
<1>2. rate * used \in Nat /\ rate * used * keep \in Nat /\ Wad * Bps \in Nat \ {0}
  <2>1. rate * used \in Nat /\ Wad * Bps \in Nat \ {0}
    BY <1>0, SMT
  <2> QED BY <2>1, SMT
<1>3. sr \in Nat /\ (Wad * Bps) * sr <= rate * used * keep
  BY <1>2, Division
<1> HIDE DEF sr
<1>4. Wad * sr <= rate * used
  <2>1. (rate * used) * keep <= (rate * used) * Bps
    BY <1>0, <1>2, Times
  <2>2. /\ (Wad * Bps) * sr = Bps * (Wad * sr) /\ (rate * used) * Bps = Bps * (rate * used)
        /\ Wad * sr \in Nat /\ Bps * (Wad * sr) \in Nat /\ Bps * (rate * used) \in Nat
        /\ rate * used * keep = (rate * used) * keep
    BY <1>0, <1>2, <1>3, SMT
  <2> DEFINE m == Wad * sr
             n == rate * used
  <2>3. Bps * m < Bps * n + Bps
    BY <1>0, <1>2, <1>3, <2>1, <2>2
  <2>4. m \in Nat /\ n \in Nat
    BY <1>2, <2>2
  <2> HIDE DEF m, n
  <2>5. m <= n
    BY <1>0, <2>3, <2>4, QuotientBelow
  <2> QED BY <2>5 DEF m, n
<1>5. g1 \in Nat /\ Year * g1 <= sr * e
  <2>1. sr * e \in Nat /\ g1 = (sr * e) \div Year
    BY <1>u, <1>3, ProductNat DEF sr, Earned
  <2> QED BY <1>0, <2>1, Division
<1>6. g2 \in Nat /\ rate * e < Year * g2 + Year
  <2>1. rate * e \in Nat /\ g2 = (rate * e) \div Year
    BY ProductNat DEF Charged
  <2> QED BY <1>0, <2>1, Division
<1>7. Wad * (Year * g1) <= (rate * used) * e
  <2>1. Wad * (Year * g1) <= Wad * (sr * e)
    <3>1. Year * g1 \in Nat /\ sr * e \in Nat
      BY <1>0, <1>3, <1>5, ProductNat
    <3> QED BY <1>0, <1>5, <3>1, Times
  <2>2. Wad * (sr * e) = e * (Wad * sr) /\ (rate * used) * e = e * (rate * used) /\ Wad * sr \in Nat
    BY <1>0, <1>2, <1>3, SMT
  <2>3. e * (Wad * sr) <= e * (rate * used)
    BY <1>2, <1>4, <2>2, Times
  <2>4. Wad * (Year * g1) \in Nat /\ e * (Wad * sr) \in Nat /\ e * (rate * used) \in Nat
    BY <1>0, <1>2, <1>5, <2>2, ProductNat
  <2> QED BY <2>1, <2>2, <2>3, <2>4
<1>8. (c + x) * (Wad * (Year * g1)) <= Wad * ((rate * e) * x)
  <2>1. c + x \in Nat /\ Wad * (Year * g1) \in Nat /\ (rate * used) * e \in Nat /\ rate * e \in Nat
    BY <1>0, <1>2, <1>5, ProductNat
  <2>2. (c + x) * (Wad * (Year * g1)) <= (c + x) * ((rate * used) * e)
    BY <1>7, <2>1, Times
  <2>3. (rate * e) * ((c + x) * used) <= (rate * e) * (x * Wad)
    <3>1. (c + x) * used \in Nat /\ x * Wad \in Nat
      BY <1>0, <2>1, ProductNat
    <3> QED BY <1>1, <2>1, <3>1, Times
  <2>4. (c + x) * ((rate * used) * e) = (rate * e) * ((c + x) * used) /\ (rate * e) * (x * Wad) = Wad * ((rate * e) * x)
    <3>1. c + x \in Nat /\ used \in Nat /\ Wad \in Nat
      BY <1>0
    <3>2. (c + x) * ((rate * used) * e) = (rate * e) * ((c + x) * used)
      BY <3>1, Rearranged
    <3>3. (rate * e) * (x * Wad) = Wad * ((rate * e) * x)
      BY <3>1, Rearranged
    <3> QED BY <3>2, <3>3
  <2>5. (c + x) * (Wad * (Year * g1)) \in Nat /\ (c + x) * ((rate * used) * e) \in Nat /\ Wad * ((rate * e) * x) \in Nat
    BY <1>0, <2>1, ProductNat
  <2> QED BY <2>2, <2>3, <2>4, <2>5
<1>9. (c + x) * (Year * g1) <= (rate * e) * x
  <2> DEFINE m == (c + x) * (Year * g1)
             n == (rate * e) * x
  <2>1. m \in Nat /\ n \in Nat
    BY <1>0, <1>5, ProductNat
  <2>2. (c + x) * (Wad * (Year * g1)) = Wad * m
    BY <1>0, <1>5, SMT
  <2> HIDE DEF m
  <2>3. Wad * m <= Wad * n
    BY <1>8, <2>2
  <2> HIDE DEF n
  <2>4. Wad * m < Wad * n + Wad
    <3>1. Wad * m \in Nat /\ Wad * n \in Nat
      BY <1>0, <2>1, ProductNat
    <3> QED BY <1>0, <2>3, <3>1
  <2>5. m <= n
    BY <1>0, <2>1, <2>4, QuotientBelow
  <2> QED BY <2>5 DEF m, n
<1>10. (rate * e) * x <= (Year * (g2 + 1)) * x
  <2>1. rate * e <= Year * (g2 + 1) /\ rate * e \in Nat /\ Year * (g2 + 1) \in Nat
    <3>1. Year * (g2 + 1) = Year * g2 + Year /\ Year * g2 \in Nat /\ rate * e \in Nat
      BY <1>0, <1>6, SMT
    <3> QED BY <1>0, <1>6, <3>1
  <2> QED BY <2>1, Monotone
<1>11. (c + x) * g1 <= (g2 + 1) * x
  <2> DEFINE m == (c + x) * g1
             n == (g2 + 1) * x
  <2>1. m \in Nat /\ n \in Nat
    BY <1>5, <1>6, ProductNat
  <2>2. (c + x) * (Year * g1) = Year * m /\ (Year * (g2 + 1)) * x = Year * n
    BY <1>0, <1>5, <1>6, SMT
  <2>3. (rate * e) * x \in Nat /\ Year * m \in Nat /\ Year * n \in Nat
    BY <1>0, <2>1, ProductNat
  <2> HIDE DEF m, n
  <2>4. Year * m < Year * n + Year
    BY <1>0, <1>9, <1>10, <2>2, <2>3
  <2>5. m <= n
    BY <1>0, <2>1, <2>4, QuotientBelow
  <2> QED BY <2>5 DEF m, n
<1>12. g1 <= g2 + 1
  <2>1. used <= Wad
    <3>1. CASE x = 0
      <4>1. used = 0
        BY <1>u, <3>1 DEF Utilization
      <4> QED BY <4>1, <1>0
    <3>2. CASE x # 0
      <4>1. x * Wad <= (c + x) * Wad /\ (c + x) * Wad \in Nat /\ x * Wad \in Nat /\ (c + x) * used \in Nat
        BY <1>0, Monotone, ProductNat
      <4>2. (c + x) * used < (c + x) * Wad + (c + x) /\ c + x \in Nat \ {0}
        BY <3>2, <4>1, <1>1
      <4> QED BY <4>2, <1>0, QuotientBelow
    <3> QED BY <3>1, <3>2
  <2>2. Wad * (Year * g1) <= Wad * (rate * e)
    <3>1. (rate * e) * used <= (rate * e) * Wad /\ rate * e \in Nat
      BY <1>0, <2>1, ProductNat, Times
    <3>2. (rate * used) * e = (rate * e) * used /\ (rate * e) * Wad = Wad * (rate * e)
      <4>1. used \in Nat /\ Wad \in Nat
        BY <1>0
      <4> QED BY <4>1, Rearranged
    <3>3. Wad * (Year * g1) \in Nat /\ (rate * e) * used \in Nat /\ Wad * (rate * e) \in Nat
      BY <1>0, <1>5, <3>1, ProductNat
    <3> QED BY <1>7, <3>1, <3>2, <3>3
  <2>3. Year * g1 <= rate * e
    <3> DEFINE m == Year * g1
               n == rate * e
    <3>1. m \in Nat /\ n \in Nat
      BY <1>0, <1>5, ProductNat
    <3> HIDE DEF m, n
    <3>2. Wad * m <= Wad * n
      BY <2>2 DEF m, n
    <3>3. Wad * m < Wad * n + Wad
      <4>1. Wad * m \in Nat /\ Wad * n \in Nat
        BY <1>0, <3>1, ProductNat
      <4> QED BY <1>0, <3>2, <4>1
    <3>4. m <= n
      BY <1>0, <3>1, <3>3, QuotientBelow
    <3> QED BY <3>4 DEF m, n
  <2>4. Year * g1 < Year * g2 + Year
    <3>1. Year * g1 \in Nat /\ Year * g2 \in Nat /\ rate * e \in Nat
      BY <1>0, <1>5, <1>6, ProductNat
    <3> QED BY <1>0, <1>6, <2>3, <3>1
  <2>5. g1 <= g2
    BY <1>0, <1>5, <1>6, <2>4, QuotientBelow
  <2> QED BY <2>5, <1>5, <1>6
<1> QED BY <1>5, <1>6, <1>11, <1>12

\* A reserve that can pay everyone now can still do so when interest is booked, up
\* to the truncations of _accrue.
LEMMA AccrualCovered ==
    ASSUME PoolInv, NEW a \in Reserves, StoredShortfall(a) <= 0
    PROVE  LET r == reserve[a]
               growth == (BorrowRate(UtilizationOf(a)) * r.elapsed) \div Year
           IN  AccruedShortfall(a) <= r.totalScaledBorrow + ((r.totalScaledBorrow * r.borrowIndex) \div Wad)
                                        + ((Ray * (growth + 1)) \div Wad) + 2
<1> DEFINE S == reserve[a].totalScaledSupply
           B == reserve[a].totalScaledBorrow
           ls == reserve[a].liquidityIndex
           lb == reserve[a].borrowIndex
           e == reserve[a].elapsed
           c == cash[a]
           keep == Bps - config[a].factor
           x == CurrentBorrows(reserve[a])
           used == UtilizationOf(a)
           rate == BorrowRate(used)
           g1 == (((rate * used * keep) \div (Wad * Bps)) * e) \div Year
           g2 == (rate * e) \div Year
           ls2 == ProjectLiquidityIndex(a)
           lb2 == ProjectBorrowIndex(a)
<1>0. /\ S \in Nat /\ B \in Nat /\ ls \in Nat /\ lb \in Nat /\ e \in Nat /\ c \in Nat
      /\ keep \in Nat /\ keep <= Bps /\ Ray \in Nat \ {0} /\ Wad \in Nat \ {0} /\ Bps \in Nat \ {0} /\ Year \in Nat \ {0}
  BY UnitsAssumption DEF PoolInv, TypeOK, Reserves, ReserveState, RiskParams
<1>1. /\ ls2 = (ls * (Wad + g1)) \div Wad
      /\ lb2 = (lb * (Wad + g2)) \div Wad
  BY DEF ProjectLiquidityIndex, ProjectBorrowIndex
<1>2. x = (B * lb) \div Ray /\ used = Utilization(x, c)
  BY DEF CurrentBorrows, Scaled, UtilizationOf
<1>3. S * ls - (c * Ray + B * lb) <= 0
  BY DEF StoredShortfall, Shortfall
<1>4. AccruedShortfall(a) = S * ls2 - (c * Ray + B * lb2)
  BY DEF AccruedShortfall, Shortfall
<1> HIDE DEF S, B, ls, lb, e, c, keep, x, used, ls2, lb2
<1>5. x \in Nat /\ Ray * x <= B * lb /\ B * lb < Ray * x + Ray
  <2>1. B * lb \in Nat
    BY <1>0, ProductNat
  <2> QED BY <1>0, <1>2, <2>1, Division
<1>6. rate \in Nat
  BY <1>0, <1>2, <1>5, UtilizationNat, RateNat
<1> HIDE DEF rate
<1>g. g1 = Earned(rate, used, keep, e) /\ g2 = Charged(rate, e)
  BY DEF Earned, Charged
<1> HIDE DEF g1, g2
<1>7. g1 \in Nat /\ g2 \in Nat /\ (c + x) * g1 <= (g2 + 1) * x /\ g1 <= g2 + 1
  <2>1. g1 = Earned(rate, Utilization(x, c), keep, e) /\ g2 = Charged(rate, e)
    BY <1>2, <1>g
  <2> QED BY <1>0, <1>5, <1>6, <2>1, GrowthShared
<1>8. ls2 \in Nat /\ Wad * ls2 <= ls * (Wad + g1)
  <2>1. ls * (Wad + g1) \in Nat
    BY <1>0, <1>7, ProductNat
  <2> QED BY <1>0, <1>1, <2>1, Division
<1>9. lb2 \in Nat /\ lb * (Wad + g2) < Wad * lb2 + Wad
  <2> DEFINE m == lb * (Wad + g2)
  <2>1. m \in Nat /\ lb2 = m \div Wad
    BY <1>0, <1>1, <1>7, ProductNat
  <2> HIDE DEF m
  <2>2. lb2 \in Nat /\ m < Wad * lb2 + Wad
    BY <1>0, <2>1, Division
  <2> QED BY <2>2 DEF m
<1>10. S * ls <= c * Ray + B * lb
  <2>1. S * ls \in Nat /\ c * Ray \in Nat /\ B * lb \in Nat
    BY <1>0, ProductNat
  <2> QED BY <1>3, <2>1
<1> DEFINE A == S * ls2 - (c * Ray + B * lb2)
           q1 == (B * lb) \div Wad
           q2 == (Ray * (g2 + 1)) \div Wad
<1>11. Wad * A <= B * lb + Ray * (g2 + 1) + B * Wad
  BY <1>0, <1>5, <1>7, <1>8, <1>9, <1>10, GrowthCovered
<1>12. A \in Int
  <2>1. S * ls2 \in Nat /\ c * Ray \in Nat /\ B * lb2 \in Nat
    BY <1>0, <1>8, <1>9, ProductNat
  <2> QED BY <2>1
<1>13. /\ B * lb \in Nat /\ Ray * (g2 + 1) \in Nat
       /\ q1 \in Nat /\ B * lb < Wad * q1 + Wad
       /\ q2 \in Nat /\ Ray * (g2 + 1) < Wad * q2 + Wad
  <2>1. B * lb \in Nat /\ Ray * (g2 + 1) \in Nat
    BY <1>0, <1>7, ProductNat
  <2> QED BY <1>0, <2>1, Division
<1> HIDE DEF A, q1, q2
<1>14. A <= B + q1 + q2 + 2
  <2> DEFINE z == B + q1 + q2 + 2
  <2>1. z \in Nat /\ Wad * z = B * Wad + Wad * q1 + Wad * q2 + 2 * Wad
    BY <1>0, <1>13, SMT
  <2>2. Wad * q1 \in Nat /\ Wad * q2 \in Nat /\ B * Wad \in Nat /\ Wad * z \in Nat /\ Wad * A \in Int
    BY <1>0, <1>12, <1>13, <2>1, ProductNat, SMT
  <2> HIDE DEF z
  <2>3. Wad * A < Wad * z + Wad
    BY <1>0, <1>11, <1>13, <2>1, <2>2
  <2>4. A <= z
    BY <1>0, <1>12, <2>1, <2>3, QuotientBelow
  <2> QED BY <2>4 DEF z
<1> QED BY <1>4, <1>14 DEF A, q1, q2, B, lb, g2, e, rate, used

\* For every rate curve, reserve factor, unit and stretch of time: what borrowers
\* come to owe covers what suppliers earn, up to the truncations.
THEOREM InterestCorrect == Spec => []InterestCovered
<1>1. PoolInv => InterestCovered
  BY AccrualCovered DEF InterestCovered
<1> QED BY <1>1, PoolInvariant, PTL
=============================================================================
