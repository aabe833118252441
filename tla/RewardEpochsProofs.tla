--------------------------- MODULE RewardEpochsProofs ---------------------------
(***************************************************************************)
(* Theorems about RewardAllocation, for any budget, voting powers and      *)
(* number of positions: the allocation gives exactly the budget, and a     *)
(* Merkle proof is worth exactly its own leaf.                             *)
(* Theorems about RewardEpochs, for any tokens, accounts, budgets and      *)
(* bounds: budgets are covered, reserved and payable, what is paid is what *)
(* was published, roots and settings are current, manifests only advance.  *)
(***************************************************************************)
EXTENDS RewardEpochs, FiniteSums

-----------------------------------------------------------------------------
(* Ranks in a strict total order *)

StrictOrder(R, S) ==
    /\ \A x \in S : <<x, x>> \notin R
    /\ \A x, y, z \in S : <<x, y>> \in R /\ <<y, z>> \in R => <<x, z>> \in R
    /\ \A x, y \in S : x = y \/ <<x, y>> \in R \/ <<y, x>> \in R

Below(R, S, t) == {u \in S : <<u, t>> \in R}

\* How many come before t.
Rank(R, S, t) == Cardinality(Below(R, S, t))

LEMMA RankRange ==
    ASSUME NEW S, IsFiniteSet(S), NEW R, StrictOrder(R, S), NEW t \in S
    PROVE  Rank(R, S, t) \in 0 .. Cardinality(S) - 1
<1>1. Below(R, S, t) \subseteq S /\ Below(R, S, t) # S
  BY DEF Below, StrictOrder
<1>2. Cardinality(Below(R, S, t)) < Cardinality(S) /\ Cardinality(Below(R, S, t)) \in Nat
  BY <1>1, FS_Subset, FS_CardinalityType
<1>3. Cardinality(S) \in Nat
  BY FS_CardinalityType
<1> QED BY <1>2, <1>3 DEF Rank

LEMMA RankGrows ==
    ASSUME NEW S, IsFiniteSet(S), NEW R, StrictOrder(R, S), NEW t \in S, NEW u \in S,
           <<t, u>> \in R
    PROVE  Rank(R, S, t) < Rank(R, S, u)
<1>1. Below(R, S, t) \subseteq Below(R, S, u)
  BY DEF Below, StrictOrder
<1>2. t \in Below(R, S, u) /\ t \notin Below(R, S, t)
  BY DEF Below, StrictOrder
<1>3. Below(R, S, u) \subseteq S
  BY DEF Below
<1>4. IsFiniteSet(Below(R, S, u))
  BY <1>3, FS_Subset
<1>5. Below(R, S, t) # Below(R, S, u)
  BY <1>2
<1>6. Cardinality(Below(R, S, t)) < Cardinality(Below(R, S, u))
  <2>1. /\ Cardinality(Below(R, S, t)) \in Nat /\ Cardinality(Below(R, S, u)) \in Nat
        /\ Cardinality(Below(R, S, t)) <= Cardinality(Below(R, S, u))
        /\ Cardinality(Below(R, S, t)) # Cardinality(Below(R, S, u))
    <3>1. IsFiniteSet(Below(R, S, t))
      BY <1>1, <1>4, FS_Subset
    <3> QED BY <1>1, <1>4, <1>5, <3>1, FS_Subset, FS_CardinalityType
  <2> QED BY <2>1
<1> QED BY <1>6 DEF Rank

\* Each rank is that of exactly one element.
LEMMA RankBijective ==
    ASSUME NEW S, IsFiniteSet(S), NEW R, StrictOrder(R, S)
    PROVE  /\ \A t, u \in S : Rank(R, S, t) = Rank(R, S, u) => t = u
           /\ \A i \in 0 .. Cardinality(S) - 1 : \E t \in S : Rank(R, S, t) = i
<1> DEFINE n == Cardinality(S)
           f == [t \in S |-> Rank(R, S, t)]
<1>1. n \in Nat
  BY FS_CardinalityType
<1>2. ASSUME NEW t \in S, NEW u \in S, Rank(R, S, t) = Rank(R, S, u) PROVE t = u
  <2>1. Rank(R, S, t) \in Int /\ Rank(R, S, u) \in Int
    BY RankRange
  <2>2. t = u \/ <<t, u>> \in R \/ <<u, t>> \in R
    BY DEF StrictOrder
  <2>3. CASE <<t, u>> \in R
    BY <1>2, <2>1, <2>3, RankGrows
  <2>4. CASE <<u, t>> \in R
    BY <1>2, <2>1, <2>4, RankGrows
  <2> QED BY <2>2, <2>3, <2>4
<1>3. IsFiniteSet(0 .. n - 1) /\ Cardinality(0 .. n - 1) = n
  <2>1. 0 \in Int /\ n - 1 \in Int
    BY <1>1
  <2>2. Cardinality(0 .. n - 1) = IF 0 > n - 1 THEN 0 ELSE (n - 1) - 0 + 1
    BY <2>1, FS_Interval
  <2> HIDE DEF n
  <2> QED BY <1>1, <2>1, <2>2, FS_Interval
<1>4. \A t \in S : f[t] \in 0 .. n - 1
  BY RankRange
<1>5. f \in Injection(S, 0 .. n - 1)
  <2> HIDE DEF n
  <2>1. f \in [S -> 0 .. n - 1]
    BY <1>4
  <2>2. \A t, u \in S : f[t] = f[u] => t = u
    BY <1>2
  <2> HIDE DEF f
  <2> QED BY <2>1, <2>2 DEF Injection, IsInjective
<1>6. f \in Surjection(S, 0 .. n - 1)
  <2> HIDE DEF f
  <2> QED BY <1>3, <1>5, FS_Injection
<1>7. \A i \in 0 .. n - 1 : \E t \in S : f[t] = i
  BY <1>6 DEF Surjection
<1> QED BY <1>2, <1>7

\* As many have a rank below r as r says.
LEMMA RankCount ==
    ASSUME NEW S, IsFiniteSet(S), NEW R, StrictOrder(R, S), NEW r \in 0 .. Cardinality(S)
    PROVE  Cardinality({t \in S : Rank(R, S, t) < r}) = r
<1> DEFINE T == {t \in S : Rank(R, S, t) < r}
           f == [t \in T |-> Rank(R, S, t)]
<1>1. r \in Nat /\ Cardinality(S) \in Nat
  BY FS_CardinalityType
<1>2. \A t \in T : Rank(R, S, t) \in 0 .. r - 1
  BY <1>1, RankRange
<1>3. \A i \in 0 .. r - 1 : \E t \in T : f[t] = i
  <2> TAKE i \in 0 .. r - 1
  <2>1. i \in 0 .. Cardinality(S) - 1 /\ i < r
    BY <1>1
  <2>2. PICK t \in S : Rank(R, S, t) = i
    BY <2>1, RankBijective
  <2> QED BY <2>1, <2>2
<1>4. f \in [T -> 0 .. r - 1]
  BY <1>2
<1>5. \A t, u \in T : f[t] = f[u] => t = u
  BY RankBijective
<1>6. IsFiniteSet(T)
  BY FS_Subset
<1>7. f \in Injection(T, 0 .. r - 1) /\ f \in Surjection(T, 0 .. r - 1)
  <2> HIDE DEF f, T
  <2> QED BY <1>3, <1>4, <1>5 DEF Injection, IsInjective, Surjection
<1>8. IsFiniteSet(0 .. r - 1) /\ Cardinality(0 .. r - 1) = r
  <2>1. 0 \in Int /\ r - 1 \in Int
    BY <1>1
  <2>2. Cardinality(0 .. r - 1) = IF 0 > r - 1 THEN 0 ELSE (r - 1) - 0 + 1
    BY <2>1, FS_Interval
  <2> QED BY <1>1, <2>1, <2>2, FS_Interval
<1> HIDE DEF f, T
<1> QED BY <1>7, <1>8, FS_Injection DEF T

-----------------------------------------------------------------------------
(* The allocation *)

\* The parts of Allocate.
Total(power) == SumOver(power, DOMAIN power)
Shares(budget, power) == [t \in DOMAIN power |-> (budget * power[t]) \div Total(power)]
Remainder(budget, power, t) == (budget * power[t]) % Total(power)
Rest(budget, power) == budget - SumOver(Shares(budget, power), DOMAIN power)
Ahead(budget, power) ==
    {p \in (DOMAIN power) \X (DOMAIN power) : Before(budget, power, Total(power), p[1], p[2])}
More(budget, power, t) ==
    Rank(Ahead(budget, power), DOMAIN power, t) < Rest(budget, power) % Cardinality(DOMAIN power)

LEMMA AllocateIs ==
    ASSUME NEW budget, NEW power
    PROVE  Allocate(budget, power) =
            [t \in DOMAIN power |->
                Shares(budget, power)[t] + Rest(budget, power) \div Cardinality(DOMAIN power)
                    + IF More(budget, power, t) THEN 1 ELSE 0]
<1>1. ASSUME NEW t \in DOMAIN power
      PROVE  Below(Ahead(budget, power), DOMAIN power, t)
                = {u \in DOMAIN power : Before(budget, power, Total(power), u, t)}
  BY DEF Below, Ahead
<1> QED BY <1>1 DEF Allocate, Shares, Rest, More, Total, Rank

\* The voting powers of finitely many positions, at least one.
Votes(power) ==
    /\ IsFiniteSet(DOMAIN power) /\ DOMAIN power # {} /\ DOMAIN power \subseteq Int
    /\ power \in [DOMAIN power -> Nat \ {0}]

LEMMA DivisionFact ==
    ASSUME NEW x \in Nat, NEW y \in Nat \ {0}
    PROVE  /\ x \div y \in Nat /\ x % y \in 0 .. y - 1
           /\ x = y * (x \div y) + (x % y)
  BY SMT

LEMMA ProductFact == ASSUME NEW m \in Nat, NEW n \in Nat PROVE m * n \in Nat
  BY SMT

LEMMA TotalFact ==
    ASSUME NEW power, Votes(power)
    PROVE  Total(power) \in Nat \ {0} /\ Cardinality(DOMAIN power) \in Nat \ {0}
<1>1. Total(power) \in Nat
  BY SumNat DEF Total, SumOver, Votes
<1>2. PICK t \in DOMAIN power : TRUE
  BY DEF Votes
<1>3. power[t] <= Total(power)
  <2>1. SumFunctionOnSet(power, {t}) <= Total(power)
    BY SumSubset DEF Total, SumOver, Votes
  <2>2. SumFunctionOnSet(power, {t}) = power[t]
    <3>1. IsFiniteSet({t}) /\ \A x \in {t} : power[x] \in Int
      <4>1. power[t] \in Int
        BY DEF Votes
      <4> QED BY <4>1, FS_Singleton
    <3>2. SumFunctionOnSet(power, {t}) = power[t] + SumFunctionOnSet(power, {t} \ {t})
      BY <3>1, SumRemove
    <3>3. {t} \ {t} = {}
      OBVIOUS
    <3> QED BY <3>1, <3>2, <3>3, SumEmpty
  <2> QED BY <2>1, <2>2
<1>4. power[t] \in Nat \ {0}
  BY DEF Votes
<1>5. Cardinality(DOMAIN power) \in Nat \ {0}
  BY FS_CardinalityType, FS_EmptySet DEF Votes
<1> QED BY <1>1, <1>3, <1>4, <1>5

\* A position's part is the whole part of its share.
LEMMA ShareFact ==
    ASSUME NEW power, Votes(power), NEW budget \in Nat, NEW t \in DOMAIN power
    PROVE  /\ Shares(budget, power)[t] \in Nat
           /\ Remainder(budget, power, t) \in 0 .. Total(power) - 1
           /\ budget * power[t] \in Nat
           /\ budget * power[t] = Total(power) * Shares(budget, power)[t]
                                    + Remainder(budget, power, t)
<1>1. power[t] \in Nat /\ Total(power) \in Nat \ {0}
  BY TotalFact DEF Votes
<1>2. budget * power[t] \in Nat
  BY <1>1, ProductFact
<1>3. /\ Shares(budget, power)[t] = (budget * power[t]) \div Total(power)
      /\ Remainder(budget, power, t) = (budget * power[t]) % Total(power)
  BY DEF Shares, Remainder
<1> QED BY <1>1, <1>2, <1>3, DivisionFact

\* The positions whose share is not whole.
Broken(budget, power) == {t \in DOMAIN power : Remainder(budget, power, t) > 0}

\* What the divisions leave is what the remainders add up to: less than one unit
\* for each position with a remainder.
LEMMA RestFact ==
    ASSUME NEW power, Votes(power), NEW budget \in Nat
    PROVE  /\ Rest(budget, power) \in Nat
           /\ Rest(budget, power) # 0 => Rest(budget, power) < Cardinality(Broken(budget, power))
           /\ Rest(budget, power) < Cardinality(DOMAIN power)
<1> DEFINE T == DOMAIN power
           total == Total(power)
           shares == Shares(budget, power)
           rem == [t \in T |-> Remainder(budget, power, t)]
           scaled == [t \in T |-> budget * power[t]]
           zero == [t \in T |-> 0]
           one == [t \in T |-> IF t \in Broken(budget, power) THEN 1 ELSE 0]
           most == [t \in T |-> (total - 1) * one[t]]
           S(f) == SumFunctionOnSet(f, T)
           n == Cardinality(Broken(budget, power))
<1>1. IsFiniteSet(T) /\ total \in Nat \ {0} /\ Cardinality(T) \in Nat \ {0}
  BY TotalFact DEF Votes
<1>2. \A t \in T : /\ shares[t] \in Nat /\ rem[t] \in 0 .. total - 1 /\ scaled[t] \in Nat
                   /\ scaled[t] = total * shares[t] + rem[t] /\ power[t] \in Int
  BY ShareFact DEF Votes
<1>3. \A t \in T : /\ one[t] \in Int /\ zero[t] \in Int /\ most[t] \in Int
                   /\ most[t] = (total - 1) * one[t] + zero[t] /\ rem[t] <= most[t]
                   /\ scaled[t] = budget * power[t] + zero[t]
  <2> SUFFICES ASSUME NEW t \in T
               PROVE  /\ one[t] \in Int /\ zero[t] \in Int /\ most[t] \in Int
                      /\ most[t] = (total - 1) * one[t] + zero[t] /\ rem[t] <= most[t]
                      /\ scaled[t] = budget * power[t] + zero[t]
    OBVIOUS
  <2>1. one[t] = (IF rem[t] > 0 THEN 1 ELSE 0) /\ zero[t] = 0 /\ most[t] = (total - 1) * one[t]
    BY DEF Broken
  <2>2. scaled[t] = budget * power[t] /\ scaled[t] \in Nat /\ rem[t] \in 0 .. total - 1
    BY <1>2
  <2> HIDE DEF one, zero, most, rem, total, scaled
  <2>3. one[t] \in {0, 1} /\ total \in Nat \ {0} /\ rem[t] \in Nat /\ rem[t] <= total - 1
    BY <2>1, <2>2, <1>1
  <2>4. most[t] = IF rem[t] > 0 THEN total - 1 ELSE 0
    BY <2>1, <2>3
  <2> QED BY <2>1, <2>2, <2>3, <2>4
<1>4. S(one) = n /\ n \in Nat /\ n <= Cardinality(T)
  <2>1. Broken(budget, power) \subseteq T
    BY DEF Broken
  <2>2. T \cap Broken(budget, power) = Broken(budget, power) /\ IsFiniteSet(Broken(budget, power))
    BY <1>1, <2>1, FS_Subset
  <2>3. \A t \in T : one[t] = IF t \in Broken(budget, power) THEN 1 ELSE 0
    OBVIOUS
  <2> HIDE DEF one, T
  <2>4. S(one) = Cardinality(T \cap Broken(budget, power))
    BY <1>1, <2>3, SumCount
  <2> QED BY <1>1, <2>1, <2>2, <2>4, FS_Subset, FS_CardinalityType
<1>5. S(zero) = 0
  <2>1. \A t \in T : zero[t] = 0 /\ zero[t] \in Nat
    OBVIOUS
  <2> HIDE DEF T
  <2>2. S(zero) = SumFunction(zero) /\ DOMAIN zero = T
    BY SumOverDomain
  <2> HIDE DEF zero
  <2> QED BY <1>1, <2>1, <2>2, SumFunctionZero
<1> HIDE DEF shares, rem, scaled, zero, one, most, T, total, n
<1>6. S(scaled) = total * S(shares) + S(rem)
  BY <1>1, <1>2, SumLinear
<1>7. S(scaled) = budget * S(power) + S(zero)
  BY <1>1, <1>2, <1>3, SumLinear
<1>8. S(most) = (total - 1) * S(one) + S(zero)
  <2>1. total - 1 \in Int
    BY <1>1
  <2> QED BY <1>1, <1>3, <2>1, SumLinear
<1>9. S(rem) <= S(most) /\ S(rem) \in Nat /\ S(shares) \in Nat
  BY <1>1, <1>2, <1>3, SumMonotone, SumNat
<1>10. S(power) = total
  BY DEF total, T, Total, SumOver
<1> DEFINE rest == Rest(budget, power)
<1>11. rest = budget - S(shares)
  BY DEF Rest, SumOver, shares, T
<1> DEFINE s == S(shares)
           r == S(rem)
<1>12. /\ budget * total = total * s + r /\ r <= (total - 1) * n
       /\ rest = budget - s /\ s \in Nat /\ r \in Nat
  <2>1. S(scaled) = total * s + r
    BY <1>6
  <2>2. S(scaled) = budget * total
    <3>1. S(scaled) = budget * total + 0
      BY <1>5, <1>7, <1>10
    <3> QED BY <1>1, <3>1, ProductFact
  <2>3. r <= (total - 1) * n
    <3>1. S(most) = (total - 1) * n + 0 /\ (total - 1) * n \in Int
      BY <1>1, <1>4, <1>5, <1>8
    <3> QED BY <1>9, <3>1
  <2> QED BY <1>9, <1>11, <2>1, <2>2, <2>3
<1> HIDE DEF s, r, rest
<1>13. rest \in Int /\ total * rest = r
  BY <1>1, <1>12
<1>14. rest \in Nat
  <2>1. ASSUME rest < 0 PROVE FALSE
    <3>1. total * rest < 0
      BY <1>1, <1>13, <2>1
    <3> QED BY <1>12, <1>13, <3>1
  <2> QED BY <1>13, <2>1
<1>15. rest # 0 => rest < n
  <2> SUFFICES ASSUME rest # 0, rest >= n PROVE FALSE
    BY <1>4, <1>13
  <2>1. (total - 1) * n <= (total - 1) * rest
    <3>1. PICK k \in Nat : k = total - 1
      BY <1>1
    <3>2. k * n <= k * rest
      BY <1>4, <1>14, <3>1
    <3> QED BY <3>1, <3>2
  <2>2. (total - 1) * rest = total * rest - rest /\ (total - 1) * n \in Int
    BY <1>1, <1>4, <1>13
  <2> QED BY <1>12, <1>13, <1>14, <2>1, <2>2
<1>16. rest < Cardinality(T)
  BY <1>1, <1>4, <1>14, <1>15
<1> QED BY <1>14, <1>15, <1>16 DEF rest, n, T

\* The order of the remainders leaves no two positions equal.
LEMMA AheadOrder ==
    ASSUME NEW power, Votes(power), NEW budget \in Nat
    PROVE  StrictOrder(Ahead(budget, power), DOMAIN power)
<1> DEFINE T == DOMAIN power
           rem(t) == Remainder(budget, power, t)
           R == Ahead(budget, power)
<1>1. \A t \in T : rem(t) \in Int /\ power[t] \in Int /\ t \in Int
  <2>1. \A t \in T : rem(t) \in 0 .. Total(power) - 1
    BY ShareFact
  <2> QED BY <2>1 DEF Votes
<1>2. \A t, u \in T : <<t, u>> \in R <=>
        \/ rem(t) > rem(u)
        \/ rem(t) = rem(u) /\ power[t] > power[u]
        \/ rem(t) = rem(u) /\ power[t] = power[u] /\ t < u
  BY DEF Ahead, Before, Remainder
<1> HIDE DEF T, rem, R
<1>3. \A x \in T : <<x, x>> \notin R
  BY <1>1, <1>2
<1>4. \A x, y, z \in T : <<x, y>> \in R /\ <<y, z>> \in R => <<x, z>> \in R
  BY <1>1, <1>2
<1>5. ASSUME NEW x \in T, NEW y \in T
      PROVE  x = y \/ <<x, y>> \in R \/ <<y, x>> \in R
  <2>1. /\ rem(x) \in Int /\ power[x] \in Int /\ x \in Int
        /\ rem(y) \in Int /\ power[y] \in Int /\ y \in Int
    BY <1>1
  <2>2. CASE rem(x) # rem(y)
    <3>1. rem(x) > rem(y) \/ rem(y) > rem(x)
      BY <2>1, <2>2
    <3> QED BY <1>2, <3>1
  <2>3. CASE rem(x) = rem(y) /\ power[x] # power[y]
    <3>1. power[x] > power[y] \/ power[y] > power[x]
      BY <2>1, <2>3
    <3> QED BY <1>2, <2>3, <3>1
  <2>4. CASE rem(x) = rem(y) /\ power[x] = power[y] /\ x # y
    <3>1. x < y \/ y < x
      BY <2>1, <2>4
    <3> QED BY <1>2, <2>4, <3>1
  <2> QED BY <2>2, <2>3, <2>4
<1> QED BY <1>3, <1>4, <1>5 DEF StrictOrder, T, R

\* Nobody gets one more without a remainder.
LEMMA MoreFact ==
    ASSUME NEW power, Votes(power), NEW budget \in Nat, NEW t \in DOMAIN power,
           More(budget, power, t)
    PROVE  Remainder(budget, power, t) > 0
<1> DEFINE T == DOMAIN power
           R == Ahead(budget, power)
           rest == Rest(budget, power)
           broken == Broken(budget, power)
<1>1. Rank(R, T, t) < rest /\ Rank(R, T, t) \in Nat
  <2>1. rest \in Nat /\ Cardinality(T) \in Nat \ {0} /\ rest < Cardinality(T)
    BY RestFact, TotalFact
  <2>2. rest % Cardinality(T) = rest
    BY <2>1
  <2>3. Rank(R, T, t) \in 0 .. Cardinality(T) - 1
    BY AheadOrder, RankRange DEF Votes
  <2> QED BY <2>1, <2>2, <2>3 DEF More
<1>2. rest < Cardinality(broken) /\ rest \in Nat
  <2>1. rest \in Nat /\ (rest # 0 => rest < Cardinality(broken))
    BY RestFact
  <2> QED BY <1>1, <2>1
<1>3. ~(broken \subseteq Below(R, T, t))
  <2> SUFFICES ASSUME broken \subseteq Below(R, T, t) PROVE FALSE
    OBVIOUS
  <2>1. IsFiniteSet(Below(R, T, t))
    BY FS_Subset DEF Below, Votes
  <2>2. Cardinality(broken) <= Rank(R, T, t)
    BY <2>1, FS_Subset DEF Rank
  <2>3. IsFiniteSet(broken)
    BY <2>1, FS_Subset
  <2>4. Cardinality(broken) \in Nat
    BY <2>3, FS_CardinalityType
  <2> QED BY <1>1, <1>2, <2>2, <2>4
<1>4. PICK u \in broken : u \notin Below(R, T, t)
  BY <1>3
<1>5. u \in T /\ <<u, t>> \notin R
  BY <1>4 DEF Below, Broken
<1>6. ~(Remainder(budget, power, u) > Remainder(budget, power, t))
  BY <1>5 DEF Ahead, Before, Remainder
<1>7. Remainder(budget, power, u) > 0
  BY <1>4 DEF Broken
<1>8. Remainder(budget, power, u) \in Int /\ Remainder(budget, power, t) \in Int
  <2>1. /\ Remainder(budget, power, u) \in 0 .. Total(power) - 1
        /\ Remainder(budget, power, t) \in 0 .. Total(power) - 1
    BY <1>5, ShareFact
  <2> QED BY <2>1
<1> QED BY <1>6, <1>7, <1>8

\* What a position gets: its whole share, and one more for those ahead.
LEMMA AmountIs ==
    ASSUME NEW power, Votes(power), NEW budget \in Nat
    PROVE  /\ DOMAIN Allocate(budget, power) = DOMAIN power
           /\ \A t \in DOMAIN power :
                Allocate(budget, power)[t] =
                    Shares(budget, power)[t] + IF More(budget, power, t) THEN 1 ELSE 0
<1> DEFINE rest == Rest(budget, power)
           n == Cardinality(DOMAIN power)
<1>1. rest \in Nat /\ n \in Nat \ {0} /\ rest < n
  BY RestFact, TotalFact
<1>2. rest \div n = 0
  <2> HIDE DEF rest, n
  <2> QED BY <1>1
<1>3. \A t \in DOMAIN power : Shares(budget, power)[t] \in Int
  BY ShareFact
<1> QED BY <1>2, <1>3, AllocateIs

(* The whole budget is allocated, whatever the divisions leave.             *)
THEOREM AllocationTotal ==
    ASSUME NEW power, Votes(power), NEW budget \in Nat
    PROVE  SumOver(Allocate(budget, power), DOMAIN power) = budget
<1> DEFINE T == DOMAIN power
           R == Ahead(budget, power)
           rest == Rest(budget, power)
           more == {t \in T : More(budget, power, t)}
           one == [t \in T |-> IF t \in more THEN 1 ELSE 0]
           shares == Shares(budget, power)
           amounts == Allocate(budget, power)
<1>1. IsFiniteSet(T) /\ \A t \in T : shares[t] \in Nat
  BY ShareFact DEF Votes
<1>2. \A t \in T : amounts[t] = 1 * shares[t] + one[t] /\ one[t] \in Int
  BY <1>1, AmountIs
<1>3. SumFunctionOnSet(one, T) = rest
  <2>1. rest \in Nat /\ rest < Cardinality(T) /\ Cardinality(T) \in Nat \ {0}
    BY RestFact, TotalFact
  <2>2. rest % Cardinality(T) = rest /\ rest \in 0 .. Cardinality(T)
    BY <2>1
  <2>3. more = {t \in T : Rank(R, T, t) < rest}
    BY <2>2 DEF More
  <2>4. Cardinality(more) = rest
    <3>1. StrictOrder(R, T)
      BY AheadOrder
    <3> HIDE DEF T, R, rest
    <3> QED BY <1>1, <2>2, <2>3, <3>1, RankCount
  <2>5. T \cap more = more
    OBVIOUS
  <2>6. \A t \in T : one[t] = IF t \in more THEN 1 ELSE 0
    OBVIOUS
  <2> HIDE DEF T, more, one
  <2>7. SumFunctionOnSet(one, T) = Cardinality(T \cap more)
    BY <1>1, <2>6, SumCount
  <2> QED BY <2>4, <2>5, <2>7
<1>4. SumFunctionOnSet(amounts, T) = 1 * SumFunctionOnSet(shares, T) + SumFunctionOnSet(one, T)
  <2> HIDE DEF T, one, shares, amounts
  <2> QED BY <1>1, <1>2, SumLinear
<1>5. SumFunctionOnSet(shares, T) \in Nat
  <2> HIDE DEF T, shares
  <2> QED BY <1>1, SumNat
<1>6. rest = budget - SumFunctionOnSet(shares, T)
  BY DEF Rest, SumOver
<1> HIDE DEF T, shares, one, rest, amounts
<1> QED BY <1>3, <1>4, <1>5, <1>6 DEF SumOver, T, amounts

(* Each position gets its exact share rounded down or up.                   *)
THEOREM AllocationFair ==
    ASSUME NEW power, Votes(power), NEW budget \in Nat, NEW t \in DOMAIN power
    PROVE  LET amount == Allocate(budget, power)[t]
           IN  /\ amount \in Nat
               /\ amount * Total(power) < budget * power[t] + Total(power)
               /\ budget * power[t] < amount * Total(power) + Total(power)
<1> DEFINE amount == Allocate(budget, power)[t]
           share == Shares(budget, power)[t]
           total == Total(power)
           rem == Remainder(budget, power, t)
           exact == budget * power[t]
<1>1. /\ share \in Nat /\ rem \in 0 .. total - 1 /\ exact \in Nat
      /\ exact = total * share + rem /\ total \in Nat \ {0}
  BY ShareFact, TotalFact
<1>2. amount = share + IF More(budget, power, t) THEN 1 ELSE 0
  BY AmountIs
<1>3. More(budget, power, t) => rem > 0
  BY MoreFact
<1> HIDE DEF amount, share, total, rem, exact
<1>4. CASE More(budget, power, t)
  <2>1. amount = share + 1 /\ rem > 0
    BY <1>2, <1>3, <1>4
  <2>2. amount * total = total * share + total
    BY <1>1, <2>1
  <2>3. total * share \in Nat
    BY <1>1, ProductFact
  <2>4. amount \in Nat /\ amount * total < exact + total /\ exact < amount * total + total
    BY <1>1, <2>1, <2>2, <2>3
  <2> QED BY <2>4 DEF amount, total, exact
<1>5. CASE ~More(budget, power, t)
  <2>1. amount = share
    BY <1>1, <1>2, <1>5
  <2>2. amount * total = total * share
    BY <1>1, <2>1
  <2>3. total * share \in Nat
    BY <1>1, ProductFact
  <2>4. amount \in Nat /\ amount * total < exact + total /\ exact < amount * total + total
    BY <1>1, <2>1, <2>2, <2>3
  <2> QED BY <2>4 DEF amount, total, exact
<1> QED BY <1>4, <1>5

\* A larger power has at least as large a whole share.
LEMMA SharesMonotone ==
    ASSUME NEW x \in Nat, NEW y \in Nat, x <= y, NEW n \in Nat \ {0},
           NEW q1 \in Nat, NEW r1 \in 0 .. n - 1, x = n * q1 + r1,
           NEW q2 \in Nat, NEW r2 \in 0 .. n - 1, y = n * q2 + r2
    PROVE  q1 <= q2
<1> SUFFICES ASSUME q2 + 1 <= q1 PROVE FALSE
  OBVIOUS
<1>1. n * (q2 + 1) <= n * q1
  <2>1. PICK k \in Nat : q1 = (q2 + 1) + k
    <3>1. q1 - (q2 + 1) \in Nat /\ q1 = (q2 + 1) + (q1 - (q2 + 1))
      OBVIOUS
    <3> QED BY <3>1
  <2>2. n * q1 = n * (q2 + 1) + n * k /\ n * k \in Nat /\ n * (q2 + 1) \in Nat
    BY <2>1, ProductFact
  <2> QED BY <2>2
<1>2. n * (q2 + 1) = n * q2 + n /\ n * q2 \in Nat /\ n * q1 \in Nat
  BY ProductFact
<1> QED BY <1>1, <1>2

(* Nobody gets less than a position with less voting power.                 *)
THEOREM AllocationMonotone ==
    ASSUME NEW power, Votes(power), NEW budget \in Nat,
           NEW t \in DOMAIN power, NEW u \in DOMAIN power, power[t] > power[u]
    PROVE  Allocate(budget, power)[t] >= Allocate(budget, power)[u]
<1> DEFINE x == budget * power[u]
           y == budget * power[t]
           q1 == Shares(budget, power)[u]
           q2 == Shares(budget, power)[t]
           r1 == Remainder(budget, power, u)
           r2 == Remainder(budget, power, t)
           n == Total(power)
<1>1. /\ x \in Nat /\ q1 \in Nat /\ r1 \in 0 .. n - 1 /\ x = n * q1 + r1
      /\ y \in Nat /\ q2 \in Nat /\ r2 \in 0 .. n - 1 /\ y = n * q2 + r2
      /\ n \in Nat \ {0}
  BY ShareFact, TotalFact
<1>2. x <= y
  <2>1. PICK k \in Nat : power[t] = power[u] + k
    <3>1. power[t] \in Nat /\ power[u] \in Nat
      BY DEF Votes
    <3>2. power[t] - power[u] \in Nat /\ power[t] = power[u] + (power[t] - power[u])
      BY <3>1
    <3> QED BY <3>2
  <2>2. power[u] \in Nat
    BY DEF Votes
  <2>3. budget * (power[u] + k) = budget * power[u] + budget * k /\ budget * k \in Nat
    BY <2>2, ProductFact
  <2> QED BY <1>1, <2>1, <2>3
<1>3. /\ Allocate(budget, power)[t] = q2 + IF More(budget, power, t) THEN 1 ELSE 0
      /\ Allocate(budget, power)[u] = q1 + IF More(budget, power, u) THEN 1 ELSE 0
  BY AmountIs
<1>4. q1 = q2 => r1 <= r2
  <2> HIDE DEF x, y, q1, q2, r1, r2, n
  <2> SUFFICES ASSUME q1 = q2 PROVE r1 <= r2
    OBVIOUS
  <2>1. n * q1 \in Nat
    BY <1>1, ProductFact
  <2> QED BY <1>1, <1>2, <2>1
<1>5. r1 <= r2 /\ More(budget, power, u) => More(budget, power, t)
  <2> SUFFICES ASSUME r1 <= r2, More(budget, power, u) PROVE More(budget, power, t)
    OBVIOUS
  <2>1. <<t, u>> \in Ahead(budget, power)
    <3>1. r1 \in Int /\ r2 \in Int
      BY <1>1
    <3>2. r2 > r1 \/ (r2 = r1 /\ power[t] > power[u])
      BY <3>1
    <3> QED BY <3>2 DEF Ahead, Before, Remainder
  <2> DEFINE k == Rest(budget, power) % Cardinality(DOMAIN power)
             rt == Rank(Ahead(budget, power), DOMAIN power, t)
             ru == Rank(Ahead(budget, power), DOMAIN power, u)
  <2>2. rt < ru
    BY <2>1, AheadOrder, RankGrows DEF Votes
  <2>3. rt \in Int /\ ru \in Int /\ k \in Int
    <3>1. rt \in 0 .. Cardinality(DOMAIN power) - 1 /\ ru \in 0 .. Cardinality(DOMAIN power) - 1
      BY AheadOrder, RankRange DEF Votes
    <3>2. Rest(budget, power) \in Nat /\ Cardinality(DOMAIN power) \in Nat \ {0}
      BY RestFact, TotalFact
    <3> QED BY <3>1, <3>2
  <2>4. ru < k
    BY DEF More
  <2>5. rt < k
    <3> HIDE DEF rt, ru, k
    <3> QED BY <2>2, <2>3, <2>4
  <2> QED BY <2>5 DEF More
<1> HIDE DEF x, y, q1, q2, r1, r2, n
<1>6. q1 <= q2
  BY <1>1, <1>2, SharesMonotone
<1>7. CASE q1 = q2
  BY <1>1, <1>3, <1>4, <1>5, <1>7
<1>8. CASE q1 # q2
  BY <1>1, <1>3, <1>6, <1>8
<1> QED BY <1>7, <1>8

-----------------------------------------------------------------------------
(* The recursions of the Merkle tree *)

\* The length of a tuple.
LEMMA LengthIs ==
    ASSUME NEW n \in Nat, NEW f, f = [i \in 1 .. n |-> f[i]]
    PROVE  Len(f) = n /\ DOMAIN f = 1 .. n
<1> DEFINE T == {f[i] : i \in 1 .. n}
<1>1. f \in [1 .. n -> T]
  OBVIOUS
<1>2. f \in Seq(T)
  BY <1>1
<1>3. DOMAIN f = 1 .. n /\ DOMAIN f = 1 .. Len(f) /\ Len(f) \in Nat
  <2>1. DOMAIN f = 1 .. n
    BY <1>1
  <2> QED BY <1>2, <2>1
<1> HIDE DEF T
<1>4. ~(n < Len(f)) /\ ~(Len(f) < n)
  <2>1. Len(f) \in 1 .. Len(f) => Len(f) \in 1 .. n
    BY <1>3
  <2>2. n \in 1 .. n => n \in 1 .. Len(f)
    BY <1>3
  <2> QED BY <1>3, <2>1, <2>2
<1> QED BY <1>3, <1>4

\* h is a solution of the recursion of Computed, for the first n members.
IsHashing(h, leaf, proof, n) ==
    h = [i \in 0 .. n |-> IF i = 0 THEN leaf ELSE PairHash(h[i - 1], proof[i])]

LEMMA HashingExists ==
    ASSUME NEW leaf, NEW proof, NEW n \in Nat
    PROVE  \E h : IsHashing(h, leaf, proof, n)
<1> DEFINE G == {m \in Nat : \E h : IsHashing(h, leaf, proof, m)}
<1>1. 0 \in G
  <2> DEFINE h == [i \in 0 .. 0 |-> leaf]
  <2>1. IsHashing(h, leaf, proof, 0)
    BY DEF IsHashing
  <2> QED BY <2>1
<1>2. ASSUME NEW m \in Nat, m \in G PROVE m + 1 \in G
  <2>1. PICK h : IsHashing(h, leaf, proof, m)
    BY <1>2
  <2> DEFINE g == [i \in 0 .. m + 1 |-> IF i = m + 1 THEN PairHash(h[m], proof[m + 1]) ELSE h[i]]
  <2>2. ASSUME NEW i \in 0 .. m + 1
        PROVE  g[i] = IF i = 0 THEN leaf ELSE PairHash(g[i - 1], proof[i])
    <3>1. CASE i = m + 1
      <4>1. i # 0 /\ i - 1 = m /\ m \in 0 .. m + 1 /\ m # m + 1
        BY <3>1
      <4> QED BY <3>1, <4>1
    <3>2. CASE i # m + 1
      <4>1. i \in 0 .. m /\ (i # 0 => i - 1 \in 0 .. m /\ i - 1 # m + 1 /\ i - 1 \in 0 .. m + 1)
        BY <3>2
      <4>2. g[i] = h[i]
        BY <3>2
      <4>3. i # 0 => g[i - 1] = h[i - 1]
        BY <4>1
      <4>4. h[i] = IF i = 0 THEN leaf ELSE PairHash(h[i - 1], proof[i])
        BY <2>1, <4>1 DEF IsHashing
      <4> QED BY <4>2, <4>3, <4>4
    <3> QED BY <3>1, <3>2
  <2>3. IsHashing(g, leaf, proof, m + 1)
    BY <2>2 DEF IsHashing
  <2> QED BY <2>3
<1> HIDE DEF G
<1>3. n \in G
  BY <1>1, <1>2, NaturalInduction
<1> QED BY <1>3 DEF G

LEMMA ComputedFact ==
    ASSUME NEW leaf, NEW proof, Len(proof) \in Nat
    PROVE  /\ Computed(leaf, proof)[0] = leaf
           /\ \A i \in 0 .. Len(proof) - 1 :
                Computed(leaf, proof)[i + 1] = PairHash(Computed(leaf, proof)[i], proof[i + 1])
<1> DEFINE n == Len(proof)
<1>1. Computed(leaf, proof) = CHOOSE h : IsHashing(h, leaf, proof, n)
  BY Zenon DEF Computed, IsHashing
<1>2. PICK h : h = Computed(leaf, proof) /\ IsHashing(h, leaf, proof, n)
  BY <1>1, HashingExists
<1> HIDE DEF n
<1>3. \A i \in 0 .. n : h[i] = IF i = 0 THEN leaf ELSE PairHash(h[i - 1], proof[i])
  BY <1>2 DEF IsHashing
<1>4. n \in Nat
  BY DEF n
<1>5. h[0] = leaf
  BY <1>3, <1>4
<1>6. ASSUME NEW i \in 0 .. n - 1 PROVE h[i + 1] = PairHash(h[i], proof[i + 1])
  <2>1. i + 1 \in 0 .. n /\ i + 1 # 0 /\ (i + 1) - 1 = i
    BY <1>4
  <2>2. h[i + 1] = IF i + 1 = 0 THEN leaf ELSE PairHash(h[(i + 1) - 1], proof[i + 1])
    BY <1>3, <2>1
  <2> QED BY <2>1, <2>2
<1> QED BY <1>2, <1>5, <1>6 DEF n

\* levels is a solution of the recursion of Levels.
IsTree(levels, leaves, n) ==
    levels = [k \in 0 .. n |-> IF k = 0 THEN leaves ELSE NextLevel(levels[k - 1])]

LEMMA TreeExists ==
    ASSUME NEW leaves, NEW n \in Nat
    PROVE  \E levels : IsTree(levels, leaves, n)
<1> DEFINE G == {m \in Nat : \E h : IsTree(h, leaves, m)}
<1>1. 0 \in G
  <2> DEFINE h == [i \in 0 .. 0 |-> leaves]
  <2>1. IsTree(h, leaves, 0)
    BY DEF IsTree
  <2> QED BY <2>1
<1>2. ASSUME NEW m \in Nat, m \in G PROVE m + 1 \in G
  <2>1. PICK h : IsTree(h, leaves, m)
    BY <1>2
  <2> DEFINE g == [i \in 0 .. m + 1 |-> IF i = m + 1 THEN NextLevel(h[m]) ELSE h[i]]
  <2>2. ASSUME NEW i \in 0 .. m + 1
        PROVE  g[i] = IF i = 0 THEN leaves ELSE NextLevel(g[i - 1])
    <3>1. CASE i = m + 1
      <4>1. i # 0 /\ i - 1 = m /\ m \in 0 .. m + 1 /\ m # m + 1
        BY <3>1
      <4> QED BY <3>1, <4>1
    <3>2. CASE i # m + 1
      <4>1. i \in 0 .. m /\ (i # 0 => i - 1 \in 0 .. m /\ i - 1 # m + 1 /\ i - 1 \in 0 .. m + 1)
        BY <3>2
      <4>2. g[i] = h[i]
        BY <3>2
      <4>3. i # 0 => g[i - 1] = h[i - 1]
        BY <4>1
      <4>4. h[i] = IF i = 0 THEN leaves ELSE NextLevel(h[i - 1])
        BY <2>1, <4>1 DEF IsTree
      <4> QED BY <4>2, <4>3, <4>4
    <3> QED BY <3>1, <3>2
  <2>3. IsTree(g, leaves, m + 1)
    BY <2>2 DEF IsTree
  <2> QED BY <2>3
<1> HIDE DEF G
<1>3. n \in G
  BY <1>1, <1>2, NaturalInduction
<1> QED BY <1>3 DEF G

LEMMA LevelsFact ==
    ASSUME NEW leaves, Len(leaves) \in Nat
    PROVE  /\ Levels(leaves)[0] = leaves
           /\ \A k \in 0 .. Len(leaves) - 1 :
                Levels(leaves)[k + 1] = NextLevel(Levels(leaves)[k])
<1> DEFINE n == Len(leaves)
<1>1. Levels(leaves) = CHOOSE h : IsTree(h, leaves, n)
  BY Zenon DEF Levels, IsTree
<1>2. PICK h : h = Levels(leaves) /\ IsTree(h, leaves, n)
  BY <1>1, TreeExists
<1> HIDE DEF n
<1>3. \A k \in 0 .. n : h[k] = IF k = 0 THEN leaves ELSE NextLevel(h[k - 1])
  BY <1>2 DEF IsTree
<1>4. n \in Nat
  BY DEF n
<1>5. h[0] = leaves
  BY <1>3, <1>4
<1>6. ASSUME NEW k \in 0 .. n - 1 PROVE h[k + 1] = NextLevel(h[k])
  <2>1. k + 1 \in 0 .. n /\ k + 1 # 0 /\ (k + 1) - 1 = k
    BY <1>4
  <2>2. h[k + 1] = IF k + 1 = 0 THEN leaves ELSE NextLevel(h[(k + 1) - 1])
    BY <1>3, <2>1
  <2> QED BY <2>1, <2>2
<1> QED BY <1>2, <1>5, <1>6 DEF n

\* h is a solution of the recursion of Places.
IsPath(h, first, n) ==
    h = [i \in 0 .. n |-> IF i = 0 THEN first ELSE (h[i - 1] + 1) \div 2]

LEMMA IsPathExists ==
    ASSUME NEW first, NEW n \in Nat
    PROVE  \E h : IsPath(h, first, n)
<1> DEFINE G == {m \in Nat : \E h : IsPath(h, first, m)}
<1>1. 0 \in G
  <2> DEFINE h == [i \in 0 .. 0 |-> first]
  <2>1. IsPath(h, first, 0)
    BY DEF IsPath
  <2> QED BY <2>1
<1>2. ASSUME NEW m \in Nat, m \in G PROVE m + 1 \in G
  <2>1. PICK h : IsPath(h, first, m)
    BY <1>2
  <2> DEFINE g == [i \in 0 .. m + 1 |-> IF i = m + 1 THEN (h[m] + 1) \div 2 ELSE h[i]]
  <2>2. ASSUME NEW i \in 0 .. m + 1
        PROVE  g[i] = IF i = 0 THEN first ELSE (g[i - 1] + 1) \div 2
    <3>1. CASE i = m + 1
      <4>1. i # 0 /\ i - 1 = m /\ m \in 0 .. m + 1 /\ m # m + 1
        BY <3>1
      <4> QED BY <3>1, <4>1
    <3>2. CASE i # m + 1
      <4>1. i \in 0 .. m /\ (i # 0 => i - 1 \in 0 .. m /\ i - 1 # m + 1 /\ i - 1 \in 0 .. m + 1)
        BY <3>2
      <4>2. g[i] = h[i]
        BY <3>2
      <4>3. i # 0 => g[i - 1] = h[i - 1]
        BY <4>1
      <4>4. h[i] = IF i = 0 THEN first ELSE (h[i - 1] + 1) \div 2
        BY <2>1, <4>1 DEF IsPath
      <4> QED BY <4>2, <4>3, <4>4
    <3> QED BY <3>1, <3>2
  <2>3. IsPath(g, first, m + 1)
    BY <2>2 DEF IsPath
  <2> QED BY <2>3
<1> HIDE DEF G
<1>3. n \in G
  BY <1>1, <1>2, NaturalInduction
<1> QED BY <1>3 DEF G

LEMMA PlacesFact ==
    ASSUME NEW first, NEW height \in Nat
    PROVE  /\ Places(first, height)[0] = first
           /\ \A k \in 0 .. height - 1 :
                Places(first, height)[k + 1] = (Places(first, height)[k] + 1) \div 2
<1> DEFINE n == height
<1>1. Places(first, height) = CHOOSE h : IsPath(h, first, n)
  BY Zenon DEF Places, IsPath
<1>2. PICK h : h = Places(first, height) /\ IsPath(h, first, n)
  BY <1>1, IsPathExists
<1> HIDE DEF n
<1>3. \A k \in 0 .. n : h[k] = IF k = 0 THEN first ELSE (h[k - 1] + 1) \div 2
  BY <1>2 DEF IsPath
<1>4. n \in Nat
  BY DEF n
<1>5. h[0] = first
  BY <1>3, <1>4
<1>6. ASSUME NEW k \in 0 .. n - 1 PROVE h[k + 1] = (h[k] + 1) \div 2
  <2>1. k + 1 \in 0 .. n /\ k + 1 # 0 /\ (k + 1) - 1 = k
    BY <1>4
  <2>2. h[k + 1] = IF k + 1 = 0 THEN first ELSE (h[(k + 1) - 1] + 1) \div 2
    BY <1>3, <2>1
  <2> QED BY <2>1, <2>2
<1> QED BY <1>2, <1>5, <1>6 DEF n

\* h is a solution of the recursion of ProofParts.
IsParts(h, leaves, first, n) ==
    h = [i \in 0 .. n |-> IF i = 0 THEN <<>> ELSE h[i - 1] \o Neighbour(Levels(leaves)[i - 1], Places(first, Len(leaves))[i - 1])]

LEMMA IsPartsExists ==
    ASSUME NEW leaves, NEW first, NEW n \in Nat
    PROVE  \E h : IsParts(h, leaves, first, n)
<1> DEFINE G == {m \in Nat : \E h : IsParts(h, leaves, first, m)}
<1>1. 0 \in G
  <2> DEFINE h == [i \in 0 .. 0 |-> <<>>]
  <2>1. IsParts(h, leaves, first, 0)
    BY DEF IsParts
  <2> QED BY <2>1
<1>2. ASSUME NEW m \in Nat, m \in G PROVE m + 1 \in G
  <2>1. PICK h : IsParts(h, leaves, first, m)
    BY <1>2
  <2> DEFINE g == [i \in 0 .. m + 1 |-> IF i = m + 1 THEN h[m] \o Neighbour(Levels(leaves)[m], Places(first, Len(leaves))[m]) ELSE h[i]]
  <2>2. ASSUME NEW i \in 0 .. m + 1
        PROVE  g[i] = IF i = 0 THEN <<>> ELSE g[i - 1] \o Neighbour(Levels(leaves)[i - 1], Places(first, Len(leaves))[i - 1])
    <3>1. CASE i = m + 1
      <4>1. i # 0 /\ i - 1 = m /\ m \in 0 .. m + 1 /\ m # m + 1
        BY <3>1
      <4> QED BY <3>1, <4>1
    <3>2. CASE i # m + 1
      <4>1. i \in 0 .. m /\ (i # 0 => i - 1 \in 0 .. m /\ i - 1 # m + 1 /\ i - 1 \in 0 .. m + 1)
        BY <3>2
      <4>2. g[i] = h[i]
        BY <3>2
      <4>3. i # 0 => g[i - 1] = h[i - 1]
        BY <4>1
      <4>4. h[i] = IF i = 0 THEN <<>> ELSE h[i - 1] \o Neighbour(Levels(leaves)[i - 1], Places(first, Len(leaves))[i - 1])
        BY <2>1, <4>1 DEF IsParts
      <4> QED BY <4>2, <4>3, <4>4
    <3> QED BY <3>1, <3>2
  <2>3. IsParts(g, leaves, first, m + 1)
    BY <2>2 DEF IsParts
  <2> QED BY <2>3
<1> HIDE DEF G
<1>3. n \in G
  BY <1>1, <1>2, NaturalInduction
<1> QED BY <1>3 DEF G

LEMMA PartsFact ==
    ASSUME NEW leaves, NEW first, Len(leaves) \in Nat
    PROVE  /\ ProofParts(leaves, first)[0] = <<>>
           /\ \A k \in 0 .. Len(leaves) - 1 :
                ProofParts(leaves, first)[k + 1] = ProofParts(leaves, first)[k] \o Neighbour(Levels(leaves)[k], Places(first, Len(leaves))[k])
<1> DEFINE n == Len(leaves)
<1>1. ProofParts(leaves, first) = CHOOSE h : IsParts(h, leaves, first, n)
  BY Zenon DEF ProofParts, IsParts
<1>2. PICK h : h = ProofParts(leaves, first) /\ IsParts(h, leaves, first, n)
  BY <1>1, IsPartsExists
<1> HIDE DEF n
<1>3. \A k \in 0 .. n : h[k] = IF k = 0 THEN <<>> ELSE h[k - 1] \o Neighbour(Levels(leaves)[k - 1], Places(first, Len(leaves))[k - 1])
  BY <1>2 DEF IsParts
<1>4. n \in Nat
  BY DEF n
<1>5. h[0] = <<>>
  BY <1>3, <1>4
<1>6. ASSUME NEW k \in 0 .. n - 1 PROVE h[k + 1] = h[k] \o Neighbour(Levels(leaves)[k], Places(first, Len(leaves))[k])
  <2>1. k + 1 \in 0 .. n /\ k + 1 # 0 /\ (k + 1) - 1 = k
    BY <1>4
  <2>2. h[k + 1] = IF k + 1 = 0 THEN <<>> ELSE h[(k + 1) - 1] \o Neighbour(Levels(leaves)[(k + 1) - 1], Places(first, Len(leaves))[(k + 1) - 1])
    BY <1>3, <2>1
  <2> QED BY <2>1, <2>2
<1> QED BY <1>2, <1>5, <1>6 DEF n

-----------------------------------------------------------------------------
(* The tree *)

\* What a manifest has: amounts for finitely many token ids.
Amounts(amounts) == IsFiniteSet(DOMAIN amounts) /\ DOMAIN amounts # {} /\ DOMAIN amounts \subseteq Int

\* The leaves are in a place of their own each.
LEMMA OrderFact ==
    ASSUME NEW amounts, Amounts(amounts)
    PROVE  LET T == DOMAIN amounts
               n == Cardinality(T)
           IN  /\ n \in Nat \ {0}
               /\ \A i \in 1 .. n : Order(amounts)[i] \in T
               /\ \A t \in T : \E i \in 1 .. n : Order(amounts)[i] = t
<1> DEFINE T == DOMAIN amounts
           n == Cardinality(T)
           R == {p \in T \X T : p[1] < p[2]}
<1>1. IsFiniteSet(T) /\ n \in Nat \ {0}
  BY FS_CardinalityType, FS_EmptySet DEF Amounts
<1>2. StrictOrder(R, T)
  <2>1. \A x \in T : x \in Int
    BY DEF Amounts
  <2>2. \A x, y \in T : <<x, y>> \in R <=> x < y
    OBVIOUS
  <2> HIDE DEF T, R
  <2> QED BY <2>1, <2>2 DEF StrictOrder
<1>3. \A t \in T : Rank(R, T, t) = Cardinality({u \in T : u < t})
  <2> TAKE t \in T
  <2>1. Below(R, T, t) = {u \in T : u < t}
    BY DEF Below
  <2> QED BY <2>1 DEF Rank
<1>4. \A i \in 1 .. n : Order(amounts)[i] = CHOOSE t \in T : Cardinality({u \in T : u < t}) = i - 1
  BY DEF Order
<1>5. ASSUME NEW i \in 1 .. n
      PROVE  Order(amounts)[i] \in T /\ Rank(R, T, Order(amounts)[i]) = i - 1
  <2>1. i - 1 \in 0 .. n - 1
    BY <1>1
  <2>2. \E t \in T : Rank(R, T, t) = i - 1
    <3> HIDE DEF R, T
    <3> QED BY <1>1, <1>2, <2>1, RankBijective DEF n
  <2>3. \E t \in T : Cardinality({u \in T : u < t}) = i - 1
    BY <1>3, <2>2
  <2>4. Order(amounts)[i] \in T /\ Cardinality({u \in T : u < Order(amounts)[i]}) = i - 1
    BY <1>4, <2>3
  <2> QED BY <1>3, <2>4
<1>6. ASSUME NEW t \in T PROVE \E i \in 1 .. n : Order(amounts)[i] = t
  <2> DEFINE i == Rank(R, T, t) + 1
  <2> HIDE DEF R, T
  <2>1. Rank(R, T, t) \in 0 .. n - 1
    BY <1>1, <1>2, RankRange DEF n
  <2>2. i \in 1 .. n /\ i - 1 = Rank(R, T, t)
    BY <1>1, <2>1
  <2>3. Rank(R, T, Order(amounts)[i]) = Rank(R, T, t) /\ Order(amounts)[i] \in T
    BY <1>5, <2>2
  <2>4. Order(amounts)[i] = t
    BY <1>1, <1>2, <2>3, RankBijective
  <2> QED BY <2>2, <2>4
<1> QED BY <1>1, <1>5, <1>6

LEMMA LeavesFact ==
    ASSUME NEW amounts, Amounts(amounts)
    PROVE  LET leaves == Leaves(amounts)
               n == Cardinality(DOMAIN amounts)
           IN  /\ Len(leaves) = n /\ DOMAIN leaves = 1 .. n /\ n \in Nat \ {0}
               /\ \A i \in 1 .. n :
                    /\ Order(amounts)[i] \in DOMAIN amounts
                    /\ leaves[i] = LeafHash(Order(amounts)[i], amounts[Order(amounts)[i]])
<1> DEFINE n == Cardinality(DOMAIN amounts)
           leaves == Leaves(amounts)
<1>1. n \in Nat \ {0} /\ \A i \in 1 .. n : Order(amounts)[i] \in DOMAIN amounts
  BY OrderFact
<1>2. leaves = [i \in 1 .. n |-> LeafHash(Order(amounts)[i], amounts[Order(amounts)[i]])]
  BY DEF Leaves
<1>3. leaves = [i \in 1 .. n |-> leaves[i]]
  BY <1>2
<1>4. Len(leaves) = n /\ DOMAIN leaves = 1 .. n
  <2> HIDE DEF leaves, n
  <2> QED BY <1>1, <1>3, LengthIs
<1> QED BY <1>1, <1>2, <1>4

\* A level above another has half as many nodes, rounded up.
LEMMA NextLevelFact ==
    ASSUME NEW level, Len(level) \in Nat \ {0}
    PROVE  LET n == (Len(level) + 1) \div 2
           IN  /\ Len(NextLevel(level)) = n /\ n \in Nat \ {0}
               /\ n = 1 \/ n + 1 <= Len(level)
               /\ \A i \in 1 .. n :
                    /\ 2 * i - 1 \in 1 .. Len(level)
                    /\ NextLevel(level)[i] =
                            IF 2 * i <= Len(level) THEN PairHash(level[2 * i - 1], level[2 * i])
                            ELSE level[2 * i - 1]
<1> DEFINE m == Len(level)
           n == (m + 1) \div 2
           next == NextLevel(level)
<1>1. m \in Nat \ {0}
  OBVIOUS
<1>2. next = [i \in 1 .. n |->
                IF 2 * i <= m THEN PairHash(level[2 * i - 1], level[2 * i]) ELSE level[2 * i - 1]]
  BY DEF NextLevel
<1> HIDE DEF m
<1>3. n \in Nat \ {0} /\ (n = 1 \/ n + 1 <= m) /\ \A i \in 1 .. n : 2 * i - 1 \in 1 .. m
  BY <1>1
<1> HIDE DEF n
<1>4. next = [i \in 1 .. n |-> next[i]]
  <2> HIDE DEF next
  <2> QED BY <1>2
<1>5. Len(next) = n
  <2> HIDE DEF next
  <2> QED BY <1>3, <1>4, LengthIs
<1>6. \A i \in 1 .. n : next[i] =
        IF 2 * i <= m THEN PairHash(level[2 * i - 1], level[2 * i]) ELSE level[2 * i - 1]
  <2> HIDE DEF next
  <2> QED BY <1>2
<1> QED BY <1>3, <1>5, <1>6 DEF n, m, next

\* The levels shrink to one node.
LEMMA TreeFact ==
    ASSUME NEW leaves, Len(leaves) \in Nat \ {0}
    PROVE  LET levels == Levels(leaves)
               n == Len(leaves)
           IN  /\ \A k \in 0 .. n : Len(levels[k]) \in Nat \ {0}
               /\ Len(levels[n]) = 1
<1> DEFINE n == Len(leaves)
           levels == Levels(leaves)
           Shrunk(k) == /\ Len(levels[k]) \in Nat \ {0}
                        /\ Len(levels[k]) = 1 \/ Len(levels[k]) + k <= n
           G == {k \in Nat : k <= n => Shrunk(k)}
<1>0. n \in Nat \ {0}
  OBVIOUS
<1>1. levels[0] = leaves /\ \A k \in 0 .. n - 1 : levels[k + 1] = NextLevel(levels[k])
  BY LevelsFact
<1>2. 0 \in G
  BY <1>0, <1>1
<1>3. ASSUME NEW k \in Nat, k \in G PROVE k + 1 \in G
  <2> HIDE DEF levels, n
  <2> SUFFICES ASSUME k + 1 <= n PROVE Shrunk(k + 1)
    <3> HIDE DEF Shrunk
    <3> QED OBVIOUS
  <2>1. k \in 0 .. n - 1 /\ k <= n
    BY <1>0
  <2> DEFINE m == Len(levels[k])
             p == Len(levels[k + 1])
  <2>2. m \in Nat \ {0} /\ (m = 1 \/ m + k <= n)
    BY <1>3, <2>1
  <2>3. levels[k + 1] = NextLevel(levels[k])
    BY <1>1, <2>1
  <2>4. p = (m + 1) \div 2 /\ p \in Nat \ {0} /\ (p = 1 \/ p + 1 <= m)
    <3> QED BY <2>2, <2>3, NextLevelFact
  <2> HIDE DEF m, p
  <2>5. p = 1 \/ p + (k + 1) <= n
    BY <1>0, <2>2, <2>4
  <2> QED BY <2>4, <2>5 DEF p
<1> HIDE DEF G, levels, n
<1>4. \A k \in Nat : k \in G
  BY <1>2, <1>3, NaturalInduction
<1>5. \A k \in 0 .. n : k \in Nat /\ k <= n /\ k \in G
  BY <1>0, <1>4
<1>6. n \in Nat /\ n <= n /\ n \in G
  BY <1>0, <1>4
<1> QED BY <1>0, <1>5, <1>6 DEF G, levels, n

-----------------------------------------------------------------------------
(* What a proof is worth *)

\* What a leaf hashes to with the members of a proof.
Hash(leaf, proof) == Computed(leaf, proof)[Len(proof)]

Nodes(levels, k) == {levels[k][i] : i \in 1 .. Len(levels[k])}

(* Only a leaf of the tree hashes to its root: whatever proof a claim       *)
(* brings, the position and the amount are those of the allocation.         *)
THEOREM MerkleSound ==
    ASSUME NEW amounts, Amounts(amounts), NEW proof, Len(proof) \in Nat, NEW t, NEW amount,
           Verifies(proof, MerkleRoot(amounts), LeafHash(t, amount))
    PROVE  t \in DOMAIN amounts /\ amount = amounts[t]
<1> DEFINE leaves == Leaves(amounts)
           n == Len(leaves)
           levels == Levels(leaves)
           leaf == LeafHash(t, amount)
           h == Computed(leaf, proof)
           len == Len(proof)
           G == {k \in Nat : k <= n =>
                    \A m \in 0 .. len : h[m] \in Nodes(levels, k) => leaf \in Nodes(levels, 0)}
<1>1. /\ n \in Nat \ {0} /\ levels[0] = leaves
      /\ \A i \in 1 .. n : /\ Order(amounts)[i] \in DOMAIN amounts
                           /\ leaves[i] = LeafHash(Order(amounts)[i], amounts[Order(amounts)[i]])
  BY LeavesFact, LevelsFact
<1>2. \A k \in 0 .. n - 1 : levels[k + 1] = NextLevel(levels[k])
  BY <1>1, LevelsFact
<1>3. len \in Nat /\ h[0] = leaf /\ \A m \in 0 .. len - 1 : h[m + 1] = PairHash(h[m], proof[m + 1])
  BY ComputedFact
<1>4. \A k \in 0 .. n : Len(levels[k]) \in Nat \ {0}
  BY <1>1, TreeFact
<1>5. Len(levels[n]) = 1
  BY <1>1, TreeFact
<1> HIDE DEF levels, h
<1>6. ASSUME NEW m \in 0 .. len, NEW x, NEW y, h[m] = PairHash(x, y)
      PROVE  m - 1 \in 0 .. len /\ h[m - 1] \in {x, y}
  <2>1. m # 0
    <3>1. leaf # PairHash(x, y)
      BY DEF LeafHash, PairHash
    <3> QED BY <1>3, <1>6, <3>1
  <2>2. m - 1 \in 0 .. len - 1 /\ (m - 1) + 1 = m /\ m - 1 \in 0 .. len
    BY <1>3, <2>1
  <2>3. PairHash(h[m - 1], proof[m]) = PairHash(x, y)
    BY <1>3, <1>6, <2>2
  <2>4. {h[m - 1], proof[m]} = {x, y}
    BY <2>3 DEF PairHash
  <2> QED BY <2>2, <2>4
<1>7. 0 \in G
  <2> SUFFICES ASSUME NEW m \in 0 .. len, h[m] \in Nodes(levels, 0) PROVE leaf \in Nodes(levels, 0)
    OBVIOUS
  <2>1. CASE m = 0
    BY <1>3, <2>1
  <2>2. CASE m # 0
    <3>1. m - 1 \in 0 .. len - 1 /\ (m - 1) + 1 = m
      BY <1>3, <2>2
    <3>2. h[m] = PairHash(h[m - 1], proof[m])
      BY <1>3, <3>1
    <3>3. PICK i \in 1 .. n : h[m] = LeafHash(Order(amounts)[i], amounts[Order(amounts)[i]])
      BY <1>1 DEF Nodes
    <3> QED BY <3>2, <3>3 DEF LeafHash, PairHash
  <2> QED BY <2>1, <2>2
<1>8. ASSUME NEW k \in Nat, k \in G PROVE k + 1 \in G
  <2> HIDE DEF n, leaf, len
  <2> SUFFICES ASSUME k + 1 <= n, NEW m \in 0 .. len, h[m] \in Nodes(levels, k + 1)
               PROVE  leaf \in Nodes(levels, 0)
    OBVIOUS
  <2> DEFINE level == levels[k]
  <2>1. k \in 0 .. n /\ k <= n /\ k \in 0 .. n - 1
    BY <1>1
  <2>2. Len(level) \in Nat \ {0} /\ levels[k + 1] = NextLevel(level)
    BY <1>2, <1>4, <2>1
  <2>3. PICK i \in 1 .. Len(NextLevel(level)) : h[m] = NextLevel(level)[i]
    BY <2>2 DEF Nodes
  <2> HIDE DEF level
  <2>4. /\ 2 * i - 1 \in 1 .. Len(level)
        /\ h[m] = IF 2 * i <= Len(level) THEN PairHash(level[2 * i - 1], level[2 * i])
                  ELSE level[2 * i - 1]
    BY <2>2, <2>3, NextLevelFact
  <2>5. level[2 * i - 1] \in Nodes(levels, k)
    BY <2>4 DEF Nodes, level
  <2>6. 2 * i <= Len(level) => level[2 * i] \in Nodes(levels, k)
    <3>1. 2 * i <= Len(level) => 2 * i \in 1 .. Len(level)
      BY <2>2, <2>4
    <3> QED BY <3>1 DEF Nodes, level
  <2>7. \E j \in 0 .. len : h[j] \in Nodes(levels, k)
    <3>1. CASE 2 * i <= Len(level)
      <4>1. h[m] = PairHash(level[2 * i - 1], level[2 * i])
        BY <2>4, <3>1
      <4>2. m - 1 \in 0 .. len /\ h[m - 1] \in {level[2 * i - 1], level[2 * i]}
        BY <1>6, <4>1 DEF len
      <4> QED BY <2>5, <2>6, <3>1, <4>2
    <3>2. CASE ~(2 * i <= Len(level))
      BY <2>4, <2>5, <3>2
    <3> QED BY <3>1, <3>2
  <2> QED BY <1>8, <2>1, <2>7
<1>9. n \in G
  <2> HIDE DEF G
  <2>1. \A k \in Nat : k \in G
    BY <1>7, <1>8, NaturalInduction
  <2> QED BY <1>1, <2>1
<1>10. h[len] \in Nodes(levels, n)
  <2>1. h[len] = levels[n][1]
    BY DEF Verifies, MerkleRoot, h, levels
  <2> QED BY <1>5, <2>1 DEF Nodes
<1>11. leaf \in Nodes(levels, 0)
  <2>1. n <= n /\ len \in 0 .. len
    BY <1>1, <1>3
  <2> HIDE DEF n, len, leaf
  <2> QED BY <1>9, <1>10, <2>1
<1>12. PICK i \in 1 .. n : leaf = LeafHash(Order(amounts)[i], amounts[Order(amounts)[i]])
  BY <1>1, <1>11 DEF Nodes
<1>13. t = Order(amounts)[i] /\ amount = amounts[Order(amounts)[i]]
  BY <1>12 DEF LeafHash
<1> QED BY <1>1, <1>13

\* A member at the end of a proof is hashed last.
LEMMA HashAppend ==
    ASSUME NEW leaf, NEW T, NEW s \in Seq(T), NEW x \in T
    PROVE  Hash(leaf, s \o <<x>>) = PairHash(Hash(leaf, s), x)
<1> DEFINE p == s \o <<x>>
           n == Len(s)
           g == Computed(leaf, p)
           h == Computed(leaf, s)
           G == {m \in Nat : m <= n => g[m] = h[m]}
<1>1. n \in Nat /\ Len(p) = n + 1 /\ p[n + 1] = x /\ \A i \in 1 .. n : p[i] = s[i]
  OBVIOUS
<1>2. h[0] = leaf /\ \A i \in 0 .. n - 1 : h[i + 1] = PairHash(h[i], s[i + 1])
  BY <1>1, ComputedFact
<1>3. g[0] = leaf /\ \A i \in 0 .. n : g[i + 1] = PairHash(g[i], p[i + 1])
  <2>1. Len(p) \in Nat /\ Len(p) - 1 = n
    BY <1>1
  <2> HIDE DEF p, n
  <2> QED BY <2>1, ComputedFact
<1> HIDE DEF p, n, g, h
<1>4. 0 \in G
  BY <1>2, <1>3
<1>5. ASSUME NEW m \in Nat, m \in G PROVE m + 1 \in G
  <2> SUFFICES ASSUME m + 1 <= n PROVE g[m + 1] = h[m + 1]
    OBVIOUS
  <2>1. m \in 0 .. n - 1 /\ m \in 0 .. n /\ m + 1 \in 1 .. n /\ m <= n
    BY <1>1
  <2>2. g[m] = h[m] /\ p[m + 1] = s[m + 1]
    BY <1>1, <1>5, <2>1
  <2> QED BY <1>2, <1>3, <2>1, <2>2
<1> HIDE DEF G
<1>6. n \in G
  BY <1>1, <1>4, <1>5, NaturalInduction
<1>7. g[n] = h[n]
  BY <1>1, <1>6 DEF G
<1>8. g[n + 1] = PairHash(h[n], x)
  <2>1. n \in 0 .. n
    BY <1>1
  <2> QED BY <1>1, <1>3, <1>7, <2>1
<1> QED BY <1>1, <1>8 DEF Hash, g, h, n, p

\* Two leaves never hash to the same with one proof.
LEMMA HashInjective ==
    ASSUME NEW x, NEW y, NEW proof, Len(proof) \in Nat, Hash(x, proof) = Hash(y, proof)
    PROVE  x = y
<1> DEFINE n == Len(proof)
           g == Computed(x, proof)
           h == Computed(y, proof)
           G == {m \in Nat : m <= n /\ g[m] = h[m] => x = y}
<1>1. /\ g[0] = x /\ \A i \in 0 .. n - 1 : g[i + 1] = PairHash(g[i], proof[i + 1])
      /\ h[0] = y /\ \A i \in 0 .. n - 1 : h[i + 1] = PairHash(h[i], proof[i + 1])
      /\ n \in Nat /\ g[n] = h[n]
  BY ComputedFact DEF Hash
<1> HIDE DEF g, h, n
<1>2. 0 \in G
  BY <1>1
<1>3. ASSUME NEW m \in Nat, m \in G PROVE m + 1 \in G
  <2> SUFFICES ASSUME m + 1 <= n, g[m + 1] = h[m + 1] PROVE x = y
    OBVIOUS
  <2>1. m \in 0 .. n - 1 /\ m <= n
    BY <1>1
  <2>2. PairHash(g[m], proof[m + 1]) = PairHash(h[m], proof[m + 1])
    BY <1>1, <2>1
  <2>3. {g[m], proof[m + 1]} = {h[m], proof[m + 1]}
    BY <2>2 DEF PairHash
  <2>4. g[m] = h[m]
    BY <2>3
  <2> QED BY <1>3, <2>1, <2>4
<1> HIDE DEF G
<1>4. n \in G
  BY <1>1, <1>2, <1>3, NaturalInduction
<1> QED BY <1>1, <1>4 DEF G

\* One level up along a proof: the node, hashed with its neighbour if it has one.
LEMMA StepUp ==
    ASSUME NEW level, Len(level) \in Nat \ {0}, NEW p \in 1 .. Len(level),
           NEW T, \A i \in 1 .. Len(level) : level[i] \in T,
           NEW leaf, NEW part \in Seq(T), Hash(leaf, part) = level[p]
    PROVE  LET q == (p + 1) \div 2
               longer == part \o Neighbour(level, p)
           IN  /\ q \in 1 .. Len(NextLevel(level)) /\ longer \in Seq(T)
               /\ Hash(leaf, longer) = NextLevel(level)[q]
<1> DEFINE m == Len(level)
           q == (p + 1) \div 2
           s == IF p % 2 = 1 THEN p + 1 ELSE p - 1
           longer == part \o Neighbour(level, p)
<1>1. Len(NextLevel(level)) = (m + 1) \div 2 /\ \A i \in 1 .. (m + 1) \div 2 : NextLevel(level)[i] =
        IF 2 * i <= m THEN PairHash(level[2 * i - 1], level[2 * i]) ELSE level[2 * i - 1]
  BY NextLevelFact
<1>2. m \in Nat \ {0} /\ p \in 1 .. m
  OBVIOUS
<1>3. Neighbour(level, p) = IF s <= m THEN <<level[s]>> ELSE <<>>
  BY DEF Neighbour
<1> HIDE DEF m
<1>4. q \in 1 .. (m + 1) \div 2 /\ s \in Nat \ {0}
  BY <1>2
<1>5. /\ p % 2 = 1 => p = 2 * q - 1 /\ s = 2 * q
      /\ p % 2 # 1 => p = 2 * q /\ s = 2 * q - 1 /\ s <= m
  BY <1>2
<1>6. NextLevel(level)[q] =
        IF 2 * q <= m THEN PairHash(level[2 * q - 1], level[2 * q]) ELSE level[2 * q - 1]
  BY <1>1, <1>4
<1>7. \A x, y : PairHash(x, y) = PairHash(y, x)
  BY DEF PairHash
<1> HIDE DEF q, s
<1>8. CASE s <= m
  <2>1. s \in 1 .. m /\ level[s] \in T
    BY <1>2, <1>4, <1>8 DEF m
  <2>2. longer = part \o <<level[s]>> /\ longer \in Seq(T)
    BY <1>3, <1>8, <2>1
  <2>3. Hash(leaf, longer) = PairHash(level[p], level[s])
    BY <2>1, <2>2, HashAppend
  <2>4. PairHash(level[p], level[s]) = PairHash(level[2 * q - 1], level[2 * q])
    <3>1. CASE p % 2 = 1
      BY <1>5, <3>1
    <3>2. CASE p % 2 # 1
      BY <1>5, <1>7, <3>2
    <3> QED BY <3>1, <3>2
  <2>5. 2 * q <= m
    <3>1. CASE p % 2 = 1
      BY <1>5, <1>8, <3>1
    <3>2. CASE p % 2 # 1
      BY <1>2, <1>5, <3>2
    <3> QED BY <3>1, <3>2
  <2> QED BY <1>1, <1>4, <1>6, <2>2, <2>3, <2>4, <2>5 DEF q
<1>9. CASE ~(s <= m)
  <2>1. longer = part /\ longer \in Seq(T)
    BY <1>3, <1>9
  <2>2. p = 2 * q - 1 /\ ~(2 * q <= m)
    BY <1>5, <1>9
  <2> QED BY <1>1, <1>4, <1>6, <2>1, <2>2 DEF q
<1> QED BY <1>8, <1>9

(* The proof of a position verifies its own leaf, and no other.             *)
THEOREM MerkleExact ==
    ASSUME NEW amounts, Amounts(amounts), NEW t \in DOMAIN amounts, NEW leaf
    PROVE  /\ Len(MerkleProof(amounts, t)) \in Nat
           /\ Verifies(MerkleProof(amounts, t), MerkleRoot(amounts), leaf)
                <=> leaf = LeafHash(t, amounts[t])
<1> DEFINE leaves == Leaves(amounts)
           n == Len(leaves)
           levels == Levels(leaves)
           own == LeafHash(t, amounts[t])
           first == CHOOSE i \in DOMAIN leaves : Order(amounts)[i] = t
           place == Places(first, n)
           part == ProofParts(leaves, first)
           T == UNION {Nodes(levels, k) : k \in 0 .. n}
           Along(k) == /\ place[k] \in 1 .. Len(levels[k]) /\ part[k] \in Seq(T)
                       /\ Hash(own, part[k]) = levels[k][place[k]]
           G == {k \in Nat : k <= n => Along(k)}
<1>1. /\ n \in Nat \ {0} /\ levels[0] = leaves /\ DOMAIN leaves = 1 .. n
      /\ \A i \in 1 .. n : leaves[i] = LeafHash(Order(amounts)[i], amounts[Order(amounts)[i]])
  BY LeavesFact, LevelsFact
<1>2. \A k \in 0 .. n - 1 : levels[k + 1] = NextLevel(levels[k])
  BY <1>1, LevelsFact
<1>3. (\A k \in 0 .. n : Len(levels[k]) \in Nat \ {0}) /\ Len(levels[n]) = 1
  BY <1>1, TreeFact
<1>4. first \in 1 .. n /\ Order(amounts)[first] = t
  <2>1. \E i \in 1 .. n : Order(amounts)[i] = t
    BY LeavesFact, OrderFact
  <2> QED BY <1>1, <2>1
<1>5. place[0] = first /\ \A k \in 0 .. n - 1 : place[k + 1] = (place[k] + 1) \div 2
  BY <1>1, PlacesFact
<1>6. /\ part[0] = <<>>
      /\ \A k \in 0 .. n - 1 : part[k + 1] = part[k] \o Neighbour(levels[k], place[k])
  BY <1>1, PartsFact
<1> HIDE DEF levels, first, place, part
<1>7. ASSUME NEW k \in 0 .. n, NEW i \in 1 .. Len(levels[k]) PROVE levels[k][i] \in T
  BY DEF Nodes
<1> HIDE DEF T, own
<1>8. 0 \in G
  <2>1. Hash(own, <<>>) = own
    <3>1. Len(<<>>) = 0
      OBVIOUS
    <3> QED BY <3>1, ComputedFact DEF Hash
  <2>2. own = levels[0][place[0]]
    BY <1>1, <1>4, <1>5 DEF own
  <2>3. place[0] \in 1 .. Len(levels[0])
    BY <1>1, <1>4, <1>5
  <2>4. Along(0)
    BY <1>6, <2>1, <2>2, <2>3
  <2> QED BY <2>4
<1>9. ASSUME NEW k \in Nat, k \in G PROVE k + 1 \in G
  <2> HIDE DEF n
  <2> SUFFICES ASSUME k + 1 <= n PROVE Along(k + 1)
    <3> HIDE DEF Along
    <3> QED OBVIOUS
  <2>1. k \in 0 .. n /\ k \in 0 .. n - 1 /\ k <= n
    BY <1>1
  <2>2. Along(k) /\ Len(levels[k]) \in Nat \ {0}
    BY <1>3, <1>9, <2>1
  <2> DEFINE level == levels[k]
             p == place[k]
             q == (p + 1) \div 2
             longer == part[k] \o Neighbour(level, p)
  <2>3. levels[k + 1] = NextLevel(level) /\ place[k + 1] = q /\ part[k + 1] = longer
    BY <1>2, <1>5, <1>6, <2>1
  <2>4. /\ q \in 1 .. Len(NextLevel(level)) /\ longer \in Seq(T)
        /\ Hash(own, longer) = NextLevel(level)[q]
    <3>1. \A i \in 1 .. Len(level) : level[i] \in T
      BY <1>7, <2>1
    <3>2. p \in 1 .. Len(level) /\ part[k] \in Seq(T) /\ Hash(own, part[k]) = level[p]
      BY <2>2
    <3>3. Len(level) \in Nat \ {0}
      BY <2>2
    <3> HIDE DEF level, p
    <3> QED BY <3>1, <3>2, <3>3, StepUp
  <2> HIDE DEF level, q, longer
  <2> QED BY <2>3, <2>4
<1>10. Along(n)
  <2> HIDE DEF G
  <2>1. \A k \in Nat : k \in G
    BY <1>8, <1>9, NaturalInduction
  <2>2. n \in Nat /\ n <= n
    BY <1>1
  <2>3. n \in G
    BY <2>1, <2>2
  <2> QED BY <2>2, <2>3 DEF G
<1> DEFINE proof == MerkleProof(amounts, t)
<1>11. proof = part[n] /\ MerkleRoot(amounts) = levels[n][1]
  BY DEF MerkleProof, MerkleRoot, part, first, levels
<1>12. Len(proof) \in Nat
  BY <1>10, <1>11
<1>13. place[n] = 1
  BY <1>3, <1>10
<1>14. Hash(own, proof) = MerkleRoot(amounts)
  BY <1>10, <1>11, <1>13
<1> HIDE DEF proof
<1>15. Verifies(proof, MerkleRoot(amounts), leaf) <=> Hash(leaf, proof) = Hash(own, proof)
  BY <1>14 DEF Verifies, Hash
<1>16. Hash(leaf, proof) = Hash(own, proof) <=> leaf = own
  BY <1>12, HashInjective
<1> QED BY <1>12, <1>15, <1>16 DEF proof, own

-----------------------------------------------------------------------------
(* Least and greatest elements *)

LEMMA MinFact ==
    ASSUME NEW S \in SUBSET Nat, S # {}
    PROVE  Min(S) \in S /\ \A x \in S : Min(S) <= x
<1>1. IsWellFoundedOn(OpToRel(<, Nat), Nat)
  BY NatLessThanWellFounded
<1>2. PICK x \in S : \A y \in S : ~(<<y, x>> \in OpToRel(<, Nat))
  <2> HIDE DEF OpToRel
  <2> QED BY <1>1, WFMin
<1>3. \A y \in S : ~(y < x)
  BY <1>2 DEF OpToRel
<1>4. \A y \in S : x <= y
  <2> TAKE y \in S
  <2>1. x \in Nat /\ y \in Nat
    OBVIOUS
  <2> QED BY <1>3, <2>1
<1> QED BY <1>4 DEF Min

LEMMA MaxFact ==
    ASSUME NEW x \in Int, NEW y \in Int
    PROVE  Max({x, y}) \in Int /\ x <= Max({x, y}) /\ y <= Max({x, y})
<1>1. \E z \in {x, y} : \A w \in {x, y} : z >= w
  OBVIOUS
<1> QED BY <1>1 DEF Max

-----------------------------------------------------------------------------
(* Epochs: an active root is never replaced *)

\* No epoch is both queued and active.
Exclusive ==
    /\ pending = [e \in Epochs |-> pending[e]]
    /\ active = [e \in Epochs |-> active[e]]
    /\ \A e \in Epochs : pending[e].root # ZeroHash => active[e].root = ZeroHash

LEMMA ExclusiveInit == Init => Exclusive
BY DEF Init, Exclusive, NoPending, NoRoot

\* What a step may do to the epochs.
EpochStep ==
    \/ UNCHANGED <<pending, active, latestEpoch>>
    \/ \E m \in sent : QueueEpoch(m)
    \/ \E e \in Epochs : DelayPasses(e)
    \/ \E e \in Epochs : ActivateEpoch(e)
    \/ RunActivation

LEMMA NextEpochStep == [Next]_vars => EpochStep
<1> SUFFICES ASSUME [Next]_vars PROVE EpochStep
  OBVIOUS
<1> USE DEF EpochStep, contractVars
<1>1. CASE UNCHANGED vars
  BY <1>1 DEF vars
<1>2. CASE ContractNext
  BY <1>2 DEF ContractNext, Fund, Claim, Pays, ClaimForSelfRepay, DisableSelfRepay,
     SetSelfRepayRecipient
<1>3. CASE OutsideNext
  BY <1>3 DEF OutsideNext, Move
<1>4. CASE GenNext
  BY <1>4 DEF GenNext, GenStart, GenReadBalance, GenReadActive, GenFails, GenPublish,
     RefreshStart, RefreshFails, RefreshPublish
<1>5. CASE QueueNext
  BY <1>5 DEF QueueNext, QueueStart, QueueSend, QueueEnds
<1>6. CASE KeeperNext
  BY <1>6 DEF KeeperNext, KeeperStart, KeeperLook, KeeperSend, KeeperEnds, Pays
<1> QED BY <1>1, <1>2, <1>3, <1>4, <1>5, <1>6 DEF Next

\* Activation only writes an epoch that was not active.
LEMMA ActivateEpochExclusive ==
    ASSUME Exclusive, NEW e, ActivateEpoch(e)
    PROVE  /\ Exclusive'
           /\ \A f \in Epochs : active[f].root # ZeroHash => active'[f] = active[f]
BY DEF Exclusive, ActivateEpoch, NoPending

LEMMA ExclusiveNext ==
    ASSUME Exclusive, EpochStep
    PROVE  /\ Exclusive'
           /\ \A f \in Epochs : active[f].root # ZeroHash => active'[f] = active[f]
<1>1. CASE UNCHANGED <<pending, active, latestEpoch>>
  BY <1>1 DEF Exclusive
<1>2. ASSUME NEW m \in sent, QueueEpoch(m) PROVE Exclusive' /\ UNCHANGED active
  BY <1>2 DEF Exclusive, QueueEpoch, QueueAccepts
<1>3. ASSUME NEW e \in Epochs, DelayPasses(e) PROVE Exclusive' /\ UNCHANGED active
  BY <1>3 DEF Exclusive, DelayPasses
<1> QED BY <1>1, <1>2, <1>3, ActivateEpochExclusive DEF EpochStep, RunActivation

(* The root and the budget of an active epoch never change, even if a queue *)
(* transaction sent long before is included after the activation.           *)
THEOREM ActiveRootsFixed == Spec => ActiveRootFixed
<1>1. Exclusive /\ [Next]_vars => Exclusive'
  BY NextEpochStep, ExclusiveNext
<1>2. Exclusive /\ [Next]_vars =>
        [\A e \in Epochs : active[e].root # ZeroHash => active'[e] = active[e]]_vars
  BY NextEpochStep, ExclusiveNext
<1> QED BY ExclusiveInit, <1>1, <1>2, PTL DEF Spec, ActiveRootFixed

-----------------------------------------------------------------------------
(* Self-repay settings *)

\* SelfRepayOwnerCurrent, with the domains of what it is about.
Settings ==
    /\ recipient = [t \in Tokens |-> recipient[t]]
    /\ repayOwner = [t \in Tokens |-> repayOwner[t]]
    /\ leftOwner = [t \in Tokens |-> leftOwner[t]]
    /\ holder = [t \in Tokens |-> holder[t]]
    /\ SelfRepayOwnerCurrent

SettingStep ==
    \/ UNCHANGED <<repayVars, holder>>
    \/ \E t \in Tokens : DisableSelfRepay(t)
    \/ \E t \in Tokens, to \in Recipients : SetSelfRepayRecipient(t, to)
    \/ \E t \in Tokens, to \in Accounts \union {None} : Move(t, to)

LEMMA NextSettingStep == [Next]_vars => SettingStep
<1> SUFFICES ASSUME [Next]_vars PROVE SettingStep
  OBVIOUS
<1> USE RewardAssumption DEF SettingStep, outsideVars
<1>1. CASE UNCHANGED vars
  BY <1>1 DEF vars
<1>2. CASE ContractNext
  BY <1>2 DEF ContractNext, Fund, QueueEpoch, DelayPasses, ActivateEpoch, Claim,
     ClaimForSelfRepay
<1>3. CASE OutsideNext
  BY <1>3 DEF OutsideNext
<1>4. CASE GenNext
  BY <1>4 DEF GenNext, GenStart, GenReadBalance, GenReadActive, GenFails, GenPublish,
     RefreshStart, RefreshFails, RefreshPublish
<1>5. CASE QueueNext
  BY <1>5 DEF QueueNext, QueueStart, QueueSend, QueueEnds, RunActivation, ActivateEpoch
<1>6. CASE KeeperNext
  BY <1>6 DEF KeeperNext, KeeperStart, KeeperLook, KeeperSend, KeeperEnds
<1> QED BY <1>1, <1>2, <1>3, <1>4, <1>5, <1>6 DEF Next

LEMMA SettingsInit == Init => Settings
BY RewardAssumption DEF Init, Settings, SelfRepayOwnerCurrent

LEMMA SettingsNext ==
    ASSUME Settings, SettingStep
    PROVE  Settings'
<1> USE DEF Settings, SelfRepayOwnerCurrent, PositionOwner
<1>1. CASE UNCHANGED <<repayVars, holder>>
  BY <1>1 DEF repayVars
<1>2. ASSUME NEW t \in Tokens, DisableSelfRepay(t) PROVE Settings'
  BY <1>2 DEF DisableSelfRepay, outsideVars
<1>3. ASSUME NEW t \in Tokens, NEW to \in Recipients, SetSelfRepayRecipient(t, to)
      PROVE  Settings'
  BY <1>3 DEF SetSelfRepayRecipient, outsideVars
<1>4. ASSUME NEW t \in Tokens, NEW to \in Accounts \union {None}, Move(t, to)
      PROVE  Settings'
  BY <1>4 DEF Move, OnVeCENTTransfer
<1> QED BY <1>1, <1>2, <1>3, <1>4 DEF SettingStep

(* A self-repay setting is always that of the position's present owner:    *)
(* no transfer or withdrawal leaves one that a former owner has made.      *)
THEOREM SettingsCurrent == Spec => []SelfRepayOwnerCurrent
<1>1. Settings /\ [Next]_vars => Settings'
  BY NextSettingStep, SettingsNext
<1>2. Settings => SelfRepayOwnerCurrent
  BY DEF Settings
<1> QED BY SettingsInit, <1>1, <1>2, PTL DEF Spec

-----------------------------------------------------------------------------
(* The reward files: only published manifests are ever used *)

ManifestOK(m) ==
    /\ m.epoch \in Epochs /\ m.budget \in Nat
    /\ DOMAIN m.amounts \subseteq Tokens
    /\ \A t \in DOMAIN m.amounts : m.amounts[t] \in Nat

\* The positions the keeper has yet to go through; the next one is the least.
KeeperOK ==
    keeper.step # "idle" =>
        /\ keeper.file \in published
        /\ DOMAIN keeper = {"step", "file", "todo"}
        /\ keeper.todo \subseteq DOMAIN keeper.file.amounts
        /\ keeper.step = "send" => keeper.todo # {}

Files ==
    /\ \A m \in published : ManifestOK(m)
    /\ manifest.epoch > 0 => manifest \in published
    /\ manifest.epoch \in Nat /\ latestEpoch \in Nat
    /\ sent \subseteq published
    /\ generator.step # "idle" =>
        /\ generator.epoch \in Epochs
        /\ DOMAIN generator = {"step", "epoch", "latest", "available"}
    /\ refresh.step # "idle" =>
        /\ refresh.file \in published
        /\ DOMAIN refresh = {"step", "fresh", "file"}
    /\ queuer.step # "idle" => queuer.file \in published
    /\ KeeperOK

LEMMA FilesInit == Init => Files
BY DEF Init, Files, KeeperOK, Idle, NoManifest

LEMMA ManifestFact ==
    ASSUME NEW e \in Epochs, NEW budget \in Nat, NEW power, ValidManifest(Manifest(e, budget, power))
    PROVE  ManifestOK(Manifest(e, budget, power)) /\ Manifest(e, budget, power).epoch = e
<1> DEFINE m == Manifest(e, budget, power)
<1>1. m.epoch = e /\ m.budget = budget
  BY DEF Manifest
<1>2. DOMAIN m.amounts \subseteq Tokens
  BY DEF Manifest, Allocate
<1>3. \A t \in DOMAIN m.amounts : m.amounts[t] \in Nat
  BY DEF ValidManifest
<1> QED BY <1>1, <1>2, <1>3 DEF ManifestOK

LEMMA NextEpochFact ==
    ASSUME NEW latest \in Int, NextEpoch(latest) # 0
    PROVE  /\ NextEpoch(latest) \in Epochs
           /\ NextEpoch(latest) > latest /\ Free(NextEpoch(latest))
           /\ \A e \in Epochs : e < NextEpoch(latest) => e <= latest \/ ~Free(e)
<1> DEFINE free == {e \in Epochs : e > latest /\ Free(e)}
<1>1. NextEpoch(latest) = Min(free) /\ free # {} /\ free \in SUBSET Nat
  BY DEF NextEpoch, Epochs
<1>2. Min(free) \in free /\ \A e \in free : Min(free) <= e
  BY <1>1, MinFact
<1>3. ASSUME NEW e \in Epochs, e < NextEpoch(latest) PROVE e <= latest \/ ~Free(e)
  <2>1. e \notin free
    BY <1>1, <1>2, <1>3, RewardAssumption DEF Epochs
  <2> QED BY <2>1 DEF Epochs
<1> QED BY <1>1, <1>2, <1>3

LEMMA LatestEpochType ==
    ASSUME latestEpoch \in Nat, NEW e \in Nat, ActivateEpoch(e)
    PROVE  latestEpoch' \in Nat /\ latestEpoch <= latestEpoch' /\ e <= latestEpoch'
BY MaxFact DEF ActivateEpoch

LEMMA FilesNext ==
    ASSUME Files, [Next]_vars
    PROVE  Files'
<1> USE DEF Files, KeeperOK, fileVars, workflowVars, contractVars, Idle
<1>1. CASE UNCHANGED vars
  BY <1>1 DEF vars
<1>2. CASE ContractNext
  <2>1. ASSUME NEW m \in sent, QueueEpoch(m) PROVE Files'
    BY <2>1 DEF QueueEpoch
  <2>2. ASSUME NEW e \in Epochs, ActivateEpoch(e) PROVE Files'
    <3>1. latestEpoch' \in Nat
      BY <2>2, LatestEpochType, RewardAssumption DEF Epochs
    <3> QED BY <2>2, <3>1 DEF ActivateEpoch
  <2> QED BY <1>2, <2>1, <2>2 DEF ContractNext, Fund, DelayPasses, Claim, Pays,
         ClaimForSelfRepay, DisableSelfRepay, SetSelfRepayRecipient
<1>3. CASE OutsideNext
  BY <1>3 DEF OutsideNext, Move
<1>4. CASE GenNext
  <2>1. CASE GenStart
    <3>1. NextEpoch(latestEpoch) \in Epochs
      BY <2>1, NextEpochFact DEF GenStart
    <3> QED BY <2>1, <3>1 DEF GenStart
  <2>2. CASE GenReadBalance \/ GenReadActive
    BY <2>2 DEF GenReadBalance, GenReadActive
  <2>3. CASE GenFails
    BY <2>3 DEF GenFails
  <2>4. ASSUME NEW budget \in 1 .. MaxFunded, NEW power \in Powers, GenPublish(budget, power)
        PROVE  Files'
    <3> DEFINE m == Manifest(generator.epoch, budget, power)
    <3>1. ManifestOK(m) /\ m.epoch \in Epochs /\ m.epoch > 0 /\ m.epoch \in Nat
      BY <2>4, ManifestFact, RewardAssumption DEF GenPublish, Epochs
    <3>2. published' = published \union {m} /\ manifest' = m
      BY <2>4 DEF GenPublish, Commit
    <3>3. refresh' = Behind(refresh)
      BY <2>4 DEF GenPublish
    <3>4. refresh'.step = refresh.step /\
            (refresh.step # "idle" => refresh'.file = refresh.file /\ DOMAIN refresh' = DOMAIN refresh)
      BY <3>3 DEF Behind
    <3> HIDE DEF m
    <3> QED BY <2>4, <3>1, <3>2, <3>4 DEF GenPublish
  <2>5. CASE RefreshStart
    BY <2>5 DEF RefreshStart
  <2>6. CASE RefreshFails
    BY <2>6 DEF RefreshFails
  <2>7. CASE RefreshPublish
    <3>1. refresh.file \in published /\ refresh.file.epoch > 0 /\ refresh.file.epoch \in Nat
      BY <2>7, RewardAssumption DEF RefreshPublish, PushAccepted, ManifestOK, Epochs
    <3> QED BY <2>7, <3>1 DEF RefreshPublish, Commit
  <2> QED BY <1>4, <2>1, <2>2, <2>3, <2>4, <2>5, <2>6, <2>7 DEF GenNext
<1>5. CASE QueueNext
  <2>1. CASE RunActivation
    <3>1. ActivateEpoch(manifest.epoch) /\ latestEpoch' \in Nat
      BY <2>1, LatestEpochType DEF RunActivation
    <3> QED BY <3>1 DEF ActivateEpoch
  <2>2. CASE QueueStart
    BY <2>2 DEF QueueStart
  <2>3. CASE QueueSend
    BY <2>3 DEF QueueSend
  <2>4. CASE QueueEnds
    BY <2>4 DEF QueueEnds
  <2> QED BY <1>5, <2>1, <2>2, <2>3, <2>4 DEF QueueNext
<1>6. CASE KeeperNext
  <2>1. CASE KeeperStart
    BY <2>1 DEF KeeperStart
  <2>2. ASSUME NEW t \in Tokens, KeeperLook(t) PROVE Files'
    <3>1. t \in {u \in keeper.todo : u >= t}
      BY <2>2, RewardAssumption DEF KeeperLook
    <3> QED BY <2>2, <3>1 DEF KeeperLook
  <2>3. CASE KeeperSend
    BY <2>3 DEF KeeperSend, Pays
  <2>4. CASE KeeperEnds
    BY <2>4 DEF KeeperEnds
  <2> QED BY <1>6, <2>1, <2>2, <2>3, <2>4 DEF KeeperNext
<1> QED BY <1>1, <1>2, <1>3, <1>4, <1>5, <1>6 DEF Next

-----------------------------------------------------------------------------
(* Money: the contract holds what it has reserved *)

Money == balance \in Int /\ reserved \in Int /\ Solvent

LEMMA MoneyInit == Init => Money
BY DEF Init, Money, Solvent

\* A claim lowers both by the amount that a published manifest has.
LEMMA PaysMoney ==
    ASSUME Files, Money, NEW e, NEW m \in published, NEW t \in DOMAIN m.amounts, Pays(e, t, m)
    PROVE  Money'
<1>1. m.amounts[t] \in Nat
  BY DEF Files, ManifestOK
<1> DEFINE amount == m.amounts[t]
<1>2. reserved' = reserved - amount /\ balance' = balance - amount
  BY DEF Pays
<1> HIDE DEF amount
<1> QED BY <1>1, <1>2 DEF Money, Solvent, amount

LEMMA MoneyNext ==
    ASSUME Files, Money, [Next]_vars
    PROVE  Money'
<1>1. CASE UNCHANGED <<balance, reserved>>
  BY <1>1 DEF Money, Solvent
<1>2. ASSUME NEW amount \in Deposits, Fund(amount) PROVE Money'
  <2>1. amount \in Nat
    BY RewardAssumption
  <2> QED BY <1>2, <2>1 DEF Fund, Money, Solvent
<1>3. ASSUME NEW m \in sent, QueueEpoch(m) PROVE Money'
  <2>1. m.budget \in Nat
    BY DEF Files, ManifestOK
  <2>2. CASE QueueAccepts(m.epoch, m.root, m.budget)
    BY <1>3, <2>1, <2>2 DEF QueueEpoch, QueueAccepts, Reserve, Money, Solvent
  <2>3. CASE ~QueueAccepts(m.epoch, m.root, m.budget)
    BY <1>3, <2>3 DEF QueueEpoch, Money, Solvent
  <2> QED BY <2>2, <2>3
<1>4. ASSUME NEW e \in Epochs, NEW t \in Tokens, NEW m \in published,
             Claim(e, t, m) \/ ClaimForSelfRepay(e, t, m)
      PROVE  Money'
  BY <1>4, PaysMoney DEF Claim, ClaimForSelfRepay
<1>5. CASE KeeperSend
  <2> DEFINE t == Min(keeper.todo)
  <2>1. keeper.todo # {} /\ keeper.todo \in SUBSET Nat
    BY <1>5, RewardAssumption DEF KeeperSend, Files, KeeperOK, ManifestOK
  <2>2. t \in keeper.todo
    BY <2>1, MinFact
  <2>3. keeper.file \in published /\ t \in DOMAIN keeper.file.amounts
    BY <1>5, <2>2 DEF KeeperSend, Files, KeeperOK
  <2>4. Pays(keeper.file.epoch, t, keeper.file)
    BY <1>5 DEF KeeperSend
  <2> HIDE DEF t
  <2> QED BY <2>3, <2>4, PaysMoney
<1>6. CASE UNCHANGED vars
  BY <1>6, <1>1 DEF vars, contractVars
<1>7. CASE ContractNext
  BY <1>7, <1>1, <1>2, <1>3, <1>4 DEF ContractNext, DelayPasses, ActivateEpoch,
     DisableSelfRepay, SetSelfRepayRecipient, contractVars
<1>8. CASE OutsideNext
  BY <1>8, <1>1 DEF OutsideNext, Move, contractVars
<1>9. CASE GenNext
  BY <1>9, <1>1 DEF GenNext, GenStart, GenReadBalance, GenReadActive, GenFails, GenPublish,
     RefreshStart, RefreshFails, RefreshPublish, contractVars
<1>10. CASE QueueNext
  BY <1>10, <1>1 DEF QueueNext, QueueStart, QueueSend, QueueEnds, RunActivation, ActivateEpoch,
     contractVars
<1>11. CASE KeeperNext
  BY <1>11, <1>1, <1>5 DEF KeeperNext, KeeperStart, KeeperLook, KeeperEnds, contractVars
<1> QED BY <1>6, <1>7, <1>8, <1>9, <1>10, <1>11 DEF Next

(* No promise without money: the contract holds what queued and active      *)
(* epochs have reserved, whatever budgets the keeper asked for and whoever  *)
(* claimed in which order.                                                  *)
THEOREM AlwaysSolvent == Spec => []Solvent
<1>1. Files /\ Money /\ [Next]_vars => Files' /\ Money'
  BY FilesNext, MoneyNext
<1>2. Money => Solvent
  BY DEF Money
<1> QED BY FilesInit, MoneyInit, <1>1, <1>2, PTL DEF Spec

-----------------------------------------------------------------------------
(* The manifest on the main branch only advances *)

\* Every epoch before e is taken.
TakenBefore(e) == \A f \in Epochs : f < e => f <= latestEpoch \/ ~Free(f)

Advance ==
    /\ Exclusive
    /\ TakenBefore(manifest.epoch)
    /\ generator.step # "idle" =>
        manifest.epoch <= generator.epoch /\ TakenBefore(generator.epoch)
    /\ refresh.step # "idle" => refresh.fresh \in BOOLEAN
    /\ refresh.step # "idle" /\ refresh.fresh => refresh.file.epoch = manifest.epoch

LEMMA AdvanceInit == Init => Advance
BY ExclusiveInit DEF Init, Advance, TakenBefore, Idle, NoManifest, Epochs

\* What is taken stays taken.
LEMMA TakenStays ==
    ASSUME Files, Exclusive, EpochStep, NEW e, TakenBefore(e)
    PROVE  TakenBefore(e)'
<1>1. latestEpoch' \in Int /\ latestEpoch <= latestEpoch'
  <2>1. CASE UNCHANGED latestEpoch
    BY <2>1 DEF Files
  <2>2. ASSUME NEW f \in Nat, ActivateEpoch(f) PROVE latestEpoch' \in Int /\ latestEpoch <= latestEpoch'
    BY <2>2, LatestEpochType DEF Files
  <2>3. Epochs \subseteq Nat /\ manifest.epoch \in Nat
    BY RewardAssumption DEF Epochs, Files
  <2>4. \/ UNCHANGED latestEpoch
        \/ \E f \in Nat : ActivateEpoch(f)
    BY <2>3 DEF EpochStep, RunActivation, QueueEpoch, DelayPasses
  <2> QED BY <2>1, <2>2, <2>4
<1>2. ASSUME NEW f \in Epochs, ~Free(f) PROVE f <= latestEpoch' \/ ~Free(f)'
  <2>1. CASE UNCHANGED <<pending, active, latestEpoch>>
    BY <1>2, <2>1 DEF Free
  <2>2. ASSUME NEW m \in sent, QueueEpoch(m) PROVE ~Free(f)'
    BY <1>2, <2>2 DEF Free, QueueEpoch, QueueAccepts, Exclusive
  <2>3. ASSUME NEW g \in Epochs, DelayPasses(g) PROVE ~Free(f)'
    BY <1>2, <2>3 DEF Free, DelayPasses, Exclusive
  <2>4. ASSUME NEW g, ActivateEpoch(g) PROVE ~Free(f)'
    BY <1>2, <2>4 DEF Free, ActivateEpoch, Exclusive, NoPending
  <2> QED BY <2>1, <2>2, <2>3, <2>4 DEF EpochStep, RunActivation
<1>3. ASSUME NEW f \in Epochs, f < e PROVE f <= latestEpoch' \/ ~Free(f)'
  <2>1. f \in Int /\ latestEpoch \in Int
    BY DEF Files, Epochs
  <2>2. CASE f <= latestEpoch
    BY <1>1, <2>1, <2>2
  <2>3. CASE ~Free(f)
    BY <1>2, <2>3
  <2> QED BY <1>3, <2>2, <2>3 DEF TakenBefore
<1> QED BY <1>3 DEF TakenBefore

\* The actions that change neither the reward files nor what has them checked out.
LEMMA AdvanceStays ==
    ASSUME Files, Advance, EpochStep, UNCHANGED <<manifest, generator, refresh>>
    PROVE  Advance'
BY ExclusiveNext, TakenStays DEF Advance, TakenBefore

LEMMA AdvanceNext ==
    ASSUME Files, Advance, [Next]_vars
    PROVE  Advance' /\ manifest'.epoch >= manifest.epoch
<1>1. EpochStep /\ Exclusive'
  BY NextEpochStep, ExclusiveNext DEF Advance
<1>2. ASSUME NEW e, TakenBefore(e) PROVE TakenBefore(e)'
  BY <1>1, <1>2, TakenStays DEF Advance
<1>3. manifest.epoch \in Nat /\ latestEpoch \in Nat /\ Epochs \subseteq Nat
  BY RewardAssumption DEF Files, Epochs
<1>4. CASE UNCHANGED <<manifest, generator, refresh>>
  BY <1>1, <1>3, <1>4, AdvanceStays
<1>5. CASE GenStart
  <2>1. PICK n : n = NextEpoch(latestEpoch)
    OBVIOUS
  <2>2. n \in Epochs /\ n > latestEpoch /\ Free(n) /\ TakenBefore(n)
    <3>1. latestEpoch \in Int /\ NextEpoch(latestEpoch) # 0
      BY <1>3, <1>5 DEF GenStart
    <3> QED BY <2>1, <3>1, NextEpochFact DEF TakenBefore
  <2>3. manifest.epoch <= n
    <3>1. n \in Nat /\ ~(n <= latestEpoch)
      BY <1>3, <2>2
    <3>2. ~(n < manifest.epoch)
      BY <2>2, <3>1 DEF Advance, TakenBefore
    <3> QED BY <1>3, <3>1, <3>2
  <2>4. generator'.epoch = n /\ UNCHANGED <<manifest, refresh>>
    BY <1>5, <2>1 DEF GenStart, fileVars
  <2>5. TakenBefore(manifest.epoch)' /\ TakenBefore(generator.epoch)'
    <3>1. TakenBefore(n)' /\ TakenBefore(manifest.epoch)'
      BY <1>2, <2>2, <2>4 DEF Advance, TakenBefore
    <3> QED BY <2>4, <3>1 DEF TakenBefore
  <2>6. manifest'.epoch <= generator'.epoch /\ manifest'.epoch >= manifest.epoch
    BY <1>3, <2>3, <2>4
  <2> QED BY <1>1, <2>4, <2>5, <2>6 DEF Advance
<1>6. CASE GenReadBalance \/ GenReadActive
  <2>1. generator'.epoch = generator.epoch /\ generator.step # "idle"
    BY <1>6 DEF GenReadBalance, GenReadActive, Files
  <2>2. UNCHANGED <<manifest, refresh>>
    BY <1>6 DEF GenReadBalance, GenReadActive, fileVars
  <2>3. TakenBefore(manifest.epoch)' /\ TakenBefore(generator.epoch)'
    BY <1>2, <2>1, <2>2 DEF Advance, TakenBefore
  <2> QED BY <1>1, <1>3, <2>1, <2>2, <2>3 DEF Advance
<1>7. CASE GenFails
  <2>1. generator'.step = "idle" /\ UNCHANGED <<manifest, refresh>>
    BY <1>7 DEF GenFails, fileVars, Idle
  <2> QED BY <1>1, <1>2, <1>3, <2>1 DEF Advance, TakenBefore
<1>8. ASSUME NEW budget \in 1 .. MaxFunded, NEW power \in Powers, GenPublish(budget, power)
      PROVE  Advance' /\ manifest'.epoch >= manifest.epoch
  <2>1. manifest' = Manifest(generator.epoch, budget, power) /\ generator.epoch \in Epochs
    BY <1>8 DEF GenPublish, Commit, Files
  <2>2. manifest'.epoch = generator.epoch
    BY <2>1 DEF Manifest
  <2>3. manifest.epoch <= generator.epoch /\ TakenBefore(generator.epoch)
    BY <1>8 DEF GenPublish, Advance
  <2>4. generator'.step = "idle" /\ refresh' = Behind(refresh)
    BY <1>8 DEF GenPublish, Idle
  <2>5. refresh'.step # "idle" => refresh'.fresh = FALSE
    BY <2>4 DEF Behind, Files
  <2>6. TakenBefore(manifest.epoch)'
    BY <1>2, <2>2, <2>3 DEF TakenBefore
  <2>7. generator.epoch \in Nat
    BY <1>3, <2>1
  <2>8. Advance'
    <3>1. refresh'.step # "idle" => refresh'.fresh \in BOOLEAN /\ ~refresh'.fresh
      BY <2>5
    <3> QED BY <1>1, <2>4, <2>6, <3>1 DEF Advance
  <2>9. manifest'.epoch >= manifest.epoch
    BY <1>3, <2>2, <2>3, <2>7
  <2> QED BY <2>8, <2>9
<1>9. CASE RefreshStart
  <2>1. refresh'.file = manifest /\ refresh'.fresh = TRUE /\ UNCHANGED <<manifest, generator>>
    BY <1>9 DEF RefreshStart, fileVars
  <2>2. TakenBefore(manifest.epoch)' /\ (generator.step # "idle" => TakenBefore(generator.epoch)')
    BY <1>2, <2>1 DEF Advance, TakenBefore
  <2>3. refresh'.fresh \in BOOLEAN /\ refresh'.file.epoch = manifest'.epoch
    BY <2>1
  <2> QED BY <1>1, <1>3, <2>1, <2>2, <2>3 DEF Advance
<1>10. CASE RefreshFails
  <2>1. refresh'.step = "idle" /\ UNCHANGED <<manifest, generator>>
    BY <1>10 DEF RefreshFails, fileVars, Idle
  <2> QED BY <1>1, <1>2, <1>3, <2>1 DEF Advance, TakenBefore
<1>11. CASE RefreshPublish
  <2>1. refresh'.step = "idle" /\ UNCHANGED generator /\ manifest' = refresh.file
    BY <1>11 DEF RefreshPublish, Commit, Idle
  <2>2. refresh.file.epoch = manifest.epoch
    BY <1>11 DEF RefreshPublish, PushAccepted, Advance
  <2> QED BY <1>1, <1>2, <1>3, <2>1, <2>2 DEF Advance, TakenBefore
<1>12. CASE UNCHANGED vars
  BY <1>4, <1>12 DEF vars, fileVars, workflowVars
<1>13. CASE ContractNext
  BY <1>4, <1>13 DEF ContractNext, Fund, QueueEpoch, DelayPasses, ActivateEpoch, Claim,
     ClaimForSelfRepay, DisableSelfRepay, SetSelfRepayRecipient, fileVars, workflowVars
<1>14. CASE OutsideNext
  BY <1>4, <1>14 DEF OutsideNext, Move, fileVars, workflowVars
<1>15. CASE GenNext
  BY <1>5, <1>6, <1>7, <1>8, <1>9, <1>10, <1>11, <1>15 DEF GenNext
<1>16. CASE QueueNext
  BY <1>4, <1>16 DEF QueueNext, QueueStart, QueueSend, QueueEnds, RunActivation, ActivateEpoch,
     fileVars, workflowVars
<1>17. CASE KeeperNext
  BY <1>4, <1>17 DEF KeeperNext, KeeperStart, KeeperLook, KeeperSend, KeeperEnds, fileVars
<1> QED BY <1>12, <1>13, <1>14, <1>15, <1>16, <1>17 DEF Next

(* The manifest on the main branch never goes back to an earlier epoch: no  *)
(* generation starts from one, and no refresh of instructions undoes one.   *)
THEOREM ManifestsOnlyAdvance == Spec => ManifestsAdvance
<1>1. Files /\ Advance /\ [Next]_vars => Files' /\ Advance'
  BY FilesNext, AdvanceNext
<1>2. Files /\ Advance /\ [Next]_vars => [manifest'.epoch >= manifest.epoch]_vars
  BY AdvanceNext
<1> QED BY FilesInit, AdvanceInit, <1>1, <1>2, PTL DEF Spec, ManifestsAdvance

-----------------------------------------------------------------------------
(* The ledger: each epoch's budget is that of a published manifest *)

\* What generation gives a manifest.
WellMade(m) ==
    /\ Amounts(m.amounts)
    /\ \A t \in DOMAIN m.amounts : m.amounts[t] \in Nat
    /\ SumOver(m.amounts, DOMAIN m.amounts) = m.budget
    /\ m.root = MerkleRoot(m.amounts)
    /\ \A t \in DOMAIN m.amounts : m.proofs[t] = MerkleProof(m.amounts, t)

\* An active epoch: the manifest it was made from, and what has been claimed of it.
Backed(e) ==
    \E m \in published :
        /\ m.epoch = e /\ m.root = active[e].root /\ m.budget = active[e].budget
        /\ claimed[e] \subseteq DOMAIN m.amounts
        /\ claimedTotal[e] = SumOver(m.amounts, claimed[e])
        /\ \A t \in Tokens : paid[e][t] = IF t \in claimed[e] THEN m.amounts[t] ELSE 0

Unused(e) ==
    /\ active[e].budget = 0 /\ claimed[e] = {} /\ claimedTotal[e] = 0
    /\ \A t \in Tokens : paid[e][t] = 0

Promised(e) ==
    \E m \in published : m.epoch = e /\ m.root = pending[e].root /\ m.budget = pending[e].budget

Account(e) ==
    /\ pending[e].root = ZeroHash => pending[e].budget = 0
    /\ pending[e].root # ZeroHash => Promised(e)
    /\ active[e].root = ZeroHash => Unused(e)
    /\ active[e].root # ZeroHash => Backed(e)

Shape ==
    /\ claimedTotal = [e \in Epochs |-> claimedTotal[e]]
    /\ claimed = [e \in Epochs |-> claimed[e]]
    /\ paid = [e \in Epochs |-> [t \in Tokens |-> paid[e][t]]]

Ledger ==
    /\ Exclusive /\ Shape
    /\ \A m \in published : WellMade(m)
    /\ \A e \in Epochs : Account(e)

\* No root of a manifest is the zero that stands for none.
LEMMA RootIsHash ==
    ASSUME NEW amounts, Amounts(amounts)
    PROVE  MerkleRoot(amounts) # ZeroHash
<1> DEFINE leaves == Leaves(amounts)
           n == Len(leaves)
           levels == Levels(leaves)
           G == {k \in Nat : k <= n => ZeroHash \notin Nodes(levels, k)}
<1>1. /\ n \in Nat \ {0} /\ levels[0] = leaves
      /\ \A i \in 1 .. n : leaves[i] = LeafHash(Order(amounts)[i], amounts[Order(amounts)[i]])
  BY LeavesFact, LevelsFact
<1>2. \A k \in 0 .. n - 1 : levels[k + 1] = NextLevel(levels[k])
  BY <1>1, LevelsFact
<1>3. (\A k \in 0 .. n : Len(levels[k]) \in Nat \ {0}) /\ Len(levels[n]) = 1
  BY <1>1, TreeFact
<1> HIDE DEF levels
<1>4. 0 \in G
  BY <1>1 DEF Nodes, LeafHash, ZeroHash
<1> HIDE DEF n
<1>5. ASSUME NEW k \in Nat, k \in G PROVE k + 1 \in G
  <2> SUFFICES ASSUME k + 1 <= n, ZeroHash \in Nodes(levels, k + 1) PROVE FALSE
    OBVIOUS
  <2> DEFINE level == levels[k]
  <2>1. k \in 0 .. n /\ k \in 0 .. n - 1 /\ k <= n
    BY <1>1
  <2>2. Len(level) \in Nat \ {0} /\ levels[k + 1] = NextLevel(level) /\ ZeroHash \notin Nodes(levels, k)
    BY <1>2, <1>3, <1>5, <2>1
  <2>3. PICK i \in 1 .. Len(NextLevel(level)) : ZeroHash = NextLevel(level)[i]
    BY <2>2 DEF Nodes
  <2>4. \A j \in 1 .. Len(level) : level[j] # ZeroHash
    BY <2>2 DEF Nodes
  <2> HIDE DEF level
  <2>5. /\ 2 * i - 1 \in 1 .. Len(level)
        /\ ZeroHash = IF 2 * i <= Len(level) THEN PairHash(level[2 * i - 1], level[2 * i])
                      ELSE level[2 * i - 1]
    BY <2>2, <2>3, NextLevelFact
  <2>6. \A x, y : PairHash(x, y) # ZeroHash
    BY DEF PairHash, ZeroHash
  <2> QED BY <2>4, <2>5, <2>6
<1>6. n \in G
  <2> HIDE DEF G
  <2>1. \A k \in Nat : k \in G
    BY <1>4, <1>5, NaturalInduction
  <2> QED BY <1>1, <2>1
<1>7. levels[n][1] # ZeroHash
  BY <1>1, <1>3, <1>6 DEF Nodes
<1> QED BY <1>7 DEF MerkleRoot, n, levels

\* One root, one allocation.
LEMMA EqualRoots ==
    ASSUME NEW m, WellMade(m), NEW k, WellMade(k), m.root = k.root
    PROVE  /\ DOMAIN m.amounts = DOMAIN k.amounts
           /\ \A t \in DOMAIN m.amounts : m.amounts[t] = k.amounts[t]
<1>1. ASSUME NEW x, WellMade(x), NEW y, WellMade(y), x.root = y.root, NEW t \in DOMAIN x.amounts
      PROVE  t \in DOMAIN y.amounts /\ x.amounts[t] = y.amounts[t]
  <2>1. Amounts(x.amounts) /\ Amounts(y.amounts) /\ MerkleRoot(x.amounts) = MerkleRoot(y.amounts)
    BY <1>1 DEF WellMade
  <2> DEFINE proof == MerkleProof(x.amounts, t)
             leaf == LeafHash(t, x.amounts[t])
  <2>2. Len(proof) \in Nat /\ Verifies(proof, MerkleRoot(x.amounts), leaf)
    BY <1>1, <2>1, MerkleExact
  <2>3. Verifies(proof, MerkleRoot(y.amounts), leaf)
    BY <2>1, <2>2
  <2> HIDE DEF proof
  <2> QED BY <2>1, <2>2, <2>3, MerkleSound
<1>2. \A t \in DOMAIN m.amounts : t \in DOMAIN k.amounts /\ m.amounts[t] = k.amounts[t]
  BY <1>1
<1>3. \A t \in DOMAIN k.amounts : t \in DOMAIN m.amounts
  BY <1>1
<1> QED BY <1>2, <1>3

\* Generation makes them so.
LEMMA ManifestWellMade ==
    ASSUME NEW e, NEW budget \in Nat, NEW power \in Powers,
           \E t \in Tokens : holder[t] # None /\ power[t] > 0
    PROVE  WellMade(Manifest(e, budget, power))
<1> DEFINE eligible == {t \in Tokens : holder[t] # None /\ power[t] > 0}
           votes == [t \in eligible |-> power[t]]
           amounts == Allocate(budget, votes)
           m == Manifest(e, budget, power)
<1>1. Votes(votes)
  <2>1. IsFiniteSet(eligible)
    <3>1. eligible \subseteq Tokens /\ IsFiniteSet(Tokens)
      BY RewardAssumption
    <3> HIDE DEF eligible
    <3> QED BY <3>1, FS_Subset
  <2>2. eligible # {} /\ \A t \in eligible : t \in Int
    <3>1. ASSUME NEW t \in Tokens PROVE t \in Int
      <4>1. Tokens \subseteq Nat \ {0}
        BY RewardAssumption
      <4>2. t \in Nat
        BY <4>1
      <4> QED BY <4>2
    <3>2. eligible # {}
      OBVIOUS
    <3> QED BY <3>1, <3>2
  <2>3. \A t \in eligible : power[t] \in Nat \ {0}
    <3>1. power \in [Tokens -> Nat]
      BY RewardAssumption
    <3> QED BY <3>1
  <2> QED BY <2>1, <2>2, <2>3 DEF Votes
<1>2. /\ m.amounts = amounts /\ m.budget = budget /\ m.root = MerkleRoot(amounts)
      /\ m.proofs = [t \in eligible |-> MerkleProof(amounts, t)]
  BY DEF Manifest
<1>3. DOMAIN votes = eligible
  OBVIOUS
<1> HIDE DEF votes, eligible
<1>4. DOMAIN amounts = eligible /\ SumOver(amounts, eligible) = budget
  BY <1>1, <1>3, AmountIs, AllocationTotal
<1>5. \A t \in eligible : amounts[t] \in Nat
  BY <1>1, <1>3, AllocationFair
<1>6. Amounts(amounts)
  BY <1>1, <1>3, <1>4 DEF Votes, Amounts
<1> HIDE DEF amounts, m
<1>7. WellMade(m)
  BY <1>2, <1>4, <1>5, <1>6 DEF WellMade
<1> QED BY <1>7 DEF m

LEMMA LedgerInit == Init => Ledger
<1> SUFFICES ASSUME Init PROVE Ledger
  OBVIOUS
<1>1. Exclusive
  BY ExclusiveInit
<1>2. Shape /\ \A m \in published : WellMade(m)
  BY DEF Init, Shape
<1>3. \A e \in Epochs : Account(e)
  BY DEF Init, Account, NoPending, NoRoot, Unused
<1> QED BY <1>1, <1>2, <1>3 DEF Ledger

\* Only generation and refreshes publish, and what they publish is well made.
LEMMA PublishedNext ==
    ASSUME Files, \A m \in published : WellMade(m), [Next]_vars
    PROVE  published \subseteq published' /\ \A m \in published' : WellMade(m)
<1>1. CASE UNCHANGED published
  BY <1>1
<1>2. ASSUME NEW budget \in 1 .. MaxFunded, NEW power \in Powers, GenPublish(budget, power)
      PROVE  published \subseteq published' /\ \A m \in published' : WellMade(m)
  <2> DEFINE m == Manifest(generator.epoch, budget, power)
  <2>1. published' = published \union {m}
    BY <1>2 DEF GenPublish, Commit
  <2>2. \E t \in Tokens : holder[t] # None /\ power[t] > 0
    BY <1>2 DEF GenPublish
  <2>3. WellMade(m)
    <3>1. budget \in Nat
      BY RewardAssumption
    <3> QED BY <2>2, <3>1, ManifestWellMade
  <2> HIDE DEF m
  <2> QED BY <2>1, <2>3
<1>3. CASE RefreshPublish
  <2>1. refresh.file \in published /\ published' = published \union {refresh.file}
    BY <1>3 DEF RefreshPublish, PushAccepted, Commit, Files
  <2> QED BY <2>1
<1>4. CASE UNCHANGED vars
  BY <1>1, <1>4 DEF vars, fileVars
<1>5. CASE ContractNext
  BY <1>1, <1>5 DEF ContractNext, Fund, QueueEpoch, DelayPasses, ActivateEpoch, Claim,
     ClaimForSelfRepay, DisableSelfRepay, SetSelfRepayRecipient, fileVars
<1>6. CASE OutsideNext
  BY <1>1, <1>6 DEF OutsideNext, Move, fileVars
<1>7. CASE GenNext
  BY <1>1, <1>2, <1>3, <1>7 DEF GenNext, GenStart, GenReadBalance, GenReadActive, GenFails,
     RefreshStart, RefreshFails, fileVars
<1>8. CASE QueueNext
  BY <1>1, <1>8 DEF QueueNext, QueueStart, QueueSend, QueueEnds, RunActivation, ActivateEpoch,
     fileVars
<1>9. CASE KeeperNext
  BY <1>1, <1>9 DEF KeeperNext, KeeperStart, KeeperLook, KeeperSend, KeeperEnds, fileVars
<1> QED BY <1>4, <1>5, <1>6, <1>7, <1>8, <1>9 DEF Next

\* What a step may do to the ledger.
LedgerStep ==
    \/ UNCHANGED <<reserved, pending, active, claimedTotal, claimed, paid>>
    \/ \E m \in sent : QueueEpoch(m)
    \/ \E e \in Epochs : DelayPasses(e)
    \/ \E e \in Epochs : ActivateEpoch(e)
    \/ \E e \in Epochs, m \in published : \E t \in DOMAIN m.amounts : Pays(e, t, m)

LEMMA NextLedgerStep == Files /\ [Next]_vars => LedgerStep
<1> SUFFICES ASSUME Files, [Next]_vars PROVE LedgerStep
  OBVIOUS
<1>1. CASE UNCHANGED <<contractVars, paid>>
  BY <1>1 DEF contractVars, LedgerStep
<1>2. ASSUME NEW e \in Epochs, NEW t \in Tokens, NEW m \in published,
             Claim(e, t, m) \/ ClaimForSelfRepay(e, t, m)
      PROVE  LedgerStep
  BY <1>2 DEF Claim, ClaimForSelfRepay, LedgerStep
<1>3. CASE KeeperSend
  <2> DEFINE t == Min(keeper.todo)
             m == keeper.file
  <2>1. keeper.todo # {} /\ keeper.todo \in SUBSET Nat
    BY <1>3, RewardAssumption DEF KeeperSend, Files, KeeperOK, ManifestOK
  <2>2. t \in keeper.todo
    BY <2>1, MinFact
  <2>3. m \in published /\ t \in DOMAIN m.amounts /\ m.epoch \in Epochs
    BY <1>3, <2>2 DEF KeeperSend, Files, KeeperOK, ManifestOK
  <2>4. Pays(m.epoch, t, m)
    BY <1>3 DEF KeeperSend
  <2> HIDE DEF t, m
  <2> QED BY <2>3, <2>4 DEF LedgerStep
<1>4. CASE RunActivation
  <2>1. manifest.epoch \in Epochs /\ ActivateEpoch(manifest.epoch)
    BY <1>4 DEF RunActivation, Activates, Files, ManifestOK
  <2> QED BY <2>1 DEF LedgerStep
<1>5. CASE UNCHANGED vars
  BY <1>1, <1>5 DEF vars
<1>6. CASE ContractNext
  <2>1. ASSUME NEW amount \in Deposits, Fund(amount) PROVE LedgerStep
    BY <2>1 DEF Fund, LedgerStep
  <2>2. ASSUME NEW t \in Traded, DisableSelfRepay(t) PROVE LedgerStep
    BY <1>1, <2>2 DEF DisableSelfRepay
  <2>3. ASSUME NEW t \in Traded, NEW to \in Recipients, SetSelfRepayRecipient(t, to)
        PROVE  LedgerStep
    BY <1>1, <2>3 DEF SetSelfRepayRecipient
  <2>4. (\E m \in sent : QueueEpoch(m)) \/ (\E e \in Epochs : DelayPasses(e) \/ ActivateEpoch(e))
            => LedgerStep
    BY DEF LedgerStep
  <2> QED BY <1>2, <1>6, <2>1, <2>2, <2>3, <2>4 DEF ContractNext
<1>7. CASE OutsideNext
  BY <1>1, <1>7 DEF OutsideNext, Move
<1>8. CASE GenNext
  BY <1>1, <1>8 DEF GenNext, GenStart, GenReadBalance, GenReadActive, GenFails, GenPublish,
     RefreshStart, RefreshFails, RefreshPublish
<1>9. CASE QueueNext
  BY <1>1, <1>4, <1>9 DEF QueueNext, QueueStart, QueueSend, QueueEnds
<1>10. CASE KeeperNext
  BY <1>1, <1>3, <1>10 DEF KeeperNext, KeeperStart, KeeperLook, KeeperEnds
<1> QED BY <1>5, <1>6, <1>7, <1>8, <1>9, <1>10 DEF Next

\* The manifests that are published stay so: so does what they back.
LEMMA AccountStays ==
    ASSUME published \subseteq published', NEW e, Account(e),
           pending'[e].root = pending[e].root, pending'[e].budget = pending[e].budget,
           active'[e] = active[e], claimed'[e] = claimed[e], claimedTotal'[e] = claimedTotal[e],
           \A t \in Tokens : paid'[e][t] = paid[e][t]
    PROVE  Account(e)'
<1>1. Unused(e) => Unused(e)'
  BY DEF Unused
<1>2. Promised(e) => Promised(e)'
  BY DEF Promised
<1>3. Backed(e) => Backed(e)'
  BY DEF Backed
<1> QED BY <1>1, <1>2, <1>3 DEF Account

\* A claim pays what the epoch's own manifest has for the position.
LEMMA ClaimKnown ==
    ASSUME Files, Ledger, NEW e \in Epochs, NEW m \in published, NEW t \in DOMAIN m.amounts,
           Pays(e, t, m), NEW k, WellMade(k), k.root = active[e].root
    PROVE  t \in DOMAIN k.amounts /\ m.amounts[t] = k.amounts[t]
<1>1. WellMade(m)
  BY DEF Ledger
<1>2. Verifies(m.proofs[t], MerkleRoot(k.amounts), LeafHash(t, m.amounts[t]))
  BY DEF Pays, WellMade
<1>3. Len(m.proofs[t]) \in Nat /\ Amounts(k.amounts)
  <2>1. m.proofs[t] = MerkleProof(m.amounts, t) /\ Amounts(m.amounts) /\ Amounts(k.amounts)
    BY <1>1 DEF WellMade
  <2> QED BY <2>1, MerkleExact
<1> QED BY <1>2, <1>3, MerkleSound

LEMMA PaysLedger ==
    ASSUME Files, Ledger, published \subseteq published', \A m \in published' : WellMade(m),
           NEW e \in Epochs, NEW m \in published, NEW t \in DOMAIN m.amounts, Pays(e, t, m)
    PROVE  Ledger'
<1>1. /\ Exclusive /\ Shape /\ \A k \in published : WellMade(k)
      /\ \A f \in Epochs : Account(f)
  BY DEF Ledger
<1> DEFINE amount == m.amounts[t]
<1>2. /\ active[e].root # ZeroHash /\ t \notin claimed[e]
      /\ claimed' = [claimed EXCEPT ![e] = @ \union {t}]
      /\ claimedTotal' = [claimedTotal EXCEPT ![e] = @ + amount]
      /\ paid' = [paid EXCEPT ![e][t] = @ + amount]
      /\ UNCHANGED <<pending, active>>
  BY DEF Pays
<1>3. t \in Tokens /\ amount \in Nat
  BY DEF Files, ManifestOK
<1>4. PICK k \in published :
        /\ k.epoch = e /\ k.root = active[e].root /\ k.budget = active[e].budget
        /\ claimed[e] \subseteq DOMAIN k.amounts
        /\ claimedTotal[e] = SumOver(k.amounts, claimed[e])
        /\ \A u \in Tokens : paid[e][u] = IF u \in claimed[e] THEN k.amounts[u] ELSE 0
  BY <1>1, <1>2 DEF Account, Backed
<1>5. t \in DOMAIN k.amounts /\ amount = k.amounts[t]
  BY <1>1, <1>4, ClaimKnown
<1> HIDE DEF amount
<1>6. Exclusive' /\ Shape'
  BY <1>1, <1>2, <1>3 DEF Exclusive, Shape
<1>7. /\ claimed'[e] = claimed[e] \union {t} /\ claimedTotal'[e] = claimedTotal[e] + amount
      /\ \A u \in Tokens : paid'[e][u] = IF u = t THEN paid[e][t] + amount ELSE paid[e][u]
  BY <1>1, <1>2, <1>3 DEF Shape
<1>8. claimedTotal'[e] = SumOver(k.amounts, claimed'[e])
  <2>1. /\ IsFiniteSet(DOMAIN k.amounts) /\ \A u \in DOMAIN k.amounts : k.amounts[u] \in Int
    BY <1>1 DEF WellMade, Amounts
  <2>2. IsFiniteSet(claimed[e]) /\ \A u \in claimed[e] \cup {t} : k.amounts[u] \in Int
    BY <1>4, <1>5, <2>1, FS_Subset
  <2>3. SumOver(k.amounts, claimed[e] \cup {t}) = k.amounts[t] + SumOver(k.amounts, claimed[e])
    BY <1>2, <2>2, SumInsert DEF SumOver
  <2>4. SumOver(k.amounts, claimed[e]) \in Int
    BY <2>2, SumInt DEF SumOver
  <2> QED BY <1>3, <1>4, <1>5, <1>7, <2>3, <2>4
<1>9. \A u \in Tokens : paid'[e][u] = IF u \in claimed'[e] THEN k.amounts[u] ELSE 0
  <2> TAKE u \in Tokens
  <2>1. CASE u = t
    <3>1. paid[e][t] = 0 /\ paid'[e][u] = 0 + amount
      BY <1>2, <1>3, <1>4, <1>7, <2>1
    <3> QED BY <1>3, <1>5, <1>7, <2>1, <3>1
  <2>2. CASE u # t
    BY <1>4, <1>7, <2>2
  <2> QED BY <2>1, <2>2
<1>10. Backed(e)'
  <2>1. k \in published' /\ claimed'[e] \subseteq DOMAIN k.amounts /\ active' = active
    BY <1>2, <1>4, <1>5, <1>7
  <2> QED BY <1>4, <1>8, <1>9, <2>1 DEF Backed
<1>11. Account(e)'
  <2>1. Promised(e) => Promised(e)'
    BY <1>2 DEF Promised
  <2> QED BY <1>1, <1>2, <1>10, <2>1 DEF Account
<1>12. ASSUME NEW f \in Epochs, f # e PROVE Account(f)'
  <2>1. /\ claimed'[f] = claimed[f] /\ claimedTotal'[f] = claimedTotal[f] /\ paid'[f] = paid[f]
        /\ pending'[f] = pending[f] /\ active'[f] = active[f]
    BY <1>1, <1>2, <1>12 DEF Shape
  <2> QED BY <1>1, <2>1, AccountStays
<1> QED BY <1>6, <1>11, <1>12 DEF Ledger

LEMMA LedgerNext ==
    ASSUME Files, Ledger, [Next]_vars
    PROVE  Ledger'
<1>1. published \subseteq published' /\ \A m \in published' : WellMade(m)
  BY PublishedNext DEF Ledger
<1>2. LedgerStep
  BY NextLedgerStep
<1>3. Exclusive'
  BY NextEpochStep, ExclusiveNext DEF Ledger
<1>4. Shape /\ Exclusive /\ \A e \in Epochs : Account(e)
  BY DEF Ledger
<1>5. CASE UNCHANGED <<reserved, pending, active, claimedTotal, claimed, paid>>
  <2>1. Shape'
    BY <1>4, <1>5 DEF Shape
  <2>2. \A e \in Epochs : Account(e)'
    BY <1>1, <1>4, <1>5, AccountStays
  <2> QED BY <1>1, <1>3, <2>1, <2>2 DEF Ledger
<1>6. ASSUME NEW m \in sent, QueueEpoch(m) PROVE Ledger'
  <2>1. /\ UNCHANGED <<active, claimedTotal, claimed, paid>>
        /\ m \in published /\ m.epoch \in Epochs
    BY <1>6 DEF QueueEpoch, Files, ManifestOK
  <2>2. Shape'
    BY <1>4, <2>1 DEF Shape
  <2>3. CASE QueueAccepts(m.epoch, m.root, m.budget)
    <3>1. pending' = [pending EXCEPT ![m.epoch] =
                        [root |-> m.root, budget |-> m.budget, ready |-> FALSE]]
      BY <1>6, <2>3 DEF QueueEpoch
    <3>2. pending'[m.epoch] = [root |-> m.root, budget |-> m.budget, ready |-> FALSE]
      BY <1>4, <2>1, <3>1 DEF Exclusive
    <3>3. Account(m.epoch)'
      <4>1. Promised(m.epoch)'
        BY <1>1, <2>1, <3>2 DEF Promised
      <4>2. m.root # ZeroHash /\ active[m.epoch].root = ZeroHash /\ Unused(m.epoch)
        BY <1>4, <2>1, <2>3 DEF QueueAccepts, Account
      <4>3. Unused(m.epoch)'
        BY <2>1, <4>2 DEF Unused
      <4> QED BY <2>1, <3>2, <4>1, <4>2, <4>3 DEF Account
    <3>4. ASSUME NEW f \in Epochs, f # m.epoch PROVE Account(f)'
      <4>1. pending'[f] = pending[f]
        BY <1>4, <3>1, <3>4 DEF Exclusive
      <4> QED BY <1>1, <1>4, <2>1, <4>1, AccountStays
    <3> QED BY <1>1, <1>3, <2>2, <3>3, <3>4 DEF Ledger
  <2>4. CASE ~QueueAccepts(m.epoch, m.root, m.budget)
    <3>1. UNCHANGED <<pending, reserved>>
      BY <1>6, <2>4 DEF QueueEpoch
    <3> QED BY <1>5, <2>1, <3>1
  <2> QED BY <2>3, <2>4
<1>7. ASSUME NEW e \in Epochs, DelayPasses(e) PROVE Ledger'
  <2>1. UNCHANGED <<active, claimedTotal, claimed, paid>>
    BY <1>7 DEF DelayPasses
  <2>2. Shape'
    BY <1>4, <2>1 DEF Shape
  <2>3. ASSUME NEW f \in Epochs PROVE Account(f)'
    <3>1. pending'[f].root = pending[f].root /\ pending'[f].budget = pending[f].budget
      BY <1>4, <1>7 DEF DelayPasses, Exclusive
    <3> QED BY <1>1, <1>4, <2>1, <3>1, AccountStays
  <2> QED BY <1>1, <1>3, <2>2, <2>3 DEF Ledger
<1>8. ASSUME NEW e \in Epochs, ActivateEpoch(e) PROVE Ledger'
  <2>1. /\ UNCHANGED <<claimedTotal, claimed, paid>> /\ pending[e].root # ZeroHash
        /\ active' = [active EXCEPT ![e] = [root |-> pending[e].root, budget |-> pending[e].budget]]
        /\ pending' = [pending EXCEPT ![e] = NoPending]
    BY <1>8 DEF ActivateEpoch
  <2>2. Shape'
    BY <1>4, <2>1 DEF Shape
  <2>3. /\ active'[e].root = pending[e].root /\ active'[e].budget = pending[e].budget
        /\ pending'[e].root = ZeroHash /\ pending'[e].budget = 0
    BY <1>4, <2>1 DEF Exclusive, NoPending
  <2>4. PICK k \in published : k.epoch = e /\ k.root = pending[e].root /\ k.budget = pending[e].budget
    BY <1>4, <2>1 DEF Account, Promised
  <2>5. Unused(e)
    BY <1>4, <2>1 DEF Exclusive, Account
  <2>6. SumOver(k.amounts, {}) = 0
    BY SumEmpty DEF SumOver
  <2>7. Backed(e)'
    <3>1. k \in published' /\ k.root = active'[e].root /\ k.budget = active'[e].budget
      BY <1>1, <2>3, <2>4
    <3>2. claimed'[e] = {} /\ claimedTotal'[e] = 0 /\ \A t \in Tokens : paid'[e][t] = 0
      BY <2>1, <2>5 DEF Unused
    <3> QED BY <2>4, <2>6, <3>1, <3>2 DEF Backed
  <2>8. Account(e)'
    BY <2>1, <2>3, <2>7 DEF Account
  <2>9. ASSUME NEW f \in Epochs, f # e PROVE Account(f)'
    <3>1. pending'[f] = pending[f] /\ active'[f] = active[f]
      BY <1>4, <2>1, <2>9 DEF Exclusive
    <3> QED BY <1>1, <1>4, <2>1, <3>1, AccountStays
  <2> QED BY <1>1, <1>3, <2>2, <2>8, <2>9 DEF Ledger
<1>9. ASSUME NEW e \in Epochs, NEW m \in published, NEW t \in DOMAIN m.amounts, Pays(e, t, m)
      PROVE  Ledger'
  BY <1>1, <1>9, PaysLedger
<1> QED BY <1>2, <1>5, <1>6, <1>7, <1>8, <1>9 DEF LedgerStep

LEMMA LedgerInvariant == Spec => [](Files /\ Ledger)
<1>1. Files /\ Ledger /\ [Next]_vars => Files' /\ Ledger'
  BY FilesNext, LedgerNext
<1> QED BY FilesInit, LedgerInit, <1>1, PTL DEF Spec

(* What an epoch ever paid for a position is its one allocation under the   *)
(* epoch's root, by whichever of the three ways to claim, and never twice.  *)
THEOREM PaidCorrect == Spec => []PaidIsAllocation
<1>1. Ledger => PaidIsAllocation
  <2> SUFFICES ASSUME Ledger, NEW e \in Epochs, NEW t \in Tokens, paid[e][t] > 0
               PROVE  \E m \in published :
                        /\ m.epoch = e /\ m.root = active[e].root
                        /\ t \in DOMAIN m.amounts /\ paid[e][t] = m.amounts[t]
    BY DEF PaidIsAllocation
  <2>1. Account(e)
    BY DEF Ledger
  <2>2. active[e].root # ZeroHash
    BY <2>1 DEF Account, Unused
  <2>3. Backed(e)
    BY <2>1, <2>2 DEF Account
  <2>4. t \in claimed[e]
    BY <2>3 DEF Backed
  <2> QED BY <2>3, <2>4 DEF Backed
<1> QED BY <1>1, LedgerInvariant, PTL

(* An epoch made from a published manifest can always pay all who have not  *)
(* claimed yet, and has nothing left once they all have.                    *)
THEOREM PayableCorrect == Spec => []AllocationsPayable
<1>1. Files /\ Ledger => AllocationsPayable
  <2> SUFFICES ASSUME Files, Ledger, NEW m \in published, Rooted(m)
               PROVE  SumOver(m.amounts, DOMAIN m.amounts \ claimed[m.epoch])
                        = pending[m.epoch].budget + active[m.epoch].budget - claimedTotal[m.epoch]
    BY DEF AllocationsPayable
  <2> DEFINE e == m.epoch
             T == DOMAIN m.amounts
  <2>1. e \in Epochs /\ WellMade(m) /\ Account(e) /\ Exclusive
    BY DEF Files, ManifestOK, Ledger
  <2>2. m.root # ZeroHash /\ IsFiniteSet(T) /\ \A t \in T : m.amounts[t] \in Nat
    BY <2>1, RootIsHash DEF WellMade, Amounts
  <2>3. SumOver(m.amounts, T) = m.budget /\ m.budget \in Nat
    BY <2>1 DEF WellMade, Files, ManifestOK
  <2>4. ASSUME NEW k \in published, k.root = m.root PROVE k.budget = m.budget /\ DOMAIN k.amounts = T
                /\ \A t \in T : k.amounts[t] = m.amounts[t]
    <3>1. WellMade(k)
      BY DEF Ledger
    <3>2. T = DOMAIN k.amounts /\ \A t \in T : m.amounts[t] = k.amounts[t]
      BY <2>1, <2>4, <3>1, EqualRoots
    <3>3. SumOver(k.amounts, T) = SumOver(m.amounts, T)
      BY <2>2, <3>2, SumCong DEF SumOver
    <3>4. SumOver(k.amounts, T) = k.budget
      BY <3>1, <3>2 DEF WellMade
    <3> QED BY <2>3, <3>2, <3>3, <3>4
  <2>5. CASE active[e].root # ZeroHash
    <3>1. pending[e].root = ZeroHash /\ pending[e].budget = 0 /\ Backed(e)
      BY <2>1, <2>5 DEF Exclusive, Account
    <3>2. m.root = active[e].root
      BY <2>2, <3>1 DEF Rooted
    <3>3. PICK k \in published :
            /\ k.root = active[e].root /\ k.budget = active[e].budget
            /\ claimed[e] \subseteq DOMAIN k.amounts
            /\ claimedTotal[e] = SumOver(k.amounts, claimed[e])
      BY <3>1 DEF Backed
    <3>4. k.budget = m.budget /\ DOMAIN k.amounts = T /\ \A t \in T : k.amounts[t] = m.amounts[t]
      BY <2>4, <3>2, <3>3
    <3> DEFINE C == claimed[e]
    <3>5. C \subseteq T /\ IsFiniteSet(C)
      BY <2>2, <3>3, <3>4, FS_Subset
    <3>6. SumOver(k.amounts, C) = SumOver(m.amounts, C)
      BY <3>4, <3>5, SumCong DEF SumOver
    <3>7. SumOver(m.amounts, T) = SumOver(m.amounts, C) + SumOver(m.amounts, T \ C)
      <4>1. T \cap C = C
        BY <3>5
      <4>2. \A t \in T : m.amounts[t] \in Int
        BY <2>2
      <4>3. IsFiniteSet(T)
        BY <2>2
      <4> DEFINE a == m.amounts
      <4> HIDE DEF T, C, a
      <4>4. SumOver(a, T) = SumOver(a, T \cap C) + SumOver(a, T \ C)
        BY <4>2, <4>3, SumSplit DEF SumOver, a
      <4> QED BY <4>1, <4>4 DEF a
    <3>8. SumOver(m.amounts, C) \in Int /\ SumOver(m.amounts, T \ C) \in Int
      <4>1. IsFiniteSet(T \ C) /\ (\A t \in C : m.amounts[t] \in Int) /\ \A t \in T \ C : m.amounts[t] \in Int
        BY <2>2, <3>5, FS_Subset
      <4> QED BY <3>5, <4>1, SumInt DEF SumOver
    <3>9. active[e].budget = m.budget /\ claimedTotal[e] = SumOver(m.amounts, C)
      BY <3>3, <3>4, <3>6
    <3> DEFINE left == SumOver(m.amounts, T \ C)
               gone == SumOver(m.amounts, C)
    <3>10. /\ m.budget = gone + left /\ gone \in Int /\ left \in Int
           /\ pending[e].budget = 0 /\ active[e].budget = m.budget /\ claimedTotal[e] = gone
      BY <2>3, <3>1, <3>7, <3>8, <3>9
    <3> HIDE DEF T, C, e, left, gone
    <3>11. left = pending[e].budget + active[e].budget - claimedTotal[e]
      BY <3>10
    <3> QED BY <3>11 DEF T, C, e, left
  <2>6. CASE active[e].root = ZeroHash
    <3>1. active[e].budget = 0 /\ claimedTotal[e] = 0 /\ claimed[e] = {}
      BY <2>1, <2>6 DEF Account, Unused
    <3>2. m.root = pending[e].root /\ pending[e].root # ZeroHash
      BY <2>2, <2>6 DEF Rooted
    <3>3. PICK k \in published : k.root = pending[e].root /\ k.budget = pending[e].budget
      BY <2>1, <3>2 DEF Account, Promised
    <3>4. pending[e].budget = m.budget
      BY <2>4, <3>2, <3>3
    <3>5. T \ claimed[e] = T
      BY <3>1
    <3>6. SumOver(m.amounts, T \ claimed[e]) = m.budget
      BY <2>3, <3>5
    <3> HIDE DEF T, e
    <3>7. SumOver(m.amounts, T \ claimed[e]) = pending[e].budget + active[e].budget - claimedTotal[e]
      BY <2>3, <3>1, <3>4, <3>6
    <3> QED BY <3>7 DEF T, e
  <2> QED BY <2>5, <2>6
<1> QED BY <1>1, LedgerInvariant, PTL

-----------------------------------------------------------------------------
(* The accounting of the contract: what it has reserved is what it owes *)

Due == [e \in Epochs |-> pending[e].budget]
Owed == [e \in Epochs |-> active[e].budget - claimedTotal[e]]

BudgetTypes ==
    /\ reserved \in Int
    /\ \A e \in Epochs :
        pending[e].budget \in Int /\ active[e].budget \in Int /\ claimedTotal[e] \in Int

LEMMA EpochsFinite == IsFiniteSet(Epochs)
BY RewardAssumption, FS_Interval DEF Epochs

LEMMA BudgetTypesHold == Files /\ Ledger /\ Money => BudgetTypes
<1> SUFFICES ASSUME Files, Ledger, Money, NEW e \in Epochs
             PROVE  pending[e].budget \in Int /\ active[e].budget \in Int /\ claimedTotal[e] \in Int
  BY DEF BudgetTypes, Money
<1>1. Account(e) /\ \A m \in published : WellMade(m) /\ m.budget \in Int
  BY DEF Ledger, Files, ManifestOK
<1>2. pending[e].budget \in Int
  BY <1>1 DEF Account, Promised
<1>3. CASE active[e].root = ZeroHash
  BY <1>1, <1>2, <1>3 DEF Account, Unused
<1>4. CASE active[e].root # ZeroHash
  <2>1. PICK m \in published :
            /\ m.budget = active[e].budget /\ claimed[e] \subseteq DOMAIN m.amounts
            /\ claimedTotal[e] = SumOver(m.amounts, claimed[e])
    BY <1>1, <1>4 DEF Account, Backed
  <2>2. IsFiniteSet(DOMAIN m.amounts) /\ \A t \in DOMAIN m.amounts : m.amounts[t] \in Int
    BY <1>1 DEF WellMade, Amounts
  <2>3. IsFiniteSet(claimed[e]) /\ \A t \in claimed[e] : m.amounts[t] \in Int
    BY <2>1, <2>2, FS_Subset
  <2>4. SumOver(m.amounts, claimed[e]) \in Int
    BY <2>3, SumInt DEF SumOver
  <2> QED BY <1>1, <1>2, <2>1, <2>4
<1> QED BY <1>3, <1>4

\* A step that touches the budgets of one epoch at most changes the sums by its part.
LEMMA BudgetsUpdate ==
    ASSUME BudgetTypes, BudgetTypes', BudgetsReserved, NEW e \in Epochs,
           \A f \in Epochs \ {e} :
                /\ pending'[f].budget = pending[f].budget
                /\ active'[f].budget = active[f].budget /\ claimedTotal'[f] = claimedTotal[f],
           reserved' - reserved = Due'[e] - Due[e] + (Owed'[e] - Owed[e])
    PROVE  BudgetsReserved'
<1>1. Due \in [Epochs -> Int] /\ Owed \in [Epochs -> Int]
  BY DEF BudgetTypes, Due, Owed
<1>2. Due' \in [Epochs -> Int] /\ Owed' \in [Epochs -> Int]
  BY DEF BudgetTypes, Due, Owed
<1>3. \A f \in Epochs \ {e} : Due'[f] = Due[f] /\ Owed'[f] = Owed[f]
  BY DEF Due, Owed
<1>4. SumFunction(Due') = SumFunction(Due) - Due[e] + Due'[e]
  BY <1>1, <1>2, <1>3, EpochsFinite, SumFunctionUpdate
<1>5. SumFunction(Owed') = SumFunction(Owed) - Owed[e] + Owed'[e]
  BY <1>1, <1>2, <1>3, EpochsFinite, SumFunctionUpdate
<1>6. reserved = SumFunction(Due) + SumFunction(Owed)
  BY DEF BudgetsReserved, OutstandingPending, OutstandingActive, Due, Owed, Epochs
<1>7. /\ SumFunction(Due) \in Int /\ SumFunction(Owed) \in Int
      /\ Due[e] \in Int /\ Owed[e] \in Int /\ Due'[e] \in Int /\ Owed'[e] \in Int
      /\ reserved \in Int /\ reserved' \in Int
  BY <1>1, <1>2, EpochsFinite, SumInt, SumOverDomain DEF BudgetTypes
<1>8. reserved' = SumFunction(Due') + SumFunction(Owed')
  BY <1>4, <1>5, <1>6, <1>7
<1> QED BY <1>8 DEF BudgetsReserved, OutstandingPending, OutstandingActive, Due, Owed, Epochs

LEMMA BudgetsInit == Init => BudgetsReserved
<1> SUFFICES ASSUME Init PROVE BudgetsReserved
  OBVIOUS
<1>1. /\ Due = [e \in Epochs |-> 0] /\ Owed = [e \in Epochs |-> 0] /\ reserved = 0
  BY DEF Init, Due, Owed, NoPending, NoRoot
<1>2. SumFunction([e \in Epochs |-> 0]) = 0
  BY EpochsFinite, SumFunctionZero
<1>3. reserved = SumFunction(Due) + SumFunction(Owed)
  BY <1>1, <1>2
<1> QED BY <1>3 DEF BudgetsReserved, OutstandingPending, OutstandingActive, Due, Owed, Epochs

LEMMA BudgetsNext ==
    ASSUME Files, Ledger, BudgetTypes, BudgetTypes', BudgetsReserved, [Next]_vars
    PROVE  BudgetsReserved'
<1>1. LedgerStep
  BY NextLedgerStep
<1>2. Exclusive /\ Shape /\ \A e \in Epochs : Account(e)
  BY DEF Ledger
<1>3. CASE UNCHANGED <<reserved, pending, active, claimedTotal, claimed, paid>>
  BY <1>3 DEF BudgetsReserved, OutstandingPending, OutstandingActive
<1>4. ASSUME NEW m \in sent, QueueEpoch(m) PROVE BudgetsReserved'
  <2>1. m.epoch \in Epochs /\ m.budget \in Int /\ UNCHANGED <<active, claimedTotal>>
    BY <1>4 DEF QueueEpoch, Files, ManifestOK
  <2>2. CASE QueueAccepts(m.epoch, m.root, m.budget)
    <3>1. /\ pending[m.epoch].root = ZeroHash /\ reserved' = reserved + m.budget
          /\ pending' = [pending EXCEPT ![m.epoch] =
                            [root |-> m.root, budget |-> m.budget, ready |-> FALSE]]
      BY <1>4, <2>2 DEF QueueEpoch, QueueAccepts, Reserve
    <3>2. pending[m.epoch].budget = 0 /\ pending'[m.epoch].budget = m.budget
      BY <1>2, <2>1, <3>1 DEF Account, Exclusive
    <3>3. \A f \in Epochs \ {m.epoch} : pending'[f] = pending[f]
      BY <1>2, <3>1 DEF Exclusive
    <3>4. Due[m.epoch] = 0 /\ Due'[m.epoch] = m.budget /\ Owed'[m.epoch] = Owed[m.epoch]
          /\ Owed[m.epoch] \in Int
      BY <2>1, <3>2 DEF Due, Owed, BudgetTypes
    <3>5. reserved' - reserved =
            Due'[m.epoch] - Due[m.epoch] + (Owed'[m.epoch] - Owed[m.epoch])
      BY <2>1, <3>1, <3>4 DEF BudgetTypes
    <3> QED BY <2>1, <3>3, <3>5, BudgetsUpdate
  <2>3. CASE ~QueueAccepts(m.epoch, m.root, m.budget)
    BY <1>4, <2>3 DEF QueueEpoch, BudgetsReserved, OutstandingPending, OutstandingActive
  <2> QED BY <2>2, <2>3
<1>5. ASSUME NEW e \in Epochs, DelayPasses(e) PROVE BudgetsReserved'
  <2>1. UNCHANGED <<reserved, active, claimedTotal>>
    BY <1>5 DEF DelayPasses
  <2>2. \A f \in Epochs : pending'[f].budget = pending[f].budget
    BY <1>2, <1>5 DEF DelayPasses, Exclusive
  <2>3. OutstandingPending' = OutstandingPending
    BY <2>2 DEF OutstandingPending
  <2> QED BY <2>1, <2>3 DEF BudgetsReserved, OutstandingActive
<1>6. ASSUME NEW e \in Epochs, ActivateEpoch(e) PROVE BudgetsReserved'
  <2>1. /\ UNCHANGED <<reserved, claimedTotal>> /\ pending[e].root # ZeroHash
        /\ active' = [active EXCEPT ![e] = [root |-> pending[e].root, budget |-> pending[e].budget]]
        /\ pending' = [pending EXCEPT ![e] = NoPending]
    BY <1>6 DEF ActivateEpoch
  <2>2. active[e].budget = 0 /\ claimedTotal[e] = 0
    BY <1>2, <2>1 DEF Exclusive, Account, Unused
  <2>3. active'[e].budget = pending[e].budget /\ pending'[e].budget = 0
    BY <1>2, <2>1 DEF Exclusive, NoPending
  <2>4. \A f \in Epochs \ {e} : pending'[f] = pending[f] /\ active'[f] = active[f]
    BY <1>2, <2>1 DEF Exclusive
  <2>5. /\ Due'[e] = 0 /\ Owed'[e] = Due[e] /\ Owed[e] = 0 /\ Due[e] \in Int
    BY <2>1, <2>2, <2>3 DEF Due, Owed, BudgetTypes
  <2>6. reserved' - reserved = Due'[e] - Due[e] + (Owed'[e] - Owed[e])
    BY <2>1, <2>5 DEF BudgetTypes
  <2> QED BY <2>1, <2>4, <2>6, BudgetsUpdate
<1>7. ASSUME NEW e \in Epochs, NEW m \in published, NEW t \in DOMAIN m.amounts, Pays(e, t, m)
      PROVE  BudgetsReserved'
  <2> DEFINE amount == m.amounts[t]
  <2>1. amount \in Int
    BY DEF Files, ManifestOK
  <2>2. /\ UNCHANGED <<pending, active>> /\ reserved' = reserved - amount
        /\ claimedTotal' = [claimedTotal EXCEPT ![e] = @ + amount]
    BY <1>7 DEF Pays
  <2>3. claimedTotal'[e] = claimedTotal[e] + amount
    BY <1>2, <2>2 DEF Shape
  <2>4. \A f \in Epochs \ {e} : claimedTotal'[f] = claimedTotal[f]
    BY <1>2, <2>2 DEF Shape
  <2> HIDE DEF amount
  <2>5. Due'[e] = Due[e] /\ Owed'[e] = Owed[e] - amount /\ Due[e] \in Int /\ Owed[e] \in Int
    BY <2>1, <2>2, <2>3 DEF Due, Owed, BudgetTypes
  <2>6. reserved' - reserved = Due'[e] - Due[e] + (Owed'[e] - Owed[e])
    BY <2>1, <2>2, <2>5 DEF BudgetTypes
  <2> QED BY <2>2, <2>4, <2>6, BudgetsUpdate
<1> QED BY <1>1, <1>3, <1>4, <1>5, <1>6, <1>7 DEF LedgerStep

(* What queued and active epochs still owe is exactly what the contract has *)
(* reserved: no budget is forgotten or counted twice on its way from queue  *)
(* to activation to claims.                                                 *)
THEOREM BudgetsCorrect == Spec => []BudgetsReserved
<1>1. Files /\ Money /\ [Next]_vars => Money'
  BY MoneyNext
<1>2. Files /\ Ledger /\ BudgetTypes /\ BudgetTypes' /\ BudgetsReserved /\ [Next]_vars
        => BudgetsReserved'
  BY BudgetsNext
<1> QED BY LedgerInvariant, MoneyInit, BudgetsInit, BudgetTypesHold, <1>1, <1>2, PTL DEF Spec

-----------------------------------------------------------------------------
(* The scripts' computations, as the model states them *)

LEMMA PositiveVotes ==
    ASSUME NEW n \in Nat, NEW p \in [1 .. n -> Nat], DOMAIN PositivePart(p) # {}
    PROVE  Votes(PositivePart(p))
<1> DEFINE D == {u \in DOMAIN p : p[u] > 0}
<1>1. DOMAIN PositivePart(p) = D /\ D \subseteq 1 .. n
  BY DEF PositivePart
<1>2. IsFiniteSet(D)
  <2>1. IsFiniteSet(1 .. n)
    BY FS_Interval
  <2> HIDE DEF D
  <2> QED BY <1>1, <2>1, FS_Subset
<1>3. D \subseteq Int
  BY <1>1
<1>4. PositivePart(p) \in [D -> Nat \ {0}]
  BY DEF PositivePart
<1> HIDE DEF D
<1> QED BY <1>1, <1>2, <1>3, <1>4 DEF Votes

(* The whole budget is allocated; each position gets its exact share rounded *)
(* down or up, and never less than one with less power.                      *)
THEOREM AllocationsExact == Spec => []AllocationExact
<1>1. AllocationExact
  <2> SUFFICES ASSUME NEW budget \in 1 .. 2 * MaxFunded, NEW p \in [1 .. 3 -> 0 .. 3],
                      DOMAIN PositivePart(p) # {}
               PROVE  LET power == PositivePart(p)
                          positions == DOMAIN power
                          total == SumOver(power, positions)
                          amounts == Allocate(budget, power)
                      IN  /\ SumOver(amounts, positions) = budget
                          /\ \A t \in positions :
                              /\ amounts[t] * total < budget * power[t] + total
                              /\ budget * power[t] < amounts[t] * total + total
                          /\ \A t, u \in positions : power[t] > power[u] => amounts[t] >= amounts[u]
    BY DEF AllocationExact
  <2> DEFINE power == PositivePart(p)
             amounts == Allocate(budget, power)
  <2>1. budget \in Nat
    BY RewardAssumption
  <2>2. Votes(power)
    <3>1. p \in [1 .. 3 -> Nat]
      OBVIOUS
    <3> QED BY <3>1, PositiveVotes
  <2> HIDE DEF power
  <2>3. SumOver(amounts, DOMAIN power) = budget
    BY <2>1, <2>2, AllocationTotal
  <2>4. ASSUME NEW t \in DOMAIN power
        PROVE  /\ amounts[t] * Total(power) < budget * power[t] + Total(power)
               /\ budget * power[t] < amounts[t] * Total(power) + Total(power)
    BY <2>1, <2>2, AllocationFair
  <2>5. ASSUME NEW t \in DOMAIN power, NEW u \in DOMAIN power, power[t] > power[u]
        PROVE  amounts[t] >= amounts[u]
    BY <2>1, <2>2, <2>5, AllocationMonotone
  <2> HIDE DEF amounts
  <2> QED BY <2>3, <2>4, <2>5 DEF Total, amounts, power
<1> QED BY <1>1, PTL

(* The proof of a position verifies its own leaf and no other position's.   *)
THEOREM ProofsCorrect == Spec => []ProofsExact
<1>1. ProofsExact
  <2> SUFFICES ASSUME NEW budget \in 1 .. MaxFunded, NEW p \in [1 .. 4 -> 0 .. 1],
                      NEW t \in DOMAIN Allocate(budget, PositivePart(p)),
                      NEW u \in DOMAIN Allocate(budget, PositivePart(p))
               PROVE  LET amounts == Allocate(budget, PositivePart(p))
                      IN  Verifies(MerkleProof(amounts, t), MerkleRoot(amounts), LeafHash(u, amounts[u]))
                            <=> t = u
    BY DEF ProofsExact
  <2> DEFINE power == PositivePart(p)
             amounts == Allocate(budget, power)
  <2>1. DOMAIN amounts = DOMAIN power
    BY AllocateIs
  <2>2. Votes(power)
    <3>1. p \in [1 .. 4 -> Nat]
      OBVIOUS
    <3> QED BY <2>1, <3>1, PositiveVotes
  <2> HIDE DEF power
  <2>3. Amounts(amounts)
    BY <2>1, <2>2 DEF Votes, Amounts
  <2>4. t \in DOMAIN amounts /\ u \in DOMAIN amounts
    BY DEF power
  <2> HIDE DEF amounts
  <2>5. Verifies(MerkleProof(amounts, t), MerkleRoot(amounts), LeafHash(u, amounts[u]))
          <=> LeafHash(u, amounts[u]) = LeafHash(t, amounts[t])
    BY <2>3, <2>4, MerkleExact
  <2>6. LeafHash(u, amounts[u]) = LeafHash(t, amounts[t]) <=> t = u
    BY DEF LeafHash
  <2> QED BY <2>5, <2>6 DEF amounts, power
<1> QED BY <1>1, PTL
=============================================================================
