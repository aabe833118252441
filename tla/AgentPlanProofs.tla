----------------------------- MODULE AgentPlanProofs -----------------------------
(***************************************************************************)
(* Theorems about AgentPlan, for any assets, policies, plans and           *)
(* accounts: a batch has the allowances its calls need, and leaves none.   *)
(***************************************************************************)
EXTENDS AgentPlan, FiniteSums

Allowances == [AllowanceKeys -> Nat]

AtLeast(l, m) == \A key \in AllowanceKeys : l[key] >= m[key]

Approved(x) == <<x.asset, x.spender>>

CallOK(x) ==
    /\ x.kind \in Kinds /\ x.asset \in Assets /\ x.amount \in Nat
    /\ x.kind = "approve" => x.spender \in Spenders

LEMMA KeysOfCall ==
    ASSUME NEW x, CallOK(x)
    PROVE  /\ Paid(x) \in AllowanceKeys
           /\ x.kind = "approve" => Approved(x) \in AllowanceKeys
BY DEF CallOK, Paid, Approved, AllowanceKeys, Spenders

LEMMA ApproveFact ==
    ASSUME NEW key \in AllowanceKeys, NEW n \in Nat
    PROVE  /\ CallOK(Approve(key, n)) /\ Approved(Approve(key, n)) = key
           /\ Approve(key, n).kind = "approve" /\ Approve(key, n).amount = n
BY DEF CallOK, Approve, Approved, AllowanceKeys, Kinds, Spenders

-----------------------------------------------------------------------------
(* The recursions *)

NothingBuilt(standing) == [calls |-> <<>>, left |-> standing, clean |-> <<>>]

\* b is a solution of the recursion of Built, for the first n actions.
IsBuilding(b, plan, standing, n) ==
    b = [i \in 0 .. n |-> IF i = 0 THEN NothingBuilt(standing) ELSE AddAction(b[i - 1], plan[i])]

LEMMA BuildingExists ==
    ASSUME NEW plan, NEW standing, NEW n \in Nat
    PROVE  \E b : IsBuilding(b, plan, standing, n)
<1> DEFINE G == {m \in Nat : \E b : IsBuilding(b, plan, standing, m)}
<1>1. 0 \in G
  <2> DEFINE b == [i \in 0 .. 0 |-> NothingBuilt(standing)]
  <2>1. IsBuilding(b, plan, standing, 0)
    BY DEF IsBuilding
  <2> QED BY <2>1
<1>2. ASSUME NEW m \in Nat, m \in G PROVE m + 1 \in G
  <2>1. PICK b : IsBuilding(b, plan, standing, m)
    BY <1>2
  <2> DEFINE c == [i \in 0 .. m + 1 |-> IF i = m + 1 THEN AddAction(b[m], plan[m + 1]) ELSE b[i]]
  <2>2. ASSUME NEW i \in 0 .. m + 1
        PROVE  c[i] = IF i = 0 THEN NothingBuilt(standing) ELSE AddAction(c[i - 1], plan[i])
    <3>1. CASE i = m + 1
      <4>1. i # 0 /\ i - 1 = m /\ m \in 0 .. m + 1 /\ m # m + 1
        BY <3>1
      <4> QED BY <3>1, <4>1
    <3>2. CASE i # m + 1
      <4>1. i \in 0 .. m /\ (i # 0 => i - 1 \in 0 .. m /\ i - 1 # m + 1 /\ i - 1 \in 0 .. m + 1)
        BY <3>2
      <4>2. c[i] = b[i]
        BY <3>2
      <4>3. i # 0 => c[i - 1] = b[i - 1]
        BY <4>1
      <4>4. b[i] = IF i = 0 THEN NothingBuilt(standing) ELSE AddAction(b[i - 1], plan[i])
        BY <2>1, <4>1 DEF IsBuilding
      <4> QED BY <4>2, <4>3, <4>4
    <3> QED BY <3>1, <3>2
  <2>3. IsBuilding(c, plan, standing, m + 1)
    BY <2>2 DEF IsBuilding
  <2> QED BY <2>3
<1> HIDE DEF G
<1>3. n \in G
  BY <1>1, <1>2, NaturalInduction
<1> QED BY <1>3 DEF G

LEMMA BuiltFact ==
    ASSUME NEW plan, NEW standing, Len(plan) \in Nat
    PROVE  /\ Built(plan, standing)[0] = NothingBuilt(standing)
           /\ \A i \in 0 .. Len(plan) - 1 :
                Built(plan, standing)[i + 1] = AddAction(Built(plan, standing)[i], plan[i + 1])
<1> DEFINE n == Len(plan)
<1>1. Built(plan, standing) = CHOOSE b : IsBuilding(b, plan, standing, n)
  BY Zenon DEF Built, IsBuilding, NothingBuilt
<1>2. PICK b : b = Built(plan, standing) /\ IsBuilding(b, plan, standing, n)
  BY <1>1, BuildingExists
<1> HIDE DEF n
<1>3. \A i \in 0 .. n : b[i] = IF i = 0 THEN NothingBuilt(standing) ELSE AddAction(b[i - 1], plan[i])
  BY <1>2 DEF IsBuilding
<1>4. n \in Nat
  BY DEF n
<1>5. b[0] = NothingBuilt(standing)
  BY <1>3, <1>4
<1>6. ASSUME NEW i \in 0 .. n - 1 PROVE b[i + 1] = AddAction(b[i], plan[i + 1])
  <2>1. i + 1 \in 0 .. n /\ i + 1 # 0 /\ (i + 1) - 1 = i
    BY <1>4
  <2>2. b[i + 1] = IF i + 1 = 0 THEN NothingBuilt(standing) ELSE AddAction(b[(i + 1) - 1], plan[i + 1])
    BY <1>3, <2>1
  <2> QED BY <2>1, <2>2
<1> QED BY <1>2, <1>5, <1>6 DEF n

\* What the calls make of a set of states, or of allowances: e is a solution of
\* the recursion for the first n calls.
Stepped(S, x) == UNION {Call(s, x) : s \in S}
Lowered(S, x) == UNION {Draw(l, x) : l \in S}

IsExecution(e, start, calls, n) ==
    e = [i \in 0 .. n |-> IF i = 0 THEN {start} ELSE Stepped(e[i - 1], calls[i])]
IsDrawing(e, start, calls, n) ==
    e = [i \in 0 .. n |-> IF i = 0 THEN {start} ELSE Lowered(e[i - 1], calls[i])]

LEMMA ExecutionExists ==
    ASSUME NEW start, NEW calls, NEW n \in Nat
    PROVE  \E e : IsExecution(e, start, calls, n)
<1> DEFINE G == {m \in Nat : \E e : IsExecution(e, start, calls, m)}
<1>1. 0 \in G
  <2> DEFINE e == [i \in 0 .. 0 |-> {start}]
  <2>1. IsExecution(e, start, calls, 0)
    BY DEF IsExecution
  <2> QED BY <2>1
<1>2. ASSUME NEW m \in Nat, m \in G PROVE m + 1 \in G
  <2>1. PICK e : IsExecution(e, start, calls, m)
    BY <1>2
  <2> DEFINE c == [i \in 0 .. m + 1 |-> IF i = m + 1 THEN Stepped(e[m], calls[m + 1]) ELSE e[i]]
  <2>2. ASSUME NEW i \in 0 .. m + 1
        PROVE  c[i] = IF i = 0 THEN {start} ELSE Stepped(c[i - 1], calls[i])
    <3>1. CASE i = m + 1
      <4>1. i # 0 /\ i - 1 = m /\ m \in 0 .. m + 1 /\ m # m + 1
        BY <3>1
      <4> QED BY <3>1, <4>1
    <3>2. CASE i # m + 1
      <4>1. i \in 0 .. m /\ (i # 0 => i - 1 \in 0 .. m /\ i - 1 # m + 1 /\ i - 1 \in 0 .. m + 1)
        BY <3>2
      <4>2. c[i] = e[i]
        BY <3>2
      <4>3. i # 0 => c[i - 1] = e[i - 1]
        BY <4>1
      <4>4. e[i] = IF i = 0 THEN {start} ELSE Stepped(e[i - 1], calls[i])
        BY <2>1, <4>1 DEF IsExecution
      <4> QED BY <4>2, <4>3, <4>4
    <3> QED BY <3>1, <3>2
  <2>3. IsExecution(c, start, calls, m + 1)
    BY <2>2 DEF IsExecution
  <2> QED BY <2>3
<1> HIDE DEF G
<1>3. n \in G
  BY <1>1, <1>2, NaturalInduction
<1> QED BY <1>3 DEF G

LEMMA ExecutedFact ==
    ASSUME NEW start, NEW calls, Len(calls) \in Nat
    PROVE  /\ Executed(start, calls)[0] = {start}
           /\ \A i \in 0 .. Len(calls) - 1 :
                Executed(start, calls)[i + 1] = Stepped(Executed(start, calls)[i], calls[i + 1])
<1> DEFINE n == Len(calls)
<1>1. Executed(start, calls) = CHOOSE e : IsExecution(e, start, calls, n)
  BY Zenon DEF Executed, IsExecution, Stepped
<1>2. PICK e : e = Executed(start, calls) /\ IsExecution(e, start, calls, n)
  BY <1>1, ExecutionExists
<1> HIDE DEF n
<1>3. \A i \in 0 .. n : e[i] = IF i = 0 THEN {start} ELSE Stepped(e[i - 1], calls[i])
  BY <1>2 DEF IsExecution
<1>4. n \in Nat
  BY DEF n
<1>5. e[0] = {start}
  BY <1>3, <1>4
<1>6. ASSUME NEW i \in 0 .. n - 1 PROVE e[i + 1] = Stepped(e[i], calls[i + 1])
  <2>1. i + 1 \in 0 .. n /\ i + 1 # 0 /\ (i + 1) - 1 = i
    BY <1>4
  <2>2. e[i + 1] = IF i + 1 = 0 THEN {start} ELSE Stepped(e[(i + 1) - 1], calls[i + 1])
    BY <1>3, <2>1
  <2> QED BY <2>1, <2>2
<1> QED BY <1>2, <1>5, <1>6 DEF n

LEMMA DrawingExists ==
    ASSUME NEW start, NEW calls, NEW n \in Nat
    PROVE  \E e : IsDrawing(e, start, calls, n)
<1> DEFINE G == {m \in Nat : \E e : IsDrawing(e, start, calls, m)}
<1>1. 0 \in G
  <2> DEFINE e == [i \in 0 .. 0 |-> {start}]
  <2>1. IsDrawing(e, start, calls, 0)
    BY DEF IsDrawing
  <2> QED BY <2>1
<1>2. ASSUME NEW m \in Nat, m \in G PROVE m + 1 \in G
  <2>1. PICK e : IsDrawing(e, start, calls, m)
    BY <1>2
  <2> DEFINE c == [i \in 0 .. m + 1 |-> IF i = m + 1 THEN Lowered(e[m], calls[m + 1]) ELSE e[i]]
  <2>2. ASSUME NEW i \in 0 .. m + 1
        PROVE  c[i] = IF i = 0 THEN {start} ELSE Lowered(c[i - 1], calls[i])
    <3>1. CASE i = m + 1
      <4>1. i # 0 /\ i - 1 = m /\ m \in 0 .. m + 1 /\ m # m + 1
        BY <3>1
      <4> QED BY <3>1, <4>1
    <3>2. CASE i # m + 1
      <4>1. i \in 0 .. m /\ (i # 0 => i - 1 \in 0 .. m /\ i - 1 # m + 1 /\ i - 1 \in 0 .. m + 1)
        BY <3>2
      <4>2. c[i] = e[i]
        BY <3>2
      <4>3. i # 0 => c[i - 1] = e[i - 1]
        BY <4>1
      <4>4. e[i] = IF i = 0 THEN {start} ELSE Lowered(e[i - 1], calls[i])
        BY <2>1, <4>1 DEF IsDrawing
      <4> QED BY <4>2, <4>3, <4>4
    <3> QED BY <3>1, <3>2
  <2>3. IsDrawing(c, start, calls, m + 1)
    BY <2>2 DEF IsDrawing
  <2> QED BY <2>3
<1> HIDE DEF G
<1>3. n \in G
  BY <1>1, <1>2, NaturalInduction
<1> QED BY <1>3 DEF G

LEMMA DrawnFact ==
    ASSUME NEW start, NEW calls, Len(calls) \in Nat
    PROVE  /\ Drawn(start, calls)[0] = {start}
           /\ \A i \in 0 .. Len(calls) - 1 :
                Drawn(start, calls)[i + 1] = Lowered(Drawn(start, calls)[i], calls[i + 1])
<1> DEFINE n == Len(calls)
<1>1. Drawn(start, calls) = CHOOSE e : IsDrawing(e, start, calls, n)
  BY Zenon DEF Drawn, IsDrawing, Lowered
<1>2. PICK e : e = Drawn(start, calls) /\ IsDrawing(e, start, calls, n)
  BY <1>1, DrawingExists
<1> HIDE DEF n
<1>3. \A i \in 0 .. n : e[i] = IF i = 0 THEN {start} ELSE Lowered(e[i - 1], calls[i])
  BY <1>2 DEF IsDrawing
<1>4. n \in Nat
  BY DEF n
<1>5. e[0] = {start}
  BY <1>3, <1>4
<1>6. ASSUME NEW i \in 0 .. n - 1 PROVE e[i + 1] = Lowered(e[i], calls[i + 1])
  <2>1. i + 1 \in 0 .. n /\ i + 1 # 0 /\ (i + 1) - 1 = i
    BY <1>4
  <2>2. e[i + 1] = IF i + 1 = 0 THEN {start} ELSE Lowered(e[(i + 1) - 1], calls[i + 1])
    BY <1>3, <2>1
  <2> QED BY <2>1, <2>2
<1> QED BY <1>2, <1>5, <1>6 DEF n

-----------------------------------------------------------------------------
(* A batch has what its calls draw *)

\* The calls can be paid from the allowances start, and leave those in left.
Lasts(calls, start, left) ==
    \E tr \in [0 .. Len(calls) -> Allowances] :
        /\ tr[0] = start
        /\ \A i \in 1 .. Len(calls) : tr[i] \in Draw(tr[i - 1], calls[i])
        /\ AtLeast(tr[Len(calls)], left)

\* From whatever allowances are not below those that were read.
Suffices(calls, standing, left) ==
    \A start \in Allowances : AtLeast(start, standing) => Lasts(calls, start, left)

\* One more call, that draws from left no more than there is.
Draws(x, left, rest) ==
    \A l \in Allowances : AtLeast(l, left) =>
        \E m \in Allowances : m \in Draw(l, x) /\ AtLeast(m, rest)

LEMMA OneMoreCall ==
    ASSUME NEW T, NEW calls \in Seq(T), NEW x \in T, NEW standing, NEW left, NEW rest,
           Suffices(calls, standing, left), Draws(x, left, rest)
    PROVE  Suffices(Append(calls, x), standing, rest)
<1> SUFFICES ASSUME NEW start \in Allowances, AtLeast(start, standing)
             PROVE  Lasts(Append(calls, x), start, rest)
  BY DEF Suffices
<1> DEFINE n == Len(calls)
           more == Append(calls, x)
<1>1. n \in Nat /\ Len(more) = n + 1 /\ more[n + 1] = x
      /\ \A i \in 1 .. n : more[i] = calls[i]
  OBVIOUS
<1>2. PICK tr \in [0 .. n -> Allowances] :
        /\ tr[0] = start
        /\ \A i \in 1 .. n : tr[i] \in Draw(tr[i - 1], calls[i])
        /\ AtLeast(tr[n], left)
  BY DEF Suffices, Lasts
<1> HIDE DEF n, more
<1>3. tr[n] \in Allowances
  BY <1>1, <1>2
<1>4. PICK m \in Allowances : m \in Draw(tr[n], x) /\ AtLeast(m, rest)
  BY <1>2, <1>3 DEF Draws
<1> DEFINE new == [i \in 0 .. n + 1 |-> IF i = n + 1 THEN m ELSE tr[i]]
<1>5. new \in [0 .. n + 1 -> Allowances]
  BY <1>1, <1>2, <1>4
<1>6. new[0] = start /\ new[n + 1] = m
  BY <1>1, <1>2
<1>7. ASSUME NEW i \in 1 .. n + 1 PROVE new[i] \in Draw(new[i - 1], more[i])
  <2>1. CASE i = n + 1
    <3>1. new[i] = m /\ new[i - 1] = tr[n] /\ more[i] = x
      BY <1>1, <2>1
    <3> QED BY <3>1, <1>4
  <2>2. CASE i # n + 1
    <3>1. i \in 1 .. n /\ i \in 0 .. n + 1 /\ i - 1 \in 0 .. n + 1 /\ i - 1 # n + 1
      BY <1>1, <2>2
    <3>2. new[i] = tr[i] /\ new[i - 1] = tr[i - 1] /\ more[i] = calls[i]
      BY <1>1, <2>2, <3>1
    <3> QED BY <1>2, <3>1, <3>2
  <2> QED BY <2>1, <2>2
<1> HIDE DEF new
<1>8. Len(more) = n + 1 /\ AtLeast(new[n + 1], rest)
  BY <1>1, <1>4, <1>6
<1> QED BY <1>5, <1>6, <1>7, <1>8 DEF Lasts, more

LEMMA ApproveDraws ==
    ASSUME NEW x, CallOK(x), x.kind = "approve", NEW left \in Allowances
    PROVE  /\ [left EXCEPT ![Approved(x)] = x.amount] \in Allowances
           /\ Draws(x, left, [left EXCEPT ![Approved(x)] = x.amount])
<1>1. Approved(x) \in AllowanceKeys /\ x.amount \in Nat
  BY KeysOfCall DEF CallOK
<1>2. ASSUME NEW l \in Allowances, AtLeast(l, left)
      PROVE  \E m \in Allowances :
                m \in Draw(l, x) /\ AtLeast(m, [left EXCEPT ![Approved(x)] = x.amount])
  <2> DEFINE m == [l EXCEPT ![Approved(x)] = x.amount]
  <2>1. m \in Allowances
    BY <1>1 DEF Allowances
  <2>2. m \in Draw(l, x)
    BY DEF Draw, Approved
  <2>3. AtLeast(m, [left EXCEPT ![Approved(x)] = x.amount])
    BY <1>1, <1>2 DEF AtLeast, Allowances
  <2> QED BY <2>1, <2>2, <2>3
<1> QED BY <1>1, <1>2 DEF Draws, Allowances

LEMMA PaymentDraws ==
    ASSUME NEW x, CallOK(x), x.kind \in Spending, NEW left \in Allowances,
           left[Paid(x)] >= x.amount
    PROVE  /\ [left EXCEPT ![Paid(x)] = @ - x.amount] \in Allowances
           /\ Draws(x, left, [left EXCEPT ![Paid(x)] = @ - x.amount])
<1>1. Paid(x) \in AllowanceKeys /\ x.amount \in Nat
  BY KeysOfCall DEF CallOK
<1>2. ASSUME NEW l \in Allowances, AtLeast(l, left)
      PROVE  \E m \in Allowances :
                m \in Draw(l, x) /\ AtLeast(m, [left EXCEPT ![Paid(x)] = @ - x.amount])
  <2> DEFINE m == [l EXCEPT ![Paid(x)] = @ - x.amount]
  <2>0. l[Paid(x)] >= x.amount /\ l[Paid(x)] \in Nat /\ left[Paid(x)] \in Nat
    BY <1>1, <1>2 DEF AtLeast, Allowances
  <2>1. m \in Allowances
    BY <1>1, <2>0 DEF Allowances
  <2>2. m \in Draw(l, x)
    BY <2>0 DEF Draw, Spending
  <2>3. AtLeast(m, [left EXCEPT ![Paid(x)] = @ - x.amount])
    BY <1>1, <1>2, <2>0 DEF AtLeast, Allowances
  <2> QED BY <2>1, <2>2, <2>3
<1>3. left[Paid(x)] - x.amount \in Nat
  BY <1>1 DEF Allowances
<1> QED BY <1>1, <1>2, <1>3 DEF Draws, Allowances

LEMMA OtherDraws ==
    ASSUME NEW x, x.kind # "approve", x.kind \notin Spending, NEW left \in Allowances
    PROVE  Draws(x, left, left)
BY DEF Draws, Draw

-----------------------------------------------------------------------------
(* What is built *)

\* What the actions of a plan and the approvals for them are taken from.
CallSet(T) ==
    /\ \A x \in T : CallOK(x)
    /\ \A key \in AllowanceKeys, n \in Nat : Approve(key, n) \in T

\* Each approval of the calls will be cleaned up.
AllTracked(calls, clean) ==
    \A i \in 1 .. Len(calls) : calls[i].kind = "approve" => Approved(calls[i]) \in Range(clean)

BuildOK(b, T, standing) ==
    /\ b = [calls |-> b.calls, left |-> b.left, clean |-> b.clean]
    /\ b.calls \in Seq(T) /\ b.left \in Allowances /\ b.clean \in Seq(AllowanceKeys)
    /\ AllTracked(b.calls, b.clean)
    /\ Suffices(b.calls, standing, b.left)

LEMMA TrackedFact ==
    ASSUME NEW clean \in Seq(AllowanceKeys), NEW key \in AllowanceKeys
    PROVE  /\ Tracked(clean, key) \in Seq(AllowanceKeys)
           /\ Range(clean) \subseteq Range(Tracked(clean, key))
           /\ key \in Range(Tracked(clean, key))
<1>1. CASE key \in Range(clean)
  BY <1>1 DEF Tracked
<1>2. CASE key \notin Range(clean)
  <2> DEFINE n == Len(clean)
             more == Append(clean, key)
  <2>1. n \in Nat /\ DOMAIN clean = 1 .. n /\ DOMAIN more = 1 .. n + 1 /\ more[n + 1] = key
        /\ (\A i \in 1 .. n : more[i] = clean[i]) /\ more \in Seq(AllowanceKeys)
    OBVIOUS
  <2>2. Tracked(clean, key) = more
    BY <1>2 DEF Tracked
  <2> HIDE DEF n, more
  <2>3. \A i \in 1 .. n : i \in 1 .. n + 1
    BY <2>1
  <2>4. n + 1 \in 1 .. n + 1
    BY <2>1
  <2> QED BY <2>1, <2>2, <2>3, <2>4 DEF Range
<1> QED BY <1>1, <1>2

LEMMA TrackedMore ==
    ASSUME NEW T, CallSet(T), NEW calls \in Seq(T), NEW x \in T, NEW clean, NEW more,
           AllTracked(calls, clean), Range(clean) \subseteq Range(more),
           x.kind = "approve" => Approved(x) \in Range(more)
    PROVE  AllTracked(Append(calls, x), more)
<1> DEFINE n == Len(calls)
           longer == Append(calls, x)
<1>1. n \in Nat /\ Len(longer) = n + 1 /\ longer[n + 1] = x
      /\ \A i \in 1 .. n : longer[i] = calls[i]
  OBVIOUS
<1> HIDE DEF longer
<1>2. ASSUME NEW i \in 1 .. Len(longer), longer[i].kind = "approve"
      PROVE  Approved(longer[i]) \in Range(more)
  <2>1. CASE i = n + 1
    BY <1>1, <1>2, <2>1
  <2>2. CASE i # n + 1
    <3>1. i \in 1 .. n
      BY <1>1, <2>2
    <3>2. longer[i] = calls[i]
      BY <1>1, <3>1
    <3> QED BY <1>2, <3>1, <3>2 DEF AllTracked
  <2> QED BY <2>1, <2>2
<1> QED BY <1>2 DEF AllTracked, longer

LEMMA ApprovalAdded ==
    ASSUME NEW T, CallSet(T), NEW standing, NEW b, BuildOK(b, T, standing),
           NEW x \in T, x.kind = "approve"
    PROVE  BuildOK(AddApproval(b, x), T, standing)
<1> DEFINE c == AddApproval(b, x)
<1>1. CallOK(x) /\ Approved(x) \in AllowanceKeys
  BY KeysOfCall DEF CallSet
<1>2. /\ c.calls = Append(b.calls, x)
      /\ c.left = [b.left EXCEPT ![Approved(x)] = x.amount]
      /\ c.clean = Tracked(b.clean, Approved(x))
      /\ c = [calls |-> c.calls, left |-> c.left, clean |-> c.clean]
  BY DEF AddApproval, Approved
<1>3. c.left \in Allowances /\ Draws(x, b.left, c.left)
  BY <1>1, <1>2, ApproveDraws DEF BuildOK
<1> HIDE DEF c
<1>4. c.clean \in Seq(AllowanceKeys) /\ Range(b.clean) \subseteq Range(c.clean)
      /\ Approved(x) \in Range(c.clean)
  BY <1>1, <1>2, TrackedFact DEF BuildOK
<1>5. c.calls \in Seq(T)
  BY <1>2 DEF BuildOK
<1>6. AllTracked(c.calls, c.clean)
  <2>1. AllTracked(b.calls, b.clean) /\ b.calls \in Seq(T)
    BY DEF BuildOK
  <2>2. AllTracked(Append(b.calls, x), c.clean)
    BY <1>4, <2>1, TrackedMore
  <2> QED BY <1>2, <2>2
<1>7. Suffices(c.calls, standing, c.left)
  BY <1>2, <1>3, OneMoreCall DEF BuildOK
<1> QED BY <1>2, <1>3, <1>4, <1>5, <1>6, <1>7 DEF BuildOK, c

\* The fields of a record of what is built, and with one more call.
LEMMA WithCall ==
    ASSUME NEW b, NEW calls, NEW left, NEW clean,
           b = [calls |-> calls, left |-> left, clean |-> clean], NEW x
    PROVE  /\ b.calls = calls /\ b.left = left /\ b.clean = clean
           /\ [b EXCEPT !.calls = Append(@, x)] =
                [calls |-> Append(calls, x), left |-> left, clean |-> clean]
OBVIOUS

LEMMA Fields ==
    ASSUME NEW b, NEW calls, NEW left, NEW clean,
           b = [calls |-> calls, left |-> left, clean |-> clean]
    PROVE  /\ b.calls = calls /\ b.left = left /\ b.clean = clean
           /\ b = [calls |-> b.calls, left |-> b.left, clean |-> b.clean]
OBVIOUS

\* The approval a call needs, if any, and the call.
PaidFrom(b, x) ==
    [EnsureBatchAllowance(b, x) EXCEPT !.calls = Append(@, x)]

LEMMA PaymentAdded ==
    ASSUME NEW T, CallSet(T), NEW standing, NEW b, BuildOK(b, T, standing),
           NEW x \in T, x.kind \in Spending
    PROVE  BuildOK(PaidFrom(b, x), T, standing)
<1> DEFINE c == PaidFrom(b, x)
           key == Paid(x)
           a == Approve(key, x.amount)
<1>1. CallOK(x) /\ key \in AllowanceKeys /\ x.amount \in Nat /\ x.kind # "approve"
  BY KeysOfCall DEF CallSet, CallOK, Spending
<1>2. a \in T /\ CallOK(a) /\ a.kind = "approve" /\ Approved(a) = key /\ a.amount = x.amount
  BY <1>1, ApproveFact DEF CallSet
<1>3. CASE b.left[key] >= x.amount
  <2>1. /\ c.calls = Append(b.calls, x)
        /\ c.left = [b.left EXCEPT ![key] = @ - x.amount]
        /\ c.clean = b.clean
        /\ c = [calls |-> c.calls, left |-> c.left, clean |-> c.clean]
    <3> DEFINE left == [b.left EXCEPT ![key] = @ - x.amount]
               e == EnsureBatchAllowance(b, x)
    <3>1. e = [b EXCEPT !.left[key] = @ - x.amount]
      BY <1>3 DEF EnsureBatchAllowance
    <3>2. b = [calls |-> b.calls, left |-> b.left, clean |-> b.clean]
      BY DEF BuildOK
    <3>3. e = [calls |-> b.calls, left |-> left, clean |-> b.clean]
      BY <3>1, <3>2
    <3>4. c = [e EXCEPT !.calls = Append(@, x)]
      BY DEF PaidFrom
    <3> HIDE DEF c, e, left
    <3>5. c = [calls |-> Append(b.calls, x), left |-> left, clean |-> b.clean]
      BY <3>3, <3>4, WithCall
    <3> QED BY <3>5, Fields DEF left
  <2>2. c.left \in Allowances /\ Draws(x, b.left, c.left)
    BY <1>1, <1>3, <2>1, PaymentDraws DEF BuildOK
  <2> HIDE DEF c
  <2>3. c.calls \in Seq(T)
    BY <2>1 DEF BuildOK
  <2>4. AllTracked(c.calls, c.clean)
    BY <1>1, <2>1, TrackedMore DEF BuildOK
  <2>5. Suffices(c.calls, standing, c.left)
    BY <2>1, <2>2, OneMoreCall DEF BuildOK
  <2> QED BY <2>1, <2>2, <2>3, <2>4, <2>5 DEF BuildOK, c
<1>4. CASE ~(b.left[key] >= x.amount)
  <2> DEFINE calls == Append(b.calls, a)
             left == [b.left EXCEPT ![key] = x.amount]
             clean == Tracked(b.clean, key)
  <2>1. /\ c.calls = Append(calls, x)
        /\ c.left = [b.left EXCEPT ![key] = 0]
        /\ c.clean = clean
        /\ c = [calls |-> c.calls, left |-> c.left, clean |-> c.clean]
    <3>1. EnsureBatchAllowance(b, x) =
            [calls |-> calls, left |-> [b.left EXCEPT ![key] = 0], clean |-> clean]
      BY <1>4 DEF EnsureBatchAllowance
    <3> DEFINE none == [b.left EXCEPT ![key] = 0]
               e == EnsureBatchAllowance(b, x)
    <3>2. e = [calls |-> calls, left |-> none, clean |-> clean]
      BY <3>1
    <3>3. c = [e EXCEPT !.calls = Append(@, x)]
      BY DEF PaidFrom
    <3> HIDE DEF calls, left, clean, c, e, none
    <3>4. c = [calls |-> Append(calls, x), left |-> none, clean |-> clean]
      BY <3>2, <3>3, WithCall
    <3> QED BY <3>4, Fields DEF none
  <2>2. left \in Allowances /\ Draws(a, b.left, left)
    BY <1>2, ApproveDraws DEF BuildOK
  <2>3. [left EXCEPT ![key] = @ - x.amount] \in Allowances
        /\ Draws(x, left, [left EXCEPT ![key] = @ - x.amount])
    <3>1. left[key] >= x.amount
      BY <1>1 DEF BuildOK, Allowances
    <3> HIDE DEF left
    <3> QED BY <1>1, <2>2, <3>1, PaymentDraws
  <2>4. [left EXCEPT ![key] = @ - x.amount] = c.left
    BY <1>1, <2>1 DEF BuildOK, Allowances
  <2>5. calls \in Seq(T)
    BY <1>2 DEF BuildOK
  <2>6. clean \in Seq(AllowanceKeys) /\ Range(b.clean) \subseteq Range(clean) /\ key \in Range(clean)
    BY <1>1, TrackedFact DEF BuildOK
  <2>7. AllTracked(calls, clean)
    <3> HIDE DEF a, clean
    <3> QED BY <1>2, <2>6, TrackedMore DEF BuildOK
  <2>8. Suffices(calls, standing, left)
    <3> HIDE DEF a, left
    <3> QED BY <1>2, <2>2, OneMoreCall DEF BuildOK
  <2> HIDE DEF c, calls, left, clean
  <2>9. c.calls \in Seq(T)
    BY <2>1, <2>5
  <2>10. AllTracked(c.calls, c.clean)
    BY SMTT(30), <1>1, <2>1, <2>5, <2>7, TrackedMore
  <2>11. Suffices(c.calls, standing, c.left)
    BY <2>1, <2>3, <2>4, <2>5, <2>8, OneMoreCall
  <2> QED BY <2>1, <2>3, <2>4, <2>6, <2>9, <2>10, <2>11 DEF BuildOK, c
<1> QED BY <1>3, <1>4

LEMMA ActionAdded ==
    ASSUME NEW T, CallSet(T), NEW standing, NEW b, BuildOK(b, T, standing), NEW x \in T
    PROVE  BuildOK(AddAction(b, x), T, standing)
<1>1. CASE x.kind = "approve"
  BY <1>1, ApprovalAdded DEF AddAction
<1>2. CASE x.kind # "approve" /\ x.kind \in Spending
  BY <1>2, PaymentAdded DEF AddAction, PaidFrom
<1>3. CASE x.kind # "approve" /\ x.kind \notin Spending
  <2> DEFINE c == AddAction(b, x)
  <2>1. /\ c.calls = Append(b.calls, x) /\ c.left = b.left /\ c.clean = b.clean
        /\ c = [calls |-> c.calls, left |-> c.left, clean |-> c.clean]
    <3>1. b = [calls |-> b.calls, left |-> b.left, clean |-> b.clean]
      BY DEF BuildOK
    <3> QED BY <1>3, <3>1 DEF AddAction
  <2> HIDE DEF c
  <2>2. c.calls \in Seq(T)
    BY <2>1 DEF BuildOK
  <2>3. AllTracked(c.calls, c.clean)
    BY <1>3, <2>1, TrackedMore DEF BuildOK
  <2>4. Suffices(c.calls, standing, c.left)
    BY <1>3, <2>1, OtherDraws, OneMoreCall DEF BuildOK
  <2> QED BY <2>1, <2>2, <2>3, <2>4 DEF BuildOK, c
<1> QED BY <1>1, <1>2, <1>3

LEMMA BuiltOK ==
    ASSUME NEW plan, Len(plan) \in Nat, NEW T, CallSet(T),
           \A i \in 1 .. Len(plan) : plan[i] \in T,
           NEW standing \in Allowances
    PROVE  BuildOK(Built(plan, standing)[Len(plan)], T, standing)
<1> DEFINE n == Len(plan)
           b == Built(plan, standing)
           G == {i \in Nat : i <= n => BuildOK(b[i], T, standing)}
<1>1. b[0] = NothingBuilt(standing) /\ \A i \in 0 .. n - 1 : b[i + 1] = AddAction(b[i], plan[i + 1])
  BY BuiltFact
<1> HIDE DEF b
<1>2. 0 \in G
  <2> DEFINE e == NothingBuilt(standing)
  <2>1. e.calls = <<>> /\ e.left = standing /\ e.clean = <<>>
        /\ e = [calls |-> e.calls, left |-> e.left, clean |-> e.clean]
    BY DEF NothingBuilt
  <2> HIDE DEF e
  <2>2. Suffices(e.calls, standing, e.left)
    <3> SUFFICES ASSUME NEW start \in Allowances, AtLeast(start, standing)
                 PROVE  Lasts(<<>>, start, standing)
      BY <2>1 DEF Suffices
    <3> DEFINE tr == [i \in 0 .. 0 |-> start]
    <3>1. tr \in [0 .. Len(<<>>) -> Allowances] /\ tr[0] = start
          /\ (\A i \in 1 .. Len(<<>>) : tr[i] \in Draw(tr[i - 1], <<>>[i]))
          /\ AtLeast(tr[Len(<<>>)], standing)
      OBVIOUS
    <3> QED BY <3>1 DEF Lasts
  <2>3. AllTracked(e.calls, e.clean)
    BY <2>1 DEF AllTracked
  <2>4. e.calls \in Seq(T) /\ e.left \in Allowances /\ e.clean \in Seq(AllowanceKeys)
    BY <2>1
  <2>5. BuildOK(e, T, standing)
    BY <2>1, <2>2, <2>3, <2>4 DEF BuildOK
  <2> QED BY <1>1, <2>5 DEF e
<1>3. ASSUME NEW i \in Nat, i \in G PROVE i + 1 \in G
  <2> SUFFICES ASSUME i + 1 <= n PROVE BuildOK(b[i + 1], T, standing)
    OBVIOUS
  <2>1. i \in 0 .. n - 1 /\ i <= n /\ i + 1 \in 1 .. n
    OBVIOUS
  <2>2. BuildOK(b[i], T, standing)
    BY <1>3, <2>1
  <2>3. plan[i + 1] \in T
    BY <2>1
  <2> HIDE DEF n
  <2> QED BY <1>1, <2>1, <2>2, <2>3, ActionAdded
<1> HIDE DEF G
<1>4. n \in G
  BY <1>2, <1>3, NaturalInduction
<1> QED BY <1>4 DEF G, b

-----------------------------------------------------------------------------
(* The whole batch *)

\* The last approval of a key, if there is one, is of nothing.
Returned(calls, key) ==
    \E m \in 0 .. Len(calls) :
        /\ m > 0 => /\ calls[m].kind = "approve" /\ Approved(calls[m]) = key
                    /\ calls[m].amount = 0
        /\ \A i \in m + 1 .. Len(calls) :
            calls[i].kind = "approve" /\ Approved(calls[i]) = key => calls[i].amount = 0

\* What the theorems need to know of a batch built from the allowances standing.
Sound(calls, standing) ==
    /\ Len(calls) \in Nat /\ \A i \in 1 .. Len(calls) : CallOK(calls[i])
    /\ standing \in Allowances
    /\ \A key \in AllowanceKeys : Returned(calls, key)
    /\ \A start \in Allowances :
        AtLeast(start, standing) => Drawn(start, calls)[Len(calls)] # {}

LEMMA LastingIsDrawn ==
    ASSUME NEW calls, Len(calls) \in Nat, NEW start, NEW left, Lasts(calls, start, left)
    PROVE  Drawn(start, calls)[Len(calls)] # {}
<1> DEFINE n == Len(calls)
           d == Drawn(start, calls)
<1>1. d[0] = {start} /\ \A i \in 0 .. n - 1 : d[i + 1] = Lowered(d[i], calls[i + 1])
  BY DrawnFact
<1>2. PICK tr : tr[0] = start /\ \A i \in 1 .. n : tr[i] \in Draw(tr[i - 1], calls[i])
  BY DEF Lasts
<1> DEFINE G == {i \in Nat : i <= n => tr[i] \in d[i]}
<1> HIDE DEF d
<1>3. 0 \in G
  BY <1>1, <1>2
<1>4. ASSUME NEW i \in Nat, i \in G PROVE i + 1 \in G
  <2> SUFFICES ASSUME i + 1 <= n PROVE tr[i + 1] \in d[i + 1]
    OBVIOUS
  <2>1. i \in 0 .. n - 1 /\ i <= n /\ i + 1 \in 1 .. n /\ (i + 1) - 1 = i
    OBVIOUS
  <2>2. tr[i] \in d[i] /\ tr[i + 1] \in Draw(tr[i], calls[i + 1])
    BY <1>2, <1>4, <2>1
  <2> HIDE DEF n
  <2> QED BY <1>1, <2>1, <2>2 DEF Lowered
<1> HIDE DEF G
<1>5. n \in G
  BY <1>3, <1>4, NaturalInduction
<1> QED BY <1>5 DEF G, d

\* The allowances l after the first j keys of clean have been set to zero.
Zeroed(l, clean, j) ==
    [key \in AllowanceKeys |-> IF \E h \in 1 .. j : clean[h] = key THEN 0 ELSE l[key]]

LEMMA ZeroedFact ==
    ASSUME NEW l \in Allowances, NEW clean \in Seq(AllowanceKeys)
    PROVE  /\ Zeroed(l, clean, 0) = l
           /\ \A j \in Nat : Zeroed(l, clean, j) \in Allowances
           /\ \A j \in 0 .. Len(clean) - 1 :
                Zeroed(l, clean, j + 1) = [Zeroed(l, clean, j) EXCEPT ![clean[j + 1]] = 0]
<1>1. Zeroed(l, clean, 0) = l
  <2>1. \A key \in AllowanceKeys : Zeroed(l, clean, 0)[key] = l[key]
    BY DEF Zeroed
  <2> QED BY <2>1 DEF Zeroed, Allowances
<1>2. \A j \in Nat : Zeroed(l, clean, j) \in Allowances
  BY DEF Zeroed, Allowances
<1>3. ASSUME NEW j \in 0 .. Len(clean) - 1
      PROVE  Zeroed(l, clean, j + 1) = [Zeroed(l, clean, j) EXCEPT ![clean[j + 1]] = 0]
  <2>1. \A key \in AllowanceKeys :
            (\E h \in 1 .. j + 1 : clean[h] = key) <=>
                (\E h \in 1 .. j : clean[h] = key) \/ clean[j + 1] = key
    <3>1. \A h \in 1 .. j + 1 : h \in 1 .. j \/ h = j + 1
      OBVIOUS
    <3>2. j + 1 \in 1 .. j + 1 /\ \A h \in 1 .. j : h \in 1 .. j + 1
      OBVIOUS
    <3> QED BY <3>1, <3>2
  <2>2. \A key \in AllowanceKeys :
            Zeroed(l, clean, j + 1)[key] = [Zeroed(l, clean, j) EXCEPT ![clean[j + 1]] = 0][key]
    BY <2>1 DEF Zeroed
  <2> QED BY <2>2 DEF Zeroed
<1> QED BY <1>1, <1>2, <1>3

LEMMA CleaningLasts ==
    ASSUME NEW T, NEW calls \in Seq(T), NEW clean \in Seq(AllowanceKeys),
           NEW whole, Len(whole) = Len(calls) + Len(clean),
           \A i \in 1 .. Len(calls) : whole[i] = calls[i],
           \A i \in 1 .. Len(clean) : whole[Len(calls) + i] = Approve(clean[i], 0),
           NEW start, NEW left, Lasts(calls, start, left)
    PROVE  Lasts(whole, start, [key \in AllowanceKeys |-> 0])
<1> DEFINE p == Len(calls)
           k == Len(clean)
<1>1. p \in Nat /\ k \in Nat /\ \A i \in 1 .. k : clean[i] \in AllowanceKeys
  OBVIOUS
<1>2. PICK tr \in [0 .. p -> Allowances] :
        tr[0] = start /\ \A i \in 1 .. p : tr[i] \in Draw(tr[i - 1], calls[i])
  BY DEF Lasts
<1> DEFINE l == tr[p]
           new == [i \in 0 .. p + k |-> IF i < p THEN tr[i] ELSE Zeroed(l, clean, i - p)]
<1>3. l \in Allowances
  BY <1>1, <1>2
<1> HIDE DEF l
<1>4. new \in [0 .. p + k -> Allowances]
  <2>1. ASSUME NEW i \in 0 .. p + k PROVE new[i] \in Allowances
    <3>1. CASE i < p
      <4>1. i \in 0 .. p
        BY <1>1, <3>1
      <4> QED BY <1>2, <3>1, <4>1
    <3>2. CASE ~(i < p)
      <4>1. i - p \in Nat
        BY <1>1, <3>2
      <4> QED BY <1>3, <3>2, <4>1, ZeroedFact
    <3> QED BY <3>1, <3>2
  <2> HIDE DEF p, k
  <2> QED BY <2>1
<1>5. \A i \in 0 .. p : new[i] = tr[i]
  <2>1. Zeroed(l, clean, 0) = tr[p]
    BY <1>3, ZeroedFact DEF l
  <2>2. ASSUME NEW i \in 0 .. p PROVE new[i] = tr[i]
    <3>1. CASE i < p
      BY <1>1, <3>1
    <3>2. CASE ~(i < p)
      <4>1. i = p /\ i - p = 0 /\ i \in 0 .. p + k
        BY <1>1, <3>2
      <4> HIDE DEF p, k
      <4>2. new[i] = Zeroed(l, clean, 0)
        BY <3>2, <4>1
      <4> QED BY <2>1, <4>1, <4>2
    <3> QED BY <3>1, <3>2
  <2> QED BY <2>2
<1>6. \A i \in p .. p + k : new[i] = Zeroed(l, clean, i - p)
  <2> TAKE i \in p .. p + k
  <2>1. i \in 0 .. p + k /\ ~(i < p)
    BY <1>1
  <2> HIDE DEF p, k
  <2> QED BY <2>1
<1> HIDE DEF new
<1>7. ASSUME NEW i \in 1 .. p + k PROVE new[i] \in Draw(new[i - 1], whole[i])
  <2>1. CASE i <= p
    <3>1. i \in 1 .. p /\ i \in 0 .. p /\ i - 1 \in 0 .. p
      BY <1>1, <2>1
    <3> QED BY <1>2, <1>5, <3>1
  <2>2. CASE ~(i <= p)
    <3> DEFINE j == i - p - 1
    <3>1. /\ j \in 0 .. k - 1 /\ j + 1 \in 1 .. k /\ i - 1 \in p .. p + k /\ i \in p .. p + k
          /\ i - 1 - p = j /\ i - p = j + 1 /\ p + (j + 1) = i
      BY <1>1, <2>2
    <3>2. whole[i] = Approve(clean[j + 1], 0)
      BY <3>1
    <3>3. new[i - 1] = Zeroed(l, clean, j) /\ new[i] = Zeroed(l, clean, j + 1)
      <4> HIDE DEF j, p, k
      <4> QED BY <1>6, <3>1
    <3> HIDE DEF j, p
    <3>4. new[i] = [new[i - 1] EXCEPT ![clean[j + 1]] = 0]
      BY <1>3, <3>1, <3>3, ZeroedFact DEF k
    <3>5. clean[j + 1] \in AllowanceKeys
      BY <1>1, <3>1
    <3>6. Draw(new[i - 1], whole[i]) = {[new[i - 1] EXCEPT ![clean[j + 1]] = 0]}
      <4>1. Approved(whole[i]) = clean[j + 1] /\ whole[i].kind = "approve" /\ whole[i].amount = 0
        <5> DEFINE q == clean[j + 1]
        <5> HIDE DEF q
        <5>1. q \in AllowanceKeys /\ whole[i] = Approve(q, 0)
          BY <3>2, <3>5 DEF q
        <5>2. 0 \in Nat
          OBVIOUS
        <5>3. Approved(whole[i]) = q /\ whole[i].kind = "approve" /\ whole[i].amount = 0
          BY <5>1, <5>2, ApproveFact
        <5> QED BY <5>3 DEF q
      <4> QED BY <4>1 DEF Draw, Approved
    <3> QED BY <3>4, <3>6
  <2> QED BY <1>1, <2>1, <2>2
<1>8. new[0] = start
  BY <1>1, <1>2, <1>5
<1>9. AtLeast(new[p + k], [key \in AllowanceKeys |-> 0])
  <2>1. new[p + k] \in Allowances
    BY <1>1, <1>4
  <2> HIDE DEF p, k
  <2> QED BY <2>1 DEF AtLeast, Allowances
<1>10. Len(whole) = p + k
  OBVIOUS
<1> HIDE DEF p, k
<1> QED BY <1>4, <1>7, <1>8, <1>9, <1>10 DEF Lasts

LEMMA BuildSound ==
    ASSUME NEW plan, Len(plan) \in Nat, NEW T, CallSet(T),
           \A i \in 1 .. Len(plan) : plan[i] \in T,
           NEW standing \in Allowances
    PROVE  Sound(BuildCalls(plan, standing), standing)
<1> DEFINE b == Built(plan, standing)[Len(plan)]
           z == [i \in DOMAIN b.clean |-> Approve(b.clean[i], 0)]
           whole == BuildCalls(plan, standing)
           p == Len(b.calls)
           k == Len(b.clean)
<1>1. BuildOK(b, T, standing)
  BY BuiltOK
<1>2. whole = b.calls \o z
  BY DEF BuildCalls
<1> HIDE DEF b, whole
<1>3. p \in Nat /\ k \in Nat /\ DOMAIN b.clean = 1 .. k /\ \A i \in 1 .. k : b.clean[i] \in AllowanceKeys
  BY <1>1 DEF BuildOK
<1>4. z \in Seq(T) /\ Len(z) = k /\ \A i \in 1 .. k : z[i] = Approve(b.clean[i], 0)
  <2>1. z = [i \in 1 .. k |-> Approve(b.clean[i], 0)]
    BY <1>3
  <2>2. \A i \in 1 .. k : Approve(b.clean[i], 0) \in T
    BY <1>3 DEF CallSet
  <2> HIDE DEF z, k
  <2>3. z \in [1 .. k -> T]
    BY <2>1, <2>2
  <2> QED BY <1>3, <2>1, <2>3
<1> HIDE DEF z
<1>5. /\ whole \in Seq(T) /\ Len(whole) = p + k
      /\ \A i \in 1 .. p : whole[i] = b.calls[i]
      /\ \A i \in 1 .. k : whole[p + i] = Approve(b.clean[i], 0)
  <2>1. b.calls \in Seq(T)
    BY <1>1 DEF BuildOK
  <2>2. whole \in Seq(T) /\ Len(whole) = p + k
    <3> DEFINE c == b.calls
    <3>1. c \in Seq(T) /\ whole = c \o z /\ p = Len(c)
      BY <1>2, <2>1
    <3> HIDE DEF c, p, k
    <3>2. whole \in Seq(T) /\ Len(whole) = Len(c) + Len(z)
      <4>1. z \in Seq(T) /\ c \in Seq(T) /\ whole = c \o z
        BY <1>4, <3>1
      <4>2. ASSUME NEW f \in Seq(T), NEW g \in Seq(T)
            PROVE  f \o g \in Seq(T) /\ Len(f \o g) = Len(f) + Len(g)
        OBVIOUS
      <4> QED BY <4>1, <4>2
    <3> QED BY <1>4, <3>1, <3>2
  <2>3. \A i \in 1 .. p : whole[i] = b.calls[i]
    BY <1>2, <1>4, <2>1
  <2>4. ASSUME NEW i \in 1 .. k PROVE whole[p + i] = z[i]
    <3>1. p + i \in 1 .. p + k /\ ~(p + i <= p) /\ (p + i) - p = i
      <4> HIDE DEF p, k
      <4> QED BY <1>3
    <3> QED BY <1>2, <1>3, <1>4, <2>1, <3>1
  <2> QED BY <1>4, <2>2, <2>3, <2>4
<1> HIDE DEF p, k
<1>6. \A i \in 1 .. Len(whole) : CallOK(whole[i])
  BY <1>5 DEF CallSet
<1>7. ASSUME NEW key \in AllowanceKeys PROVE Returned(whole, key)
  <2>1. ASSUME NEW i \in p + 1 .. p + k PROVE whole[i].amount = 0
    <3>1. i - p \in 1 .. k /\ p + (i - p) = i
      BY <1>3
    <3>2. whole[i] = Approve(b.clean[i - p], 0)
      BY <1>5, <3>1
    <3> QED BY <1>3, <3>1, <3>2, ApproveFact
  <2>2. CASE \E j \in 1 .. k : b.clean[j] = key
    <3>1. PICK j \in 1 .. k : b.clean[j] = key
      BY <2>2
    <3> DEFINE m == p + j
    <3>2. m \in 0 .. Len(whole) /\ m > 0 /\ \A i \in m + 1 .. Len(whole) : i \in p + 1 .. p + k
      BY <1>3, <1>5
    <3>3. whole[m].kind = "approve" /\ Approved(whole[m]) = key /\ whole[m].amount = 0
      BY <1>5, <3>1, ApproveFact
    <3> HIDE DEF m
    <3> QED BY <2>1, <3>2, <3>3 DEF Returned
  <2>3. CASE ~\E j \in 1 .. k : b.clean[j] = key
    <3>1. ASSUME NEW i \in 1 .. Len(whole), whole[i].kind = "approve", Approved(whole[i]) = key
          PROVE  whole[i].amount = 0
      <4>1. CASE i <= p
        <5>1. i \in 1 .. p /\ whole[i] = b.calls[i]
          BY <1>3, <1>5, <4>1
        <5>2. Approved(b.calls[i]) \in Range(b.clean)
          BY <1>1, <3>1, <5>1 DEF BuildOK, AllTracked, p
        <5> QED BY <1>3, <2>3, <3>1, <5>1, <5>2 DEF Range
      <4>2. CASE ~(i <= p)
        <5>1. i \in p + 1 .. p + k
          BY <1>3, <1>5, <4>2
        <5> QED BY <2>1, <5>1
      <4> QED BY <4>1, <4>2
    <3>2. 0 \in 0 .. Len(whole) /\ ~(0 > 0) /\ 0 + 1 = 1
      BY <1>3, <1>5
    <3> QED BY <3>1, <3>2 DEF Returned
  <2> QED BY <2>2, <2>3
<1>8. ASSUME NEW start \in Allowances, AtLeast(start, standing)
      PROVE  Drawn(start, whole)[Len(whole)] # {}
  <2>1. Lasts(b.calls, start, b.left)
    BY <1>1, <1>8 DEF BuildOK, Suffices
  <2>2. b.calls \in Seq(T) /\ b.clean \in Seq(AllowanceKeys)
    BY <1>1 DEF BuildOK
  <2>3. Lasts(whole, start, [key \in AllowanceKeys |-> 0])
    BY <1>5, <2>1, <2>2, CleaningLasts DEF p, k
  <2>4. Len(whole) \in Nat
    BY <1>3, <1>5
  <2> QED BY <2>3, <2>4, LastingIsDrawn
<1>9. Len(whole) \in Nat
  BY <1>3, <1>5
<1> QED BY <1>6, <1>7, <1>8, <1>9 DEF Sound, whole

-----------------------------------------------------------------------------
(* Executing a batch *)

AccountOK(s) ==
    /\ DOMAIN s = {"balance", "supplied", "debt", "allowance", "spent"}
    /\ s.allowance \in Allowances

\* What a call does to the allowances.
LEMMA CallAllowance ==
    ASSUME NEW s, AccountOK(s), NEW x, CallOK(x), NEW u \in Call(s, x)
    PROVE  /\ AccountOK(u)
           /\ x.kind = "approve" => u.allowance = [s.allowance EXCEPT ![Approved(x)] = x.amount]
           /\ x.kind # "approve" => AtLeast(s.allowance, u.allowance)
<1> DEFINE a == x.asset
           n == x.amount
           t == [s EXCEPT !.spent[<<x.kind, a>>] = @ + n]
           paid == [t EXCEPT !.balance[a] = @ - n, !.allowance[Paid(x)] = @ - n]
<1>1. /\ n \in Nat /\ Paid(x) \in AllowanceKeys
      /\ x.kind = "approve" => Approved(x) \in AllowanceKeys
  BY KeysOfCall DEF CallOK
<1>2. t.allowance = s.allowance /\ DOMAIN t = DOMAIN s
  BY DEF AccountOK
<1>3. paid.allowance = [s.allowance EXCEPT ![Paid(x)] = @ - n] /\ DOMAIN paid = DOMAIN s
  <2> HIDE DEF t
  <2> QED BY <1>2 DEF AccountOK
<1>4. \/ x.kind = "approve" /\ u = [t EXCEPT !.allowance[<<a, x.spender>>] = n]
      \/ /\ x.kind # "approve" /\ n <= s.allowance[Paid(x)]
         /\ \/ u = [paid EXCEPT !.supplied[a] = @ + n]
            \/ u = [paid EXCEPT !.debt[a] = @ - n]
            \/ u = [paid EXCEPT !.balance[x.out] = @ + n]
      \/ /\ x.kind # "approve"
         /\ \/ u = [t EXCEPT !.supplied[a] = @ - n, !.balance[a] = @ + n]
            \/ u = [t EXCEPT !.debt[a] = @ + n, !.balance[a] = @ + n]
  BY DEF Call
<1> HIDE DEF t, paid
<1>5. CASE x.kind = "approve" /\ u = [t EXCEPT !.allowance[<<a, x.spender>>] = n]
  <2>1. u.allowance = [s.allowance EXCEPT ![Approved(x)] = n] /\ DOMAIN u = DOMAIN s
    BY <1>2, <1>5 DEF AccountOK, Approved
  <2>2. u.allowance \in Allowances
    BY <1>1, <1>5, <2>1 DEF AccountOK, Allowances
  <2> QED BY <1>5, <2>1, <2>2 DEF AccountOK
<1>6. ASSUME x.kind # "approve", n <= s.allowance[Paid(x)],
             u.allowance = paid.allowance, DOMAIN u = DOMAIN paid
      PROVE  AccountOK(u) /\ AtLeast(s.allowance, u.allowance)
  <2>1. s.allowance \in Allowances /\ u.allowance = [s.allowance EXCEPT ![Paid(x)] = @ - n]
    BY <1>3, <1>6 DEF AccountOK
  <2>2. s.allowance[Paid(x)] - n \in Nat
    BY <1>1, <1>6, <2>1 DEF Allowances
  <2>3. u.allowance \in Allowances
    BY <1>1, <2>1, <2>2 DEF Allowances
  <2>4. AtLeast(s.allowance, u.allowance)
    BY <1>1, <2>1 DEF Allowances, AtLeast
  <2> QED BY <1>3, <1>6, <2>3, <2>4 DEF AccountOK
<1>7. ASSUME u.allowance = t.allowance, DOMAIN u = DOMAIN t
      PROVE  AccountOK(u) /\ AtLeast(s.allowance, u.allowance)
  <2>1. s.allowance \in Allowances /\ u.allowance = s.allowance
    BY <1>2, <1>7 DEF AccountOK
  <2>2. AtLeast(s.allowance, u.allowance)
    BY <2>1 DEF AtLeast, Allowances
  <2> QED BY <1>2, <1>7, <2>1, <2>2 DEF AccountOK
<1>8. CASE /\ x.kind # "approve" /\ n <= s.allowance[Paid(x)]
           /\ \/ u = [paid EXCEPT !.supplied[a] = @ + n]
              \/ u = [paid EXCEPT !.debt[a] = @ - n]
              \/ u = [paid EXCEPT !.balance[x.out] = @ + n]
  <2>1. "allowance" \in DOMAIN paid
    BY <1>3 DEF AccountOK
  <2>2. u.allowance = paid.allowance /\ DOMAIN u = DOMAIN paid
    BY <1>8, <2>1
  <2> QED BY <1>6, <1>8, <2>2
<1>9. CASE x.kind # "approve" /\
           (u = [t EXCEPT !.supplied[a] = @ - n, !.balance[a] = @ + n]
            \/ u = [t EXCEPT !.debt[a] = @ + n, !.balance[a] = @ + n])
  <2>1. "allowance" \in DOMAIN t
    BY <1>2 DEF AccountOK
  <2>2. u.allowance = t.allowance /\ DOMAIN u = DOMAIN t
    BY <1>9, <2>1
  <2> QED BY <1>7, <1>9, <2>2
<1> QED BY <1>4, <1>5, <1>8, <1>9

\* After the last approval of a key nothing raises its allowance.
LEMMA BatchReturns ==
    ASSUME AccountOK(account), NEW calls, Len(calls) \in Nat,
           \A i \in 1 .. Len(calls) : CallOK(calls[i]),
           \A key \in AllowanceKeys : Returned(calls, key),
           NEW u \in ExecuteBatch(calls)
    PROVE  AccountOK(u) /\ AtLeast(account.allowance, u.allowance)
<1> DEFINE n == Len(calls)
           e == Executed(account, calls)
<1>1. e[0] = {account} /\ \A i \in 0 .. n - 1 : e[i + 1] = Stepped(e[i], calls[i + 1])
  BY ExecutedFact
<1>2. u \in e[n] /\ n \in Nat
  BY DEF ExecuteBatch
<1>3. \A i \in 1 .. n : CallOK(calls[i])
  OBVIOUS
<1>4. ASSUME NEW key \in AllowanceKeys
      PROVE  AccountOK(u) /\ u.allowance[key] <= account.allowance[key]
  <2>1. PICK m \in 0 .. n :
            /\ m > 0 => /\ calls[m].kind = "approve" /\ Approved(calls[m]) = key
                        /\ calls[m].amount = 0
            /\ \A i \in m + 1 .. n :
                calls[i].kind = "approve" /\ Approved(calls[i]) = key => calls[i].amount = 0
    BY DEF Returned
  <2> DEFINE Low(s) == AccountOK(s) /\ s.allowance[key] <= account.allowance[key]
             G == {i \in Nat : i <= n => \A s \in e[i] : AccountOK(s) /\ (i >= m => Low(s))}
  <2> HIDE DEF n, e
  <2>2. 0 \in G
    <3>1. account.allowance[key] \in Nat
      BY DEF AccountOK, Allowances
    <3> QED BY <1>1, <3>1
  <2>3. ASSUME NEW i \in Nat, i \in G PROVE i + 1 \in G
    <3> SUFFICES ASSUME i + 1 <= n, NEW t \in e[i + 1]
                 PROVE  AccountOK(t) /\ (i + 1 >= m => Low(t))
      OBVIOUS
    <3> DEFINE x == calls[i + 1]
    <3>1. i <= n /\ i \in 0 .. n - 1 /\ i + 1 \in 1 .. n
      BY <1>2
    <3>2. PICK s \in e[i] : t \in Call(s, x)
      BY <1>1, <3>1 DEF Stepped
    <3>3. AccountOK(s) /\ (i >= m => Low(s)) /\ CallOK(x)
      BY <1>3, <2>3, <3>1, <3>2
    <3> HIDE DEF x
    <3>4. /\ AccountOK(t)
          /\ x.kind = "approve" => t.allowance = [s.allowance EXCEPT ![Approved(x)] = x.amount]
          /\ x.kind # "approve" => AtLeast(s.allowance, t.allowance)
      BY <3>2, <3>3, CallAllowance
    <3>5. ASSUME i + 1 >= m PROVE Low(t)
      <4>0. s.allowance \in Allowances /\ t.allowance \in Allowances
            /\ account.allowance[key] \in Nat
        BY <3>3, <3>4 DEF AccountOK, Allowances
      <4>1. CASE x.kind = "approve" /\ Approved(x) = key
        <5>1. x.amount = 0
          <6>1. CASE i + 1 = m
            BY <2>1, <6>1 DEF x
          <6>2. CASE i + 1 # m
            <7>1. i + 1 \in m + 1 .. n
              BY <3>1, <3>5, <6>2
            <7> QED BY <2>1, <4>1, <7>1 DEF x
          <6> QED BY <6>1, <6>2
        <5>2. t.allowance[key] = 0
          BY <3>4, <4>0, <4>1, <5>1 DEF Allowances
        <5> QED BY <3>4, <4>0, <5>2
      <4>2. CASE ~(x.kind = "approve" /\ Approved(x) = key)
        <5>1. i >= m
          <6>1. i + 1 # m
            BY <2>1, <4>2 DEF x
          <6> QED BY <3>5, <6>1
        <5>2. s.allowance[key] <= account.allowance[key] /\ s.allowance[key] \in Nat
              /\ t.allowance[key] \in Nat
          BY <3>3, <4>0, <5>1 DEF Allowances
        <5>3. t.allowance[key] <= s.allowance[key]
          <6>1. CASE x.kind = "approve"
            BY <3>4, <4>0, <4>2, <5>2, <6>1 DEF Allowances
          <6>2. CASE x.kind # "approve"
            BY <3>4, <6>2 DEF AtLeast
          <6> QED BY <6>1, <6>2
        <5> QED BY <3>4, <4>0, <5>2, <5>3
      <4> QED BY <4>1, <4>2
    <3> QED BY <3>4, <3>5
  <2> HIDE DEF G
  <2>4. n \in G
    BY <1>2, <2>2, <2>3, NaturalInduction
  <2>5. n <= n /\ n >= m
    BY <1>2
  <2> QED BY <1>2, <2>4, <2>5 DEF G
<1>5. AccountOK(u)
  <2>1. AllowanceKeys # {}
    <3>1. PICK a \in Assets : TRUE
      BY PlanAssumption
    <3>2. <<a, "pool">> \in AllowanceKeys
      BY DEF AllowanceKeys, Spenders
    <3> QED BY <3>2
  <2> QED BY <1>4, <2>1
<1>6. AtLeast(account.allowance, u.allowance)
  <2> SUFFICES ASSUME NEW key \in AllowanceKeys
               PROVE  account.allowance[key] >= u.allowance[key]
    BY DEF AtLeast
  <2>1. u.allowance[key] \in Nat /\ account.allowance[key] \in Nat
    BY <1>5 DEF AccountOK, Allowances
  <2> QED BY <1>4, <2>1
<1> QED BY <1>5, <1>6

-----------------------------------------------------------------------------
(* The invariant *)

\* A run that has built its batch built a sound one.
RunOK(q) ==
    /\ q.step \in {"started", "planned"} => q.config.policy \in Policies
    /\ q.step = "built" => Sound(q.calls, q.standing)

PlanInv ==
    /\ AccountOK(account)
    /\ config.policy \in Policies /\ DOMAIN config = {"policy", "enabled", "guard"}
    /\ run = [r \in Runs |-> run[r]]
    /\ \A r \in Runs : RunOK(run[r])

LEMMA PlanInit == Init => PlanInv
<1> SUFFICES ASSUME Init PROVE PlanInv
  OBVIOUS
<1>1. PICK a \in Accounts :
        account = [balance |-> a.balance, supplied |-> a.supplied, debt |-> a.debt,
                   allowance |-> [k \in AllowanceKeys |-> IF k[2] = "pool" THEN a.standing ELSE 0],
                   spent |-> [k \in LimitKeys |-> 0]]
  BY DEF Init
<1>2. a.standing \in Nat
  BY PlanAssumption
<1>3. AccountOK(account)
  BY <1>1, <1>2 DEF AccountOK, Allowances
<1>4. config.policy \in Policies /\ DOMAIN config = {"policy", "enabled", "guard"}
  BY DEF Init
<1>5. run = [r \in Runs |-> Idle]
  BY DEF Init
<1>6. \A r \in Runs : RunOK(run[r])
  BY <1>5 DEF RunOK, Idle
<1> QED BY <1>3, <1>4, <1>5, <1>6 DEF PlanInv

\* A run goes on to q.
LEMMA RunStep ==
    ASSUME PlanInv, NEW r \in Runs, NEW q, RunOK(q), run' = [run EXCEPT ![r] = q],
           AccountOK(account'), config' = config
    PROVE  PlanInv'
<1>1. run' = [i \in Runs |-> IF i = r THEN q ELSE run[i]]
  BY DEF PlanInv
<1>2. \A i \in Runs : RunOK(run'[i])
  BY <1>1 DEF PlanInv
<1>3. run' = [i \in Runs |-> run'[i]]
  BY <1>1
<1> QED BY <1>2, <1>3 DEF PlanInv, RunOK, AccountOK

\* The plan whose batch is built consists of calls.
LEMMA BuiltIsSound ==
    ASSUME PlanInv, NEW r \in Runs, Build(r)
    PROVE  Sound(BuildCalls(run[r].plan, account.allowance), account.allowance)
<1> DEFINE plan == run[r].plan
           policy == run[r].config.policy
           T == {plan[i] : i \in 1 .. Len(plan)} \union {Approve(key, n) : key \in AllowanceKeys, n \in Nat}
<1>1. policy \in Policies
  BY DEF Build, PlanInv, RunOK
<1>2. policy.actions \subseteq Kinds \ {"approve"} /\ policy.assets \subseteq Assets
      /\ policy.maxActions \in 1 .. 4
  BY <1>1, PlanAssumption
<1>3. Len(plan) \in 1 .. policy.maxActions
      /\ \A i \in 1 .. Len(plan) : ActionAllowed(policy, plan[i]) /\ WellFormed(plan[i])
  BY DEF Build
<1> HIDE DEF plan, policy
<1>4. Len(plan) \in Nat
  BY <1>2, <1>3
<1>5. ASSUME NEW i \in 1 .. Len(plan) PROVE CallOK(plan[i])
  <2>1. ActionAllowed(policy, plan[i]) /\ WellFormed(plan[i])
    BY <1>3
  <2> QED BY <1>2, <2>1 DEF ActionAllowed, WellFormed, CallOK, Kinds, Spending
<1>6. CallSet(T)
  <2>1. ASSUME NEW x \in T PROVE CallOK(x)
    <3>1. CASE \E i \in 1 .. Len(plan) : x = plan[i]
      BY <1>5, <3>1
    <3>2. CASE \E key \in AllowanceKeys, n \in Nat : x = Approve(key, n)
      BY <3>2, ApproveFact
    <3> QED BY <3>1, <3>2
  <2> QED BY <2>1 DEF CallSet
<1>7. \A i \in 1 .. Len(plan) : plan[i] \in T
  OBVIOUS
<1>8. account.allowance \in Allowances
  BY DEF PlanInv, AccountOK
<1> HIDE DEF T
<1>9. Sound(BuildCalls(plan, account.allowance), account.allowance)
  BY <1>4, <1>6, <1>7, <1>8, BuildSound
<1> QED BY <1>9 DEF plan

LEMMA PlanRunNext ==
    ASSUME PlanInv, NEW r \in Runs, RunNext(r)
    PROVE  PlanInv'
<1>0. AccountOK(account)
  BY DEF PlanInv
<1>1. CASE Start(r)
  <2> DEFINE q == [step |-> "started", config |-> config]
  <2>1. RunOK(q) /\ run' = [run EXCEPT ![r] = q] /\ account' = account /\ config' = config
    BY <1>1 DEF Start, PlanInv, RunOK, outside
  <2> HIDE DEF q
  <2> QED BY <1>0, <2>1, RunStep
<1>2. CASE Build(r)
  <2> DEFINE q == [step |-> "built", calls |-> BuildCalls(run[r].plan, account.allowance),
                   standing |-> account.allowance]
  <2>1. run' = [run EXCEPT ![r] = q] /\ account' = account /\ config' = config
    BY <1>2 DEF Build, outside
  <2>2. RunOK(q)
    BY <1>2, BuiltIsSound DEF RunOK
  <2> HIDE DEF q
  <2> QED BY <1>0, <2>1, <2>2, RunStep
<1>3. CASE Execute(r)
  <2>1. account' \in ExecuteBatch(run[r].calls) /\ run' = [run EXCEPT ![r] = Idle] /\ config' = config
        /\ run[r].step = "built"
    BY <1>3 DEF Execute, outside
  <2>2. Sound(run[r].calls, run[r].standing)
    BY <2>1 DEF PlanInv, RunOK
  <2>3. AccountOK(account')
    BY <1>0, <2>1, <2>2, BatchReturns DEF Sound
  <2>4. RunOK(Idle)
    BY DEF RunOK, Idle
  <2> QED BY <2>1, <2>3, <2>4, RunStep
<1>4. CASE Fail(r)
  <2>1. run' = [run EXCEPT ![r] = Idle] /\ account' = account /\ config' = config
    BY <1>4 DEF Fail, outside
  <2>2. RunOK(Idle)
    BY DEF RunOK, Idle
  <2> QED BY <1>0, <2>1, <2>2, RunStep
<1>5. ASSUME NEW plan, run[r].step = "started", Plan(r, plan), account' = account, config' = config
      PROVE  PlanInv'
  <2> DEFINE q == [step |-> "planned", config |-> run[r].config, plan |-> plan]
  <2>1. run' = [run EXCEPT ![r] = q]
    BY <1>5 DEF Plan
  <2>2. RunOK(q)
    BY <1>5 DEF RunOK, PlanInv
  <2> HIDE DEF q
  <2> QED BY <1>0, <1>5, <2>1, <2>2, RunStep
<1>6. ASSUME NEW lost, LookForced(r, lost) PROVE PlanInv'
  BY <1>5, <1>6 DEF LookForced, outside
<1>7. ASSUME NEW lost, NEW proposal, LookFree(r, lost, proposal) PROVE PlanInv'
  <2> DEFINE plan == IF r = "cycle" /\ BorrowBlocked(run[r].config, lost)
                     THEN WithoutBorrows(proposal) ELSE proposal
  <2>1. run[r].step = "started" /\ Plan(r, plan) /\ account' = account /\ config' = config
    BY <1>7 DEF LookFree, outside
  <2> HIDE DEF plan
  <2> QED BY <1>5, <2>1
<1> QED BY <1>1, <1>2, <1>3, <1>4, <1>6, <1>7 DEF RunNext

\* What happens outside only ever lowers an allowance.
LEMMA PlanOutside ==
    ASSUME PlanInv, OutsideNext
    PROVE  PlanInv'
<1>1. run' = run
  BY DEF OutsideNext, SaveConfig, AuthorizeRunner, SetActive, RevokeApproval, PriceMoves,
         InterestAccrues, WindowEnds
<1>2. config'.policy \in Policies /\ DOMAIN config' = {"policy", "enabled", "guard"}
  <2>1. CASE \E policy \in Policies, enabled \in BOOLEAN : SaveConfig(policy, enabled)
    BY <2>1 DEF SaveConfig, PlanInv
  <2>2. CASE config' = config
    BY <2>2 DEF PlanInv
  <2> QED BY <2>1, <2>2 DEF OutsideNext, AuthorizeRunner, SetActive, RevokeApproval, PriceMoves,
         InterestAccrues, WindowEnds, outside
<1>3. AccountOK(account')
  <2>0. AccountOK(account)
    BY DEF PlanInv
  <2>1. CASE account' = account
    BY <2>0, <2>1
  <2>2. ASSUME NEW key \in AllowanceKeys, RevokeApproval(key) PROVE AccountOK(account')
    <3>1. account' = [account EXCEPT !.allowance[key] = 0]
      BY <2>2 DEF RevokeApproval
    <3>2. account'.allowance = [account.allowance EXCEPT ![key] = 0] /\ DOMAIN account' = DOMAIN account
      BY <2>0, <3>1 DEF AccountOK
    <3> QED BY <2>0, <3>2 DEF AccountOK, Allowances
  <2>3. ASSUME NEW a, InterestAccrues(a) PROVE AccountOK(account')
    <3>1. account' = [account EXCEPT !.debt[a] = @ + 1]
      BY <2>3 DEF InterestAccrues
    <3>2. account'.allowance = account.allowance /\ DOMAIN account' = DOMAIN account
      BY <2>0, <3>1 DEF AccountOK
    <3> QED BY <2>0, <3>2 DEF AccountOK
  <2>4. ASSUME NEW v, account' = [account EXCEPT !.spent = v] PROVE AccountOK(account')
    <3>1. account'.allowance = account.allowance /\ DOMAIN account' = DOMAIN account
      BY <2>0, <2>4 DEF AccountOK
    <3> QED BY <2>0, <3>1 DEF AccountOK
  <2>5. ASSUME AuthorizeRunner PROVE AccountOK(account')
    BY <2>4, <2>5 DEF AuthorizeRunner
  <2>6. ASSUME NEW k, WindowEnds(k) PROVE AccountOK(account')
    <3>1. account' = [account EXCEPT !.spent = [account.spent EXCEPT ![k] = 0]]
      BY <2>6 DEF WindowEnds
    <3> QED BY <2>4, <3>1
  <2> QED BY <2>1, <2>2, <2>3, <2>5, <2>6 DEF OutsideNext, SaveConfig, SetActive, PriceMoves
<1> QED BY <1>1, <1>2, <1>3 DEF PlanInv, RunOK, AccountOK

LEMMA PlanNext == PlanInv /\ [Next]_vars => PlanInv'
<1> SUFFICES ASSUME PlanInv, [Next]_vars PROVE PlanInv'
  OBVIOUS
<1>1. CASE \E r \in Runs : RunNext(r)
  BY <1>1, PlanRunNext
<1>2. CASE OutsideNext
  BY <1>2, PlanOutside
<1>3. CASE UNCHANGED vars
  BY <1>3 DEF vars, outside, PlanInv, RunOK, AccountOK
<1> QED BY <1>1, <1>2, <1>3 DEF Next

(* A batch never lacks an allowance unless a standing one it counted on    *)
(* has been lowered since (buildCalls and ensureBatchAllowance of the      *)
(* runner, the account's executeBatch).                                    *)
THEOREM BatchesFit == Spec => []BatchFits
<1>1. PlanInv => BatchFits
  <2> SUFFICES ASSUME PlanInv, NEW r \in Runs, run[r].step = "built",
                      \A key \in AllowanceKeys : account.allowance[key] >= run[r].standing[key]
               PROVE  Drawn(account.allowance, run[r].calls)[Len(run[r].calls)] # {}
    BY DEF BatchFits
  <2>1. account.allowance \in Allowances /\ AtLeast(account.allowance, run[r].standing)
    BY DEF PlanInv, AccountOK, AtLeast
  <2>2. Sound(run[r].calls, run[r].standing)
    BY DEF PlanInv, RunOK
  <2> QED BY <2>1, <2>2 DEF Sound
<1> QED BY <1>1, PlanInit, PlanNext, PTL DEF Spec

(* No batch leaves the pool or the router a larger allowance than they had *)
(* (trackCleanup of the runner).                                           *)
THEOREM NoAllowanceStays == Spec => AllowancesReturned
<1>1. PlanInv => \A r \in Runs : Execute(r) =>
            \A key \in AllowanceKeys : account'.allowance[key] <= account.allowance[key]
  <2> SUFFICES ASSUME PlanInv, NEW r \in Runs, Execute(r), NEW key \in AllowanceKeys
               PROVE  account'.allowance[key] <= account.allowance[key]
    OBVIOUS
  <2>1. account' \in ExecuteBatch(run[r].calls) /\ run[r].step = "built"
    BY DEF Execute
  <2>2. Sound(run[r].calls, run[r].standing) /\ AccountOK(account)
    BY <2>1 DEF PlanInv, RunOK
  <2>3. AccountOK(account') /\ AtLeast(account.allowance, account'.allowance)
    BY <2>1, <2>2, BatchReturns DEF Sound
  <2>4. account.allowance[key] \in Nat /\ account'.allowance[key] \in Nat
    BY <2>2, <2>3 DEF AccountOK, Allowances
  <2> QED BY <2>3, <2>4 DEF AtLeast
<1>2. PlanInv /\ [Next]_vars =>
        [\A r \in Runs : Execute(r) =>
            \A key \in AllowanceKeys : account'.allowance[key] <= account.allowance[key]]_vars
  BY <1>1
<1> QED BY <1>2, PlanInit, PlanNext, PTL DEF Spec, AllowancesReturned
=============================================================================
