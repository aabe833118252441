---------------------------- MODULE AgentAccessProofs ----------------------------
(***************************************************************************)
(* Theorems about AgentAccount and AgentAccess, for any owners, operators, *)
(* limits, requests, challenges and lifetimes: what counts was granted by  *)
(* the present owner, spending stays within the limits, a challenge works  *)
(* once, and who is served is entitled to it.                              *)
(***************************************************************************)
EXTENDS AgentAccess, FiniteSums

-----------------------------------------------------------------------------
(* The account: what is of the present epoch is of the present owner *)

\* An authorization w of the present epoch that counts has been granted.
OfPresentOwner(w, counts, o, what) ==
    /\ w.epoch \in Int /\ w.epoch <= epoch
    /\ w.epoch = epoch /\ counts => what \in granted[o]

Granted(o) ==
    /\ OfPresentOwner(permission[o], permission[o].allowed, o, "permission")
    /\ OfPresentOwner(limit[o], limit[o].duration > 0, o, "limit")
    /\ OfPresentOwner(spender[o], spender[o].allowed, o, "spender")
    /\ DOMAIN limit[o] = DOMAIN NoLimit
    /\ granted[o] \subseteq All

GrantTables ==
    /\ epoch \in Int
    /\ permission = [o \in Operators |-> permission[o]]
    /\ limit = [o \in Operators |-> limit[o]]
    /\ spender = [o \in Operators |-> spender[o]]
    /\ granted = [o \in Operators |-> granted[o]]

GrantInv == GrantTables /\ \A o \in Operators : Granted(o)

LEMMA GrantInit == Init => GrantInv
BY DEF Init, AccountInit, GrantInv, GrantTables, Granted, OfPresentOwner, NoPermission, NoLimit,
       NoSpender, Permission, Fresh, All

LEMMA GrantUnchanged == ASSUME GrantInv, UNCHANGED <<epoch, grantVars>> PROVE GrantInv'
BY DEF GrantInv, GrantTables, Granted, OfPresentOwner, grantVars

\* A write for one operator: the others keep theirs.
LEMMA GrantOne ==
    ASSUME GrantInv, NEW o \in Operators, NEW p, NEW l, NEW s, NEW g,
           permission' = [permission EXCEPT ![o] = p],
           limit' = [limit EXCEPT ![o] = l],
           spender' = [spender EXCEPT ![o] = s],
           granted' = [granted EXCEPT ![o] = g],
           UNCHANGED epoch,
           (p.epoch = epoch /\ "permission" \in g) \/ p = permission[o],
           (l.epoch = epoch /\ "limit" \in g) \/ l = limit[o],
           (s.epoch = epoch /\ "spender" \in g) \/ s = spender[o],
           DOMAIN l = DOMAIN NoLimit, granted[o] \subseteq g, g \subseteq All
    PROVE  GrantInv'
<1>1. GrantTables'
  BY DEF GrantInv, GrantTables
<1>2. ASSUME NEW q \in Operators, q # o PROVE Granted(q)'
  BY <1>2 DEF GrantInv, GrantTables, Granted, OfPresentOwner
<1>3. permission'[o] = p /\ limit'[o] = l /\ spender'[o] = s /\ granted'[o] = g /\ epoch \in Int
  BY DEF GrantInv, GrantTables
<1>4. Granted(o)
  BY DEF GrantInv
<1>5. OfPresentOwner(permission[o], permission[o].allowed, o, "permission")'
  BY <1>3, <1>4 DEF Granted, OfPresentOwner
<1>6. OfPresentOwner(limit[o], limit[o].duration > 0, o, "limit")'
  BY <1>3, <1>4 DEF Granted, OfPresentOwner
<1>7. OfPresentOwner(spender[o], spender[o].allowed, o, "spender")'
  BY <1>3, <1>4 DEF Granted, OfPresentOwner
<1>8. Granted(o)'
  BY <1>3, <1>5, <1>6, <1>7 DEF Granted
<1> QED BY <1>1, <1>2, <1>8 DEF GrantInv

LEMMA OwnerGrants == ASSUME GrantInv, OwnerNext PROVE GrantInv'
<1> USE DEF GrantInv, GrantTables
<1>1. ASSUME NEW to \in Owners, TransferOwnership(to) PROVE GrantInv'
  BY <1>1, GrantUnchanged DEF TransferOwnership
<1>2. CASE AcceptOwnership
  BY <1>2 DEF AcceptOwnership, Granted, OfPresentOwner
<1>3. ASSUME NEW on \in BOOLEAN, SetActive(on) PROVE GrantInv'
  BY <1>3, GrantUnchanged DEF SetActive
<1>4. ASSUME NEW o \in Operators, NEW on \in BOOLEAN, SetAgentOperator(o, on) PROVE GrantInv'
  BY <1>4, GrantUnchanged DEF SetAgentOperator
<1>5. ASSUME NEW o \in Operators, NEW on \in BOOLEAN, SetApprovalSpender(o, on)
      PROVE  GrantInv'
  <2> DEFINE p == permission[o]
             l == limit[o]
             s == [allowed |-> on, epoch |-> epoch]
             g == granted[o] \union {"spender"}
  <2>1. /\ permission' = [permission EXCEPT ![o] = p] /\ limit' = [limit EXCEPT ![o] = l]
        /\ spender' = [spender EXCEPT ![o] = s] /\ granted' = [granted EXCEPT ![o] = g]
        /\ UNCHANGED epoch
    BY <1>5 DEF SetApprovalSpender, WriteSpender, Granting
  <2>2. g \subseteq All /\ granted[o] \subseteq g /\ DOMAIN l = DOMAIN NoLimit
    BY DEF Granted, NoLimit, All, Fresh
  <2>3. /\ (p.epoch = epoch /\ "permission" \in g) \/ p = permission[o]
        /\ (l.epoch = epoch /\ "limit" \in g) \/ l = limit[o]
        /\ (s.epoch = epoch /\ "spender" \in g) \/ s = spender[o]
    BY DEF Permission, Fresh, All
  <2> HIDE DEF p, l, s, g
  <2> QED BY <2>1, <2>2, <2>3, GrantOne
<1>6. ASSUME NEW o \in Operators, NEW on \in BOOLEAN, NEW e \in Expiries, SetPermission(o, on, e)
      PROVE  GrantInv'
  <2> DEFINE p == Permission(on, e, epoch)
             l == limit[o]
             s == spender[o]
             g == granted[o] \union {"permission"}
  <2>1. /\ permission' = [permission EXCEPT ![o] = p] /\ limit' = [limit EXCEPT ![o] = l]
        /\ spender' = [spender EXCEPT ![o] = s] /\ granted' = [granted EXCEPT ![o] = g]
        /\ UNCHANGED epoch
    BY <1>6 DEF SetPermission, WritePermission, Granting
  <2>2. g \subseteq All /\ granted[o] \subseteq g /\ DOMAIN l = DOMAIN NoLimit
    BY DEF Granted, NoLimit, All, Fresh
  <2>3. /\ (p.epoch = epoch /\ "permission" \in g) \/ p = permission[o]
        /\ (l.epoch = epoch /\ "limit" \in g) \/ l = limit[o]
        /\ (s.epoch = epoch /\ "spender" \in g) \/ s = spender[o]
    BY DEF Permission, Fresh, All
  <2> HIDE DEF p, l, s, g
  <2> QED BY <2>1, <2>2, <2>3, GrantOne
<1>7. ASSUME NEW o \in Operators, NEW l0 \in Limits, SetFinancialLimit(o, l0)
      PROVE  GrantInv'
  <2> DEFINE p == permission[o]
             l == Fresh(l0, now, epoch)
             s == spender[o]
             g == granted[o] \union {"limit"}
  <2>1. /\ permission' = [permission EXCEPT ![o] = p] /\ limit' = [limit EXCEPT ![o] = l]
        /\ spender' = [spender EXCEPT ![o] = s] /\ granted' = [granted EXCEPT ![o] = g]
        /\ UNCHANGED epoch
    BY <1>7 DEF SetFinancialLimit, WriteLimit, Granting
  <2>2. g \subseteq All /\ granted[o] \subseteq g /\ DOMAIN l = DOMAIN NoLimit
    BY DEF Granted, NoLimit, All, Fresh
  <2>3. /\ (p.epoch = epoch /\ "permission" \in g) \/ p = permission[o]
        /\ (l.epoch = epoch /\ "limit" \in g) \/ l = limit[o]
        /\ (s.epoch = epoch /\ "spender" \in g) \/ s = spender[o]
    BY DEF Permission, Fresh, All
  <2> HIDE DEF p, l, s, g
  <2> QED BY <2>1, <2>2, <2>3, GrantOne
<1>8. ASSUME NEW o \in Operators, DeleteFinancialLimit(o) PROVE GrantInv'
  <2> DEFINE none == [NoLimit EXCEPT !.epoch = limit[o].epoch]
  <2>0. none.epoch = limit[o].epoch /\ ~(none.duration > 0) /\ DOMAIN none = DOMAIN NoLimit
    BY DEF NoLimit
  <2>1. /\ limit' = [limit EXCEPT ![o] = none]
        /\ UNCHANGED <<epoch, permission, spender, granted>>
    BY <1>8 DEF DeleteFinancialLimit
  <2> HIDE DEF none
  <2>2. GrantTables'
    BY <2>1
  <2>3. ASSUME NEW q \in Operators PROVE Granted(q)'
    <3>1. OfPresentOwner(limit[q], limit[q].duration > 0, q, "limit")' /\ DOMAIN limit'[q] = DOMAIN NoLimit
      <4>1. CASE q = o
        <5>1. limit'[q] = none
          BY <2>1, <4>1
        <5> QED BY <2>0, <2>1, <4>1, <5>1 DEF OfPresentOwner, Granted
      <4>2. CASE q # o
        <5>1. limit'[q] = limit[q]
          BY <2>1, <4>2
        <5> QED BY <2>1, <5>1 DEF OfPresentOwner, Granted
      <4> QED BY <4>1, <4>2
    <3> QED BY <2>1, <3>1 DEF Granted, OfPresentOwner
  <2> QED BY <2>2, <2>3
<1>9. ASSUME NEW o \in Operators, NEW e \in Expiries, NEW l0 \in Limits, ConfigureAuthorization(o, e, l0)
      PROVE  GrantInv'
  <2> DEFINE p == Permission(TRUE, e, epoch)
             l == Fresh(l0, now, epoch)
             s == [allowed |-> TRUE, epoch |-> epoch]
             g == granted[o] \union All
  <2>1. /\ permission' = [permission EXCEPT ![o] = p] /\ limit' = [limit EXCEPT ![o] = l]
        /\ spender' = [spender EXCEPT ![o] = s] /\ granted' = [granted EXCEPT ![o] = g]
        /\ UNCHANGED epoch
    BY <1>9 DEF ConfigureAuthorization, WritePermission, WriteLimit, WriteSpender, Granting
  <2>2. g \subseteq All /\ granted[o] \subseteq g /\ DOMAIN l = DOMAIN NoLimit
    BY DEF Granted, NoLimit, All, Fresh
  <2>3. /\ (p.epoch = epoch /\ "permission" \in g) \/ p = permission[o]
        /\ (l.epoch = epoch /\ "limit" \in g) \/ l = limit[o]
        /\ (s.epoch = epoch /\ "spender" \in g) \/ s = spender[o]
    BY DEF Permission, Fresh, All
  <2> HIDE DEF p, l, s, g
  <2> QED BY <2>1, <2>2, <2>3, GrantOne
<1> QED BY <1>1, <1>2, <1>3, <1>4, <1>5, <1>6, <1>7, <1>8, <1>9 DEF OwnerNext

\* A call needs all three authorizations of the present epoch.
LEMMA ExecuteGranted ==
    ASSUME GrantInv, NEW o \in Operators, NEW amounts \in Batches, Execute(o, amounts)
    PROVE  granted[o] = All /\ GrantInv'
<1>1. granted[o] = All
  BY DEF Execute, CanExecute, GrantInv, Granted, OfPresentOwner, All
<1> DEFINE l == [Window(limit[o]) EXCEPT !.spent = @ + Total(amounts)]
<1>2. /\ limit' = [limit EXCEPT ![o] = l]
      /\ UNCHANGED <<epoch, permission, spender, granted>>
  BY DEF Execute
<1>3. l.epoch = limit[o].epoch /\ l.duration = limit[o].duration /\ DOMAIN l = DOMAIN limit[o]
  BY DEF GrantInv, Granted, Window, NoLimit
<1> HIDE DEF l
<1>4. GrantInv'
  BY <1>2, <1>3 DEF GrantInv, GrantTables, Granted, OfPresentOwner
<1> QED BY <1>1, <1>4

LEMMA GrantNext == ASSUME GrantInv, [Next]_vars PROVE GrantInv'
<1>1. CASE UNCHANGED chainVars
  BY <1>1, GrantUnchanged DEF chainVars
<1>2. CASE AccountNext
  <2>1. CASE Tick
    BY <2>1, GrantUnchanged DEF Tick
  <2> QED BY <1>2, <2>1, OwnerGrants, ExecuteGranted DEF AccountNext
<1> QED BY <1>1, <1>2 DEF Next, vars, accountVars

(* Every call an operator executes was allowed, limited and directed by the *)
(* present owner since he accepted the account.                             *)
THEOREM OnlyPresentOwnerGrants == Spec => PresentOwnerGranted
<1>1. GrantInv /\ [Next]_vars => GrantInv'
  BY GrantNext
<1>2. GrantInv =>
        [\A o \in Operators, amounts \in Batches : Execute(o, amounts) => granted[o] = All]_accountVars
  BY ExecuteGranted
<1> QED BY GrantInit, <1>1, <1>2, PTL DEF Spec, PresentOwnerGranted

-----------------------------------------------------------------------------
(* Limits: what two windows may spend *)

\* What was spent from a on and before b.
Between(s, a, b) == SumFunctionOnSet(s, {t \in 0 .. MaxTime : a <= t /\ t < b})

LEMMA TimesFinite == ASSUME NEW S \in SUBSET (0 .. MaxTime) PROVE IsFiniteSet(S)
<1>1. IsFiniteSet(0 .. MaxTime)
  BY AccountAssumption, FS_Interval
<1> QED BY <1>1, FS_Subset

LEMMA BetweenNat ==
    ASSUME NEW s \in [0 .. MaxTime -> Nat], NEW a \in Int, NEW b \in Int
    PROVE  Between(s, a, b) \in Nat
<1> DEFINE S == {t \in 0 .. MaxTime : a <= t /\ t < b}
<1>1. IsFiniteSet(S)
  BY TimesFinite
<1>2. \A t \in S : s[t] \in Nat
  OBVIOUS
<1> HIDE DEF S
<1>3. SumFunctionOnSet(s, S) \in Nat
  BY <1>1, <1>2, SumNat
<1> QED BY <1>3 DEF Between, S

\* A longer period has seen no less.
LEMMA BetweenGrows ==
    ASSUME NEW s \in [0 .. MaxTime -> Nat], NEW a \in Int, NEW b \in Int,
           NEW c \in Int, NEW d \in Int, c <= a, b <= d
    PROVE  Between(s, a, b) <= Between(s, c, d)
<1> DEFINE S == {t \in 0 .. MaxTime : a <= t /\ t < b}
           T == {t \in 0 .. MaxTime : c <= t /\ t < d}
<1>1. IsFiniteSet(T)
  BY TimesFinite
<1>2. S \in SUBSET T /\ \A t \in T : s[t] \in Nat
  OBVIOUS
<1> HIDE DEF S, T
<1>3. SumFunctionOnSet(s, S) <= SumFunctionOnSet(s, T)
  BY <1>1, <1>2, SumSubset
<1> QED BY <1>3 DEF Between, S, T

\* Two periods, one after the other.
LEMMA BetweenSplit ==
    ASSUME NEW s \in [0 .. MaxTime -> Nat], NEW a \in Int, NEW b \in Int, NEW c \in Int,
           a <= b, b <= c
    PROVE  Between(s, a, c) = Between(s, a, b) + Between(s, b, c)
<1> DEFINE S == {t \in 0 .. MaxTime : a <= t /\ t < c}
           T == {t \in 0 .. MaxTime : a <= t /\ t < b}
           U == {t \in 0 .. MaxTime : b <= t /\ t < c}
<1>1. IsFiniteSet(S)
  BY TimesFinite
<1>2. S \cap T = T /\ S \ T = U /\ \A t \in S : s[t] \in Int
  OBVIOUS
<1> HIDE DEF S, T, U
<1>3. SumFunctionOnSet(s, S) = SumFunctionOnSet(s, T) + SumFunctionOnSet(s, U)
  BY <1>1, <1>2, SumSplit
<1> QED BY <1>3 DEF Between, S, T, U

\* Nothing was spent in it.
LEMMA BetweenNothing ==
    ASSUME NEW s, NEW a \in Int, NEW b \in Int,
           \A t \in 0 .. MaxTime : a <= t /\ t < b => s[t] = 0
    PROVE  Between(s, a, b) = 0
<1> DEFINE S == {t \in 0 .. MaxTime : a <= t /\ t < b}
<1>1. IsFiniteSet(S)
  BY TimesFinite
<1>2. \A t \in S : s[t] = 0
  OBVIOUS
<1> HIDE DEF S
<1>3. SumFunctionOnSet(s, S) = 0
  BY <1>1, <1>2, SumZero
<1> QED BY <1>3 DEF Between, S

\* Only what was spent in it counts.
LEMMA BetweenSame ==
    ASSUME NEW s, NEW g, NEW a \in Int, NEW b \in Int,
           \A t \in 0 .. MaxTime : a <= t /\ t < b => g[t] = s[t]
    PROVE  Between(g, a, b) = Between(s, a, b)
<1> DEFINE S == {t \in 0 .. MaxTime : a <= t /\ t < b}
<1>1. IsFiniteSet(S)
  BY TimesFinite
<1>2. \A t \in S : g[t] = s[t]
  OBVIOUS
<1> HIDE DEF S
<1>3. SumFunctionOnSet(g, S) = SumFunctionOnSet(s, S)
  BY <1>1, <1>2, SumCong
<1> QED BY <1>3 DEF Between, S

\* The payments s and one more, of x at n.
PaidAt(n, x, s, g) == g = [s EXCEPT ![n] = s[n] + x]

LEMMA BetweenPaid ==
    ASSUME NEW s \in [0 .. MaxTime -> Nat], NEW n \in 0 .. MaxTime, NEW x \in Nat,
           NEW g, PaidAt(n, x, s, g),
           NEW a \in Int, NEW b \in Int, a <= n, n < b
    PROVE  Between(g, a, b) = Between(s, a, b) + x
<1> DEFINE S == {t \in 0 .. MaxTime : a <= t /\ t < b}
<1>1. IsFiniteSet(S) /\ n \in S
  BY TimesFinite
<1>2. /\ \A t \in S : s[t] \in Int /\ g[t] \in Int
      /\ \A t \in S \ {n} : g[t] = s[t]
  BY DEF PaidAt
<1>6. g[n] = s[n] + x /\ s[n] \in Int
  BY DEF PaidAt
<1> HIDE DEF S
<1>3. SumFunctionOnSet(s, S) \in Int
  BY <1>1, <1>2, SumInt
<1>4. SumFunctionOnSet(g, S) = SumFunctionOnSet(s, S) - s[n] + g[n]
  BY ZenonT(40), <1>1, <1>2, SumUpdate
<1>5. SumFunctionOnSet(g, S) = SumFunctionOnSet(s, S) + x
  BY <1>3, <1>4, <1>6
<1> QED BY <1>5 DEF Between, S

\* The window l and the payments s: those of the present window are l.spent,
\* the window before it was within the limit, as was any period before, twice.
Windows(l, s) ==
    /\ \A t \in 0 .. MaxTime : t > now \/ t >= l.start + l.duration => s[t] = 0
    /\ Between(s, l.start, MaxTime + 1) = l.spent
    /\ Between(s, l.start - l.duration, l.start) <= l.perWindow
    /\ \A from \in 0 .. MaxTime :
        from + l.duration <= l.start => Between(s, from, from + l.duration) <= 2 * l.perWindow

LimitOK(l) ==
    /\ DOMAIN l = DOMAIN NoLimit
    /\ l.perWindow \in Nat /\ l.duration \in Nat
    /\ l.start \in Nat /\ l.start <= now
    /\ l.spent \in Nat /\ l.spent <= l.perWindow

Limited(o) ==
    /\ LimitOK(limit[o])
    /\ spentAt[o] \in [0 .. MaxTime -> Nat]
    /\ limit[o].duration > 0 => Windows(limit[o], spentAt[o])

LimitInv ==
    /\ now \in 0 .. MaxTime
    /\ limit = [o \in Operators |-> limit[o]]
    /\ spentAt = [o \in Operators |-> spentAt[o]]
    /\ \A o \in Operators : Limited(o)

\* Any period of the length of the window.
LEMMA TwiceTheLimit ==
    ASSUME now \in 0 .. MaxTime, NEW l, LimitOK(l), NEW s \in [0 .. MaxTime -> Nat],
           Windows(l, s), NEW from \in 0 .. MaxTime
    PROVE  Between(s, from, from + l.duration) <= 2 * l.perWindow
<1> DEFINE d == l.duration
           p == l.perWindow
           b == l.start
<1>1. d \in Nat /\ p \in Nat /\ b \in Nat /\ MaxTime \in Nat /\ b <= MaxTime
  BY AccountAssumption DEF LimitOK
<1>2. Between(s, b - d, b) <= p /\ Between(s, b, MaxTime + 1) <= p
  BY DEF Windows, LimitOK
<1>3. CASE from + d <= b
  BY <1>3 DEF Windows
<1>4. CASE ~(from + d <= b)
  <2> HIDE DEF d, p, b
  <2> DEFINE e == MaxTime + 1 + from + d
  <2>1. e \in Int /\ e > MaxTime /\ e >= from + d /\ e >= b
    BY <1>1
  <2> HIDE DEF e
  <2>2. Between(s, from, from + d) <= Between(s, b - d, e)
    BY <1>1, <1>4, <2>1, BetweenGrows
  <2>3. Between(s, b - d, e) = Between(s, b - d, b) + Between(s, b, e)
    BY <1>1, <1>4, <2>1, BetweenSplit
  <2>4. Between(s, b, e) = Between(s, b, MaxTime + 1)
    <3>1. {t \in 0 .. MaxTime : b <= t /\ t < e} = {t \in 0 .. MaxTime : b <= t /\ t < MaxTime + 1}
      BY <1>1, <2>1
    <3> QED BY <3>1 DEF Between
  <2>5. /\ Between(s, from, from + d) \in Nat /\ Between(s, b - d, b) \in Nat
        /\ Between(s, b, MaxTime + 1) \in Nat
    BY <1>1, BetweenNat
  <2>6. Between(s, from, from + d) <= 2 * p
    BY <1>1, <1>2, <2>2, <2>3, <2>4, <2>5
  <2> QED BY <2>6 DEF d, p, b
<1> QED BY <1>3, <1>4

\* A limit just written, of which nothing has been spent.
LEMMA FreshWindow ==
    ASSUME now \in 0 .. MaxTime, NEW l \in Limits, NEW e
    PROVE  /\ LimitOK(Fresh(l, now, e)) /\ Unspent \in [0 .. MaxTime -> Nat]
           /\ Windows(Fresh(l, now, e), Unspent)
<1> DEFINE f == Fresh(l, now, e)
<1>1. LimitOK(f) /\ f.duration > 0
  BY AccountAssumption DEF LimitOK, Fresh, NoLimit
<1>2. f.spent = 0
  BY DEF Fresh
<1>3. \A a \in Int, b \in Int : Between(Unspent, a, b) = 0
  BY BetweenNothing DEF Unspent
<1> HIDE DEF f
<1>4. Windows(f, Unspent)
  <2>1. /\ f.start \in Int /\ f.duration \in Int /\ f.perWindow \in Nat /\ MaxTime \in Nat
        /\ f.start - f.duration \in Int /\ MaxTime + 1 \in Int
        /\ \A from \in 0 .. MaxTime : from \in Int /\ from + f.duration \in Int
    BY <1>1, AccountAssumption DEF LimitOK
  <2>2. \A t \in 0 .. MaxTime : Unspent[t] = 0
    BY DEF Unspent
  <2> QED BY <1>2, <1>3, <2>1, <2>2 DEF Windows
<1> QED BY <1>1, <1>4 DEF f, Unspent

LEMMA LimitInit == Init => LimitInv
<1> SUFFICES ASSUME Init PROVE LimitInv
  OBVIOUS
<1>1. now = 0 /\ now \in 0 .. MaxTime /\ spentAt = [o \in Operators |-> Unspent]
  BY AccountAssumption DEF Init, AccountInit
<1>2. Unspent \in [0 .. MaxTime -> Nat]
  BY DEF Unspent
<1>3. LimitOK(NoLimit) /\ ~(NoLimit.duration > 0)
  BY <1>1 DEF LimitOK, NoLimit
<1>4. \/ limit = [o \in Operators |-> NoLimit]
      \/ \E l \in Limits :
            limit = [o \in Operators |-> IF o \in operators THEN Fresh(l, now, 0) ELSE NoLimit]
  <2> USE DEF Init, AccountInit
  <2>1. CASE limit = [o \in Operators |-> NoLimit]
    BY <2>1
  <2>2. CASE limit # [o \in Operators |-> NoLimit]
    <3>1. PICK l \in Limits :
            limit = [o \in Operators |-> IF o \in operators THEN Fresh(l, 0, 0) ELSE NoLimit]
      BY <2>2, Zenon
    <3> QED BY <1>1, <3>1
  <2> QED BY <2>1, <2>2
<1>5. limit = [o \in Operators |-> limit[o]]
  BY <1>4
<1>6. ASSUME NEW o \in Operators PROVE Limited(o)
  BY <1>1, <1>2, <1>3, <1>4, FreshWindow DEF Limited
<1> QED BY <1>1, <1>5, <1>6 DEF LimitInv

\* Time goes by, or nothing of it changes.
LEMMA LimitKept ==
    ASSUME LimitInv, UNCHANGED <<limit, spentAt>>, now' \in 0 .. MaxTime, now <= now'
    PROVE  LimitInv'
<1>1. ASSUME NEW o \in Operators PROVE Limited(o)'
  <2>1. Limited(o)
    BY DEF LimitInv
  <2>2. LimitOK(limit[o])'
    BY <2>1, AccountAssumption DEF LimitInv, Limited, LimitOK
  <2>3. Windows(limit[o], spentAt[o]) => Windows(limit[o], spentAt[o])'
    BY AccountAssumption DEF LimitInv, Windows
  <2> QED BY <2>1, <2>2, <2>3 DEF Limited
<1> QED BY <1>1 DEF LimitInv

\* Another limit for one operator.
LEMMA LimitOne ==
    ASSUME LimitInv, NEW o \in Operators, NEW l, NEW s, UNCHANGED now,
           limit' = [limit EXCEPT ![o] = l], spentAt' = [spentAt EXCEPT ![o] = s],
           LimitOK(l), s \in [0 .. MaxTime -> Nat], l.duration > 0 => Windows(l, s)
    PROVE  LimitInv'
<1>1. ASSUME NEW q \in Operators PROVE Limited(q)'
  <2>1. CASE q = o
    <3>1. limit'[q] = l /\ spentAt'[q] = s
      BY <2>1 DEF LimitInv
    <3> QED BY <3>1 DEF Limited, LimitOK, Windows
  <2>2. CASE q # o
    <3>1. limit'[q] = limit[q] /\ spentAt'[q] = spentAt[q] /\ Limited(q)
      BY <2>2 DEF LimitInv
    <3> QED BY <3>1 DEF Limited, LimitOK, Windows
  <2> QED BY <2>1, <2>2
<1>2. /\ limit' = [q \in Operators |-> limit'[q]] /\ spentAt' = [q \in Operators |-> spentAt'[q]]
      /\ (now \in 0 .. MaxTime)'
  BY DEF LimitInv
<1> QED BY <1>1, <1>2 DEF LimitInv

\* A limit written for an operator: a window that begins now.
LEMMA LimitWritten ==
    ASSUME LimitInv, NEW o \in Operators, NEW l \in Limits, WriteLimit(o, l), UNCHANGED now
    PROVE  LimitInv'
<1>1. now \in 0 .. MaxTime
  BY DEF LimitInv
<1>2. /\ LimitOK(Fresh(l, now, epoch)) /\ Unspent \in [0 .. MaxTime -> Nat]
      /\ Windows(Fresh(l, now, epoch), Unspent)
  BY <1>1, FreshWindow
<1> QED BY <1>2, LimitOne DEF WriteLimit

\* A batch within the window: what it spends is added to it.
LEMMA WindowSpends ==
    ASSUME now \in 0 .. MaxTime, NEW l, LimitOK(l), NEW s \in [0 .. MaxTime -> Nat],
           Windows(l, s), l.duration > 0, now < l.start + l.duration,
           NEW x \in Nat, x <= l.perWindow - l.spent,
           NEW g, PaidAt(now, x, s, g),
           NEW m, m = [l EXCEPT !.spent = l.spent + x]
    PROVE  LimitOK(m) /\ g \in [0 .. MaxTime -> Nat] /\ Windows(m, g)
<1>1. /\ m.perWindow = l.perWindow /\ m.duration = l.duration /\ m.start = l.start
      /\ m.spent = l.spent + x /\ DOMAIN m = DOMAIN NoLimit
  BY DEF LimitOK, NoLimit
<1>2. LimitOK(m) /\ g \in [0 .. MaxTime -> Nat]
  BY SMTT(30), <1>1 DEF LimitOK, PaidAt
<1>3. /\ l.start \in Nat /\ l.duration \in Nat /\ l.perWindow \in Nat /\ MaxTime \in Nat /\ now \in Nat
      /\ l.start <= now
  BY AccountAssumption DEF LimitOK
<1>9. \A t \in (0 .. MaxTime) \ {now} : g[t] = s[t]
  BY DEF PaidAt
<1>4. \A t \in 0 .. MaxTime : t > now \/ t >= l.start + l.duration => g[t] = 0
  <2> SUFFICES ASSUME NEW t \in 0 .. MaxTime, t > now \/ t >= l.start + l.duration
               PROVE  g[t] = 0
    OBVIOUS
  <2>1. t # now
    BY <1>3
  <2>2. s[t] = 0
    BY DEF Windows
  <2> QED BY <1>9, <2>1, <2>2
<1>5. Between(g, l.start, MaxTime + 1) = l.spent + x
  <2>1. Between(s, l.start, MaxTime + 1) = l.spent
    BY DEF Windows
  <2> DEFINE a == l.start
             b == MaxTime + 1
  <2>2. a <= now /\ now < b /\ a \in Int /\ b \in Int
    BY <1>3
  <2> HIDE DEF a, b
  <2>3. Between(g, a, b) = Between(s, a, b) + x
    BY <2>2, BetweenPaid
  <2> QED BY <2>1, <2>3 DEF a, b
<1>6. Between(g, l.start - l.duration, l.start) <= l.perWindow
  <2> DEFINE a == l.start - l.duration
             b == l.start
  <2>1. ~(now < b) /\ a \in Int /\ b \in Int
    BY <1>3
  <2>2. Between(s, a, b) <= l.perWindow
    BY DEF Windows
  <2> HIDE DEF a, b
  <2>3. \A t \in 0 .. MaxTime : a <= t /\ t < b => g[t] = s[t]
    BY <1>3, <1>9, <2>1
  <2>4. Between(g, a, b) <= l.perWindow
    BY <2>1, <2>2, <2>3, BetweenSame
  <2> QED BY <2>4 DEF a, b
<1>7. ASSUME NEW from \in 0 .. MaxTime, from + l.duration <= l.start
      PROVE  Between(g, from, from + l.duration) <= 2 * l.perWindow
  <2> DEFINE b == from + l.duration
             p == 2 * l.perWindow
  <2>1. ~(now < b) /\ from \in Int /\ b \in Int /\ p \in Int
    BY SMTT(30), <1>3, <1>7
  <2>2. Between(s, from, b) <= p
    BY <1>7 DEF Windows
  <2> HIDE DEF b, p
  <2>3. \A t \in 0 .. MaxTime : from <= t /\ t < b => g[t] = s[t]
    BY <1>3, <1>9, <2>1
  <2>4. Between(g, from, b) <= p
    BY ZenonT(40), <2>1, <2>2, <2>3, BetweenSame
  <2> QED BY <2>4 DEF b, p
<1>8. Windows(m, g)
  BY <1>1, <1>4, <1>5, <1>6, <1>7 DEF Windows
<1> QED BY <1>2, <1>8

\* A window that is over is replaced: the periods before the new one are those
\* that met two windows, or fewer.
LEMMA WindowReplaced ==
    ASSUME now \in 0 .. MaxTime, NEW l, LimitOK(l), NEW s \in [0 .. MaxTime -> Nat],
           Windows(l, s), l.duration > 0, now >= l.start + l.duration,
           NEW m, m = [l EXCEPT !.start = now, !.spent = 0]
    PROVE  LimitOK(m) /\ Windows(m, s)
<1>1. /\ m.perWindow = l.perWindow /\ m.duration = l.duration /\ m.start = now
      /\ m.spent = 0 /\ DOMAIN m = DOMAIN NoLimit
  BY DEF LimitOK, NoLimit
<1>2. LimitOK(m)
  BY <1>1 DEF LimitOK
<1>3. /\ l.start \in Nat /\ l.duration \in Nat /\ l.perWindow \in Nat /\ MaxTime \in Nat /\ now \in Nat
      /\ l.start <= now
  BY AccountAssumption DEF LimitOK
<1>4. \A t \in 0 .. MaxTime : t > now \/ t >= now + l.duration => s[t] = 0
  BY <1>3 DEF Windows
<1>5. Between(s, now, MaxTime + 1) = 0
  <2>1. \A t \in 0 .. MaxTime : now <= t /\ t < MaxTime + 1 => s[t] = 0
    BY <1>3 DEF Windows
  <2>2. now \in Int /\ MaxTime + 1 \in Int
    BY <1>3
  <2> QED BY <2>1, <2>2, BetweenNothing
<1>6. Between(s, now - l.duration, now) <= l.perWindow
  <2> DEFINE a == now - l.duration
             b == l.start
             e == MaxTime + 1
  <2>1. a \in Int /\ b \in Int /\ e \in Int /\ b <= a /\ now <= e /\ now \in Int
    BY <1>3
  <2>2. Between(s, b, e) = l.spent /\ l.spent <= l.perWindow /\ l.spent \in Nat
    BY DEF Windows, LimitOK
  <2> HIDE DEF a, b, e
  <2>3. Between(s, a, now) <= Between(s, b, e) /\ Between(s, a, now) \in Nat
    BY <2>1, BetweenGrows, BetweenNat
  <2>4. Between(s, a, now) <= l.perWindow
    BY <1>3, <2>2, <2>3
  <2> QED BY <2>4 DEF a
<1>7. \A from \in 0 .. MaxTime :
        from + l.duration <= now => Between(s, from, from + l.duration) <= 2 * l.perWindow
  BY TwiceTheLimit
<1>8. Windows(m, s)
  BY <1>1, <1>4, <1>5, <1>6, <1>7 DEF Windows
<1> QED BY <1>2, <1>8

LEMMA TotalNat == ASSUME NEW amounts \in Batches PROVE Total(amounts) \in Nat
<1>1. amounts \in Seq(Nat)
  BY AccountAssumption
<1>2. amounts \in [1 .. Len(amounts) -> Nat] /\ Len(amounts) \in Nat
  BY <1>1
<1>3. IsFiniteSet(1 .. Len(amounts))
  BY <1>2, FS_Interval
<1> QED BY <1>2, <1>3, SumFunctionNat DEF Total

LEMMA LimitExecute ==
    ASSUME LimitInv, NEW o \in Operators, NEW amounts \in Batches, Execute(o, amounts)
    PROVE  LimitInv'
<1> DEFINE l == limit[o]
           w == Window(l)
           x == Total(amounts)
           m == [w EXCEPT !.spent = w.spent + x]
           s == spentAt[o]
           g == [s EXCEPT ![now] = s[now] + x]
<1>1. /\ LimitOK(l) /\ s \in [0 .. MaxTime -> Nat] /\ Windows(l, s) /\ l.duration > 0
      /\ now \in 0 .. MaxTime
  BY DEF LimitInv, Limited, Execute
<1>2. x \in Nat
  BY TotalNat
<1>3. x <= w.perWindow - w.spent
  BY DEF Execute, WithinLimit
<1>4. limit' = [limit EXCEPT ![o] = m] /\ spentAt' = [spentAt EXCEPT ![o] = g] /\ UNCHANGED now
  BY DEF Execute, LimitInv
<1>5. LimitOK(w) /\ Windows(w, s) /\ w.duration > 0 /\ now < w.start + w.duration
  <2>1. CASE now >= l.start + l.duration
    <3>1. w = [l EXCEPT !.start = now, !.spent = 0]
      BY <2>1 DEF Window
    <3>2. w.start = now /\ w.duration = l.duration /\ l.duration \in Nat
      BY <1>1, <3>1 DEF LimitOK, NoLimit
    <3> HIDE DEF w, l, s
    <3>3. LimitOK(w) /\ Windows(w, s)
      BY <1>1, <2>1, <3>1, WindowReplaced
    <3> QED BY <1>1, <3>2, <3>3
  <2>2. CASE ~(now >= l.start + l.duration)
    <3>1. w = l
      BY <2>2 DEF Window
    <3> QED BY <1>1, <2>2, <3>1 DEF LimitOK
  <2> QED BY <2>1, <2>2
<1> HIDE DEF l, w, x, m, s, g
<1>6. LimitOK(m) /\ g \in [0 .. MaxTime -> Nat] /\ Windows(m, g)
  BY <1>1, <1>2, <1>3, <1>5, WindowSpends DEF m, g, PaidAt
<1> QED BY <1>4, <1>6, LimitOne

LEMMA LimitOwner == ASSUME LimitInv, OwnerNext PROVE LimitInv'
<1>0. now \in 0 .. MaxTime /\ now <= now
  BY AccountAssumption DEF LimitInv
<1>1. CASE UNCHANGED <<now, limit, spentAt>>
  BY <1>0, <1>1, LimitKept
<1>2. ASSUME NEW o \in Operators, NEW l \in Limits, SetFinancialLimit(o, l) PROVE LimitInv'
  BY <1>2, LimitWritten DEF SetFinancialLimit
<1>3. ASSUME NEW o \in Operators, NEW e \in Expiries, NEW l \in Limits, ConfigureAuthorization(o, e, l)
      PROVE  LimitInv'
  BY <1>3, LimitWritten DEF ConfigureAuthorization
<1>4. ASSUME NEW o \in Operators, DeleteFinancialLimit(o) PROVE LimitInv'
  <2> DEFINE l == [NoLimit EXCEPT !.epoch = limit[o].epoch]
  <2>1. LimitOK(l) /\ ~(l.duration > 0)
    BY <1>0, AccountAssumption DEF LimitOK, NoLimit
  <2>2. spentAt' = [spentAt EXCEPT ![o] = spentAt[o]] /\ spentAt[o] \in [0 .. MaxTime -> Nat]
    BY <1>4 DEF DeleteFinancialLimit, LimitInv, Limited
  <2>3. limit' = [limit EXCEPT ![o] = l] /\ UNCHANGED now
    BY <1>4 DEF DeleteFinancialLimit
  <2> HIDE DEF l
  <2> QED BY <2>1, <2>2, <2>3, LimitOne
<1> QED
  BY <1>1, <1>2, <1>3, <1>4 DEF OwnerNext, TransferOwnership, AcceptOwnership, SetActive,
     SetAgentOperator, SetApprovalSpender, SetPermission, grantVars

LEMMA LimitNext == ASSUME LimitInv, [Next]_vars PROVE LimitInv'
<1>0. now \in 0 .. MaxTime /\ now <= now
  BY AccountAssumption DEF LimitInv
<1>1. CASE UNCHANGED chainVars
  BY <1>0, <1>1, LimitKept DEF chainVars, grantVars
<1>2. CASE AccountNext
  <2>1. CASE Tick
    <3>1. now' \in 0 .. MaxTime /\ now <= now'
      BY <1>0, <2>1, AccountAssumption DEF Tick
    <3> QED BY <2>1, <3>1, LimitKept DEF Tick, grantVars
  <2> QED BY <1>2, <2>1, LimitOwner, LimitExecute DEF AccountNext
<1> QED BY <1>1, <1>2 DEF Next, vars, accountVars

(* No period as long as the window of a limit sees more than twice the     *)
(* limit spent, whatever batches operators send and when, and however      *)
(* often the owner changes, deletes and renews the limit.                  *)
THEOREM LimitsHold == Spec => []SpentWithinWindow
<1>1. LimitInv /\ [Next]_vars => LimitInv'
  BY LimitNext
<1>2. LimitInv => SpentWithinWindow
  <2> SUFFICES ASSUME LimitInv, NEW o \in Operators, NEW from \in 0 .. MaxTime
               PROVE  Between(spentAt[o], from, from + limit[o].duration) <= 2 * limit[o].perWindow
    BY DEF SpentWithinWindow, Between
  <2>1. LimitOK(limit[o]) /\ spentAt[o] \in [0 .. MaxTime -> Nat]
    BY DEF LimitInv, Limited
  <2>2. CASE limit[o].duration > 0
    BY <2>1, <2>2, TwiceTheLimit DEF LimitInv, Limited
  <2>3. CASE ~(limit[o].duration > 0)
    <3>1. limit[o].duration = 0 /\ limit[o].perWindow \in Nat
      BY <2>1, <2>3 DEF LimitOK
    <3>2. Between(spentAt[o], from, from + limit[o].duration) = 0
      BY <3>1, BetweenNothing
    <3> QED BY <3>1, <3>2
  <2> QED BY <2>2, <2>3
<1> QED BY LimitInit, <1>1, <1>2, PTL DEF Spec

-----------------------------------------------------------------------------
(* Requests *)

SessionKinds == {"session check", "register"}
Kinds == Actions \union SessionKinds \union TokenKinds \union {"permission"}

\* A running request is a record with the fields of its kind.
RequestOK(q) ==
    /\ q.step \in {"new", "read", "effect", "ok", "failed"}
    /\ q.step \in {"read", "effect"} =>
        /\ q.kind \in Kinds
        /\ {"step", "kind", "reads", "owner"} \subseteq DOMAIN q
        /\ q.kind \in Actions => {"challenge", "began"} \subseteq DOMAIN q
        /\ q.kind \in SessionKinds => "session" \in DOMAIN q
        /\ q.kind \in TokenKinds \union {"permission"} => "operator" \in DOMAIN q
    /\ q.step = "effect" => q.kind \in Actions

Requesting ==
    /\ request = [r \in Requests |-> request[r]]
    /\ \A r \in Requests : RequestOK(request[r])

LEMMA RequestingInit == Init => Requesting
BY DEF Init, Requesting, RequestOK

LEMMA RequestOne ==
    ASSUME Requesting, NEW r \in Requests, NEW q, RequestOK(q),
           request' = [request EXCEPT ![r] = q]
    PROVE  Requesting'
BY DEF Requesting

\* What a step of request r may make of it.
Becomes(r, q) ==
    LET old == request[r]
    IN  \/ \E fact \in old.reads :      \* Read
              /\ old.step = "read" /\ Holds(old, fact)
              /\ q = [old EXCEPT !.reads = old.reads \ {fact}]
        \/ /\ AllRead(r) /\ old.kind \in Actions
           /\ q = [old EXCEPT !.step = "effect"]
        \/ /\ AllRead(r) /\ old.kind = "session check"
           /\ q = [old EXCEPT !.kind = "register", !.reads = {"owner"}]
        \/ /\ AllRead(r) /\ old.kind = "prepare"
           /\ q = [old EXCEPT !.kind = "permission", !.reads = {"permitted"}]
        \/ /\ AllRead(r) \/ old.step = "effect"
           /\ q = [step |-> "ok", kind |-> old.kind]
        \/ /\ q = [step |-> "failed", kind |-> old.kind]

LEMMA GoesBecomes ==
    ASSUME Requesting, NEW r \in Requests, Goes(r)
    PROVE  \E q : Becomes(r, q) /\ request' = [request EXCEPT ![r] = q]
<1> USE DEF Requesting, Becomes, Step, AllRead, End
<1>1. ASSUME NEW fact \in Facts \union {"permitted"}, Read(r, fact)
      PROVE  \E q : Becomes(r, q) /\ request' = [request EXCEPT ![r] = q]
  BY <1>1 DEF Read
<1>2. CASE ConsumeNonce(r)
  BY <1>2 DEF ConsumeNonce, Goto
<1>3. CASE IssueOwnerSession(r)
  BY <1>3 DEF IssueOwnerSession
<1>4. ASSUME NEW step \in {"ok", "failed"}, CreateKey(r, step)
      PROVE  \E q : Becomes(r, q) /\ request' = [request EXCEPT ![r] = q]
  BY <1>4 DEF CreateKey
<1>5. CASE SessionChecked(r)
  BY <1>5 DEF SessionChecked
<1>6. CASE LiveOperator(r)
  BY <1>6 DEF LiveOperator
<1>7. CASE UpsertAgent(r) \/ IssueToken(r) \/ Served(r)
  BY <1>7 DEF UpsertAgent, IssueToken, Served
<1>8. CASE Fail(r)
  BY <1>8 DEF Fail
<1> QED BY <1>1, <1>2, <1>3, <1>4, <1>5, <1>6, <1>7, <1>8 DEF Goes

LEMMA BecomesOK ==
    ASSUME Requesting, NEW r \in Requests, NEW q, Becomes(r, q)
    PROVE  RequestOK(q)
<1> DEFINE old == request[r]
<1>1. RequestOK(old)
  BY DEF Requesting
<1>2. ASSUME NEW fact, old.step = "read", q = [old EXCEPT !.reads = old.reads \ {fact}]
      PROVE  RequestOK(q)
  BY <1>1, <1>2 DEF RequestOK
<1>3. ASSUME old.step = "read", old.kind \in Actions, q = [old EXCEPT !.step = "effect"]
      PROVE  RequestOK(q)
  BY <1>1, <1>3 DEF RequestOK, Kinds
<1>4. ASSUME old.step = "read", old.kind = "session check",
             q = [old EXCEPT !.kind = "register", !.reads = {"owner"}]
      PROVE  RequestOK(q)
  BY <1>1, <1>4 DEF RequestOK, Kinds, SessionKinds, Actions, TokenKinds
<1>5. ASSUME old.step = "read", old.kind = "prepare",
             q = [old EXCEPT !.kind = "permission", !.reads = {"permitted"}]
      PROVE  RequestOK(q)
  BY <1>1, <1>5 DEF RequestOK, Kinds, SessionKinds, Actions, TokenKinds
<1>6. ASSUME NEW step \in {"ok", "failed"}, q = [step |-> step, kind |-> old.kind]
      PROVE  RequestOK(q)
  BY <1>6 DEF RequestOK
<1> QED BY <1>2, <1>3, <1>4, <1>5, <1>6 DEF Becomes, AllRead, Step

\* What a request may begin as.
Starts(q) ==
    /\ q.step = "read"
    /\ \/ \E c \in Challenges :
            /\ challenge[c] # NoChallenge /\ challenge[c].exp >= now
            /\ q = [step |-> "read", kind |-> challenge[c].action, reads |-> {"owner"},
                    challenge |-> c, owner |-> challenge[c].owner, began |-> now]
       \/ \E session, who :
            q = [step |-> "read", kind |-> "session check", reads |-> {"session owner"},
                 session |-> session, owner |-> who]
       \/ \E who, o : \E kind \in TokenKinds :
            q = [step |-> "read", kind |-> kind, reads |-> Reads(kind), owner |-> who,
                 operator |-> o]

LEMMA BeginsStarts ==
    ASSUME Begins
    PROVE  \/ UNCHANGED request
           \/ \E r \in Requests : \E q :
                Starts(q) /\ request' = [request EXCEPT ![r] = q] /\ Step(r) = "new"
<1> USE DEF Starts, Begin
<1>1. ASSUME NEW r \in Requests, NEW c \in Challenges, BeginAdmin(r, c)
      PROVE  \E q : Starts(q) /\ request' = [request EXCEPT ![r] = q] /\ Step(r) = "new"
  BY <1>1 DEF BeginAdmin
<1>2. ASSUME NEW r \in Requests, NEW cookie, NEW who, BeginRegister(r, cookie, who)
      PROVE  \E q : Starts(q) /\ request' = [request EXCEPT ![r] = q] /\ Step(r) = "new"
  BY <1>2 DEF BeginRegister
<1>3. ASSUME NEW r \in Requests, NEW token, NEW o, NEW kind \in TokenKinds, BeginToken(r, token, kind, o)
      PROVE  \E q : Starts(q) /\ request' = [request EXCEPT ![r] = q] /\ Step(r) = "new"
  BY <1>3 DEF BeginToken
<1> QED BY <1>1, <1>2, <1>3 DEF Begins, IssueOwnerChallenge, IssueAgentChallenge

-----------------------------------------------------------------------------
(* Challenges: one effect at most *)

Issued(c) ==
    /\ challenge[c].action \in Actions
    /\ challenge[c].exp \in Int /\ challenge[c].exp - ChallengeTtl <= now

\* An administrative request still has what it verified of its challenge.
AdminOK(q) ==
    q.step \in {"read", "effect"} /\ q.kind \in Actions =>
        /\ q.challenge \in Challenges /\ challenge[q.challenge] # NoChallenge
        /\ q.owner = challenge[q.challenge].owner
        /\ q.began \in Int /\ q.began <= challenge[q.challenge].exp

ChallengeTables ==
    /\ now \in Int
    /\ challenge = [c \in Challenges |-> challenge[c]]
    /\ \A c \in Challenges : challenge[c] # NoChallenge => Issued(c)
    /\ \A r \in Requests : AdminOK(request[r])
    /\ \A n \in nonces : n.at \in Int /\ n.challenge \in Challenges
            /\ challenge[n.challenge] # NoChallenge
            /\ challenge[n.challenge].exp - ChallengeTtl <= n.at
    /\ \A k \in keys : k.challenge \in Challenges /\ challenge[k.challenge] # NoChallenge
            /\ k.owner = challenge[k.challenge].owner
    /\ \A s \in cookies :
            \/ s.challenge = None
            \/ s.challenge \in Challenges /\ challenge[s.challenge] # NoChallenge

Effect(r, c) == Step(r) = "effect" /\ request[r].challenge = c

\* The challenge has been consumed.
Done(c) ==
    \/ \E k \in keys : k.challenge = c
    \/ \E s \in cookies : s.challenge = c
    \/ \E r \in Requests : Effect(r, c)

\* Its nonce is remembered, or no request that began with it can consume it.
Blocked(c) ==
    (\E n \in nonces : n.challenge = c) \/ now > challenge[c].exp + RequestTtl

\* Of all that a challenge has led to, there is one.
Once(c) ==
    /\ \A k1, k2 \in keys : k1.challenge = c /\ k2.challenge = c => k1 = k2
    /\ \A s1, s2 \in cookies : s1.challenge = c /\ s2.challenge = c => s1 = s2
    /\ \A r1, r2 \in Requests : Effect(r1, c) /\ Effect(r2, c) => r1 = r2
    /\ \A k \in keys, s \in cookies : ~(k.challenge = c /\ s.challenge = c)
    /\ \A r \in Requests : Effect(r, c) =>
        /\ \A k \in keys : k.challenge # c
        /\ \A s \in cookies : s.challenge # c

ChallengeInv ==
    /\ Requesting /\ ChallengeTables
    /\ \A c \in Challenges : (Done(c) => Blocked(c)) /\ Once(c)

LEMMA ChallengeInit == Init => ChallengeInv
<1> SUFFICES ASSUME Init PROVE ChallengeInv
  OBVIOUS
<1> USE AccessAssumption
<1>1. /\ now = 0 /\ challenge = [c \in Challenges |-> NoChallenge] /\ nonces = {} /\ keys = {}
      /\ \A s \in cookies : s.challenge = None
      /\ \A r \in Requests : request[r].step = "new"
  BY DEF Init, AccountInit
<1>2. Requesting
  BY RequestingInit
<1>3. ChallengeTables
  <2>1. \A c \in Challenges : challenge[c] = NoChallenge
    BY <1>1
  <2>2. challenge = [c \in Challenges |-> challenge[c]] /\ now \in Int
    BY <1>1
  <2>3. \A r \in Requests : AdminOK(request[r])
    BY <1>1 DEF AdminOK
  <2>4. /\ \A n \in nonces : FALSE
        /\ \A k \in keys : FALSE
    BY <1>1
  <2>5. \A s \in cookies : s.challenge = None
    BY <1>1
  <2>6. \A c \in Challenges : challenge[c] # NoChallenge => Issued(c)
    BY <2>1
  <2> QED BY <2>2, <2>3, <2>4, <2>5, <2>6 DEF ChallengeTables
<1>4. \A c \in Challenges : ~Done(c) /\ \A r \in Requests : ~Effect(r, c)
  BY <1>1 DEF Done, Effect, Step
<1>5. \A c \in Challenges : Once(c)
  BY <1>1, <1>4 DEF Once
<1> QED BY <1>2, <1>3, <1>4, <1>5 DEF ChallengeInv

LEMMA DoneIssued ==
    ASSUME ChallengeInv, NEW c \in Challenges, Done(c)
    PROVE  challenge[c] # NoChallenge /\ challenge[c].exp \in Int
<1>1. ASSUME NEW k \in keys, k.challenge = c PROVE challenge[c] # NoChallenge
  BY <1>1 DEF ChallengeInv, ChallengeTables
<1>2. ASSUME NEW s \in cookies, s.challenge = c PROVE challenge[c] # NoChallenge
  BY <1>2, AccessAssumption DEF ChallengeInv, ChallengeTables
<1>3. ASSUME NEW r \in Requests, Effect(r, c) PROVE challenge[c] # NoChallenge
  BY <1>3 DEF ChallengeInv, ChallengeTables, Requesting, RequestOK, AdminOK, Effect, Step
<1>4. challenge[c] # NoChallenge
  BY <1>1, <1>2, <1>3 DEF Done
<1> QED BY <1>4 DEF ChallengeInv, ChallengeTables, Issued

\* Time passes; or something happens that no challenge is about.
LEMMA ChallengeStays ==
    ASSUME ChallengeInv, now' \in Int, now <= now',
           UNCHANGED <<challenge, nonces, keys, cookies, request>>
    PROVE  ChallengeInv'
<1>1. Requesting'
  BY DEF ChallengeInv, Requesting
<1>2. ChallengeTables'
  BY AccessAssumption DEF ChallengeInv, ChallengeTables, AdminOK, Issued
<1>3. ASSUME NEW c \in Challenges, Done(c)' PROVE Blocked(c)'
  <2>1. Done(c) /\ Blocked(c)
    BY <1>3 DEF Done, Effect, Step, ChallengeInv
  <2>2. challenge[c].exp \in Int
    BY <2>1, DoneIssued
  <2> QED BY <2>1, <2>2, AccessAssumption DEF Blocked, ChallengeInv, ChallengeTables
<1>4. ASSUME NEW c \in Challenges PROVE Once(c)'
  BY DEF ChallengeInv, Once, Effect, Step
<1> QED BY <1>1, <1>2, <1>3, <1>4 DEF ChallengeInv

\* A nonce is only forgotten when its challenge has been useless for long.
LEMMA BlockedStays ==
    ASSUME ChallengeInv, NEW c \in Challenges, Blocked(c), Remembered \subseteq nonces',
           UNCHANGED <<now, challenge>>
    PROVE  Blocked(c)'
<1>1. CASE now > challenge[c].exp + RequestTtl
  BY <1>1 DEF Blocked
<1>2. ASSUME NEW n \in nonces, n.challenge = c PROVE Blocked(c)'
  <2>1. CASE n \in Remembered
    BY <1>2, <2>1 DEF Blocked
  <2>2. CASE n \notin Remembered
    <3>1. n.at \in Int /\ challenge[c].exp - ChallengeTtl <= n.at /\ challenge[c].exp \in Int /\ now \in Int
      BY <1>2 DEF ChallengeInv, ChallengeTables, Issued
    <3>2. n.at + NonceTtl < now
      BY <2>2, <3>1, AccessAssumption DEF Remembered
    <3>3. now > challenge[c].exp + RequestTtl
      BY <3>1, <3>2, AccessAssumption
    <3> QED BY <3>3 DEF Blocked
  <2> QED BY <2>1, <2>2
<1> QED BY <1>1, <1>2 DEF Blocked

\* A request goes on without an effect, or ends with none.
LEMMA ChallengeGoes ==
    ASSUME ChallengeInv, NEW r \in Requests, NEW q, RequestOK(q), AdminOK(q), q.step # "effect",
           request' = [request EXCEPT ![r] = q],
           UNCHANGED <<now, challenge, keys, cookies>>,
           nonces' \in {nonces, Remembered}
    PROVE  ChallengeInv'
<1>1. Requesting'
  BY RequestOne DEF ChallengeInv
<1>2. request'[r] = q /\ \A p \in Requests : p # r => request'[p] = request[p]
  BY DEF ChallengeInv, Requesting
<1>3. nonces' \subseteq nonces /\ Remembered \subseteq nonces'
  BY DEF Remembered
<1>4. \A p \in Requests : AdminOK(request[p])'
  BY <1>2 DEF ChallengeInv, ChallengeTables, AdminOK
<1>5. ChallengeTables'
  BY <1>3, <1>4 DEF ChallengeInv, ChallengeTables, Issued
<1>6. \A p \in Requests : \A c : Effect(p, c)' => Effect(p, c)
  BY <1>2 DEF Effect, Step
<1>7. ASSUME NEW c \in Challenges, Done(c)' PROVE Blocked(c)'
  <2>1. Done(c)
    BY <1>6, <1>7 DEF Done
  <2> QED BY <1>3, <2>1, BlockedStays DEF ChallengeInv
<1>8. ASSUME NEW c \in Challenges PROVE Once(c)'
  BY <1>6 DEF ChallengeInv, Once
<1> QED BY <1>1, <1>5, <1>7, <1>8 DEF ChallengeInv

\* The first request to consume the nonce of its challenge.
LEMMA ChallengeConsumed ==
    ASSUME ChallengeInv, NEW r \in Requests, NEW c \in Challenges,
           Step(r) = "read", request[r].kind \in Actions, request[r].challenge = c,
           now <= request[r].began + RequestTtl,
           \A n \in Remembered : n.challenge # c,
           nonces' = Remembered \union {[challenge |-> c, at |-> now]},
           request' = [request EXCEPT ![r] = [request[r] EXCEPT !.step = "effect"]],
           UNCHANGED <<now, challenge, keys, cookies>>
    PROVE  ChallengeInv'
<1> DEFINE q == [request[r] EXCEPT !.step = "effect"]
<1>1. RequestOK(request[r]) /\ AdminOK(request[r]) /\ now \in Int /\ challenge[c] # NoChallenge
  BY DEF ChallengeInv, ChallengeTables, Requesting, AdminOK, Step
<1>2. q.step = "effect" /\ q.kind = request[r].kind /\ q.challenge = c
        /\ q.owner = request[r].owner /\ q.began = request[r].began
  BY <1>1 DEF RequestOK, Step
<1>3. RequestOK(q)
  BY <1>1, <1>2 DEF RequestOK, Step, Kinds
<1>4. AdminOK(q)
  BY <1>1, <1>2 DEF AdminOK, Step
<1>5. Requesting'
  BY <1>3, RequestOne DEF ChallengeInv
<1>6. request'[r] = q /\ \A p \in Requests : p # r => request'[p] = request[p]
  BY DEF ChallengeInv, Requesting
<1>7. challenge[c].exp \in Int /\ challenge[c].exp - ChallengeTtl <= now
        /\ now <= challenge[c].exp + RequestTtl
  <2>1. request[r].began \in Int /\ request[r].began <= challenge[c].exp
    BY <1>1 DEF AdminOK, Step
  <2> QED BY <1>1, <2>1, AccessAssumption DEF ChallengeInv, ChallengeTables, Issued
<1>8. ~Blocked(c) \/ \E n \in nonces : n.challenge = c
  BY <1>1, <1>7, AccessAssumption DEF Blocked
<1>9. ~Done(c)
  <2> SUFFICES ASSUME Done(c) PROVE FALSE
    OBVIOUS
  <2>1. Blocked(c)
    BY DEF ChallengeInv
  <2>2. PICK n \in nonces : n.challenge = c
    BY <1>8, <2>1
  <2>3. n.at \in Int /\ challenge[c].exp - ChallengeTtl <= n.at /\ n.at + NonceTtl < now
    BY <1>1, <2>2, AccessAssumption DEF ChallengeInv, ChallengeTables, Remembered
  <2> QED BY <1>1, <1>7, <2>3, AccessAssumption
<1> HIDE DEF q
<1>10. ChallengeTables'
  <2>1. \A p \in Requests : AdminOK(request[p])'
    BY ZenonT(40), <1>4, <1>6 DEF ChallengeInv, ChallengeTables, AdminOK
  <2>2. \A n \in nonces' : n.at \in Int /\ n.challenge \in Challenges
            /\ challenge[n.challenge] # NoChallenge
            /\ challenge[n.challenge].exp - ChallengeTtl <= n.at
    BY <1>1, <1>7 DEF ChallengeInv, ChallengeTables, Remembered
  <2> QED BY <2>1, <2>2 DEF ChallengeInv, ChallengeTables, Issued
<1>11. \A p \in Requests : \A d : Effect(p, d)' => Effect(p, d) \/ (p = r /\ d = c)
  BY <1>2, <1>6 DEF Effect, Step
<1>12. ASSUME NEW d \in Challenges, Done(d)' PROVE Blocked(d)'
  <2>1. CASE d = c
    <3> DEFINE n == [challenge |-> c, at |-> now]
    <3>1. n \in nonces' /\ n.challenge = c
      OBVIOUS
    <3> HIDE DEF n
    <3> QED BY <2>1, <3>1 DEF Blocked
  <2>2. CASE d # c
    <3>1. Done(d)
      BY <1>11, <1>12, <2>2 DEF Done
    <3> QED BY <3>1, BlockedStays DEF ChallengeInv
  <2> QED BY <2>1, <2>2
<1>13. ASSUME NEW d \in Challenges PROVE Once(d)'
  <2>1. CASE d = c
    BY <1>9, <1>11, <2>1 DEF Done, Once
  <2>2. CASE d # c
    BY <1>11, <2>2 DEF ChallengeInv, Once
  <2> QED BY <2>1, <2>2
<1> QED BY <1>5, <1>10, <1>12, <1>13 DEF ChallengeInv

\* The key or the session of a request, which ends.
LEMMA ChallengeEffect ==
    ASSUME ChallengeInv, NEW r \in Requests, NEW c \in Challenges, Effect(r, c),
           NEW step \in {"ok", "failed"},
           request' = [request EXCEPT ![r] = [step |-> step, kind |-> request[r].kind]],
           UNCHANGED <<now, challenge, nonces>>,
           \/ /\ UNCHANGED cookies
              /\ keys' = keys \union
                    {[request |-> r, challenge |-> c, owner |-> request[r].owner]}
           \/ /\ UNCHANGED keys
              /\ \E exp : cookies' = cookies \union
                    {[request |-> r, challenge |-> c, owner |-> request[r].owner, exp |-> exp]}
    PROVE  ChallengeInv'
<1>1. RequestOK(request[r]) /\ AdminOK(request[r]) /\ Step(r) = "effect" /\ request[r].challenge = c
  BY DEF ChallengeInv, ChallengeTables, Requesting, Effect
<1>2. challenge[c] # NoChallenge /\ request[r].owner = challenge[c].owner
  BY <1>1 DEF RequestOK, AdminOK, Step
<1>3. /\ request'[r].step = step /\ step # "effect"
      /\ \A p \in Requests : p # r => request'[p] = request[p]
  BY DEF ChallengeInv, Requesting
<1>4. Requesting'
  BY RequestOne DEF ChallengeInv, RequestOK
<1>5. ChallengeTables'
  <2>1. \A p \in Requests : AdminOK(request[p])'
    BY <1>3 DEF ChallengeInv, ChallengeTables, AdminOK
  <2>2. \A k \in keys' : k.challenge \in Challenges /\ challenge[k.challenge] # NoChallenge
            /\ k.owner = challenge[k.challenge].owner
    BY <1>2 DEF ChallengeInv, ChallengeTables
  <2>3. \A s \in cookies' :
            \/ s.challenge = None
            \/ s.challenge \in Challenges /\ challenge[s.challenge] # NoChallenge
    BY <1>2 DEF ChallengeInv, ChallengeTables
  <2> QED BY <2>1, <2>2, <2>3 DEF ChallengeInv, ChallengeTables, Issued
<1>6. \A p \in Requests : \A d : Effect(p, d)' => Effect(p, d) /\ p # r
  BY <1>3 DEF Effect, Step
<1>7. ASSUME NEW d \in Challenges, Done(d)' PROVE Done(d) /\ Blocked(d)'
  <2>1. Done(d)
    BY <1>6, <1>7 DEF Done
  <2> QED BY <2>1, BlockedStays DEF ChallengeInv, Remembered
<1>8. /\ \A k \in keys : k.challenge # c
      /\ \A s \in cookies : s.challenge # c
      /\ \A p \in Requests : p # r => ~Effect(p, c)
  BY DEF ChallengeInv, Once
<1>9. Once(c)'
  BY <1>6, <1>8 DEF Once
<1>10. ASSUME NEW d \in Challenges, d # c PROVE Once(d)'
  BY <1>6, <1>10 DEF ChallengeInv, Once
<1> QED BY <1>4, <1>5, <1>7, <1>9, <1>10 DEF ChallengeInv

LEMMA ReadsFact ==
    \A kind \in TokenKinds : kind \in Kinds /\ kind \notin Actions \union SessionKinds
BY DEF TokenKinds, Kinds, Actions, SessionKinds

LEMMA StartsOK ==
    ASSUME ChallengeInv, NEW q, Starts(q)
    PROVE  RequestOK(q) /\ AdminOK(q)
<1>1. ASSUME NEW c \in Challenges,
             challenge[c] # NoChallenge, challenge[c].exp >= now,
             q = [step |-> "read", kind |-> challenge[c].action, reads |-> {"owner"},
                  challenge |-> c, owner |-> challenge[c].owner, began |-> now]
      PROVE  RequestOK(q) /\ AdminOK(q)
  <2>1. Issued(c) /\ now \in Int
    BY <1>1 DEF ChallengeInv, ChallengeTables
  <2>2. RequestOK(q)
    BY <1>1, <2>1 DEF RequestOK, Issued, Kinds, SessionKinds, Actions, TokenKinds
  <2>3. AdminOK(q)
    BY <1>1, <2>1 DEF AdminOK, Issued
  <2> QED BY <2>2, <2>3
<1>2. ASSUME NEW session, NEW who,
             q = [step |-> "read", kind |-> "session check", reads |-> {"session owner"},
                  session |-> session, owner |-> who]
      PROVE  RequestOK(q) /\ AdminOK(q)
  BY <1>2 DEF RequestOK, AdminOK, Kinds, SessionKinds, Actions, TokenKinds
<1>3. ASSUME NEW who, NEW o, NEW kind \in TokenKinds,
             q = [step |-> "read", kind |-> kind, reads |-> Reads(kind), owner |-> who,
                  operator |-> o]
      PROVE  RequestOK(q) /\ AdminOK(q)
  BY <1>3, ReadsFact DEF RequestOK, AdminOK, Kinds
<1> QED BY <1>1, <1>2, <1>3 DEF Starts

\* A step of a request that is neither its nonce nor its effect.
LEMMA BecomesAdmin ==
    ASSUME ChallengeInv, NEW r \in Requests, NEW q, Becomes(r, q), q.step # "effect"
    PROVE  RequestOK(q) /\ AdminOK(q)
<1> DEFINE old == request[r]
<1>1. RequestOK(old) /\ AdminOK(old) /\ RequestOK(q)
  BY BecomesOK DEF ChallengeInv, ChallengeTables, Requesting
<1>2. ASSUME NEW fact, old.step = "read", q = [old EXCEPT !.reads = old.reads \ {fact}]
      PROVE  AdminOK(q)
  BY <1>1, <1>2 DEF RequestOK, AdminOK
<1>3. ASSUME old.step = "read", old.kind = "session check",
             q = [old EXCEPT !.kind = "register", !.reads = {"owner"}]
      PROVE  AdminOK(q)
  BY <1>1, <1>3 DEF RequestOK, AdminOK, Actions
<1>4. ASSUME old.step = "read", old.kind = "prepare",
             q = [old EXCEPT !.kind = "permission", !.reads = {"permitted"}]
      PROVE  AdminOK(q)
  BY <1>1, <1>4 DEF RequestOK, AdminOK, Actions
<1>5. ASSUME NEW step \in {"ok", "failed"}, q = [step |-> step, kind |-> old.kind]
      PROVE  AdminOK(q)
  BY <1>5 DEF AdminOK
<1>6. ASSUME old.step = "read", q = [old EXCEPT !.step = "effect"] PROVE FALSE
  BY <1>1, <1>6 DEF RequestOK
<1> QED BY <1>1, <1>2, <1>3, <1>4, <1>5, <1>6 DEF Becomes, AllRead, Step

LEMMA ChallengeIssued ==
    ASSUME ChallengeInv, NEW c \in Challenges, NEW action \in Actions, NEW who,
           IssueOwnerChallenge(c, action, who), UNCHANGED now
    PROVE  ChallengeInv'
<1>1. /\ challenge[c] = NoChallenge
      /\ challenge' = [challenge EXCEPT ![c] =
            [owner |-> who, action |-> action, exp |-> now + ChallengeTtl]]
      /\ UNCHANGED <<nonces, keys, cookies, request>>
  BY DEF IssueOwnerChallenge, rowVars
<1>2. \A d \in Challenges : d # c => challenge'[d] = challenge[d]
  BY <1>1 DEF ChallengeInv, ChallengeTables
<1>3. /\ challenge'[c].action = action /\ challenge'[c].exp = now + ChallengeTtl
      /\ challenge'[c] # NoChallenge
  BY <1>1 DEF ChallengeInv, ChallengeTables, NoChallenge
<1>4. Requesting'
  BY <1>1 DEF ChallengeInv, Requesting
<1>5. now \in Int /\ ChallengeTtl \in Int
  BY AccessAssumption DEF ChallengeInv, ChallengeTables
<1>6. Issued(c)'
  BY <1>3, <1>5 DEF Issued
<1>7. ChallengeTables'
  <2>1. \A d \in Challenges : challenge'[d] # NoChallenge => Issued(d)'
    BY <1>2, <1>6 DEF ChallengeInv, ChallengeTables, Issued
  <2>2. \A p \in Requests : AdminOK(request[p])'
    BY <1>1, <1>2 DEF ChallengeInv, ChallengeTables, AdminOK
  <2>3. \A n \in nonces' : n.at \in Int /\ n.challenge \in Challenges
            /\ challenge'[n.challenge] # NoChallenge
            /\ challenge'[n.challenge].exp - ChallengeTtl <= n.at
    BY <1>1, <1>2 DEF ChallengeInv, ChallengeTables
  <2>4. \A k \in keys' : k.challenge \in Challenges /\ challenge'[k.challenge] # NoChallenge
            /\ k.owner = challenge'[k.challenge].owner
    BY <1>1, <1>2 DEF ChallengeInv, ChallengeTables
  <2>5. \A s \in cookies' :
            \/ s.challenge = None
            \/ s.challenge \in Challenges /\ challenge'[s.challenge] # NoChallenge
    BY <1>1, <1>2 DEF ChallengeInv, ChallengeTables
  <2>6. challenge' = [d \in Challenges |-> challenge'[d]] /\ now' \in Int
    BY <1>1, <1>5 DEF ChallengeInv, ChallengeTables
  <2> QED BY <2>1, <2>2, <2>3, <2>4, <2>5, <2>6 DEF ChallengeTables
<1>8. ASSUME NEW d \in Challenges, Done(d)' PROVE Blocked(d)'
  <2>1. Done(d)
    BY <1>1, <1>8 DEF Done, Effect, Step
  <2>2. d # c
    BY <1>1, <2>1, DoneIssued
  <2> QED BY <1>1, <1>2, <2>1, <2>2 DEF Blocked, ChallengeInv
<1>9. ASSUME NEW d \in Challenges PROVE Once(d)'
  BY <1>1 DEF ChallengeInv, Once, Effect, Step
<1> QED BY <1>4, <1>7, <1>8, <1>9 DEF ChallengeInv

LEMMA ChallengeBegins == ASSUME ChallengeInv, Begins, UNCHANGED chainVars PROVE ChallengeInv'
<1>1. UNCHANGED now /\ now \in Int
  BY DEF chainVars, ChallengeInv, ChallengeTables
<1>2. ASSUME NEW c \in Challenges, NEW action \in Actions, NEW who \in Owners,
             IssueOwnerChallenge(c, action, who)
      PROVE  ChallengeInv'
  BY <1>1, <1>2, ChallengeIssued
<1>3. ASSUME UNCHANGED <<challenge, nonces, keys, cookies>> PROVE ChallengeInv'
  <2>1. CASE UNCHANGED request
    BY <1>1, <1>3, <2>1, ChallengeStays
  <2>2. ASSUME NEW r \in Requests, NEW q, Starts(q), request' = [request EXCEPT ![r] = q]
        PROVE  ChallengeInv'
    <3>1. RequestOK(q) /\ AdminOK(q) /\ q.step # "effect"
      BY <2>2, StartsOK DEF Starts
    <3> QED BY <1>1, <1>3, <2>2, <3>1, ChallengeGoes
  <2> QED BY <2>1, <2>2, BeginsStarts
<1>4. ASSUME NEW who \in Owners, IssueAgentChallenge(who) PROVE ChallengeInv'
  BY <1>3, <1>4 DEF IssueAgentChallenge, rowVars
<1>5. ASSUME NEW r \in Requests, NEW c \in Challenges, BeginAdmin(r, c) PROVE ChallengeInv'
  BY <1>3, <1>5 DEF BeginAdmin, rowVars, tokenVars
<1>6. ASSUME NEW r \in Requests, NEW cookie \in cookies, NEW who \in Owners,
             BeginRegister(r, cookie, who)
      PROVE  ChallengeInv'
  BY <1>3, <1>6 DEF BeginRegister, rowVars, tokenVars
<1>7. ASSUME NEW r \in Requests, NEW token \in tokens, NEW o \in Operators,
             NEW kind \in TokenKinds, BeginToken(r, token, kind, o)
      PROVE  ChallengeInv'
  BY <1>3, <1>7 DEF BeginToken, rowVars, tokenVars
<1> QED BY <1>2, <1>4, <1>5, <1>6, <1>7 DEF Begins

LEMMA ConsumeKept ==
    ASSUME ChallengeInv, NEW r \in Requests, ConsumeNonce(r), UNCHANGED now PROVE ChallengeInv'
<1> DEFINE c == request[r].challenge
<1>1. /\ Step(r) = "read" /\ request[r].kind \in Actions /\ now <= request[r].began + RequestTtl
      /\ UNCHANGED <<now, challenge, keys, cookies>>
  BY DEF ConsumeNonce, AllRead, rowVars, tokenVars
<1>2. RequestOK(request[r]) /\ AdminOK(request[r]) /\ c \in Challenges
  BY <1>1 DEF ChallengeInv, ChallengeTables, Requesting, AdminOK, Step
<1>3. CASE \E n \in Remembered : n.challenge = c
  <2> DEFINE q == [step |-> "failed", kind |-> request[r].kind]
  <2>1. nonces' = Remembered /\ request' = [request EXCEPT ![r] = q]
    BY <1>3 DEF ConsumeNonce, End, ChallengeInv, Requesting
  <2>2. RequestOK(q) /\ AdminOK(q) /\ q.step # "effect"
    BY DEF RequestOK, AdminOK
  <2> HIDE DEF q
  <2> QED BY <1>1, <2>1, <2>2, ChallengeGoes
<1>4. CASE ~ \E n \in Remembered : n.challenge = c
  <2>1. /\ nonces' = Remembered \union {[challenge |-> c, at |-> now]}
        /\ request' = [request EXCEPT ![r] = [request[r] EXCEPT !.step = "effect"]]
    BY <1>4 DEF ConsumeNonce, Goto, ChallengeInv, Requesting
  <2> QED BY <1>1, <1>2, <1>4, <2>1, ChallengeConsumed
<1> QED BY <1>3, <1>4

LEMMA ChallengeRequest ==
    ASSUME ChallengeInv, NEW r \in Requests, Goes(r), UNCHANGED accountVars PROVE ChallengeInv'
<1>1. UNCHANGED now
  BY DEF accountVars, chainVars
<1>2. CASE ConsumeNonce(r)
  BY <1>1, <1>2, ConsumeKept
<1>3. ASSUME NEW step \in {"ok", "failed"}, CreateKey(r, step) PROVE ChallengeInv'
  <2>1. Effect(r, request[r].challenge) /\ request[r].challenge \in Challenges
    BY <1>3 DEF CreateKey, Effect, Step, Actions, ChallengeInv, ChallengeTables, AdminOK
  <2>2. request' = [request EXCEPT ![r] = [step |-> step, kind |-> request[r].kind]]
    BY <1>3 DEF CreateKey, End, ChallengeInv, Requesting
  <2> QED BY <1>1, <1>3, <2>1, <2>2, ChallengeEffect DEF CreateKey, tokenVars
<1>4. CASE IssueOwnerSession(r)
  <2>1. Effect(r, request[r].challenge) /\ request[r].challenge \in Challenges
    BY <1>4 DEF IssueOwnerSession, Effect, Step, Actions, ChallengeInv, ChallengeTables, AdminOK
  <2>2. request' = [request EXCEPT ![r] = [step |-> "ok", kind |-> request[r].kind]]
    BY <1>4 DEF IssueOwnerSession, End, ChallengeInv, Requesting
  <2> QED BY <1>1, <1>4, <2>1, <2>2, ChallengeEffect DEF IssueOwnerSession, rowVars
<1>5. ASSUME UNCHANGED <<challenge, nonces, keys, cookies>>,
             NEW q, Becomes(r, q), q.step # "effect", request' = [request EXCEPT ![r] = q]
      PROVE  ChallengeInv'
  BY <1>1, <1>5, BecomesAdmin, ChallengeGoes
<1>6. ASSUME NEW fact \in Facts \union {"permitted"}, Read(r, fact) PROVE ChallengeInv'
  <2>1. PICK q : Becomes(r, q) /\ request' = [request EXCEPT ![r] = q]
    BY <1>6, GoesBecomes DEF ChallengeInv
  <2>2. q.step # "effect"
    <3>1. request'[r] = q /\ request'[r].step = "read"
      BY <1>6, <2>1 DEF Read, Step, ChallengeInv, Requesting, RequestOK
    <3> QED BY <3>1
  <2> QED BY <1>5, <1>6, <2>1, <2>2 DEF Read, rowVars, tokenVars
<1>7. CASE SessionChecked(r) \/ LiveOperator(r)
  <2>1. PICK q : Becomes(r, q) /\ request' = [request EXCEPT ![r] = q]
    BY GoesBecomes DEF ChallengeInv
  <2>2. q.step # "effect"
    <3>1. request'[r] = q /\ request'[r].step = "read"
      BY <1>7, <2>1 DEF SessionChecked, LiveOperator, AllRead, Step, ChallengeInv, Requesting, RequestOK
    <3> QED BY <3>1
  <2> QED BY <1>5, <1>7, <2>1, <2>2 DEF SessionChecked, LiveOperator, rowVars, tokenVars
<1>8. CASE UpsertAgent(r) \/ IssueToken(r) \/ Served(r) \/ Fail(r)
  <2>1. PICK q : Becomes(r, q) /\ request' = [request EXCEPT ![r] = q]
    BY GoesBecomes DEF ChallengeInv
  <2>2. q.step # "effect"
    <3>1. request'[r] = q /\ request'[r].step \in {"ok", "failed"}
      BY <1>8, <2>1 DEF UpsertAgent, IssueToken, Served, Fail, End, ChallengeInv, Requesting
    <3> QED BY <3>1
  <2> QED BY <1>5, <1>8, <2>1, <2>2 DEF UpsertAgent, IssueToken, Served, Fail, rowVars, tokenVars
<1> QED BY <1>2, <1>3, <1>4, <1>6, <1>7, <1>8 DEF Goes

LEMMA OwnerTakesNoTime == ASSUME OwnerNext, now \in Int PROVE now' \in Int /\ now <= now'
<1>1. SUFFICES UNCHANGED now
  OBVIOUS
<1>2. ASSUME NEW to \in Owners, TransferOwnership(to) PROVE UNCHANGED now
  BY <1>2 DEF TransferOwnership
<1>3. CASE AcceptOwnership
  BY <1>3 DEF AcceptOwnership
<1>4. ASSUME NEW on \in BOOLEAN, SetActive(on) PROVE UNCHANGED now
  BY <1>4 DEF SetActive
<1>5. ASSUME NEW o \in Operators, NEW on \in BOOLEAN,
             SetAgentOperator(o, on) \/ SetApprovalSpender(o, on)
      PROVE  UNCHANGED now
  BY <1>5 DEF SetAgentOperator, SetApprovalSpender
<1>6. ASSUME NEW o \in Operators, NEW on \in BOOLEAN, NEW e \in Expiries, SetPermission(o, on, e)
      PROVE  UNCHANGED now
  BY <1>6 DEF SetPermission
<1>7. ASSUME NEW o \in Operators, NEW l \in Limits, SetFinancialLimit(o, l) PROVE UNCHANGED now
  BY <1>7 DEF SetFinancialLimit
<1>8. ASSUME NEW o \in Operators, DeleteFinancialLimit(o) PROVE UNCHANGED now
  BY <1>8 DEF DeleteFinancialLimit
<1>9. ASSUME NEW o \in Operators, NEW e \in Expiries, NEW l \in Limits,
             ConfigureAuthorization(o, e, l)
      PROVE  UNCHANGED now
  BY <1>9 DEF ConfigureAuthorization
<1> QED BY <1>2, <1>3, <1>4, <1>5, <1>6, <1>7, <1>8, <1>9 DEF OwnerNext

LEMMA ChallengeNext == ASSUME ChallengeInv, [Next]_vars PROVE ChallengeInv'
<1>1. now \in Int
  BY DEF ChallengeInv, ChallengeTables
<1>2. CASE UNCHANGED vars
  BY <1>1, <1>2, ChallengeStays DEF vars, accountVars, chainVars, routeVars, rowVars, tokenVars
<1>3. CASE AccountNext /\ UNCHANGED routeVars
  <2>1. now' \in Int /\ now <= now'
    <3>1. CASE Tick
      BY <1>1, <3>1 DEF Tick
    <3>2. CASE OwnerNext
      BY <1>1, <3>2, OwnerTakesNoTime
    <3>3. CASE \E o \in Operators, amounts \in Batches : Execute(o, amounts)
      BY <1>1, <3>3 DEF Execute
    <3> QED BY <1>3, <3>1, <3>2, <3>3 DEF AccountNext
  <2> QED BY <1>3, <2>1, ChallengeStays DEF routeVars, rowVars, tokenVars
<1>4. CASE Begins /\ UNCHANGED chainVars
  BY <1>4, ChallengeBegins
<1>5. CASE (\E r \in Requests : Goes(r)) /\ UNCHANGED accountVars
  BY <1>5, ChallengeRequest
<1> QED BY <1>2, <1>3, <1>4, <1>5 DEF Next

LEMMA OneEffect ==
    ASSUME ChallengeInv, NEW c \in Challenges
    PROVE  Cardinality({k \in keys : k.challenge = c})
             + Cardinality({s \in cookies : s.challenge = c}) <= 1
<1> DEFINE K == {k \in keys : k.challenge = c}
           S == {s \in cookies : s.challenge = c}
<1>1. Once(c)
  BY DEF ChallengeInv
<1>2. K = {} \/ S = {}
  BY <1>1 DEF Once
<1>3. K = {} \/ \E k : K = {k}
  BY <1>1 DEF Once
<1>4. S = {} \/ \E s : S = {s}
  BY <1>1 DEF Once
<1> HIDE DEF K, S
<1>5. Cardinality(K) = 0 \/ Cardinality(K) = 1
  BY <1>3, FS_EmptySet, FS_Singleton
<1>6. Cardinality(S) = 0 \/ Cardinality(S) = 1
  BY <1>4, FS_EmptySet, FS_Singleton
<1>7. Cardinality({}) = 0
  BY FS_EmptySet
<1>8. Cardinality(K) + Cardinality(S) <= 1
  BY <1>2, <1>5, <1>6, <1>7
<1> QED BY <1>8 DEF K, S

(* However often and concurrently a signed challenge is sent, it leads to   *)
(* one key or one session at most.                                          *)
THEOREM ChallengesOnce == Spec => []ChallengeOnce
<1>1. ChallengeInv /\ [Next]_vars => ChallengeInv'
  BY ChallengeNext
<1>2. ChallengeInv => ChallengeOnce
  BY OneEffect DEF ChallengeOnce
<1> QED BY ChallengeInit, <1>1, <1>2, PTL DEF Spec

-----------------------------------------------------------------------------
(* Requests only succeed for those who were entitled while they ran *)

\* What a request needs and has not seen, it has still to read.
EntitledBy(q, saw) ==
    /\ q.step = "read" => \A fact \in Needs(q.kind) : fact \in q.reads \/ fact \in saw
    /\ q.step \in {"effect", "ok"} => Needs(q.kind) \subseteq saw

EntitledInv ==
    /\ seen = [r \in Requests |-> seen[r]]
    /\ \A r \in Requests : EntitledBy(request[r], seen[r])

LEMMA NeedsFacts ==
    /\ \A kind \in Actions : Needs(kind) = {"owner"}
    /\ Needs("session check") = {"session owner"} /\ Needs("register") = {"session owner", "owner"}
    /\ Needs("permission") = Needs("prepare")
    /\ \A kind \in TokenKinds : Needs(kind) = Reads(kind)
    /\ \A kind \in TokenKinds \union {"permission"} : Needs(kind) \subseteq {"owner", "operator", "active"}
<1>1. /\ "create-api-key" # "agent-session"
      /\ \A kind \in Actions : kind = "create-api-key" \/ kind = "agent-session"
  BY DEF Actions
<1>2. \A kind \in Actions : Needs(kind) = {"owner"}
  BY <1>1 DEF Needs
<1>3. Needs("session check") = {"session owner"} /\ Needs("register") = {"session owner", "owner"}
  BY DEF Needs, Actions
<1>4. Needs("permission") = Needs("prepare")
  BY DEF Needs, Actions
<1>5. ASSUME NEW kind \in TokenKinds
      PROVE  Needs(kind) = Reads(kind) /\ Needs(kind) \subseteq {"owner", "operator", "active"}
  <2>1. CASE kind = "connect"
    BY <2>1 DEF Needs, Reads, Actions
  <2>2. CASE kind = "activate"
    BY <2>2 DEF Needs, Reads, Actions
  <2>3. CASE kind = "open"
    BY <2>3 DEF Needs, Reads, Actions
  <2>4. CASE kind = "session"
    BY <2>4 DEF Needs, Reads, Actions
  <2>5. CASE kind = "prepare"
    BY <2>5 DEF Needs, Reads, Actions
  <2> QED BY <1>5, <2>1, <2>2, <2>3, <2>4, <2>5 DEF TokenKinds
<1>6. Needs("permission") \subseteq {"owner", "operator", "active"}
  BY DEF Needs, Actions
<1> QED BY <1>2, <1>3, <1>4, <1>5, <1>6

LEMMA Watched ==
    ASSUME Watch, NEW r \in Requests, NEW q, request'[r] = q, q.step \notin {"new", "failed"}
    PROVE  seen[r] \subseteq seen'[r]
BY DEF Watch, Step

\* The account does not change under a read: what it has read, it has seen.
LEMMA WatchedRead ==
    ASSUME Watch, UNCHANGED chainVars, NEW r \in Requests, NEW q, request'[r] = q, q.step = "read",
           NEW fact \in Needs(q.kind), fact \in Facts, Holds(q, fact)
    PROVE  fact \in seen'[r]
<1>1. seen'[r] = seen[r] \union {f \in Needs(request'[r].kind) : Running(r)' /\ Holds(request[r], f)'}
  BY DEF Watch, Step
<1>2. Running(r)'
  BY DEF Running, Step
<1>3. UNCHANGED <<owner, operators, active>>
  BY DEF chainVars
<1>4. CASE fact = "owner"
  BY <1>1, <1>2, <1>3, <1>4 DEF Holds
<1>5. CASE fact = "session owner"
  BY <1>1, <1>2, <1>3, <1>5 DEF Holds
<1>6. CASE fact = "operator"
  BY <1>1, <1>2, <1>3, <1>6 DEF Holds
<1>7. CASE fact = "active"
  BY <1>1, <1>2, <1>3, <1>7 DEF Holds
<1> QED BY <1>4, <1>5, <1>6, <1>7 DEF Facts

\* One request changes, the others keep what they have seen.
LEMMA EntitledOne ==
    ASSUME EntitledInv, Requesting, Watch, NEW r \in Requests, NEW q,
           request' = [request EXCEPT ![r] = q], EntitledBy(q, seen'[r])
    PROVE  EntitledInv'
<1>1. request'[r] = q /\ \A p \in Requests : p # r => request'[p] = request[p]
  BY DEF Requesting
<1>2. seen' = [p \in Requests |-> seen'[p]]
  BY DEF Watch
<1>3. ASSUME NEW p \in Requests, p # r PROVE EntitledBy(request'[p], seen'[p])
  <2>1. CASE request[p].step \in {"read", "effect", "ok"}
    <3>1. seen[p] \subseteq seen'[p]
      BY <1>1, <1>3, <2>1, Watched
    <3> QED BY <1>1, <1>3, <3>1 DEF EntitledInv, EntitledBy
  <2>2. CASE request[p].step \notin {"read", "effect", "ok"}
    BY <1>1, <1>3, <2>2 DEF EntitledBy
  <2> QED BY <2>1, <2>2
<1>4. \A p \in Requests : EntitledBy(request'[p], seen'[p])
  BY <1>1, <1>3
<1> QED BY <1>2, <1>4 DEF EntitledInv, EntitledBy

LEMMA EntitledStays ==
    ASSUME EntitledInv, Watch, UNCHANGED request PROVE EntitledInv'
<1>1. seen' = [p \in Requests |-> seen'[p]]
  BY DEF Watch
<1>2. ASSUME NEW p \in Requests PROVE EntitledBy(request[p], seen'[p])
  <2>1. CASE request[p].step \in {"read", "effect", "ok"}
    <3>1. seen[p] \subseteq seen'[p]
      BY <2>1, Watched
    <3> QED BY <3>1 DEF EntitledInv, EntitledBy
  <2>2. CASE request[p].step \notin {"read", "effect", "ok"}
    BY <2>2 DEF EntitledBy
  <2> QED BY <2>1, <2>2
<1> QED BY <1>1, <1>2 DEF EntitledInv, EntitledBy

LEMMA EntitledStarts ==
    ASSUME ChallengeInv, NEW q, Starts(q), NEW saw PROVE EntitledBy(q, saw)
<1>1. q.step = "read"
  BY DEF Starts
<1>2. Needs(q.kind) \subseteq q.reads
  <2>1. ASSUME NEW c \in Challenges, challenge[c] # NoChallenge,
               q = [step |-> "read", kind |-> challenge[c].action, reads |-> {"owner"},
                    challenge |-> c, owner |-> challenge[c].owner, began |-> now]
        PROVE  Needs(q.kind) \subseteq q.reads
    <3>1. q.kind \in Actions /\ q.reads = {"owner"}
      BY <2>1 DEF ChallengeInv, ChallengeTables, Issued
    <3> QED BY <3>1, NeedsFacts
  <2>2. ASSUME NEW session, NEW who,
               q = [step |-> "read", kind |-> "session check", reads |-> {"session owner"},
                    session |-> session, owner |-> who]
        PROVE  Needs(q.kind) \subseteq q.reads
    BY <2>2, NeedsFacts
  <2>3. ASSUME NEW who, NEW o, NEW kind \in TokenKinds,
               q = [step |-> "read", kind |-> kind, reads |-> Reads(kind), owner |-> who,
                    operator |-> o]
        PROVE  Needs(q.kind) \subseteq q.reads
    BY <2>3, NeedsFacts
  <2> QED BY <2>1, <2>2, <2>3 DEF Starts
<1> QED BY <1>1, <1>2 DEF EntitledBy

LEMMA EntitledBecomes ==
    ASSUME EntitledInv, Requesting, Watch, UNCHANGED chainVars,
           NEW r \in Requests, NEW q, Becomes(r, q), request' = [request EXCEPT ![r] = q]
    PROVE  EntitledInv'
<1> DEFINE old == request[r]
<1>1. RequestOK(old) /\ EntitledBy(old, seen[r]) /\ request'[r] = q
  BY DEF Requesting, EntitledInv
<1>2. ASSUME NEW fact \in old.reads, old.step = "read", Holds(old, fact),
             q = [old EXCEPT !.reads = old.reads \ {fact}]
      PROVE  EntitledBy(q, seen'[r])
  <2>1. q.step = "read" /\ q.kind = old.kind /\ q.reads = old.reads \ {fact} /\ q.owner = old.owner
    BY <1>1, <1>2 DEF RequestOK
  <2>2. seen[r] \subseteq seen'[r]
    BY <1>1, <2>1, Watched
  <2>3. ASSUME fact \in Needs(q.kind) PROVE fact \in seen'[r]
    <3>1. fact \in Facts /\ Holds(q, fact)
      <4>1. CASE q.kind \in Actions
        <5>1. fact = "owner"
          BY <2>3, <4>1, NeedsFacts
        <5> QED BY <1>2, <2>1, <5>1 DEF Holds, Facts
      <4>2. CASE q.kind \in SessionKinds
        <5>1. q.session = old.session
          BY <1>1, <1>2, <2>1, <4>2 DEF RequestOK
        <5>2. fact = "owner" \/ fact = "session owner"
          BY <2>3, <4>2, NeedsFacts DEF SessionKinds
        <5> QED BY <1>2, <2>1, <5>1, <5>2 DEF Holds, Facts
      <4>3. CASE q.kind \in TokenKinds \union {"permission"}
        <5>1. q.operator = old.operator
          BY <1>1, <1>2, <2>1, <4>3 DEF RequestOK
        <5>2. fact = "owner" \/ fact = "operator" \/ fact = "active"
          BY <2>3, <4>3, NeedsFacts
        <5> QED BY <1>2, <2>1, <5>1, <5>2 DEF Holds, Facts
      <4> QED BY <1>1, <1>2, <2>1, <4>1, <4>2, <4>3 DEF RequestOK, Kinds
    <3> QED BY <1>1, <2>1, <2>3, <3>1, WatchedRead
  <2> QED BY <1>1, <1>2, <2>1, <2>2, <2>3 DEF EntitledBy
<1>3. ASSUME AllRead(r), old.kind \in Actions, q = [old EXCEPT !.step = "effect"]
      PROVE  EntitledBy(q, seen'[r])
  <2>1. q.step = "effect" /\ q.kind = old.kind /\ Needs(old.kind) \subseteq seen[r]
    BY <1>1, <1>3 DEF RequestOK, AllRead, Step, EntitledBy
  <2>2. seen[r] \subseteq seen'[r]
    BY <1>1, <2>1, Watched
  <2> QED BY <2>1, <2>2 DEF EntitledBy
<1>4. ASSUME AllRead(r), old.kind = "session check",
             q = [old EXCEPT !.kind = "register", !.reads = {"owner"}]
      PROVE  EntitledBy(q, seen'[r])
  <2>1. q.step = "read" /\ q.kind = "register" /\ q.reads = {"owner"}
    BY <1>1, <1>4 DEF RequestOK, AllRead, Step
  <2>2. "session owner" \in seen[r]
    BY <1>1, <1>4, NeedsFacts DEF AllRead, Step, EntitledBy
  <2>3. seen[r] \subseteq seen'[r]
    BY <1>1, <2>1, Watched
  <2> QED BY <2>1, <2>2, <2>3, NeedsFacts DEF EntitledBy
<1>5. ASSUME AllRead(r), old.kind = "prepare",
             q = [old EXCEPT !.kind = "permission", !.reads = {"permitted"}]
      PROVE  EntitledBy(q, seen'[r])
  <2>1. q.step = "read" /\ q.kind = "permission"
    BY <1>1, <1>5 DEF RequestOK, AllRead, Step
  <2>2. Needs("prepare") \subseteq seen[r]
    BY <1>1, <1>5 DEF AllRead, Step, EntitledBy
  <2>3. seen[r] \subseteq seen'[r]
    BY <1>1, <2>1, Watched
  <2> QED BY <2>1, <2>2, <2>3, NeedsFacts DEF EntitledBy
<1>6. ASSUME AllRead(r) \/ old.step = "effect", q = [step |-> "ok", kind |-> old.kind]
      PROVE  EntitledBy(q, seen'[r])
  <2>1. Needs(old.kind) \subseteq seen[r]
    BY <1>1, <1>6 DEF AllRead, Step, EntitledBy
  <2>2. seen[r] \subseteq seen'[r]
    BY <1>1, <1>6, Watched
  <2> QED BY <1>6, <2>1, <2>2 DEF EntitledBy
<1>7. ASSUME q = [step |-> "failed", kind |-> old.kind] PROVE EntitledBy(q, seen'[r])
  BY <1>7 DEF EntitledBy
<1>8. EntitledBy(q, seen'[r])
  BY <1>2, <1>3, <1>4, <1>5, <1>6, <1>7 DEF Becomes
<1> QED BY <1>8, EntitledOne

LEMMA EntitledNext == ASSUME ChallengeInv, EntitledInv, [Next]_vars PROVE EntitledInv'
<1>1. CASE UNCHANGED vars
  BY <1>1 DEF vars, routeVars, EntitledInv, EntitledBy
<1>2. CASE AccountNext /\ UNCHANGED routeVars /\ Watch
  BY <1>2, EntitledStays DEF routeVars
<1>3. CASE Begins /\ UNCHANGED chainVars /\ Watch
  <2>1. CASE UNCHANGED request
    BY <1>3, <2>1, EntitledStays
  <2>2. ASSUME NEW r \in Requests, NEW q, Starts(q), request' = [request EXCEPT ![r] = q]
        PROVE  EntitledInv'
    <3>1. EntitledBy(q, seen'[r])
      BY <2>2, EntitledStarts
    <3> QED BY <1>3, <2>2, <3>1, EntitledOne DEF ChallengeInv
  <2> QED BY <1>3, <2>1, <2>2, BeginsStarts
<1>4. ASSUME NEW r \in Requests, Goes(r), UNCHANGED accountVars, Watch PROVE EntitledInv'
  <2>1. PICK q : Becomes(r, q) /\ request' = [request EXCEPT ![r] = q]
    BY <1>4, GoesBecomes DEF ChallengeInv
  <2>2. UNCHANGED chainVars
    BY <1>4 DEF accountVars
  <2> QED BY <1>4, <2>1, <2>2, EntitledBecomes DEF ChallengeInv
<1> QED BY <1>1, <1>2, <1>3, <1>4 DEF Next

(* No token, row or earlier read stands for the owner, the operator or the  *)
(* account's being active: a request that succeeds needed what was true at  *)
(* a moment of its own, and a key is its signer's.                          *)
THEOREM ServedEntitled == Spec => []ServedWhileEntitled
<1>1. Init => EntitledInv
  BY DEF Init, EntitledInv, EntitledBy
<1>2. ChallengeInv /\ EntitledInv /\ [Next]_vars => (ChallengeInv /\ EntitledInv)'
  BY ChallengeNext, EntitledNext
<1>3. ChallengeInv /\ EntitledInv => ServedWhileEntitled
  BY DEF ChallengeInv, ChallengeTables, EntitledInv, EntitledBy, ServedWhileEntitled, Step
<1> QED BY ChallengeInit, <1>1, <1>2, <1>3, PTL DEF Spec
=============================================================================
