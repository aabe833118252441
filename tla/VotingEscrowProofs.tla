-------------------------- MODULE VotingEscrowProofs --------------------------
(***************************************************************************)
(* Theorems about VotingEscrow, for any users, amounts, durations, fees    *)
(* and length of a week: the lists of owned tokens, the aggregates, the    *)
(* votes computed from them now and in the past, and the power time.       *)
(***************************************************************************)
EXTENDS VotingEscrow, SequenceTheorems, FiniteSums

-----------------------------------------------------------------------------
(* Lists of owned tokens *)

\* The lists and the indices enumerate the tokens of each user.
Enumerates(own, lists, index) ==
    /\ own \in [Ids -> Users \union {None}]
    /\ lists \in [Users -> Seq(Ids)] /\ index \in [Ids -> Nat]
    /\ \A u \in Users : \A i \in 1 .. Len(lists[u]) :
            own[lists[u][i]] = u /\ index[lists[u][i]] = i - 1
    /\ \A id \in Ids : own[id] # None =>
            index[id] < Len(lists[own[id]]) /\ lists[own[id]][index[id] + 1] = id

Listed == Enumerates(owner, owned, ownedIndex)

\* A list without its element at place i, which the last element has taken.
LEMMA PoppedFact ==
    ASSUME NEW list \in Seq(Ids), NEW i \in 1 .. Len(list)
    PROVE  /\ Popped(list, i) \in Seq(Ids) /\ Len(Popped(list, i)) = Len(list) - 1
           /\ \A j \in 1 .. Len(list) - 1 :
                Popped(list, i)[j] = IF j = i THEN list[Len(list)] ELSE list[j]
<1> DEFINE n == Len(list)
           swapped == [list EXCEPT ![i] = list[n]]
<1>1. n \in Nat \ {0} /\ list[n] \in Ids
  BY LenProperties, ElementOfSeq
<1>2. swapped \in Seq(Ids) /\ Len(swapped) = n
      /\ \A j \in 1 .. n : swapped[j] = IF j = i THEN list[n] ELSE list[j]
  BY <1>1, ExceptSeq
<1>3. \A j \in 1 .. n - 1 : swapped[j] \in Ids
  BY <1>1, <1>2, ElementOfSeq
<1> HIDE DEF swapped
<1>4. /\ SubSeq(swapped, 1, n - 1) \in Seq(Ids)
      /\ Len(SubSeq(swapped, 1, n - 1)) = IF 1 <= n - 1 THEN n - 1 - 1 + 1 ELSE 0
      /\ \A j \in 1 .. n - 1 - 1 + 1 : SubSeq(swapped, 1, n - 1)[j] = swapped[1 + j - 1]
  <2>1. n - 1 \in Int
    BY <1>1
  <2> HIDE DEF n
  <2> QED BY <1>3, <2>1, SubSeqProperties
<1>5. Popped(list, i) = SubSeq(swapped, 1, n - 1)
  BY DEF Popped, swapped
<1> HIDE DEF n
<1>6. Len(Popped(list, i)) = n - 1
  BY <1>1, <1>4, <1>5
<1>7. ASSUME NEW j \in 1 .. n - 1
      PROVE  Popped(list, i)[j] = IF j = i THEN list[n] ELSE list[j]
  <2>1. j \in 1 .. n - 1 - 1 + 1 /\ 1 + j - 1 = j /\ j \in 1 .. n
    BY <1>1
  <2> QED BY <1>2, <1>4, <1>5, <2>1
<1> QED BY <1>4, <1>5, <1>6, <1>7 DEF n

\* A token taken off the list of its owner.
LEMMA UnlistEnumerates ==
    ASSUME Listed, NEW id \in Ids, owner[id] # None
    PROVE  /\ Enumerates([owner EXCEPT ![id] = None], Unlist(id).lists, Unlist(id).index)
           /\ owner[id] \in Users
<1> DEFINE u == owner[id]
           list == owned[u]
           n == Len(list)
           p == ownedIndex[id] + 1
           moved == list[n]
           own == [owner EXCEPT ![id] = None]
           lists == Unlist(id).lists
           index == Unlist(id).index
<1>1. /\ u \in Users /\ list \in Seq(Ids) /\ owner \in [Ids -> Users \union {None}]
      /\ owned \in [Users -> Seq(Ids)] /\ ownedIndex \in [Ids -> Nat]
  BY DEF Listed, Enumerates
<1>2. p \in 1 .. n /\ list[p] = id /\ n \in Nat \ {0} /\ moved \in Ids
  <2>1. n \in Nat
    BY <1>1, LenProperties
  <2>2. ownedIndex[id] < n /\ list[p] = id /\ ownedIndex[id] \in Nat
    BY <1>1 DEF Listed, Enumerates
  <2>3. p \in 1 .. n /\ n \in Nat \ {0} /\ n \in 1 .. n
    BY <2>1, <2>2
  <2> QED BY <1>1, <2>2, <2>3, ElementOfSeq
<1>3. /\ lists = [owned EXCEPT ![u] = Popped(list, p)]
      /\ index = [[ownedIndex EXCEPT ![moved] = ownedIndex[id]] EXCEPT ![id] = 0]
  BY DEF Unlist
<1>4. /\ Popped(list, p) \in Seq(Ids) /\ Len(Popped(list, p)) = n - 1
      /\ \A j \in 1 .. n - 1 : Popped(list, p)[j] = IF j = p THEN moved ELSE list[j]
  BY <1>1, <1>2, PoppedFact
<1>5. /\ owner[moved] = u /\ ownedIndex[moved] = n - 1
      /\ \A j \in 1 .. n : owner[list[j]] = u /\ ownedIndex[list[j]] = j - 1
  BY <1>1, <1>2 DEF Listed, Enumerates
<1>6. moved = id <=> p = n
  BY <1>2, <1>5
<1>7. \A j \in 1 .. n : list[j] \in Ids
  BY <1>1, ElementOfSeq
<1>8. /\ own \in [Ids -> Users \union {None}] /\ lists \in [Users -> Seq(Ids)]
      /\ index \in [Ids -> Nat] /\ u # None
  BY <1>1, <1>2, <1>3, <1>4
<1>9. lists[u] = Popped(list, p) /\ \A v \in Users \ {u} : lists[v] = owned[v]
  BY <1>1, <1>3
<1>10. /\ own[id] = None /\ \A j \in Ids \ {id} : own[j] = owner[j]
       /\ index[id] = 0 /\ (moved # id => index[moved] = ownedIndex[id])
       /\ \A j \in Ids \ {id, moved} : index[j] = ownedIndex[j]
  BY <1>1, <1>2, <1>3
<1> HIDE DEF u, list, n, p, moved, own, lists, index
<1>11. ASSUME NEW v \in Users, NEW i \in 1 .. Len(lists[v])
       PROVE  own[lists[v][i]] = v /\ index[lists[v][i]] = i - 1
  <2>1. CASE v = u
    <3>1. i \in 1 .. n - 1 /\ lists[v][i] = IF i = p THEN moved ELSE list[i]
      BY <1>4, <1>9, <2>1
    <3>2. CASE i = p
      <4>1. moved # id
        BY <1>2, <1>6, <3>1, <3>2
      <4>2. index[moved] = p - 1
        BY <1>1, <1>10, <4>1 DEF p
      <4> QED BY <1>2, <1>5, <1>10, <2>1, <3>1, <3>2, <4>1, <4>2
    <3>3. CASE i # p
      <4>1. list[i] \in Ids /\ owner[list[i]] = u /\ ownedIndex[list[i]] = i - 1
        BY <1>2, <1>5, <1>7, <3>1
      <4>2. ownedIndex[id] = p - 1 /\ ownedIndex[id] \in Int
        BY <1>1 DEF p
      <4>3. list[i] # id /\ list[i] # moved
        BY <1>2, <1>5, <3>1, <3>3, <4>1, <4>2
      <4> QED BY <1>10, <2>1, <3>1, <3>3, <4>1, <4>3
    <3> QED BY <3>2, <3>3
  <2>2. CASE v # u
    <3>1. lists[v] = owned[v] /\ i \in 1 .. Len(owned[v])
      BY <1>9, <2>2
    <3>2. owned[v][i] \in Ids /\ owner[owned[v][i]] = v /\ ownedIndex[owned[v][i]] = i - 1
      BY <1>1, <3>1, ElementOfSeq DEF Listed, Enumerates
    <3>3. owned[v][i] # id /\ owned[v][i] # moved
      BY <1>5, <2>2, <3>2 DEF u
    <3> QED BY <1>10, <3>1, <3>2, <3>3
  <2> QED BY <2>1, <2>2
<1>12. ASSUME NEW j \in Ids, own[j] # None
       PROVE  index[j] < Len(lists[own[j]]) /\ lists[own[j]][index[j] + 1] = j
  <2>1. j # id /\ own[j] = owner[j] /\ owner[j] \in Users
    BY <1>1, <1>10, <1>12
  <2>2. ownedIndex[j] \in Nat /\ ownedIndex[j] < Len(owned[owner[j]])
        /\ owned[owner[j]][ownedIndex[j] + 1] = j
    BY <1>1, <1>12, <2>1 DEF Listed, Enumerates
  <2>3. CASE j = moved
    <3>1. own[j] = u /\ index[j] = ownedIndex[id] /\ p # n
      BY <1>5, <1>6, <1>10, <2>1, <2>3
    <3>2. index[j] + 1 = p /\ index[j] \in Nat /\ p \in 1 .. n - 1
      BY <1>1, <1>2, <3>1 DEF p
    <3> QED BY <1>2, <1>4, <1>9, <2>3, <3>1, <3>2
  <2>4. CASE j # moved /\ owner[j] = u
    <3>1. index[j] = ownedIndex[j]
      BY <1>10, <2>1, <2>4
    <3>2. list[ownedIndex[j] + 1] = j /\ ownedIndex[j] + 1 \in 1 .. n
      BY <1>2, <2>2, <2>4 DEF list, n
    <3>3. ownedIndex[j] + 1 # n /\ ownedIndex[j] + 1 # p
      BY <1>2, <2>1, <2>4, <3>2 DEF moved
    <3>4. ownedIndex[j] + 1 \in 1 .. n - 1
      BY <1>2, <3>2, <3>3
    <3>5. Popped(list, p)[ownedIndex[j] + 1] = j
      BY <1>4, <3>2, <3>3, <3>4
    <3>6. ownedIndex[j] < n - 1
      BY <1>2, <2>2, <3>4
    <3> QED BY <1>4, <1>9, <2>1, <2>4, <3>1, <3>5, <3>6
  <2>5. CASE owner[j] # u
    <3>1. j # moved
      BY <1>5, <2>5
    <3>2. index[j] = ownedIndex[j] /\ lists[owner[j]] = owned[owner[j]]
      BY <1>9, <1>10, <2>1, <2>5, <3>1
    <3> QED BY <2>1, <2>2, <3>2
  <2> QED BY <2>3, <2>4, <2>5
<1> QED BY <1>1, <1>8, <1>11, <1>12 DEF Enumerates, own, lists, index, u

\* A token without owner put at the end of a list.
LEMMA ListEnumerates ==
    ASSUME NEW own, NEW lists, NEW index, Enumerates(own, lists, index),
           NEW id \in Ids, own[id] = None, NEW u \in Users
    PROVE  Enumerates([own EXCEPT ![id] = u], [lists EXCEPT ![u] = Append(@, id)],
                      [index EXCEPT ![id] = Len(lists[u])])
<1> DEFINE n == Len(lists[u])
           longer == Append(lists[u], id)
           own2 == [own EXCEPT ![id] = u]
           lists2 == [lists EXCEPT ![u] = longer]
           index2 == [index EXCEPT ![id] = n]
<1>1. /\ own \in [Ids -> Users \union {None}] /\ lists \in [Users -> Seq(Ids)]
      /\ index \in [Ids -> Nat] /\ None \notin Users
  BY LockAssumption DEF Enumerates
<1>2. n \in Nat
  BY <1>1, LenProperties
<1>3. /\ longer \in Seq(Ids) /\ Len(longer) = n + 1 /\ longer[n + 1] = id
      /\ \A i \in 1 .. n : longer[i] = lists[u][i]
  BY <1>1, AppendProperties
<1>4. /\ own2[id] = u /\ \A j \in Ids \ {id} : own2[j] = own[j]
      /\ index2[id] = n /\ \A j \in Ids \ {id} : index2[j] = index[j]
      /\ lists2[u] = longer /\ \A v \in Users \ {u} : lists2[v] = lists[v]
      /\ own2 \in [Ids -> Users \union {None}] /\ lists2 \in [Users -> Seq(Ids)]
      /\ index2 \in [Ids -> Nat]
  BY <1>1, <1>2, <1>3
<1>5. ASSUME NEW v \in Users, NEW i \in 1 .. Len(lists[v])
      PROVE  lists[v][i] \in Ids \ {id} /\ own[lists[v][i]] = v /\ index[lists[v][i]] = i - 1
  <2>1. lists[v][i] \in Ids
    BY <1>1, ElementOfSeq
  <2> QED BY <1>1, <2>1 DEF Enumerates
<1> HIDE DEF n, longer, own2, lists2, index2
<1>6. ASSUME NEW v \in Users, NEW i \in 1 .. Len(lists2[v])
      PROVE  own2[lists2[v][i]] = v /\ index2[lists2[v][i]] = i - 1
  <2>1. CASE v = u /\ i = n + 1
    BY <1>2, <1>3, <1>4, <2>1
  <2>2. CASE v = u /\ i # n + 1
    <3>1. i \in 1 .. n /\ lists2[v][i] = lists[u][i]
      BY <1>2, <1>3, <1>4, <2>2
    <3>2. /\ lists[u][i] \in Ids \ {id} /\ own[lists[u][i]] = u
          /\ index[lists[u][i]] = i - 1
      BY <1>5, <3>1 DEF n
    <3> QED BY <1>4, <2>2, <3>1, <3>2
  <2>3. CASE v # u
    <3>1. lists2[v] = lists[v] /\ i \in 1 .. Len(lists[v])
      BY <1>4, <2>3
    <3>2. /\ lists[v][i] \in Ids \ {id} /\ own[lists[v][i]] = v
          /\ index[lists[v][i]] = i - 1
      BY <1>5, <3>1
    <3> QED BY <1>4, <3>1, <3>2
  <2> QED BY <2>1, <2>2, <2>3
<1>7. ASSUME NEW j \in Ids, own2[j] # None
      PROVE  index2[j] < Len(lists2[own2[j]]) /\ lists2[own2[j]][index2[j] + 1] = j
  <2>1. CASE j = id
    BY <1>2, <1>3, <1>4, <2>1
  <2>2. CASE j # id
    <3>1. own2[j] = own[j] /\ index2[j] = index[j] /\ own[j] \in Users /\ index[j] \in Nat
      BY <1>1, <1>4, <1>7, <2>2
    <3>2. index[j] < Len(lists[own[j]]) /\ lists[own[j]][index[j] + 1] = j
      BY <1>7, <3>1 DEF Enumerates
    <3>3. CASE own[j] = u
      <4>1. index[j] + 1 \in 1 .. n /\ index[j] < n + 1
        BY <1>2, <3>1, <3>2, <3>3 DEF n
      <4> QED BY <1>3, <1>4, <3>1, <3>2, <3>3, <4>1
    <3>4. CASE own[j] # u
      BY <1>4, <3>1, <3>2, <3>4
    <3> QED BY <3>3, <3>4
  <2> QED BY <2>1, <2>2
<1> QED BY <1>4, <1>6, <1>7 DEF Enumerates, own2, lists2, index2, longer, n

\* What enumerates has the length of what is enumerated.
LEMMA ListedExact == Listed => OwnedListsExact
<1> SUFFICES ASSUME Listed, NEW u \in Users
             PROVE  /\ Len(owned[u]) = Cardinality(OwnedBy(u))
                    /\ \A id \in OwnedBy(u) :
                            ownedIndex[id] < Len(owned[u]) /\ owned[u][ownedIndex[id] + 1] = id
  BY DEF OwnedListsExact
<1> DEFINE n == Len(owned[u])
           f == [i \in 1 .. n |-> owned[u][i]]
<1>1. /\ u # None /\ owned[u] \in Seq(Ids) /\ n \in Nat /\ ownedIndex \in [Ids -> Nat]
  BY LockAssumption, LenProperties DEF Listed, Enumerates
<1>2. \A id \in OwnedBy(u) :
            id \in Ids /\ ownedIndex[id] < n /\ owned[u][ownedIndex[id] + 1] = id
  BY <1>1 DEF Listed, Enumerates, OwnedBy
<1>3. \A i \in 1 .. n : f[i] \in OwnedBy(u) /\ ownedIndex[f[i]] = i - 1
  BY <1>1, ElementOfSeq DEF Listed, Enumerates, OwnedBy
<1> HIDE DEF n
<1>4. f \in Bijection(1 .. n, OwnedBy(u))
  <2>1. f \in [1 .. n -> OwnedBy(u)]
    BY <1>3
  <2>2. \A i, j \in 1 .. n : f[i] = f[j] => i = j
    <3> SUFFICES ASSUME NEW i \in 1 .. n, NEW j \in 1 .. n, f[i] = f[j] PROVE i = j
      OBVIOUS
    <3>1. i - 1 = j - 1
      BY <1>3
    <3> QED BY <3>1
  <2>3. \A id \in OwnedBy(u) : \E i \in 1 .. n : f[i] = id
    <3> SUFFICES ASSUME NEW id \in OwnedBy(u) PROVE \E i \in 1 .. n : f[i] = id
      OBVIOUS
    <3>1. ownedIndex[id] + 1 \in 1 .. n /\ owned[u][ownedIndex[id] + 1] = id
      BY <1>1, <1>2
    <3> QED BY <3>1
  <2> HIDE DEF f
  <2> QED BY <2>1, <2>2, <2>3 DEF Bijection, Injection, IsInjective, Surjection
<1>5. IsFiniteSet(1 .. n) /\ Cardinality(1 .. n) = n
  <2>1. Cardinality(1 .. n) = IF 1 > n THEN 0 ELSE n - 1 + 1
    BY <1>1, FS_Interval
  <2> QED BY <1>1, <2>1, FS_Interval
<1>6. Cardinality(OwnedBy(u)) = n
  BY <1>4, <1>5, FS_Bijection DEF ExistsBijection
<1> QED BY <1>2, <1>6 DEF n

-----------------------------------------------------------------------------
(* Types, and what a token that does not exist has *)

Locks == [amount : Nat, end : Nat]
Aggregates == [bias : Int, slope : Int]

TypeOK ==
    /\ now \in Nat \ {0} /\ nextTokenId \in Nat \ {0}
    /\ lock \in [Ids -> Locks]
    /\ accumulated \in [Ids -> Int] /\ checkpointed \in [Ids -> Nat]
    /\ votes \in [Users -> Aggregates] /\ totalVotes \in Aggregates
    /\ balance \in [escrow : Int, rewards : Int, treasury : Int]

Tidy ==
    /\ \A id \in Ids : id >= nextTokenId => owner[id] = None
    /\ \A id \in Ids : IF owner[id] = None THEN lock[id] = NoLock /\ checkpointed[id] = 0
                       ELSE checkpointed[id] \in 1 .. now

Base == TypeOK /\ Listed /\ Tidy

LEMMA BaseInit == Init => Base
<1> SUFFICES ASSUME Init PROVE Base
  OBVIOUS
<1>1. TypeOK
  BY LockAssumption DEF Init, TypeOK, Locks, Aggregates, NoLock, NoVotes
<1>2. Listed
  <2>1. /\ owner = [id \in Ids |-> None] /\ owned = [u \in Users |-> <<>>]
        /\ ownedIndex = [id \in Ids |-> 0]
    BY DEF Init
  <2>2. <<>> \in Seq(Ids) /\ Len(<<>>) = 0
    BY EmptySeq
  <2> QED BY <2>1, <2>2 DEF Listed, Enumerates
<1>3. Tidy
  BY DEF Init, Tidy
<1> QED BY <1>1, <1>2, <1>3 DEF Base

\* The end of a lock is a whole number of weeks.
LEMMA LockEndNat ==
    ASSUME now \in Nat, NEW duration \in Nat
    PROVE  LockEnd(duration) \in Nat
<1> DEFINE weeks == (now + duration) \div Week
<1>1. Week \in Nat \ {0}
  BY LockAssumption
<1>2. weeks \in Nat
  <2>1. now + duration \in Nat
    OBVIOUS
  <2> QED BY <1>1, <2>1
<1> HIDE DEF weeks
<1>3. weeks * Week \in Nat
  BY <1>1, <1>2
<1> QED BY <1>3 DEF LockEnd, weeks

LEMMA EarnedInt ==
    ASSUME NEW l \in Locks, NEW from \in Int, NEW until \in Int
    PROVE  Earned(l, from, until) \in Int
<1> DEFINE to == IF until < l.end THEN until ELSE l.end
           area == l.amount * (to - from) * ((l.end - from) + (l.end - to))
<1>1. l.amount \in Int /\ l.end \in Int /\ to \in Int
  BY DEF Locks
<1>2. area \in Int
  <2>1. to - from \in Int /\ (l.end - from) + (l.end - to) \in Int
    BY <1>1
  <2>2. l.amount * (to - from) \in Int
    BY <1>1, <2>1
  <2> QED BY <2>1, <2>2
<1>3. 2 * MaxLock \in Nat \ {0}
  BY LockAssumption
<1>4. Earned(l, from, until) = IF from >= to THEN 0 ELSE area \div (2 * MaxLock)
  BY DEF Earned
<1> HIDE DEF area
<1>5. area \div (2 * MaxLock) \in Int
  BY <1>2, <1>3
<1> QED BY <1>4, <1>5

LEMMA PowerTimeInt ==
    ASSUME TypeOK, NEW id \in Ids
    PROVE  VotingPowerTime(id) \in Int
<1>1. Earned(lock[id], checkpointed[id], now) \in Int
  BY EarnedInt DEF TypeOK
<1> QED BY <1>1 DEF VotingPowerTime, TypeOK

LEMMA AggregateOps ==
    ASSUME NEW v \in Aggregates, NEW l \in Locks
    PROVE  /\ Plus(v, l) \in Aggregates /\ Minus(v, l) \in Aggregates
           /\ l.amount * l.end \in Int
<1>1. /\ l.amount * l.end \in Int /\ l.amount \in Int /\ v.bias \in Int /\ v.slope \in Int
  BY DEF Aggregates, Locks
<1> QED BY <1>1 DEF Plus, Minus, Aggregates

\* A checkpoint of the power time keeps the types and what is known of it.
LEMMA CheckpointBase ==
    ASSUME Base, NEW id \in Ids, owner[id] # None, CheckpointPower(id)
    PROVE  /\ accumulated' \in [Ids -> Int] /\ checkpointed' \in [Ids -> Nat]
           /\ checkpointed'[id] = now
           /\ \A j \in Ids \ {id} : checkpointed'[j] = checkpointed[j]
<1>1. VotingPowerTime(id) \in Int /\ now \in Nat /\ checkpointed[id] # 0
  BY PowerTimeInt DEF Base, Tidy, TypeOK
<1> QED BY <1>1 DEF CheckpointPower, Base, TypeOK

LEMMA CreateLockBase ==
    ASSUME Base, NEW u \in Users, NEW amount \in Amounts, NEW duration \in Durations,
           CreateLock(u, amount, duration)
    PROVE  Base'
<1> DEFINE id == nextTokenId
           l == [amount |-> amount, end |-> LockEnd(duration)]
<1>1. /\ id \in Ids /\ owner[id] = None /\ now \in Nat \ {0} /\ amount \in Nat
      /\ u # None
  BY SMTT(30), LockAssumption DEF CreateLock, Base, TypeOK, Tidy, Ids
<1>2. l \in Locks
  BY <1>1, LockAssumption, LockEndNat DEF Locks
<1>3. /\ nextTokenId' = id + 1 /\ lock' = [lock EXCEPT ![id] = l]
      /\ checkpointed' = [checkpointed EXCEPT ![id] = now]
      /\ owner' = [owner EXCEPT ![id] = u]
      /\ owned' = [owned EXCEPT ![u] = Append(@, id)]
      /\ ownedIndex' = [ownedIndex EXCEPT ![id] = Len(owned[u])]
      /\ votes' = [votes EXCEPT ![u] = Plus(@, l)] /\ totalVotes' = Plus(totalVotes, l)
      /\ balance' = [balance EXCEPT !.escrow = @ + amount]
      /\ UNCHANGED <<now, accumulated>>
  BY DEF CreateLock, List
<1> HIDE DEF id, l
<1>4. Listed'
  BY <1>1, <1>3, ListEnumerates DEF Base, Listed
<1>5. TypeOK'
  <2>1. Plus(votes[u], l) \in Aggregates /\ Plus(totalVotes, l) \in Aggregates
    BY <1>2, AggregateOps DEF Base, TypeOK
  <2>2. balance' \in [escrow : Int, rewards : Int, treasury : Int]
    <3>1. /\ balance \in [escrow : Int, rewards : Int, treasury : Int] /\ amount \in Int
          /\ balance' = [balance EXCEPT !.escrow = @ + amount]
      BY <1>1, <1>3 DEF Base, TypeOK
    <3> QED BY <3>1
  <2>3. nextTokenId' \in Nat \ {0}
    BY <1>3 DEF Base, TypeOK, id
  <2> QED BY <1>1, <1>2, <1>3, <2>1, <2>2, <2>3 DEF Base, TypeOK
<1>6. Tidy'
  <2>1. checkpointed'[id] = now /\ owner'[id] = u /\ lock'[id] = l
    BY <1>1, <1>3 DEF Base, TypeOK, Listed, Enumerates
  <2>2. \A j \in Ids \ {id} : /\ checkpointed'[j] = checkpointed[j] /\ owner'[j] = owner[j]
                              /\ lock'[j] = lock[j]
    BY <1>3 DEF Base, TypeOK, Listed, Enumerates
  <2>3. \A j \in Ids : j >= id + 1 => j # id /\ j >= nextTokenId
    BY <1>1 DEF id, Ids
  <2> QED BY <1>1, <1>3, <2>1, <2>2, <2>3 DEF Base, Tidy
<1> QED BY <1>4, <1>5, <1>6 DEF Base

LEMMA RelockBase ==
    ASSUME Base, NEW id \in Ids, owner[id] # None, NEW l \in Locks, Relock(id, l),
           balance' \in [escrow : Int, rewards : Int, treasury : Int]
    PROVE  Base'
<1>1. /\ CheckpointPower(id) /\ lock' = [lock EXCEPT ![id] = l]
      /\ votes' = [votes EXCEPT ![owner[id]] = Plus(Minus(@, lock[id]), l)]
      /\ totalVotes' = Plus(Minus(totalVotes, lock[id]), l)
      /\ UNCHANGED <<now, nextTokenId, owner, owned, ownedIndex>>
  BY DEF Relock
<1>2. Listed'
  BY <1>1 DEF Base, Listed, Enumerates
<1>3. TypeOK'
  <2>1. lock[id] \in Locks /\ owner[id] \in Users /\ votes[owner[id]] \in Aggregates
        /\ totalVotes \in Aggregates
    BY DEF Base, TypeOK, Listed, Enumerates
  <2>2. /\ Plus(Minus(votes[owner[id]], lock[id]), l) \in Aggregates
        /\ Plus(Minus(totalVotes, lock[id]), l) \in Aggregates
    BY <2>1, AggregateOps
  <2>3. accumulated' \in [Ids -> Int] /\ checkpointed' \in [Ids -> Nat]
    BY <1>1, CheckpointBase
  <2> QED BY <1>1, <2>1, <2>2, <2>3 DEF Base, TypeOK
<1>4. Tidy'
  <2>1. checkpointed'[id] = now /\ \A j \in Ids \ {id} : checkpointed'[j] = checkpointed[j]
    BY <1>1, CheckpointBase
  <2>2. \A j \in Ids \ {id} : lock'[j] = lock[j]
    BY <1>1 DEF Base, TypeOK
  <2> QED BY <1>1, <2>1, <2>2 DEF Base, TypeOK, Tidy
<1> QED BY <1>2, <1>3, <1>4 DEF Base

LEMMA TransferBase ==
    ASSUME Base, NEW id \in Ids, NEW to \in Users, Transfer(id, to)
    PROVE  Base'
<1> DEFINE from == owner[id]
           rest == Unlist(id)
           own == [owner EXCEPT ![id] = None]
<1>1. /\ from # None /\ to # None
      /\ owner' = [owner EXCEPT ![id] = to]
      /\ owned' = [rest.lists EXCEPT ![to] = Append(@, id)]
      /\ ownedIndex' = [rest.index EXCEPT ![id] = Len(rest.lists[to])]
      /\ UNCHANGED <<now, nextTokenId, lock, totalVotes, balance>>
  BY LockAssumption DEF Transfer, List
<1>2. Listed'
  <2>1. Enumerates(own, rest.lists, rest.index) /\ own[id] = None
    BY <1>1, UnlistEnumerates DEF Base, Listed, Enumerates
  <2>2. owner' = [own EXCEPT ![id] = to]
    BY <1>1 DEF Base, Listed, Enumerates
  <2> DEFINE lists == rest.lists
             index == rest.index
  <2> HIDE DEF own, lists, index
  <2>3. Enumerates([own EXCEPT ![id] = to], [lists EXCEPT ![to] = Append(@, id)],
                   [index EXCEPT ![id] = Len(lists[to])])
    BY <2>1, ListEnumerates DEF lists, index
  <2> QED BY <1>1, <2>2, <2>3 DEF Listed, lists, index
<1>3. CASE to = from
  <2>1. UNCHANGED <<accumulated, checkpointed, votes>>
    BY <1>3 DEF Transfer
  <2>2. owner' = owner
    BY <1>1, <1>3 DEF Base, Listed, Enumerates
  <2> QED BY <1>1, <1>2, <2>1, <2>2 DEF Base, TypeOK, Tidy
<1>4. CASE to # from
  <2>1. /\ CheckpointPower(id)
        /\ votes' = [votes EXCEPT ![from] = Minus(@, lock[id]), ![to] = Plus(@, lock[id])]
    BY <1>4 DEF Transfer
  <2>2. /\ accumulated' \in [Ids -> Int] /\ checkpointed' \in [Ids -> Nat]
        /\ checkpointed'[id] = now
        /\ \A j \in Ids \ {id} : checkpointed'[j] = checkpointed[j]
    BY <1>1, <2>1, CheckpointBase
  <2>3. votes' \in [Users -> Aggregates]
    <3>1. from \in Users /\ lock[id] \in Locks /\ votes \in [Users -> Aggregates]
      BY <1>1 DEF Base, TypeOK, Listed, Enumerates
    <3>2. Minus(votes[from], lock[id]) \in Aggregates /\ Plus(votes[to], lock[id]) \in Aggregates
      BY <3>1, AggregateOps
    <3> HIDE DEF from
    <3> QED BY <1>4, <2>1, <3>1, <3>2
  <2>4. TypeOK'
    BY <1>1, <2>2, <2>3 DEF Base, TypeOK
  <2>5. owner'[id] = to /\ \A j \in Ids \ {id} : owner'[j] = owner[j]
    BY <1>1 DEF Base, Listed, Enumerates
  <2>6. Tidy'
    BY <1>1, <2>2, <2>5 DEF Base, TypeOK, Tidy
  <2> QED BY <1>2, <2>4, <2>6 DEF Base
<1> QED BY <1>3, <1>4

LEMMA WithdrawBase ==
    ASSUME Base, NEW id \in Ids, Withdraw(id)
    PROVE  Base'
<1> DEFINE u == owner[id]
<1>1. /\ u # None /\ owner' = [owner EXCEPT ![id] = None]
      /\ accumulated' = [accumulated EXCEPT ![id] = VotingPowerTime(id)]
      /\ checkpointed' = [checkpointed EXCEPT ![id] = 0]
      /\ lock' = [lock EXCEPT ![id] = NoLock]
      /\ owned' = Unlist(id).lists /\ ownedIndex' = Unlist(id).index
      /\ votes' = [votes EXCEPT ![u] = Minus(@, lock[id])]
      /\ totalVotes' = Minus(totalVotes, lock[id])
      /\ UNCHANGED <<now, nextTokenId>>
  BY DEF Withdraw
<1>2. Listed'
  BY <1>1, UnlistEnumerates DEF Base, Listed
<1>3. lock[id] \in Locks /\ lock[id].amount \in Int /\ NoLock \in Locks
  BY DEF Base, TypeOK, Locks, NoLock
<1>4. balance' \in [escrow : Int, rewards : Int, treasury : Int]
  <2> DEFINE amount == lock[id].amount
             fee == Fee(amount)
             share == RewardShare(amount)
  <2>1. fee \in Int /\ share \in Int
    <3>1. Bps \in Nat \ {0} /\ FeeBps \in Int /\ RewardShareBps \in Int
      BY LockAssumption
    <3>2. amount * FeeBps \in Int
      BY <1>3, <3>1
    <3>3. fee \in Int
      BY <3>1, <3>2 DEF Fee
    <3> HIDE DEF fee
    <3>4. fee * RewardShareBps \in Int
      BY <3>1, <3>3
    <3> QED BY <3>1, <3>3, <3>4 DEF RewardShare, fee
  <2>2. balance' = IF now < lock[id].end
                   THEN [escrow |-> balance.escrow - amount, rewards |-> balance.rewards + share,
                         treasury |-> balance.treasury + fee - share]
                   ELSE [balance EXCEPT !.escrow = @ - amount]
    BY DEF Withdraw
  <2>3. /\ balance.escrow - amount \in Int /\ balance.rewards + share \in Int
        /\ balance.treasury + fee - share \in Int
    BY <1>3, <2>1 DEF Base, TypeOK
  <2> HIDE DEF amount, fee, share
  <2> QED BY <2>2, <2>3 DEF Base, TypeOK
<1>5. TypeOK'
  <2>1. u \in Users /\ Minus(votes[u], lock[id]) \in Aggregates /\ Minus(totalVotes, lock[id]) \in Aggregates
    BY <1>1, <1>3, AggregateOps DEF Base, TypeOK, Listed, Enumerates
  <2>2. VotingPowerTime(id) \in Int
    BY PowerTimeInt DEF Base
  <2> QED BY <1>1, <1>3, <1>4, <2>1, <2>2 DEF Base, TypeOK
<1>6. Tidy'
  <2>1. owner'[id] = None /\ lock'[id] = NoLock /\ checkpointed'[id] = 0
    BY <1>1 DEF Base, TypeOK, Listed, Enumerates
  <2>2. \A j \in Ids \ {id} : /\ checkpointed'[j] = checkpointed[j] /\ owner'[j] = owner[j]
                              /\ lock'[j] = lock[j]
    BY <1>1 DEF Base, TypeOK, Listed, Enumerates
  <2> QED BY <1>1, <2>1, <2>2 DEF Base, Tidy
<1> QED BY <1>2, <1>5, <1>6 DEF Base

LEMMA BaseNext == Base /\ [Next]_vars => Base'
<1> SUFFICES ASSUME Base, [Next]_vars PROVE Base'
  OBVIOUS
<1>1. CASE UNCHANGED vars
  BY <1>1 DEF vars, tokenVars, voteVars, Base, TypeOK, Listed, Enumerates, Tidy
<1>2. ASSUME NEW id \in Ids, NEW n \in Amounts, IncreaseAmount(id, n) PROVE Base'
  <2>1. n \in Nat /\ lock[id] \in Locks
    BY LockAssumption DEF Base, TypeOK
  <2>2. [lock[id] EXCEPT !.amount = @ + n] \in Locks
    BY <2>1 DEF Locks
  <2>3. balance' \in [escrow : Int, rewards : Int, treasury : Int]
    BY <1>2, <2>1 DEF IncreaseAmount, Base, TypeOK
  <2> QED BY <1>2, <2>2, <2>3, RelockBase DEF IncreaseAmount
<1>3. ASSUME NEW id \in Ids, NEW d \in Durations, ExtendLock(id, d) PROVE Base'
  <2>1. LockEnd(d) \in Nat /\ lock[id] \in Locks
    BY LockAssumption, LockEndNat DEF Base, TypeOK
  <2>2. [lock[id] EXCEPT !.end = LockEnd(d)] \in Locks
    BY <2>1 DEF Locks
  <2>3. balance' \in [escrow : Int, rewards : Int, treasury : Int]
    BY <1>3 DEF ExtendLock, Base, TypeOK
  <2> QED BY <1>3, <2>2, <2>3, RelockBase DEF ExtendLock
<1>4. ASSUME NEW id \in Ids, CheckpointVotingPower(id) PROVE Base'
  <2>1. /\ owner[id] # None /\ CheckpointPower(id)
        /\ UNCHANGED <<now, nextTokenId, owner, lock, owned, ownedIndex, votes, totalVotes, balance>>
    BY <1>4 DEF CheckpointVotingPower, voteVars
  <2>2. /\ accumulated' \in [Ids -> Int] /\ checkpointed' \in [Ids -> Nat]
        /\ checkpointed'[id] = now
        /\ \A j \in Ids \ {id} : checkpointed'[j] = checkpointed[j]
    BY <2>1, CheckpointBase
  <2>3. Listed'
    BY <2>1 DEF Base, Listed, Enumerates
  <2> QED BY <2>1, <2>2, <2>3 DEF Base, TypeOK, Tidy
<1>5. CASE SetRewardsController
  BY <1>5 DEF SetRewardsController, tokenVars, voteVars, Base, TypeOK, Listed, Enumerates, Tidy
<1>6. CASE Advance
  <2>1. now' = now + 1 /\ UNCHANGED <<tokenVars, voteVars, balance>>
    BY <1>6 DEF Advance
  <2>2. TypeOK' /\ Listed'
    BY <2>1 DEF tokenVars, voteVars, Base, TypeOK, Listed, Enumerates
  <2>3. Tidy'
    BY <2>1 DEF tokenVars, voteVars, Base, TypeOK, Tidy
  <2> QED BY <2>2, <2>3 DEF Base
<1> QED BY <1>1, <1>2, <1>3, <1>4, <1>5, <1>6, CreateLockBase, TransferBase, WithdrawBase DEF Next

(* The list of an account enumerates its tokens, each at the index recorded *)
(* for it, through any order of transfers, to oneself too, and withdrawals. *)
THEOREM ListsCorrect == Spec => []OwnedListsExact
<1>1. Base => OwnedListsExact
  BY ListedExact DEF Base
<1> QED BY BaseInit, BaseNext, <1>1, PTL DEF Spec

-----------------------------------------------------------------------------
(* The aggregates *)

AmountOf == [id \in Ids |-> lock[id].amount]
HeldAmount(u) == [id \in Ids |-> IF owner[id] = u THEN lock[id].amount ELSE 0]
HeldBias(u) == [id \in Ids |-> IF owner[id] = u THEN lock[id].amount * lock[id].end ELSE 0]
Slopes == [u \in Users |-> votes[u].slope]
Biases == [u \in Users |-> votes[u].bias]

VotesAreSums ==
    \A u \in Users : /\ votes[u].slope = SumFunction(HeldAmount(u))
                     /\ votes[u].bias = SumFunction(HeldBias(u))
TotalIsSum ==
    /\ totalVotes.slope = SumFunction(Slopes) /\ totalVotes.bias = SumFunction(Biases)
EscrowIsSum == balance.escrow = SumFunction(AmountOf)

Sums == VotesAreSums /\ TotalIsSum /\ EscrowIsSum

LEMMA IdsFinite == IsFiniteSet(Ids)
<1>1. IsFiniteSet(1 .. MaxTokens)
  BY LockAssumption, FS_Interval
<1> QED BY <1>1 DEF Ids

LEMMA TermTypes ==
    ASSUME Base
    PROVE  /\ AmountOf \in [Ids -> Int] /\ Slopes \in [Users -> Int] /\ Biases \in [Users -> Int]
           /\ \A u \in Users : HeldAmount(u) \in [Ids -> Int] /\ HeldBias(u) \in [Ids -> Int]
<1>1. ASSUME NEW id \in Ids
      PROVE  /\ lock[id].amount \in Int /\ lock[id].end \in Int
             /\ lock[id].amount * lock[id].end \in Int
  <2>1. lock[id] \in Locks
    BY DEF Base, TypeOK
  <2>2. lock[id].amount \in Int /\ lock[id].end \in Int
    BY <2>1 DEF Locks
  <2> QED BY <2>2
<1>2. \A u \in Users : votes[u].slope \in Int /\ votes[u].bias \in Int
  BY DEF Base, TypeOK, Aggregates
<1>3. AmountOf \in [Ids -> Int] /\ \A u \in Users : HeldAmount(u) \in [Ids -> Int]
  BY <1>1 DEF AmountOf, HeldAmount
<1>4. \A u \in Users : HeldBias(u) \in [Ids -> Int]
  BY <1>1 DEF HeldBias
<1> QED BY <1>2, <1>3, <1>4 DEF Slopes, Biases

LEMMA TermTypesNext == (Base =>
           /\ AmountOf \in [Ids -> Int] /\ Slopes \in [Users -> Int] /\ Biases \in [Users -> Int]
           /\ \A u \in Users : HeldAmount(u) \in [Ids -> Int] /\ HeldBias(u) \in [Ids -> Int])'
<1>1. Base =>
           /\ AmountOf \in [Ids -> Int] /\ Slopes \in [Users -> Int] /\ Biases \in [Users -> Int]
           /\ \A u \in Users : HeldAmount(u) \in [Ids -> Int] /\ HeldBias(u) \in [Ids -> Int]
  BY TermTypes
<1> QED BY <1>1, PTL

\* A step that touches one position, and the aggregates by what it changes there.
LEMMA HeldUpdate ==
    ASSUME Base, Base', VotesAreSums, NEW id \in Ids,
           \A j \in Ids \ {id} : owner'[j] = owner[j] /\ lock'[j] = lock[j],
           \A u \in Users :
             /\ votes'[u].slope = votes[u].slope - HeldAmount(u)[id] + HeldAmount(u)'[id]
             /\ votes'[u].bias = votes[u].bias - HeldBias(u)[id] + HeldBias(u)'[id]
    PROVE  VotesAreSums'
<1> SUFFICES ASSUME NEW u \in Users
             PROVE  /\ votes'[u].slope = SumFunction(HeldAmount(u)')
                    /\ votes'[u].bias = SumFunction(HeldBias(u)')
  BY DEF VotesAreSums
<1>1. /\ HeldAmount(u) \in [Ids -> Int] /\ HeldBias(u) \in [Ids -> Int]
      /\ HeldAmount(u)' \in [Ids -> Int] /\ HeldBias(u)' \in [Ids -> Int]
  BY TermTypes, TermTypesNext
<1>2. \A j \in Ids \ {id} : HeldAmount(u)'[j] = HeldAmount(u)[j]
  BY DEF HeldAmount
<1>3. \A j \in Ids \ {id} : HeldBias(u)'[j] = HeldBias(u)[j]
  BY DEF HeldBias
<1>4. SumFunction(HeldAmount(u)') = SumFunction(HeldAmount(u)) - HeldAmount(u)[id] + HeldAmount(u)'[id]
  BY <1>1, <1>2, IdsFinite, SumFunctionUpdate
<1>5. SumFunction(HeldBias(u)') = SumFunction(HeldBias(u)) - HeldBias(u)[id] + HeldBias(u)'[id]
  BY <1>1, <1>3, IdsFinite, SumFunctionUpdate
<1> QED BY <1>4, <1>5 DEF VotesAreSums

LEMMA EscrowUpdate ==
    ASSUME Base, Base', EscrowIsSum, NEW id \in Ids,
           \A j \in Ids \ {id} : lock'[j] = lock[j],
           balance'.escrow = balance.escrow - lock[id].amount + lock'[id].amount
    PROVE  EscrowIsSum'
<1>1. AmountOf \in [Ids -> Int] /\ AmountOf' \in [Ids -> Int]
  BY TermTypes, TermTypesNext
<1>2. \A j \in Ids \ {id} : AmountOf'[j] = AmountOf[j]
  BY DEF AmountOf
<1>3. SumFunction(AmountOf') = SumFunction(AmountOf) - AmountOf[id] + AmountOf'[id]
  BY <1>1, <1>2, IdsFinite, SumFunctionUpdate
<1>4. AmountOf[id] = lock[id].amount /\ AmountOf'[id] = lock'[id].amount
  BY DEF AmountOf
<1> QED BY <1>3, <1>4 DEF EscrowIsSum

LEMMA TotalUpdate ==
    ASSUME Base, Base', TotalIsSum, NEW u \in Users,
           \A v \in Users \ {u} : votes'[v] = votes[v],
           totalVotes'.slope = totalVotes.slope - votes[u].slope + votes'[u].slope,
           totalVotes'.bias = totalVotes.bias - votes[u].bias + votes'[u].bias
    PROVE  TotalIsSum'
<1>1. /\ Slopes \in [Users -> Int] /\ Slopes' \in [Users -> Int] /\ IsFiniteSet(Users)
      /\ Biases \in [Users -> Int] /\ Biases' \in [Users -> Int]
  BY TermTypes, TermTypesNext, LockAssumption
<1>2. SumFunction(Slopes') = SumFunction(Slopes) - Slopes[u] + Slopes'[u]
  <2>1. \A v \in Users \ {u} : Slopes'[v] = Slopes[v]
    BY DEF Slopes
  <2> QED BY <1>1, <2>1, SumFunctionUpdate
<1>3. SumFunction(Biases') = SumFunction(Biases) - Biases[u] + Biases'[u]
  <2>1. \A v \in Users \ {u} : Biases'[v] = Biases[v]
    BY DEF Biases
  <2> QED BY <1>1, <2>1, SumFunctionUpdate
<1>4. /\ Slopes[u] = votes[u].slope /\ Slopes'[u] = votes'[u].slope
      /\ Biases[u] = votes[u].bias /\ Biases'[u] = votes'[u].bias
  BY DEF Slopes, Biases
<1> QED BY <1>2, <1>3, <1>4 DEF TotalIsSum

\* Votes that move from one account to another leave the total as it is.
LEMMA TotalKept ==
    ASSUME Base, Base', TotalIsSum, NEW u \in Users, NEW w \in Users, u # w,
           \A v \in Users \ {u, w} : votes'[v] = votes[v], totalVotes' = totalVotes,
           votes'[u].slope + votes'[w].slope = votes[u].slope + votes[w].slope,
           votes'[u].bias + votes'[w].bias = votes[u].bias + votes[w].bias
    PROVE  TotalIsSum'
<1>1. /\ Slopes \in [Users -> Int] /\ Slopes' \in [Users -> Int] /\ IsFiniteSet(Users)
      /\ Biases \in [Users -> Int] /\ Biases' \in [Users -> Int]
  BY TermTypes, TermTypesNext, LockAssumption
<1>2. SumFunction(Slopes') =
        SumFunction(Slopes) - Slopes[u] - Slopes[w] + Slopes'[u] + Slopes'[w]
  <2>1. \A v \in Users \ {u, w} : Slopes'[v] = Slopes[v]
    BY DEF Slopes
  <2> QED BY <1>1, <2>1, SumFunctionUpdateTwo
<1>3. SumFunction(Biases') =
        SumFunction(Biases) - Biases[u] - Biases[w] + Biases'[u] + Biases'[w]
  <2>1. \A v \in Users \ {u, w} : Biases'[v] = Biases[v]
    BY DEF Biases
  <2> QED BY <1>1, <2>1, SumFunctionUpdateTwo
<1>4. /\ Slopes'[u] + Slopes'[w] = Slopes[u] + Slopes[w]
      /\ Biases'[u] + Biases'[w] = Biases[u] + Biases[w]
  BY DEF Slopes, Biases
<1>5. SumFunction(Slopes) \in Int /\ SumFunction(Biases) \in Int
  BY <1>1, SumInt, SumOverDomain
<1>6. /\ Slopes[u] \in Int /\ Slopes[w] \in Int /\ Slopes'[u] \in Int /\ Slopes'[w] \in Int
      /\ Biases[u] \in Int /\ Biases[w] \in Int /\ Biases'[u] \in Int /\ Biases'[w] \in Int
  BY <1>1
<1>7. SumFunction(Slopes') = SumFunction(Slopes) /\ SumFunction(Biases') = SumFunction(Biases)
  BY <1>2, <1>3, <1>4, <1>5, <1>6
<1> QED BY <1>7 DEF TotalIsSum

LEMMA SumsInit == Init => Sums
<1> SUFFICES ASSUME Init PROVE Sums
  OBVIOUS
<1>1. IsFiniteSet(Users) /\ IsFiniteSet(Ids) /\ None \notin Users
  BY LockAssumption, IdsFinite
<1>2. ASSUME NEW u \in Users
      PROVE  SumFunction(HeldAmount(u)) = 0 /\ SumFunction(HeldBias(u)) = 0
  <2>1. \A id \in Ids : HeldAmount(u)[id] = 0 /\ HeldBias(u)[id] = 0
    BY <1>1 DEF Init, HeldAmount, HeldBias
  <2>2. DOMAIN HeldAmount(u) = Ids /\ DOMAIN HeldBias(u) = Ids
    BY DEF HeldAmount, HeldBias
  <2> QED BY <1>1, <2>1, <2>2, SumFunctionZero
<1>3. SumFunction(Slopes) = 0 /\ SumFunction(Biases) = 0
  <2>1. /\ \A u \in Users : Slopes[u] = 0 /\ Biases[u] = 0
        /\ DOMAIN Slopes = Users /\ DOMAIN Biases = Users
    BY DEF Init, Slopes, Biases, NoVotes
  <2> QED BY <1>1, <2>1, SumFunctionZero
<1>4. SumFunction(AmountOf) = 0
  <2>1. DOMAIN AmountOf = Ids /\ \A id \in Ids : AmountOf[id] = 0
    BY DEF Init, AmountOf, NoLock
  <2> QED BY <1>1, <2>1, SumFunctionZero
<1> QED BY <1>2, <1>3, <1>4 DEF Init, NoVotes, Sums, VotesAreSums, TotalIsSum, EscrowIsSum

\* A step that leaves the positions and the aggregates as they are.
LEMMA SumsStay ==
    ASSUME Sums, UNCHANGED <<owner, lock, votes, totalVotes>>, balance'.escrow = balance.escrow
    PROVE  Sums'
BY DEF Sums, VotesAreSums, TotalIsSum, EscrowIsSum, HeldAmount, HeldBias, Slopes, Biases, AmountOf

LEMMA CreateLockSums ==
    ASSUME Base, Base', Sums, NEW u \in Users, NEW amount \in Amounts, NEW duration \in Durations,
           CreateLock(u, amount, duration)
    PROVE  Sums'
<1> DEFINE id == nextTokenId
           l == [amount |-> amount, end |-> LockEnd(duration)]
<1>1. /\ id \in Ids /\ owner[id] = None /\ lock[id] = NoLock /\ None \notin Users
  <2>1. id \in Ids /\ id >= nextTokenId
    BY LockAssumption DEF CreateLock, Base, TypeOK, Ids
  <2> HIDE DEF id
  <2> QED BY <2>1, LockAssumption DEF Base, Tidy
<1>2. /\ lock' = [lock EXCEPT ![id] = l] /\ owner' = [owner EXCEPT ![id] = u]
      /\ votes' = [votes EXCEPT ![u] = Plus(@, l)] /\ totalVotes' = Plus(totalVotes, l)
      /\ balance' = [balance EXCEPT !.escrow = @ + amount]
  BY DEF CreateLock
<1>3. l \in Locks /\ l.amount = amount
  <2>1. lock'[id] = l /\ lock'[id] \in Locks
    BY <1>1, <1>2 DEF Base, TypeOK
  <2> QED BY <2>1
<1> HIDE DEF id, l
<1>4. /\ lock'[id] = l /\ owner'[id] = u
      /\ \A j \in Ids \ {id} : owner'[j] = owner[j] /\ lock'[j] = lock[j]
  BY <1>1, <1>2 DEF Base, TypeOK, Listed, Enumerates
<1>5. /\ votes'[u].slope = votes[u].slope + l.amount
      /\ votes'[u].bias = votes[u].bias + l.amount * l.end
      /\ totalVotes'.slope = totalVotes.slope + l.amount
      /\ totalVotes'.bias = totalVotes.bias + l.amount * l.end
      /\ \A v \in Users \ {u} : votes'[v] = votes[v]
  BY <1>2 DEF Base, TypeOK, Plus
<1>6. l.amount \in Int /\ l.amount * l.end \in Int
  BY <1>3, AggregateOps DEF Base, TypeOK, Locks
<1>7. /\ \A v \in Users : votes[v].slope \in Int /\ votes[v].bias \in Int
      /\ totalVotes.slope \in Int /\ totalVotes.bias \in Int /\ balance.escrow \in Int
  BY DEF Base, TypeOK, Aggregates
<1>8. VotesAreSums'
  <2>1. ASSUME NEW v \in Users
        PROVE  /\ HeldAmount(v)[id] = 0 /\ HeldBias(v)[id] = 0
               /\ HeldAmount(v)'[id] = IF v = u THEN l.amount ELSE 0
               /\ HeldBias(v)'[id] = IF v = u THEN l.amount * l.end ELSE 0
    BY <1>1, <1>4 DEF HeldAmount, HeldBias
  <2>2. ASSUME NEW v \in Users
        PROVE  /\ votes'[v].slope = votes[v].slope - HeldAmount(v)[id] + HeldAmount(v)'[id]
               /\ votes'[v].bias = votes[v].bias - HeldBias(v)[id] + HeldBias(v)'[id]
    BY <1>5, <1>6, <1>7, <2>1
  <2> QED BY <1>1, <1>4, <2>2, HeldUpdate DEF Sums
<1>9. TotalIsSum'
  <2>1. /\ totalVotes'.slope = totalVotes.slope - votes[u].slope + votes'[u].slope
        /\ totalVotes'.bias = totalVotes.bias - votes[u].bias + votes'[u].bias
    BY <1>5, <1>6, <1>7
  <2> QED BY <1>5, <2>1, TotalUpdate DEF Sums
<1>10. EscrowIsSum'
  <2>1. balance'.escrow = balance.escrow + amount
    BY <1>2 DEF Base, TypeOK
  <2>2. balance'.escrow = balance.escrow - lock[id].amount + lock'[id].amount
    BY <1>1, <1>3, <1>4, <1>6, <1>7, <2>1 DEF NoLock
  <2> QED BY <1>1, <1>4, <2>2, EscrowUpdate DEF Sums
<1> QED BY <1>8, <1>9, <1>10 DEF Sums

LEMMA RelockSums ==
    ASSUME Base, Base', Sums, NEW id \in Ids, owner[id] # None, NEW l \in Locks, Relock(id, l),
           balance'.escrow = balance.escrow - lock[id].amount + l.amount
    PROVE  Sums'
<1> DEFINE u == owner[id]
           k == lock[id]
<1>1. /\ lock' = [lock EXCEPT ![id] = l] /\ owner' = owner
      /\ votes' = [votes EXCEPT ![u] = Plus(Minus(@, k), l)]
      /\ totalVotes' = Plus(Minus(totalVotes, k), l)
  BY DEF Relock
<1>2. u \in Users /\ k \in Locks
  BY DEF Base, TypeOK, Listed, Enumerates
<1>3. lock'[id] = l /\ \A j \in Ids \ {id} : owner'[j] = owner[j] /\ lock'[j] = lock[j]
  BY <1>1 DEF Base, TypeOK
<1>4. ASSUME NEW v \in Users
      PROVE  /\ HeldAmount(v)[id] = IF v = u THEN k.amount ELSE 0
             /\ HeldBias(v)[id] = IF v = u THEN k.amount * k.end ELSE 0
             /\ HeldAmount(v)'[id] = IF v = u THEN l.amount ELSE 0
             /\ HeldBias(v)'[id] = IF v = u THEN l.amount * l.end ELSE 0
  BY <1>1, <1>3 DEF HeldAmount, HeldBias
<1> HIDE DEF u, k
<1>5. /\ votes'[u].slope = votes[u].slope - k.amount + l.amount
      /\ votes'[u].bias = votes[u].bias - k.amount * k.end + l.amount * l.end
      /\ totalVotes'.slope = totalVotes.slope - k.amount + l.amount
      /\ totalVotes'.bias = totalVotes.bias - k.amount * k.end + l.amount * l.end
      /\ \A v \in Users \ {u} : votes'[v] = votes[v]
  BY <1>1, <1>2 DEF Base, TypeOK, Plus, Minus
<1>6. /\ l.amount \in Int /\ l.amount * l.end \in Int
      /\ k.amount \in Int /\ k.amount * k.end \in Int
  BY <1>2, AggregateOps DEF Base, TypeOK, Locks
<1>7. /\ \A v \in Users : votes[v].slope \in Int /\ votes[v].bias \in Int
      /\ totalVotes.slope \in Int /\ totalVotes.bias \in Int /\ balance.escrow \in Int
  BY DEF Base, TypeOK, Aggregates
<1>8. VotesAreSums'
  <2>1. ASSUME NEW v \in Users
        PROVE  /\ votes'[v].slope = votes[v].slope - HeldAmount(v)[id] + HeldAmount(v)'[id]
               /\ votes'[v].bias = votes[v].bias - HeldBias(v)[id] + HeldBias(v)'[id]
    BY <1>4, <1>5, <1>6, <1>7
  <2> QED BY <1>3, <2>1, HeldUpdate DEF Sums
<1>9. TotalIsSum'
  <2>1. /\ totalVotes'.slope = totalVotes.slope - votes[u].slope + votes'[u].slope
        /\ totalVotes'.bias = totalVotes.bias - votes[u].bias + votes'[u].bias
    BY <1>2, <1>5, <1>6, <1>7
  <2> QED BY <1>2, <1>5, <2>1, TotalUpdate DEF Sums
<1>10. EscrowIsSum'
  BY <1>3, EscrowUpdate DEF Sums, k
<1> QED BY <1>8, <1>9, <1>10 DEF Sums

LEMMA TransferSums ==
    ASSUME Base, Base', Sums, NEW id \in Ids, NEW to \in Users, Transfer(id, to)
    PROVE  Sums'
<1> DEFINE from == owner[id]
           k == lock[id]
<1>1. /\ from # None /\ owner' = [owner EXCEPT ![id] = to]
      /\ UNCHANGED <<lock, totalVotes, balance>>
  BY DEF Transfer
<1>2. /\ from \in Users /\ k \in Locks /\ owner'[id] = to
      /\ \A j \in Ids \ {id} : owner'[j] = owner[j]
  BY <1>1 DEF Base, TypeOK, Listed, Enumerates
<1>3. CASE to = from
  <2>1. owner' = owner /\ votes' = votes
    BY <1>1, <1>3 DEF Base, Listed, Enumerates, Transfer
  <2> QED BY <1>1, <2>1, SumsStay
<1>4. CASE to # from
  <2>1. votes' = [votes EXCEPT ![from] = Minus(@, lock[id]), ![to] = Plus(@, lock[id])]
    BY <1>4 DEF Transfer
  <2>2. ASSUME NEW v \in Users
        PROVE  /\ HeldAmount(v)[id] = IF v = from THEN k.amount ELSE 0
               /\ HeldBias(v)[id] = IF v = from THEN k.amount * k.end ELSE 0
               /\ HeldAmount(v)'[id] = IF v = to THEN k.amount ELSE 0
               /\ HeldBias(v)'[id] = IF v = to THEN k.amount * k.end ELSE 0
    BY <1>1, <1>2 DEF HeldAmount, HeldBias
  <2>3. /\ votes'[from] = Minus(votes[from], k) /\ votes'[to] = Plus(votes[to], k)
        /\ \A v \in Users \ {from, to} : votes'[v] = votes[v]
    <3>1. votes \in [Users -> Aggregates]
      BY DEF Base, TypeOK
    <3> HIDE DEF from
    <3> QED BY <1>2, <1>4, <2>1, <3>1
  <2> HIDE DEF from, k
  <2>4. /\ votes'[from].slope = votes[from].slope - k.amount
        /\ votes'[from].bias = votes[from].bias - k.amount * k.end
        /\ votes'[to].slope = votes[to].slope + k.amount
        /\ votes'[to].bias = votes[to].bias + k.amount * k.end
    BY <2>3 DEF Plus, Minus
  <2>5. k.amount \in Int /\ k.amount * k.end \in Int
    BY <1>2, AggregateOps DEF Base, TypeOK, Locks
  <2>6. \A v \in Users : votes[v].slope \in Int /\ votes[v].bias \in Int
    BY DEF Base, TypeOK, Aggregates
  <2>7. VotesAreSums'
    <3>1. ASSUME NEW v \in Users
          PROVE  /\ votes'[v].slope = votes[v].slope - HeldAmount(v)[id] + HeldAmount(v)'[id]
                 /\ votes'[v].bias = votes[v].bias - HeldBias(v)[id] + HeldBias(v)'[id]
      <4>1. CASE v = from
        BY <1>4, <2>2, <2>4, <2>5, <2>6, <4>1
      <4>2. CASE v = to
        BY <1>4, <2>2, <2>4, <2>5, <2>6, <4>2
      <4>3. CASE v \notin {from, to}
        BY <2>2, <2>3, <2>6, <4>3
      <4> QED BY <4>1, <4>2, <4>3
    <3> QED BY <1>1, <1>2, <3>1, HeldUpdate DEF Sums
  <2>8. TotalIsSum'
    <3>1. /\ votes'[from].slope + votes'[to].slope = votes[from].slope + votes[to].slope
          /\ votes'[from].bias + votes'[to].bias = votes[from].bias + votes[to].bias
      BY <1>2, <2>4, <2>5, <2>6
    <3> QED BY <1>1, <1>2, <1>4, <2>3, <3>1, TotalKept DEF Sums
  <2>9. EscrowIsSum'
    BY <1>1 DEF Sums, EscrowIsSum, AmountOf
  <2> QED BY <2>7, <2>8, <2>9 DEF Sums
<1> QED BY <1>3, <1>4

LEMMA WithdrawSums ==
    ASSUME Base, Base', Sums, NEW id \in Ids, Withdraw(id)
    PROVE  Sums'
<1> DEFINE u == owner[id]
           k == lock[id]
<1>1. /\ u # None /\ owner' = [owner EXCEPT ![id] = None] /\ lock' = [lock EXCEPT ![id] = NoLock]
      /\ votes' = [votes EXCEPT ![u] = Minus(@, k)] /\ totalVotes' = Minus(totalVotes, k)
      /\ balance'.escrow = balance.escrow - k.amount
  BY DEF Withdraw, Base, TypeOK
<1>2. /\ u \in Users /\ k \in Locks /\ owner'[id] = None /\ lock'[id] = NoLock /\ None \notin Users
      /\ \A j \in Ids \ {id} : owner'[j] = owner[j] /\ lock'[j] = lock[j]
  BY <1>1, LockAssumption DEF Base, TypeOK, Listed, Enumerates
<1>3. ASSUME NEW v \in Users
      PROVE  /\ HeldAmount(v)[id] = IF v = u THEN k.amount ELSE 0
             /\ HeldBias(v)[id] = IF v = u THEN k.amount * k.end ELSE 0
             /\ HeldAmount(v)'[id] = 0 /\ HeldBias(v)'[id] = 0
  BY <1>2 DEF HeldAmount, HeldBias
<1> HIDE DEF u, k
<1>4. /\ votes'[u].slope = votes[u].slope - k.amount
      /\ votes'[u].bias = votes[u].bias - k.amount * k.end
      /\ totalVotes'.slope = totalVotes.slope - k.amount
      /\ totalVotes'.bias = totalVotes.bias - k.amount * k.end
      /\ \A v \in Users \ {u} : votes'[v] = votes[v]
  BY <1>1, <1>2 DEF Base, TypeOK, Minus
<1>5. k.amount \in Int /\ k.amount * k.end \in Int
  BY <1>2, AggregateOps DEF Base, TypeOK, Locks
<1>6. /\ \A v \in Users : votes[v].slope \in Int /\ votes[v].bias \in Int
      /\ totalVotes.slope \in Int /\ totalVotes.bias \in Int /\ balance.escrow \in Int
  BY DEF Base, TypeOK, Aggregates
<1>7. VotesAreSums'
  <2>1. ASSUME NEW v \in Users
        PROVE  /\ votes'[v].slope = votes[v].slope - HeldAmount(v)[id] + HeldAmount(v)'[id]
               /\ votes'[v].bias = votes[v].bias - HeldBias(v)[id] + HeldBias(v)'[id]
    BY <1>3, <1>4, <1>5, <1>6
  <2> QED BY <1>2, <2>1, HeldUpdate DEF Sums
<1>8. TotalIsSum'
  <2>1. /\ totalVotes'.slope = totalVotes.slope - votes[u].slope + votes'[u].slope
        /\ totalVotes'.bias = totalVotes.bias - votes[u].bias + votes'[u].bias
    BY <1>2, <1>4, <1>5, <1>6
  <2> QED BY <1>2, <1>4, <2>1, TotalUpdate DEF Sums
<1>9. EscrowIsSum'
  <2>1. balance'.escrow = balance.escrow - lock[id].amount + lock'[id].amount
    BY <1>1, <1>2, <1>5, <1>6 DEF NoLock, k
  <2> QED BY <1>2, <2>1, EscrowUpdate DEF Sums
<1> QED BY <1>7, <1>8, <1>9 DEF Sums

LEMMA SumsNext == Base /\ Base' /\ Sums /\ [Next]_vars => Sums'
<1> SUFFICES ASSUME Base, Base', Sums, [Next]_vars PROVE Sums'
  OBVIOUS
<1>1. CASE UNCHANGED vars \/ SetRewardsController \/ Advance
              \/ \E id \in Ids : CheckpointVotingPower(id)
  BY <1>1, SumsStay DEF vars, tokenVars, voteVars, SetRewardsController, Advance,
     CheckpointVotingPower
<1>2. ASSUME NEW id \in Ids, NEW n \in Amounts, IncreaseAmount(id, n) PROVE Sums'
  <2> DEFINE l == [lock[id] EXCEPT !.amount = @ + n]
  <2>1. n \in Nat /\ lock[id] \in Locks /\ balance.escrow \in Int
    BY LockAssumption DEF Base, TypeOK
  <2>2. l \in Locks /\ l.amount = lock[id].amount + n /\ lock[id].amount \in Int
    BY <2>1 DEF Locks
  <2>3. balance'.escrow = balance.escrow + n
    BY <1>2 DEF IncreaseAmount, Base, TypeOK
  <2>4. owner[id] # None /\ Relock(id, l)
    BY <1>2 DEF IncreaseAmount
  <2> HIDE DEF l
  <2>5. balance'.escrow = balance.escrow - lock[id].amount + l.amount
    BY <2>1, <2>2, <2>3
  <2> QED BY <2>2, <2>4, <2>5, RelockSums
<1>3. ASSUME NEW id \in Ids, NEW d \in Durations, ExtendLock(id, d) PROVE Sums'
  <2> DEFINE l == [lock[id] EXCEPT !.end = LockEnd(d)]
  <2>1. LockEnd(d) \in Nat /\ lock[id] \in Locks /\ balance.escrow \in Int
    BY LockAssumption, LockEndNat DEF Base, TypeOK
  <2>2. l \in Locks /\ l.amount = lock[id].amount /\ lock[id].amount \in Int
    BY <2>1 DEF Locks
  <2>3. owner[id] # None /\ Relock(id, l) /\ balance' = balance
    BY <1>3 DEF ExtendLock
  <2> HIDE DEF l
  <2>4. balance'.escrow = balance.escrow - lock[id].amount + l.amount
    BY <2>1, <2>2, <2>3
  <2> QED BY <2>2, <2>3, <2>4, RelockSums
<1> QED BY <1>1, <1>2, <1>3, CreateLockSums, TransferSums, WithdrawSums DEF Next

\* The sums over the tokens of an account are what is zero for all others.
LEMMA SumsOfOwned ==
    ASSUME Base, Sums, NEW u \in Users
    PROVE  /\ votes[u].slope = SumFunctionOnSet(AmountOf, OwnedBy(u))
           /\ votes[u].bias = SumFunctionOnSet([id \in Ids |-> lock[id].amount * lock[id].end],
                                               OwnedBy(u))
<1> DEFINE biases == [id \in Ids |-> lock[id].amount * lock[id].end]
<1>1. Ids \cap OwnedBy(u) = OwnedBy(u) /\ IsFiniteSet(Ids)
  BY IdsFinite DEF OwnedBy
<1>2. ASSUME NEW id \in Ids
      PROVE  /\ AmountOf[id] \in Int
             /\ HeldAmount(u)[id] = IF id \in OwnedBy(u) THEN AmountOf[id] ELSE 0
             /\ biases[id] \in Int
             /\ HeldBias(u)[id] = IF id \in OwnedBy(u) THEN biases[id] ELSE 0
  <2>1. lock[id] \in Locks
    BY DEF Base, TypeOK
  <2>2. lock[id].amount * lock[id].end \in Int /\ lock[id].amount \in Int
    BY <2>1, AggregateOps DEF Base, TypeOK, Locks
  <2> QED BY <2>2 DEF AmountOf, HeldAmount, HeldBias, OwnedBy
<1> HIDE DEF biases
<1>3. SumFunctionOnSet(HeldAmount(u), Ids) = SumFunctionOnSet(AmountOf, OwnedBy(u))
  <2> DEFINE f == AmountOf
             g == HeldAmount(u)
  <2>1. \A id \in Ids : f[id] \in Int /\ g[id] = IF id \in OwnedBy(u) THEN f[id] ELSE 0
    BY <1>2
  <2> HIDE DEF f, g
  <2>2. SumFunctionOnSet(g, Ids) = SumFunctionOnSet(f, Ids \cap OwnedBy(u))
    BY <1>1, <2>1, SumWhere
  <2> QED BY <1>1, <2>2 DEF f, g
<1>4. SumFunctionOnSet(HeldBias(u), Ids) = SumFunctionOnSet(biases, OwnedBy(u))
  BY <1>1, <1>2, SumWhere
<1>5. /\ SumFunction(HeldAmount(u)) = SumFunctionOnSet(HeldAmount(u), Ids)
      /\ SumFunction(HeldBias(u)) = SumFunctionOnSet(HeldBias(u), Ids)
  BY TermTypes, SumOverDomain
<1> QED BY <1>3, <1>4, <1>5 DEF Sums, VotesAreSums, biases

LEMMA EscrowInvariant == Spec => [](Base /\ Sums)
BY BaseInit, BaseNext, SumsInit, SumsNext, PTL DEF Spec

(* The aggregates that votes are read from are the sums of the locks an     *)
(* account holds, the total that of all accounts, and the escrow holds      *)
(* their CENT, after any creations, changes, transfers and withdrawals.     *)
THEOREM AggregatesCorrect == Spec => []AggregatesAreSums
<1>1. Base /\ Sums => AggregatesAreSums
  BY SumsOfOwned DEF AggregatesAreSums, Sums, TotalIsSum, EscrowIsSum, AmountOf, Slopes, Biases
<1> QED BY <1>1, EscrowInvariant, PTL

-----------------------------------------------------------------------------
(* Votes and the power of positions *)

LEMMA QuotientFact ==
    ASSUME NEW x \in Nat, NEW m \in Nat \ {0}
    PROVE  x \div m \in Nat /\ m * (x \div m) <= x /\ x < m * (x \div m) + m
BY SMT

LEMMA QuotientBounds ==
    ASSUME NEW x \in Nat, NEW m \in Nat \ {0}, NEW y \in Nat
    PROVE  /\ x <= m * y => x \div m <= y
           /\ m * y <= x => y <= x \div m
<1> DEFINE q == x \div m
<1>1. q \in Nat /\ m * q <= x /\ x < m * q + m
  BY QuotientFact
<1> HIDE DEF q
<1>2. ASSUME x <= m * y, y < q PROVE FALSE
  <2>1. m * q >= m * (y + 1)
    <3>1. q >= y + 1 /\ q - (y + 1) \in Nat
      BY <1>1, <1>2
    <3>2. m * (q - (y + 1)) \in Nat
      BY <3>1
    <3>3. m * (q - (y + 1)) = m * q - m * (y + 1)
      BY <1>1
    <3> QED BY <1>1, <3>2, <3>3
  <2>2. m * (y + 1) = m * y + m
    OBVIOUS
  <2>3. m * y \in Int /\ m * q \in Int
    BY <1>1
  <2> QED BY <1>1, <1>2, <2>1, <2>2, <2>3
<1>3. ASSUME m * y <= x, q < y PROVE FALSE
  <2>1. m * y >= m * (q + 1)
    <3>1. y - (q + 1) \in Nat
      BY <1>1, <1>3
    <3>2. m * (y - (q + 1)) \in Nat
      BY <3>1
    <3>3. m * (y - (q + 1)) = m * y - m * (q + 1)
      BY <1>1
    <3> QED BY <1>1, <3>2, <3>3
  <2>2. m * (q + 1) = m * q + m
    BY <1>1
  <2>3. m * y \in Int /\ m * q \in Int
    BY <1>1
  <2> QED BY <1>1, <1>3, <2>1, <2>2, <2>3
<1>4. q <= y \/ y < q
  BY <1>1
<1>5. y <= q \/ q < y
  BY <1>1
<1> QED BY <1>2, <1>3, <1>4, <1>5 DEF q

\* One position: its share of the aggregate against its power.
LEMMA PowerBounds ==
    ASSUME now \in Nat, NEW l \in Locks
    PROVE  LET gap == (-now) * l.amount + l.amount * l.end
           IN  /\ Power(l) \in Nat /\ gap \in Int
               /\ gap <= MaxLock * (Power(l) + 1)
               /\ now <= l.end => MaxLock * Power(l) <= gap
<1> DEFINE gap == (-now) * l.amount + l.amount * l.end
<1>1. l.amount \in Nat /\ l.end \in Nat /\ MaxLock \in Nat \ {0}
  BY LockAssumption DEF Locks
<1>2. gap \in Int /\ gap = l.amount * (l.end - now)
  BY <1>1
<1>3. CASE now >= l.end
  <2>1. Power(l) = 0
    BY <1>3 DEF Power
  <2>2. l.amount * (now - l.end) \in Nat
    <3>1. now - l.end \in Nat
      BY <1>1, <1>3
    <3> QED BY <1>1, <3>1
  <2>3. gap = -(l.amount * (now - l.end))
    BY <1>1, <1>2
  <2>4. MaxLock * (Power(l) + 1) = MaxLock /\ MaxLock * Power(l) = 0
    BY <1>1, <2>1
  <2>5. gap <= 0
    BY <2>2, <2>3
  <2>6. now <= l.end => gap = 0
    BY <1>1, <1>2, <1>3
  <2> HIDE DEF gap
  <2>7. gap <= MaxLock * (Power(l) + 1) /\ (now <= l.end => MaxLock * Power(l) <= gap)
    BY <1>1, <1>2, <2>4, <2>5, <2>6
  <2> QED BY <1>2, <2>1, <2>7 DEF gap
<1>4. CASE now < l.end
  <2>1. gap \in Nat
    <3>1. l.end - now \in Nat
      BY <1>1, <1>4
    <3> QED BY <1>1, <1>2, <3>1
  <2>2. Power(l) = gap \div MaxLock
    BY <1>1, <1>2, <1>4 DEF Power
  <2> HIDE DEF gap
  <2>3. Power(l) \in Nat /\ MaxLock * Power(l) <= gap /\ gap < MaxLock * Power(l) + MaxLock
    BY <1>1, <2>1, <2>2, QuotientFact
  <2>4. MaxLock * (Power(l) + 1) = MaxLock * Power(l) + MaxLock /\ MaxLock * Power(l) \in Int
    BY <1>1, <2>3
  <2>5. gap <= MaxLock * (Power(l) + 1)
    BY <1>1, <2>1, <2>3, <2>4
  <2> QED BY <2>1, <2>3, <2>5 DEF gap
<1> QED BY <1>1, <1>3, <1>4

\* What is left of an aggregate, against the powers of its positions.
LEMMA VotesFact ==
    ASSUME Base, Sums, NEW u \in Users
    PROVE  LET rest == votes[u].bias - votes[u].slope * now
           IN  /\ rest \in Int /\ VotingPowerOf(u) \in Nat /\ Cardinality(OwnedBy(u)) \in Nat
               /\ rest <= MaxLock * (VotingPowerOf(u) + Cardinality(OwnedBy(u)))
               /\ (\A id \in OwnedBy(u) : now <= lock[id].end) => MaxLock * VotingPowerOf(u) <= rest
<1> DEFINE S == OwnedBy(u)
           a == AmountOf
           b == [id \in Ids |-> lock[id].amount * lock[id].end]
           p == [id \in Ids |-> Power(lock[id])]
           h == [id \in Ids |-> (-now) * a[id] + b[id]]
           one == [id \in Ids |-> 1]
           zero == [id \in Ids |-> 0]
           q == [id \in Ids |-> 1 * p[id] + one[id]]
           high == [id \in Ids |-> MaxLock * q[id] + zero[id]]
           low == [id \in Ids |-> MaxLock * p[id] + zero[id]]
           Sum(f) == SumFunctionOnSet(f, S)
<1>1. IsFiniteSet(S) /\ S \subseteq Ids
  BY IdsFinite, FS_Subset DEF OwnedBy
<1>2. now \in Nat /\ -now \in Int /\ MaxLock \in Nat \ {0}
  BY LockAssumption DEF Base, TypeOK
<1>3. ASSUME NEW id \in Ids
      PROVE  /\ a[id] \in Int /\ b[id] \in Int /\ p[id] \in Nat
             /\ h[id] \in Int /\ h[id] = (-now) * a[id] + b[id]
             /\ h[id] <= MaxLock * (p[id] + 1)
             /\ now <= lock[id].end => MaxLock * p[id] <= h[id]
  <2>1. lock[id] \in Locks
    BY DEF Base, TypeOK
  <2>2. lock[id].amount \in Int /\ lock[id].amount * lock[id].end \in Int
    BY <2>1, AggregateOps DEF Base, TypeOK, Locks
  <2>3. /\ a[id] = lock[id].amount /\ b[id] = lock[id].amount * lock[id].end
        /\ p[id] = Power(lock[id]) /\ h[id] = (-now) * a[id] + b[id]
    BY DEF AmountOf
  <2>4. h[id] = (-now) * lock[id].amount + lock[id].amount * lock[id].end
    BY <2>3
  <2> HIDE DEF a, b, p, h
  <2> QED BY <1>2, <2>1, <2>2, <2>3, <2>4, PowerBounds
<1>4. ASSUME NEW id \in Ids
      PROVE  /\ one[id] \in Int /\ zero[id] \in Int /\ one[id] = IF id \in S THEN 1 ELSE 1
             /\ q[id] \in Int /\ q[id] = p[id] + 1 /\ q[id] = 1 * p[id] + one[id]
             /\ high[id] \in Int /\ high[id] = MaxLock * q[id] + zero[id]
             /\ high[id] = MaxLock * (p[id] + 1)
             /\ low[id] \in Int /\ low[id] = MaxLock * p[id] + zero[id]
             /\ low[id] = MaxLock * p[id]
  <2>1. /\ p[id] \in Nat /\ q[id] = 1 * p[id] + one[id] /\ one[id] = 1 /\ zero[id] = 0
        /\ high[id] = MaxLock * q[id] + zero[id] /\ low[id] = MaxLock * p[id] + zero[id]
    BY <1>3
  <2> HIDE DEF p, q, one, zero, high, low
  <2>2. q[id] = p[id] + 1 /\ q[id] \in Nat
    BY <2>1
  <2>3. MaxLock * q[id] \in Int /\ MaxLock * p[id] \in Int
    BY <1>2, <2>1, <2>2
  <2> QED BY <2>1, <2>2, <2>3
<1>5. VotingPowerOf(u) = Sum(p)
  BY DEF VotingPowerOf
<1>6. votes[u].slope = Sum(a) /\ votes[u].bias = Sum(b)
  BY SumsOfOwned
<1>7. Sum(one) = Cardinality(S)
  <2>1. \A id \in S : one[id] = IF id \in S THEN 1 ELSE 0
    BY <1>1
  <2>2. S \cap S = S
    OBVIOUS
  <2> HIDE DEF one, S
  <2> QED BY <1>1, <2>1, <2>2, SumCount
<1>8. Sum(zero) = 0
  <2>1. \A id \in S : zero[id] = 0
    BY <1>1
  <2> HIDE DEF zero, S
  <2> QED BY <1>1, <2>1, SumZero
<1> HIDE DEF S, a, b, p, h, one, zero, q, high, low
<1>9. Sum(h) = (-now) * Sum(a) + Sum(b)
  BY <1>1, <1>2, <1>3, SumLinear
<1>10. Sum(q) = 1 * Sum(p) + Sum(one)
  <2>1. \A id \in S : p[id] \in Int /\ one[id] \in Int /\ q[id] = 1 * p[id] + one[id]
    BY <1>1, <1>3, <1>4
  <2> QED BY <1>1, <2>1, SumLinear
<1>11. Sum(high) = MaxLock * Sum(q) + Sum(zero)
  <2>1. \A id \in S : q[id] \in Int /\ zero[id] \in Int /\ high[id] = MaxLock * q[id] + zero[id]
    BY <1>1, <1>4
  <2>2. MaxLock \in Int
    BY <1>2
  <2> QED BY <1>1, <2>1, <2>2, SumLinear
<1>12. Sum(low) = MaxLock * Sum(p) + Sum(zero)
  <2>1. \A id \in S : p[id] \in Int /\ zero[id] \in Int /\ low[id] = MaxLock * p[id] + zero[id]
    BY <1>1, <1>3, <1>4
  <2>2. MaxLock \in Int
    BY <1>2
  <2> QED BY <1>1, <2>1, <2>2, SumLinear
<1>13. Sum(h) <= Sum(high)
  <2>1. \A id \in S : h[id] \in Int /\ high[id] \in Int /\ h[id] <= high[id]
    BY <1>1, <1>3, <1>4
  <2> QED BY <1>1, <2>1, SumMonotone
<1>14. (\A id \in S : now <= lock[id].end) => Sum(low) <= Sum(h)
  <2> SUFFICES ASSUME \A id \in S : now <= lock[id].end PROVE Sum(low) <= Sum(h)
    OBVIOUS
  <2>1. \A id \in S : low[id] \in Int /\ h[id] \in Int /\ low[id] <= h[id]
    BY <1>1, <1>3, <1>4
  <2> QED BY <1>1, <2>1, SumMonotone
<1>15. /\ Sum(a) \in Int /\ Sum(b) \in Int /\ Sum(h) \in Int
       /\ Sum(p) \in Nat /\ Cardinality(S) \in Nat
  <2>1. /\ \A id \in S : a[id] \in Int /\ b[id] \in Int /\ h[id] \in Int /\ p[id] \in Nat
    BY <1>1, <1>3
  <2> QED BY <1>1, <2>1, SumInt, SumNat, FS_CardinalityType
<1> DEFINE sa == Sum(a)
           sb == Sum(b)
           sp == Sum(p)
           sh == Sum(h)
           n == Cardinality(S)
<1>16. sh = (-now) * sa + sb /\ sh <= MaxLock * (sp + n)
       /\ ((\A id \in S : now <= lock[id].end) => MaxLock * sp <= sh)
       /\ sa \in Int /\ sb \in Int /\ sh \in Int /\ sp \in Nat /\ n \in Nat
  <2>1. Sum(q) = sp + n /\ Sum(high) = MaxLock * (sp + n) /\ Sum(low) = MaxLock * sp
    <3>1. Sum(q) = sp + n
      BY <1>7, <1>10, <1>15
    <3>2. MaxLock * (sp + n) \in Int /\ MaxLock * sp \in Int
      BY <1>2, <1>15
    <3> HIDE DEF sp, n
    <3> QED BY <1>8, <1>11, <1>12, <3>1, <3>2 DEF sp
  <2> QED BY <1>9, <1>13, <1>14, <1>15, <2>1
<1> HIDE DEF sa, sb, sp, sh, n
<1>17. sb - sa * now = sh
  BY <1>2, <1>16
<1>18. /\ votes[u].bias = sb /\ votes[u].slope = sa /\ VotingPowerOf(u) = sp
       /\ Cardinality(OwnedBy(u)) = n
  BY <1>5, <1>6 DEF sa, sb, sp, n, S
<1> QED BY <1>16, <1>17, <1>18 DEF S

(* The votes of an account are at most the power of its positions, up to    *)
(* one unit of truncation for each, and no less unless a lock of its own    *)
(* has expired.                                                             *)
THEOREM VotesCorrect == Spec => []VotesBounded
<1>1. Base /\ Sums => VotesBounded
  <2> SUFFICES ASSUME Base, Sums, NEW u \in Users
               PROVE  /\ GetVotes(u) <= VotingPowerOf(u) + Cardinality(OwnedBy(u))
                      /\ (\A id \in OwnedBy(u) : now <= lock[id].end)
                            => GetVotes(u) >= VotingPowerOf(u)
    BY DEF VotesBounded
  <2> DEFINE rest == votes[u].bias - votes[u].slope * now
             power == VotingPowerOf(u)
             n == Cardinality(OwnedBy(u))
             product == votes[u].slope * now
  <2>1. /\ rest \in Int /\ power \in Nat /\ n \in Nat
        /\ rest <= MaxLock * (power + n)
        /\ (\A id \in OwnedBy(u) : now <= lock[id].end) => MaxLock * power <= rest
    BY VotesFact
  <2>2. MaxLock \in Nat \ {0} /\ votes[u].bias \in Int /\ product \in Int
    <3>1. votes[u].slope \in Int /\ now \in Int /\ votes[u].bias \in Int
      BY DEF Base, TypeOK, Aggregates
    <3> QED BY <3>1, LockAssumption
  <2>3. rest = votes[u].bias - product
    OBVIOUS
  <2>4. GetVotes(u) = IF votes[u].bias <= product THEN 0 ELSE rest \div MaxLock
    BY DEF GetVotes, PowerAt
  <2> HIDE DEF rest, power, n, product
  <2>5. CASE votes[u].bias <= product
    <3>1. GetVotes(u) = 0 /\ rest <= 0
      BY <2>2, <2>3, <2>4, <2>5
    <3>2. ASSUME MaxLock * power <= rest PROVE power = 0
      <4>1. ASSUME power >= 1 PROVE FALSE
        <5>1. MaxLock * power = MaxLock * (power - 1) + MaxLock
          BY <2>1, <2>2
        <5>2. MaxLock * (power - 1) \in Nat
          <6>1. power - 1 \in Nat
            BY <2>1, <4>1
          <6> QED BY <2>2, <6>1
        <5> QED BY <2>1, <2>2, <3>1, <3>2, <5>1, <5>2
      <4> QED BY <2>1, <4>1
    <3> QED BY <2>1, <3>1, <3>2 DEF power, n
  <2>6. CASE votes[u].bias > product
    <3>1. rest \in Nat /\ GetVotes(u) = rest \div MaxLock /\ power + n \in Nat
      BY <2>1, <2>2, <2>3, <2>4, <2>6
    <3>2. rest \div MaxLock \in Nat /\ rest \div MaxLock <= power + n
      BY <2>1, <2>2, <3>1, QuotientFact, QuotientBounds
    <3>3. MaxLock * power <= rest => power <= rest \div MaxLock
      BY <2>1, <2>2, <3>1, QuotientBounds
    <3> QED BY <2>1, <3>1, <3>2, <3>3 DEF power, n
  <2> QED BY <2>2, <2>5, <2>6
<1> QED BY <1>1, EscrowInvariant, PTL

-----------------------------------------------------------------------------
(* Checkpoints: the past is fixed *)

Checkpoints == [timestamp : Nat, bias : Int, slope : Int]

\* The list of checkpoints of an aggregate ends with what it is now.
Recorded(cps, v) ==
    /\ cps \in Seq(Checkpoints)
    /\ \A i \in 1 .. Len(cps) : cps[i].timestamp <= now
    /\ IF cps = <<>> THEN v = NoVotes
       ELSE cps[Len(cps)].bias = v.bias /\ cps[Len(cps)].slope = v.slope

Histories ==
    /\ history = [u \in Users |-> history[u]]
    /\ \A u \in Users : Recorded(history[u], votes[u])
    /\ Recorded(totalHistory, totalVotes)

LEMMA LastFact ==
    ASSUME NEW n \in Nat, NEW S \in SUBSET (1 .. n), S # {}
    PROVE  Max(S) \in S /\ \A x \in S : x <= Max(S)
<1> DEFINE R == {n - x : x \in S}
<1>1. R \in SUBSET Nat /\ R # {}
  <2>1. ASSUME NEW x \in S PROVE n - x \in Nat
    OBVIOUS
  <2> QED BY <2>1
<1>2. IsWellFoundedOn(OpToRel(<, Nat), Nat)
  BY NatLessThanWellFounded
<1>3. PICK y \in R : \A z \in R : ~(<<z, y>> \in OpToRel(<, Nat))
  <2> HIDE DEF OpToRel, R
  <2> QED BY <1>1, <1>2, WFMin
<1>4. PICK m \in S : y = n - m
  BY <1>3
<1>5. \A x \in S : x <= m
  <2> SUFFICES ASSUME NEW x \in S PROVE x <= m
    OBVIOUS
  <2>1. n - x \in R /\ n - x \in Nat /\ n - m \in Nat
    OBVIOUS
  <2>2. ~(n - x < n - m)
    BY <1>3, <1>4, <2>1 DEF OpToRel
  <2> QED BY <2>1, <2>2
<1>6. \E z \in S : \A x \in S : z >= x
  BY <1>5
<1> QED BY <1>6 DEF Max

\* Two lists that agree up to a time are read alike there.
LEMMA LookupSame ==
    ASSUME NEW cps, NEW other, Len(cps) \in Nat, NEW time,
           {i \in 1 .. Len(other) : other[i].timestamp <= time}
             = {i \in 1 .. Len(cps) : cps[i].timestamp <= time},
           \A i \in 1 .. Len(cps) : cps[i].timestamp <= time => other[i] = cps[i]
    PROVE  Lookup(other, time) = Lookup(cps, time)
<1> DEFINE past == {i \in 1 .. Len(cps) : cps[i].timestamp <= time}
<1>1. CASE past = {}
  BY <1>1 DEF Lookup
<1>2. CASE past # {}
  <2>1. Max(past) \in past
    BY <1>2, LastFact
  <2>2. other[Max(past)] = cps[Max(past)]
    BY <2>1
  <2>3. Lookup(cps, time) = [bias |-> cps[Max(past)].bias, slope |-> cps[Max(past)].slope]
    BY <1>2 DEF Lookup
  <2>4. Lookup(other, time) = [bias |-> other[Max(past)].bias, slope |-> other[Max(past)].slope]
    BY <1>2 DEF Lookup
  <2> QED BY <2>2, <2>3, <2>4
<1> QED BY <1>1, <1>2

\* Now, the last checkpoint is found.
LEMMA LookupNow ==
    ASSUME NEW cps, NEW v \in Aggregates, Recorded(cps, v)
    PROVE  Lookup(cps, now) = v
<1> DEFINE past == {i \in 1 .. Len(cps) : cps[i].timestamp <= now}
           n == Len(cps)
<1>1. n \in Nat /\ past = 1 .. n
  BY LenProperties DEF Recorded
<1>2. CASE cps = <<>>
  <2>1. Len(cps) = 0
    BY <1>2, EmptySeq
  <2>2. past = {}
    BY <1>1, <2>1
  <2> QED BY <1>2, <2>2 DEF Lookup, Recorded
<1>3. CASE cps # <<>>
  <2>1. n \in Nat \ {0}
    BY <1>3, EmptySeq DEF Recorded
  <2>2. Max(past) = n
    <3> HIDE DEF n, past
    <3>1. 1 .. n # {} /\ n \in 1 .. n
      BY <2>1
    <3>2. Max(1 .. n) \in 1 .. n /\ n <= Max(1 .. n)
      BY <1>1, <3>1, LastFact
    <3> QED BY <1>1, <2>1, <3>2
  <2>3. past # {}
    BY <1>1, <2>1
  <2>4. Lookup(cps, now) = [bias |-> cps[n].bias, slope |-> cps[n].slope]
    BY <2>2, <2>3 DEF Lookup
  <2>5. cps[n].bias = v.bias /\ cps[n].slope = v.slope
    BY <1>3 DEF Recorded
  <2> QED BY <2>4, <2>5 DEF Aggregates
<1> QED BY <1>2, <1>3

\* A checkpoint written now leaves all earlier times as they were.
LEMMA WriteFact ==
    ASSUME now \in Nat, NEW cps, NEW v, Recorded(cps, v), NEW w \in Aggregates
    PROVE  /\ Recorded(WriteCheckpoint(cps, w), w)
           /\ \A time \in 0 .. now - 1 : Lookup(WriteCheckpoint(cps, w), time) = Lookup(cps, time)
<1> DEFINE cp == [timestamp |-> now, bias |-> w.bias, slope |-> w.slope]
           n == Len(cps)
           new == WriteCheckpoint(cps, w)
<1>1. /\ cps \in Seq(Checkpoints) /\ \A i \in 1 .. n : cps[i].timestamp <= now
      /\ cp \in Checkpoints /\ n \in Nat
  BY LenProperties DEF Recorded, Checkpoints, Aggregates
<1>2. cp.timestamp = now /\ cp.bias = w.bias /\ cp.slope = w.slope
  OBVIOUS
<1>3. CASE cps # <<>> /\ cps[n].timestamp = now
  <2>1. new = [cps EXCEPT ![n] = cp] /\ n \in Nat \ {0}
    BY <1>1, <1>3, EmptySeq DEF WriteCheckpoint
  <2>2. n \in 1 .. n
    BY <2>1
  <2> HIDE DEF cp, new
  <2>3. /\ new \in Seq(Checkpoints) /\ Len(new) = n
        /\ \A j \in 1 .. n : new[j] = IF j = n THEN cp ELSE cps[j]
    BY <1>1, <2>1, <2>2, ExceptSeq
  <2> HIDE DEF n
  <2>4. new # <<>>
    BY <2>1, <2>3, EmptySeq
  <2>5. \A i \in 1 .. Len(new) : new[i].timestamp <= now
    BY <1>1, <1>2, <2>3
  <2>6. Recorded(new, w)
    BY <1>2, <2>2, <2>3, <2>4, <2>5 DEF Recorded
  <2>7. ASSUME NEW time \in 0 .. now - 1 PROVE Lookup(new, time) = Lookup(cps, time)
    <3>1. ~(now <= time)
      OBVIOUS
    <3>2. ASSUME NEW i \in 1 .. n
          PROVE  /\ new[i].timestamp <= time <=> cps[i].timestamp <= time
                 /\ cps[i].timestamp <= time => new[i] = cps[i]
      BY <1>2, <1>3, <2>3, <3>1
    <3> QED BY <1>1, <2>3, <3>2, LookupSame DEF n
  <2> QED BY <2>6, <2>7 DEF new
<1>4. CASE ~(cps # <<>> /\ cps[n].timestamp = now)
  <2>1. new = Append(cps, cp)
    BY <1>4 DEF WriteCheckpoint
  <2> HIDE DEF cp, new
  <2>2. /\ new \in Seq(Checkpoints) /\ new # <<>> /\ Len(new) = n + 1
        /\ \A i \in 1 .. n : new[i] = cps[i]
        /\ new[n + 1] = cp
    BY <1>1, <2>1, AppendProperties
  <2> HIDE DEF n
  <2>3. \A i \in 1 .. Len(new) : new[i].timestamp <= now
    <3> SUFFICES ASSUME NEW i \in 1 .. n + 1 PROVE new[i].timestamp <= now
      BY <2>2
    <3>1. CASE i = n + 1
      BY <1>2, <2>2, <3>1
    <3>2. CASE i \in 1 .. n
      BY <1>1, <2>2, <3>2
    <3> QED BY <1>1, <3>1, <3>2
  <2>4. Recorded(new, w)
    BY <1>2, <2>2, <2>3 DEF Recorded
  <2>5. ASSUME NEW time \in 0 .. now - 1 PROVE Lookup(new, time) = Lookup(cps, time)
    <3>1. ~(now <= time)
      OBVIOUS
    <3>2. ASSUME NEW i
          PROVE  (i \in 1 .. Len(new) /\ new[i].timestamp <= time)
                    <=> (i \in 1 .. n /\ cps[i].timestamp <= time)
      <4>1. CASE i = n + 1
        BY <1>1, <1>2, <2>2, <3>1, <4>1
      <4>2. CASE i # n + 1
        <5>1. i \in 1 .. n + 1 <=> i \in 1 .. n
          BY <1>1, <4>2
        <5> QED BY <2>2, <5>1
      <4> QED BY <4>1, <4>2
    <3>3. {i \in 1 .. Len(new) : new[i].timestamp <= time}
            = {i \in 1 .. n : cps[i].timestamp <= time}
      BY <3>2
    <3> QED BY <1>1, <2>2, <3>3, LookupSame DEF n
  <2> QED BY <2>4, <2>5 DEF new
<1> QED BY <1>3, <1>4

\* What a step does to the checkpoints.
Written(cps, v, new, w) == (new = cps /\ w = v) \/ new = WriteCheckpoint(cps, w)

HistoryStep ==
    /\ history' = [u \in Users |-> history'[u]]
    /\ \/ UNCHANGED voteVars /\ now' \in {now, now + 1}
       \/ /\ now' = now
          /\ \A u \in Users : Written(history[u], votes[u], history'[u], votes'[u])
          /\ Written(totalHistory, totalVotes, totalHistory', totalVotes')

LEMMA NextHistoryStep == Base /\ Histories /\ [Next]_vars => HistoryStep
<1> SUFFICES ASSUME Base, Histories, [Next]_vars PROVE HistoryStep
  OBVIOUS
<1>1. /\ history = [u \in Users |-> history[u]] /\ votes \in [Users -> Aggregates]
      /\ \A id \in Ids : owner[id] # None => owner[id] \in Users
  BY DEF Histories, Base, TypeOK, Listed, Enumerates
<1>2. CASE UNCHANGED vars \/ SetRewardsController \/ Advance
              \/ \E id \in Ids : CheckpointVotingPower(id)
  BY <1>1, <1>2 DEF vars, SetRewardsController, Advance, CheckpointVotingPower, voteVars,
     HistoryStep
<1>3. ASSUME NEW u \in Users, now' = now,
             \E w : votes' = [votes EXCEPT ![u] = w],
             history' = [history EXCEPT ![u] = WriteCheckpoint(@, votes'[u])],
             totalHistory' = WriteCheckpoint(totalHistory, totalVotes')
      PROVE  HistoryStep
  <2>1. \A v \in Users \ {u} : votes'[v] = votes[v] /\ history'[v] = history[v]
    BY <1>1, <1>3
  <2>2. history'[u] = WriteCheckpoint(history[u], votes'[u])
    BY <1>1, <1>3
  <2>3. history' = [v \in Users |-> history'[v]]
    BY <1>1, <1>3
  <2> QED BY <1>3, <2>1, <2>2, <2>3 DEF HistoryStep, Written
<1>4. ASSUME NEW u \in Users, NEW n \in Amounts, NEW d \in Durations, CreateLock(u, n, d)
      PROVE  HistoryStep
  BY <1>3, <1>4 DEF CreateLock
<1>5. ASSUME NEW id \in Ids, NEW l, owner[id] # None, Relock(id, l) PROVE HistoryStep
  <2> DEFINE u == owner[id]
  <2>1. u \in Users
    BY <1>1, <1>5
  <2>2. /\ now' = now /\ votes' = [votes EXCEPT ![u] = Plus(Minus(@, lock[id]), l)]
        /\ history' = [history EXCEPT ![u] = WriteCheckpoint(@, votes'[u])]
        /\ totalHistory' = WriteCheckpoint(totalHistory, totalVotes')
    BY <1>5 DEF Relock
  <2> HIDE DEF u
  <2> QED BY <1>3, <2>1, <2>2
<1>6. ASSUME NEW id \in Ids, NEW to \in Users, Transfer(id, to) PROVE HistoryStep
  <2> DEFINE from == owner[id]
  <2>1. from \in Users /\ UNCHANGED <<now, totalVotes, totalHistory>>
    BY <1>1, <1>6 DEF Transfer
  <2>2. CASE to = from
    BY <1>1, <1>6, <2>1, <2>2 DEF Transfer, HistoryStep, voteVars
  <2>3. CASE to # from
    <3>1. /\ votes' = [votes EXCEPT ![from] = Minus(@, lock[id]), ![to] = Plus(@, lock[id])]
          /\ history' = [history EXCEPT ![from] = WriteCheckpoint(@, votes'[from]),
                                        ![to] = WriteCheckpoint(@, votes'[to])]
      BY <1>6, <2>3 DEF Transfer
    <3> HIDE DEF from
    <3>2. \A v \in Users \ {from, to} : votes'[v] = votes[v] /\ history'[v] = history[v]
      BY <1>1, <3>1
    <3>3. /\ history'[from] = WriteCheckpoint(history[from], votes'[from])
          /\ history'[to] = WriteCheckpoint(history[to], votes'[to])
          /\ history' = [v \in Users |-> history'[v]]
      BY <1>1, <2>1, <2>3, <3>1
    <3> QED BY <2>1, <3>2, <3>3 DEF HistoryStep, Written
  <2> QED BY <2>2, <2>3
<1>7. ASSUME NEW id \in Ids, Withdraw(id) PROVE HistoryStep
  <2> DEFINE u == owner[id]
  <2>1. u \in Users
    BY <1>1, <1>7 DEF Withdraw
  <2>2. /\ now' = now /\ votes' = [votes EXCEPT ![u] = Minus(@, lock[id])]
        /\ history' = [history EXCEPT ![u] = WriteCheckpoint(@, votes'[u])]
        /\ totalHistory' = WriteCheckpoint(totalHistory, totalVotes')
    BY <1>7 DEF Withdraw
  <2> HIDE DEF u
  <2> QED BY <1>3, <2>1, <2>2
<1> QED BY <1>2, <1>4, <1>5, <1>6, <1>7 DEF Next, IncreaseAmount, ExtendLock

LEMMA HistoriesInit == Init => Histories
<1> SUFFICES ASSUME Init PROVE Histories
  OBVIOUS
<1>1. <<>> \in Seq(Checkpoints) /\ Len(<<>>) = 0
  BY EmptySeq
<1>2. Recorded(<<>>, NoVotes)
  BY <1>1 DEF Recorded
<1> QED BY <1>2 DEF Init, Histories

LEMMA HistoriesNext == Base /\ Base' /\ Histories /\ [Next]_vars => Histories'
<1> SUFFICES ASSUME Base, Base', Histories, [Next]_vars PROVE Histories'
  OBVIOUS
<1>1. HistoryStep
  BY NextHistoryStep
<1>2. /\ now \in Nat /\ \A u \in Users : votes[u] \in Aggregates /\ votes'[u] \in Aggregates
      /\ totalVotes \in Aggregates /\ totalVotes' \in Aggregates
  BY DEF Base, TypeOK
<1>3. CASE UNCHANGED voteVars /\ now' \in {now, now + 1}
  <2>1. ASSUME NEW cps, NEW v, Recorded(cps, v) PROVE Recorded(cps, v)'
    <3>1. ASSUME NEW i \in 1 .. Len(cps) PROVE cps[i].timestamp \in Nat
      <4>1. cps \in Seq(Checkpoints)
        BY <2>1 DEF Recorded
      <4>2. cps[i] \in Checkpoints
        BY <4>1, ElementOfSeq
      <4> QED BY <4>2 DEF Checkpoints
    <3>2. \A i \in 1 .. Len(cps) : cps[i].timestamp <= now'
      BY <1>2, <1>3, <2>1, <3>1 DEF Recorded
    <3> QED BY <2>1, <3>2 DEF Recorded
  <2>2. /\ history' = history /\ votes' = votes /\ totalHistory' = totalHistory
        /\ totalVotes' = totalVotes
    BY <1>3 DEF voteVars
  <2>3. ASSUME NEW u \in Users PROVE Recorded(history[u], votes[u])'
    <3>1. Recorded(history[u], votes[u])
      BY DEF Histories
    <3> QED BY <2>1, <2>2, <3>1
  <2>4. Recorded(totalHistory, totalVotes)'
    BY <2>1, <2>2 DEF Histories
  <2> QED BY <1>1, <2>3, <2>4 DEF Histories, HistoryStep
<1>4. CASE /\ now' = now
           /\ \A u \in Users : Written(history[u], votes[u], history'[u], votes'[u])
           /\ Written(totalHistory, totalVotes, totalHistory', totalVotes')
  <2>1. ASSUME NEW cps, NEW v, NEW new, NEW w \in Aggregates, Recorded(cps, v),
               Written(cps, v, new, w)
        PROVE  Recorded(new, w)
    BY <1>2, <2>1, WriteFact DEF Written
  <2>2. ASSUME NEW u \in Users PROVE Recorded(history'[u], votes'[u])
    BY <1>2, <1>4, <2>1 DEF Histories
  <2>3. Recorded(totalHistory', totalVotes')
    BY <1>2, <1>4, <2>1 DEF Histories
  <2>4. /\ \A u \in Users : Recorded(history[u], votes[u])'
        /\ Recorded(totalHistory, totalVotes)'
    BY <1>4, <2>2, <2>3 DEF Recorded
  <2> QED BY <1>1, <2>4 DEF Histories, HistoryStep
<1> QED BY <1>1, <1>3, <1>4 DEF HistoryStep

(* The past is fixed: what a later transaction reads for an account, or for *)
(* all, at an earlier timepoint is what it had at the end of that block.    *)
THEOREM PastCorrect == Spec => PastIsFixed
<1> DEFINE Step ==
        \A time \in 0 .. now' - 1 :
         /\ \A u \in Users :
              GetPastVotes(u, time)' = IF time < now THEN GetPastVotes(u, time) ELSE GetVotes(u)
         /\ GetPastTotalSupply(time)' =
              IF time < now THEN GetPastTotalSupply(time) ELSE PowerAt(totalVotes, now)
<1>1. Base /\ Base' /\ Histories /\ [Next]_vars => Step
  <2> SUFFICES ASSUME Base, Base', Histories, [Next]_vars, NEW time \in 0 .. now' - 1
               PROVE  /\ \A u \in Users :
                          GetPastVotes(u, time)' =
                            IF time < now THEN GetPastVotes(u, time) ELSE GetVotes(u)
                      /\ GetPastTotalSupply(time)' =
                            IF time < now THEN GetPastTotalSupply(time) ELSE PowerAt(totalVotes, now)
    OBVIOUS
  <2>1. HistoryStep
    BY NextHistoryStep
  <2>2. /\ now \in Nat /\ \A u \in Users : votes[u] \in Aggregates /\ votes'[u] \in Aggregates
        /\ totalVotes \in Aggregates /\ totalVotes' \in Aggregates
    BY DEF Base, TypeOK
  <2>3. now' \in Nat /\ now' \in {now, now + 1}
    BY <2>1 DEF HistoryStep, Base, TypeOK
  <2>4. ASSUME NEW cps, NEW v \in Aggregates, Recorded(cps, v), NEW new, NEW w \in Aggregates,
               \/ new = cps /\ w = v
               \/ now' = now /\ Written(cps, v, new, w)
        PROVE  Lookup(new, time) = IF time < now THEN Lookup(cps, time) ELSE v
    <3>1. CASE time < now
      <4>1. time \in 0 .. now - 1
        BY <2>2, <2>3, <3>1
      <4> QED BY <2>2, <2>4, <3>1, <4>1, WriteFact DEF Written
    <3>2. CASE ~(time < now)
      <4>1. time = now /\ now' # now
        BY <2>2, <2>3, <3>2
      <4> QED BY <2>4, <3>2, <4>1, LookupNow
    <3> QED BY <3>1, <3>2
  <2>5. ASSUME NEW u \in Users
        PROVE  Lookup(history'[u], time) = IF time < now THEN Lookup(history[u], time) ELSE votes[u]
    <3>1. \/ history'[u] = history[u] /\ votes'[u] = votes[u]
          \/ now' = now /\ Written(history[u], votes[u], history'[u], votes'[u])
      BY <2>1 DEF HistoryStep, voteVars
    <3>2. Recorded(history[u], votes[u])
      BY DEF Histories
    <3> QED BY <2>2, <2>4, <3>1, <3>2
  <2>6. Lookup(totalHistory', time)
          = IF time < now THEN Lookup(totalHistory, time) ELSE totalVotes
    <3>1. \/ totalHistory' = totalHistory /\ totalVotes' = totalVotes
          \/ now' = now /\ Written(totalHistory, totalVotes, totalHistory', totalVotes')
      BY <2>1 DEF HistoryStep, voteVars
    <3>2. Recorded(totalHistory, totalVotes)
      BY DEF Histories
    <3> QED BY <2>2, <2>4, <3>1, <3>2
  <2>7. time < now \/ time = now
    BY <2>2, <2>3
  <2>8. ASSUME NEW u \in Users
        PROVE  GetPastVotes(u, time)' =
                 IF time < now THEN GetPastVotes(u, time) ELSE GetVotes(u)
    BY <2>2, <2>5, <2>7 DEF GetPastVotes, GetVotes
  <2>9. GetPastTotalSupply(time)' =
          IF time < now THEN GetPastTotalSupply(time) ELSE PowerAt(totalVotes, now)
    BY <2>2, <2>6, <2>7 DEF GetPastTotalSupply
  <2> QED BY <2>8, <2>9
<1>2. Base /\ Base' /\ Histories /\ [Next]_vars => Histories'
  BY HistoriesNext
<1> QED BY BaseInit, BaseNext, HistoriesInit, <1>1, <1>2, PTL DEF Spec, PastIsFixed

-----------------------------------------------------------------------------
(* Power time *)

\* Nothing is earned at the instant of a checkpoint.
LEMMA EarnedNothing ==
    ASSUME NEW l \in Locks, NEW time \in Int
    PROVE  Earned(l, time, time) = 0
<1>1. l.end \in Int
  BY DEF Locks
<1> QED BY <1>1 DEF Earned

LEMMA CheckpointKeeps ==
    ASSUME Base, Base', NEW id \in Ids, now' = now,
           accumulated' = [accumulated EXCEPT ![id] = VotingPowerTime(id)],
           checkpointed'[id] \in {0, now},
           \A j \in Ids \ {id} : checkpointed'[j] = checkpointed[j] /\ lock'[j] = lock[j]
    PROVE  \A j \in Ids : VotingPowerTime(j)' = VotingPowerTime(j)
<1> SUFFICES ASSUME NEW j \in Ids PROVE VotingPowerTime(j)' = VotingPowerTime(j)
  OBVIOUS
<1>1. accumulated \in [Ids -> Int] /\ lock'[id] \in Locks /\ now \in Int
  BY DEF Base, TypeOK
<1>2. CASE j # id
  <2>1. accumulated'[j] = accumulated[j] /\ checkpointed'[j] = checkpointed[j] /\ lock'[j] = lock[j]
    BY <1>1, <1>2
  <2> QED BY <2>1 DEF VotingPowerTime, Earned
<1>3. CASE j = id
  <2>1. accumulated'[id] = VotingPowerTime(id) /\ VotingPowerTime(id) \in Int
    BY <1>1, PowerTimeInt DEF Base
  <2>2. Earned(lock'[id], now, now) = 0
    BY <1>1, EarnedNothing
  <2>3. VotingPowerTime(id)' = IF checkpointed'[id] = 0 THEN accumulated'[id]
                               ELSE accumulated'[id] + Earned(lock'[id], checkpointed'[id], now')
    BY DEF VotingPowerTime, Earned
  <2>4. CASE checkpointed'[id] = 0
    BY <1>3, <2>1, <2>3, <2>4
  <2>5. CASE checkpointed'[id] # 0
    <3>1. checkpointed'[id] = now
      BY <2>5
    <3>2. VotingPowerTime(id)' = VotingPowerTime(id) + 0
      BY <2>1, <2>2, <2>3, <2>5, <3>1
    <3> QED BY <1>3, <2>1, <3>2
  <2> QED BY <2>4, <2>5
<1> QED BY <1>2, <1>3

LEMMA SameTimeKeeps ==
    ASSUME Base, Base', [Next]_vars, ~Advance
    PROVE  now' = now /\ \A j \in Ids : VotingPowerTime(j)' = VotingPowerTime(j)
<1>1. CASE UNCHANGED <<now, lock, accumulated, checkpointed>>
  BY <1>1 DEF VotingPowerTime, Earned
<1>2. CASE UNCHANGED vars \/ SetRewardsController
  BY <1>1, <1>2 DEF vars, tokenVars, SetRewardsController
<1>3. ASSUME NEW id \in Ids, CheckpointPower(id), now' = now,
             \A j \in Ids \ {id} : lock'[j] = lock[j]
      PROVE  \A j \in Ids : VotingPowerTime(j)' = VotingPowerTime(j)
  <2>1. /\ accumulated' = [accumulated EXCEPT ![id] = VotingPowerTime(id)]
        /\ checkpointed' = [checkpointed EXCEPT ![id] = IF @ = 0 THEN 0 ELSE now]
        /\ checkpointed \in [Ids -> Nat]
    BY <1>3 DEF CheckpointPower, Base, TypeOK
  <2>2. checkpointed'[id] \in {0, now} /\ \A j \in Ids \ {id} : checkpointed'[j] = checkpointed[j]
    BY <2>1
  <2> QED BY <1>3, <2>1, <2>2, CheckpointKeeps
<1>4. ASSUME NEW id \in Ids, NEW l, Relock(id, l) PROVE now' = now /\ \A j \in Ids :
                VotingPowerTime(j)' = VotingPowerTime(j)
  <2>1. CheckpointPower(id) /\ now' = now /\ lock' = [lock EXCEPT ![id] = l]
    BY <1>4 DEF Relock
  <2>2. \A j \in Ids \ {id} : lock'[j] = lock[j]
    BY <2>1 DEF Base, TypeOK
  <2> QED BY <1>3, <2>1, <2>2
<1>5. ASSUME NEW id \in Ids, CheckpointVotingPower(id)
      PROVE  now' = now /\ \A j \in Ids : VotingPowerTime(j)' = VotingPowerTime(j)
  BY <1>3, <1>5 DEF CheckpointVotingPower
<1>6. ASSUME NEW id \in Ids, NEW to \in Users, Transfer(id, to)
      PROVE  now' = now /\ \A j \in Ids : VotingPowerTime(j)' = VotingPowerTime(j)
  <2>1. now' = now /\ lock' = lock
    BY <1>6 DEF Transfer
  <2>2. CASE to = owner[id]
    BY <1>1, <1>6, <2>1, <2>2 DEF Transfer
  <2>3. CASE to # owner[id]
    BY <1>3, <1>6, <2>1, <2>3 DEF Transfer
  <2> QED BY <2>2, <2>3
<1>7. ASSUME NEW id \in Ids, Withdraw(id)
      PROVE  now' = now /\ \A j \in Ids : VotingPowerTime(j)' = VotingPowerTime(j)
  <2>1. /\ now' = now /\ accumulated' = [accumulated EXCEPT ![id] = VotingPowerTime(id)]
        /\ checkpointed' = [checkpointed EXCEPT ![id] = 0] /\ lock' = [lock EXCEPT ![id] = NoLock]
    BY <1>7 DEF Withdraw
  <2>2. checkpointed'[id] = 0
        /\ \A j \in Ids \ {id} : checkpointed'[j] = checkpointed[j] /\ lock'[j] = lock[j]
    BY <2>1 DEF Base, TypeOK
  <2> QED BY <2>1, <2>2, CheckpointKeeps
<1>8. ASSUME NEW u \in Users, NEW n \in Amounts, NEW d \in Durations, CreateLock(u, n, d)
      PROVE  now' = now /\ \A j \in Ids : VotingPowerTime(j)' = VotingPowerTime(j)
  <2> DEFINE id == nextTokenId
  <2>1. id \in Ids /\ id >= nextTokenId
    BY <1>8, LockAssumption DEF CreateLock, Base, TypeOK, Ids
  <2>2. /\ now' = now /\ accumulated' = accumulated
        /\ checkpointed' = [checkpointed EXCEPT ![id] = now]
        /\ lock' = [lock EXCEPT ![id] = [amount |-> n, end |-> LockEnd(d)]]
    BY <1>8 DEF CreateLock
  <2> HIDE DEF id
  <2>3. checkpointed[id] = 0
    BY <2>1 DEF Base, Tidy
  <2>4. VotingPowerTime(id) = accumulated[id]
    BY <2>3 DEF VotingPowerTime
  <2>5. accumulated' = [accumulated EXCEPT ![id] = VotingPowerTime(id)]
    BY <2>1, <2>2, <2>4 DEF Base, TypeOK
  <2>6. checkpointed'[id] = now
        /\ \A j \in Ids \ {id} : checkpointed'[j] = checkpointed[j] /\ lock'[j] = lock[j]
    BY <2>1, <2>2 DEF Base, TypeOK
  <2> QED BY <2>1, <2>2, <2>5, <2>6, CheckpointKeeps
<1> QED BY <1>2, <1>4, <1>5, <1>6, <1>7, <1>8 DEF Next, IncreaseAmount, ExtendLock

\* Rounding down a sum, against rounding down its two parts.
LEMMA QuotientSum ==
    ASSUME NEW x \in Nat, NEW y \in Nat, NEW m \in Nat \ {0}
    PROVE  (x + y) \div m \in (x \div m) + (y \div m) .. (x \div m) + (y \div m) + 1
<1> DEFINE p == x \div m
           q == y \div m
           r == (x + y) \div m
<1>1. x + y \in Nat
  OBVIOUS
<1>2. /\ p \in Nat /\ m * p <= x /\ x < m * p + m
      /\ q \in Nat /\ m * q <= y /\ y < m * q + m
      /\ r \in Nat /\ m * r <= x + y /\ x + y < m * r + m
  BY <1>1, QuotientFact
<1>3. m * (p + q) = m * p + m * q /\ m * (p + q + 1) = m * p + m * q + m
  BY <1>2
<1>4. m * p \in Int /\ m * q \in Int /\ m * r \in Int
  BY <1>2
<1>5. m * (p + q) <= x + y
  <2> HIDE DEF p, q, r
  <2> QED BY <1>2, <1>3, <1>4
<1>6. p + q <= r
  <2>1. p + q \in Nat
    BY <1>2
  <2> HIDE DEF p, q
  <2> QED BY <1>1, <1>5, <2>1, QuotientBounds
<1>7. r <= p + q + 1
  <2>1. p + q + 2 \in Nat /\ m * (p + q + 2) = m * p + m * q + m + m
    BY <1>2
  <2>2. x + y < m * (p + q + 2)
    <3> HIDE DEF p, q, r
    <3> QED BY <1>2, <1>4, <2>1
  <2>3. ASSUME r >= p + q + 2 PROVE FALSE
    <3>1. r - (p + q + 2) \in Nat
      BY <1>2, <2>3
    <3>2. m * (r - (p + q + 2)) \in Nat
      BY <3>1
    <3>3. m * (r - (p + q + 2)) = m * r - m * (p + q + 2)
      BY <1>2
    <3>4. m * (p + q + 2) \in Int
      BY <2>1
    <3> HIDE DEF p, q, r
    <3> QED BY <1>2, <1>4, <2>2, <3>2, <3>3, <3>4
  <2> HIDE DEF p, q, r
  <2> QED BY <1>2, <2>3
<1> HIDE DEF p, q, r
<1>8. r \in p + q .. p + q + 1
  BY <1>2, <1>6, <1>7
<1> QED BY <1>8 DEF p, q, r

\* One second of one position.
LEMMA SecondEarns ==
    ASSUME NEW l \in Locks, NEW from \in Nat, NEW time \in Nat, from <= time
    PROVE  LET left == IF time < l.end THEN 2 * (l.end - time) - 1 ELSE 0
               worth == (l.amount * left) \div (2 * MaxLock)
           IN  Earned(l, from, time + 1)
                 \in Earned(l, from, time) + worth .. Earned(l, from, time) + worth + 1
<1> DEFINE m == 2 * MaxLock
           left == IF time < l.end THEN 2 * (l.end - time) - 1 ELSE 0
           worth == (l.amount * left) \div m
           before == Earned(l, from, time)
           after == Earned(l, from, time + 1)
<1>1. l.amount \in Nat /\ l.end \in Nat /\ m \in Nat \ {0}
  BY LockAssumption DEF Locks
<1>2. before \in Int /\ after \in Int
  <2>1. from \in Int /\ time \in Int /\ time + 1 \in Int
    OBVIOUS
  <2> QED BY <2>1, EarnedInt
<1>3. CASE time >= l.end
  <2>1. left = 0 /\ l.amount * left = 0
    BY <1>1, <1>3
  <2>2. worth = 0
    <3> HIDE DEF left
    <3>1. 0 \div m = 0
      BY <1>1
    <3> QED BY <2>1, <3>1
  <2>3. after = before
    BY <1>1, <1>3 DEF Earned
  <2> HIDE DEF worth, before, after
  <2>4. after \in before + worth .. before + worth + 1
    BY <1>2, <2>2, <2>3
  <2> QED BY <2>4 DEF worth, before, after, m
<1>4. CASE time < l.end
  <2> DEFINE e == l.end
             a == l.amount
             x == a * (time - from) * ((e - from) + (e - time))
             d == a * left
             y == a * (time + 1 - from) * ((e - from) + (e - (time + 1)))
  <2>1. /\ e - from \in Nat /\ e - time \in Nat \ {0} /\ e - (time + 1) \in Nat
        /\ time - from \in Nat /\ time + 1 - from \in Nat \ {0}
    BY <1>1, <1>4
  <2>2. left = 2 * (e - time) - 1 /\ left \in Nat
    BY <1>1, <1>4, <2>1
  <2>3. x \in Nat /\ d \in Nat /\ y \in Nat
    <3>1. /\ (e - from) + (e - time) \in Nat /\ (e - from) + (e - (time + 1)) \in Nat
      BY <2>1
    <3>2. a * (time - from) \in Nat /\ a * (time + 1 - from) \in Nat
      BY <1>1, <2>1
    <3> HIDE DEF e, a, left
    <3>3. a * left \in Nat
      BY <1>1, <2>2 DEF a
    <3> QED BY <3>1, <3>2, <3>3
  <2>4. y = x + d
    <3>1. e \in Int /\ a \in Int
      BY <1>1
    <3> HIDE DEF e, a, left
    <3> QED BY <2>2, <3>1
  <2>5. after = y \div m
    <3>1. time + 1 <= e
      BY <1>1, <1>4
    <3>2. (IF time + 1 < e THEN time + 1 ELSE e) = time + 1
      BY <1>1, <3>1
    <3>3. ~(from >= time + 1)
      OBVIOUS
    <3> QED BY <3>2, <3>3 DEF Earned
  <2>6. before = x \div m
    <3>1. CASE from = time
      <4>1. before = 0
        BY <1>1, <3>1 DEF Earned
      <4>2. x = 0
        <5>1. time - from = 0 /\ a \in Int /\ (e - from) + (e - time) \in Int
          BY <1>1, <3>1
        <5>2. a * (time - from) = 0
          BY <5>1
        <5> QED BY <5>1, <5>2
      <4> HIDE DEF x, m
      <4>3. 0 \div m = 0
        BY <1>1
      <4> QED BY <4>1, <4>2, <4>3
    <3>2. CASE from < time
      BY <1>1, <1>4, <3>2 DEF Earned
    <3> QED BY <3>1, <3>2
  <2>7. worth = d \div m
    OBVIOUS
  <2> HIDE DEF x, d, y, m, worth, before, after, left
  <2>8. (x + d) \div m \in (x \div m) + (d \div m) .. (x \div m) + (d \div m) + 1
    BY <1>1, <2>3, QuotientSum
  <2>9. after \in before + worth .. before + worth + 1
    BY <2>4, <2>5, <2>6, <2>7, <2>8
  <2> QED BY <2>9 DEF worth, before, after, m, left
<1> QED BY <1>1, <1>3, <1>4

(* The power time of a position is its own affair: no call of anyone        *)
(* changes what it has earned, however often it is checkpointed,            *)
(* transferred, changed or withdrawn, and a second adds what the power it   *)
(* has then is worth.                                                       *)
THEOREM PowerTimeCorrect == Spec => PowerTimeKept
<1> DEFINE Step ==
        \A id \in Ids :
          IF now' = now THEN VotingPowerTime(id)' = VotingPowerTime(id)
          ELSE LET left == IF now < lock[id].end THEN 2 * (lock[id].end - now) - 1 ELSE 0
                   worth == (lock[id].amount * left) \div (2 * MaxLock)
               IN  VotingPowerTime(id)' \in VotingPowerTime(id) + worth
                                            .. VotingPowerTime(id) + worth + 1
<1>1. ASSUME Base, Base', [Next]_vars PROVE Step
  <2>1. CASE ~Advance
    BY <1>1, <2>1, SameTimeKeeps
  <2>2. CASE Advance
    <3> SUFFICES ASSUME NEW id \in Ids
                 PROVE  LET left == IF now < lock[id].end THEN 2 * (lock[id].end - now) - 1 ELSE 0
                            worth == (lock[id].amount * left) \div (2 * MaxLock)
                        IN  /\ now' # now
                            /\ VotingPowerTime(id)' \in VotingPowerTime(id) + worth
                                                        .. VotingPowerTime(id) + worth + 1
      OBVIOUS
    <3> DEFINE l == lock[id]
               left == IF now < l.end THEN 2 * (l.end - now) - 1 ELSE 0
               worth == (l.amount * left) \div (2 * MaxLock)
               from == checkpointed[id]
    <3>1. /\ now' = now + 1 /\ now \in Nat /\ now' # now
          /\ lock' = lock /\ accumulated' = accumulated /\ checkpointed' = checkpointed
      BY <1>1, <2>2 DEF Advance, tokenVars, Base, TypeOK
    <3>2. l \in Locks /\ accumulated[id] \in Int /\ from \in Nat /\ VotingPowerTime(id) \in Int
      BY <1>1, PowerTimeInt DEF Base, TypeOK
    <3>3. CASE from = 0
      <4>1. VotingPowerTime(id)' = VotingPowerTime(id)
        BY <3>1, <3>3 DEF VotingPowerTime
      <4>2. l = NoLock
        BY <1>1, <3>3 DEF Base, Tidy
      <4>3. left = 0 /\ l.amount = 0
        BY <3>1, <4>2 DEF NoLock
      <4>4. worth = 0
        <5>1. MaxLock \in Nat \ {0}
          BY LockAssumption
        <5>2. l.amount * left = 0
          BY <4>3
        <5> HIDE DEF l, left
        <5>3. 2 * MaxLock \in Nat \ {0} /\ 0 \div (2 * MaxLock) = 0
          BY <5>1
        <5> QED BY <5>2, <5>3
      <4> HIDE DEF worth
      <4>5. VotingPowerTime(id)' \in VotingPowerTime(id) + worth .. VotingPowerTime(id) + worth + 1
        BY <3>2, <4>1, <4>4
      <4> QED BY <3>1, <4>5 DEF worth
    <3>4. CASE from # 0
      <4>1. from <= now
        BY <1>1, <3>1, <3>2, <3>4 DEF Base, Tidy
      <4>2. VotingPowerTime(id) = accumulated[id] + Earned(l, from, now)
        BY <3>4 DEF VotingPowerTime
      <4>3. VotingPowerTime(id)' = accumulated[id] + Earned(l, from, now + 1)
        BY <3>1, <3>4 DEF VotingPowerTime, Earned
      <4>4. Earned(l, from, now + 1)
              \in Earned(l, from, now) + worth .. Earned(l, from, now) + worth + 1
        BY <3>1, <3>2, <4>1, SecondEarns
      <4>5. Earned(l, from, now) \in Int /\ Earned(l, from, now + 1) \in Int
        BY <3>1, <3>2, EarnedInt
      <4>6. worth \in Int
        <5>1. MaxLock \in Nat \ {0} /\ l.amount \in Nat /\ l.end \in Nat
          BY <3>2, LockAssumption DEF Locks
        <5>2. left \in Nat
          BY <3>1, <5>1
        <5>3. l.amount * left \in Nat
          <6> HIDE DEF left, l
          <6> QED BY <5>1, <5>2
        <5>4. 2 * MaxLock \in Nat \ {0}
          BY <5>1
        <5> HIDE DEF left, l
        <5> QED BY <5>3, <5>4
      <4> HIDE DEF worth, l, from
      <4>7. VotingPowerTime(id)' \in VotingPowerTime(id) + worth .. VotingPowerTime(id) + worth + 1
        BY <3>2, <4>2, <4>3, <4>4, <4>5, <4>6
      <4> QED BY <3>1, <4>7 DEF worth, l
    <3> QED BY <3>3, <3>4
  <2> QED BY <2>1, <2>2
<1> QED BY BaseInit, BaseNext, <1>1, PTL DEF Spec, PowerTimeKept
=============================================================================
