---------------------------- MODULE VotingEscrow ----------------------------
(***************************************************************************)
(* contracts/governance/CentryVotingEscrow.sol: CENT locked in NFTs whose  *)
(* voting power decays linearly, the aggregates and checkpoints that give  *)
(* an account its votes now and in the past, and the lists of the tokens   *)
(* an account owns.  A transaction is one action; one that reverts is      *)
(* disabled.  `now' is block.timestamp; several transactions may share it. *)
(* A function that checkpoints before and after a change overwrites its    *)
(* first checkpoint (same timestamp), so one write stands for both.        *)
(* External: the CENT ledgers of the users and the token's approvals.      *)
(***************************************************************************)
EXTENDS Integers, Sequences, FiniteSets, FiniteSetsExt, Functions

CONSTANTS
    Users, None,
    Amounts,            \* amounts passed to createLock and increaseAmount
    Durations,          \* durations passed to createLock and extendLock
    MaxAmount,          \* the largest amount of a position, type(uint128).max
    Week, MaxLock,      \* WEEK = MIN_LOCK, and MAX_LOCK
    Bps, FeeBps, RewardShareBps,
    Deployed,           \* block.timestamp of the deployment
    MaxTime,            \* bound: last timestamp
    MaxTokens           \* bound: tokens ever created

ASSUME LockAssumption ==
    /\ Week \in Nat \ {0} /\ MaxLock \in Nat \ {0} /\ Week <= MaxLock
    /\ MaxAmount \in Nat /\ Amounts \subseteq Nat /\ Durations \subseteq Nat
    /\ Bps \in Nat \ {0} /\ FeeBps \in 0 .. Bps /\ RewardShareBps \in 0 .. Bps
    /\ Deployed \in Nat \ {0} /\ MaxTime \in Nat /\ MaxTokens \in Nat
    /\ IsFiniteSet(Users) /\ None \notin Users

VARIABLES
    now,
    nextTokenId,
    owner,              \* owner[id], None for a token that does not exist
    lock,               \* lock[id]: amount and end, zero after withdraw
    owned, ownedIndex,  \* _ownedTokenIds[user], _ownedTokenIndex[id] (from 0)
    accumulated,        \* cumulativeVotingPowerTime[id]
    checkpointed,       \* lastVotingPowerCheckpoint[id], 0 for none
    votes, totalVotes,  \* bias and slope of each account, and of all
    history,            \* _voteCheckpoints[user]
    totalHistory,       \* _totalVoteCheckpoints
    balance,            \* CENT of the escrow, of the rewards controller, of the treasury
    controller          \* whether rewardsController is set

tokenVars == <<nextTokenId, owner, lock, owned, ownedIndex, accumulated, checkpointed>>
voteVars == <<votes, totalVotes, history, totalHistory>>
vars == <<now, tokenVars, voteVars, balance, controller>>

Ids == 1 .. MaxTokens
NoLock == [amount |-> 0, end |-> 0]
NoVotes == [bias |-> 0, slope |-> 0]

Init ==
    /\ now = Deployed
    /\ nextTokenId = 1
    /\ owner = [id \in Ids |-> None]
    /\ lock = [id \in Ids |-> NoLock]
    /\ owned = [u \in Users |-> <<>>]
    /\ ownedIndex = [id \in Ids |-> 0]
    /\ accumulated = [id \in Ids |-> 0]
    /\ checkpointed = [id \in Ids |-> 0]
    /\ votes = [u \in Users |-> NoVotes]
    /\ totalVotes = NoVotes
    /\ history = [u \in Users |-> <<>>]
    /\ totalHistory = <<>>
    /\ balance = [escrow |-> 0, rewards |-> 0, treasury |-> 0]
    /\ controller = FALSE

-----------------------------------------------------------------------------
(* Voting power *)

\* votingPower of a position
Power(l) == IF now >= l.end THEN 0 ELSE (l.amount * (l.end - now)) \div MaxLock

\* _currentVotingPower
PowerAt(v, time) ==
    IF v.bias <= v.slope * time THEN 0 ELSE (v.bias - v.slope * time) \div MaxLock

GetVotes(u) == PowerAt(votes[u], now)

Plus(v, l) == [bias |-> v.bias + l.amount * l.end, slope |-> v.slope + l.amount]
Minus(v, l) == [bias |-> v.bias - l.amount * l.end, slope |-> v.slope - l.amount]
Covers(v, l) == v.bias >= l.amount * l.end /\ v.slope >= l.amount

\* _writeCheckpoint
WriteCheckpoint(cps, v) ==
    LET cp == [timestamp |-> now, bias |-> v.bias, slope |-> v.slope]
    IN  IF cps # <<>> /\ cps[Len(cps)].timestamp = now
        THEN [cps EXCEPT ![Len(cps)] = cp]
        ELSE Append(cps, cp)

\* Mistake: a checkpoint made at the timepoint itself is not found.
LookupBefore(cps, time) ==
    LET past == {i \in 1 .. Len(cps) : cps[i].timestamp < time}
    IN  IF past = {} THEN NoVotes
        ELSE LET last == Max(past) IN [bias |-> cps[last].bias, slope |-> cps[last].slope]

\* _lookup: the last checkpoint that is not after the timepoint.
Lookup(cps, time) ==
    LET past == {i \in 1 .. Len(cps) : cps[i].timestamp <= time}
    IN  IF past = {} THEN NoVotes
        ELSE LET last == Max(past) IN [bias |-> cps[last].bias, slope |-> cps[last].slope]

GetPastVotes(u, time) == PowerAt(Lookup(history[u], time), time)
GetPastTotalSupply(time) == PowerAt(Lookup(totalHistory, time), time)

\* What position l earns in voting power times time from one instant to another.
Earned(l, from, until) ==
    LET to == IF until < l.end THEN until ELSE l.end
    IN  IF from >= to THEN 0
        ELSE (l.amount * (to - from) * ((l.end - from) + (l.end - to))) \div (2 * MaxLock)

VotingPowerTime(id) ==
    IF checkpointed[id] = 0 THEN accumulated[id]
    ELSE accumulated[id] + Earned(lock[id], checkpointed[id], now)

\* _checkpointVotingPower
CheckpointPower(id) ==
    /\ accumulated' = [accumulated EXCEPT ![id] = VotingPowerTime(id)]
    /\ checkpointed' = [checkpointed EXCEPT ![id] = IF @ = 0 THEN 0 ELSE now]

-----------------------------------------------------------------------------
(* Lists of owned tokens *)

\* Swap with the last and pop.
Popped(list, i) == SubSeq([list EXCEPT ![i] = list[Len(list)]], 1, Len(list) - 1)

\* Mistake: the index of the token that moved is not updated.
UnlistForgetting(id) ==
    LET list == owned[owner[id]]
    IN  [lists |-> [owned EXCEPT ![owner[id]] = Popped(list, ownedIndex[id] + 1)],
         index |-> [ownedIndex EXCEPT ![id] = 0]]

Unlist(id) ==
    LET list == owned[owner[id]]
        moved == list[Len(list)]
    IN  [lists |-> [owned EXCEPT ![owner[id]] = Popped(list, ownedIndex[id] + 1)],
         index |-> [[ownedIndex EXCEPT ![moved] = ownedIndex[id]] EXCEPT ![id] = 0]]

List(lists, index, u, id) ==
    /\ owned' = [lists EXCEPT ![u] = Append(@, id)]
    /\ ownedIndex' = [index EXCEPT ![id] = Len(lists[u])]

-----------------------------------------------------------------------------
(* Operations *)

LockEnd(duration) == ((now + duration) \div Week) * Week

CreateLock(u, amount, duration) ==
    LET l == [amount |-> amount, end |-> LockEnd(duration)]
    IN  /\ nextTokenId <= MaxTokens
        /\ amount \in 1 .. MaxAmount /\ duration \in Week .. MaxLock /\ LockEnd(duration) > now
        /\ nextTokenId' = nextTokenId + 1
        /\ lock' = [lock EXCEPT ![nextTokenId] = l]
        /\ checkpointed' = [checkpointed EXCEPT ![nextTokenId] = now]
        /\ owner' = [owner EXCEPT ![nextTokenId] = u]
        /\ List(owned, ownedIndex, u, nextTokenId)
        /\ votes' = [votes EXCEPT ![u] = Plus(@, l)]
        /\ totalVotes' = Plus(totalVotes, l)
        /\ history' = [history EXCEPT ![u] = WriteCheckpoint(@, votes'[u])]
        /\ totalHistory' = WriteCheckpoint(totalHistory, totalVotes')
        /\ balance' = [balance EXCEPT !.escrow = @ + amount]
        /\ UNCHANGED <<now, accumulated, controller>>

\* The lock of a live token is replaced, in it and in the aggregates.
Relock(id, l) ==
    LET u == owner[id]
    IN  /\ Covers(votes[u], lock[id]) /\ Covers(totalVotes, lock[id])
        /\ CheckpointPower(id)
        /\ lock' = [lock EXCEPT ![id] = l]
        /\ votes' = [votes EXCEPT ![u] = Plus(Minus(@, lock[id]), l)]
        /\ totalVotes' = Plus(Minus(totalVotes, lock[id]), l)
        /\ history' = [history EXCEPT ![u] = WriteCheckpoint(@, votes'[u])]
        /\ totalHistory' = WriteCheckpoint(totalHistory, totalVotes')
        /\ UNCHANGED <<now, nextTokenId, owner, owned, ownedIndex, controller>>

IncreaseAmount(id, amount) ==
    /\ owner[id] # None /\ now < lock[id].end
    /\ amount > 0 /\ lock[id].amount + amount <= MaxAmount
    /\ Relock(id, [lock[id] EXCEPT !.amount = @ + amount])
    /\ balance' = [balance EXCEPT !.escrow = @ + amount]

\* Mistake: what the old lock has earned so far is not booked first.
ExtendUnbooked(id, duration) ==
    LET u == owner[id]
        l == [lock[id] EXCEPT !.end = LockEnd(duration)]
    IN  /\ owner[id] # None /\ now < lock[id].end
        /\ duration \in Week .. MaxLock
        /\ LockEnd(duration) > lock[id].end /\ LockEnd(duration) <= now + MaxLock
        /\ lock' = [lock EXCEPT ![id] = l]
        /\ votes' = [votes EXCEPT ![u] = Plus(Minus(@, lock[id]), l)]
        /\ totalVotes' = Plus(Minus(totalVotes, lock[id]), l)
        /\ history' = [history EXCEPT ![u] = WriteCheckpoint(@, votes'[u])]
        /\ totalHistory' = WriteCheckpoint(totalHistory, totalVotes')
        /\ UNCHANGED <<now, nextTokenId, owner, owned, ownedIndex, accumulated, checkpointed,
                       balance, controller>>

ExtendLock(id, duration) ==
    /\ owner[id] # None /\ now < lock[id].end
    /\ duration \in Week .. MaxLock
    /\ LockEnd(duration) > lock[id].end /\ LockEnd(duration) <= now + MaxLock
    /\ Relock(id, [lock[id] EXCEPT !.end = LockEnd(duration)])
    /\ UNCHANGED balance

CheckpointVotingPower(id) ==
    /\ owner[id] # None
    /\ CheckpointPower(id)
    /\ UNCHANGED <<now, nextTokenId, owner, lock, owned, ownedIndex, voteVars, balance, controller>>

\* Mistake: the total is changed by a transfer as it is by a burn.
TransferFromTotal(id, to) ==
    LET from == owner[id]
        rest == Unlist(id)
    IN  /\ from # None /\ to # from
        /\ Covers(votes[from], lock[id]) /\ Covers(totalVotes, lock[id])
        /\ CheckpointPower(id)
        /\ owner' = [owner EXCEPT ![id] = to]
        /\ List(rest.lists, rest.index, to, id)
        /\ votes' = [votes EXCEPT ![from] = Minus(@, lock[id]), ![to] = Plus(@, lock[id])]
        /\ totalVotes' = Minus(totalVotes, lock[id])
        /\ history' = [history EXCEPT ![from] = WriteCheckpoint(@, votes'[from]),
                                      ![to] = WriteCheckpoint(@, votes'[to])]
        /\ totalHistory' = WriteCheckpoint(totalHistory, totalVotes')
        /\ UNCHANGED <<now, nextTokenId, lock, balance, controller>>

\* Mistake: the sender keeps the votes.
TransferKeepingVotes(id, to) ==
    LET from == owner[id]
        rest == Unlist(id)
    IN  /\ from # None /\ to # from
        /\ CheckpointPower(id)
        /\ owner' = [owner EXCEPT ![id] = to]
        /\ List(rest.lists, rest.index, to, id)
        /\ votes' = [votes EXCEPT ![to] = Plus(@, lock[id])]
        /\ history' = [history EXCEPT ![to] = WriteCheckpoint(@, votes'[to])]
        /\ UNCHANGED <<now, nextTokenId, lock, totalVotes, totalHistory, balance, controller>>

\* transferFrom and safeTransferFrom, through _update; a transfer to oneself
\* only moves the token to the end of the list.
Transfer(id, to) ==
    LET from == owner[id]
        rest == Unlist(id)
    IN  /\ from # None
        /\ owner' = [owner EXCEPT ![id] = to]
        /\ List(rest.lists, rest.index, to, id)
        /\ IF to = from
           THEN UNCHANGED <<accumulated, checkpointed, votes, history>>
           ELSE /\ Covers(votes[from], lock[id])
                /\ CheckpointPower(id)
                /\ votes' = [votes EXCEPT ![from] = Minus(@, lock[id]), ![to] = Plus(@, lock[id])]
                /\ history' = [history EXCEPT ![from] = WriteCheckpoint(@, votes'[from]),
                                              ![to] = WriteCheckpoint(@, votes'[to])]
        /\ UNCHANGED <<now, nextTokenId, lock, totalVotes, totalHistory, balance, controller>>

\* The 25% of an early withdrawal, 60% of it to the rewards controller.
Fee(amount) == (amount * FeeBps) \div Bps
RewardShare(amount) == (Fee(amount) * RewardShareBps) \div Bps

\* withdraw, with the burn through _update.
Withdraw(id) ==
    LET u == owner[id]
        amount == lock[id].amount
        early == now < lock[id].end
        rest == Unlist(id)
    IN  /\ u # None /\ (early => controller)
        /\ Covers(votes[u], lock[id]) /\ Covers(totalVotes, lock[id]) /\ amount <= balance.escrow
        /\ accumulated' = [accumulated EXCEPT ![id] = VotingPowerTime(id)]
        /\ checkpointed' = [checkpointed EXCEPT ![id] = 0]
        /\ owner' = [owner EXCEPT ![id] = None]
        /\ lock' = [lock EXCEPT ![id] = NoLock]
        /\ owned' = rest.lists /\ ownedIndex' = rest.index
        /\ votes' = [votes EXCEPT ![u] = Minus(@, lock[id])]
        /\ totalVotes' = Minus(totalVotes, lock[id])
        /\ history' = [history EXCEPT ![u] = WriteCheckpoint(@, votes'[u])]
        /\ totalHistory' = WriteCheckpoint(totalHistory, totalVotes')
        /\ balance' = IF early
                      THEN [escrow |-> balance.escrow - amount,
                            rewards |-> balance.rewards + RewardShare(amount),
                            treasury |-> balance.treasury + Fee(amount) - RewardShare(amount)]
                      ELSE [balance EXCEPT !.escrow = @ - amount]
        /\ UNCHANGED <<now, nextTokenId, controller>>

SetRewardsController ==
    /\ ~controller
    /\ controller' = TRUE
    /\ UNCHANGED <<now, tokenVars, voteVars, balance>>

Advance ==
    /\ now < MaxTime
    /\ now' = now + 1
    /\ UNCHANGED <<tokenVars, voteVars, balance, controller>>

Next ==
    \/ \E u \in Users, n \in Amounts, d \in Durations : CreateLock(u, n, d)
    \/ \E id \in Ids, n \in Amounts : IncreaseAmount(id, n)
    \/ \E id \in Ids, d \in Durations : ExtendLock(id, d)
    \/ \E id \in Ids : CheckpointVotingPower(id) \/ Withdraw(id)
    \/ \E id \in Ids, u \in Users : Transfer(id, u)
    \/ SetRewardsController \/ Advance

Spec == Init /\ [][Next]_vars

-----------------------------------------------------------------------------
(* Properties *)

OwnedBy(u) == {id \in Ids : owner[id] = u}

\* The list of an account enumerates its tokens, each at the index recorded for
\* it, through any order of transfers (also to oneself) and withdrawals.
OwnedListsExact ==
    \A u \in Users :
      /\ Len(owned[u]) = Cardinality(OwnedBy(u))
      /\ \A id \in OwnedBy(u) : ownedIndex[id] < Len(owned[u]) /\ owned[u][ownedIndex[id] + 1] = id

\* The aggregates that votes are read from are the sums of the locks an account
\* holds, the total that of all locks, and the escrow holds their CENT.
AggregatesAreSums ==
    /\ \A u \in Users :
         /\ votes[u].slope = SumFunctionOnSet([id \in Ids |-> lock[id].amount], OwnedBy(u))
         /\ votes[u].bias =
              SumFunctionOnSet([id \in Ids |-> lock[id].amount * lock[id].end], OwnedBy(u))
    /\ totalVotes.slope = SumFunction([u \in Users |-> votes[u].slope])
    /\ totalVotes.bias = SumFunction([u \in Users |-> votes[u].bias])
    /\ balance.escrow = SumFunction([id \in Ids |-> lock[id].amount])

\* votingPowerOf
VotingPowerOf(u) == SumFunctionOnSet([id \in Ids |-> Power(lock[id])], OwnedBy(u))

\* The votes of an account are at most the power of its positions, up to one
\* unit of truncation for each, and no less unless a lock of its own has expired.
VotesBounded ==
    \A u \in Users :
      /\ GetVotes(u) <= VotingPowerOf(u) + Cardinality(OwnedBy(u))
      /\ (\A id \in OwnedBy(u) : now <= lock[id].end) => GetVotes(u) >= VotingPowerOf(u)

\* "Voting power is based on the existing linear lock decay": an account has the
\* votes its positions add up to, one unit of truncation for each aside.
VotesAreDecay == \A u \in Users : GetVotes(u) >= VotingPowerOf(u)

\* The past is fixed: what a later transaction reads for an account, or for all,
\* at an earlier timepoint is what it had at the end of that block.
PastIsFixed ==
    [][\A time \in 0 .. now' - 1 :
         /\ \A u \in Users :
              GetPastVotes(u, time)' = IF time < now THEN GetPastVotes(u, time) ELSE GetVotes(u)
         /\ GetPastTotalSupply(time)' =
              IF time < now THEN GetPastTotalSupply(time) ELSE PowerAt(totalVotes, now)]_vars

\* The power time of a position is its own affair: no call of anyone changes what
\* it has earned, however often it is checkpointed, transferred, changed or
\* withdrawn, and a second adds what the power it has then is worth.
PowerTimeKept ==
    [][\A id \in Ids :
         IF now' = now THEN VotingPowerTime(id)' = VotingPowerTime(id)
         ELSE LET left == IF now < lock[id].end THEN 2 * (lock[id].end - now) - 1 ELSE 0
                  worth == (lock[id].amount * left) \div (2 * MaxLock)
              IN  VotingPowerTime(id)' \in VotingPowerTime(id) + worth
                                           .. VotingPowerTime(id) + worth + 1]_vars
=============================================================================
