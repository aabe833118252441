------------------------------- MODULE AgentPlan -------------------------------
(***************************************************************************)
(* From what an agent sees to what its account does: one run of its cycle  *)
(* and one chat of its owner read the chain, choose a plan (the risk       *)
(* guard's or the provider's), build a batch of calls and have the account *)
(* execute it, while the owner saves the configuration, authorizes the     *)
(* runner and acts himself.  AgentRuntime has the locks, rows and receipts *)
(* of those runs, AgentAccount the grants, LendingPool the pool; here a    *)
(* step of a run is one of its reads or its transaction.                   *)
(***************************************************************************)
EXTENDS Integers, FiniteSetsExt, SequencesExt

CONSTANTS
    Assets,             \* 1 .. n, in the order the guard repays: USDC, EURC, CIRBTC
    Policies,           \* what the owner may save
    Proposals,          \* plans of the provider
    Accounts,           \* accounts the model starts from
    Prices,             \* prices of an asset, in a common unit
    RepayAt, StopBorrowAt,  \* riskGuard thresholds of the health factor, in tenths
    MaxPlans,           \* bound: plans taken from the provider
    MaxEvents           \* bound: what the owner, the market and time do

Spenders == {"pool", "router"}
Spending == {"supply", "repay", "swap"}       \* kinds the pool or the router is paid by
Kinds == Spending \union {"withdraw", "borrow", "approve"}

ASSUME PlanAssumption ==
    /\ Assets # {} /\ Assets = 1 .. Cardinality(Assets)
    /\ Policies \subseteq [actions : SUBSET (Kinds \ {"approve"}), assets : SUBSET Assets,
                           cap : [Assets -> Nat],  \* maxAmountByAsset (0: none)
                           maxActions : 1 .. 4]
    /\ Proposals \subseteq Seq([kind : Kinds, asset : Assets, amount : Int,
                                spender : Spenders \union {"other"},   \* of an approve
                                out : Assets])                         \* of a swap
    /\ Accounts \subseteq [balance : [Assets -> Nat], supplied : [Assets -> Nat],
                           debt : [Assets -> Nat], standing : Nat]
    /\ Prices \subseteq Nat \ {0}
    /\ RepayAt \in Nat /\ StopBorrowAt \in Nat /\ RepayAt <= StopBorrowAt
    /\ MaxPlans \in Nat /\ MaxEvents \in Nat

VARIABLES
    config,     \* config_json: policy, autonomy enabled, riskGuard enabled
    active,     \* the account is active and the runner its operator
    granted,    \* the runner's permissions, limits and approval spenders
    account,    \* balances, positions, allowances, and what windows have spent
    price,
    run,        \* what each of the two runs knows
    plans, events

outside == <<config, active, granted, price>>
vars == <<outside, account, run, plans, events>>

Runs == {"cycle", "chat"}
Idle == [step |-> "idle"]
AllowanceKeys == Assets \X Spenders
LimitKeys == Kinds \X Assets
NoneGranted == [permissions |-> {}, spenders |-> {}, limit |-> [k \in LimitKeys |-> 0]]

Paid(x) == <<x.asset, IF x.kind = "swap" THEN "router" ELSE "pool">>
Approve(key, n) ==
    [kind |-> "approve", asset |-> key[1], amount |-> n, spender |-> key[2], out |-> key[1]]
Repay(a, n) == [kind |-> "repay", asset |-> a, amount |-> n, spender |-> "pool", out |-> a]

Worth(q) == MapThenSumSet(LAMBDA a : price[a] * q[a], Assets)
HealthBelow(tenths) ==
    /\ \E a \in Assets : account.debt[a] > 0
    /\ 10 * Worth(account.supplied) < tenths * Worth(account.debt)

-----------------------------------------------------------------------------
(* What the page of the owner authorizes *)

Permission(x) == <<x.kind, IF x.kind = "approve" THEN x.asset ELSE 0>>

\* buildRunnerAuthorizationPlan
ApprovalSpenders == [policy \in Policies |->
    {key \in policy.assets \X Spenders :
        IF key[2] = "pool" THEN policy.actions \intersect {"supply", "repay"} # {}
                           ELSE "swap" \in policy.actions}]
Limited == [policy \in Policies |->
    (policy.actions \X policy.assets) \union {<<"approve", key[1]>> : key \in ApprovalSpenders[policy]}]
Permitted == [policy \in Policies |->
    {<<k, 0>> : k \in policy.actions} \union {<<"approve", key[1]>> : key \in ApprovalSpenders[policy]}]

\* What is granted once the plan for the policy is.
Grant(g, policy) ==
    [permissions |-> g.permissions \union Permitted[policy],
     spenders |-> g.spenders \union ApprovalSpenders[policy],
     limit |-> [k \in LimitKeys |-> IF k \in Limited[policy] THEN policy.cap[k[2]] ELSE g.limit[k]]]

\* Everything the saved policy needs is granted, with its caps as limits.
Authorized ==
    /\ Permitted[config.policy] \subseteq granted.permissions
    /\ ApprovalSpenders[config.policy] \subseteq granted.spenders
    /\ \A k \in Limited[config.policy] :
        config.policy.cap[k[2]] > 0 /\ granted.limit[k] = config.policy.cap[k[2]]

-----------------------------------------------------------------------------
(* The plan *)

\* Mistake: the cap of the policy is not applied.
RepayAmount_Uncapped(policy, a) == Min({account.debt[a], account.balance[a]})

RepayAmount(policy, a) ==
    Min({account.debt[a], account.balance[a]}
        \union (IF policy.cap[a] > 0 THEN {policy.cap[a]} ELSE {}))

\* evaluateRiskGuard, with the reads in lost failed: of the health factor (0)
\* or of an asset's debt or balance, which then counts as none.
GuardPlan(c, lost) ==
    LET due == {a \in Assets \ lost : account.debt[a] > 0 /\ account.balance[a] > 0}
        order == SetToSortSeq(due, LAMBDA a, b : a < b)
    IN  IF /\ c.guard /\ 0 \notin lost
           /\ HealthBelow(RepayAt) /\ "repay" \in c.policy.actions
        THEN [i \in 1 .. Min({2, Len(order)}) |-> Repay(order[i], RepayAmount(c.policy, order[i]))]
        ELSE <<>>

BorrowBlocked(c, lost) == c.guard /\ 0 \notin lost /\ HealthBelow(StopBorrowAt)

WithoutBorrows(plan) == SelectSeq(plan, LAMBDA x : x.kind # "borrow")

\* assertActionPolicy
ActionAllowed(policy, x) ==
    /\ IF x.kind = "approve" THEN policy.actions \intersect {"supply", "repay"} # {}
                             ELSE x.kind \in policy.actions
    /\ x.asset \in policy.assets
    /\ policy.cap[x.asset] > 0 => x.amount <= policy.cap[x.asset]
    /\ x.kind = "swap" => x.out \in policy.assets /\ x.out # x.asset

\* What buildCalls asks of the amount and of the spender of an approve.
WellFormed(x) ==
    /\ x.amount \in Nat \ {0}
    /\ x.kind = "approve" => x.spender \in Spenders

-----------------------------------------------------------------------------
(* The batch: calls so far, what is left of each allowance, what to clean up *)

\* trackCleanup: a Map, in which a key keeps its place.
Tracked(clean, key) == IF key \in Range(clean) THEN clean ELSE Append(clean, key)

\* Mistake: the next call is thought to have the same allowance.
EnsureBatchAllowance_Again(built, x) ==
    IF built.left[Paid(x)] >= x.amount THEN built
    ELSE [calls |-> Append(built.calls, Approve(Paid(x), x.amount)),
          left |-> [built.left EXCEPT ![Paid(x)] = x.amount],
          clean |-> Tracked(built.clean, Paid(x))]

EnsureBatchAllowance(built, x) ==
    LET key == Paid(x)
    IN  IF built.left[key] >= x.amount THEN [built EXCEPT !.left[key] = @ - x.amount]
        ELSE [calls |-> Append(built.calls, Approve(key, x.amount)),
              left |-> [built.left EXCEPT ![key] = 0],
              clean |-> Tracked(built.clean, key)]

\* Mistake: an approval the plan asked for is left standing.
AddApproval_Standing(built, x) ==
    [built EXCEPT !.calls = Append(@, x), !.left[<<x.asset, x.spender>>] = x.amount]

AddApproval(built, x) ==
    [calls |-> Append(built.calls, x),
     left |-> [built.left EXCEPT ![<<x.asset, x.spender>>] = x.amount],
     clean |-> Tracked(built.clean, <<x.asset, x.spender>>)]

AddAction(built, x) ==
    IF x.kind = "approve" THEN AddApproval(built, x)
    ELSE LET b == IF x.kind \in Spending THEN EnsureBatchAllowance(built, x) ELSE built
         IN  [b EXCEPT !.calls = Append(@, x)]

\* After each action of the plan, with the allowances standing when they are read.
Built(plan, standing) ==
    LET built[i \in 0 .. Len(plan)] ==
            IF i = 0 THEN [calls |-> <<>>, left |-> standing, clean |-> <<>>]
            ELSE AddAction(built[i - 1], plan[i])
    IN  built

\* buildCalls
BuildCalls(plan, standing) ==
    LET built == Built(plan, standing)[Len(plan)]
    IN  built.calls \o [i \in DOMAIN built.clean |-> Approve(built.clean[i], 0)]

-----------------------------------------------------------------------------
(* The transaction *)

WithinGrant(s, x) ==
    LET key == <<x.kind, x.asset>>
    IN  /\ x.kind = "approve" => <<x.asset, x.spender>> \in granted.spenders
        /\ granted.limit[key] > 0
        /\ x.amount <= granted.limit[key] - s.spent[key]

\* The states an executed call may leave, none if it reverts.
Call(s, x) ==
    LET a == x.asset  n == x.amount
        t == [s EXCEPT !.spent[<<x.kind, a>>] = @ + n]
        paid == [t EXCEPT !.balance[a] = @ - n, !.allowance[Paid(x)] = @ - n]
        pays == n <= s.balance[a] /\ n <= s.allowance[Paid(x)]
        next == CASE x.kind = "approve" -> {[t EXCEPT !.allowance[<<a, x.spender>>] = n]}
                  [] x.kind = "supply" /\ pays -> {[paid EXCEPT !.supplied[a] = @ + n]}
                  [] x.kind = "repay" /\ pays /\ n <= s.debt[a] -> {[paid EXCEPT !.debt[a] = @ - n]}
                  [] x.kind = "swap" /\ pays -> {[paid EXCEPT !.balance[x.out] = @ + n]}
                  [] x.kind = "withdraw" /\ n <= s.supplied[a] ->
                        {[t EXCEPT !.supplied[a] = @ - n, !.balance[a] = @ + n]}
                  [] x.kind = "borrow" -> {[t EXCEPT !.debt[a] = @ + n, !.balance[a] = @ + n]}
                  [] OTHER -> {}
    IN  {u \in next : /\ WithinGrant(s, x)
                      /\ x.kind \in {"withdraw", "borrow"} => Worth(u.debt) <= Worth(u.supplied)}

\* The states there may be after each of the calls.
Executed(start, calls) ==
    LET after[i \in 0 .. Len(calls)] ==
            IF i = 0 THEN {start} ELSE UNION {Call(s, calls[i]) : s \in after[i - 1]}
    IN  after

ExecuteBatch(calls) == Executed(account, calls)[Len(calls)]

-----------------------------------------------------------------------------
Init ==
    /\ config \in [policy : Policies, enabled : {TRUE}, guard : BOOLEAN]
    /\ active = TRUE
    /\ granted \in {NoneGranted, Grant(NoneGranted, config.policy)}
    /\ \E a \in Accounts :
        account = [balance |-> a.balance, supplied |-> a.supplied, debt |-> a.debt,
                   allowance |-> [k \in AllowanceKeys |-> IF k[2] = "pool" THEN a.standing ELSE 0],
                   spent |-> [k \in LimitKeys |-> 0]]
    /\ price \in [Assets -> {Max(Prices)}]
    /\ run = [r \in Runs |-> Idle]
    /\ plans = 0 /\ events = 0

(* The runs *)

\* The agent's row is read when the scheduler starts, or when the owner writes.
Start(r) ==
    /\ run[r] = Idle
    /\ r = "chat" => plans < MaxPlans
    /\ run' = [run EXCEPT ![r] = [step |-> "started", config |-> config]]
    /\ UNCHANGED <<outside, account, plans, events>>

Plan(r, plan) ==
    run' = [run EXCEPT ![r] = [step |-> "planned", config |-> run[r].config, plan |-> plan]]

\* The snapshot forces the guard's plan, without asking the provider.
LookForced(r, lost) ==
    /\ run[r].step = "started" /\ r = "cycle"
    /\ run[r].config.enabled /\ active
    /\ GuardPlan(run[r].config, lost) # <<>>
    /\ Plan(r, GuardPlan(run[r].config, lost))
    /\ UNCHANGED <<outside, account, plans, events>>

\* The provider proposes a plan; only a cycle's loses its borrows.
LookFree(r, lost, proposal) ==
    /\ run[r].step = "started" /\ plans < MaxPlans
    /\ r = "cycle" => /\ run[r].config.enabled /\ active
                      /\ GuardPlan(run[r].config, lost) = <<>>
    /\ Plan(r, IF r = "cycle" /\ BorrowBlocked(run[r].config, lost)
               THEN WithoutBorrows(proposal) ELSE proposal)
    /\ plans' = plans + 1
    /\ UNCHANGED <<outside, account, events>>

\* buildCalls and the first assertPermissions; the second, the simulation and
\* the transaction agree with Execute, or the run fails.
Build(r) ==
    /\ run[r].step = "planned" /\ active
    /\ Len(run[r].plan) \in 1 .. run[r].config.policy.maxActions
    /\ \A i \in 1 .. Len(run[r].plan) :
        ActionAllowed(run[r].config.policy, run[r].plan[i]) /\ WellFormed(run[r].plan[i])
    /\ \E calls \in {BuildCalls(run[r].plan, account.allowance)} :
        /\ \A i \in DOMAIN calls : Permission(calls[i]) \in granted.permissions
        /\ run' = [run EXCEPT ![r] = [step |-> "built", calls |-> calls,
                                      standing |-> account.allowance]]
    /\ UNCHANGED <<outside, account, plans, events>>

Execute(r) ==
    /\ run[r].step = "built" /\ active
    /\ \A i \in DOMAIN run[r].calls : Permission(run[r].calls[i]) \in granted.permissions
    /\ account' \in ExecuteBatch(run[r].calls)
    /\ run' = [run EXCEPT ![r] = Idle]
    /\ UNCHANGED <<outside, plans, events>>

\* A run may end without its transaction at any step: nothing to do, a policy,
\* permission, read, simulation or broadcast that fails, a revert, a stop.
Fail(r) ==
    /\ run[r] # Idle
    /\ run' = [run EXCEPT ![r] = Idle]
    /\ UNCHANGED <<outside, account, plans, events>>

-----------------------------------------------------------------------------
(* The owner, the market and time *)

Event == events < MaxEvents /\ events' = events + 1

\* The route keeps the saved riskGuard, whatever the form asks.
SaveConfig(policy, enabled) ==
    /\ Event
    /\ config' = [config EXCEPT !.policy = policy, !.enabled = enabled]
    /\ UNCHANGED <<active, granted, account, price, run, plans>>

\* The page writes what the chain does not have yet, a limit with a new window.
AuthorizeRunner ==
    /\ Event
    /\ LET policy == config.policy
           changed == {k \in Limited[policy] : granted.limit[k] # policy.cap[k[2]]}
       IN  /\ \A k \in Limited[policy] : policy.cap[k[2]] > 0
           /\ granted' = Grant(granted, policy)
           /\ account' = [account EXCEPT !.spent = [k \in LimitKeys |->
                              IF k \in changed THEN 0 ELSE account.spent[k]]]
    /\ UNCHANGED <<config, active, price, run, plans>>

SetActive(on) ==
    /\ Event /\ on # active /\ active' = on
    /\ UNCHANGED <<config, granted, account, price, run, plans>>

\* revokeAgentApproval
RevokeApproval(key) ==
    /\ Event /\ account.allowance[key] > 0
    /\ account' = [account EXCEPT !.allowance[key] = 0]
    /\ UNCHANGED <<outside, run, plans>>

PriceMoves(a, p) ==
    /\ Event /\ p # price[a] /\ price' = [price EXCEPT ![a] = p]
    /\ UNCHANGED <<config, active, granted, account, run, plans>>

InterestAccrues(a) ==
    /\ Event /\ account.debt[a] > 0
    /\ account' = [account EXCEPT !.debt[a] = @ + 1]
    /\ UNCHANGED <<outside, run, plans>>

\* The day of a limit is over: the next call starts another.
WindowEnds(k) ==
    /\ account.spent[k] > 0
    /\ account' = [account EXCEPT !.spent[k] = 0]
    /\ UNCHANGED <<outside, run, plans, events>>

RunNext(r) ==
    \/ Start(r) \/ Build(r) \/ Execute(r) \/ Fail(r)
    \/ \E lost \in SUBSET ({0} \union Assets) :
        LookForced(r, lost) \/ \E proposal \in Proposals : LookFree(r, lost, proposal)

OutsideNext ==
    \/ \E policy \in Policies, enabled \in BOOLEAN : SaveConfig(policy, enabled)
    \/ AuthorizeRunner
    \/ \E on \in BOOLEAN : SetActive(on)
    \/ \E key \in AllowanceKeys : RevokeApproval(key)
    \/ \E a \in Assets, p \in Prices : PriceMoves(a, p)
    \/ \E a \in Assets : InterestAccrues(a)
    \/ \E k \in LimitKeys : WindowEnds(k)

Next == (\E r \in Runs : RunNext(r)) \/ OutsideNext

\* The cron starts cycles for ever; a run ends; not every cycle of those that
\* could go on loses a read or fails; days pass.
Fairness ==
    /\ WF_vars(Start("cycle")) /\ WF_vars(Fail("cycle"))
    /\ SF_vars(LookForced("cycle", {})) /\ SF_vars(Build("cycle")) /\ SF_vars(Execute("cycle"))
    /\ WF_vars(\E k \in LimitKeys : WindowEnds(k))

Spec == Init /\ [][Next]_vars /\ Fairness

-----------------------------------------------------------------------------
(* Properties *)

(* No batch leaves the pool or the router a larger allowance than they had:*)
(* what a plan approves, itself or for its calls, does not outlive it.     *)
AllowancesReturned ==
    [][\A r \in Runs : Execute(r) =>
            \A key \in AllowanceKeys : account'.allowance[key] <= account.allowance[key]]_vars

Draw(left, x) ==
    IF x.kind = "approve" THEN {[left EXCEPT ![<<x.asset, x.spender>>] = x.amount]}
    ELSE IF x.kind \notin Spending THEN {left}
    ELSE IF left[Paid(x)] >= x.amount THEN {[left EXCEPT ![Paid(x)] = @ - x.amount]}
    ELSE {}

\* The allowances there may be after each of the calls, as far as they last.
Drawn(start, calls) ==
    LET left[i \in 0 .. Len(calls)] ==
            IF i = 0 THEN {start} ELSE UNION {Draw(l, calls[i]) : l \in left[i - 1]}
    IN  left

(* A batch never lacks an allowance unless a standing one it counted on    *)
(* has been lowered since, by the owner or by the other run.               *)
BatchFits ==
    \A r \in Runs :
        /\ run[r].step = "built"
        /\ \A key \in AllowanceKeys : account.allowance[key] >= run[r].standing[key]
        => Drawn(account.allowance, run[r].calls)[Len(run[r].calls)] # {}

Endangered == HealthBelow(RepayAt)
Payable == \E a \in Assets : account.debt[a] > 0 /\ account.balance[a] > 0
\* The guard may act, and what it does is granted.
Guarded ==
    /\ config.enabled /\ config.guard /\ active /\ Authorized
    /\ "repay" \in config.policy.actions /\ config.policy.assets = Assets
    /\ config.policy.maxActions >= 2

(* A position below the protection threshold is brought back above it, as  *)
(* far as the account holds what it owes, while the guard may act: through *)
(* lost reads, failed runs, spent limits and an owner who chats meanwhile. *)
PositionProtected == Guarded /\ Endangered ~> ~Endangered \/ ~Payable \/ ~Guarded
=============================================================================
