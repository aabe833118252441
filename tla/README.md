# Centry: TLA+ specifications and proofs

Centry is a lending protocol (Solidity) with autonomous agents: accounts on
chain that a hosted runner operates for their owners. This directory holds
specifications of its core, translated from the source, the TLC runs that check
them, and proofs of their main properties. `PROJECT.json` lists for every
definition the lines it models, for every run what it checks, and the hazards
of the code with the properties that guard against them.

## Inventory

| part | state | operations | hard because |
|---|---|---|---|
| agent runner, `agent-runner/src/index.js` | rows of D1: locks, tasks, receipts, runs, messages; the signer's nonce on chain | `runAgent` (called by the cron trigger for every active agent) | each `await` may interleave with other wakes, throw after having taken effect, or be the last (eviction) |
| agent executor, `agent-executor/src/index.js` | none of its own; shares the tables and the signer | one `runAgent` with the owner's message | runs beside the cron cycle of the same agent, under another lock |
| agent-db, `agent-db/src/index.js` and its migrations | the D1 tables | enqueue, claim, complete, lock, unlock, receipts, nonces, registry | leases, repeated and late calls |
| lending pool, `CentryLendingPool.sol`, with `CentryInterestRateStrategy.sol` | reserves with indexes and scaled totals, scaled positions, its token balance | supply, withdraw, borrow, repay, liquidate, sweep, parameters, pause | rounding, accrual, prices that move or are missing |
| oracle, `CentryOracle.sol` | feeds and adapters per asset | configuration, `getPrice` with fallback | staleness, two sources |
| veCENT, `CentryVotingEscrow.sol` | locks as NFTs, vote aggregates, checkpoints | create, increase, extend, transfer, withdraw | decay computed from aggregates, history lookups |
| rewards, `CentryVeCENTRevenueRewards.sol` (epochs), `CentryVeCENTRewards.sol` (fixed rate), `CentryRevenueDistributor.sol` | epochs with budgets, roots and claims; self-repay settings; accruals | queue, activate, claim, transfer hook; checkpoint and claim | ownership changes between accrual and claim, overcommitted budgets |
| reward scripts and workflows, `scripts/*.js`, `.github/workflows/*.yml` | reward files on the main branch; transactions sent and not yet mined | generate, queue, activate, refresh the self-repay instructions, run the keeper | reads of different moments, workflows that overlap and push over each other, transactions that are mined late |
| revenue, `CentryRevenueEngine.sol`, `CentrySelfRepayExecutorV2.sol`, swap adapters | reserved revenue per asset, totals | pull, allocate, acquire, fund; self-repay | several contracts in one transaction, reservations against balances |
| agent account and factory, `contracts/agents` | owner, operators, permissions per authorization epoch, limits, spenders, allowances | ownership, permissions, execute, executeBatch, withdraw | epochs, cumulative limits in windows, what a former owner left |
| configuration pages and route, `frontend/app/app/agents`, `agents/[agentId]/config/route.js` | `config_json` of the agent's row | save, authorize the runner, switch on and off | three copies of what an agent may do: the row, the chain, a run's snapshot |
| API routes and libraries (`frontend/app/api`, `frontend/lib`) | challenges, nonces, sessions, connections, keys, the agent's row | authentication, registration, keys, connections, chat, agent-to-agent tasks, prepared calls | one-time nonces, tokens that outlive what they stand for, reads between which the chain moves |
| scheduler and analytics indexer (in the runner) | cursor, events, hourly rows | cron invocation, index, snapshot | invocations overlap, throw and stop between writes |
| governor, timelock, token | OpenZeppelin's | OpenZeppelin's | not in the repository |
| other web pages, mocks | none | - | - |

How they interact: the cron trigger and the executor both call `runAgent` and
meet only in the D1 rows and in the signer's transactions; the same invocation of the
trigger then indexes the pool's events; the routes put tasks
and messages into the same rows; the runner executes through agent accounts,
which call the lending pool among others, within what the owner's page has granted;
the reward scripts turn voting power into epochs of allocations that the contract pays
on proofs from the published files; the revenue engine moves the pool's treasury income
to the veCENT rewards, and the self-repay executor brings rewards back into the pool
through `repayFor`.

## Modules

| module | models | composed with |
|---|---|---|
| `AgentRuntime` | every call of `runAgent` (cycles and direct chats) over locks, tasks, receipts, messages and chain | refines `TaskQueue` |
| `TaskQueue` | what the durable queue promises (abstract) | - |
| `Scheduler` | overlapping cron invocations: wakes, recovery of tasks, index and snapshot | the queue and lock of `AgentRuntime` by what they do |
| `AgentPlan` | what a run sees, plans, builds and executes, and what the owner's pages grant | the steps of `AgentRuntime` between snapshot and receipt; grants of `AgentAccount`; calls of `LendingPool` |
| `AgentAccount` | the agent's account on chain: owner, operators, permissions, limits, epochs | - |
| `AgentAccess` | the API routes of owners and operators | EXTENDS `AgentAccount` |
| `LendingPool` | the pool and its rate curve | - |
| `VotingEscrow` | locks, votes and their history | - |
| `RewardAllocation` | the split of a budget and the Merkle tree, computed | - |
| `RewardEpochs` | reward contract, reward scripts and workflows, self-repay keeper and executor | EXTENDS `RewardAllocation` |
| `MC*` | small instances for TLC | |
| `AgentRuntimeProofs`, `SchedulerProofs`, `AgentPlanProofs`, `AgentAccessProofs`, `LendingPoolProofs`, `VotingEscrowProofs`, `RewardEpochsProofs` | theorems about the module of that name, and about what it extends | |
| `FiniteSums` | lemmas: induction, sums over finite sets | used by most of the proofs |

### AgentRuntime

A call of `runAgent` is a process named by its run id (fresh, so it stands for the
lease id of the call too). `pc[r]` is the await it is at; every await is one
action, or several when it can end in several ways. The rows are variables:
`lock` (centry_agent_locks), `status`, `lease`, `left`, `result` (centry_agent_tasks),
`answer` (the assistant message of an owner chat), `receipt`
(centry_agent_action_receipts of the call), and `tx` is what the chain made of its
transaction. `todo` and `executed` are its locals `tasks` and `runStatus`.

| code | action |
|---|---|
| `tryLock` at the start, `{status: "locked"}` | `Start`, `StartLocked` |
| `claimAgentTasks` | `Claim` (its SELECT may throw after the UPDATE) |
| rejected agent-to-agent tasks, choice of the owner chat | `Reject`, `SelectTasks` |
| returns before planning, balance answers, `waiting_provider` | `ReturnEarly`, `AnswerBalance`, `WaitingProvider` |
| plan without or with calls, receipts | `PlanNothing`, `PlanCalls` |
| transaction mutex, second read, simulation, broadcast, receipt, verification, `finally` | `TakeMutex`, `MutexBusy`, `Simulate`, `SimulationFails`, `Send`, `Confirm`, `Reverted`, `ReleaseMutex`, `ReleaseFails` |
| completion loop, outbound messages | `FinishTask`, `FinishDirect`, `SendMessage`, `FinishRun` |
| any other await that throws | `Throw` |
| catch block, finally block | `CatchReceipts`, `AnswerFailure`, `Finally` |
| eviction, the chain, the clock, `enqueue_agent_task` | `Crash`, `Mine`, `Tick`, `Enqueue` |

A statement that throws may have been applied: both outcomes are disjuncts. Time is
kept as what is left until an expiry. A plan is one batch of calls in one transaction
(`execute` or `executeBatch`), so the receipts of a call change together. Abstracted:
what the provider answers (any plan the policy accepts, or none), the risk guard and
the permission checks (they choose between the actions above; `AgentPlan` has them), strategy state and the
run log, which no property reads. A claim's SELECT is taken to see what its UPDATE
leased: they are milliseconds apart and a lease is five minutes.

`Spec` puts no bound on how long a call takes. `TimelySpec` adds the assumption the
design makes and does not enforce: no call outlives a lock it holds (`InTime`: the
clock does not run a lock out while its call is alive). The code sets no deadline on
a run, and `unlock` does not ask who holds the row, so this is an assumption about the
deployment (five-minute locks, platform limits), not about the code. The lease is
taken after the lock and is as long (`AlignedAssumption`, the comment at the claim).

### TaskQueue

The abstract queue: a task goes to one holder at a time, a holder gets at most one
batch, a task changes hands only after its lease has lapsed, and only its present
holder closes it, once. `QueueSpec` maps `AgentRuntime` to it (holder = lease_id,
closer = author of the result).

### LendingPool

One action per external function, with the accrual it starts with, all checks, the
code's integer divisions in the code's order, and the checked subtractions that
revert. Reserves hold indexes, scaled totals and the time since the last accrual;
users hold scaled amounts. The price of an asset is what `oracle.getPrice` answers,
0 when it reverts. Fee-on-transfer tokens are outside (`_pullExactToken` reverts
for them), and so are 256-bit overflows, since amounts are bounded by caps and
tokens' supplies.

### VotingEscrow

A transaction is one action, and several may share a block (`now`); one that reverts is
disabled. `lock`, `accumulated` and `checkpointed` are the per-token mappings, `votes` and
`totalVotes` bias and slope, `history` and `totalHistory` the checkpoint arrays, `owned`
and `ownedIndex` the lists of tokens. `CreateLock`, `IncreaseAmount`, `ExtendLock`,
`CheckpointVotingPower`, `Transfer` (through `_update`), `Withdraw` (with the burn) and
`SetRewardsController` are the external functions. The code checkpoints before and after
each change; the second overwrites the first, which has the same timestamp, so one
write stands for both. `Lookup` is the binary search by what it finds. Outside: the CENT
balances of users (a transfer of CENT that fails reverts the whole call), approvals, the
transfer hook (in `RewardEpochs`) and `delegate`, which changes nothing.

### Scheduler

Every five minutes the trigger starts an invocation (`Fire`), also while another one
runs. An invocation reads the agents and wakes them, at most `Concurrency` at a time
(`Wake`, `WakeLocked`, `EndWake`), and then, whatever came of that (`AfterWakes`,
`AfterThrow`), indexes events from the cursor on (`ReadCursor`, `InsertEvent`,
`WriteCursor`) and captures the hour (`MarkerFound`, `ReadReserves`, `WriteRow`,
`WriteTotal`). `Stop` ends one between any two of these. A wake is reduced to what it does
to tasks and the agent's lock: it claims, and ends having closed some, all or none of what
it claimed (`index.js:2277-2343` return early and the catch block at `:2729` closes only
owner chats, so an agent-to-agent task may be left any number of times); `LeaseLapses` and `LockLapses` may come at any time. Every block has one event, and a
row says which reserve it is of. History: `since`, the block at which the index started
that the cursor stands for.

### AgentPlan

`Runs` are a cycle and an owner chat of one agent, under different locks, so they
overlap. `config` is `config_json`, `granted` what the account has granted the runner,
`account` its balances, positions, allowances and spent limits.

| code | action |
|---|---|
| the row of the agent when a run starts | `Start` |
| `readAgentSnapshot`, `evaluateRiskGuard`, forced actions | `LookForced` |
| provider's plan, `filterRiskGuardActions` (cycles only) | `LookFree` |
| `assertActionPolicy`, `buildCalls` with `ensureBatchAllowance` and clean-up, first `assertPermissions` | `Build` |
| second `assertPermissions`, simulation, `executeBatch` with the limits and the pool's checks | `Execute` |
| any read, check, simulation or transaction that fails; nothing to do | `Fail` |
| config route; authorization page; switch; `revokeAgentApproval` | `SaveConfig`, `AuthorizeRunner`, `SetActive`, `RevokeApproval` |
| oracle, interest, the day of a limit | `PriceMoves`, `InterestAccrues`, `WindowEnds` |

Reads of a snapshot may fail one by one (`lost`): a debt or balance that cannot be read
counts as none, a missing health factor switches the guard off for that cycle.
Abstracted: collateral counts whole (the thresholds are in tenths, above 10), a swap is
one for one, amounts and caps have one unit (the page and the runner parse both with 6
decimals), limits are the caps per call and per day, as the page writes them. Left out:
votes and transfers (`transferToAgent` can only be called by the account itself while
its caller holds the reentrancy guard, so it always reverts), quotes and slippage, the
pool's rounding (`LendingPool`), locks, tasks and receipts (`AgentRuntime`).

### AgentAccount and AgentAccess

`AgentAccount` has one target, asset and spender. `TransferOwnership` and
`AcceptOwnership` raise the authorization `epoch`; permissions, limits and spenders carry
the epoch they were written in and count only in that one, while `operators` stay.
`Execute` is an operator's call or batch, with the limit of each of its calls enforced in
order. History: `granted` is what the present owner wrote for an operator since he accepted,
`spentAt` what was spent when.

`AgentAccess` puts the API routes on it. A request is a process that reads facts from
the chain one by one (`Read`), between which the account may change, and then has its
effect: `ConsumeNonce` and `CreateKey` or `IssueOwnerSession` for a signed owner challenge,
`SessionChecked` and `UpsertAgent` for a registration, `IssueToken`, `LiveOperator`, `Served` for
connections and sessions. Anything issued may be sent again, concurrently, until it
expires. A call of agent-db may be applied and its answer lost. History: `seen`, what was
true at some moment while a request ran.

### RewardAllocation and RewardEpochs

`RewardAllocation` computes: the proportional split with the rest to the largest
remainders (`Allocate`), the Merkle tree with a leaf without a neighbour moving up
(`MerkleRoot`, `MerkleProof`). Hashes are terms. `RewardEpochs` has the contract (`Fund`,
`QueueEpoch`, `DelayPasses`, `ActivateEpoch`, `Claim`, `ClaimForSelfRepay`,
`SetSelfRepayRecipient`, `DisableSelfRepay`, and `Move` with the escrow's transfer hook), and the workflows as
sequences of their reads, pushes and transactions: generation (`GenStart` ..
`GenPublish`), refresh of the instructions (`RefreshStart`, `RefreshPublish`), queueing
(`QueueStart`, `QueueSend`, `QueueEnds`; what was `sent` may be mined at any later time),
activation (`RunActivation`), the keeper (`KeeperStart` .. `KeeperEnds`). `manifest` is the
file on the main branch, `published` every manifest ever committed (proofs stay available
in its history). A workflow never overlaps itself (its concurrency group) but overlaps the
others. Left out: the override of the epoch number and the scan limits, what an
instruction says, the owner's configuration, `read-reward-epoch.js`, which only prints.

## Runs

| run | question | properties |
|---|---|---|
| `runtime_queue` | whatever is late, lost or stopped: is success only reported for mined transactions, and do the rows behave as the queue? | `TypeOK`, `SuccessIsMined`, `QueueSpec` |
| `runtime_timely` | in time: is a cycle alone with its agent and with the signer, does it keep its lease, does the owner read what the row says? | `AgentExclusion`, `SubmitExclusion`, `LeaseKept`, `AnswerIsResult` |
| `runtime_receipts` | are confirmed receipts final? (violated) | `ConfirmedStays` |
| `runtime_late_answer` | can a worker that lost its lease answer? (violated) | `AnswerIsResult` |
| `scheduler` | invocations overlap and stop anywhere: is the index complete, an hour never half aggregated, every block indexed in the end, and no task forgotten? | `EventsComplete`, `AggregateHasRows`, `BlocksIndexed`, `TasksClose` |
| `agent_plan` | do batches have the allowances they need and leave none, and is an endangered position brought back? | `BatchFits`, `AllowancesReturned`, `PositionProtected` |
| `agent_access` | does a signed challenge work once, and is everyone who is served or executes entitled to it then, within the limits? | `ChallengeOnce`, `ServedWhileEntitled`, `PresentOwnerGranted`, `SpentWithinWindow` |
| `pool_solvency` | do totals, interest and rounding add up? | `TypeOK`, `TotalsAreSums`, `InterestCovered`, `FullExitClears`, `RoundingBounded` |
| `pool_health` | can calls make a healthy position liquidatable, are liquidations fair? | `LiquidationFair`, `HealthKept` |
| `escrow_votes` | do lists, aggregates and history agree with the locks, and does no call change what a position has earned? | `OwnedListsExact`, `AggregatesAreSums`, `VotesBounded`, `PastIsFixed`, `PowerTimeKept` |
| `escrow_decay` | do an account's votes follow the decay of its locks? (violated) | `VotesAreDecay` |
| `reward_epochs` | is every promise covered, payable, paid once and to the right account, whatever order workflows, transactions and owners come in? | `BudgetsReserved`, `Solvent`, `AllocationsPayable`, `PaidIsAllocation`, `SelfRepayOwnerCurrent`, `AllocationExact`, `ProofsExact`, `ActiveRootFixed`, `ManifestsAdvance`, `QueuedEpochActivates` |

### Bounds

Runtime: two tasks (an owner chat and an agent-to-agent task); every property but the
queue's relates at most two calls, and a third call only repeats what a second can do to
the first. `runtime_queue` has two cycles of one agent and ttls of 0, so a lock or lease can
be over after any tick; `runtime_timely` has ttls of 1, so that time passes inside a call,
and runs two calls at once (`MCTwoCalls`): two cycles of one agent, a cycle and a direct
chat of it, or that chat and a cycle of another agent, which share only the transaction
mutex. The calls of an
instance are one-shot, so it comes to rest when all have returned and everything has been
enqueued and mined: deadlock is not an error there.

Scheduler: two invocations at a time that start again and again, one agent, one task,
two blocks after the start of the index, one block per invocation, one reserve and its
aggregate, one stop. With one task the limit of a claim is never reached, so what `Due`
says of older tasks is not put to the test here. Two indexers are what it takes to overtake and set back the
cursor; one reserve is enough to have a row, the aggregate and a stop between them.

Plan: two assets in the guard's order, balances and debts up to 3, caps of 2 and a
narrow policy (repay only, one asset, cap 1, one action), a standing allowance of 1 so
that a batch finds some and not enough, one plan of the provider out of four kinds (two
supplies that share an allowance, an approve and what uses it, a router approval larger
than its swap, a borrow with a withdrawal), two events of the owner or the market. One
provider plan is enough for the chat to take allowance, limit or balance from the cycle
between its reads and its transaction.

Access: two owners, one operator, two concurrent requests, one signed challenge, five
events on the account over two time units, lifetimes of one unit, limits of 1 per call
and 2 per window of 2, batches of one to three calls. Time is coarse: an expiry, a
window's end and a request may all fall into one unit or into different ones.

Pool: `pool_solvency` has one asset and two users with amounts 27 and "everything",
indexes in hundredths, one year per tick at rates of 10 to 30 percent, so that the
indexes become awkward (101, 102, 107) and every division truncates; `MaxIndex` stops
time, `MaxCash` is the supply of the token, `MCFirstChoice` keeps the second set of
parameters to states without debt under it. `pool_health` has two assets, a lender
and a borrower (`MCRoles`) and the collateral's price 0, 6 or 10, so positions become
unhealthy by price, and by interest.

Escrow: two users, two tokens, three blocks of any number of transactions, weeks of two
units and locks of one or two weeks, so that one lock expires while the other runs and
can be extended; amounts 5 and 10 over a `MaxLock` of 4 make every division truncate.
Two tokens are enough for the swap in the lists, three blocks for a lookup before, at
and after a checkpoint.

Rewards: two positions of which one is traded, two epochs, two generated manifests, two
deposits of 2, so that both epochs can be promised before either is paid, a manifest
can be replaced while its epoch is queued, and a transaction for a replaced manifest can
still be mined. `AllocationExact` and `ProofsExact` are about operators: they are checked
for all powers up to 3 of three positions and all sets of up to four leaves, in the states before the first
deposit; the proofs remove these bounds.

Deadlock is checked in the pool, reward, scheduler and plan runs. The escrow's comes to
rest when every token has been withdrawn in the last block, the runtime's as said
above, and that of the access when both requests have ended and the events are used up.

### Fairness

* `Scheduler`: the trigger keeps firing (strong, since an invocation slot may be
  occupied at times), an invocation that is not stopped takes its next step, leases and
  locks run out. Nothing is assumed of how a wake ends. `BlocksIndexed` has the premise that from some time on indexers no
  longer overlap: the cursor is written without a look at its value, so invocations that
  always overlap may set it back for ever; and it counts on stops to end, which the bound
  `MaxFailures` sees to. `TasksClose` has the premise that the scheduler gets past its
  first reads again and again, and then says two things. A task that is due (open, and
  among the oldest that one claim takes) is claimed again and again until it is closed.
  And it is closed in the end under a second premise, that from some moment on no wake of
  its agent loses a task it has not closed (`Loses`). The code does not guarantee that
  premise: a wake loses an agent-to-agent task when autonomy is off, the account inactive,
  the operator not authorized or no provider configured (`index.js:2277-2343`), when an error
  takes it to the catch block (`:2729`), when an owner's chat of the same batch goes first (`:2157`),
  when it is stopped, and when it outlives its lock and lease. Without that premise TLC finds the task that
  stays open for ever, and twenty such tasks keep later ones from being claimed at all.
* `RewardEpochs`: the queue delay passes, and the hourly activation workflow runs when
  it can. `QueuedEpochActivates` excludes epochs whose manifest a later generation
  replaced, since their activation refuses from then on.
* `AgentPlan`: the trigger starts cycles for ever and every run ends (weak); not every
  cycle that could go on loses a read, fails its checks or its transaction (strong on
  `LookForced`, `Build`, `Execute`); days pass. Weak fairness would not do: each run may fail, and
  nothing in the code retries within a run. The premise (`Guarded`) asks that the guard
  is on, everything the saved policy needs is granted, and the policy allows repaying
  any asset in two actions: the guard does not look at `allowedAssets` or `maxActions`, and
  a plan beyond them is refused.

## Proofs

Every invariant and every action property of the passing runs is proved, for every value
of the constants that satisfies the modules' assumptions. These say what the constants
are (finitely many users, assets, tokens; positive units, weeks and limits; orders the
code keeps, such as `Week <= MaxLock`), with three that matter: `AlignedAssumption` (the lease
of a task is at least as long as the agent's lock), `AccessAssumption` (a request ends before
agent-db forgets its nonce: a day, less the five minutes of a challenge) and
`RateAssumption` (what the constructor of the rate strategy checks). Integers are unbounded,
as in the models.

The invariants are rarely inductive as they stand. What each proof adds:

`AgentRuntimeProofs`: `TypeCorrect`, `LeaseCorrect` (`LeaseNamesRun`: a processing row is
leased to a call of its own agent that has claimed it), `SuccessCorrect`
(`SuccessIsMined`) and `QueueCorrect` (`QueueSpec`, the refinement). `SuccessIsMined` is
not inductive: a result says executed because the call's `executed` was set after its
receipt was seen mined, so the invariant adds that a call at `release` or with
`executed` has a mined transaction, and that mined is final. The refinement needs
that every claimed task was claimed by the call that holds it, and shows each action
of the runtime to be one action of the queue or a stutter. From `TimelySpec`:
`AgentsExclusive`, `SubmitsExclusive`, `LeasesKept` and `AnswersAreResults`, by an invariant
that relates time: a live call's lock
has time left, a call in the critical section holds the mutex with time left, two live
calls with one lock id are the same, and the lease of every task in `todo` ends no
earlier than the call's lock.

`SchedulerProofs`: `NoHoles` (`EventsComplete`) and `AggregatesHaveRows`, for any number of
overlapping invocations. The cursor alone says nothing of an invocation on its way to
write it, so the invariant has for each one that the blocks from the start it read to the
one it is at are in the table (`Progress`), and the same for rows. Tables only
grow, so what one invocation has found stays true whatever the others do.

`AgentPlanProofs`: `BatchesFit` (`BatchFits`) and `NoAllowanceStays` (`AllowancesReturned`), for
any plan a policy lets through. A batch is built by a recursion over the plan, and what must
be known of it is an invariant of that recursion (`BuildOK`): from any allowances not below
those that were read, the calls so far can be paid one after the other and leave at least
what the builder thinks is left (`Suffices`: there is a sequence of allowances, one after
each call), and every key they approve is tracked. Then each key's last approval in the
batch is of zero (`Returned`), so that along the execution its allowance ends at zero or was only
ever drawn from. The invariant of the state is that every built batch is `Sound`.

`AgentAccessProofs`: `OnlyPresentOwnerGrants` from `GrantInv` (no record is of a later epoch
than the present one; one of the present epoch that counts was granted by its owner);
`LimitsHold` (`SpentWithinWindow`: no period of a window's length sees more than twice the
limit) from `LimitInv`: the record's `spent` is exactly what was spent since the window
started, the length of a window before that start saw at most one limit, and any
earlier such period at most two; a period that reaches into the present window is one part
of each kind. `ChallengesOnce` from `ChallengeInv` (of all keys, sessions and requests about to create
one for a challenge there is at most one, and once there is one its nonce is remembered
or the challenge can no longer be verified); `ServedEntitled` from `EntitledInv` (what a
request needs, it has seen or has still to read).

`LendingPoolProofs`: `PoolTypeCorrect` (no balance, position or total goes below zero),
`FullExitCorrect`, `RoundingCorrect` and `LiquidationCorrect`, from the invariant that an
active reserve has indexes of at least `Ray`, a reserve factor of at most 100% and a
bonus of at least 100%. `TotalsCorrect` (scaled totals are the sums of the positions) adds that a
reserve that was never added has none; `HealthCorrect` (`HealthKept`: while prices and
parameters stay, no call of anyone turns a healthy position into one that can be liquidated)
adds `ltv <= lt` and compares
cross products of sums instead of quotients, since a call brings reserves up to date without
changing how any index reads (`BroughtUpToDate`); `InterestCorrect` (`InterestCovered`) shows
that an accrual pays suppliers no more than it charges borrowers, up to the truncations that the
property names.
The arithmetic is in lemmas about division with generic
constants, since the solvers do not do nonlinear division by themselves.

`VotingEscrowProofs`: `ListsCorrect` (`OwnedListsExact`) from `Listed`: list and index are inverse to
each other, through the swap with the last element on removal; `AggregatesCorrect` and `VotesCorrect` from
`Sums`: bias and slope of each user, and of all, are the sums over the tokens held, however tokens
were moved; `PastCorrect` (`PastIsFixed`) from `Histories`: checkpoints are in the order of time and the
last one is the present aggregate, so that a call writes at the end only; `PowerTimeCorrect`
(`PowerTimeKept`): the integral of a position's power that a call folds into `accumulated` is what
the view would have added.

`RewardEpochsProofs`, about the operators: `AllocationTotal`, `AllocationFair` and
`AllocationMonotone` (largest remainders give exactly the budget, to each within one unit of
its share, and never less for more power, for any finite set of positions: the ranks of
the positions are a bijection to `0 .. n - 1`, which gives as many extra units as there are left), `MerkleSound` and
`MerkleExact` (for any number of leaves, the proof of a leaf verifies that leaf, and
nothing but a leaf of the tree is verified by any proof). About the specification:
`ActiveRootsFixed` from `Exclusive` (no epoch is both queued and
active); `SettingsCurrent` from `Settings`; `AlwaysSolvent` from `Files` (what is published,
sent and being worked on is well formed: claims are of amounts of published manifests)
and `Money`; `ManifestsOnlyAdvance` from `Advance` (every epoch before that of the
manifest, and before the one a generation has chosen, is taken); `PaidCorrect`, `PayableCorrect` and
`BudgetsCorrect` from `Ledger`: each active epoch comes from a published manifest of its
root and budget, what it has paid are whole allocations of that manifest, each to its token, and its
claimed total is their sum. `AllocationsExact` and `ProofsCorrect` are the run's instances
of the theorems about the operators.

`FiniteSums` has what the library lacks: facts about `SumFunctionOnSet` (one element changed,
removed or added; monotone; of a partition). The library's induction theorems take an operator, which the provers cannot
instantiate; these lemmas take a set, and argue by a least counterexample (`NaturalInduction`, `MinimalSubset`).
In the same way a recursive function is shown to exist, and so to satisfy its equation, before
anything is proved of it.

Only model-checked: liveness (`BlocksIndexed`, `TasksClose`, `QueuedEpochActivates`,
`PositionProtected`), which needs reasoning about fairness and ENABLED that these provers
do not do, and the three violations.

## Findings

* A direct owner chat (`agent-executor`) ends in the catch block even after success,
  because its task has no id and `completeTask(null, null)` throws; the catch
  block overwrites receipts that were confirmed (`runtime_receipts`).
* The assistant message is inserted in the same batch as the leased UPDATE but does not
  depend on it, so a worker that lost its lease still answers the owner, and the answer
  of the worker that completes the task is ignored (`runtime_late_answer`).
* A lock that has expired and is not withdrawn is subtracted from the votes of the
  account's other locks, although `votingPower` counts it as 0 (`escrow_decay`).
  `VotesBounded` says what holds: votes are never above the power of the positions (up to
  truncation), and not below it while no lock of the account has expired.

What the models also show, and the code accepts:

* An agent-to-agent task is executed again when a call fails after its broadcast and the
  lease runs out.
* Supply rounds the credited amount up, so each call may cost the pool a fraction of a
  scaled unit (`RoundingBounded` says that it is never more).
* The guard does not know what the day's limit has spent: its repayment may be
  refused cycle after cycle until the window ends (`PositionProtected` is about the end).
* Two windows of a limit may meet in any period of their length, which then sees up to
  twice the limit (`SpentWithinWindow`).
* `claimForSelfRepay` called directly, outside the executor, leaves the reward in the
  executor (`stranded`), where it is not credited to a position.
* Operators stay across a change of owner, although the comment at
  `CentryOnchainAgentAccount.sol:269` says that their state is not carried over; what
  makes them harmless is that their permissions, limits and spenders do not count
  (`PresentOwnerGranted`).

Seen while reading, outside the models or without a property:

* `index.js:3093`: the regular expression `/^\\d+$/` never matches a number, so
  `CENTRY_ANALYTICS_START_BLOCK` (agent-runner/README.md:74) is ignored; the one of
  `agentApi.js:53` likewise.
* `index.js:2903`: any failed read ends the list of reserves, and the partial aggregate
  marks the hour as captured.
* `index.js:2470`: the second plan of an autonomous run is stored after the actions were taken
  from the first one, so it has no effect.
* `index.js:3259`: `runScheduler` passes an argument that `runAgent` takes for an owner's
  message, and that is ignored only because of its type.
* `index.js:2277`: protection is off when autonomy is off, and when the health factor
  cannot be read.
* `config/route.js:76` does not copy `riskGuard`, so what the form says of it is lost; and
  `:48` checks USDC caps with 18 decimals where page and runner use 6.
* `configure/page.jsx:169` compares stored permissions and limits without their epochs, and
  never removes what a narrowed policy no longer allows.
* `agentStore.js:160`: `completeAgentTask` sends no lease, which agent-db requires.
* The workflows `centry-reward-generation.yml` and `centry-self-repay-instructions.yml`
  declare `permissions` twice. The models take them to run as written.
* `centry-keeper.yml:217`: the keeper stops at the first position whose transaction would
  revert; `validate-reward-manifest.js:80` refuses a manifest with an amount of 0, and so
  one such position holds up a generation.

## Plan

Done: `AgentRuntime`, `TaskQueue`, `Scheduler`, `AgentPlan`, `AgentAccount`, `AgentAccess`, `LendingPool`,
`VotingEscrow`, `RewardAllocation`, `RewardEpochs`, with the proofs above.

1. Proofs: stronger statements than the runs' properties (the exact payment of an executed
   batch, safety lemmas towards the liveness properties), and those of the modules below.
2. The fixed-rate rewards over `VotingEscrow`; `RevenueEngine` (reservations against the
   whole balance) and the distributor's roots, over `RewardEpochs`' scheme.
3. `ChatRoute`: route, executor and run under their different timeouts, over `AgentRuntime`.
4. `Oracle` (feed, adapter, staleness) under `LendingPool`; the factory.

## Not modelled

The governor, timelock and token (OpenZeppelin, not in the repository), web pages other
than those that configure an agent, builders of requests and calldata that keep no
state, provider calls and prompts, the text of answers, read-only aggregators, the
ERC-8004 identity, paywall and purchases, mocks. Most lines of the repository's
JavaScript are pages and components of this kind. The parts of the plan above are left
out so far for want of a run of their own, not because they could not be modelled.
