----------------------------- MODULE RewardEpochs -----------------------------
(***************************************************************************)
(* The reward epochs of veCENT: the contract CentryVeCENTRevenueRewards,   *)
(* the keeper scripts that generate, queue and activate an epoch from      *)
(* files of the repository, and the self-repay keeper with its executor.   *)
(* A transaction is one action; one that reverts is disabled.  A workflow  *)
(* is a sequence of actions between which anything else may happen; it may *)
(* end before each of them (a failed read, a conflict, a timeout), and no  *)
(* workflow overlaps another run of itself (its concurrency group).        *)
(* External: the veCENT tokens' owners and voting power, the debts in the  *)
(* lending pool, the swap (one for one), and git: a rebase over another    *)
(* push of the reward files ends in a conflict or changes no amount.       *)
(***************************************************************************)
EXTENDS RewardAllocation

CONSTANTS
    Accounts, None,
    Executor,           \* CentrySelfRepayExecutorV2, as a self-repay recipient
    Tokens,             \* token ids
    Traded,             \* bound: the tokens that move or are set to self-repay
    InitialHolder,      \* the owners at the start
    Recipients,         \* self-repay recipients: the executor or another account
    Overrides,          \* values of CENTRY_REWARD_BUDGET
    Powers,             \* voting powers a scan may find: functions on Tokens
    Deposits,           \* amounts of one funding
    MaxFunded,          \* bound: CENT ever funded
    MaxEpoch,           \* bound: the epochs of the state
    MaxManifests        \* bound: generated manifests

ASSUME RewardAssumption ==
    /\ Tokens \subseteq Nat \ {0} /\ Tokens # {} /\ IsFiniteSet(Tokens) /\ Traded \subseteq Tokens
    /\ InitialHolder \in [Tokens -> Accounts]
    /\ Recipients \subseteq Accounts \union {Executor} /\ Overrides \subseteq Nat \ {0}
    /\ Powers \subseteq [Tokens -> Nat]
    /\ Deposits \subseteq Nat \ {0} /\ MaxFunded \in Nat
    /\ MaxEpoch \in Nat \ {0} /\ MaxManifests \in Nat
    /\ None \notin Accounts /\ Executor \notin Accounts /\ None # Executor

VARIABLES
    (* the contract *)
    balance,            \* rewardToken.balanceOf(contract)
    reserved,           \* totalReservedRewardBudget
    pending,            \* pendingEpochs[e]; ready: readyAt has passed
    active,             \* epochRoots[e], epochRewardBudget[e]
    claimedTotal,       \* epochClaimed[e]
    claimed,            \* the tokens with claimed[e][t]
    latestEpoch,
    recipient,          \* selfRepayRecipient[t]
    repayOwner,         \* selfRepayOwner[t]
    leftOwner,          \* withdrawnPositionOwner[t]
    (* around it *)
    holder,             \* owner of the veCENT token, None once withdrawn
    stranded,           \* reward tokens the executor holds between transactions
    manifest,           \* the reward files on the main branch
    (* workflows *)
    generator, refresh, queuer, sent, keeper,
    (* history *)
    funded,             \* CENT ever funded
    published,          \* manifests ever committed
    paid                \* paid[e][t]: what the contract ever paid

contractVars == <<balance, reserved, pending, active, claimedTotal, claimed, latestEpoch>>
repayVars == <<recipient, repayOwner, leftOwner>>
outsideVars == <<holder, stranded>>
fileVars == <<manifest, published>>
workflowVars == <<generator, refresh, queuer, sent, keeper>>
vars == <<contractVars, repayVars, outsideVars, fileVars, workflowVars, funded, paid>>

Epochs == 1 .. MaxEpoch
NoPending == [root |-> ZeroHash, budget |-> 0, ready |-> FALSE]
NoRoot == [root |-> ZeroHash, budget |-> 0]
NoManifest == [epoch |-> 0, budget |-> 0, amounts |-> <<>>, root |-> ZeroHash, proofs |-> <<>>]
Idle == [step |-> "idle"]

Init ==
    /\ balance = 0 /\ reserved = 0
    /\ pending = [e \in Epochs |-> NoPending]
    /\ active = [e \in Epochs |-> NoRoot]
    /\ claimedTotal = [e \in Epochs |-> 0]
    /\ claimed = [e \in Epochs |-> {}]
    /\ latestEpoch = 0
    /\ recipient = [t \in Tokens |-> None]
    /\ repayOwner = [t \in Tokens |-> None]
    /\ leftOwner = [t \in Tokens |-> None]
    /\ holder = InitialHolder
    /\ stranded = 0
    /\ manifest = NoManifest
    /\ generator = Idle /\ refresh = Idle /\ queuer = Idle /\ keeper = Idle
    /\ sent = {}
    /\ funded = 0
    /\ published = {}
    /\ paid = [e \in Epochs |-> [t \in Tokens |-> 0]]

-----------------------------------------------------------------------------
(* CentryVeCENTRevenueRewards *)

Fund(amount) ==
    /\ funded + amount <= MaxFunded
    /\ funded' = funded + amount
    /\ balance' = balance + amount
    /\ UNCHANGED <<reserved, pending, active, claimedTotal, claimed, latestEpoch,
                   repayVars, outsideVars, fileVars, workflowVars, paid>>

\* Mistake: what earlier epochs have reserved is forgotten.
QueueAccepts_Balance(e, root, budget) ==
    /\ budget > 0 /\ root # ZeroHash
    /\ active[e].root = ZeroHash /\ pending[e].root = ZeroHash
    /\ budget <= balance

\* Mistake: an epoch that is active can be queued again.
QueueAccepts_Active(e, root, budget) ==
    /\ budget > 0 /\ root # ZeroHash
    /\ pending[e].root = ZeroHash
    /\ reserved + budget <= balance

\* the guards of queueEpoch
QueueAccepts(e, root, budget) ==
    /\ budget > 0 /\ root # ZeroHash
    /\ active[e].root = ZeroHash /\ pending[e].root = ZeroHash
    /\ reserved + budget <= balance

\* Mistake: the budget of a queued epoch is not reserved.
ReserveNothing(budget) == UNCHANGED reserved

Reserve(budget) == reserved' = reserved + budget

\* The keeper's transaction is included, and is then gone whether it reverts or not.
QueueEpoch(m) ==
    /\ m \in sent
    /\ sent' = sent \ {m}
    /\ IF QueueAccepts(m.epoch, m.root, m.budget)
       THEN /\ pending' = [pending EXCEPT ![m.epoch] =
                    [root |-> m.root, budget |-> m.budget, ready |-> FALSE]]
            /\ Reserve(m.budget)
       ELSE UNCHANGED <<pending, reserved>>
    /\ UNCHANGED <<balance, active, claimedTotal, claimed, latestEpoch, repayVars, outsideVars,
                   fileVars, generator, refresh, queuer, keeper, funded, paid>>

\* ROOT_DELAY has passed since the epoch was queued.
DelayPasses(e) ==
    /\ pending[e].root # ZeroHash /\ ~pending[e].ready
    /\ pending' = [pending EXCEPT ![e].ready = TRUE]
    /\ UNCHANGED <<balance, reserved, active, claimedTotal, claimed, latestEpoch, repayVars,
                   outsideVars, fileVars, workflowVars, funded, paid>>

\* Anyone may call it.
ActivateEpoch(e) ==
    /\ pending[e].root # ZeroHash /\ pending[e].ready
    /\ active' = [active EXCEPT ![e] = [root |-> pending[e].root, budget |-> pending[e].budget]]
    /\ pending' = [pending EXCEPT ![e] = NoPending]
    /\ latestEpoch' = Max({e, latestEpoch})
    /\ UNCHANGED <<balance, reserved, claimedTotal, claimed, repayVars, outsideVars,
                   fileVars, workflowVars, funded, paid>>

PositionOwner(t) == IF holder[t] # None THEN holder[t] ELSE leftOwner[t]

\* Mistake: a claim is not remembered.
PaysTwice(e, t, m) ==
    LET amount == m.amounts[t]
    IN  /\ active[e].root # ZeroHash
        /\ Verifies(m.proofs[t], active[e].root, LeafHash(t, amount))
        /\ claimedTotal[e] + amount <= active[e].budget
        /\ amount <= balance
        /\ claimedTotal' = [claimedTotal EXCEPT ![e] = @ + amount]
        /\ UNCHANGED claimed
        /\ reserved' = reserved - amount
        /\ balance' = balance - amount
        /\ paid' = [paid EXCEPT ![e][t] = @ + amount]
        /\ UNCHANGED <<pending, active, latestEpoch>>

\* _claim, with the amount and the proof a published manifest has for the token
Pays(e, t, m) ==
    LET amount == m.amounts[t]
    IN  /\ active[e].root # ZeroHash /\ t \notin claimed[e]
        /\ Verifies(m.proofs[t], active[e].root, LeafHash(t, amount))
        /\ claimedTotal[e] + amount <= active[e].budget
        /\ amount <= balance
        /\ claimed' = [claimed EXCEPT ![e] = @ \union {t}]
        /\ claimedTotal' = [claimedTotal EXCEPT ![e] = @ + amount]
        /\ reserved' = reserved - amount
        /\ balance' = balance - amount
        /\ paid' = [paid EXCEPT ![e][t] = @ + amount]
        /\ UNCHANGED <<pending, active, latestEpoch>>

\* claim and claimTo: by the owner of the position, to any recipient
Claim(e, t, m) ==
    /\ t \in DOMAIN m.amounts
    /\ PositionOwner(t) # None
    /\ Pays(e, t, m)
    /\ UNCHANGED <<repayVars, outsideVars, fileVars, workflowVars, funded>>

SetSelfRepayRecipient(t, to) ==
    /\ holder[t] # None
    /\ recipient' = [recipient EXCEPT ![t] = to]
    /\ repayOwner' = [repayOwner EXCEPT ![t] = holder[t]]
    /\ UNCHANGED <<contractVars, leftOwner, outsideVars, fileVars, workflowVars, funded, paid>>

DisableSelfRepay(t) ==
    /\ holder[t] # None
    /\ recipient' = [recipient EXCEPT ![t] = None]
    /\ repayOwner' = [repayOwner EXCEPT ![t] = None]
    /\ UNCHANGED <<contractVars, leftOwner, outsideVars, fileVars, workflowVars, funded, paid>>

\* the guard of claimForSelfRepay, which anyone may call
MayRepay(t) == recipient[t] # None /\ repayOwner[t] = PositionOwner(t)

\* Called directly, the reward stays with the recipient.
ClaimForSelfRepay(e, t, m) ==
    /\ t \in DOMAIN m.amounts
    /\ MayRepay(t)
    /\ Pays(e, t, m)
    /\ stranded' = stranded + IF recipient[t] = Executor THEN m.amounts[t] ELSE 0
    /\ UNCHANGED <<repayVars, holder, fileVars, workflowVars, funded>>

\* Mistake: a transfer leaves the self-repay setting.
HookForgetting(t, to) ==
    /\ leftOwner' = [leftOwner EXCEPT ![t] = IF to = None THEN holder[t] ELSE None]
    /\ UNCHANGED <<recipient, repayOwner>>

\* onVeCENTTransfer, which the escrow calls on a transfer and on a withdrawal
OnVeCENTTransfer(t, to) ==
    IF to = None
    THEN /\ leftOwner' = [leftOwner EXCEPT ![t] = holder[t]]
         /\ UNCHANGED <<recipient, repayOwner>>
    ELSE /\ leftOwner' = [leftOwner EXCEPT ![t] = None]
         /\ recipient' = [recipient EXCEPT ![t] = None]
         /\ repayOwner' = [repayOwner EXCEPT ![t] = None]

-----------------------------------------------------------------------------
(* The veCENT token and the lending pool (external) *)

Move(t, to) ==
    /\ holder[t] # None /\ to # holder[t]
    /\ holder' = [holder EXCEPT ![t] = to]
    /\ OnVeCENTTransfer(t, to)
    /\ UNCHANGED <<contractVars, stranded, fileVars, workflowVars, funded, paid>>

-----------------------------------------------------------------------------
(* Generation: scripts/generate-reward-allocations.js and -manifest.js *)

Free(e) == active[e].root = ZeroHash /\ pending[e].root = ZeroHash

\* findNextEpoch (0: none in reach)
NextEpoch(latest) ==
    LET free == {e \in Epochs : e > latest /\ Free(e)}
    IN  IF free = {} THEN 0 ELSE Min(free)

\* Checkout, latestEpoch and findNextEpoch.
GenStart ==
    /\ generator.step = "idle"
    /\ Cardinality(published) < MaxManifests
    /\ NextEpoch(latestEpoch) # 0
    /\ generator' = [step |-> "balance", epoch |-> NextEpoch(latestEpoch),
                     latest |-> latestEpoch, available |-> 0]
    /\ UNCHANGED <<contractVars, repayVars, outsideVars, fileVars, refresh, queuer, sent, keeper,
                   funded, paid>>

GenReadBalance ==
    /\ generator.step = "balance"
    /\ generator' = [generator EXCEPT !.step = "obligations", !.available = balance]
    /\ UNCHANGED <<contractVars, repayVars, outsideVars, fileVars, refresh, queuer, sent, keeper,
                   funded, paid>>

OutstandingActive(latest) ==
    SumFunction([e \in 1 .. latest |-> active[e].budget - claimedTotal[e]])
OutstandingPending == SumFunction([e \in Epochs |-> pending[e].budget])

\* getOutstandingActiveObligations, up to the latest epoch read at the start
GenReadActive ==
    /\ generator.step = "obligations"
    /\ generator' = [generator EXCEPT !.step = "publish",
                                      !.available = @ - OutstandingActive(generator.latest)]
    /\ UNCHANGED <<contractVars, repayVars, outsideVars, fileVars, refresh, queuer, sent, keeper,
                   funded, paid>>

Manifest(e, budget, power) ==
    LET eligible == {t \in Tokens : holder[t] # None /\ power[t] > 0}
        amounts == Allocate(budget, [t \in eligible |-> power[t]])
    IN  [epoch |-> e, budget |-> budget, amounts |-> amounts, root |-> MerkleRoot(amounts),
         proofs |-> [t \in eligible |-> MerkleProof(amounts, t)]]

\* A push of the reward files: every other checkout is then behind.
Commit(m) ==
    /\ manifest' = m
    /\ published' = published \union {m}

\* A refresh that has the files checked out, after a generation has pushed.
Behind(w) == IF w.step = "idle" THEN w ELSE [w EXCEPT !.fresh = FALSE]

Uncommitted == generator.available - OutstandingPending

\* getPendingObligations, the scan, the two files, their validation and the push;
\* merged with the instructions of a refresh meanwhile, it keeps its own amounts.
GenPublish(budget, power) ==
    /\ generator.step = "publish"
    /\ budget \in 1 .. Uncommitted
    /\ budget \in Overrides \/ budget = Uncommitted
    /\ \E t \in Tokens : holder[t] # None /\ power[t] > 0
    /\ LET m == Manifest(generator.epoch, budget, power)
       IN  /\ ValidManifest(m)
           /\ Commit(m)
    /\ generator' = Idle
    /\ refresh' = Behind(refresh)
    /\ UNCHANGED <<contractVars, repayVars, outsideVars, queuer, sent, keeper, funded, paid>>

\* It ends early: nothing available, a position with nothing, a conflict, a failed read.
GenFails ==
    /\ generator.step # "idle"
    /\ generator' = Idle
    /\ UNCHANGED <<contractVars, repayVars, outsideVars, fileVars, refresh, queuer, sent, keeper,
                   funded, paid>>

-----------------------------------------------------------------------------
(* Refresh of the self-repay instructions: generate-self-repay-instructions.js *)

RefreshStart ==
    /\ refresh.step = "idle" /\ manifest.epoch > 0
    /\ refresh' = [step |-> "quoted", fresh |-> TRUE, file |-> manifest]
    /\ UNCHANGED <<contractVars, repayVars, outsideVars, fileVars, generator, queuer, sent, keeper,
                   funded, paid>>

\* Mistake: the push is forced.
PushForced == refresh.step = "quoted"

\* Over a new generation it ends in a conflict or leaves what matters as it is.
PushAccepted == refresh.step = "quoted" /\ refresh.fresh

\* The file with new instructions (what they say is not kept: nothing reads it).
RefreshPublish ==
    /\ PushAccepted
    /\ ValidManifest(refresh.file) /\ Commit(refresh.file)
    /\ refresh' = Idle
    /\ UNCHANGED <<contractVars, repayVars, outsideVars, generator, queuer, sent, keeper, funded, paid>>

RefreshFails ==
    /\ refresh.step # "idle"
    /\ refresh' = Idle
    /\ UNCHANGED <<contractVars, repayVars, outsideVars, fileVars, generator, queuer, sent, keeper,
                   funded, paid>>

-----------------------------------------------------------------------------
(* Queue and activation: queue-reward-epoch.js, activate-reward-epoch.js *)

QueueStart ==
    /\ queuer.step = "idle" /\ manifest.epoch > 0
    /\ queuer' = [step |-> "checked out", file |-> manifest]
    /\ UNCHANGED <<contractVars, repayVars, outsideVars, fileVars, generator, refresh, sent, keeper,
                   funded, paid>>

\* The checks of the script; the transaction may wait longer than the workflow lives.
QueueSend ==
    /\ queuer.step = "checked out"
    /\ LET m == queuer.file
       IN  /\ Free(m.epoch) /\ m.epoch > latestEpoch
           /\ m.budget <= balance
           /\ sent' = sent \union {m}
    /\ queuer' = Idle
    /\ UNCHANGED <<contractVars, repayVars, outsideVars, fileVars, generator, refresh, keeper,
                   funded, paid>>

\* Already queued or active, not fundable, or interrupted.
QueueEnds ==
    /\ queuer.step # "idle"
    /\ queuer' = Idle
    /\ UNCHANGED <<contractVars, repayVars, outsideVars, fileVars, generator, refresh, sent, keeper,
                   funded, paid>>

\* Mistake: only an epoch next to the latest one is activated.
Activates_Next(m) ==
    /\ m.epoch = latestEpoch + 1
    /\ pending[m.epoch].root = m.root /\ pending[m.epoch].budget = m.budget

\* What the activation script requires of the manifest it has checked out.
Activates(m) ==
    /\ m.epoch > 0
    /\ pending[m.epoch].root = m.root /\ pending[m.epoch].budget = m.budget

RunActivation == Activates(manifest) /\ ActivateEpoch(manifest.epoch)

-----------------------------------------------------------------------------
(* The self-repay keeper and executeSelfRepay *)

\* Checkout, and the check of the root; it then goes through the positions.
KeeperStart ==
    /\ keeper.step = "idle" /\ manifest.epoch \in 1 .. latestEpoch
    /\ active[manifest.epoch].root = manifest.root
    /\ keeper' = [step |-> "look", file |-> manifest, todo |-> DOMAIN manifest.amounts]
    /\ UNCHANGED <<contractVars, repayVars, outsideVars, fileVars, generator, refresh, queuer, sent,
                   funded, paid>>

Eligible(e, t) ==
    /\ holder[t] # None
    /\ recipient[t] = Executor /\ repayOwner[t] = holder[t]
    /\ t \notin claimed[e]

\* The next position that is not skipped; one may be (no debt, no quote).
KeeperLook(t) ==
    /\ keeper.step = "look" /\ t \in keeper.todo
    /\ Eligible(keeper.file.epoch, t)
    /\ keeper' = [keeper EXCEPT !.step = "send", !.todo = {u \in @ : u >= t}]
    /\ UNCHANGED <<contractVars, repayVars, outsideVars, fileVars, generator, refresh, queuer, sent,
                   funded, paid>>

\* executeSelfRepay: the claim, the swap of the amount from what the executor holds,
\* the repayment (all of the debt or a part of it), what is left to the borrower.
KeeperSend ==
    /\ keeper.step = "send"
    /\ LET e == keeper.file.epoch
           t == Min(keeper.todo)
           amount == keeper.file.amounts[t]
           received == IF recipient[t] = Executor THEN amount ELSE 0
       IN  /\ MayRepay(t)
           /\ Pays(e, t, keeper.file)
           /\ stranded + received >= amount
           /\ stranded' = stranded + received - amount
           /\ keeper' = [keeper EXCEPT !.step = "look", !.todo = @ \ {t}]
    /\ UNCHANGED <<repayVars, holder, fileVars, generator, refresh, queuer, sent, funded>>

\* The end of the positions, or a transaction that would revert: the run is over.
KeeperEnds ==
    /\ keeper.step # "idle"
    /\ keeper' = Idle
    /\ UNCHANGED <<contractVars, repayVars, outsideVars, fileVars, generator, refresh, queuer, sent,
                   funded, paid>>

-----------------------------------------------------------------------------

ContractNext ==
    \/ \E amount \in Deposits : Fund(amount)
    \/ \E m \in sent : QueueEpoch(m)
    \/ \E e \in Epochs : DelayPasses(e) \/ ActivateEpoch(e)
    \/ \E e \in Epochs, t \in Tokens, m \in published :
            Claim(e, t, m) \/ ClaimForSelfRepay(e, t, m)
    \/ \E t \in Traded : DisableSelfRepay(t)
    \/ \E t \in Traded, to \in Recipients : SetSelfRepayRecipient(t, to)

OutsideNext ==
    \/ \E t \in Traded, to \in Accounts \union {None} : Move(t, to)

GenNext ==
    \/ GenStart \/ GenReadBalance \/ GenReadActive \/ GenFails
    \/ \E budget \in 1 .. MaxFunded, power \in Powers : GenPublish(budget, power)
    \/ RefreshStart \/ RefreshFails \/ RefreshPublish

QueueNext == QueueStart \/ QueueSend \/ QueueEnds \/ RunActivation
KeeperNext == KeeperStart \/ (\E t \in Tokens : KeeperLook(t)) \/ KeeperSend \/ KeeperEnds

Next == ContractNext \/ OutsideNext \/ GenNext \/ QueueNext \/ KeeperNext

\* The delay passes, and the activation workflow runs every hour.
Fairness ==
    /\ \A e \in Epochs : WF_vars(DelayPasses(e))
    /\ WF_vars(RunActivation)

Spec == Init /\ [][Next]_vars /\ Fairness

-----------------------------------------------------------------------------
(* Properties *)

(* What pending and active epochs still owe is exactly what the contract   *)
(* has reserved: no budget is forgotten or counted twice on its way from   *)
(* queue to activation to claims.                                          *)
BudgetsReserved == reserved = OutstandingPending + OutstandingActive(MaxEpoch)

(* No promise without money: the contract holds what it has reserved,      *)
(* whatever budget the keeper computed from reads of different moments.    *)
Solvent == reserved <= balance

(* The root of m is queued or active for its epoch. *)
Rooted(m) == m.root \in {pending[m.epoch].root, active[m.epoch].root}

(* An epoch made from a published manifest can always pay all who have not *)
(* claimed yet, and has nothing left once they all have: the sum of the    *)
(* script's allocations agrees with the contract's accounting.             *)
AllocationsPayable ==
    \A m \in published : Rooted(m) =>
        SumOver(m.amounts, DOMAIN m.amounts \ claimed[m.epoch])
            = pending[m.epoch].budget + active[m.epoch].budget - claimedTotal[m.epoch]

(* What an epoch ever paid for a position is its one allocation under the  *)
(* epoch's root, by whichever of the three ways to claim, and never twice. *)
PaidIsAllocation ==
    \A e \in Epochs, t \in Tokens : paid[e][t] > 0 =>
        \E m \in published :
            /\ m.epoch = e /\ m.root = active[e].root
            /\ t \in DOMAIN m.amounts /\ paid[e][t] = m.amounts[t]

(* A self-repay setting is always that of the position's present owner: a  *)
(* reward is never sent where a former owner had asked.                    *)
SelfRepayOwnerCurrent ==
    \A t \in Tokens : recipient[t] # None => repayOwner[t] = PositionOwner(t)

PositivePart(power) == [t \in {u \in DOMAIN power : power[u] > 0} |-> power[t]]

(* The whole budget is allocated; each position gets its exact share       *)
(* rounded down or up, and never less than one with less power. It is the  *)
(* same in every state, and is checked in those before the first deposit.  *)
AllocationExact ==
    funded = 0 => \A budget \in 1 .. 2 * MaxFunded : \A p \in [1 .. 3 -> 0 .. 3] :
        LET power == PositivePart(p)
            positions == DOMAIN power
            total == SumOver(power, positions)
            amounts == Allocate(budget, power)
        IN  positions # {} =>
            /\ SumOver(amounts, positions) = budget
            /\ \A t \in positions :
                /\ amounts[t] * total < budget * power[t] + total
                /\ budget * power[t] < amounts[t] * total + total
            /\ \A t, u \in positions : power[t] > power[u] => amounts[t] >= amounts[u]

(* The proof of a position verifies its own leaf and no other position's,  *)
(* with up to four leaves (three: one without a neighbour). Checked in the *)
(* states before the first deposit, as the one above.                      *)
ProofsExact ==
    funded = 0 => \A budget \in 1 .. MaxFunded : \A p \in [1 .. 4 -> 0 .. 1] :
        LET amounts == Allocate(budget, PositivePart(p))
        IN  \A t, u \in DOMAIN amounts :
                Verifies(MerkleProof(amounts, t), MerkleRoot(amounts), LeafHash(u, amounts[u]))
                    <=> t = u

(* The root and the budget of an active epoch never change, even if a      *)
(* queue transaction sent for it long before is included after.            *)
ActiveRootFixed ==
    [][\A e \in Epochs : active[e].root # ZeroHash => active'[e] = active[e]]_vars

(* The manifest on the main branch never goes back to an earlier epoch: a  *)
(* refresh of instructions begun before a new generation does not undo it. *)
ManifestsAdvance == [][manifest'.epoch >= manifest.epoch]_vars

Queued(e) ==
    /\ manifest.epoch = e
    /\ pending[e].root = manifest.root /\ pending[e].budget = manifest.budget

(* A later generation has replaced the manifest of a queued epoch.         *)
Replaced(e) == manifest.epoch # e \/ manifest.root # pending[e].root

(* The epoch queued from the manifest becomes active, unless a generation  *)
(* replaces the manifest first; in any order with other epochs.            *)
QueuedEpochActivates ==
    \A e \in Epochs : Queued(e) ~> (active[e].root # ZeroHash \/ Replaced(e))
=============================================================================
