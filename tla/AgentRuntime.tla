---------------------------- MODULE AgentRuntime ----------------------------
(***************************************************************************)
(* The agent runner of agent-runner/src/index.js: every call of runAgent, *)
(* whether made by the cron scheduler (a cycle) or by agent-executor (a    *)
(* direct owner chat), over the D1 tables agent-db owns (locks, tasks,     *)
(* action receipts, assistant messages) and the chain the runner signs     *)
(* for.  A call is a process that may stop between any two awaits.         *)
(*                                                                         *)
(* Time.  Expiries (locked_until, lease_until) are kept as the time left   *)
(* until them; `Expired' stands for every instant strictly after, since    *)
(* the SQL only ever asks `until < now', and unlock's 0 is in the past.    *)
(*                                                                         *)
(* A call is named by its run id, which is fresh (crypto.randomUUID) and   *)
(* stands for its lease id too.  The rows a call creates for the calls of  *)
(* one batch change together, so receipt[r] is their common status.        *)
(* A D1 statement that throws may or may not have been applied.            *)
(***************************************************************************)
EXTENDS Integers, FiniteSets

CONSTANTS
    Agents,         \* rows of centry_agents
    Tasks,          \* ids of centry_agent_tasks
    OwnerChats,     \* the tasks that are owner_chat envelopes with a message to answer
    To,             \* To[t]: to_agent_id of task t
    Runs,           \* calls of runAgent
    AgentOf,        \* AgentOf[r]: the agent r is called for
    Direct,         \* the calls made with a directOwnerMessage
    None,           \* SQL NULL
    LockTtl,        \* lock of a cycle (300 000 ms)
    ChatTtl,        \* lock of a direct chat (60 000 ms)
    MutexTtl,       \* transaction mutex (300 000 ms)
    LeaseTtl        \* lease of a claimed task (300 000 ms)

ASSUME TablesAssumption ==
    /\ OwnerChats \subseteq Tasks
    /\ To \in [Tasks -> Agents]
    /\ AgentOf \in [Runs -> Agents]
    /\ Direct \subseteq Runs
    /\ None \notin Runs \cup Tasks \cup Agents

ASSUME TtlAssumption ==
    /\ LockTtl \in Nat /\ ChatTtl \in Nat /\ MutexTtl \in Nat /\ LeaseTtl \in Nat

\* "The per-agent lock is now aligned with the task lease window."
ASSUME AlignedAssumption == LockTtl <= LeaseTtl

VARIABLES
    lock,       \* time left of each row of centry_agent_locks
    status,     \* status of each task, "absent" before its INSERT
    lease,      \* lease_id of each task
    left,       \* time left until the lease_until of each task
    result,     \* result of each task: how it ended and the run that wrote it
    answer,     \* the assistant message of each owner chat, and its author
    pc,         \* the await each call of runAgent is at
    todo,       \* the claimed tasks a call still has to complete
    executed,   \* whether its runStatus is "executed"
    receipt,    \* status of the action receipts of each call
    tx          \* the transaction each call broadcast, as the chain sees it

vars == <<lock, status, lease, left, result, answer, pc, todo, executed, receipt, tx>>
taskVars == <<status, lease, left, result, answer>>
runVars == <<todo, executed, receipt, tx>>

Expired == -1
Mutex == <<"tx", None>>                     \* "__centry_tx_mutex__"
LockId(r) == <<IF r \in Direct THEN "chat" ELSE "cycle", AgentOf[r]>>
Locks == ({"cycle", "chat"} \X Agents) \cup {Mutex}

TaskStatus == {"absent", "pending", "processing", "completed", "failed"}
Terminal == {"completed", "failed"}
Outcomes == {"executed", "processed", "rejected", "failed"}
Unwritten == [by |-> None, as |-> "none"]
Writings == [by : Runs, as : Outcomes] \cup {Unwritten}
\* "none": no receipt whose id the call knows.  "planned" is also "simulated".
ReceiptStatus == {"none", "planned", "broadcast", "confirmed", "failed"}

\* Where a call can be.  Critical lies between the tryLock and
\* the unlock of the transaction mutex.
Critical == {"locked", "send", "wait", "release", "abort"}
Body == {"claim", "claimed", "plan", "mutex", "complete", "catch", "answer", "finally"} \cup Critical
Places == {"idle", "done"} \cup Body
Live(r) == pc[r] \in Body

Init ==
    /\ lock = [l \in Locks |-> Expired]
    /\ status = [t \in Tasks |-> "absent"]
    /\ lease = [t \in Tasks |-> None]
    /\ left = [t \in Tasks |-> Expired]
    /\ result = [t \in Tasks |-> Unwritten]
    /\ answer = [t \in OwnerChats |-> Unwritten]
    /\ pc = [r \in Runs |-> "idle"]
    /\ todo = [r \in Runs |-> {}]
    /\ executed = [r \in Runs |-> FALSE]
    /\ receipt = [r \in Runs |-> "none"]
    /\ tx = [r \in Runs |-> "none"]

-----------------------------------------------------------------------------
(* D1 statements *)

\* Mistake: an upsert without its WHERE locked_until < ?.
TryLockAlways(l, ttl) == lock' = [lock EXCEPT ![l] = ttl]

TryLock(l, ttl) == lock[l] = Expired /\ lock' = [lock EXCEPT ![l] = ttl]

\* UPDATE ... SET locked_until = 0 WHERE agent_id = ?: whoever holds it now.
Unlock(l) == lock' = [lock EXCEPT ![l] = Expired]

Goto(r, place) == pc' = [pc EXCEPT ![r] = place]

\* An update of the receipts; its own failure is swallowed.
RecordReceipts(r, s) ==
    receipt' \in IF receipt[r] = "none"
                 THEN {receipt}
                 ELSE {receipt, [receipt EXCEPT ![r] = s]}

Holds(r, t) == status[t] = "processing" /\ lease[t] = r

\* Mistake: the lease is not compared.
CompleteAnyRow(r, t, as) ==
    IF status[t] = "processing"
    THEN /\ status' = [status EXCEPT ![t] = IF as = "failed" THEN "failed" ELSE "completed"]
         /\ result' = [result EXCEPT ![t] = [by |-> r, as |-> as]]
         /\ lease' = [lease EXCEPT ![t] = None]
         /\ left' = [left EXCEPT ![t] = Expired]
    ELSE UNCHANGED <<status, result, lease, left>>

\* Mistake: the author is read from the lease column that has just been reset.
CompleteRowLater(r, t, as) ==
    IF Holds(r, t)
    THEN /\ status' = [status EXCEPT ![t] = "completed"]
         /\ lease' = [lease EXCEPT ![t] = None]
         /\ left' = [left EXCEPT ![t] = Expired]
         /\ result' = [result EXCEPT ![t] = [by |-> lease'[t], as |-> as]]
    ELSE UNCHANGED <<status, result, lease, left>>

\* The UPDATE shared by completeTask and completeOwnerChatTask: it changes
\* the row only WHERE status = 'processing' AND lease_id = the caller's.
CompleteRow(r, t, as) ==
    IF Holds(r, t)
    THEN /\ status' = [status EXCEPT ![t] = IF as \in {"executed", "processed"}
                                            THEN "completed" ELSE "failed"]
         /\ result' = [result EXCEPT ![t] = [by |-> r, as |-> as]]
         /\ lease' = [lease EXCEPT ![t] = None]
         /\ left' = [left EXCEPT ![t] = Expired]
    ELSE UNCHANGED <<status, result, lease, left>>

\* Mistake: INSERT OR REPLACE.
ReplaceAnswer(r, t, as) ==
    answer' = IF t \in OwnerChats THEN [answer EXCEPT ![t] = [by |-> r, as |-> as]] ELSE answer

\* The batch of completeOwnerChatTask also runs INSERT OR IGNORE of the
\* assistant message, whether or not the UPDATE found the row.
WriteAnswer(r, t, as) ==
    answer' = IF t \in OwnerChats /\ answer[t] = Unwritten
              THEN [answer EXCEPT ![t] = [by |-> r, as |-> as]]
              ELSE answer

CompleteTask(r, t, as) == CompleteRow(r, t, as) /\ WriteAnswer(r, t, as)

IsChat(r) == r \in Direct \/ todo[r] \cap OwnerChats # {}

-----------------------------------------------------------------------------
(* The queue's producers *)

\* enqueue_agent_task (INSERT OR IGNORE: a repeated id changes nothing).
Enqueue(t) ==
    /\ status[t] = "absent"
    /\ status' = [status EXCEPT ![t] = "pending"]
    /\ UNCHANGED <<lock, lease, left, result, answer, pc, runVars>>

-----------------------------------------------------------------------------
(* One call of runAgent, in program order *)

Start(r) ==
    /\ pc[r] = "idle"
    /\ TryLock(LockId(r), IF r \in Direct THEN ChatTtl ELSE LockTtl)
    /\ Goto(r, IF r \in Direct THEN "plan" ELSE "claim")
    /\ UNCHANGED <<taskVars, runVars>>

StartLocked(r) ==                           \* status: "locked"
    /\ pc[r] = "idle"
    /\ lock[LockId(r)] # Expired
    /\ Goto(r, "done")
    /\ UNCHANGED <<lock, taskVars, runVars>>

Claimable(r, t) ==
    /\ To[t] = AgentOf[r]
    /\ \/ status[t] = "pending"
       \/ status[t] = "processing" /\ left[t] = Expired

\* Mistake: a reclaimed row keeps its old lease_until.
ClaimKeepingExpiry(r) ==
    /\ pc[r] = "claim"
    /\ LET batch == {t \in Tasks : Claimable(r, t)}
       IN  /\ status' = [t \in Tasks |-> IF t \in batch THEN "processing" ELSE status[t]]
           /\ lease' = [t \in Tasks |-> IF t \in batch THEN r ELSE lease[t]]
           /\ left' = [t \in Tasks |-> IF t \in batch /\ status[t] = "pending" THEN LeaseTtl ELSE left[t]]
           /\ todo' = [todo EXCEPT ![r] = batch]
    /\ Goto(r, "claimed")
    /\ UNCHANGED <<lock, result, answer, executed, receipt, tx>>

\* claimAgentTasks: the UPDATE leases every claimable task (at most 20); when
\* the SELECT after it throws, the rows stay leased to a call that fails.
Claim(r) ==
    /\ pc[r] = "claim"
    /\ LET batch == {t \in Tasks : Claimable(r, t)}
       IN  /\ status' = [t \in Tasks |-> IF t \in batch THEN "processing" ELSE status[t]]
           /\ lease' = [t \in Tasks |-> IF t \in batch THEN r ELSE lease[t]]
           /\ left' = [t \in Tasks |-> IF t \in batch THEN LeaseTtl ELSE left[t]]
           /\ \/ todo' = [todo EXCEPT ![r] = batch] /\ Goto(r, "claimed")
              \/ todo' = todo /\ Goto(r, "catch")
    /\ UNCHANGED <<lock, result, answer, executed, receipt, tx>>

\* A task the recipient's configuration does not accept ends as failed; an
\* error of that UPDATE is swallowed, and the task leaves the run anyway.
Reject(r, t) ==
    /\ pc[r] = "claimed"
    /\ t \in todo[r] \ OwnerChats
    /\ CompleteTask(r, t, "rejected") \/ UNCHANGED taskVars
    /\ todo' = [todo EXCEPT ![r] = @ \ {t}]
    /\ UNCHANGED <<lock, pc, executed, receipt, tx>>

\* if (ownerChatTask) tasks = [ownerChatTask]
SelectTasks(r) ==
    /\ pc[r] = "claimed"
    /\ IF IsChat(r)
       THEN \E c \in todo[r] \cap OwnerChats : todo' = [todo EXCEPT ![r] = {c}]
       ELSE todo' = todo
    /\ Goto(r, "plan")
    /\ UNCHANGED <<lock, taskVars, executed, receipt, tx>>

\* autonomy_disabled, no_work, agent_inactive, runner_operator_not_authorized
ReturnEarly(r) ==
    /\ pc[r] = "plan" /\ ~IsChat(r)
    /\ Goto(r, "finally")
    /\ UNCHANGED <<lock, taskVars, runVars>>

\* direct_balance_read
AnswerBalance(r) ==
    /\ pc[r] = "plan" /\ IsChat(r)
    /\ IF r \in Direct
       THEN Goto(r, "finally") /\ UNCHANGED <<taskVars, todo>>
       ELSE \E t \in todo[r] :
              /\ CompleteTask(r, t, "processed")
              /\ \/ Holds(r, t) /\ Goto(r, "finally") /\ todo' = [todo EXCEPT ![r] = {}]
                 \/ Goto(r, "catch") /\ todo' = todo
    /\ UNCHANGED <<lock, executed, receipt, tx>>

\* provider_not_configured: only an owner chat is answered, errors swallowed
WaitingProvider(r) ==
    /\ pc[r] = "plan"
    /\ IF r \notin Direct /\ IsChat(r)
       THEN (\E t \in todo[r] : CompleteTask(r, t, "failed")) \/ UNCHANGED taskVars
       ELSE UNCHANGED taskVars
    /\ Goto(r, "finally")
    /\ UNCHANGED <<lock, runVars>>

\* The plan has no calls: runStatus = "processed".
PlanNothing(r) ==
    /\ pc[r] = "plan"
    /\ Goto(r, "complete")
    /\ UNCHANGED <<lock, taskVars, runVars>>

\* The plan has calls, all permitted; when createActionReceipts fails, the
\* ids of the rows it did insert are dropped: .catch(() => []).
PlanCalls(r) ==
    /\ pc[r] = "plan"
    /\ \E s \in {"planned", "none"} : receipt' = [receipt EXCEPT ![r] = s]
    /\ Goto(r, "mutex")
    /\ UNCHANGED <<lock, taskVars, todo, executed, tx>>

\* Mistake: the outcome of tryLock is not looked at.
TakeMutexAnyway(r) ==
    /\ pc[r] = "mutex"
    /\ IF lock[Mutex] = Expired THEN lock' = [lock EXCEPT ![Mutex] = MutexTtl] ELSE lock' = lock
    /\ Goto(r, "locked")
    /\ UNCHANGED <<taskVars, runVars>>

TakeMutex(r) ==
    /\ pc[r] = "mutex"
    /\ TryLock(Mutex, MutexTtl)
    /\ Goto(r, "locked") \/ Goto(r, "catch")
    /\ UNCHANGED <<taskVars, runVars>>

MutexBusy(r) ==                             \* agent_transaction_mutex_busy
    /\ pc[r] = "mutex"
    /\ lock[Mutex] # Expired
    /\ Goto(r, "catch")
    /\ UNCHANGED <<lock, taskVars, runVars>>

\* The account is live and permitted on the second read, and simulates.
Simulate(r) ==
    /\ pc[r] = "locked"
    /\ RecordReceipts(r, "planned")
    /\ Goto(r, "send")
    /\ UNCHANGED <<lock, taskVars, todo, executed, tx>>

SimulationFails(r) ==
    /\ pc[r] = "locked"
    /\ RecordReceipts(r, "failed")
    /\ Goto(r, "abort")
    /\ UNCHANGED <<lock, taskVars, todo, executed, tx>>

\* writeContract, then the receipts; the node may accept the transaction and
\* its answer be lost.
Send(r) ==
    /\ pc[r] = "send"
    /\ tx' = [tx EXCEPT ![r] = "pending"]
    /\ \/ RecordReceipts(r, "broadcast") /\ Goto(r, "wait")
       \/ receipt' = receipt /\ Goto(r, "abort")
    /\ UNCHANGED <<lock, taskVars, todo, executed>>

\* waitForTransactionReceipt and verifyTransactionOnchain
Confirm(r) ==
    /\ pc[r] = "wait" /\ tx[r] = "mined"
    /\ RecordReceipts(r, "confirmed")
    /\ Goto(r, "release")
    /\ UNCHANGED <<lock, taskVars, todo, executed, tx>>

Reverted(r) ==
    /\ pc[r] = "wait" /\ tx[r] = "reverted"
    /\ RecordReceipts(r, "failed")
    /\ Goto(r, "abort")
    /\ UNCHANGED <<lock, taskVars, todo, executed, tx>>

\* Mistake: runStatus = "executed" inside the finally block.
ReleaseExecuted(r) ==
    /\ pc[r] \in {"release", "abort"}
    /\ Unlock(Mutex)
    /\ Goto(r, "complete") /\ executed' = [executed EXCEPT ![r] = TRUE]
    /\ UNCHANGED <<taskVars, todo, receipt, tx>>

\* The finally block of the critical section, and what follows it.
ReleaseMutex(r) ==
    /\ pc[r] \in {"release", "abort"}
    /\ Unlock(Mutex)
    /\ IF pc[r] = "release"
       THEN Goto(r, "complete") /\ executed' = [executed EXCEPT ![r] = TRUE]
       ELSE Goto(r, "catch") /\ executed' = executed
    /\ UNCHANGED <<taskVars, todo, receipt, tx>>

ReleaseFails(r) ==
    /\ pc[r] \in {"release", "abort"}
    /\ Unlock(Mutex) \/ lock' = lock
    /\ Goto(r, "catch")
    /\ UNCHANGED <<taskVars, runVars>>

\* The loop over tasks; agent_task_lease_lost leaves it for the catch block,
\* and so does an error after the UPDATE was applied.
FinishTask(r, t) ==
    /\ pc[r] = "complete" /\ t \in todo[r]
    /\ CompleteTask(r, t, IF executed[r] THEN "executed" ELSE "processed")
    /\ \/ Holds(r, t) /\ todo' = [todo EXCEPT ![r] = @ \ {t}] /\ pc' = pc
       \/ todo' = todo /\ Goto(r, "catch")
    /\ UNCHANGED <<lock, executed, receipt, tx>>

\* A direct chat's only task is {id: null}: its UPDATE can match no row.
FinishDirect(r) ==
    /\ pc[r] = "complete" /\ r \in Direct
    /\ Goto(r, "catch")
    /\ UNCHANGED <<lock, taskVars, runVars>>

\* One of the (at most five) outbound messages of the plan.
SendMessage(r, t) ==
    /\ pc[r] = "complete" /\ todo[r] = {} /\ r \notin Direct
    /\ t \notin OwnerChats /\ To[t] # AgentOf[r]
    /\ status[t] = "absent"
    /\ status' = [status EXCEPT ![t] = "pending"]
    /\ UNCHANGED <<lock, lease, left, result, answer, pc, runVars>>

FinishRun(r) ==
    /\ pc[r] = "complete" /\ todo[r] = {} /\ r \notin Direct
    /\ Goto(r, "finally")
    /\ UNCHANGED <<lock, taskVars, runVars>>

\* An await that is not caught on the spot throws: RPC, provider, D1.
Throw(r) ==
    /\ \/ pc[r] \in {"claim", "plan", "mutex", "complete"} /\ Goto(r, "catch")
       \/ pc[r] \in {"locked", "send", "wait"} /\ Goto(r, "abort")
    /\ UNCHANGED <<lock, taskVars, runVars>>

\* The catch block: the receipts, whatever they say, become failed; then an
\* owner chat (and no other task) is completed as failed, errors swallowed.
CatchReceipts(r) ==
    /\ pc[r] = "catch"
    /\ RecordReceipts(r, "failed")
    /\ Goto(r, IF todo[r] \cap OwnerChats # {} THEN "answer" ELSE "finally")
    /\ UNCHANGED <<lock, taskVars, todo, executed, tx>>

AnswerFailure(r) ==
    /\ pc[r] = "answer"
    /\ \/ \E t \in todo[r] : CompleteTask(r, t, "failed")
       \/ UNCHANGED taskVars
    /\ Goto(r, "finally")
    /\ UNCHANGED <<lock, runVars>>

\* The call is over, and its local variables with it.
End(r) ==
    /\ Goto(r, "done")
    /\ todo' = [todo EXCEPT ![r] = {}]
    /\ executed' = [executed EXCEPT ![r] = FALSE]

Finally(r) ==
    /\ pc[r] = "finally"
    /\ \/ Unlock(LockId(r))
       \/ lock' = lock                      \* unlock(...).catch(() => {})
    /\ End(r)
    /\ UNCHANGED <<taskVars, receipt, tx>>

-----------------------------------------------------------------------------
(* The surroundings *)

\* The worker is evicted: no catch and no finally block runs.
Crash(r) ==
    /\ Live(r)
    /\ End(r)
    /\ UNCHANGED <<lock, taskVars, receipt, tx>>

Mine(r) ==
    /\ tx[r] = "pending"
    /\ \E s \in {"mined", "reverted"} : tx' = [tx EXCEPT ![r] = s]
    /\ UNCHANGED <<lock, taskVars, pc, todo, executed, receipt>>

Sooner(n) == IF n = Expired THEN Expired ELSE n - 1

Tick ==
    /\ lock' = [l \in Locks |-> Sooner(lock[l])]
    /\ left' = [t \in Tasks |-> Sooner(left[t])]
    /\ UNCHANGED <<status, lease, result, answer, pc, runVars>>

Cycle(r) ==
    \/ Start(r) \/ StartLocked(r) \/ Claim(r) \/ SelectTasks(r)
    \/ ReturnEarly(r) \/ AnswerBalance(r) \/ WaitingProvider(r)
    \/ PlanNothing(r) \/ PlanCalls(r)
    \/ TakeMutex(r) \/ MutexBusy(r) \/ Simulate(r) \/ SimulationFails(r)
    \/ Send(r) \/ Confirm(r) \/ Reverted(r)
    \/ ReleaseMutex(r) \/ ReleaseFails(r)
    \/ FinishDirect(r) \/ FinishRun(r) \/ Throw(r)
    \/ CatchReceipts(r) \/ AnswerFailure(r) \/ Finally(r)
    \/ \E t \in Tasks : Reject(r, t) \/ FinishTask(r, t) \/ SendMessage(r, t)

Next ==
    \/ \E t \in Tasks : Enqueue(t)
    \/ \E r \in Runs : Cycle(r) \/ Crash(r) \/ Mine(r)
    \/ Tick

Spec == Init /\ [][Next]_vars

-----------------------------------------------------------------------------
(* The timing the design counts on: no call outlives a lock it holds.  The *)
(* code does not enforce it (no deadline, and unlock asks for no owner).   *)

InTime ==
    \A r \in Runs : /\ Live(r) => lock[LockId(r)] > 0
                    /\ pc[r] \in Critical => lock[Mutex] > 0

TimelyNext ==
    \/ \E t \in Tasks : Enqueue(t)
    \/ \E r \in Runs : Cycle(r) \/ Crash(r) \/ Mine(r)
    \/ InTime /\ Tick

TimelySpec == Init /\ [][TimelyNext]_vars

-----------------------------------------------------------------------------
(* Properties *)

TypeOK ==
    /\ lock \in [Locks -> Int]
    /\ status \in [Tasks -> TaskStatus]
    /\ lease \in [Tasks -> Runs \cup {None}]
    /\ left \in [Tasks -> Int]
    /\ result \in [Tasks -> Writings]
    /\ answer \in [OwnerChats -> Writings]
    /\ pc \in [Runs -> Places]
    /\ todo \in [Runs -> SUBSET Tasks]
    /\ executed \in [Runs -> BOOLEAN]
    /\ receipt \in [Runs -> ReceiptStatus]
    /\ tx \in [Runs -> {"none", "pending", "mined", "reverted"}]

\* Success is never reported without a confirmed transaction: a task result
\* or an assistant message that says so, and a receipt marked confirmed, all
\* name a run whose transaction the chain executed, however late, reclaimed
\* or interrupted the runs are.
SuccessIsMined ==
    /\ \A t \in Tasks : result[t].as = "executed" => tx[result[t].by] = "mined"
    /\ \A t \in OwnerChats : answer[t].as = "executed" => tx[answer[t].by] = "mined"
    /\ \A r \in Runs : receipt[r] = "confirmed" => tx[r] = "mined"

\* A processing row is leased to a run of its own agent that got past its
\* claim; every other row has no lease, so a late worker finds nothing to
\* complete and a new one nothing to wait for.
LeaseNamesRun ==
    \A t \in Tasks :
      IF status[t] = "processing"
      THEN /\ lease[t] \in Runs \ Direct
           /\ AgentOf[lease[t]] = To[t]
           /\ pc[lease[t]] \notin {"idle", "claim"}
      ELSE lease[t] = None /\ left[t] = Expired

\* No two cycles of one agent evaluate and act at once, and no two direct
\* chats with it ("Per-agent lock"); true only of calls that keep in time.
AgentExclusion ==
    \A q, r \in Runs : Live(q) /\ Live(r) /\ LockId(q) = LockId(r) => q = r

\* At most one call at a time is between the last validation and the receipt
\* of its transaction, so the runner's nonce is not raced ("Transaction
\* mutex"), cycles and direct chats of all agents alike.
SubmitExclusion ==
    \A q, r \in Runs : pc[q] \in Critical /\ pc[r] \in Critical => q = r

\* A call that keeps in time never meets agent_task_lease_lost: every task it
\* still has to complete is leased to it for as long as its own lock, unless
\* its own UPDATE was applied and the answer lost.
LeaseKept ==
    \A r \in Runs : \A t \in todo[r] :
       Live(r) /\ pc[r] # "finally" =>
         \/ Holds(r, t) /\ left[t] >= lock[LockId(r)]
         \/ result[t].by = r /\ pc[r] \in {"catch", "answer"}

\* What the owner reads is what the task row records: an owner chat has an
\* assistant message exactly when it is closed, written by the run that
\* closed it and saying the same.
AnswerIsResult == \A t \in OwnerChats : answer[t] = result[t]

\* A receipt that was recorded as confirmed keeps saying so.
ConfirmedStays ==
    [][\A r \in Runs : receipt[r] = "confirmed" => receipt'[r] = "confirmed"]_vars

\* The calls that will claim nothing more.
Engaged == {r \in Runs : pc[r] \notin {"idle", "claim"}}

\* The rows of centry_agent_tasks behave as the durable queue promises.
Queue == INSTANCE TaskQueue
    WITH Holders <- Runs,
         holder <- lease,
         lapsed <- {t \in Tasks : left[t] = Expired},
         closer <- [t \in Tasks |-> result[t].by],
         used <- Engaged

\* However late, concurrent or interrupted the calls are, a task is closed at
\* most once, by the call that claimed it last, and moves from one call to
\* another only after its lease has run out.
QueueSpec == Queue!Spec
=============================================================================
