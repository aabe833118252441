------------------------- MODULE AgentRuntimeProofs -------------------------
(***************************************************************************)
(* Theorems about AgentRuntime, for any number of agents, tasks and calls: *)
(* leases and results, the refinement of TaskQueue, and, when no call      *)
(* outlives a lock it holds, mutual exclusion and the owners' answers.     *)
(***************************************************************************)
EXTENDS AgentRuntime, TLAPS

USE TablesAssumption, TtlAssumption

LEMMA WritingsFact ==
    /\ Unwritten \in Writings /\ Unwritten.by = None /\ Unwritten.as = "none"
    /\ \A r \in Runs, s \in Outcomes :
         /\ [by |-> r, as |-> s] \in Writings
         /\ [by |-> r, as |-> s].by = r /\ [by |-> r, as |-> s].as = s
BY DEF Writings, Unwritten

\* Completing a row keeps the types of the task columns.
LEMMA CompleteTaskType ==
    ASSUME TypeOK, NEW r \in Runs, NEW t \in Tasks, NEW s \in Outcomes, CompleteTask(r, t, s)
    PROVE  /\ status' \in [Tasks -> TaskStatus]
           /\ lease' \in [Tasks -> Runs \cup {None}]
           /\ left' \in [Tasks -> Int]
           /\ result' \in [Tasks -> Writings]
           /\ answer' \in [OwnerChats -> Writings]
<1> DEFINE row == [by |-> r, as |-> s]
<1>1. row \in Writings
  BY WritingsFact
<1>2. answer' \in [OwnerChats -> Writings]
  BY <1>1 DEF CompleteTask, WriteAnswer, TypeOK
<1>3. /\ status' \in [Tasks -> TaskStatus]
      /\ lease' \in [Tasks -> Runs \cup {None}]
      /\ left' \in [Tasks -> Int]
  BY DEF CompleteTask, CompleteRow, TypeOK, TaskStatus, Expired
<1>4. result' \in [Tasks -> Writings]
  BY <1>1 DEF CompleteTask, CompleteRow, TypeOK
<1> QED BY <1>2, <1>3, <1>4

LEMMA RecordReceiptsType ==
    ASSUME TypeOK, NEW r \in Runs, NEW s \in ReceiptStatus, RecordReceipts(r, s)
    PROVE  receipt' \in [Runs -> ReceiptStatus]
BY DEF RecordReceipts, TypeOK

LEMMA GotoType ==
    ASSUME TypeOK, NEW r \in Runs, NEW p \in Places, Goto(r, p)
    PROVE  pc' \in [Runs -> Places]
BY DEF Goto, TypeOK

LEMMA LocksFact == Mutex \in Locks /\ \A r \in Runs : LockId(r) \in Locks /\ LockId(r) # Mutex
BY DEF Mutex, Locks, LockId

LEMMA InitTypeOK == Init => TypeOK
BY WritingsFact DEF Init, TypeOK, TaskStatus, Places, ReceiptStatus, Expired

LEMMA NextTypeOK == TypeOK /\ [Next]_vars => TypeOK'
<1> SUFFICES ASSUME TypeOK, [Next]_vars PROVE TypeOK'
  OBVIOUS
<1> USE DEF Places, Body, Critical
<1>1. CASE UNCHANGED vars
  BY <1>1 DEF vars, TypeOK
<1>2. ASSUME NEW t \in Tasks, Enqueue(t) PROVE TypeOK'
  BY <1>2 DEF Enqueue, TypeOK, TaskStatus, runVars
<1>3. CASE Tick
  <2>1. lock' \in [Locks -> Int] /\ left' \in [Tasks -> Int]
    BY <1>3 DEF Tick, TypeOK, Sooner, Expired
  <2> QED BY <1>3, <2>1 DEF Tick, TypeOK, runVars
<1>4. ASSUME NEW r \in Runs, Crash(r) \/ Finally(r) PROVE TypeOK'
  <2>1. pc' \in [Runs -> Places]
    BY <1>4, GotoType DEF Crash, Finally, End
  <2>2. todo' \in [Runs -> SUBSET Tasks] /\ executed' \in [Runs -> BOOLEAN]
    BY <1>4 DEF Crash, Finally, End, TypeOK
  <2>3. lock' \in [Locks -> Int]
    BY <1>4, LocksFact DEF Crash, Finally, Unlock, TypeOK, Expired
  <2> QED BY <1>4, <2>1, <2>2, <2>3 DEF Crash, Finally, TypeOK, taskVars
<1>5. ASSUME NEW r \in Runs, Mine(r) PROVE TypeOK'
  BY <1>5 DEF Mine, TypeOK, taskVars
<1>6. ASSUME NEW r \in Runs, Start(r) \/ StartLocked(r) PROVE TypeOK'
  <2>1. pc' \in [Runs -> Places]
    BY <1>6, GotoType DEF Start, StartLocked
  <2>2. lock' \in [Locks -> Int]
    BY <1>6, LocksFact DEF Start, StartLocked, TryLock, TypeOK
  <2> QED BY <1>6, <2>1, <2>2 DEF Start, StartLocked, TypeOK, taskVars, runVars
<1>7. ASSUME NEW r \in Runs, Claim(r) PROVE TypeOK'
  <2>1. pc' \in [Runs -> Places]
    BY <1>7, GotoType DEF Claim
  <2>2. /\ status' \in [Tasks -> TaskStatus]
        /\ lease' \in [Tasks -> Runs \cup {None}]
        /\ left' \in [Tasks -> Int]
    BY <1>7 DEF Claim, TypeOK, TaskStatus
  <2>3. todo' \in [Runs -> SUBSET Tasks]
    BY <1>7 DEF Claim, TypeOK
  <2> QED BY <1>7, <2>1, <2>2, <2>3 DEF Claim, TypeOK
<1>8. ASSUME NEW r \in Runs, NEW t \in Tasks, Reject(r, t) \/ FinishTask(r, t) PROVE TypeOK'
  <2>1. /\ status' \in [Tasks -> TaskStatus]
        /\ lease' \in [Tasks -> Runs \cup {None}]
        /\ left' \in [Tasks -> Int]
        /\ result' \in [Tasks -> Writings]
        /\ answer' \in [OwnerChats -> Writings]
    <3>1. CASE Reject(r, t)
      BY <3>1, CompleteTaskType DEF Reject, Outcomes, taskVars, TypeOK
    <3>2. CASE FinishTask(r, t)
      BY <3>2, CompleteTaskType DEF FinishTask, Outcomes
    <3> QED BY <1>8, <3>1, <3>2
  <2>2. pc' \in [Runs -> Places]
    BY <1>8, GotoType DEF Reject, FinishTask, TypeOK
  <2>3. todo' \in [Runs -> SUBSET Tasks]
    BY <1>8 DEF Reject, FinishTask, TypeOK
  <2> QED BY <1>8, <2>1, <2>2, <2>3 DEF Reject, FinishTask, TypeOK
<1>9. ASSUME NEW r \in Runs, NEW t \in Tasks, SendMessage(r, t) PROVE TypeOK'
  BY <1>9 DEF SendMessage, TypeOK, TaskStatus, runVars
<1>10. ASSUME NEW r \in Runs, SelectTasks(r) PROVE TypeOK'
  <2>1. pc' \in [Runs -> Places]
    BY <1>10, GotoType DEF SelectTasks
  <2>2. todo' \in [Runs -> SUBSET Tasks]
    BY <1>10 DEF SelectTasks, TypeOK
  <2> QED BY <1>10, <2>1, <2>2 DEF SelectTasks, TypeOK, taskVars
<1>11. ASSUME NEW r \in Runs,
              \/ ReturnEarly(r) \/ PlanNothing(r) \/ MutexBusy(r)
              \/ FinishDirect(r) \/ FinishRun(r) \/ Throw(r)
       PROVE TypeOK'
  <2>1. pc' \in [Runs -> Places]
    BY <1>11, GotoType DEF ReturnEarly, PlanNothing, MutexBusy, FinishDirect,
       FinishRun, Throw
  <2> QED BY <1>11, <2>1 DEF ReturnEarly, PlanNothing, MutexBusy, FinishDirect,
       FinishRun, Throw, TypeOK, taskVars, runVars
<1>12. ASSUME NEW r \in Runs, AnswerBalance(r) \/ WaitingProvider(r) \/ AnswerFailure(r)
       PROVE TypeOK'
  <2>1. /\ status' \in [Tasks -> TaskStatus]
        /\ lease' \in [Tasks -> Runs \cup {None}]
        /\ left' \in [Tasks -> Int]
        /\ result' \in [Tasks -> Writings]
        /\ answer' \in [OwnerChats -> Writings]
    <3>1. CASE UNCHANGED taskVars
      BY <3>1 DEF TypeOK, taskVars
    <3>2. ASSUME NEW t \in todo[r], NEW s \in Outcomes, CompleteTask(r, t, s)
          PROVE  /\ status' \in [Tasks -> TaskStatus]
                 /\ lease' \in [Tasks -> Runs \cup {None}]
                 /\ left' \in [Tasks -> Int]
                 /\ result' \in [Tasks -> Writings]
                 /\ answer' \in [OwnerChats -> Writings]
      <4>1. t \in Tasks
        BY DEF TypeOK
      <4> QED BY <3>2, <4>1, CompleteTaskType
    <3>3. \/ UNCHANGED taskVars
          \/ \E t \in todo[r], s \in Outcomes : CompleteTask(r, t, s)
      BY <1>12 DEF AnswerBalance, WaitingProvider, AnswerFailure, Outcomes
    <3> QED BY <3>1, <3>2, <3>3
  <2>2. pc' \in [Runs -> Places]
    BY <1>12, GotoType DEF AnswerBalance, WaitingProvider, AnswerFailure
  <2>3. todo' \in [Runs -> SUBSET Tasks]
    BY <1>12 DEF AnswerBalance, WaitingProvider, AnswerFailure, runVars, TypeOK
  <2> QED BY <1>12, <2>1, <2>2, <2>3 DEF AnswerBalance, WaitingProvider, AnswerFailure,
       TypeOK, runVars
<1>13. ASSUME NEW r \in Runs,
              \/ PlanCalls(r) \/ Simulate(r) \/ SimulationFails(r) \/ Send(r) \/ Confirm(r)
              \/ Reverted(r) \/ CatchReceipts(r)
       PROVE TypeOK'
  <2>1. pc' \in [Runs -> Places]
    BY <1>13, GotoType DEF PlanCalls, Simulate, SimulationFails, Send, Confirm, Reverted,
       CatchReceipts
  <2>2. receipt' \in [Runs -> ReceiptStatus]
    BY <1>13, RecordReceiptsType DEF PlanCalls, Simulate, SimulationFails, Send, Confirm,
       Reverted, CatchReceipts, ReceiptStatus, TypeOK
  <2>3. tx' \in [Runs -> {"none", "pending", "mined", "reverted"}]
    BY <1>13 DEF PlanCalls, Simulate, SimulationFails, Send, Confirm, Reverted,
       CatchReceipts, TypeOK
  <2> QED BY <1>13, <2>1, <2>2, <2>3 DEF PlanCalls, Simulate, SimulationFails, Send, Confirm,
       Reverted, CatchReceipts, TypeOK, taskVars
<1>14. ASSUME NEW r \in Runs, TakeMutex(r) \/ ReleaseMutex(r) \/ ReleaseFails(r) PROVE TypeOK'
  <2>1. pc' \in [Runs -> Places]
    BY <1>14, GotoType DEF TakeMutex, ReleaseMutex, ReleaseFails
  <2>2. lock' \in [Locks -> Int]
    BY <1>14, LocksFact DEF TakeMutex, ReleaseMutex, ReleaseFails, TryLock, Unlock, TypeOK, Expired
  <2>3. executed' \in [Runs -> BOOLEAN]
    BY <1>14 DEF TakeMutex, ReleaseMutex, ReleaseFails, runVars, TypeOK
  <2> QED BY <1>14, <2>1, <2>2, <2>3 DEF TakeMutex, ReleaseMutex, ReleaseFails, TypeOK, taskVars, runVars
<1> QED BY <1>1, <1>2, <1>3, <1>4, <1>5, <1>6, <1>7, <1>8, <1>9, <1>10, <1>11, <1>12, <1>13,
     <1>14 DEF Next, Cycle

\* Every column of every table, and every local variable of a call, keeps its
\* type, for any number of agents, tasks and calls.
THEOREM TypeCorrect == Spec => []TypeOK
<1>1. Init => TypeOK
  BY InitTypeOK
<1>2. TypeOK /\ [Next]_vars => TypeOK'
  BY NextTypeOK
<1> QED BY <1>1, <1>2, PTL DEF Spec

-----------------------------------------------------------------------------
(* What a step can do to the tables *)

\* Every step leaves the task rows alone, inserts one row, claims a batch,
\* closes one row its caller holds, or lets time pass; a call gets past its
\* claim by claiming, or in a step that leaves the rows alone.
RowStep ==
    \/ /\ UNCHANGED <<status, lease, left, result>>
       /\ Engaged' = Engaged \/ \E h \in Runs \ Engaged : Engaged' = Engaged \cup {h}
    \/ /\ \E t \in Tasks : status[t] = "absent" /\ status' = [status EXCEPT ![t] = "pending"]
       /\ UNCHANGED <<lease, left, result, Engaged>>
    \/ \E r \in Runs : Claim(r)
    \/ /\ \E r \in Runs, t \in Tasks, s \in Outcomes :
            Holds(r, t) /\ CompleteRow(r, t, s) /\ (s = "executed" => executed[r])
       /\ UNCHANGED Engaged
    \/ Tick

\* A step of a call that is past its claim.
LEMMA EngagedStays ==
    ASSUME TypeOK, NEW r \in Engaged, NEW p \in Places \ {"idle", "claim"},
           Goto(r, p) \/ pc' = pc
    PROVE  Engaged' = Engaged
BY DEF Engaged, Goto, TypeOK

\* A step that may take a call past its claim.
LEMMA EngagedGrows ==
    ASSUME TypeOK, NEW r \in Runs, pc' \in [Runs -> Places],
           \A q \in Runs : q # r => pc'[q] = pc[q],
           r \in Engaged => r \in Engaged'
    PROVE  Engaged' = Engaged \/ \E h \in Runs \ Engaged : Engaged' = Engaged \cup {h}
<1>1. CASE r \in Engaged \/ r \notin Engaged'
  <2>1. Engaged' = Engaged
    BY <1>1 DEF Engaged
  <2> QED BY <2>1
<1>2. CASE r \notin Engaged /\ r \in Engaged'
  <2>1. Engaged' = Engaged \cup {r}
    BY <1>2 DEF Engaged
  <2> QED BY <1>2, <2>1
<1> QED BY <1>1, <1>2

LEMMA StepOfRows == TypeOK /\ [Next]_vars => RowStep
<1> SUFFICES ASSUME TypeOK, [Next]_vars PROVE RowStep
  OBVIOUS
<1> USE DEF Places, Body, Critical
<1>1. CASE UNCHANGED vars \/ Tick \/ \E t \in Tasks : Enqueue(t)
  BY <1>1 DEF vars, Enqueue, RowStep, Engaged
<1>2. ASSUME NEW r \in Runs,
             \/ Crash(r) \/ Mine(r) \/ Start(r) \/ StartLocked(r) \/ SelectTasks(r)
             \/ ReturnEarly(r) \/ PlanNothing(r) \/ PlanCalls(r) \/ TakeMutex(r) \/ MutexBusy(r)
             \/ Simulate(r) \/ SimulationFails(r) \/ Send(r) \/ Confirm(r) \/ Reverted(r)
             \/ ReleaseMutex(r) \/ ReleaseFails(r) \/ FinishDirect(r) \/ FinishRun(r)
             \/ Throw(r) \/ CatchReceipts(r) \/ Finally(r)
      PROVE RowStep
  <2>1. UNCHANGED <<status, lease, left, result>>
    BY <1>2 DEF Crash, Mine, Start, StartLocked, SelectTasks, ReturnEarly, PlanNothing, PlanCalls,
       TakeMutex, MutexBusy, Simulate, SimulationFails, Send, Confirm, Reverted, ReleaseMutex,
       ReleaseFails, FinishDirect, FinishRun, Throw, CatchReceipts, Finally, taskVars
  <2>2. CASE Start(r) \/ StartLocked(r) \/ Crash(r) \/ Throw(r)
    <3>1. \A q \in Runs : q # r => pc'[q] = pc[q]
      BY <2>2 DEF Start, StartLocked, Crash, Throw, End, Goto, TypeOK
    <3>2. r \in Engaged => r \in Engaged'
      BY <2>2 DEF Start, StartLocked, Crash, Throw, End, Goto, TypeOK, Engaged
    <3>3. pc' \in [Runs -> Places]
      BY NextTypeOK DEF TypeOK
    <3>4. Engaged' = Engaged \/ \E h \in Runs \ Engaged : Engaged' = Engaged \cup {h}
      BY <3>1, <3>2, <3>3, EngagedGrows
    <3> QED BY <2>1, <3>4 DEF RowStep
  <2>3. CASE Mine(r)
    BY <2>1, <2>3 DEF Mine, RowStep, Engaged
  <2>4. CASE ~(Start(r) \/ StartLocked(r) \/ Crash(r) \/ Throw(r) \/ Mine(r))
    <3>1. r \in Engaged /\ \E p \in Places \ {"idle", "claim"} : Goto(r, p)
      BY <1>2, <2>4 DEF SelectTasks, ReturnEarly, PlanNothing, PlanCalls,
         TakeMutex, MutexBusy, Simulate, SimulationFails, Send, Confirm, Reverted, ReleaseMutex,
         ReleaseFails, FinishDirect, FinishRun, CatchReceipts, Finally, End, Engaged
    <3> QED BY <2>1, <3>1, EngagedStays DEF RowStep
  <2> QED BY <2>2, <2>3, <2>4
<1>3. ASSUME NEW r \in Runs, Claim(r) PROVE RowStep
  BY <1>3 DEF RowStep
<1>4. ASSUME NEW r \in Runs, NEW t \in Tasks, SendMessage(r, t) PROVE RowStep
  BY <1>4 DEF SendMessage, RowStep, Engaged
<1>5. ASSUME NEW r \in Runs,
             \/ AnswerBalance(r) \/ WaitingProvider(r) \/ AnswerFailure(r)
             \/ \E t \in Tasks : Reject(r, t) \/ FinishTask(r, t)
      PROVE RowStep
  <2>1. \/ UNCHANGED taskVars
        \/ \E t \in Tasks, s \in Outcomes :
             CompleteTask(r, t, s) /\ (s = "executed" => executed[r])
    <3>1. todo[r] \subseteq Tasks
      BY DEF TypeOK
    <3>2. CASE AnswerBalance(r) \/ WaitingProvider(r) \/ AnswerFailure(r)
      BY <3>1, <3>2 DEF AnswerBalance, WaitingProvider, AnswerFailure, Outcomes
    <3>3. ASSUME NEW t \in Tasks, Reject(r, t) \/ FinishTask(r, t)
          PROVE  \/ UNCHANGED taskVars
                 \/ \E s \in Outcomes : CompleteTask(r, t, s) /\ (s = "executed" => executed[r])
      BY <3>3 DEF Reject, FinishTask, Outcomes
    <3> QED BY <1>5, <3>2, <3>3
  <2>2. UNCHANGED Engaged
    <3>1. r \in Engaged /\ (pc' = pc \/ \E p \in Places \ {"idle", "claim"} : Goto(r, p))
      BY <1>5 DEF AnswerBalance, WaitingProvider, AnswerFailure, Reject, FinishTask, Engaged
    <3> QED BY <3>1, EngagedStays
  <2>3. ASSUME NEW t \in Tasks, NEW s \in Outcomes,
               CompleteTask(r, t, s), s = "executed" => executed[r]
        PROVE  RowStep
    BY <2>2, <2>3 DEF CompleteTask, CompleteRow, RowStep
  <2> QED BY <2>1, <2>2, <2>3 DEF taskVars, RowStep
<1> QED BY <1>1, <1>2, <1>3, <1>4, <1>5 DEF Next, Cycle

\* No call comes back to its start or to its claim, and a direct chat never
\* claims.
LEMMA PlacesForward ==
    ASSUME TypeOK, [Next]_vars, NEW q \in Runs
    PROVE  /\ pc[q] \notin {"idle", "claim"} => pc'[q] \notin {"idle", "claim"}
           /\ pc[q] # "idle" => pc'[q] # "idle"
           /\ q \in Direct /\ pc[q] # "claim" => pc'[q] # "claim"
<1> USE DEF TypeOK, Goto
<1>1. CASE UNCHANGED vars \/ Tick \/ \E t \in Tasks : Enqueue(t)
  BY <1>1 DEF vars, Tick, Enqueue
<1>2. ASSUME NEW r \in Runs,
             \/ Crash(r) \/ Mine(r) \/ Finally(r) \/ Start(r) \/ StartLocked(r)
             \/ Claim(r) \/ SelectTasks(r)
             \/ \E t \in Tasks : Reject(r, t) \/ FinishTask(r, t) \/ SendMessage(r, t)
      PROVE /\ pc[q] \notin {"idle", "claim"} => pc'[q] \notin {"idle", "claim"}
            /\ pc[q] # "idle" => pc'[q] # "idle"
            /\ q \in Direct /\ pc[q] # "claim" => pc'[q] # "claim"
  BY <1>2 DEF Crash, Mine, Finally, End, Start, StartLocked, Claim, SelectTasks, Reject,
     FinishTask, SendMessage
<1>3. ASSUME NEW r \in Runs,
             \/ ReturnEarly(r) \/ AnswerBalance(r) \/ WaitingProvider(r) \/ PlanNothing(r)
             \/ PlanCalls(r) \/ TakeMutex(r) \/ MutexBusy(r) \/ Simulate(r) \/ SimulationFails(r)
             \/ Send(r) \/ Confirm(r) \/ Reverted(r)
             \/ ReleaseMutex(r) \/ ReleaseFails(r) \/ FinishDirect(r) \/ FinishRun(r)
             \/ Throw(r) \/ CatchReceipts(r) \/ AnswerFailure(r)
      PROVE /\ pc[q] \notin {"idle", "claim"} => pc'[q] \notin {"idle", "claim"}
            /\ pc[q] # "idle" => pc'[q] # "idle"
            /\ q \in Direct /\ pc[q] # "claim" => pc'[q] # "claim"
  BY <1>3 DEF ReturnEarly, AnswerBalance, WaitingProvider, PlanNothing, PlanCalls,
     TakeMutex, MutexBusy, Simulate, SimulationFails, Send, Confirm, Reverted, ReleaseMutex,
     ReleaseFails, FinishDirect, FinishRun, Throw, CatchReceipts, AnswerFailure
<1> QED BY <1>1, <1>2, <1>3 DEF Next, Cycle

-----------------------------------------------------------------------------
(* The lease of a task *)

DirectNeverClaims == \A r \in Direct : pc[r] # "claim"

LeaseIInv == LeaseNamesRun /\ DirectNeverClaims

LEMMA NextLeaseIInv == TypeOK /\ LeaseIInv /\ [Next]_vars => LeaseIInv'
<1> SUFFICES ASSUME TypeOK, LeaseIInv, [Next]_vars PROVE LeaseIInv'
  OBVIOUS
<1>1. DirectNeverClaims'
  BY PlacesForward DEF LeaseIInv, DirectNeverClaims
<1>2. \A q \in Runs : pc[q] \notin {"idle", "claim"} => pc'[q] \notin {"idle", "claim"}
  BY PlacesForward
<1>3. LeaseNamesRun'
  <2> USE DEF LeaseIInv, LeaseNamesRun, TypeOK
  <2>1. CASE UNCHANGED <<status, lease, left, result>>
    BY <1>2, <2>1
  <2>2. ASSUME NEW t \in Tasks, status[t] = "absent",
               status' = [status EXCEPT ![t] = "pending"], UNCHANGED <<lease, left, result>>
        PROVE LeaseNamesRun'
    BY <1>2, <2>2
  <2>3. ASSUME NEW r \in Runs, Claim(r) PROVE LeaseNamesRun'
    <3>1. r \notin Direct /\ pc'[r] \notin {"idle", "claim"}
      BY <2>3 DEF Claim, Goto, DirectNeverClaims
    <3> QED BY <1>2, <2>3, <3>1 DEF Claim, Claimable
  <2>4. ASSUME NEW r \in Runs, NEW t \in Tasks, NEW s \in Outcomes,
               Holds(r, t), CompleteRow(r, t, s)
        PROVE LeaseNamesRun'
    BY <1>2, <2>4 DEF CompleteRow
  <2>5. CASE Tick
    BY <1>2, <2>5 DEF Tick, Sooner
  <2> QED BY <2>1, <2>2, <2>3, <2>4, <2>5, StepOfRows DEF RowStep
<1> QED BY <1>1, <1>3 DEF LeaseIInv

\* At any moment a processing task is leased to a call made for the task's
\* own agent and past its claim, and no other row carries a lease: the WHERE
\* clauses of claimAgentTasks and completeTask never meet a half-written row.
THEOREM LeaseCorrect == Spec => []LeaseNamesRun
<1>1. Init => LeaseIInv
  BY DEF Init, LeaseIInv, LeaseNamesRun, DirectNeverClaims
<1>2. TypeOK /\ LeaseIInv /\ [Next]_vars => LeaseIInv'
  BY NextLeaseIInv
<1>3. LeaseIInv => LeaseNamesRun
  BY DEF LeaseIInv
<1> QED BY <1>1, <1>2, <1>3, TypeCorrect, PTL DEF Spec

-----------------------------------------------------------------------------
(* Success and the chain *)

\* A call has broadcast nothing before writeContract returns, and is past a
\* verified receipt when it is about to report success.
BeforeSend == {"idle", "claim", "claimed", "plan", "mutex", "locked", "send"}

EarnedInv ==
    \A r \in Runs :
      /\ pc[r] \in BeforeSend => tx[r] = "none"
      /\ executed[r] \/ pc[r] = "release" => tx[r] = "mined"

LEMMA NextEarnedInv == TypeOK /\ EarnedInv /\ [Next]_vars => EarnedInv'
<1> SUFFICES ASSUME TypeOK, EarnedInv, [Next]_vars PROVE EarnedInv'
  OBVIOUS
<1> USE DEF TypeOK, EarnedInv, BeforeSend, Goto
<1>1. CASE UNCHANGED vars \/ Tick \/ \E t \in Tasks : Enqueue(t)
  BY <1>1 DEF vars, Tick, Enqueue, runVars
<1>2. ASSUME NEW r \in Runs, Crash(r) \/ Finally(r) PROVE EarnedInv'
  BY <1>2 DEF Crash, Finally, End
<1>3. ASSUME NEW r \in Runs, Mine(r) PROVE EarnedInv'
  BY <1>3 DEF Mine
<1>4. ASSUME NEW r \in Runs, Send(r) PROVE EarnedInv'
  BY <1>4 DEF Send
<1>5. ASSUME NEW r \in Runs, ReleaseMutex(r) PROVE EarnedInv'
  BY <1>5 DEF ReleaseMutex
<1>6. ASSUME NEW r \in Runs,
             \/ Start(r) \/ StartLocked(r) \/ Claim(r) \/ SelectTasks(r)
             \/ ReturnEarly(r) \/ AnswerBalance(r) \/ WaitingProvider(r)
             \/ PlanNothing(r) \/ PlanCalls(r)
             \/ \E t \in Tasks : Reject(r, t) \/ FinishTask(r, t) \/ SendMessage(r, t)
      PROVE EarnedInv'
  BY <1>6 DEF Start, StartLocked, Claim, SelectTasks, ReturnEarly, AnswerBalance,
     WaitingProvider, PlanNothing, PlanCalls, Reject, FinishTask, SendMessage, runVars
<1>7. ASSUME NEW r \in Runs,
             \/ TakeMutex(r) \/ MutexBusy(r) \/ Simulate(r) \/ SimulationFails(r)
             \/ Confirm(r) \/ Reverted(r) \/ ReleaseFails(r) \/ FinishDirect(r)
             \/ FinishRun(r) \/ Throw(r) \/ CatchReceipts(r) \/ AnswerFailure(r)
      PROVE EarnedInv'
  BY <1>7 DEF TakeMutex, MutexBusy, Simulate, SimulationFails, Confirm, Reverted,
     ReleaseFails, FinishDirect, FinishRun, Throw, CatchReceipts, AnswerFailure, runVars
<1> QED BY <1>1, <1>2, <1>3, <1>4, <1>5, <1>6, <1>7 DEF Next, Cycle

\* A transaction once included stays included.
LEMMA MinedStays ==
    ASSUME TypeOK, EarnedInv, [Next]_vars, NEW q \in Runs, tx[q] = "mined"
    PROVE  tx'[q] = "mined"
<1>1. \/ UNCHANGED tx
      \/ \E r \in Runs : Mine(r) \/ Send(r)
  BY DEF Next, Cycle, vars, runVars, Tick, Enqueue, Crash, Finally, End, Start, StartLocked, Claim,
     SelectTasks, ReturnEarly, AnswerBalance, WaitingProvider, PlanNothing, PlanCalls, Reject,
     FinishTask, SendMessage, ReleaseMutex, TakeMutex, MutexBusy, Simulate, SimulationFails,
     Confirm, Reverted, ReleaseFails, FinishDirect, FinishRun, Throw, CatchReceipts, AnswerFailure
<1>2. ASSUME NEW r \in Runs, Mine(r) PROVE tx'[q] = "mined"
  BY <1>2 DEF Mine, TypeOK
<1>3. ASSUME NEW r \in Runs, Send(r) PROVE tx'[q] = "mined"
  <2>1. tx[r] = "none"
    BY <1>3 DEF Send, EarnedInv, BeforeSend
  <2> QED BY <1>3, <2>1 DEF Send, TypeOK
<1> QED BY <1>1, <1>2, <1>3

\* A new "confirmed" is written by Confirm alone.
LEMMA ConfirmedStep ==
    ASSUME TypeOK, [Next]_vars, NEW q \in Runs, receipt'[q] = "confirmed"
    PROVE  receipt[q] = "confirmed" \/ tx[q] = "mined"
<1>1. \/ UNCHANGED receipt
      \/ \E r \in Runs : \/ PlanCalls(r) \/ Simulate(r) \/ SimulationFails(r) \/ Send(r)
                        \/ Confirm(r) \/ Reverted(r) \/ CatchReceipts(r)
  BY DEF Next, Cycle, vars, runVars, Tick, Enqueue, Crash, Finally, Mine, Start, StartLocked, Claim,
     SelectTasks, ReturnEarly, AnswerBalance, WaitingProvider, PlanNothing, Reject,
     FinishTask, SendMessage, ReleaseMutex, TakeMutex, MutexBusy,
     ReleaseFails, FinishDirect, FinishRun, Throw, AnswerFailure
<1>2. ASSUME NEW r \in Runs, PlanCalls(r) \/ Simulate(r) \/ SimulationFails(r) \/ Send(r)
                                \/ Reverted(r) \/ CatchReceipts(r)
      PROVE receipt[q] = "confirmed"
  BY <1>2 DEF PlanCalls, Simulate, SimulationFails, Send, Reverted, CatchReceipts,
     RecordReceipts, TypeOK
<1>3. ASSUME NEW r \in Runs, Confirm(r) PROVE receipt[q] = "confirmed" \/ tx[q] = "mined"
  BY <1>3 DEF Confirm, RecordReceipts, TypeOK
<1> QED BY <1>1, <1>2, <1>3

\* A new assistant message that says "executed" comes from a call that did.
LEMMA AnswerStep ==
    ASSUME TypeOK, [Next]_vars, NEW c \in OwnerChats, answer'[c].as = "executed"
    PROVE  \/ answer'[c] = answer[c]
           \/ \E r \in Runs : executed[r] /\ answer'[c].by = r
<1>1. ASSUME NEW r \in Runs, NEW t \in Tasks, NEW s \in Outcomes,
             CompleteTask(r, t, s), s = "executed" => executed[r]
      PROVE  \/ answer'[c] = answer[c]
             \/ \E q \in Runs : executed[q] /\ answer'[c].by = q
  BY <1>1, WritingsFact DEF CompleteTask, WriteAnswer, TypeOK
<1>2. \/ UNCHANGED answer
      \/ \E r \in Runs : \/ AnswerBalance(r) \/ WaitingProvider(r) \/ AnswerFailure(r)
                        \/ \E t \in Tasks : Reject(r, t) \/ FinishTask(r, t)
  BY DEF Next, Cycle, vars, taskVars, Tick, Enqueue, Crash, Finally, Mine, Start, StartLocked, Claim,
     SelectTasks, ReturnEarly, PlanNothing, PlanCalls, SendMessage, ReleaseMutex, TakeMutex,
     MutexBusy, Simulate, SimulationFails, Send, Confirm, Reverted, ReleaseFails, FinishDirect,
     FinishRun, Throw, CatchReceipts
<1>3. \A r \in Runs : todo[r] \subseteq Tasks
  BY DEF TypeOK
<1>4. ASSUME NEW r \in Runs, AnswerBalance(r) \/ WaitingProvider(r) \/ AnswerFailure(r)
      PROVE  \/ UNCHANGED answer
             \/ \E t \in Tasks, s \in Outcomes :
                  CompleteTask(r, t, s) /\ (s = "executed" => executed[r])
  BY <1>3, <1>4 DEF AnswerBalance, WaitingProvider, AnswerFailure, Outcomes, taskVars
<1>5. ASSUME NEW r \in Runs, NEW t \in Tasks, Reject(r, t) \/ FinishTask(r, t)
      PROVE  \/ UNCHANGED answer
             \/ \E s \in Outcomes : CompleteTask(r, t, s) /\ (s = "executed" => executed[r])
  BY <1>5 DEF Reject, FinishTask, Outcomes, taskVars
<1> QED BY <1>1, <1>2, <1>4, <1>5

LEMMA NextSuccessIsMined ==
    TypeOK /\ EarnedInv /\ SuccessIsMined /\ [Next]_vars => SuccessIsMined'
<1> SUFFICES ASSUME TypeOK, EarnedInv, SuccessIsMined, [Next]_vars PROVE SuccessIsMined'
  OBVIOUS
<1>1. \A q \in Runs : tx[q] = "mined" => tx'[q] = "mined"
  BY MinedStays
<1>2. \A r \in Runs : executed[r] => tx[r] = "mined"
  BY DEF EarnedInv
<1>3. \A w \in Writings : w.as = "executed" => w.by \in Runs
  BY DEF Writings, Unwritten
<1>4. ASSUME NEW t \in Tasks, result'[t].as = "executed" PROVE tx'[result'[t].by] = "mined"
  <2>1. CASE result'[t] = result[t]
    BY <1>1, <1>3, <1>4, <2>1 DEF SuccessIsMined, TypeOK
  <2>2. CASE \E r \in Runs : executed[r] /\ result'[t].by = r
    BY <1>1, <1>2, <2>2
  <2>3. ASSUME NEW r \in Runs, NEW u \in Tasks, NEW s \in Outcomes,
               Holds(r, u), CompleteRow(r, u, s), s = "executed" => executed[r]
        PROVE  result'[t] = result[t] \/ (executed[r] /\ result'[t].by = r)
    <3>1. result' = [result EXCEPT ![u] = [by |-> r, as |-> s]]
      BY <2>3 DEF CompleteRow
    <3> QED BY <1>4, <2>3, <3>1, WritingsFact DEF TypeOK
  <2>4. \/ UNCHANGED result
        \/ \E r \in Runs, u \in Tasks, s \in Outcomes :
             Holds(r, u) /\ CompleteRow(r, u, s) /\ (s = "executed" => executed[r])
    BY StepOfRows DEF RowStep, Claim, Tick
  <2> QED BY <2>1, <2>2, <2>3, <2>4
<1>5. ASSUME NEW c \in OwnerChats, answer'[c].as = "executed" PROVE tx'[answer'[c].by] = "mined"
  <2>1. CASE answer'[c] = answer[c]
    BY <1>1, <1>3, <1>5, <2>1 DEF SuccessIsMined, TypeOK
  <2>2. CASE \E r \in Runs : executed[r] /\ answer'[c].by = r
    BY <1>1, <1>2, <2>2
  <2> QED BY <1>5, <2>1, <2>2, AnswerStep
<1>6. ASSUME NEW r \in Runs, receipt'[r] = "confirmed" PROVE tx'[r] = "mined"
  BY <1>1, <1>6, ConfirmedStep DEF SuccessIsMined
<1> QED BY <1>4, <1>5, <1>6 DEF SuccessIsMined

\* No task result, assistant message or receipt ever reports a success the
\* chain did not execute ("Never report success without a confirmed
\* receipt"), whatever the timing, the crashes and the lost answers.
THEOREM SuccessCorrect == Spec => []SuccessIsMined
<1>1. Init => EarnedInv /\ SuccessIsMined
  BY WritingsFact DEF Init, EarnedInv, SuccessIsMined, BeforeSend
<1>2. TypeOK /\ EarnedInv /\ [Next]_vars => EarnedInv'
  BY NextEarnedInv
<1>3. TypeOK /\ EarnedInv /\ SuccessIsMined /\ [Next]_vars => SuccessIsMined'
  BY NextSuccessIsMined
<1> QED BY <1>1, <1>2, <1>3, TypeCorrect, PTL DEF Spec

-----------------------------------------------------------------------------
(* The rows implement the durable queue *)

LEMMA InitQueue == Init => Queue!Init
BY WritingsFact DEF Init, Queue!Init, Engaged

LEMMA StepQueue == TypeOK /\ LeaseIInv /\ [Next]_vars => [Queue!Next]_(Queue!vars)
<1> SUFFICES ASSUME TypeOK, LeaseIInv, [Next]_vars PROVE [Queue!Next]_(Queue!vars)
  OBVIOUS
<1> USE DEF TypeOK, Queue!Next
<1>1. CASE UNCHANGED <<status, lease, left, result>> /\
           (Engaged' = Engaged \/ \E h \in Runs \ Engaged : Engaged' = Engaged \cup {h})
  BY <1>1 DEF Queue!vars, Queue!Retire, Engaged
<1>2. ASSUME NEW t \in Tasks, status[t] = "absent", status' = [status EXCEPT ![t] = "pending"],
             UNCHANGED <<lease, left, result, Engaged>>
      PROVE  Queue!Next
  BY <1>2 DEF Queue!Submit
<1>3. ASSUME NEW r \in Runs, Claim(r) PROVE Queue!Next
  <2>1. r \notin Engaged /\ Engaged' = Engaged \cup {r}
    BY <1>3 DEF Claim, Goto, Engaged
  <2>2. {t \in Tasks : left'[t] = Expired}
          = {t \in Tasks : left[t] = Expired} \ {t \in Tasks : Claimable(r, t)}
    BY <1>3 DEF Claim, Expired
  <2>3. {t \in Tasks : Claimable(r, t)} \subseteq Queue!Available
    BY DEF Queue!Available, Claimable
  <2>4. PICK taken \in SUBSET Tasks : taken = {t \in Tasks : Claimable(r, t)}
    OBVIOUS
  <2>5. Queue!Claim(r, taken)
    BY <1>3, <2>1, <2>2, <2>3, <2>4 DEF Claim, Queue!Claim
  <2> QED BY <2>5
<1>4. ASSUME NEW r \in Runs, NEW t \in Tasks, NEW s \in Outcomes,
             Holds(r, t), CompleteRow(r, t, s), UNCHANGED Engaged
      PROVE  Queue!Next
  <2>1. [u \in Tasks |-> result'[u].by] = [[u \in Tasks |-> result[u].by] EXCEPT ![t] = lease[t]]
    <3>1. result' = [result EXCEPT ![t] = [by |-> r, as |-> s]] /\ lease[t] = r
      BY <1>4 DEF Holds, CompleteRow
    <3>2. \A u \in Tasks : result'[u].by = IF u = t THEN r ELSE result[u].by
      BY <3>1, WritingsFact
    <3> QED BY <3>1, <3>2
  <2>2. {u \in Tasks : left'[u] = Expired} = {u \in Tasks : left[u] = Expired} \cup {t}
    BY <1>4 DEF CompleteRow, Expired
  <2>3. status[t] = "processing" /\ lease' = [lease EXCEPT ![t] = None]
    BY <1>4 DEF Holds, CompleteRow
  <2>4. \E end \in {"completed", "failed"} : status' = [status EXCEPT ![t] = end]
    BY <1>4 DEF CompleteRow
  <2> QED BY <1>4, <2>1, <2>2, <2>3, <2>4 DEF Queue!Close
<1>5. CASE Tick
  <2>1. {t \in Tasks : left[t] = Expired} \subseteq {t \in Tasks : left'[t] = Expired}
    BY <1>5 DEF Tick, Sooner
  <2>2. Engaged' = Engaged
    BY <1>5 DEF Tick, Engaged
  <2>3. Queue!Lapse
    BY <1>5, <2>1, <2>2 DEF Tick, Queue!Lapse
  <2> QED BY <2>3
<1>6. RowStep
  BY StepOfRows
<1>7. CASE \E t \in Tasks : status[t] = "absent" /\ status' = [status EXCEPT ![t] = "pending"]
                          /\ UNCHANGED <<lease, left, result, Engaged>>
  BY <1>2, <1>7
<1>8. CASE /\ \E r \in Runs, t \in Tasks, s \in Outcomes :
                Holds(r, t) /\ CompleteRow(r, t, s) /\ (s = "executed" => executed[r])
           /\ UNCHANGED Engaged
  BY <1>4, <1>8
<1>9. CASE \E r \in Runs : Claim(r)
  BY <1>3, <1>9
<1> QED BY <1>1, <1>5, <1>6, <1>7, <1>8, <1>9 DEF RowStep

\* The task table implements the durable queue, whatever the calls do: one
\* holder at a time, takeover only after the lease has run out, completion by
\* the last holder alone and for good.
THEOREM QueueCorrect == Spec => QueueSpec
<1>1. Init => LeaseIInv
  BY DEF Init, LeaseIInv, LeaseNamesRun, DirectNeverClaims
<1>2. TypeOK /\ LeaseIInv /\ [Next]_vars => LeaseIInv'
  BY NextLeaseIInv
<1>3. TypeOK /\ LeaseIInv /\ [Next]_vars => [Queue!Next]_(Queue!vars)
  BY StepQueue
<1> QED BY <1>1, <1>2, <1>3, InitQueue, TypeCorrect, PTL DEF Spec, QueueSpec, Queue!Spec

-----------------------------------------------------------------------------
(* What the locks guarantee when no call outlives its lock *)

USE AlignedAssumption

\* A call that is running, or in the critical section, is covered by its lock.
Covered ==
    \A r \in Runs : /\ Live(r) => lock[LockId(r)] >= 0
                    /\ pc[r] \in Critical => lock[Mutex] >= 0

TimingInv == Covered /\ AgentExclusion /\ SubmitExclusion

LEMMA TimelyIsNext == TimelyNext => Next
BY DEF TimelyNext, Next

LEMMA NextTimingInv == TypeOK /\ TimingInv /\ [TimelyNext]_vars => TimingInv'
<1> SUFFICES ASSUME TypeOK, TimingInv, [TimelyNext]_vars PROVE TimingInv'
  OBVIOUS
<1> USE DEF TypeOK, TimingInv, Covered, AgentExclusion, SubmitExclusion, Live, Goto
<1> USE LocksFact
<1>1. CASE UNCHANGED vars \/ \E t \in Tasks : Enqueue(t)
  BY <1>1 DEF vars, Enqueue
<1>2. CASE InTime /\ Tick
  <2>1. \A l \in Locks : lock[l] > 0 => lock'[l] >= 0
    BY <1>2 DEF Tick, Sooner, Expired
  <2>2. pc' = pc
    BY <1>2 DEF Tick
  <2>3. Covered'
    BY <1>2, <2>1, <2>2 DEF InTime
  <2> QED BY <2>2, <2>3
<1>3. ASSUME NEW r \in Runs, Start(r) PROVE TimingInv'
  <2>1. /\ lock[LockId(r)] = Expired
        /\ lock' = [lock EXCEPT ![LockId(r)] = IF r \in Direct THEN ChatTtl ELSE LockTtl]
        /\ pc' = [pc EXCEPT ![r] = IF r \in Direct THEN "plan" ELSE "claim"]
        /\ pc[r] = "idle"
    BY <1>3 DEF Start, TryLock
  <2>2. \A q \in Runs : Live(q) => LockId(q) # LockId(r)
    BY <2>1 DEF Expired
  <2>3. lock'[Mutex] = lock[Mutex] /\ lock'[LockId(r)] >= 0
    BY <2>1
  <2>4. \A q \in Runs : q # r => pc'[q] = pc[q]
    BY <2>1
  <2>5. pc'[r] \in Body /\ pc'[r] \notin Critical
    BY <2>1 DEF Body, Critical
  <2>6. Covered'
    <3>1. ASSUME NEW q \in Runs, pc'[q] \in Body PROVE lock'[LockId(q)] >= 0
      <4>1. CASE q = r
        BY <2>3, <4>1
      <4>2. CASE q # r
        BY <2>1, <2>2, <2>4, <3>1, <4>2
      <4> QED BY <4>1, <4>2
    <3>2. ASSUME NEW q \in Runs, pc'[q] \in Critical PROVE lock'[Mutex] >= 0
      BY <2>3, <2>4, <2>5, <3>2
    <3> QED BY <3>1, <3>2
  <2>7. AgentExclusion' /\ SubmitExclusion'
    BY <2>2, <2>4, <2>5
  <2> QED BY <2>6, <2>7
<1>4. ASSUME NEW r \in Runs, TakeMutex(r) PROVE TimingInv'
  <2>1. /\ lock[Mutex] = Expired /\ lock' = [lock EXCEPT ![Mutex] = MutexTtl]
        /\ \E place \in {"locked", "catch"} : pc' = [pc EXCEPT ![r] = place]
        /\ pc[r] = "mutex"
    BY <1>4 DEF TakeMutex, TryLock
  <2>2. \A q \in Runs : pc[q] \notin Critical
    BY <2>1 DEF Expired
  <2>3. pc[r] \in Body /\ pc'[r] \in Body
    BY <2>1 DEF Body, Critical
  <2>4. Covered'
    BY <2>1, <2>2, <2>3
  <2>5. AgentExclusion' /\ SubmitExclusion'
    BY <2>1, <2>2, <2>3
  <2> QED BY <2>4, <2>5
<1>5. ASSUME NEW r \in Runs, ReleaseMutex(r) \/ ReleaseFails(r) PROVE TimingInv'
  <2>1. /\ lock' = [lock EXCEPT ![Mutex] = Expired] \/ lock' = lock
        /\ pc[r] \in {"release", "abort"}
        /\ \E p \in {"complete", "catch"} : pc' = [pc EXCEPT ![r] = p]
    BY <1>5 DEF ReleaseMutex, ReleaseFails, Unlock
  <2>2. \A q \in Runs : q # r => pc[q] \notin Critical
    BY <2>1 DEF Critical
  <2>3. pc[r] \in Body /\ pc'[r] \in Body /\ pc'[r] \notin Critical
    BY <2>1 DEF Body, Critical
  <2>4. \A q \in Runs : q # r => pc'[q] = pc[q]
    BY <2>1
  <2>5. \A q \in Runs : lock'[LockId(q)] = lock[LockId(q)]
    BY <2>1
  <2> QED BY <2>2, <2>3, <2>4, <2>5
<1>6. ASSUME NEW r \in Runs, Finally(r) PROVE TimingInv'
  <2>1. /\ lock' = [lock EXCEPT ![LockId(r)] = Expired] \/ lock' = lock
        /\ pc' = [pc EXCEPT ![r] = "done"]
        /\ pc[r] = "finally"
    BY <1>6 DEF Finally, Unlock, End
  <2>2. pc[r] \in Body /\ pc'[r] \notin Body /\ pc'[r] \notin Critical
    BY <2>1 DEF Body, Critical
  <2>3. \A q \in Runs : q # r => pc'[q] = pc[q]
    BY <2>1
  <2>4. \A q \in Runs : q # r /\ pc[q] \in Body => lock'[LockId(q)] = lock[LockId(q)]
    BY <2>1, <2>2
  <2>5. lock'[Mutex] = lock[Mutex]
    BY <2>1
  <2> QED BY <2>2, <2>3, <2>4, <2>5
<1>7. ASSUME NEW r \in Runs, NEW p \in Places, UNCHANGED lock, Goto(r, p),
             p \in Body => pc[r] \in Body, p \in Critical => pc[r] \in Critical
      PROVE  TimingInv'
  BY <1>7
<1>8. ASSUME NEW r \in Runs, UNCHANGED <<lock, pc>> PROVE TimingInv'
  BY <1>8
<1>9. ASSUME NEW r \in Runs,
             \/ StartLocked(r) \/ Crash(r) \/ Claim(r) \/ SelectTasks(r) \/ ReturnEarly(r)
             \/ AnswerBalance(r) \/ WaitingProvider(r) \/ PlanNothing(r) \/ PlanCalls(r)
             \/ MutexBusy(r) \/ Simulate(r) \/ SimulationFails(r) \/ Send(r) \/ Confirm(r)
             \/ Reverted(r) \/ FinishDirect(r) \/ FinishRun(r) \/ Throw(r)
             \/ CatchReceipts(r) \/ AnswerFailure(r)
      PROVE  TimingInv'
  <2>1. lock' = lock
    BY <1>9 DEF StartLocked, Crash, Claim, SelectTasks, ReturnEarly, AnswerBalance,
       WaitingProvider, PlanNothing, PlanCalls, MutexBusy, Simulate, SimulationFails, Send,
       Confirm, Reverted, FinishDirect, FinishRun, Throw, CatchReceipts,
       AnswerFailure
  <2> HIDE DEF Goto
  <2>2. \E p \in Places : /\ Goto(r, p)
                          /\ p \in Body => pc[r] \in Body
                          /\ p \in Critical => pc[r] \in Critical
    BY <1>9 DEF StartLocked, Crash, End, Claim, SelectTasks, ReturnEarly, AnswerBalance,
       WaitingProvider, PlanNothing, PlanCalls, MutexBusy, Simulate, SimulationFails, Send,
       Confirm, Reverted, FinishDirect, FinishRun, Throw, CatchReceipts,
       AnswerFailure, Places, Body, Critical
  <2> QED BY <1>7, <2>1, <2>2
<1>10. ASSUME NEW r \in Runs, NEW t \in Tasks, Reject(r, t) \/ FinishTask(r, t) \/ SendMessage(r, t)
       PROVE  TimingInv'
  <2>1. lock' = lock
    BY <1>10 DEF Reject, FinishTask, SendMessage
  <2>2. pc' = pc \/ (pc[r] = "complete" /\ Goto(r, "catch"))
    BY <1>10 DEF Reject, FinishTask, SendMessage
  <2>3. "complete" \in Body /\ "catch" \notin Critical /\ "catch" \in Places
    BY DEF Body, Critical, Places
  <2> QED BY <1>7, <1>8, <2>1, <2>2, <2>3
<1>11. ASSUME NEW r \in Runs, Mine(r) PROVE TimingInv'
  BY <1>8, <1>11 DEF Mine
<1> QED BY <1>1, <1>2, <1>3, <1>4, <1>5, <1>6, <1>9, <1>10, <1>11 DEF TimelyNext, Cycle

LEMMA TimelyTypeOK == TimelySpec => []TypeOK
BY InitTypeOK, NextTypeOK, TimelyIsNext, PTL DEF TimelySpec

LEMMA TimelyTimingInv == TimelySpec => []TimingInv
<1>1. Init => TimingInv
  BY DEF Init, TimingInv, Covered, AgentExclusion, SubmitExclusion, Live, Body, Critical
<1> QED BY <1>1, NextTimingInv, TimelyTypeOK, PTL DEF TimelySpec

\* When no call outlives its locks, two cycles of one agent never run at once
\* (and two direct chats with it neither), whatever crashes in between.
THEOREM AgentsExclusive == TimelySpec => []AgentExclusion
<1>1. TimingInv => AgentExclusion
  BY DEF TimingInv
<1> QED BY <1>1, TimelyTimingInv, PTL

\* When no call outlives its locks, at most one call, of any agent, is between
\* the last validation and the receipt of its transaction.
THEOREM SubmitsExclusive == TimelySpec => []SubmitExclusion
<1>1. TimingInv => SubmitExclusion
  BY DEF TimingInv
<1> QED BY <1>1, TimelyTimingInv, PTL

-----------------------------------------------------------------------------
(* Leases outlast the locks they are claimed under *)

\* A task that is not closed has no result.
OpenIsUnwritten == \A t \in Tasks : status[t] \notin Terminal => result[t] = Unwritten

LEMMA NextOpenIsUnwritten ==
    ASSUME TypeOK, OpenIsUnwritten, [TimelyNext]_vars
    PROVE  OpenIsUnwritten'
<1> USE DEF TypeOK, OpenIsUnwritten
<1>1. CASE UNCHANGED <<status, lease, left, result>>
  BY <1>1
<1>2. ASSUME NEW t \in Tasks, status[t] = "absent", status' = [status EXCEPT ![t] = "pending"],
             UNCHANGED <<lease, left, result>>
      PROVE  OpenIsUnwritten'
  BY <1>2 DEF Terminal
<1>3. ASSUME NEW r \in Runs, Claim(r) PROVE OpenIsUnwritten'
  BY <1>3 DEF Claim, Claimable, Terminal
<1>4. ASSUME NEW r \in Runs, NEW t \in Tasks, NEW s \in Outcomes, Holds(r, t), CompleteRow(r, t, s)
      PROVE  OpenIsUnwritten'
  BY <1>4 DEF CompleteRow, Terminal
<1>5. CASE Tick
  BY <1>5 DEF Tick
<1> QED BY <1>1, <1>2, <1>3, <1>4, <1>5, StepOfRows, TimelyIsNext DEF RowStep

\* The tasks of a call are leased to it for longer than its lock; there are
\* none before its claim, and a direct chat has none at all.
LeaseTimeInv ==
    /\ \A a \in Agents : lock[<<"cycle", a>>] <= LockTtl
    /\ \A r \in Runs : pc[r] \in {"idle", "claim"} \/ r \in Direct => todo[r] = {}
    /\ OpenIsUnwritten
    /\ LeaseKept

\* A task is taken from a call only by that call's own completion.
LEMMA KeptRows ==
    ASSUME TypeOK, Covered, [TimelyNext]_vars, NEW r \in Runs, NEW t \in Tasks, Live(r),
           Holds(r, t), left[t] >= lock[LockId(r)], status'[t] = "processing"
    PROVE  /\ Holds(r, t)'
           /\ left'[t] = left[t] \/ Tick
<1> USE DEF TypeOK
<1>0. Holds(r, t) /\ left[t] >= lock[LockId(r)] /\ lock[LockId(r)] >= 0
  BY DEF Covered
<1>1. RowStep
  BY StepOfRows, TimelyIsNext
<1>2. CASE UNCHANGED <<status, lease, left, result>>
  BY <1>0, <1>2 DEF Holds
<1>3. ASSUME NEW u \in Tasks, status[u] = "absent", status' = [status EXCEPT ![u] = "pending"],
             UNCHANGED <<lease, left, result>>
      PROVE Holds(r, t)' /\ left'[t] = left[t]
  BY <1>0, <1>3 DEF Holds
<1>4. ASSUME NEW q \in Runs, Claim(q) PROVE Holds(r, t)' /\ left'[t] = left[t]
  <2>1. ~Claimable(q, t)
    BY <1>0, LocksFact DEF Claimable, Holds, Expired
  <2> QED BY <1>0, <1>4, <2>1 DEF Claim, Holds
<1>5. ASSUME NEW q \in Runs, NEW u \in Tasks, NEW s \in Outcomes, Holds(q, u), CompleteRow(q, u, s)
      PROVE  Holds(r, t)' /\ left'[t] = left[t]
  <2>1. u # t
    BY <1>0, <1>5 DEF CompleteRow
  <2> QED BY <1>0, <1>5, <2>1 DEF Holds, CompleteRow
<1>6. CASE Tick
  BY <1>0, <1>6 DEF Tick, Holds
<1> QED BY <1>1, <1>2, <1>3, <1>4, <1>5, <1>6 DEF RowStep

\* Outside Claim, a call's tasks only become fewer, and it was already past
\* its claim.
LEMMA TodoStep ==
    ASSUME TypeOK, LeaseTimeInv, [TimelyNext]_vars, NEW r \in Runs, ~Claim(r),
           NEW t \in todo'[r], Live(r)', pc'[r] # "finally"
    PROVE  t \in todo[r] /\ Live(r) /\ pc[r] # "finally"
<1> USE DEF TypeOK, Live, Goto
<1>1. CASE UNCHANGED <<pc, todo>>
  BY <1>1
<1>2. CASE Start(r) \/ StartLocked(r)
  BY <1>2 DEF Start, StartLocked, LeaseTimeInv, runVars
<1>3. CASE Crash(r) \/ Finally(r)
  BY <1>3 DEF Crash, Finally, End, Body, Critical
<1>4. CASE \/ SelectTasks(r) \/ AnswerBalance(r)
           \/ \E u \in Tasks : Reject(r, u) \/ FinishTask(r, u) \/ SendMessage(r, u)
  BY <1>4 DEF SelectTasks, AnswerBalance, Reject, FinishTask, SendMessage, runVars, Body
<1>5. CASE \/ ReturnEarly(r) \/ WaitingProvider(r) \/ PlanNothing(r) \/ PlanCalls(r) \/ TakeMutex(r)
           \/ MutexBusy(r) \/ Simulate(r) \/ SimulationFails(r) \/ Send(r) \/ Confirm(r)
           \/ Reverted(r) \/ ReleaseMutex(r) \/ ReleaseFails(r) \/ FinishDirect(r) \/ FinishRun(r)
           \/ Throw(r) \/ CatchReceipts(r) \/ AnswerFailure(r)
  BY <1>5 DEF ReturnEarly, WaitingProvider, PlanNothing, PlanCalls, TakeMutex, MutexBusy,
     Simulate, SimulationFails, Send, Confirm, Reverted, ReleaseMutex, ReleaseFails, FinishDirect,
     FinishRun, Throw, CatchReceipts, AnswerFailure, runVars, Body, Critical
<1>6. ASSUME NEW q \in Runs, q # r, Cycle(q) \/ Crash(q)
      PROVE  todo'[r] = todo[r] /\ pc'[r] = pc[r]
  BY <1>6 DEF Cycle, Crash, Start, StartLocked, Claim, Finally, End, SelectTasks, AnswerBalance, Reject,
     FinishTask, SendMessage, ReturnEarly, WaitingProvider, PlanNothing, PlanCalls, TakeMutex,
     MutexBusy, Simulate, SimulationFails, Send, Confirm, Reverted, ReleaseMutex, ReleaseFails,
     FinishDirect, FinishRun, Throw, CatchReceipts, AnswerFailure, runVars
<1>7. ASSUME NEW q \in Runs, Mine(q) PROVE UNCHANGED <<pc, todo>>
  BY <1>7 DEF Mine
<1>8. (Tick \/ (\E u \in Tasks : Enqueue(u)) \/ UNCHANGED vars) => UNCHANGED <<pc, todo>>
  BY DEF Tick, Enqueue, vars, runVars
<1>9. ASSUME Cycle(r) \/ Crash(r) PROVE t \in todo[r] /\ Live(r) /\ pc[r] # "finally"
  BY <1>2, <1>3, <1>4, <1>5, <1>9 DEF Cycle
<1> QED BY <1>1, <1>6, <1>7, <1>8, <1>9 DEF TimelyNext

\* A call that goes on after a step has not closed the tasks it still has,
\* unless it is now in its catch block.
LEMMA StillProcessing ==
    ASSUME TypeOK, LeaseTimeInv, [TimelyNext]_vars, NEW r \in Runs, ~Claim(r),
           NEW t \in todo'[r], Live(r)', pc'[r] # "finally", Holds(r, t)
    PROVE  \/ status'[t] = "processing"
           \/ result'[t].by = r /\ pc'[r] = "catch"
<1> USE DEF TypeOK, Goto
<1>1. t \in Tasks /\ Holds(r, t)
  BY TodoStep
<1>2. ASSUME NEW q \in Runs, NEW u \in Tasks, NEW s \in Outcomes, CompleteTask(q, u, s), u # t \/ q # r
      PROVE  status'[t] = "processing"
  BY <1>1, <1>2 DEF CompleteTask, CompleteRow, Holds
<1>3. ASSUME NEW q \in Runs, NEW u \in Tasks, Reject(q, u) PROVE status'[t] = "processing"
  <2>1. u # t \/ q # r
    BY <1>3 DEF Reject
  <2> QED BY <1>1, <1>2, <1>3, <2>1 DEF Reject, Outcomes, taskVars, Holds
<1>4. ASSUME NEW q \in Runs, NEW u \in Tasks, FinishTask(q, u)
      PROVE  \/ status'[t] = "processing"
             \/ result'[t].by = r /\ pc'[r] = "catch"
  <2>1. CASE u = t /\ q = r
    BY <1>1, <1>4, <2>1 DEF FinishTask, CompleteTask, CompleteRow
  <2>2. CASE u # t \/ q # r
    BY <1>2, <1>4, <2>2 DEF FinishTask, Outcomes
  <2> QED BY <2>1, <2>2
<1>5. ASSUME NEW q \in Runs, AnswerBalance(q)
      PROVE  \/ status'[t] = "processing"
             \/ result'[t].by = r /\ pc'[r] = "catch"
  <2>1. CASE q = r
    BY <1>1, <1>5, <2>1 DEF AnswerBalance, taskVars, Holds, CompleteTask, CompleteRow
  <2>2. CASE q # r
    BY <1>1, <1>2, <1>5, <2>2 DEF AnswerBalance, taskVars, Holds, Outcomes
  <2> QED BY <2>1, <2>2
<1>6. ASSUME NEW q \in Runs, WaitingProvider(q) \/ AnswerFailure(q) PROVE status'[t] = "processing"
  <2>1. q # r
    BY <1>6 DEF WaitingProvider, AnswerFailure
  <2> QED BY <1>1, <1>2, <1>6, <2>1 DEF WaitingProvider, AnswerFailure, taskVars, Holds, Outcomes
<1>7. ASSUME NEW q \in Runs, Claim(q) PROVE status'[t] = "processing"
  BY <1>1, <1>7 DEF Claim, Holds
<1>8. ASSUME NEW q \in Runs, NEW u \in Tasks, SendMessage(q, u) \/ Enqueue(u)
      PROVE  status'[t] = "processing"
  BY <1>1, <1>8 DEF SendMessage, Enqueue, Holds
<1>9. CASE UNCHANGED status
  BY <1>1, <1>9 DEF Holds
<1>10. \/ UNCHANGED status
       \/ \E q \in Runs : \/ AnswerBalance(q) \/ WaitingProvider(q) \/ AnswerFailure(q) \/ Claim(q)
                         \/ \E u \in Tasks : Reject(q, u) \/ FinishTask(q, u) \/ SendMessage(q, u)
       \/ \E u \in Tasks : Enqueue(u)
  BY DEF TimelyNext, Cycle, Crash, Mine, Tick, vars, Start, StartLocked, Finally, SelectTasks,
     ReturnEarly, PlanNothing, PlanCalls, TakeMutex, taskVars,
     MutexBusy, Simulate, SimulationFails, Send, Confirm, Reverted, ReleaseMutex, ReleaseFails,
     FinishDirect, FinishRun, Throw, CatchReceipts
<1>11. \E u \in Tasks : TRUE
  BY <1>1
<1> QED BY <1>3, <1>4, <1>5, <1>6, <1>7, <1>8, <1>9, <1>10, <1>11

\* A lock that is held is not extended: it is released, or runs down.
LEMMA LockStep ==
    ASSUME TypeOK, [TimelyNext]_vars, NEW l \in Locks \ {Mutex}, lock[l] >= 0
    PROVE  \/ Tick
           \/ lock'[l] = lock[l] \/ lock'[l] = Expired
<1> USE DEF TypeOK
<1>1. \/ UNCHANGED lock \/ Tick
      \/ \E r \in Runs : \/ Start(r) \/ TakeMutex(r) \/ ReleaseMutex(r) \/ ReleaseFails(r)
                        \/ Finally(r)
  BY DEF TimelyNext, Cycle, Crash, Mine, Enqueue, vars, StartLocked, Claim, SelectTasks, Reject, FinishTask,
     SendMessage, ReturnEarly, AnswerBalance, WaitingProvider, PlanNothing, PlanCalls,
     MutexBusy, Simulate, SimulationFails, Send, Confirm, Reverted,
     FinishDirect, FinishRun, Throw, CatchReceipts, AnswerFailure
<1>2. ASSUME NEW r \in Runs, Start(r) PROVE lock'[l] = lock[l]
  BY <1>2, LocksFact DEF Start, TryLock, Expired
<1>3. ASSUME NEW r \in Runs, TakeMutex(r) \/ ReleaseMutex(r) \/ ReleaseFails(r)
      PROVE  lock'[l] = lock[l]
  BY <1>3, LocksFact DEF TakeMutex, ReleaseMutex, ReleaseFails, TryLock, Unlock
<1>4. ASSUME NEW r \in Runs, Finally(r) PROVE lock'[l] = lock[l] \/ lock'[l] = Expired
  BY <1>4, LocksFact DEF Finally, Unlock
<1> QED BY <1>1, <1>2, <1>3, <1>4

\* Nothing but the end follows the catch block.
LEMMA CatchStep ==
    ASSUME TypeOK, [TimelyNext]_vars, NEW r \in Runs, pc[r] \in {"catch", "answer"},
           Live(r)', pc'[r] # "finally"
    PROVE  ~Claim(r) /\ pc'[r] \in {"catch", "answer"}
<1> USE DEF TypeOK, Live, Goto
<1>1. CASE UNCHANGED pc
  BY <1>1 DEF Claim
<1>2. ASSUME NEW q \in Runs, q # r, Cycle(q) \/ Crash(q) PROVE pc'[r] = pc[r]
  BY <1>2 DEF Cycle, Crash, Start, StartLocked, Claim, Finally, End, SelectTasks, AnswerBalance, Reject,
     FinishTask, SendMessage, ReturnEarly, WaitingProvider, PlanNothing, PlanCalls, TakeMutex,
     MutexBusy, Simulate, SimulationFails, Send, Confirm, Reverted, ReleaseMutex, ReleaseFails,
     FinishDirect, FinishRun, Throw, CatchReceipts, AnswerFailure
<1>3. ASSUME Cycle(r) \/ Crash(r) PROVE pc'[r] \in {"catch", "answer"}
  BY <1>3 DEF Cycle, Crash, Start, StartLocked, Claim, Finally, End, SelectTasks, AnswerBalance, Reject,
     FinishTask, SendMessage, ReturnEarly, WaitingProvider, PlanNothing, PlanCalls, TakeMutex,
     MutexBusy, Simulate, SimulationFails, Send, Confirm, Reverted, ReleaseMutex, ReleaseFails,
     FinishDirect, FinishRun, Throw, CatchReceipts, AnswerFailure, Body, Critical
<1>4. ~Claim(r)
  BY DEF Claim
<1>5. (Tick \/ (\E u \in Tasks : Enqueue(u)) \/ (\E q \in Runs : Mine(q)) \/ UNCHANGED vars)
      => UNCHANGED pc
  BY DEF Tick, Enqueue, Mine, vars
<1> QED BY <1>1, <1>2, <1>3, <1>4, <1>5 DEF TimelyNext

\* A closed row is never written again.
LEMMA ClosedStays ==
    ASSUME TypeOK, OpenIsUnwritten, [TimelyNext]_vars, NEW t \in Tasks, result[t].by \in Runs
    PROVE  result'[t] = result[t]
<1>1. status[t] \in Terminal
  BY DEF OpenIsUnwritten, Unwritten
<1>2. RowStep
  BY StepOfRows, TimelyIsNext
<1> QED BY <1>1, <1>2 DEF RowStep, Claim, Tick, Holds, CompleteRow, Terminal, TypeOK

LEMMA TodoShrinks ==
    ASSUME TypeOK, [TimelyNext]_vars, NEW r \in Runs, ~Claim(r)
    PROVE  todo'[r] \subseteq todo[r]
<1> USE DEF TypeOK
<1>1. \/ UNCHANGED todo
      \/ \E q \in Runs : \/ Claim(q) \/ SelectTasks(q) \/ AnswerBalance(q) \/ Crash(q) \/ Finally(q)
                        \/ \E t \in Tasks : Reject(q, t) \/ FinishTask(q, t)
  BY DEF TimelyNext, Cycle, Mine, Tick, Enqueue, vars, runVars, Start, StartLocked,
     ReturnEarly, WaitingProvider, PlanNothing, PlanCalls, TakeMutex,
     MutexBusy, Simulate, SimulationFails, Send, Confirm, Reverted, ReleaseMutex, ReleaseFails,
     FinishDirect, FinishRun, Throw, CatchReceipts, AnswerFailure, SendMessage
<1>2. ASSUME NEW q \in Runs, Claim(q) PROVE todo'[r] \subseteq todo[r]
  BY <1>2 DEF Claim
<1>3. ASSUME NEW q \in Runs, \/ SelectTasks(q) \/ AnswerBalance(q) \/ Crash(q) \/ Finally(q)
                            \/ \E t \in Tasks : Reject(q, t) \/ FinishTask(q, t)
      PROVE  todo'[r] \subseteq todo[r]
  BY <1>3 DEF SelectTasks, AnswerBalance, Crash, Finally, End, Reject, FinishTask
<1> QED BY <1>1, <1>2, <1>3

LEMMA CycleLock ==
    ASSUME TypeOK, [TimelyNext]_vars, NEW l \in Locks \ {Mutex},
           \A r \in Direct : LockId(r) # l, lock[l] <= LockTtl
    PROVE  lock'[l] <= LockTtl
<1> USE DEF TypeOK
<1>1. \/ UNCHANGED lock \/ Tick
      \/ \E r \in Runs : \/ Start(r) \/ TakeMutex(r) \/ ReleaseMutex(r) \/ ReleaseFails(r)
                        \/ Finally(r)
  BY DEF TimelyNext, Cycle, Crash, Mine, Enqueue, vars, StartLocked, Claim, SelectTasks, Reject,
     FinishTask, SendMessage, ReturnEarly, AnswerBalance, WaitingProvider, PlanNothing,
     PlanCalls, MutexBusy, Simulate, SimulationFails, Send, Confirm, Reverted,
     FinishDirect, FinishRun, Throw, CatchReceipts, AnswerFailure
<1>2. ASSUME NEW r \in Runs, Start(r) PROVE lock'[l] <= LockTtl
  BY <1>2, LocksFact DEF Start, TryLock
<1>3. ASSUME NEW r \in Runs, TakeMutex(r) \/ ReleaseMutex(r) \/ ReleaseFails(r) \/ Finally(r)
      PROVE  lock'[l] <= LockTtl
  BY <1>3, LocksFact DEF TakeMutex, ReleaseMutex, ReleaseFails, Finally, TryLock, Unlock, Expired
<1>4. CASE Tick
  BY <1>4 DEF Tick, Sooner, Expired
<1> QED BY <1>1, <1>2, <1>3, <1>4

LEMMA NextLeaseTimeInv ==
    TypeOK /\ LeaseIInv /\ TimingInv /\ LeaseTimeInv /\ [TimelyNext]_vars => LeaseTimeInv'
<1> SUFFICES ASSUME TypeOK, LeaseIInv, TimingInv, LeaseTimeInv, [TimelyNext]_vars PROVE LeaseTimeInv'
  OBVIOUS
<1> USE DEF TypeOK
<1>1. ASSUME NEW a \in Agents PROVE lock'[<<"cycle", a>>] <= LockTtl
  <2>1. <<"cycle", a>> \in Locks \ {Mutex} /\ lock[<<"cycle", a>>] <= LockTtl
    BY DEF Locks, Mutex, LeaseTimeInv
  <2>2. \A r \in Direct : LockId(r) # <<"cycle", a>>
    BY DEF LockId
  <2> QED BY <2>1, <2>2, CycleLock
<1>2. ASSUME NEW r \in Runs, pc'[r] \in {"idle", "claim"} \/ r \in Direct PROVE todo'[r] = {}
  <2>1. ~Claim(r)
    BY <1>2 DEF Claim, Goto, LeaseIInv, DirectNeverClaims
  <2>2. pc[r] \in {"idle", "claim"} \/ r \in Direct
    BY <1>2, PlacesForward, TimelyIsNext
  <2> QED BY <2>1, <2>2, TodoShrinks DEF LeaseTimeInv
<1>3. ASSUME NEW r \in Runs, NEW t \in todo'[r], Live(r)', pc'[r] # "finally"
      PROVE  \/ Holds(r, t)' /\ left'[t] >= lock'[LockId(r)]
             \/ result'[t].by = r /\ pc'[r] \in {"catch", "answer"}
  <2>1. CASE Claim(r)
    <3>1. r \notin Direct
      BY <2>1 DEF Claim, LeaseIInv, DirectNeverClaims
    <3>2. t \in Tasks /\ Claimable(r, t)
      BY <1>3, <2>1, <3>1 DEF Claim, LeaseTimeInv
    <3>3. Holds(r, t)' /\ left'[t] = LeaseTtl /\ lock' = lock
      BY <2>1, <3>2 DEF Claim, Holds
    <3>4. lock[LockId(r)] <= LockTtl
      BY <3>1 DEF LockId, LeaseTimeInv
    <3>5. lock[LockId(r)] \in Int
      BY LocksFact
    <3> QED BY <3>3, <3>4, <3>5
  <2>2. CASE ~Claim(r)
    <3>1. t \in todo[r] /\ t \in Tasks /\ Live(r) /\ pc[r] # "finally"
      BY <1>3, <2>2, TodoStep
    <3>2. CASE Holds(r, t) /\ left[t] >= lock[LockId(r)] /\ status'[t] = "processing"
      <4>1. Holds(r, t)' /\ (left'[t] = left[t] \/ Tick)
        BY <3>1, <3>2, KeptRows DEF TimingInv
      <4>2. LockId(r) \in Locks \ {Mutex} /\ lock[LockId(r)] >= 0
        BY <3>1, LocksFact DEF TimingInv, Covered
      <4>3. CASE Tick
        BY <3>1, <3>2, <4>1, <4>2, <4>3 DEF Tick, Sooner, Expired
      <4>4. CASE ~Tick
        BY <3>1, <3>2, <4>1, <4>2, <4>4, LockStep DEF Expired
      <4> QED BY <4>1, <4>3, <4>4
    <3>3. CASE Holds(r, t) /\ status'[t] # "processing"
      BY <1>3, <2>2, <3>3, StillProcessing
    <3>4. CASE result[t].by = r /\ pc[r] \in {"catch", "answer"}
      BY <1>3, <3>1, <3>4, CatchStep, ClosedStays DEF LeaseTimeInv
    <3> QED BY <3>1, <3>2, <3>3, <3>4 DEF LeaseTimeInv, LeaseKept
  <2> QED BY <2>1, <2>2
<1>4. OpenIsUnwritten'
  BY NextOpenIsUnwritten DEF LeaseTimeInv
<1> QED BY <1>1, <1>2, <1>3, <1>4 DEF LeaseTimeInv, LeaseKept

LEMMA TimelyLeaseTimeInv == TimelySpec => []LeaseTimeInv
<1>1. Init => LeaseIInv /\ LeaseTimeInv
  BY DEF Init, LeaseIInv, LeaseNamesRun, DirectNeverClaims, LeaseTimeInv, LeaseKept, OpenIsUnwritten,
     Expired, Locks
<1>2. TypeOK /\ LeaseIInv /\ [TimelyNext]_vars => LeaseIInv'
  BY NextLeaseIInv, TimelyIsNext
<1> QED BY <1>1, <1>2, NextLeaseTimeInv, TimelyTypeOK, TimelyTimingInv, PTL DEF TimelySpec

\* When no call outlives its locks, a call never loses a task it has claimed
\* before it completes it: LeaseTtl >= LockTtl is what makes this so.
THEOREM LeasesKept == TimelySpec => []LeaseKept
<1>1. LeaseTimeInv => LeaseKept
  BY DEF LeaseTimeInv
<1> QED BY <1>1, TimelyLeaseTimeInv, PTL

-----------------------------------------------------------------------------
(* Assistant messages and task results *)

\* A step writes results and messages through one completion of a task that
\* its caller still has.
LEMMA WriteStep ==
    ASSUME TypeOK, LeaseTimeInv, AnswerIsResult, [TimelyNext]_vars
    PROVE  \/ UNCHANGED <<result, answer>>
           \/ \E r \in Runs, t \in Tasks, s \in Outcomes : Holds(r, t) /\ CompleteTask(r, t, s)
<1>1. \/ UNCHANGED <<result, answer>>
      \/ \E r \in Runs : \/ AnswerBalance(r) \/ WaitingProvider(r) \/ AnswerFailure(r)
                        \/ \E t \in Tasks : Reject(r, t) \/ FinishTask(r, t)
  BY DEF TimelyNext, Cycle, vars, taskVars, Tick, Enqueue, Crash, Finally, Mine, Start, StartLocked, Claim,
     SelectTasks, ReturnEarly, PlanNothing, PlanCalls, SendMessage, ReleaseMutex, TakeMutex,
     MutexBusy, Simulate, SimulationFails, Send, Confirm, Reverted, ReleaseFails, FinishDirect,
     FinishRun, Throw, CatchReceipts
<1>2. ASSUME NEW r \in Runs, \/ AnswerBalance(r) \/ WaitingProvider(r) \/ AnswerFailure(r)
                            \/ \E t \in Tasks : Reject(r, t) \/ FinishTask(r, t)
      PROVE  \/ UNCHANGED <<result, answer>>
             \/ \E t \in Tasks, s \in Outcomes : Holds(r, t) /\ CompleteTask(r, t, s)
  <2>1. \A t \in todo[r] : t \in Tasks /\ (Holds(r, t) \/ result[t].by = r)
    BY <1>2 DEF LeaseTimeInv, LeaseKept, TypeOK, Live, Body, AnswerBalance, WaitingProvider,
       AnswerFailure, Reject, FinishTask
  <2>2. \/ UNCHANGED <<result, answer>>
        \/ \E t \in todo[r], s \in Outcomes : CompleteTask(r, t, s)
    BY <1>2 DEF AnswerBalance, WaitingProvider, AnswerFailure, Reject, FinishTask, Outcomes, taskVars
  <2>3. ASSUME NEW t \in Tasks, NEW s \in Outcomes, CompleteTask(r, t, s), result[t].by = r, ~Holds(r, t)
        PROVE  UNCHANGED <<result, answer>>
    BY <2>3 DEF CompleteTask, CompleteRow, WriteAnswer, AnswerIsResult, Unwritten
  <2> QED BY <2>1, <2>2, <2>3
<1> QED BY <1>1, <1>2

AnswerInv == AnswerIsResult /\ OpenIsUnwritten

LEMMA NextAnswerInv == TypeOK /\ LeaseTimeInv /\ AnswerInv /\ [TimelyNext]_vars => AnswerInv'
<1> SUFFICES ASSUME TypeOK, LeaseTimeInv, AnswerInv, [TimelyNext]_vars PROVE AnswerInv'
  OBVIOUS
<1> USE DEF TypeOK, AnswerInv, AnswerIsResult, OpenIsUnwritten
<1>1. UNCHANGED <<result, answer>> => AnswerIsResult'
  OBVIOUS
<1>2. ASSUME NEW r \in Runs, NEW t \in Tasks, NEW s \in Outcomes, Holds(r, t), CompleteTask(r, t, s)
      PROVE  AnswerIsResult'
  <2>1. result[t] = Unwritten
    BY <1>2 DEF Holds, Terminal
  <2>2. result' = [result EXCEPT ![t] = [by |-> r, as |-> s]]
    BY <1>2 DEF CompleteTask, CompleteRow
  <2>3. CASE t \in OwnerChats
    <3>1. answer' = [answer EXCEPT ![t] = [by |-> r, as |-> s]]
      BY <1>2, <2>1, <2>3 DEF CompleteTask, WriteAnswer
    <3> QED BY <2>2, <3>1
  <2>4. CASE t \notin OwnerChats
    <3>1. answer' = answer
      BY <1>2, <2>4 DEF CompleteTask, WriteAnswer
    <3> QED BY <2>2, <2>4, <3>1
  <2> QED BY <2>3, <2>4
<1>3. OpenIsUnwritten'
  BY NextOpenIsUnwritten
<1> QED BY <1>1, <1>2, <1>3, WriteStep DEF AnswerInv

\* When no call outlives its locks, an owner chat has an assistant message
\* exactly when its task is closed, and both come from the same completion.
THEOREM AnswersAreResults == TimelySpec => []AnswerIsResult
<1>1. Init => AnswerInv
  BY DEF Init, AnswerInv, AnswerIsResult, OpenIsUnwritten
<1>2. AnswerInv => AnswerIsResult
  BY DEF AnswerInv
<1> QED BY <1>1, <1>2, NextAnswerInv, TimelyTypeOK, TimelyLeaseTimeInv, PTL DEF TimelySpec
=============================================================================
