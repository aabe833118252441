------------------------------- MODULE Scheduler -------------------------------
(***************************************************************************)
(* The background scheduler of agent-runner/src/index.js: every five       *)
(* minutes the cron trigger starts an invocation of the Worker, which      *)
(* wakes the agents and then, whatever came of that, indexes the lending   *)
(* pool's events and takes the hour's snapshot of its reserves in the same *)
(* D1 database.  Nothing keeps an invocation from starting while another   *)
(* one is running, and one may be stopped between any two of its steps.    *)
(* A wake is only what it does to the task queue and the agent's lock, and *)
(* a lease or a lock may lapse at any time: AgentRuntime has the rest.     *)
(***************************************************************************)
EXTENDS Integers, FiniteSets

CONSTANTS
    Invocations,        \* bound: invocations at the same time
    Agents, None,
    Tasks,              \* agent-to-agent tasks, numbered by created_at
    To,                 \* the agent of each task
    TaskLimit,          \* tasks of one claim (20)
    Concurrency,        \* CENTRY_AGENT_RUNNER_CONCURRENCY
    FirstHead,          \* the latest block at the start
    MaxHead,            \* bound: the latest block
    Lookback,           \* ANALYTICS_DEFAULT_LOOKBACK
    MaxBlocks,          \* ANALYTICS_MAX_BLOCKS
    Reserves,           \* length of the pool's reserveList
    MaxFailures         \* bound: invocations stopped

ASSUME SchedulerAssumption ==
    /\ Tasks \subseteq Nat /\ To \in [Tasks -> Agents]
    /\ TaskLimit \in Nat \ {0} /\ Concurrency \in Nat \ {0}
    /\ FirstHead \in Nat /\ MaxHead \in Nat
    /\ MaxFailures \in Nat
    /\ Lookback \in Nat /\ MaxBlocks \in Nat \ {0} /\ Reserves \in Nat
    /\ None \notin Int

VARIABLES
    head,               \* the latest block; every block has an event
    running,            \* the state of each invocation
    (* D1 *)
    status, lease, lapsed,  \* centry_agent_tasks; lease: the invocation that holds it
    locked,             \* the agents with a running lock
    cursor,             \* centry_analytics_indexer_state
    events,             \* centry_protocol_events, as the blocks that are in it
    rows, total,        \* centry_protocol_hourly: one hour's reserves; those its TOTAL adds up
    (* history *)
    since,              \* the first block of the index that the cursor stands for
    failures

taskVars == <<status, lease, lapsed, locked>>
analyticsVars == <<cursor, events, rows, total, since>>
vars == <<head, running, taskVars, analyticsVars, failures>>

Idle == [step |-> "idle"]
Step(i) == running[i].step
Goto(i, step) == running' = [running EXCEPT ![i].step = step]

Init ==
    /\ head = FirstHead
    /\ running = [i \in Invocations |-> Idle]
    /\ status = [t \in Tasks |-> "absent"]
    /\ lease = [t \in Tasks |-> None] /\ lapsed = {}
    /\ locked = {} /\ failures = 0
    /\ cursor = None /\ events = {} /\ since = None
    /\ rows = {} /\ total = None

-----------------------------------------------------------------------------
(* Around the Worker *)

Mine ==
    /\ head < MaxHead /\ head' = head + 1
    /\ UNCHANGED <<running, taskVars, analyticsVars, failures>>

Submit(t) ==
    /\ status[t] = "absent"
    /\ \A u \in Tasks : u < t => status[u] # "absent"
    /\ status' = [status EXCEPT ![t] = "pending"]
    /\ UNCHANGED <<head, running, lease, lapsed, locked, analyticsVars, failures>>

LeaseLapses(t) ==
    /\ status[t] = "processing" /\ t \notin lapsed
    /\ lapsed' = lapsed \union {t}
    /\ UNCHANGED <<head, running, status, lease, locked, analyticsVars, failures>>

LockLapses(a) ==
    /\ a \in locked /\ locked' = locked \ {a}
    /\ UNCHANGED <<head, running, status, lease, lapsed, analyticsVars, failures>>

-----------------------------------------------------------------------------
(* scheduled, and POST /run, which only wakes the agents *)

Fire(i, manual) ==
    /\ Step(i) = "idle"
    /\ running' = [running EXCEPT ![i] =
                       [step |-> "wakes", manual |-> manual, todo |-> Agents, awake |-> {}]]
    /\ UNCHANGED <<head, taskVars, analyticsVars, failures>>

\* Its tasks keep their leases, its wakes their locks.
Left(i) == lease' = [t \in Tasks |-> IF lease[t] = i THEN None ELSE lease[t]]

\* The Worker is stopped, or the indexer throws.
Stop(i) ==
    /\ Step(i) # "idle"
    /\ running' = [running EXCEPT ![i] = Idle]
    /\ Left(i)
    /\ failures < MaxFailures /\ failures' = failures + 1
    /\ UNCHANGED <<head, status, lapsed, locked, analyticsVars>>

\* The indexer is next, with its read of the latest block.
AfterWakes(i) ==
    IF running[i].manual THEN Idle ELSE [step |-> "cursor", latest |-> head]

\* Mistake: the indexer only runs after a scheduler that did not throw.
AfterThrow_Nothing(i) == Idle

\* The catch of scheduled: the indexer runs all the same.
AfterThrow(i) == AfterWakes(i)

\* A read of runScheduler fails before any agent is woken.
SchedulerThrows(i) ==
    /\ Step(i) = "wakes" /\ running[i].todo = Agents
    /\ running' = [running EXCEPT ![i] = AfterThrow(i)]
    /\ UNCHANGED <<head, taskVars, analyticsVars, failures>>

\* Mistake: a task whose lease has lapsed is not claimed again.
Claimable_Pending(t) == status[t] = "pending"

Claimable(t) == status[t] = "pending" \/ (status[t] = "processing" /\ t \in lapsed)

\* the oldest tasks of the agent
Batch(a) ==
    LET claimable == {t \in Tasks : To[t] = a /\ Claimable(t)}
    IN  {t \in claimable : Cardinality({u \in claimable : u < t}) < TaskLimit}

Free(i, a) ==
    /\ Step(i) = "wakes" /\ a \in running[i].todo
    /\ Cardinality(running[i].awake) < Concurrency

\* runAgent: its lock and its tasks.
Wake(i, a) ==
    /\ Free(i, a) /\ a \notin locked
    /\ locked' = locked \union {a}
    /\ status' = [t \in Tasks |-> IF t \in Batch(a) THEN "processing" ELSE status[t]]
    /\ lease' = [t \in Tasks |-> IF t \in Batch(a) THEN i ELSE lease[t]]
    /\ lapsed' = lapsed \ Batch(a)
    /\ running' = [running EXCEPT ![i].todo = @ \ {a}, ![i].awake = @ \union {a}]
    /\ UNCHANGED <<head, analyticsVars, failures>>

WakeLocked(i, a) ==
    /\ Free(i, a) /\ a \in locked
    /\ running' = [running EXCEPT ![i].todo = @ \ {a}]
    /\ UNCHANGED <<head, taskVars, analyticsVars, failures>>

Held(i, a) == {t \in Tasks : To[t] = a /\ lease[t] = i}

\* The end of a wake that has closed some of its tasks and leaves the others with
\* their leases: it returns early (autonomy off, account inactive, operator not
\* authorized, no provider), an error reaches the catch block, or an owner's
\* chat of the same batch went first.  The lock goes either way.
EndWake(i, a, closed) ==
    /\ Step(i) = "wakes" /\ a \in running[i].awake
    /\ closed \subseteq Held(i, a)
    /\ status' = [t \in Tasks |-> IF t \in closed THEN "closed" ELSE status[t]]
    /\ lease' = [t \in Tasks |-> IF t \in Held(i, a) THEN None ELSE lease[t]]
    /\ lapsed' = lapsed \ closed
    /\ locked' = locked \ {a}
    /\ running' = [running EXCEPT ![i].awake = @ \ {a}]
    /\ UNCHANGED <<head, analyticsVars, failures>>

SchedulerEnds(i) ==
    /\ Step(i) = "wakes" /\ running[i].todo = {} /\ running[i].awake = {}
    /\ running' = [running EXCEPT ![i] = AfterWakes(i)]
    /\ UNCHANGED <<head, taskVars, analyticsVars, failures>>

-----------------------------------------------------------------------------
(* runProtocolAnalyticsIndexer *)

Lesser(x, y) == IF x < y THEN x ELSE y

\* The first run starts Lookback blocks back: the configured start is not a
\* number to the code's pattern, whatever it is.
FromBlock(latest) ==
    IF cursor # None THEN cursor + 1
    ELSE IF latest > Lookback THEN latest - Lookback ELSE 0

\* Indexing from block 'from': at most MaxBlocks of them, or none.
Indexing(i, from) ==
    [step |-> IF from <= running[i].latest THEN "events" ELSE "marker",
     next |-> from,
     to |-> Lesser(from + MaxBlocks - 1, running[i].latest),
     since |-> IF cursor = None THEN from ELSE since]

\* Mistake: the cursor is written before the events.
ReadCursor_Advancing(i) ==
    /\ Step(i) = "cursor"
    /\ LET state == Indexing(i, FromBlock(running[i].latest))
       IN  /\ running' = [running EXCEPT ![i] = state]
           /\ cursor' = state.to /\ since' = state.since
    /\ UNCHANGED <<head, taskVars, events, rows, total, failures>>

ReadCursor(i) ==
    /\ Step(i) = "cursor"
    /\ running' = [running EXCEPT ![i] = Indexing(i, FromBlock(running[i].latest))]
    /\ UNCHANGED <<head, taskVars, analyticsVars, failures>>

\* indexProtocolEvents, row by row: INSERT OR IGNORE
InsertEvent(i, b) ==
    /\ Step(i) = "events" /\ b = running[i].next /\ b <= running[i].to
    /\ events' = events \union {b}
    /\ running' = [running EXCEPT ![i].next = b + 1]
    /\ UNCHANGED <<head, taskVars, cursor, rows, total, since, failures>>

WriteCursor(i) ==
    /\ Step(i) = "events" /\ running[i].next > running[i].to
    /\ cursor' = running[i].to
    /\ since' = running[i].since
    /\ Goto(i, "marker")
    /\ UNCHANGED <<head, taskVars, events, rows, total, failures>>

\* The hour of this invocation has its TOTAL row.  (Only one hour is kept: the
\* snapshot of any other one is the same, in rows of its own.)
MarkerFound(i) ==
    /\ Step(i) = "marker" /\ total # None
    /\ running' = [running EXCEPT ![i] = Idle]
    /\ UNCHANGED <<head, taskVars, analyticsVars, failures>>

\* Without it, the reserves are read up to the first that cannot be.
ReadReserves(i, count) ==
    /\ Step(i) = "marker" /\ total = None
    /\ running' = [running EXCEPT ![i] = [step |-> "rows", next |-> 1, count |-> count]]
    /\ UNCHANGED <<head, taskVars, analyticsVars, failures>>

WriteRow(i) ==
    /\ Step(i) = "rows" /\ running[i].next <= running[i].count
    /\ rows' = rows \union {running[i].next}
    /\ running' = [running EXCEPT ![i].next = @ + 1]
    /\ UNCHANGED <<head, taskVars, cursor, events, total, since, failures>>

\* Mistake: the TOTAL row does not wait for the others.
RowsWritten_Any(i) == TRUE

RowsWritten(i) == running[i].next > running[i].count

WriteTotal(i) ==
    /\ Step(i) = "rows" /\ RowsWritten(i)
    /\ total' = 1 .. running[i].count
    /\ running' = [running EXCEPT ![i] = Idle]
    /\ UNCHANGED <<head, taskVars, cursor, events, rows, since, failures>>

-----------------------------------------------------------------------------

Around ==
    \/ Mine
    \/ \E t \in Tasks : Submit(t) \/ LeaseLapses(t)
    \/ \E a \in Agents : LockLapses(a)

WakesStep(i) ==
    \/ SchedulerThrows(i) \/ SchedulerEnds(i)
    \/ \E a \in Agents : Wake(i, a) \/ WakeLocked(i, a)
    \/ \E a \in Agents : \E closed \in SUBSET Tasks : EndWake(i, a, closed)

IndexStep(i) ==
    \/ ReadCursor(i) \/ WriteCursor(i)
    \/ \E b \in 0 .. MaxHead : InsertEvent(i, b)
    \/ MarkerFound(i) \/ WriteRow(i) \/ WriteTotal(i)
    \/ \E count \in 0 .. Reserves : ReadReserves(i, count)

Next ==
    \/ Around
    \/ \E i \in Invocations :
        \/ \E manual \in BOOLEAN : Fire(i, manual)
        \/ WakesStep(i) \/ IndexStep(i) \/ Stop(i)

\* The cron trigger keeps firing, an invocation that is not stopped goes on,
\* and a lease or a lock that nobody ends runs out.  Nothing says of a wake that
\* it closes its tasks.
Fairness ==
    /\ SF_vars(\E i \in Invocations : Fire(i, FALSE))
    /\ \A i \in Invocations : WF_vars(WakesStep(i) \/ IndexStep(i))
    /\ \A t \in Tasks : WF_vars(LeaseLapses(t))
    /\ \A a \in Agents : WF_vars(LockLapses(a))

Spec == Init /\ [][Next]_vars /\ Fairness

-----------------------------------------------------------------------------
(* Properties *)

(* Every event from the block the index starts at up to the cursor is in   *)
(* the table: no crash between the events and the cursor, and no           *)
(* invocation that overtakes another one, leaves a hole behind the cursor. *)
EventsComplete == cursor # None => since .. cursor \subseteq events

(* The aggregate of an hour never stands without the rows it adds up,      *)
(* whatever stopped the snapshot: its row is the marker that keeps the     *)
(* hour from being captured again.                                         *)
AggregateHasRows == total # None => total \subseteq rows

Indexers ==
    {i \in Invocations : Step(i) \in {"cursor", "events", "marker", "rows"}}

InIndex(b) == cursor # None /\ since <= b

(* Once indexers no longer overlap, every block from the start of the      *)
(* index on gets indexed, even if the scheduler before them always throws. *)
(* (While they overlap, one that is late may set the cursor back forever;  *)
(* two that both find no cursor may start the index at two blocks, and     *)
(* what counts is the start of the one that writes its cursor last.)       *)
BlocksIndexed ==
    <>[](Cardinality(Indexers) <= 1) =>
        \A b \in 0 .. MaxHead : (InIndex(b) /\ b <= head) ~> (b \in events \/ ~InIndex(b))

\* t is open, and among the oldest open tasks of its agent that one claim takes.
Open(t) == status[t] \in {"pending", "processing"}
Due(t) ==
    Open(t) /\ Cardinality({u \in Tasks : To[u] = To[t] /\ u < t /\ Open(u)}) < TaskLimit

\* A wake loses u without having closed it: it leaves it at its end, it is
\* stopped, or it is so late that another wake claims it.
Loses(u) == lease[u] # None /\ lease'[u] # lease[u] /\ status'[u] # "closed"

(* If only the scheduler keeps getting past its first reads, a task is     *)
(* never forgotten: while it is due it is claimed again and again, however *)
(* often wakes leave it or are stopped with it, for neither a lock nor a   *)
(* lease that they left keeps it from the next one.  It is closed in the   *)
(* end if from some moment on the wakes of its agent keep what they claim  *)
(* until they have closed it.  The code does not see to that: agents that  *)
(* may not act, errors and late wakes leave agent-to-agent tasks open, and *)
(* without a limit on the attempts.                                        *)
TasksClose ==
    []<>(\E i \in Invocations : Step(i) = "wakes" /\ running[i].todo # Agents) =>
        \A t \in Tasks :
            /\ Due(t) ~> (lease[t] # None \/ ~Due(t))
            /\ <>[][\A u \in Tasks : To[u] = To[t] => ~Loses(u)]_vars =>
                   (status[t] = "pending") ~> (status[t] = "closed")
=============================================================================
