----------------------------- MODULE SchedulerProofs -----------------------------
(* Theorems about Scheduler, for any number of invocations that overlap in *)
(* any way and stop anywhere.                                              *)
EXTENDS Scheduler, TLAPS

USE SchedulerAssumption

\* An invocation in step s is a record with these fields.
Fields(i, s, fields) == Step(i) = s => DOMAIN running[i] = fields

\* What each invocation has done so far is in the tables.
Progress(i) ==
    /\ Fields(i, "wakes", {"step", "manual", "todo", "awake"})
    /\ Step(i) = "cursor" => running[i].latest \in Int
    /\ Fields(i, "events", {"step", "next", "to", "since"})
    /\ Fields(i, "marker", {"step", "next", "to", "since"})
    /\ Step(i) = "events" =>
        /\ running[i].next \in Int /\ running[i].to \in Int /\ running[i].since \in Int
        /\ running[i].since .. running[i].next - 1 \subseteq events
    /\ Fields(i, "rows", {"step", "next", "count"})
    /\ Step(i) = "rows" =>
        /\ running[i].next \in Int /\ running[i].count \in Int
        /\ 1 .. running[i].next - 1 \subseteq rows

Tables ==
    /\ head \in Nat
    /\ running = [i \in Invocations |-> running[i]]
    /\ cursor # None => cursor \in Int /\ since \in Int
    /\ EventsComplete /\ AggregateHasRows

Inv == Tables /\ \A i \in Invocations : Progress(i)

LEMMA InitInv == Init => Inv
BY DEF Init, Inv, Tables, Progress, Fields, Step, Idle, EventsComplete, AggregateHasRows

\* What one step of invocation i has to show: the others go on as they were.
LEMMA OneInvocation ==
    ASSUME Inv, NEW i \in Invocations, Tables', Progress(i)',
           \A j \in Invocations : j # i => running'[j] = running[j],
           events \subseteq events', rows \subseteq rows'
    PROVE  Inv'
<1>1. ASSUME NEW j \in Invocations, j # i PROVE Progress(j)'
  BY <1>1 DEF Inv, Progress, Fields, Step
<1> QED BY <1>1 DEF Inv

\* A step that leaves the tables alone.
LEMMA TablesStay ==
    ASSUME Inv, NEW i \in Invocations, NEW state, running' = [running EXCEPT ![i] = state],
           UNCHANGED <<head, analyticsVars>>, Progress(i)'
    PROVE  Inv'
<1>1. Tables'
  BY DEF Inv, Tables, EventsComplete, AggregateHasRows, analyticsVars
<1>2. \A j \in Invocations : j # i => running'[j] = running[j]
  BY DEF Inv, Tables
<1>3. events \subseteq events' /\ rows \subseteq rows'
  BY DEF analyticsVars
<1> QED BY <1>1, <1>2, <1>3, OneInvocation

LEMMA AroundInv == ASSUME Inv, Around \/ UNCHANGED vars PROVE Inv'
<1>1. head' \in Nat /\ UNCHANGED <<running, analyticsVars>>
  BY DEF Around, Mine, Submit, LeaseLapses, LockLapses, vars, Inv, Tables
<1> QED BY <1>1 DEF Inv, Tables, Progress, Fields, Step, EventsComplete, AggregateHasRows,
       analyticsVars

\* The state of an invocation that has not come to the indexer's writes.
LEMMA AfterWakesProgress ==
    ASSUME Inv, NEW i \in Invocations,
           running' = [running EXCEPT ![i] = AfterWakes(i)] \/ running' = [running EXCEPT ![i] = Idle]
    PROVE  Progress(i)'
<1>1. running'[i] \in {Idle, [step |-> "cursor", latest |-> head]}
  BY DEF Inv, Tables, AfterWakes
<1> QED BY <1>1 DEF Inv, Tables, Progress, Fields, Step, Idle

LEMMA WakesInv ==
    ASSUME Inv, NEW i \in Invocations,
           WakesStep(i) \/ Stop(i) \/ \E manual \in BOOLEAN : Fire(i, manual)
    PROVE  Inv'
<1> USE DEF taskVars
<1>1. ASSUME NEW manual \in BOOLEAN, Fire(i, manual) PROVE Inv'
  <2> DEFINE state == [step |-> "wakes", manual |-> manual, todo |-> Agents, awake |-> {}]
  <2>1. running' = [running EXCEPT ![i] = state] /\ UNCHANGED <<head, analyticsVars>>
    BY <1>1 DEF Fire
  <2>2. Progress(i)'
    BY <2>1 DEF Inv, Tables, Progress, Fields, Step
  <2> HIDE DEF state
  <2> QED BY <2>1, <2>2, TablesStay
<1>2. CASE Stop(i)
  BY <1>2, TablesStay, AfterWakesProgress DEF Stop
<1>3. CASE SchedulerThrows(i) \/ SchedulerEnds(i)
  BY <1>3, TablesStay, AfterWakesProgress DEF SchedulerThrows, SchedulerEnds, AfterThrow
<1>4. ASSUME NEW a \in Agents,
             \/ Wake(i, a) \/ WakeLocked(i, a)
             \/ \E closed \in SUBSET Tasks : EndWake(i, a, closed)
      PROVE  Inv'
  <2>1. Step(i) = "wakes"
    BY <1>4 DEF Wake, WakeLocked, EndWake, Free
  <2>2. PICK state :
            /\ running' = [running EXCEPT ![i] = state]
            /\ state.step = "wakes" /\ DOMAIN state = DOMAIN running[i]
    <3>1. DOMAIN running[i] = {"step", "manual", "todo", "awake"}
      BY <2>1 DEF Inv, Progress, Fields
    <3>2. CASE Wake(i, a)
      <4> DEFINE state == [running[i] EXCEPT !.todo = @ \ {a}, !.awake = @ \union {a}]
      <4>1. running' = [running EXCEPT ![i] = state]
        BY <3>2 DEF Wake, Inv, Tables
      <4>2. state.step = "wakes" /\ DOMAIN state = DOMAIN running[i]
        BY <2>1, <3>1 DEF Step
      <4> QED BY <4>1, <4>2
    <3>3. CASE WakeLocked(i, a)
      <4> DEFINE state == [running[i] EXCEPT !.todo = @ \ {a}]
      <4>1. running' = [running EXCEPT ![i] = state]
        BY <3>3 DEF WakeLocked, Inv, Tables
      <4>2. state.step = "wakes" /\ DOMAIN state = DOMAIN running[i]
        BY <2>1, <3>1 DEF Step
      <4> QED BY <4>1, <4>2
    <3>4. CASE \E closed \in SUBSET Tasks : EndWake(i, a, closed)
      <4> DEFINE state == [running[i] EXCEPT !.awake = @ \ {a}]
      <4>1. running' = [running EXCEPT ![i] = state]
        BY <3>4 DEF EndWake, Inv, Tables
      <4>2. state.step = "wakes" /\ DOMAIN state = DOMAIN running[i]
        BY <2>1, <3>1 DEF Step
      <4> QED BY <4>1, <4>2
    <3> QED BY <1>4, <3>2, <3>3, <3>4
  <2>3. Progress(i)'
    BY <2>1, <2>2 DEF Inv, Tables, Progress, Fields, Step
  <2>4. UNCHANGED <<head, analyticsVars>>
    BY <1>4 DEF Wake, WakeLocked, EndWake
  <2> QED BY <2>2, <2>3, <2>4, TablesStay
<1> QED BY <1>1, <1>2, <1>3, <1>4 DEF WakesStep

LEMMA IndexInv == ASSUME Inv, NEW i \in Invocations, IndexStep(i) PROVE Inv'
<1> USE DEF Inv, Tables
<1>1. CASE ReadCursor(i)
  <2> DEFINE latest == running[i].latest
             from == FromBlock(latest)
             state == Indexing(i, from)
  <2>1. running' = [running EXCEPT ![i] = state] /\ UNCHANGED <<head, analyticsVars>>
    BY <1>1 DEF ReadCursor
  <2>2. latest \in Int
    BY <1>1 DEF ReadCursor, Progress
  <2>3. from \in Int
    BY <2>2 DEF FromBlock
  <2>4. /\ state.next = from
        /\ state.to = Lesser(from + MaxBlocks - 1, latest)
        /\ state.since = IF cursor = None THEN from ELSE since
        /\ state.step \in {"events", "marker"}
        /\ DOMAIN state = {"step", "next", "to", "since"}
    BY DEF Indexing
  <2>5. state.to \in Int
    BY <2>2, <2>3, <2>4 DEF Lesser
  <2>6. state.since \in Int /\ state.since .. state.next - 1 \subseteq events
    <3>1. CASE cursor = None
      BY <2>3, <2>4, <3>1
    <3>2. CASE cursor # None
      BY <2>3, <2>4, <3>2 DEF FromBlock, EventsComplete
    <3> QED BY <3>1, <3>2
  <2>7. Progress(i)'
    <3> HIDE DEF state, from
    <3>1. running'[i] = state /\ events' = events
      BY <2>1 DEF analyticsVars
    <3> QED BY <2>3, <2>4, <2>5, <2>6, <3>1 DEF Progress, Fields, Step
  <2> HIDE DEF state
  <2> QED BY <2>1, <2>7, TablesStay
<1>2. ASSUME NEW b \in 0 .. MaxHead, InsertEvent(i, b) PROVE Inv'
  <2>1. /\ Step(i) = "events" /\ b = running[i].next
        /\ running' = [running EXCEPT ![i] = [running[i] EXCEPT !.next = b + 1]]
        /\ events' = events \union {b}
        /\ UNCHANGED <<head, cursor, rows, total, since>>
    BY <1>2 DEF InsertEvent
  <2>2. Tables'
    BY <2>1 DEF EventsComplete, AggregateHasRows
  <2>3. running'[i].next = b + 1 /\ running'[i].to = running[i].to
          /\ running'[i].since = running[i].since /\ running'[i].step = "events"
          /\ DOMAIN running'[i] = DOMAIN running[i]
    BY <2>1 DEF Progress, Fields, Step
  <2>4. running[i].since .. b \subseteq events'
    BY <2>1 DEF Progress
  <2>5. Progress(i)'
    BY <2>1, <2>3, <2>4 DEF Progress, Fields, Step
  <2> QED BY <2>1, <2>2, <2>5, OneInvocation
<1>3. CASE WriteCursor(i)
  <2>1. /\ Step(i) = "events" /\ running[i].next > running[i].to
        /\ running' = [running EXCEPT ![i] = [running[i] EXCEPT !.step = "marker"]]
        /\ cursor' = running[i].to /\ since' = running[i].since
        /\ UNCHANGED <<head, events, rows, total>>
    BY <1>3 DEF WriteCursor, Goto
  <2>2. running[i].since .. running[i].to \subseteq events
    BY <2>1 DEF Progress
  <2>3. Tables'
    BY <2>1, <2>2 DEF EventsComplete, AggregateHasRows, Progress
  <2>4. Progress(i)'
    BY <2>1 DEF Progress, Fields, Step
  <2> QED BY <2>1, <2>3, <2>4, OneInvocation
<1>4. CASE MarkerFound(i)
  BY <1>4, TablesStay, AfterWakesProgress DEF MarkerFound
<1>5. ASSUME NEW count \in 0 .. Reserves, ReadReserves(i, count) PROVE Inv'
  <2> DEFINE state == [step |-> "rows", next |-> 1, count |-> count]
  <2>1. running' = [running EXCEPT ![i] = state] /\ UNCHANGED <<head, analyticsVars>>
    BY <1>5 DEF ReadReserves
  <2>2. Progress(i)'
    BY <2>1 DEF Progress, Fields, Step
  <2> HIDE DEF state
  <2> QED BY <2>1, <2>2, TablesStay
<1>6. CASE WriteRow(i)
  <2>1. /\ Step(i) = "rows"
        /\ running' = [running EXCEPT ![i] = [running[i] EXCEPT !.next = running[i].next + 1]]
        /\ rows' = rows \union {running[i].next}
        /\ UNCHANGED <<head, cursor, events, total, since>>
    BY <1>6 DEF WriteRow
  <2>2. Tables'
    BY <2>1 DEF EventsComplete, AggregateHasRows
  <2>3. running'[i].next = running[i].next + 1 /\ running'[i].count = running[i].count
          /\ running'[i].step = "rows" /\ DOMAIN running'[i] = DOMAIN running[i]
    BY <2>1 DEF Progress, Fields, Step
  <2>4. 1 .. running[i].next \subseteq rows'
    BY <2>1 DEF Progress
  <2>5. Progress(i)'
    BY <2>1, <2>3, <2>4 DEF Progress, Fields, Step
  <2> QED BY <2>1, <2>2, <2>5, OneInvocation
<1>7. CASE WriteTotal(i)
  <2>1. /\ Step(i) = "rows" /\ running[i].next > running[i].count
        /\ running' = [running EXCEPT ![i] = Idle]
        /\ total' = 1 .. running[i].count
        /\ UNCHANGED <<head, cursor, events, rows, since>>
    BY <1>7 DEF WriteTotal, RowsWritten
  <2>2. 1 .. running[i].count \subseteq rows
    BY <2>1 DEF Progress
  <2>3. Tables'
    BY <2>1, <2>2 DEF EventsComplete, AggregateHasRows
  <2> QED BY <2>1, <2>3, AfterWakesProgress, OneInvocation
<1> QED BY <1>1, <1>2, <1>3, <1>4, <1>5, <1>6, <1>7 DEF IndexStep

LEMMA NextInv == Inv /\ [Next]_vars => Inv'
BY AroundInv, WakesInv, IndexInv DEF Next

(* Behind the cursor the index is complete: neither an invocation that is   *)
(* stopped between two writes nor one that overtakes another leaves a hole. *)
THEOREM NoHoles == Spec => []EventsComplete
<1>1. Inv => EventsComplete
  BY DEF Inv, Tables
<1> QED BY InitInv, NextInv, <1>1, PTL DEF Spec

(* The aggregate of an hour, the marker that keeps the hour from being      *)
(* captured again, never stands without the rows it adds up.                *)
THEOREM AggregatesHaveRows == Spec => []AggregateHasRows
<1>1. Inv => AggregateHasRows
  BY DEF Inv, Tables
<1> QED BY InitInv, NextInv, <1>1, PTL DEF Spec
=============================================================================
