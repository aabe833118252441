------------------------------ MODULE TaskQueue ------------------------------
(***************************************************************************)
(* What the durable task queue of centry_agent_tasks promises, whatever    *)
(* the workers do (docs/system-design.md, "Durable task model"): a task is *)
(* handed to one holder at a time, a holder never gets a second batch, a   *)
(* task moves to another holder only once its lease has lapsed, and only   *)
(* its present holder closes it, for good.                                 *)
(***************************************************************************)
CONSTANTS Tasks, Holders, None

VARIABLES
    status,     \* of each task
    holder,     \* who holds each processing task
    lapsed,     \* the tasks whose lease is not running
    closer,     \* who closed each closed task
    used        \* the holders that have claimed, or never will

vars == <<status, holder, lapsed, closer, used>>

Init ==
    /\ status = [t \in Tasks |-> "absent"]
    /\ holder = [t \in Tasks |-> None]
    /\ lapsed = Tasks
    /\ closer = [t \in Tasks |-> None]
    /\ used = {}

Submit(t) ==
    /\ status[t] = "absent"
    /\ status' = [status EXCEPT ![t] = "pending"]
    /\ UNCHANGED <<holder, lapsed, closer, used>>

Available == {t \in Tasks : \/ status[t] = "pending"
                            \/ status[t] = "processing" /\ t \in lapsed}

Claim(h, batch) ==
    /\ h \notin used /\ batch \subseteq Available
    /\ status' = [t \in Tasks |-> IF t \in batch THEN "processing" ELSE status[t]]
    /\ holder' = [t \in Tasks |-> IF t \in batch THEN h ELSE holder[t]]
    /\ lapsed' = lapsed \ batch
    /\ used' = used \cup {h}
    /\ UNCHANGED closer

Close(t, end) ==
    /\ status[t] = "processing"
    /\ status' = [status EXCEPT ![t] = end]
    /\ closer' = [closer EXCEPT ![t] = holder[t]]
    /\ holder' = [holder EXCEPT ![t] = None]
    /\ lapsed' = lapsed \cup {t}
    /\ UNCHANGED used

Lapse ==
    /\ lapsed \subseteq lapsed'
    /\ lapsed' \subseteq Tasks
    /\ UNCHANGED <<status, holder, closer, used>>

Retire(h) ==
    /\ h \notin used
    /\ used' = used \cup {h}
    /\ UNCHANGED <<status, holder, lapsed, closer>>

Next ==
    \/ \E t \in Tasks : Submit(t)
    \/ \E h \in Holders, batch \in SUBSET Tasks : Claim(h, batch)
    \/ \E t \in Tasks, end \in {"completed", "failed"} : Close(t, end)
    \/ Lapse
    \/ \E h \in Holders : Retire(h)

Spec == Init /\ [][Next]_vars
=============================================================================
