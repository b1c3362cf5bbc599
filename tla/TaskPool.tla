------------------------------ MODULE TaskPool ------------------------------
(***************************************************************************)
(* What the task ring promises: a task that was submitted waits in the     *)
(* pool until exactly one thread takes it, and that thread finishes it.    *)
(* No order among the waiting tasks is promised.                           *)
(***************************************************************************)
CONSTANTS Threads, Ids, None

VARIABLES
    pending,    \* tasks submitted and not yet taken
    running,    \* the task each thread works on, None if idle
    finished    \* tasks that were processed

poolVars == <<pending, running, finished>>

Init ==
    /\ pending = {}
    /\ running = [t \in Threads |-> None]
    /\ finished = {}

Known == pending \cup {running[t] : t \in Threads} \cup finished

Submit(k) ==
    /\ k \notin Known
    /\ pending' = pending \cup {k}
    /\ UNCHANGED <<running, finished>>

Take(t, k) ==
    /\ k \in pending
    /\ running[t] = None
    /\ pending' = pending \ {k}
    /\ running' = [running EXCEPT ![t] = k]
    /\ UNCHANGED finished

Finish(t) ==
    /\ running[t] # None
    /\ finished' = finished \cup {running[t]}
    /\ running' = [running EXCEPT ![t] = None]
    /\ UNCHANGED pending

Next ==
    \/ \E k \in Ids : Submit(k)
    \/ \E t \in Threads : Finish(t) \/ \E k \in Ids : Take(t, k)

Spec == Init /\ [][Next]_poolVars
=============================================================================
