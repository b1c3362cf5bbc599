------------------------------ MODULE TaskRing ------------------------------
(***************************************************************************)
(* The ring of scheduled tasks and its thread pool                         *)
(* (schedule/action_schedule.c).  A slot of the ring has a lock word that  *)
(* moves 0 -> 2 (picked) -> 1 (posted) -> 2 (acquired) -> 0 by compare and *)
(* swap; the two positions of the ring are hints where a scan starts.  A   *)
(* pool thread waits for the task event, scans the ring once and processes *)
(* at most one task.  stop_task_threads raises the quit flag, posts the    *)
(* event twice per thread and joins.                                       *)
(*                                                                         *)
(* Nothing in the daemon calls lmice_pick_task and lmice_post_task yet:    *)
(* the producer here uses them the only way they fit together, pick, fill, *)
(* post, and then eal_event_awake on the event the threads wait for.       *)
(***************************************************************************)
EXTENDS Integers, FiniteSets

CONSTANTS
    Threads,        \* pool threads (taskproc_thread)
    Producers,      \* callers of lmice_pick_task
    RingSize,       \* TASKPROC_LIST_SIZE (32)
    MaxTasks,       \* bound: tasks posted in a run
    Counting        \* eal_event: TRUE, POSIX semaphore; FALSE, the Windows
                    \* auto-reset event, which remembers one awake only

ASSUME RingAssumption ==
    /\ RingSize \in Nat \ {0} /\ MaxTasks \in Nat
    /\ Counting \in BOOLEAN
    /\ IsFiniteSet(Threads) /\ IsFiniteSet(Producers)
    /\ Threads \cap Producers = {}

Slots == 0 .. RingSize - 1
Ids   == 1 .. MaxTasks
NoSlot == RingSize
None  == 0

(* lmice_lock_ring_e: READ = WRITE = 1, READING = WRITING = 2 *)
NOT_USE == 0
READY   == 1
BUSY    == 2

VARIABLES
    lock,       \* task[].lock
    content,    \* which task the slot holds (its fields)
    read_pos, write_pos,    \* positions, modulo RingSize
    event,      \* taskproc_evt
    quit,       \* taskproc_quit_flag
    pc,         \* where each thread and producer is
    cur, idx,   \* locals of the scan: cur_pos at its start, and i
    slot,       \* the slot a scan got
    posted,     \* number of tasks given to producers so far
    done,       \* how often each task was processed
    main, awakes            \* stop_task_threads: step, and its counter

local == <<pc, cur, idx, slot>>
vars == <<lock, content, read_pos, write_pos, event, quit, local, posted, done, main, awakes>>

Agents == Threads \cup Producers

Init ==
    /\ lock = [s \in Slots |-> NOT_USE]
    /\ content = [s \in Slots |-> None]
    /\ read_pos = 0 /\ write_pos = 0
    /\ event = 0
    /\ quit = FALSE
    /\ pc = [a \in Agents |-> IF a \in Threads THEN "check" ELSE "idle"]
    /\ cur = [a \in Agents |-> 0]
    /\ idx = [a \in Agents |-> 0]
    /\ slot = [a \in Agents |-> NoSlot]
    /\ posted = 0
    /\ done = [k \in Ids |-> 0]
    /\ main = "run" /\ awakes = 0

(* eal_event_awake and the return of eal_event_wait_one *)
Awake(e) == IF Counting THEN e + 1 ELSE 1

At(a) == (cur[a] + idx[a]) % RingSize
goto(a, where) == pc' = [pc EXCEPT ![a] = where]

-----------------------------------------------------------------------------
(* lmice_pick_task and lmice_acquire_task are the same scan: read the      *)
(* position, try a compare and swap on up to RingSize slots, and on the    *)
(* first success add i + 1 to the position.                                *)

ScanStart(a, pos, where) ==
    /\ cur' = [cur EXCEPT ![a] = pos]
    /\ idx' = [idx EXCEPT ![a] = 0]
    /\ goto(a, where)

(* mutant: swap without the comparison, a slot another one holds is taken *)
Mut_ScanHit(a, from, where) ==
    /\ lock[At(a)] \in {from, BUSY}
    /\ lock' = [lock EXCEPT ![At(a)] = BUSY]
    /\ slot' = [slot EXCEPT ![a] = At(a)]
    /\ goto(a, where)
    /\ UNCHANGED <<cur, idx>>

(* the compare and swap succeeds *)
ScanHit(a, from, where) ==
    /\ lock[At(a)] = from
    /\ lock' = [lock EXCEPT ![At(a)] = BUSY]
    /\ slot' = [slot EXCEPT ![a] = At(a)]
    /\ goto(a, where)
    /\ UNCHANGED <<cur, idx>>

(* it fails: next slot, or give up after the last *)
ScanMiss(a, from, giveup) ==
    /\ lock[At(a)] # from
    /\ IF idx[a] + 1 < RingSize
         THEN idx' = [idx EXCEPT ![a] = @ + 1] /\ UNCHANGED <<pc, cur>>
         ELSE idx' = [idx EXCEPT ![a] = 0] /\ cur' = [cur EXCEPT ![a] = 0] /\ goto(a, giveup)
    /\ UNCHANGED <<lock, slot>>

(* eal_fetch_and_add64(&pos, i + 1); the locals are dead after it *)
Advance(a, pos, where) ==
    /\ pos' = (pos + idx[a] + 1) % RingSize
    /\ cur' = [cur EXCEPT ![a] = 0]
    /\ idx' = [idx EXCEPT ![a] = 0]
    /\ goto(a, where)

-----------------------------------------------------------------------------
(* Producers (external): pick, fill, post, awake.                          *)

PickStart(p) ==
    /\ pc[p] = "idle"
    /\ posted + Cardinality({q \in Producers : pc[q] \in {"pick", "advance", "fill"}}) < MaxTasks
    /\ main = "run"
    /\ ScanStart(p, write_pos, "pick")
    /\ UNCHANGED <<lock, content, read_pos, write_pos, event, quit, slot, posted, done, main, awakes>>

PickTry(p) ==
    /\ pc[p] = "pick"
    /\ ScanHit(p, NOT_USE, "advance") \/ ScanMiss(p, NOT_USE, "idle")
    /\ UNCHANGED <<content, read_pos, write_pos, event, quit, posted, done, main, awakes>>

PickAdvance(p) ==
    /\ pc[p] = "advance"
    /\ Advance(p, write_pos, "fill")
    /\ UNCHANGED <<lock, content, read_pos, event, quit, slot, posted, done, main, awakes>>

(* the producer writes the fields of the task *)
Fill(p) ==
    /\ pc[p] = "fill"
    /\ posted' = posted + 1
    /\ content' = [content EXCEPT ![slot[p]] = posted + 1]
    /\ goto(p, "post")
    /\ UNCHANGED <<lock, read_pos, write_pos, event, quit, cur, idx, slot, done, main, awakes>>

(* lmice_post_task: compare and swap WRITING -> WRITE *)
PostTask(p) ==
    /\ pc[p] = "post"
    /\ lock' = [lock EXCEPT ![slot[p]] = IF @ = BUSY THEN READY ELSE @]
    /\ slot' = [slot EXCEPT ![p] = NoSlot]
    /\ goto(p, "awake")
    /\ UNCHANGED <<content, read_pos, write_pos, event, quit, cur, idx, posted, done, main, awakes>>

(* mutant: nobody is woken while a thread runs *)
Mut_PostAwake(p) ==
    /\ pc[p] = "awake"
    /\ event' = IF \A t \in Threads : pc[t] = "wait" THEN Awake(event) ELSE event
    /\ goto(p, "idle")
    /\ UNCHANGED <<lock, content, read_pos, write_pos, quit, cur, idx, slot, posted, done, main, awakes>>

PostAwake(p) ==
    /\ pc[p] = "awake"
    /\ event' = Awake(event)
    /\ goto(p, "idle")
    /\ UNCHANGED <<lock, content, read_pos, write_pos, quit, cur, idx, slot, posted, done, main, awakes>>

-----------------------------------------------------------------------------
(* Pool threads: schedule_task_proc.                                       *)

CheckQuit(t) ==
    /\ pc[t] = "check"
    /\ goto(t, IF quit THEN "exit" ELSE "wait")
    /\ UNCHANGED <<lock, content, read_pos, write_pos, event, quit, cur, idx, slot, posted, done, main, awakes>>

(* eal_event_wait_one returns, and lmice_acquire_task reads read_pos *)
Wake(t) ==
    /\ pc[t] = "wait"
    /\ event > 0
    /\ event' = event - 1
    /\ ScanStart(t, read_pos, "acquire")
    /\ UNCHANGED <<lock, content, read_pos, write_pos, quit, slot, posted, done, main, awakes>>

AcquireTry(t) ==
    /\ pc[t] = "acquire"
    /\ ScanHit(t, READY, "got") \/ ScanMiss(t, READY, "check")
    /\ UNCHANGED <<content, read_pos, write_pos, event, quit, posted, done, main, awakes>>

AcquireAdvance(t) ==
    /\ pc[t] = "got"
    /\ Advance(t, read_pos, "process")
    /\ UNCHANGED <<lock, content, write_pos, event, quit, slot, posted, done, main, awakes>>

(* the filters run on the task; they only read it *)
Process(t) ==
    /\ pc[t] = "process"
    /\ done' = [done EXCEPT ![content[slot[t]]] = @ + 1]
    /\ goto(t, "release")
    /\ UNCHANGED <<lock, content, read_pos, write_pos, event, quit, cur, idx, slot, posted, main, awakes>>

(* mutant: the slot goes back to READ *)
Mut_ReleaseTask(t) ==
    /\ pc[t] = "release"
    /\ lock' = [lock EXCEPT ![slot[t]] = IF @ = BUSY THEN READY ELSE @]
    /\ slot' = [slot EXCEPT ![t] = NoSlot]
    /\ goto(t, "check")
    /\ UNCHANGED <<content, read_pos, write_pos, event, quit, cur, idx, posted, done, main, awakes>>

(* lmice_release_task: compare and swap READING -> NOT_USE *)
ReleaseTask(t) ==
    /\ pc[t] = "release"
    /\ lock' = [lock EXCEPT ![slot[t]] = IF @ = BUSY THEN NOT_USE ELSE @]
    /\ slot' = [slot EXCEPT ![t] = NoSlot]
    /\ goto(t, "check")
    /\ UNCHANGED <<content, read_pos, write_pos, event, quit, cur, idx, posted, done, main, awakes>>

-----------------------------------------------------------------------------
(* stop_task_threads; by then the other services, and with them the        *)
(* producers, have been stopped.                                           *)

StopFlag ==
    /\ main = "run"
    /\ \A p \in Producers : pc[p] = "idle"
    /\ main' = "awake"
    /\ quit' = TRUE
    /\ UNCHANGED <<lock, content, read_pos, write_pos, event, local, posted, done, awakes>>

(* mutant: the event is posted once for all threads *)
Mut_StopAwake ==
    /\ main = "awake"
    /\ IF awakes < 1
         THEN awakes' = awakes + 1 /\ event' = Awake(event) /\ UNCHANGED main
         ELSE main' = "join" /\ UNCHANGED <<awakes, event>>
    /\ UNCHANGED <<lock, content, read_pos, write_pos, quit, local, posted, done>>

StopAwake ==
    /\ main = "awake"
    /\ IF awakes < 2 * Cardinality(Threads)
         THEN awakes' = awakes + 1 /\ event' = Awake(event) /\ UNCHANGED main
         ELSE main' = "join" /\ UNCHANGED <<awakes, event>>
    /\ UNCHANGED <<lock, content, read_pos, write_pos, quit, local, posted, done>>

StopJoined ==
    /\ main = "join"
    /\ \A t \in Threads : pc[t] = "exit"
    /\ main' = "stopped"
    /\ UNCHANGED <<lock, content, read_pos, write_pos, event, quit, local, posted, done, awakes>>

-----------------------------------------------------------------------------
Producer(p) == PickStart(p) \/ PickTry(p) \/ PickAdvance(p) \/ Fill(p) \/ PostTask(p) \/ PostAwake(p)
Thread(t) ==
    CheckQuit(t) \/ Wake(t) \/ AcquireTry(t) \/ AcquireAdvance(t) \/ Process(t) \/ ReleaseTask(t)
Stop == StopFlag \/ StopAwake \/ StopJoined

Next == (\E p \in Producers : Producer(p)) \/ (\E t \in Threads : Thread(t)) \/ Stop

Spec == Init /\ [][Next]_vars

(* The scheduler of the host runs every thread that can run, and a thread  *)
(* in sem_wait returns while the semaphore stays posted.  Main is free not *)
(* to stop the service, but once it has begun it goes on.                  *)
Fairness ==
    /\ \A t \in Threads : WF_vars(Thread(t))
    /\ \A p \in Producers : WF_vars(Producer(p))
    /\ WF_vars(StopAwake) /\ WF_vars(StopJoined)

FairSpec == Spec /\ Fairness

-----------------------------------------------------------------------------
(* The fields have their ranges; in particular the positions keep naming a *)
(* slot of the ring.                                                       *)
TypeOK ==
    /\ lock \in [Slots -> {NOT_USE, READY, BUSY}]
    /\ content \in [Slots -> Ids \cup {None}]
    /\ read_pos \in Slots /\ write_pos \in Slots
    /\ event \in Nat
    /\ quit \in BOOLEAN
    /\ pc \in [Agents -> {"check", "wait", "acquire", "got", "process", "release", "exit",
                          "idle", "pick", "advance", "fill", "post", "awake"}]
    /\ cur \in [Agents -> Slots]
    /\ idx \in [Agents -> Slots]
    /\ slot \in [Agents -> Slots \cup {NoSlot}]
    /\ posted \in 0 .. MaxTasks
    /\ done \in [Ids -> Nat]
    /\ main \in {"run", "awake", "join", "stopped"}
    /\ awakes \in Nat

(* "Acquire a task from queue thread safe" (action_schedule.c:17): the     *)
(* slot a thread or a producer works on is nobody else's, although reading *)
(* and writing share the value 2 of the lock word, and scans that start    *)
(* from stale positions overlap.                                           *)
SlotExclusive ==
    \A a, b \in Agents : a # b /\ slot[a] # NoSlot => slot[a] # slot[b]

(* The ring implements the task pool: whatever the scans interleave, a     *)
(* posted task stays in the ring until one thread acquires it, a thread    *)
(* never acquires a slot whose task is half written or already processed,  *)
(* and no task is processed twice.                                         *)
Pool == INSTANCE TaskPool WITH
    pending  <- {content[s] : s \in {q \in Slots : lock[q] = READY}},
    running  <- [t \in Threads |-> IF pc[t] \in {"got", "process"} THEN content[slot[t]] ELSE None],
    finished <- {k \in Ids : done[k] > 0}

ImplementsPool == Pool!Spec

(* Unless the service is stopped, fewer tasks than there are threads stay  *)
(* in the ring when it comes to rest: with one thread every posted task is *)
(* processed.  With two, one task can be left until the next post: a scan  *)
(* passes a slot just before it is posted and finds the task it woke up    *)
(* for taken by the thread that was woken for the slot it passed           *)
(* (lmice_acquire_task and lmice_post_task, action_schedule.c).            *)
FewAreStranded ==
    []<>(quit \/ Cardinality({s \in Slots : lock[s] = READY}) < Cardinality(Threads))

(* stop_task_threads returns: two posts per thread are enough for every    *)
(* thread to see the quit flag, wherever it was when the flag was set.     *)
(* With the auto-reset event posts coalesce and a join can wait forever.   *)
StopReturns == (main = "awake") ~> (main = "stopped")
=============================================================================
