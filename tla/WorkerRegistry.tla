--------------------------- MODULE WorkerRegistry ---------------------------
(***************************************************************************)
(* The worker table of the LMiced daemon and the five parties that touch   *)
(* it:                                                                     *)
(*   - worker processes, through the SPI library (spi/main.cpp): init()    *)
(*     enters the table, register_*() fills the worker's own shared        *)
(*     memory, commit() wakes the daemon, SIGINT leaves, a crash may       *)
(*     happen anywhere;                                                    *)
(*   - the trust thread (trust/trust_manage.c) that evicts dead workers;   *)
(*   - the maintain thread (resource/resource_manage.c) that opens, syncs  *)
(*     and closes the daemon's side of each worker;                        *)
(*   - the time thread (timer/timer_system_time.c) that consumes the       *)
(*     resource task queue and walks the timer lists;                      *)
(*   - the operating system: names of shared memory, process liveness.     *)
(*                                                                         *)
(* The table and its lock live in shared memory.  Slot 0, the daemon's     *)
(* own entry, is always RUNNING, is never free and is left out.            *)
(***************************************************************************)
EXTENDS Integers, Sequences, FiniteSets, Functions

CONSTANTS
    Workers,        \* worker processes, each with its own inst_id
    Nil,            \* inst_id = 0 / addr = 0
    SlotCount,      \* DEFAULT_WORKER_SIZE (200)
    MesgCount,      \* mesg[128] of a worker
    TimerCount,     \* timer[128] of a worker
    ActionCount,    \* action[128] of a worker
    QueueSize,      \* RES_TASKLIST_SIZE (128)
    MaxCommits,     \* bound: commit() calls of one worker
    ThreadProbe     \* what pthread_kill(tid, 0) may say of the thread of a
                    \* live worker.  The id belongs to another process, so
                    \* the call is undefined: TRUE (found) or FALSE (ESRCH)

ASSUME RegistryAssumption ==
    /\ Nil \notin Workers \cup {"trust", "maintain"}
    /\ SlotCount \in Nat \ {0} /\ QueueSize \in Nat /\ MaxCommits \in Nat
    /\ MesgCount \in Nat /\ TimerCount \in Nat /\ ActionCount \in Nat
    /\ ThreadProbe \in SUBSET BOOLEAN /\ ThreadProbe # {}
    /\ "trust" \notin Workers /\ "maintain" \notin Workers

Slots  == 1 .. SlotCount
Timers == 1 .. TimerCount
NoSlot == 0

(* lmice_worker_state_e; EMPTY is the zero of memset and of remove_worker *)
States == {"EMPTY", "RUNNING", "MODIFIED", "DEAD"}
(* lmice_timer_state_e *)
TimerStates == {"NOTUSE", "DELETE", "RUNNING"}

VARIABLES
    lock,       \* server->lock: Nil (0) or who made it 1
    info,       \* server->worker[]: inst_id and state of every slot
    evt,        \* count of the server event (a counting semaphore)
    (* worker processes *)
    pc,         \* where each worker process is
    found,      \* local of init(): the free slot its scan stopped at
    linked,     \* the worker's shared memory names exist in the system
    reg,        \* in worker shm: how many slots of each kind are filled
    wstate,     \* in worker shm: m_worker->state
    commits,    \* commit() calls so far
    told,       \* history: messages registered at the last commit()
    (* the daemon *)
    addr,       \* res_worker[s].res.addr: whose shm slot s has mapped
    mesg,       \* res_worker[s].mesg[] with addr # 0
    action,     \* res_worker[s].action[] with active = 1
    active,     \* res_worker[s].timer[].active
    restask,    \* g_restask, the resource task queue
    tlist,      \* the timer lists, as one list of <<slot, timer>>
    mpc, mpos,  \* maintain thread: step and slot
    tpc, tpos,  \* trust thread: step and slot
    time,       \* time thread: step
    clearing,   \* time thread: the slot whose inst_id remove_worker_from_res has
                \* cleared and whose state it is about to clear
    fault,      \* an access to unmapped memory stopped the daemon
    reused      \* history: a worker entered a slot that still had a mapping
                \* or a pending DEL_WORKER of its previous worker

workerVars   == <<pc, found, linked, reg, wstate, commits, told>>
maintainVars == <<addr, mesg, action, mpc, mpos>>
trustVars    == <<tpc, tpos>>
timeVars     == <<tlist, time, clearing>>
vars == <<lock, info, evt, workerVars, maintainVars, active, restask,
          trustVars, timeVars, fault, reused>>

EmptyInfo == [inst |-> Nil, state |-> "EMPTY"]
NoRegs    == [mesg |-> 0, timer |-> 0, action |-> 0]

Task(type, s, t) == [type |-> type, slot |-> s, timer |-> t]
Tasks == [type : {"ADD_TIMER", "DEL_TIMER", "DEL_WORKER"},
          slot : Slots, timer : 0 .. TimerCount]

(* the j-th smallest member of K, and what is left of a list when only the *)
(* positions in K are kept and memmove closes the gaps                     *)
Nth(K, j) == CHOOSE i \in K : Cardinality({h \in K : h <= i}) = j
Kept(list, K) == [j \in 1 .. Cardinality(K) |-> list[Nth(K, j)]]

(* set_resource_task: fills the first free entry, refuses when full or, as *)
(* eal_spin_trylock gives up in the end, while the time thread, at         *)
(* peek_resource_task, has g_reslock.  The refusal is ignored by every     *)
(* caller, so the refused tasks are lost.                                  *)
LockedIn(tasks) ==
    IF time = "tasks" /\ clearing = NoSlot THEN SUBSET DOMAIN tasks ELSE {DOMAIN tasks}

SetResourceTask(tasks) ==
    {LET all == restask \o Kept(tasks, K)
     IN  SubSeq(all, 1, IF Len(all) < QueueSize THEN Len(all) ELSE QueueSize) : K \in LockedIn(tasks)}

(* create_resource_service: a fresh table, nothing mapped, no task.        *)
Init ==
    /\ lock = Nil
    /\ info = [s \in Slots |-> EmptyInfo]
    /\ evt = 0
    /\ pc = [w \in Workers |-> "out"]
    /\ found = [w \in Workers |-> NoSlot]
    /\ linked = [w \in Workers |-> FALSE]
    /\ reg = [w \in Workers |-> NoRegs]
    /\ wstate = [w \in Workers |-> "EMPTY"]
    /\ commits = [w \in Workers |-> 0]
    /\ told = [w \in Workers |-> 0]
    /\ addr = [s \in Slots |-> Nil]
    /\ mesg = [s \in Slots |-> {}]
    /\ action = [s \in Slots |-> {}]
    /\ active = [s \in Slots |-> [t \in Timers |-> "NOTUSE"]]
    /\ restask = <<>>
    /\ tlist = <<>>
    /\ mpc = "wait" /\ mpos = 1
    /\ tpc = "idle" /\ tpos = 1
    /\ time = "tasks" /\ clearing = NoSlot
    /\ fault = "none"
    /\ reused = FALSE

-----------------------------------------------------------------------------
(* Worker processes: the SPI library.                                      *)

daemonVars == <<maintainVars, active, restask, trustVars, timeVars, fault>>

(* init(), before the lock: create_worker_resource makes the worker's shm  *)
(* (zero-filled by the system) and its event.                              *)
SpiCreate(w) ==
    /\ pc[w] = "out"
    /\ pc' = [pc EXCEPT ![w] = "lock"]
    /\ linked' = [linked EXCEPT ![w] = TRUE]
    /\ UNCHANGED <<lock, info, evt, found, reg, wstate, commits, told, daemonVars, reused>>

(* mutant: the lock word is stored without being compared first *)
Mut_SpiLock(w) ==
    /\ pc[w] = "lock"
    /\ lock' = w
    /\ pc' = [pc EXCEPT ![w] = "scan"]
    /\ UNCHANGED <<info, evt, found, linked, reg, wstate, commits, told, daemonVars, reused>>

(* eal_spin_lock(&m_server->lock) *)
SpiLock(w) ==
    /\ pc[w] = "lock"
    /\ lock = Nil
    /\ lock' = w
    /\ pc' = [pc EXCEPT ![w] = "scan"]
    /\ UNCHANGED <<info, evt, found, linked, reg, wstate, commits, told, daemonVars, reused>>

(* mutant: a slot counts as free when it is not RUNNING *)
Mut_SpiScan(w) ==
    /\ pc[w] = "scan"
    /\ LET free == {s \in Slots : info[s].state # "RUNNING"}
       IN  found' = [found EXCEPT ![w] =
               IF free = {} THEN NoSlot
               ELSE CHOOSE s \in free : \A r \in free : s <= r]
    /\ pc' = [pc EXCEPT ![w] = "write"]
    /\ UNCHANGED <<lock, info, evt, linked, reg, wstate, commits, told, daemonVars, reused>>

(* the for loop: the first slot with inst_id = 0, if any *)
SpiScan(w) ==
    /\ pc[w] = "scan"
    /\ LET free == {s \in Slots : info[s].inst = Nil}
       IN  found' = [found EXCEPT ![w] =
               IF free = {} THEN NoSlot
               ELSE CHOOSE s \in free : \A r \in free : s <= r]
    /\ pc' = [pc EXCEPT ![w] = "write"]
    /\ UNCHANGED <<lock, info, evt, linked, reg, wstate, commits, told, daemonVars, reused>>

(* memcpy(p, &info) with state MODIFIED, then eal_spin_unlock.  With a     *)
(* full table nothing is written and init() still returns 0; the awake     *)
(* that would follow is commented out in the code.                         *)
SpiWrite(w) ==
    /\ pc[w] = "write"
    /\ LET s == found[w]
       IN  IF s = NoSlot
             THEN UNCHANGED <<info, reused>>
             ELSE /\ info' = [info EXCEPT ![s] = [inst |-> w, state |-> "MODIFIED"]]
                  /\ reused' = (\/ reused
                                \/ addr[s] # Nil \/ clearing = s
                                \/ \E i \in DOMAIN restask :
                                     restask[i].type = "DEL_WORKER" /\ restask[i].slot = s)
    /\ lock' = Nil
    /\ pc' = [pc EXCEPT ![w] = "in"]
    /\ found' = [found EXCEPT ![w] = NoSlot]
    /\ UNCHANGED <<evt, linked, reg, wstate, commits, told, daemonVars>>

(* The register functions take the first slot of their kind whose inst_id  *)
(* is 0 and fill it; with none left they return 1.  Slots are never given  *)
(* back, so the filled ones are a prefix and a count says all.             *)
Capacity == [mesg |-> MesgCount, timer |-> TimerCount, action |-> ActionCount]

SpiRegister(w, kind) ==
    /\ pc[w] = "in"
    /\ reg[w][kind] < Capacity[kind]
    /\ reg' = [reg EXCEPT ![w][kind] = @ + 1]
    /\ UNCHANGED <<lock, info, evt, pc, found, linked, wstate, commits, told, daemonVars, reused>>

(* register_publish, register_subscribe *)
SpiRegisterMessage(w) == SpiRegister(w, "mesg")

(* register_tick_event, register_timer_event *)
SpiRegisterTimer(w) == SpiRegister(w, "timer")

(* register_custom_event *)
SpiRegisterAction(w) == SpiRegister(w, "action")

(* commit(): marks the worker's OWN shm modified and posts the server      *)
(* event.  The state the maintain thread looks at is info[s].state.        *)
SpiCommit(w) ==
    /\ pc[w] = "in"
    /\ commits[w] < MaxCommits
    /\ commits' = [commits EXCEPT ![w] = @ + 1]
    /\ wstate' = [wstate EXCEPT ![w] = "MODIFIED"]
    /\ told' = [told EXCEPT ![w] = reg[w].mesg]
    /\ evt' = evt + 1
    /\ UNCHANGED <<lock, info, pc, found, linked, reg, daemonVars, reused>>

(* join() after SIGINT: every shm and event name the worker made is        *)
(* destroyed.  Its entry in the table stays.                               *)
SpiQuit(w) ==
    /\ pc[w] = "in"
    /\ pc' = [pc EXCEPT ![w] = "left"]
    /\ linked' = [linked EXCEPT ![w] = FALSE]
    /\ UNCHANGED <<lock, info, evt, found, reg, wstate, commits, told, daemonVars, reused>>

(* The process ends: after join() returned, or by a crash at any point,    *)
(* the critical section of init() included.  The lock word stays as it is. *)
Exit(w) ==
    /\ pc[w] \notin {"out", "dead"}
    /\ pc' = [pc EXCEPT ![w] = "dead"]
    /\ found' = [found EXCEPT ![w] = NoSlot]
    /\ UNCHANGED <<lock, info, evt, linked, reg, wstate, commits, told, daemonVars, reused>>

Worker(w) ==
    \/ SpiCreate(w) \/ SpiLock(w) \/ SpiScan(w) \/ SpiWrite(w)
    \/ SpiRegisterMessage(w) \/ SpiRegisterTimer(w) \/ SpiRegisterAction(w)
    \/ SpiCommit(w) \/ SpiQuit(w) \/ Exit(w)

-----------------------------------------------------------------------------
(* The trust thread: one trust_thread_proc scan per period.                *)

TrustLock ==
    /\ fault = "none"
    /\ tpc = "idle"
    /\ lock = Nil
    /\ lock' = "trust"
    /\ tpc' = "slot" /\ tpos' = 1
    /\ UNCHANGED <<info, evt, workerVars, maintainVars, active, restask, timeVars, fault, reused>>

(* mutant: the result of kill is tested the wrong way round *)
Mut_Evicts(w, probe) == w # Nil /\ (pc[w] # "dead" \/ ~probe)

(* kill(pid, 0) is exact; pthread_kill on the foreign thread id is not     *)
Evicts(w, probe) == w # Nil /\ (pc[w] = "dead" \/ ~probe)

(* mutant: the server event is not posted *)
Mut_TrustSlot(probe) ==
    /\ fault = "none"
    /\ tpc = "slot"
    /\ info' = IF Evicts(info[tpos].inst, probe)
                 THEN [info EXCEPT ![tpos] = [inst |-> Nil, state |-> "DEAD"]] ELSE info
    /\ IF tpos < SlotCount
         THEN tpos' = tpos + 1 /\ UNCHANGED <<tpc, lock>>
         ELSE tpos' = 1 /\ tpc' = "idle" /\ lock' = Nil
    /\ UNCHANGED <<evt, workerVars, maintainVars, active, restask, timeVars, fault, reused>>

(* One slot of the scan.  An evicted entry is zeroed, marked DEAD and the  *)
(* server event is posted; after the last slot the lock is released.       *)
TrustSlot(probe) ==
    /\ fault = "none"
    /\ tpc = "slot"
    /\ IF Evicts(info[tpos].inst, probe)
         THEN /\ info' = [info EXCEPT ![tpos] = [inst |-> Nil, state |-> "DEAD"]]
              /\ evt' = evt + 1
         ELSE UNCHANGED <<info, evt>>
    /\ IF tpos < SlotCount
         THEN tpos' = tpos + 1 /\ UNCHANGED <<tpc, lock>>
         ELSE tpos' = 1 /\ tpc' = "idle" /\ lock' = Nil
    /\ UNCHANGED <<workerVars, maintainVars, active, restask, timeVars, fault, reused>>

-----------------------------------------------------------------------------
(* The maintain thread: worker_maintain_thread_proc and                    *)
(* maintain_worker_resource.                                               *)

(* eal_event_wait_one returns *)
MaintainWake ==
    /\ fault = "none"
    /\ mpc = "wait"
    /\ evt > 0
    /\ evt' = evt - 1
    /\ mpc' = "lock"
    /\ UNCHANGED <<lock, info, workerVars, addr, mesg, action, mpos, active,
                   restask, trustVars, timeVars, fault, reused>>

MaintainLock ==
    /\ fault = "none"
    /\ mpc = "lock"
    /\ lock = Nil
    /\ lock' = "maintain"
    /\ mpc' = "slot" /\ mpos' = 1
    /\ UNCHANGED <<info, evt, workerVars, addr, mesg, action, active,
                   restask, trustVars, timeVars, fault, reused>>

(* next iteration of the loop over the slots, or unlock after the last *)
NextSlot ==
    IF mpos < SlotCount
      THEN mpos' = mpos + 1 /\ mpc' = "slot" /\ UNCHANGED lock
      ELSE mpos' = 1 /\ mpc' = "wait" /\ lock' = Nil

AllNotUse == [t \in Timers |-> "NOTUSE"]

(* close_worker_resource: messages and actions closed, timers switched     *)
(* off, the shm unmapped, and DEL_WORKER posted for the time thread.       *)
CloseWorkerResource(s) ==
    /\ addr' = [addr EXCEPT ![s] = Nil]
    /\ mesg' = [mesg EXCEPT ![s] = {}]
    /\ action' = [action EXCEPT ![s] = {}]
    /\ active' = [active EXCEPT ![s] = AllNotUse]
    /\ restask' \in SetResourceTask(<<Task("DEL_WORKER", s, 0)>>)

(* maintain_worker_timer_resource on a slot whose timers have the states   *)
(* act and whose worker has filled the first n timer slots                 *)
SyncTimers(act, n) ==
    [t \in Timers |->
        CASE act[t] = "NOTUSE"  /\ t <= n -> "RUNNING"
          [] act[t] = "RUNNING" /\ t > n  -> "DELETE"
          [] OTHER -> act[t]]

(* the tasks that go with those changes, in slot order *)
TimerTasks(s, act, n) ==
    LET new == SyncTimers(act, n)
        changed == {t \in Timers : new[t] # act[t]}
    IN  [i \in 1 .. Cardinality(changed) |->
            LET t == Nth(changed, i)
            IN  Task(IF new[t] = "RUNNING" THEN "ADD_TIMER" ELSE "DEL_TIMER", s, t)]

(* maintain_worker_message_resource, _timer_resource, _action_resource of  *)
(* slot s.  They read the shm mapped at the slot, that of worker w, with   *)
(* the server-side state the slot has (after init_worker_resource: none).  *)
SyncWorker(s, w, msgs, act) ==
    /\ mesg' = [mesg EXCEPT ![s] =
                  IF linked[w] THEN 1 .. reg[w].mesg ELSE msgs \cap (1 .. reg[w].mesg)]
    /\ active' = [active EXCEPT ![s] = SyncTimers(act, reg[w].timer)]
    /\ restask' \in SetResourceTask(TimerTasks(s, act, reg[w].timer))
    /\ action' = [action EXCEPT ![s] = 1 .. reg[w].action]

(* One slot of the loop, up to the assignment state = RUNNING.             *)
MaintainSkip(s) ==
    /\ \/ info[s].state = "RUNNING"
       \/ addr[s] = Nil /\ info[s].inst = Nil
       \/ addr[s] # Nil /\ info[s].inst # Nil /\ info[s].state # "MODIFIED"
    /\ NextSlot
    /\ UNCHANGED <<addr, mesg, action, active, restask, fault>>

MaintainClose(s) ==
    /\ info[s].state # "RUNNING"
    /\ addr[s] # Nil /\ info[s].inst = Nil
    /\ CloseWorkerResource(s)
    /\ NextSlot
    /\ UNCHANGED fault

(* open_worker_resource succeeds when the names exist: map, reset the      *)
(* server side, and go on to the sync                                      *)
MaintainOpen(s) ==
    /\ info[s].state = "MODIFIED"
    /\ addr[s] = Nil /\ info[s].inst # Nil /\ linked[info[s].inst]
    /\ addr' = [addr EXCEPT ![s] = info[s].inst]
    /\ SyncWorker(s, info[s].inst, {}, AllNotUse)
    /\ mpc' = "ack"
    /\ UNCHANGED <<lock, mpos, fault>>

(* mutant: after a failed open only the sync is skipped *)
Mut_MaintainOpenFails(s) ==
    /\ info[s].state = "MODIFIED"
    /\ addr[s] = Nil /\ info[s].inst # Nil /\ ~linked[info[s].inst]
    /\ mpc' = "ack"
    /\ UNCHANGED <<lock, addr, mesg, action, active, restask, mpos, fault>>

(* open_worker_resource fails, its result is ignored, and the sync reads   *)
(* through info pointers that are null or point to an unmapped shm         *)
MaintainOpenFails(s) ==
    /\ info[s].state = "MODIFIED"
    /\ addr[s] = Nil /\ info[s].inst # Nil /\ ~linked[info[s].inst]
    /\ fault' = "maintain"
    /\ UNCHANGED <<lock, addr, mesg, action, active, restask, mpc, mpos>>

(* the entry was written while the time thread cleared it and has lost its *)
(* state: opened if the names exist, but not synced                        *)
MaintainOpenOnly(s) ==
    /\ info[s].state \notin {"RUNNING", "MODIFIED"}
    /\ addr[s] = Nil /\ info[s].inst # Nil
    /\ IF linked[info[s].inst]
         THEN /\ addr' = [addr EXCEPT ![s] = info[s].inst]
              /\ mesg' = [mesg EXCEPT ![s] = {}]
              /\ action' = [action EXCEPT ![s] = {}]
              /\ active' = [active EXCEPT ![s] = AllNotUse]
         ELSE UNCHANGED <<addr, mesg, action, active>>
    /\ NextSlot
    /\ UNCHANGED <<restask, fault>>

(* "the worker synced at both server and worker side": sync only *)
MaintainSync(s) ==
    /\ info[s].state = "MODIFIED"
    /\ addr[s] # Nil /\ info[s].inst # Nil
    /\ SyncWorker(s, addr[s], mesg[s], active[s])
    /\ mpc' = "ack"
    /\ UNCHANGED <<lock, addr, mpos, fault>>

MaintainSlot ==
    /\ fault = "none"
    /\ mpc = "slot"
    /\ \/ MaintainSkip(mpos)
       \/ MaintainClose(mpos)
       \/ MaintainOpen(mpos)
       \/ MaintainOpenFails(mpos)
       \/ MaintainOpenOnly(mpos)
       \/ MaintainSync(mpos)
    /\ UNCHANGED <<info, evt, workerVars, trustVars, timeVars, reused>>

(* worker->info->state = WORKER_RUNNING, and on to the next slot *)
MaintainAck ==
    /\ fault = "none"
    /\ mpc = "ack"
    /\ info' = [info EXCEPT ![mpos].state = "RUNNING"]
    /\ NextSlot
    /\ UNCHANGED <<evt, workerVars, addr, mesg, action, active, restask,
                   trustVars, timeVars, fault, reused>>

-----------------------------------------------------------------------------
(* The time thread: every period resource_task_proc, then the walk over    *)
(* the lists.  tlist stands for the work lists of timers without a due     *)
(* time; which of them a timer is in, and when it fires, is the subject of *)
(* module TimerWheel.                                                      *)

(* timer->info of slot s can be read: it points into the mapped shm *)
Mapped(s) == addr[s] # Nil

(* remove_timer_from_list_by_worker: after memmove the next entry is at    *)
(* pos, and the loop goes on at pos + 1 without having looked at it        *)
RemoveByWorker(list, s) ==
    LET cut == CHOOSE C \in SUBSET DOMAIN list :
                   \A i \in DOMAIN list : i \in C <=> list[i][1] = s /\ i - 1 \notin C
    IN  Kept(list, DOMAIN list \ cut)

(* remove_timer_from_list: the first entry of the timer is cut out *)
RemoveFromList(list, e) ==
    Kept(list, {i \in DOMAIN list : list[i] = e => \E j \in DOMAIN list : j < i /\ list[j] = e})

(* append_timer_to_res / remove_timer_from_res: both read timer->info *)
TimeTimerTask(k) ==
    LET e == <<k.slot, k.timer>>
    IN  /\ k.type \in {"ADD_TIMER", "DEL_TIMER"}
        /\ IF ~Mapped(k.slot)
             THEN fault' = "time" /\ UNCHANGED <<tlist, active>>
             ELSE /\ fault' = fault
                  /\ tlist' = IF k.type = "ADD_TIMER" THEN Append(tlist, e)
                                                      ELSE RemoveFromList(tlist, e)
                  /\ active' = IF k.type = "DEL_TIMER" /\ e \in Range(tlist)
                                 THEN [active EXCEPT ![k.slot][k.timer] = "NOTUSE"]
                                 ELSE active
        /\ UNCHANGED <<info, clearing>>

(* remove_worker_from_res: the timers leave the lists and the entry of the *)
(* table is cleared, first inst_id, then the state (TimeClear).  The time  *)
(* thread does not take server->lock for it.                               *)
TimeRemoveWorker(k) ==
    /\ k.type = "DEL_WORKER"
    /\ tlist' = RemoveByWorker(tlist, k.slot)
    /\ info' = [info EXCEPT ![k.slot].inst = Nil]
    /\ clearing' = k.slot
    /\ UNCHANGED <<active, fault>>

(* peek_resource_task found a task *)
TimeTask ==
    /\ fault = "none"
    /\ time = "tasks" /\ clearing = NoSlot
    /\ restask # <<>>
    /\ restask' = Tail(restask)
    /\ TimeTimerTask(Head(restask)) \/ TimeRemoveWorker(Head(restask))
    /\ UNCHANGED <<lock, evt, workerVars, maintainVars, trustVars, time, reused>>

(* worker->info->state = 0, the end of remove_worker_from_res *)
TimeClear ==
    /\ fault = "none"
    /\ clearing # NoSlot
    /\ info' = [info EXCEPT ![clearing].state = "EMPTY"]
    /\ clearing' = NoSlot
    /\ UNCHANGED <<lock, evt, workerVars, maintainVars, active, restask,
                   trustVars, tlist, time, fault, reused>>

(* peek_resource_task found the queue empty, or gave up on g_reslock while *)
(* the maintain thread posts                                               *)
TimeNoTask ==
    /\ fault = "none"
    /\ time = "tasks" /\ clearing = NoSlot
    /\ restask = <<>> \/ mpc = "slot"
    /\ time' = "schedule"
    /\ UNCHANGED <<lock, info, evt, workerVars, maintainVars, active, restask,
                   trustVars, tlist, clearing, fault, reused>>

(* schedule_timer_and_ticker: entries that are not RUNNING leave the list  *)
(* (the trace line of timer_list_schedule reads their info first), and so  *)
(* do the timers that reach their trigger count in this walk: expired.     *)
TimeSchedule(expired) ==
    LET off(e) == active[e[1]][e[2]] # "RUNNING"
    IN  /\ fault = "none"
        /\ time = "schedule"
        /\ time' = "tasks"
        /\ IF \E i \in DOMAIN tlist : off(tlist[i]) /\ ~Mapped(tlist[i][1])
             THEN fault' = "time" /\ UNCHANGED <<tlist, active>>
             ELSE /\ fault' = fault
                  /\ tlist' = Kept(tlist, {i \in DOMAIN tlist : ~off(tlist[i]) /\ tlist[i] \notin expired})
                  /\ active' = [s \in Slots |-> [t \in Timers |->
                                  IF <<s, t>> \in Range(tlist) /\ (off(<<s, t>>) \/ <<s, t>> \in expired)
                                    THEN "NOTUSE" ELSE active[s][t]]]
        /\ UNCHANGED <<lock, info, evt, workerVars, maintainVars, restask, trustVars, clearing, reused>>

-----------------------------------------------------------------------------
Maintain == MaintainWake \/ MaintainLock \/ MaintainSlot \/ MaintainAck
Trust    == TrustLock \/ \E probe \in ThreadProbe : TrustSlot(probe)
Time     == TimeTask \/ TimeClear \/ TimeNoTask \/ \E expired \in SUBSET Range(tlist) : TimeSchedule(expired)

Next == (\E w \in Workers : Worker(w)) \/ Trust \/ Maintain \/ Time

Spec == Init /\ [][Next]_vars

(* The threads of the daemon are never stopped while it runs; trust and    *)
(* time are periodic and sleep between two rounds, so a lock that one of   *)
(* them frees is free for long: strong fairness on taking it.  A worker    *)
(* process that is alive goes through init(); nothing makes it register,   *)
(* commit, quit or die.                                                    *)
Fairness ==
    /\ SF_vars(TrustLock) /\ \A probe \in ThreadProbe : WF_vars(TrustSlot(probe))
    /\ WF_vars(MaintainWake) /\ SF_vars(MaintainLock)
    /\ WF_vars(MaintainSlot) /\ WF_vars(MaintainAck)
    /\ WF_vars(Time)
    /\ \A w \in Workers : SF_vars(SpiLock(w)) /\ WF_vars(SpiScan(w)) /\ WF_vars(SpiWrite(w))

FairSpec == Spec /\ Fairness

-----------------------------------------------------------------------------
(* Properties.                                                             *)

(* The fields have their ranges; the task queue never grows past its end.  *)
TypeOK ==
    /\ lock \in Workers \cup {Nil, "trust", "maintain"}
    /\ info \in [Slots -> [inst : Workers \cup {Nil}, state : States]]
    /\ evt \in Nat
    /\ pc \in [Workers -> {"out", "lock", "scan", "write", "in", "left", "dead"}]
    /\ found \in [Workers -> Slots \cup {NoSlot}]
    /\ linked \in [Workers -> BOOLEAN]
    /\ reg \in [Workers -> [mesg : 0 .. MesgCount, timer : 0 .. TimerCount,
                            action : 0 .. ActionCount]]
    /\ told \in [Workers -> 0 .. MesgCount]
    /\ wstate \in [Workers -> States]
    /\ commits \in [Workers -> 0 .. MaxCommits]
    /\ addr \in [Slots -> Workers \cup {Nil}]
    /\ mesg \in [Slots -> SUBSET (1 .. MesgCount)]
    /\ action \in [Slots -> SUBSET (1 .. ActionCount)]
    /\ active \in [Slots -> [Timers -> TimerStates]]
    /\ restask \in Seq(Tasks) /\ Len(restask) <= QueueSize
    /\ tlist \in Seq(Slots \X Timers)
    /\ mpc \in {"wait", "lock", "slot", "ack"} /\ mpos \in Slots
    /\ tpc \in {"idle", "slot"} /\ tpos \in Slots
    /\ time \in {"tasks", "schedule"} /\ clearing \in Slots \cup {NoSlot}
    /\ fault \in {"none", "maintain", "time"}
    /\ reused \in BOOLEAN

(* server->lock excludes: a worker between eal_spin_lock and               *)
(* eal_spin_unlock of init(), the trust scan and the maintain pass are     *)
(* never inside at the same time, also when one of them died inside.       *)
LockExclusion ==
    /\ \A w \in Workers : pc[w] \in {"scan", "write"} => lock = w
    /\ tpc = "slot" => lock = "trust"
    /\ mpc \in {"slot", "ack"} => lock = "maintain"

(* Two workers that run init() at the same time never get the same slot:   *)
(* the entry of a registered worker is never replaced by another worker,   *)
(* it can only be cleared.                                                 *)
NoOverwrite ==
    [][\A s \in Slots : info[s].inst # Nil => info'[s].inst \in {info[s].inst, Nil}]_vars

(* As long as no worker entered a slot before the daemon had finished with *)
(* its previous worker, and kill(2) is the only witness of death, an entry *)
(* is cleared only when its worker is dead: neither the trust thread nor a *)
(* late DEL_WORKER of the time thread removes a live worker.               *)
OnlyTheDeadAreRemoved ==
    [][\A s \in Slots :
         (~reused /\ info[s].inst # Nil /\ info'[s].inst = Nil) => pc[info[s].inst] = "dead"]_vars

(* Under the same condition a slot that the maintain thread marked RUNNING *)
(* has mapped the shm of the very worker that is registered in it.         *)
RunningIsMapped ==
    ~reused => \A s \in Slots :
                 info[s].state = "RUNNING" => info[s].inst # Nil /\ addr[s] = info[s].inst

(* With kill(2) the only witness of death, the daemon touches unmapped     *)
(* memory only after a worker has gone: with every worker alive, each task *)
(* finds the shm its timer points into, and each open finds the names of   *)
(* the worker.                                                             *)
FaultNeedsDeparture ==
    fault # "none" => \E w \in Workers : pc[w] \in {"left", "dead"}

(* The daemon cannot make progress on the table: it crashed, or a worker   *)
(* died inside init() and left server->lock at 1.                          *)
Stuck == fault # "none" \/ (lock \in Workers /\ pc[lock] = "dead")

(* A dead worker is eventually cleared from the table, by the DEL_WORKER   *)
(* task, and its shm is eventually unmapped: the wake-up the trust thread  *)
(* posts is never lost on the way to the maintain thread.                  *)
DeadIsRemoved ==
    /\ \A w \in Workers : pc[w] = "dead" ~> (Stuck \/ \A s \in Slots : info[s].inst # w)
    /\ \A w \in Workers, s \in Slots :
          (pc[w] = "dead" /\ addr[s] = w) ~> (Stuck \/ reused \/ addr[s] # w)

-----------------------------------------------------------------------------
(* What the comments of the code say, and the code does not do.            *)

(* resource_manage.h, lmice_worker_info_s: a (pid, tid) = (0, 0) entry is  *)
(* "empty instance and reusable": who takes it keeps it while it lives.    *)
FreeSlotIsReusable ==
    [][\A s \in Slots :
         (info[s].inst # Nil /\ info'[s].inst = Nil) => pc[info[s].inst] = "dead"]_vars

(* register_publish and its siblings: the information is registered and    *)
(* the platform notified to update ("通知平台更新"): what was registered    *)
(* before a commit() is eventually opened by the daemon.                   *)
CommitIsSeen ==
    \A w \in Workers, s \in Slots :
        (pc[w] = "in" /\ info[s].inst = w /\ told[w] = 1)
            ~> (Stuck \/ reused \/ pc[w] # "in" \/ 1 \in mesg[s])
=============================================================================
