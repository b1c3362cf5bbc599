-------------------------- MODULE DaemonLifecycle --------------------------
(***************************************************************************)
(* Start, stop, crash and restart of the daemon (main.c and the create and *)
(* destroy functions it calls), against what outlives a process: the names *)
(* of shared memory and semaphores in the operating system.                *)
(*                                                                         *)
(* This is the Apple build.  eal_shm_create opens the name with O_CREAT    *)
(* and sets the size; the system refuses to set the size of shared memory  *)
(* that has one already, and the refusal unlinks the name.                 *)
(* eal_event_create uses O_EXCL, and unlinks the name when that fails.  So *)
(* a start that meets a name of a crashed daemon fails and removes it, and *)
(* leaves behind what it had made itself.                                  *)
(***************************************************************************)
EXTENDS Integers, Sequences, FiniteSets

CONSTANTS
    Pids,           \* process ids the system may give to the daemon
    MaxCrashes,     \* bound: crashes in a run
    MaxOpens,       \* bound: clients that open the server
    MaxAwakes       \* bound: awakes of the server event by clients

ASSUME LifecycleAssumption ==
    /\ Pids \subseteq Nat \ {0} /\ Pids # {}
    /\ MaxCrashes \in Nat /\ MaxOpens \in Nat /\ MaxAwakes \in Nat

(* names: the board shm and event, the task event, and per process id the  *)
(* shm and the event of the daemon's own worker                            *)
Shared  == {"shm", "evt", "task"}
Private == {"wshm", "wevt"}
Names   == (Shared \X {0}) \cup (Private \X Pids)

(* the threads main stops, in its order *)
Stopped == <<"trust", "time", "io", "pool">>
Loops   == {Stopped[i] : i \in 1 .. 4}
Threads == Loops \cup {"maintain"}

(* the memory a thread works on: res_param, the timer lists, the board shm *)
Needs == [trust |-> {"board"}, time |-> {"param", "lists", "board"},
          io |-> {"param"}, pool |-> {"param"}, maintain |-> {"param", "board"}]

VARIABLES
    names,      \* names that exist in the system
    main,       \* the step of main; "down": no process
    pid,        \* of the process; 0: none
    alive,      \* memory of the process that is mapped or allocated
    stopped,    \* number of threads main has stopped
    quit,       \* quit flags that are set
    thr,        \* where each thread is
    evt,        \* count of the daemon's server event
    own,        \* the name "evt" stands for the daemon's own event
    client,     \* a client in open_server_resource: "out", "half", "in"
    wired,      \* the event the client opened is the daemon's
    failed,     \* failed starts since the daemon last ran or crashed
    last,       \* history: how the last process ended
    disturbed,  \* history: a start met a worker name of its own pid, or a
                \* client made the event name, since the daemon last ran
    fault,      \* history: threads that worked on memory that was gone
    crashes, opens, awakes

process == <<pid, alive, stopped, quit, thr, evt, own>>
history == <<failed, last, disturbed, fault, crashes>>
clients == <<client, wired, opens, awakes>>
vars == <<names, main, process, history, clients>>

Init ==
    /\ names = {}
    /\ main = "down"
    /\ pid = 0
    /\ alive = {} /\ stopped = 0 /\ quit = {}
    /\ thr = [t \in Threads |-> "none"]
    /\ evt = 0 /\ own = FALSE
    /\ client = "out" /\ wired = FALSE
    /\ failed = 0 /\ last = "clean" /\ disturbed = FALSE /\ fault = {}
    /\ crashes = 0 /\ opens = 0 /\ awakes = 0

-----------------------------------------------------------------------------
(* The process ends; what the system keeps are the names.                  *)
Gone ==
    /\ main' = "down" /\ pid' = 0
    /\ alive' = {} /\ stopped' = 0 /\ quit' = {}
    /\ thr' = [t \in Threads |-> "none"]
    /\ evt' = 0 /\ own' = FALSE /\ wired' = FALSE
    /\ UNCHANGED <<client, opens, awakes>>

(* bound: the failures are counted up to here *)
FailedCap == 10

(* main returns 1 *)
Fail ==
    /\ Gone
    /\ failed' = IF failed < FailedCap THEN failed + 1 ELSE failed
    /\ last' = "failed"
    /\ UNCHANGED <<fault, crashes>>

(* Creating a shm or an event: the step goes on to next when the name is   *)
(* new, and else the name is unlinked and main returns 1.                  *)
Create(name, next) ==
    /\ main = name[1]
    /\ IF name \in names
         THEN /\ names' = names \ {name}
              /\ disturbed' = (disturbed \/ name[1] \in Private)
              /\ Fail
         ELSE /\ names' = names \cup {name}
              /\ main' = next
              /\ UNCHANGED <<disturbed, pid, quit, stopped, failed, last, fault, crashes, clients>>

Start(p) ==
    /\ main = "down"
    /\ main' = "shm" /\ pid' = p
    /\ alive' = {"param"}
    /\ UNCHANGED <<names, stopped, quit, thr, evt, own, history, clients>>

(* mutant: the name is not unlinked when the shm cannot be created *)
Mut_CreateServerShm ==
    /\ main = "shm"
    /\ IF <<"shm", 0>> \in names
         THEN Fail /\ UNCHANGED <<names, disturbed>>
         ELSE /\ names' = names \cup {<<"shm", 0>>}
              /\ main' = "evt"
              /\ alive' = alive \cup {"board"}
              /\ UNCHANGED <<disturbed, pid, quit, stopped, failed, last, fault, crashes, clients, thr, evt, own>>

(* create_server_resource, first the shm *)
CreateServerShm ==
    /\ Create(<<"shm", 0>>, "evt")
    /\ <<"shm", 0>> \notin names => alive' = alive \cup {"board"} /\ UNCHANGED <<thr, evt, own>>

(* ... then the event, and init_server_resource *)
CreateServerEvent ==
    /\ Create(<<"evt", 0>>, "wshm")
    /\ <<"evt", 0>> \notin names => alive' = alive \cup {"lists"} /\ own' = TRUE /\ UNCHANGED <<thr, evt>>

(* create_server_worker_resource; then the maintain thread is created *)
CreateWorkerShm ==
    /\ Create(<<"wshm", pid>>, "wevt")
    /\ <<"wshm", pid>> \notin names => UNCHANGED <<alive, thr, evt, own>>

CreateWorkerEvent ==
    /\ Create(<<"wevt", pid>>, "task")
    /\ <<"wevt", pid>> \notin names =>
           thr' = [thr EXCEPT !["maintain"] = "wait"] /\ UNCHANGED <<alive, evt, own>>

(* create_schedule_service: the task event, then its threads *)
CreateTaskEvent ==
    /\ Create(<<"task", 0>>, "trust")
    /\ <<"task", 0>> \notin names =>
           /\ thr' = [t \in Threads |-> IF t \in {"pool", "io", "time"} THEN "check" ELSE thr[t]]
           /\ UNCHANGED <<alive, evt, own>>

(* create_trust_thread; main then waits in getchar *)
CreateTrust ==
    /\ main = "trust"
    /\ main' = "run"
    /\ thr' = [thr EXCEPT !["trust"] = "check"]
    /\ failed' = 0 /\ disturbed' = FALSE
    /\ UNCHANGED <<names, pid, alive, stopped, quit, evt, own, last, fault, crashes, clients>>

Creation ==
    \/ CreateServerShm \/ CreateServerEvent \/ CreateWorkerShm \/ CreateWorkerEvent
    \/ CreateTaskEvent \/ CreateTrust

-----------------------------------------------------------------------------
(* The threads.  A thread that works on memory that is gone ends the       *)
(* process.                                                                *)
Fault(t) ==
    /\ Gone
    /\ fault' = fault \cup {t}
    /\ last' = "fault" /\ failed' = 0
    /\ UNCHANGED <<names, disturbed, crashes>>

Move(t, at) ==
    /\ thr' = [thr EXCEPT ![t] = at]
    /\ UNCHANGED <<names, main, pid, alive, stopped, quit, own, history, clients>>

(* the loop of the timer, io and task threads: look at the quit flag, ... *)
LoopCheck(t) ==
    /\ t \in Loops /\ thr[t] = "check"
    /\ Move(t, IF t \in quit THEN "gone" ELSE "work")
    /\ UNCHANGED evt

(* ... then call the handler *)
LoopWork(t) ==
    /\ t \in Loops /\ thr[t] = "work"
    /\ IF Needs[t] \subseteq alive THEN Move(t, "check") /\ UNCHANGED evt ELSE Fault(t)

(* worker_maintain_thread_proc has no quit flag *)
MaintainWake ==
    /\ thr["maintain"] = "wait" /\ evt > 0
    /\ evt' = evt - 1
    /\ Move("maintain", "work")

MaintainWork ==
    /\ thr["maintain"] = "work"
    /\ IF Needs["maintain"] \subseteq alive
         THEN Move("maintain", "wait") /\ UNCHANGED evt
         ELSE Fault("maintain")

-----------------------------------------------------------------------------
(* The stop: getchar returns, and main stops the threads one after another *)
StopThread ==
    /\ main = "run" \/ (main = "stop" /\ stopped < Len(Stopped))
    /\ quit' = quit \cup {Stopped[stopped + 1]}
    /\ main' = "join"
    /\ UNCHANGED <<names, pid, alive, stopped, thr, evt, own, history, clients>>

(* mutant: a thread is told to quit and not joined *)
Mut_JoinThread ==
    /\ main = "join"
    /\ stopped' = stopped + 1
    /\ main' = "stop"
    /\ UNCHANGED <<names, pid, alive, quit, thr, evt, own, history, clients>>

JoinThread ==
    /\ main = "join"
    /\ thr[Stopped[stopped + 1]] = "gone"
    /\ stopped' = stopped + 1
    /\ main' = "stop"
    /\ UNCHANGED <<names, pid, alive, quit, thr, evt, own, history, clients>>

(* the end of destroy_schedule_service *)
DestroyTaskEvent ==
    /\ main = "stop" /\ stopped = Len(Stopped)
    /\ names' = names \ {<<"task", 0>>}
    /\ main' = "worker"
    /\ UNCHANGED <<process, history, clients>>

(* destroy_resource_service: the worker is closed and its names stay, the  *)
(* lists are freed                                                         *)
DestroyWorker ==
    /\ main = "worker"
    /\ alive' = alive \ {"lists"}
    /\ main' = "unlink"
    /\ UNCHANGED <<names, pid, stopped, quit, thr, evt, own, history, clients>>

(* mutant: the event is closed and its name stays *)
Mut_DestroyServerEvent ==
    /\ main = "unlink"
    /\ own' = FALSE
    /\ main' = "unmap"
    /\ UNCHANGED <<names, pid, alive, stopped, quit, thr, evt, history, clients>>

(* destroy_server_resource: the event is unlinked and not closed, ...      *)
DestroyServerEvent ==
    /\ main = "unlink"
    /\ names' = names \ {<<"evt", 0>>}
    /\ own' = FALSE
    /\ main' = "unmap"
    /\ UNCHANGED <<pid, alive, stopped, quit, thr, evt, history, clients>>

(* ... the shm is unmapped and unlinked *)
DestroyServerShm ==
    /\ main = "unmap"
    /\ names' = names \ {<<"shm", 0>>}
    /\ alive' = alive \ {"board"}
    /\ main' = "free"
    /\ UNCHANGED <<pid, stopped, quit, thr, evt, own, history, clients>>

FreeParam ==
    /\ main = "free"
    /\ alive' = {}
    /\ main' = "return"
    /\ UNCHANGED <<names, pid, stopped, quit, thr, evt, own, history, clients>>

Return ==
    /\ main = "return"
    /\ Gone
    /\ last' = "clean"
    /\ UNCHANGED <<names, failed, disturbed, fault, crashes>>

(* the process is killed, at any point *)
Crash ==
    /\ main # "down" /\ crashes < MaxCrashes
    /\ Gone
    /\ crashes' = crashes + 1
    /\ last' = "crash" /\ failed' = 0
    /\ UNCHANGED <<names, disturbed, fault>>

-----------------------------------------------------------------------------
(* A client: open_server_resource opens the shm by its name, then the      *)
(* event, which eal_event_open creates when the name does not exist.       *)
ClientOpenShm ==
    /\ client = "out" /\ opens < MaxOpens /\ <<"shm", 0>> \in names
    /\ client' = "half" /\ opens' = opens + 1
    /\ UNCHANGED <<names, main, process, history, wired, awakes>>

ClientOpenEvent ==
    /\ client = "half"
    /\ client' = "in"
    /\ wired' = own
    /\ names' = names \cup {<<"evt", 0>>}
    /\ disturbed' = (disturbed \/ <<"evt", 0>> \notin names)
    /\ UNCHANGED <<main, process, failed, last, fault, crashes, opens, awakes>>

(* commit: the client awakes the event it holds, the daemon's or another *)
ClientAwake ==
    /\ client = "in" /\ awakes < MaxAwakes
    /\ evt' = IF wired THEN evt + 1 ELSE evt
    /\ awakes' = awakes + 1
    /\ UNCHANGED <<names, main, pid, alive, stopped, quit, thr, own, history, client, wired, opens>>

ClientLeave ==
    /\ client # "out"
    /\ client' = "out" /\ wired' = FALSE
    /\ UNCHANGED <<names, main, process, history, opens, awakes>>

-----------------------------------------------------------------------------
Stop == \/ StopThread \/ JoinThread
        \/ DestroyTaskEvent \/ DestroyWorker \/ DestroyServerEvent \/ DestroyServerShm
        \/ FreeParam \/ Return

ThreadStep(t) == LoopCheck(t) \/ LoopWork(t)

Next ==
    \/ \E p \in Pids : Start(p)
    \/ Creation \/ Stop \/ Crash
    \/ \E t \in Loops : ThreadStep(t)
    \/ MaintainWake \/ MaintainWork
    \/ ClientOpenShm \/ ClientOpenEvent \/ ClientAwake \/ ClientLeave

Spec == Init /\ [][Next]_vars

(* main runs on, except that it may wait in getchar for ever; the system   *)
(* schedules its threads; and whoever runs the daemon starts it again.     *)
Fairness ==
    /\ WF_vars(\E p \in Pids : Start(p))
    /\ WF_vars(Creation)
    /\ WF_vars(main # "run" /\ Stop)
    /\ \A t \in Loops : WF_vars(ThreadStep(t))

FairSpec == Spec /\ Fairness

-----------------------------------------------------------------------------
MainSteps ==
    Shared \cup Private \cup {"down", "trust", "run", "stop", "join",
                               "worker", "unlink", "unmap", "free", "return"}

(* Every variable has its type; in particular the maintain thread takes    *)
(* from the server event only what was posted to it.                       *)
TypeOK ==
    /\ names \subseteq Names
    /\ main \in MainSteps
    /\ pid \in Pids \cup {0}
    /\ alive \subseteq {"param", "lists", "board"}
    /\ stopped \in 0 .. 4 /\ quit \subseteq Loops
    /\ thr \in [Threads -> {"none", "wait", "check", "work", "gone"}]
    /\ evt \in Nat
    /\ own \in BOOLEAN /\ wired \in BOOLEAN /\ disturbed \in BOOLEAN
    /\ client \in {"out", "half", "in"}
    /\ failed \in 0 .. FailedCap
    /\ last \in {"clean", "failed", "fault", "crash"}
    /\ fault \subseteq Threads
    /\ crashes \in 0 .. MaxCrashes /\ opens \in 0 .. MaxOpens /\ awakes \in 0 .. MaxAwakes

(* The order of the stop is right for every thread that has a quit flag:   *)
(* none works on the board, the lists or res_param after main took them    *)
(* away.  The maintain thread, which main never stops, may.                *)
StoppedThreadsAreDone == fault \subseteq {"maintain"}

(* After a stop that ran to its end with no client making the event anew,  *)
(* none of the names that every daemon uses is left: the next start can    *)
(* only fail on the names of a worker with its own process id.             *)
CleanStop ==
    main = "down" /\ last = "clean" /\ ~disturbed => names \cap (Shared \X {0}) = {}

(* A crash costs at most seven failed starts, if no start meets a worker   *)
(* name of its own process id and no client makes the event name.  Each    *)
(* failed start removes one stale name but leaves behind what it made.     *)
SevenStarts == ~disturbed => failed <= 7

(* Whatever names crashes, failed starts and clients leave behind, starting *)
(* the daemon again and again brings it up.                                *)
Recovers == []<>(main = "run")
=============================================================================
