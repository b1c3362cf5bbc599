----------------------------- MODULE DaemonProof -----------------------------
(***************************************************************************)
(* Proofs about the process of the daemon and its time thread.  Start,     *)
(* stop and crash, for any process ids and any number of crashes, clients  *)
(* and awakes: types, the order of the stop, the names a clean stop        *)
(* leaves, and how many starts a crash costs.  The timers, for all timers, *)
(* kinds, list bounds and array sizes: no timer triggers more often than   *)
(* its size says.  Where a timer is in the lists does not matter for that: *)
(* what counts is that a timer with no trigger left is no longer RUNNING,  *)
(* and that a walk triggers only RUNNING timers, even if it meets one a    *)
(* second time.                                                            *)
(***************************************************************************)
EXTENDS DaemonLifecycle, TimerWheel, TLAPS

-----------------------------------------------------------------------------
(* Start, stop and crash.                                                  *)

(* main has not created the threads with a quit flag, or has joined them all *)
Early == {"down", "shm", "evt", "wshm", "wevt", "task"}
Late  == {"worker", "unlink", "unmap", "free", "return"}

(* What is mapped and allocated at each step of main. *)
AliveAt(step) ==
    IF step \in {"down", "return"} THEN {}
    ELSE IF step \in {"shm", "free"} THEN {"param"}
    ELSE IF step \in {"evt", "unlink", "unmap"} THEN {"param", "board"}
    ELSE {"param", "lists", "board"}

(* Where the threads are at each step of main: the memory is there as long  *)
(* as a thread with a quit flag may run.                                    *)
Phase ==
    /\ alive = AliveAt(main)
    /\ main # "down" => pid \in Pids
    /\ main \in Early => \A t \in Loops : thr[t] = "none"
    /\ main \in Early \cup {"trust", "run"} => stopped = 0
    /\ main = "join" => stopped < 4
    /\ main \in Late => stopped = 4
    /\ \A i \in 1 .. 4 : i <= stopped => thr[Stopped[i]] = "gone"

(* The names the stop has unlinked are gone, unless a client made the event. *)
Unlinked ==
    /\ main \in Late => <<"task", 0>> \notin names
    /\ main \in {"unmap", "free", "return"} => disturbed \/ <<"evt", 0>> \notin names
    /\ main \in {"free", "return"} => <<"shm", 0>> \notin names
    /\ CleanStop

(* TypeOK in two parts: Boolean variables want a prover of their own. *)
Flags == own \in BOOLEAN /\ wired \in BOOLEAN /\ disturbed \in BOOLEAN

Rest ==
    /\ names \subseteq Names
    /\ main \in MainSteps
    /\ pid \in Pids \cup {0}
    /\ alive \subseteq {"param", "lists", "board"}
    /\ stopped \in 0 .. 4 /\ quit \subseteq Loops
    /\ thr \in [Threads -> {"none", "wait", "check", "work", "gone"}]
    /\ evt \in Nat
    /\ client \in {"out", "half", "in"}
    /\ failed \in 0 .. FailedCap
    /\ last \in {"clean", "failed", "fault", "crash"}
    /\ fault \subseteq Threads
    /\ crashes \in 0 .. MaxCrashes /\ opens \in 0 .. MaxOpens /\ awakes \in 0 .. MaxAwakes

IInv == TypeOK /\ Phase /\ Unlinked /\ StoppedThreadsAreDone

(* The threads with a quit flag, and all of them. *)
LEMMA LoopsAre == Loops = {"trust", "time", "io", "pool"}
<1>1. 1 .. 4 = {1, 2, 3, 4}
  BY SMT
<1>2. /\ Stopped[1] = "trust" /\ Stopped[2] = "time"
      /\ Stopped[3] = "io" /\ Stopped[4] = "pool" /\ Len(Stopped) = 4
  BY DEF Stopped
<1> QED
  BY <1>1, <1>2 DEF Loops

(* The threads main stops, and that they are all threads but the maintain one. *)
LEMMA StoppedAre ==
    /\ Stopped[1] = "trust" /\ Stopped[2] = "time"
    /\ Stopped[3] = "io" /\ Stopped[4] = "pool" /\ Len(Stopped) = 4
    /\ Threads = {"trust", "time", "io", "pool", "maintain"}
  BY LoopsAre DEF Stopped, Threads

(* The names of every daemon, and of the daemon's own worker. *)
LEMMA NamesAre ==
    /\ <<"shm", 0>> \in Names /\ <<"evt", 0>> \in Names /\ <<"task", 0>> \in Names
    /\ \A p \in Pids : <<"wshm", p>> \in Names /\ <<"wevt", p>> \in Names
    /\ Shared \X {0} = {<<"shm", 0>>, <<"evt", 0>>, <<"task", 0>>}
<1>1. Shared \X {0} = {<<"shm", 0>>, <<"evt", 0>>, <<"task", 0>>}
  BY SMT DEF Shared
<1> QED
  BY <1>1, SMT DEF Names, Private

(* The flags of TypeOK are for Zenon, the rest of it for the SMT solver. *)
LEMMA TypeParts == (TypeOK <=> Flags /\ Rest) /\ (TypeOK' <=> Flags' /\ Rest')
  BY Zenon DEF TypeOK, Flags, Rest

(* The state before the first start. *)
LEMMA InitHolds == Init => IInv
<1> SUFFICES ASSUME Init PROVE IInv
  OBVIOUS
<1> USE DEF Init
<1>1. TypeOK
  <2>1. Flags
    BY Zenon DEF Flags
  <2>2. Rest
    BY LifecycleAssumption, SMT DEF Rest, MainSteps, Shared, FailedCap
  <2> QED
    BY <2>1, <2>2, TypeParts
<1>2. Phase
  BY LoopsAre, StoppedAre, SMT DEF Phase, AliveAt, Early, Late
<1>3. Unlinked /\ StoppedThreadsAreDone
  BY DEF Unlinked, Late, CleanStop, StoppedThreadsAreDone
<1> QED
  BY <1>1, <1>2, <1>3 DEF IInv

(* The end of a process. *)
LEMMA GoneHolds ==
    ASSUME IInv, Gone
    PROVE  /\ Phase'
           /\ main' \in MainSteps /\ pid' \in Pids \cup {0}
           /\ alive' \subseteq {"param", "lists", "board"}
           /\ stopped' \in 0 .. 4 /\ quit' \subseteq Loops
           /\ thr' \in [Threads -> {"none", "wait", "check", "work", "gone"}]
           /\ evt' \in Nat /\ client' = client /\ opens' = opens /\ awakes' = awakes
<1> USE DEF Gone
<1>1. \A t \in Loops : thr'[t] = "none"
  BY LoopsAre, StoppedAre
<1>2. \A i \in 1 .. 4 : ~ (i <= stopped')
  BY SMT
<1>3. Phase'
  BY <1>1, <1>2, SMT DEF Phase, AliveAt, Early, Late
<1> QED
  BY <1>3, SMT DEF MainSteps

(* A process that ends in a failed start, a fault or a crash: nothing is  *)
(* claimed of the names it leaves.                                        *)
LEMMA BadEndHolds ==
    ASSUME IInv, Gone, names' \subseteq names, disturbed' \in BOOLEAN,
           failed' \in 0 .. FailedCap, last' \in {"failed", "fault", "crash"},
           fault' \subseteq {"maintain"}, crashes' \in 0 .. MaxCrashes
    PROVE  IInv'
<1>1. Flags'
  BY Zenon DEF Flags, Gone
<1>2. Rest'
  BY GoneHolds, TypeParts, StoppedAre, SMT DEF IInv, Rest
<1>3. Unlinked'
  BY SMT DEF Unlinked, CleanStop, Gone, Late
<1>4. StoppedThreadsAreDone'
  BY DEF StoppedThreadsAreDone
<1> QED
  BY <1>1, <1>2, <1>3, <1>4, GoneHolds, TypeParts DEF IInv

(* A start that meets a name fails and unlinks it. *)
LEMMA FailHolds ==
    ASSUME IInv, NEW n \in Names, NEW next, Create(n, next), n \in names
    PROVE  IInv'
<1>1. Fail /\ names' = names \ {n} /\ disturbed' = (disturbed \/ n[1] \in Private)
  BY DEF Create
<1>2. disturbed' \in BOOLEAN
  BY <1>1, Zenon
<1>3. failed \in 0 .. FailedCap /\ crashes \in 0 .. MaxCrashes /\ fault \subseteq {"maintain"}
  BY TypeParts DEF IInv, Rest, StoppedThreadsAreDone
<1>4. /\ failed' \in 0 .. FailedCap /\ last' \in {"failed", "fault", "crash"}
      /\ fault' \subseteq {"maintain"} /\ crashes' \in 0 .. MaxCrashes /\ Gone
  BY <1>1, <1>3, SMT DEF Fail, FailedCap
<1> QED
  BY <1>1, <1>2, <1>4, BadEndHolds

(* A start that does not meet the name has made it. *)
LEMMA CreatedHolds ==
    ASSUME IInv, NEW n \in Names, NEW next \in Early \cup {"trust"}, next # "down",
           Create(n, next), n \notin names, main # "down",
           own' \in BOOLEAN, evt' = evt,
           alive' = AliveAt(next), alive' \subseteq {"param", "lists", "board"},
           thr' \in [Threads -> {"none", "wait", "check", "work", "gone"}],
           main \in Early,
           next \in Early => \A t \in Loops : thr'[t] = "none"
    PROVE  IInv'
<1>1. /\ names' = names \cup {n} /\ main' = next
      /\ UNCHANGED <<disturbed, pid, quit, stopped, failed, last, fault, crashes,
                     client, wired, opens, awakes>>
  BY DEF Create, clients
<1>2. Flags'
  BY <1>1, TypeParts, Zenon DEF IInv, Flags
<1>3. Rest'
  <2>1. next \in MainSteps
    BY SMT DEF Early, MainSteps, Shared, Private
  <2> QED
    BY <1>1, <2>1, TypeParts, SMT DEF IInv, Rest
<1>4. Phase'
  <2>1. stopped = 0
    BY DEF IInv, Phase
  <2>2. next # "join" /\ next \notin Late
    BY SMT DEF Early, Late
  <2>3. \A i \in 1 .. 4 : ~ (i <= stopped')
    BY <1>1, <2>1, SMT
  <2> QED
    BY <1>1, <2>1, <2>2, <2>3, SMT DEF IInv, Phase, Early
<1>5. Unlinked'
  BY <1>1, SMT DEF Unlinked, CleanStop, Early, Late
<1>6. StoppedThreadsAreDone'
  BY <1>1 DEF IInv, StoppedThreadsAreDone
<1> QED
  BY <1>2, <1>3, <1>4, <1>5, <1>6, TypeParts DEF IInv

(* The steps of main that start the daemon. *)
LEMMA CreationHolds == IInv /\ Creation => IInv'
<1> SUFFICES ASSUME IInv, Creation PROVE IInv'
  OBVIOUS
<1>0. /\ Rest /\ Flags /\ alive = AliveAt(main)
      /\ main \in Early => \A t \in Loops : thr[t] = "none"
      /\ main # "down" => pid \in Pids
  BY TypeParts DEF IInv, Phase
<1>1. CASE CreateServerShm
  <2>1. main = "shm" /\ <<"shm", 0>> \in Names /\ Create(<<"shm", 0>>, "evt")
    BY <1>1, NamesAre DEF CreateServerShm, Create
  <2>2. CASE <<"shm", 0>> \in names
    BY <2>1, <2>2, FailHolds
  <2>3. CASE <<"shm", 0>> \notin names
    <3>1. alive' = alive \cup {"board"} /\ thr' = thr /\ evt' = evt /\ own' = own
      BY <1>1, <2>3 DEF CreateServerShm
    <3>2. alive' = AliveAt("evt") /\ alive' \subseteq {"param", "lists", "board"}
      BY <1>0, <2>1, <3>1, SMT DEF AliveAt
    <3>3. own' \in BOOLEAN
      BY <1>0, <3>1 DEF Flags
    <3> QED
      BY <1>0, <2>1, <2>3, <3>1, <3>2, <3>3, CreatedHolds DEF Rest, Early
  <2> QED
    BY <2>2, <2>3
<1>2. CASE CreateServerEvent
  <2>1. main = "evt" /\ <<"evt", 0>> \in Names /\ Create(<<"evt", 0>>, "wshm")
    BY <1>2, NamesAre DEF CreateServerEvent, Create
  <2>2. CASE <<"evt", 0>> \in names
    BY <2>1, <2>2, FailHolds
  <2>3. CASE <<"evt", 0>> \notin names
    <3>1. alive' = alive \cup {"lists"} /\ thr' = thr /\ evt' = evt /\ own' = TRUE
      BY <1>2, <2>3 DEF CreateServerEvent
    <3>2. alive' = AliveAt("wshm") /\ alive' \subseteq {"param", "lists", "board"}
      BY <1>0, <2>1, <3>1, SMT DEF AliveAt
    <3>3. own' \in BOOLEAN
      BY <3>1
    <3> QED
      BY <1>0, <2>1, <2>3, <3>1, <3>2, <3>3, CreatedHolds DEF Rest, Early
  <2> QED
    BY <2>2, <2>3
<1>3. CASE CreateWorkerShm
  <2>1. main = "wshm" /\ Create(<<"wshm", pid>>, "wevt")
    BY <1>3 DEF CreateWorkerShm, Create
  <2>2. <<"wshm", pid>> \in Names
    BY <1>0, <2>1, NamesAre, Zenon
  <2>3. CASE <<"wshm", pid>> \in names
    BY <2>1, <2>2, <2>3, FailHolds
  <2>4. CASE <<"wshm", pid>> \notin names
    <3>1. alive' = alive /\ thr' = thr /\ evt' = evt /\ own' = own
      BY <1>3, <2>4 DEF CreateWorkerShm
    <3>2. alive' = AliveAt("wevt") /\ alive' \subseteq {"param", "lists", "board"}
      BY <1>0, <2>1, <3>1, SMT DEF AliveAt
    <3>3. own' \in BOOLEAN
      BY <1>0, <3>1 DEF Flags
    <3> QED
      BY <1>0, <2>1, <2>2, <2>4, <3>1, <3>2, <3>3, CreatedHolds DEF Rest, Early
  <2> QED
    BY <2>3, <2>4
<1>4. CASE CreateWorkerEvent
  <2>1. main = "wevt" /\ Create(<<"wevt", pid>>, "task")
    BY <1>4 DEF CreateWorkerEvent, Create
  <2>2. <<"wevt", pid>> \in Names
    BY <1>0, <2>1, NamesAre, Zenon
  <2>3. CASE <<"wevt", pid>> \in names
    BY <2>1, <2>2, <2>3, FailHolds
  <2>4. CASE <<"wevt", pid>> \notin names
    <3>1. /\ alive' = alive /\ evt' = evt /\ own' = own
          /\ thr' = [thr EXCEPT !["maintain"] = "wait"]
      BY <1>4, <2>4 DEF CreateWorkerEvent
    <3>2. alive' = AliveAt("task") /\ alive' \subseteq {"param", "lists", "board"}
      BY <1>0, <2>1, <3>1, SMT DEF AliveAt
    <3>3. own' \in BOOLEAN
      BY <1>0, <3>1 DEF Flags
    <3>4. /\ thr' \in [Threads -> {"none", "wait", "check", "work", "gone"}]
          /\ \A t \in Loops : thr'[t] = "none"
      BY <1>0, <2>1, <3>1, LoopsAre, StoppedAre, SMT DEF Rest, Early
    <3> QED
      BY <2>1, <2>2, <2>4, <3>1, <3>2, <3>3, <3>4, CreatedHolds DEF Early
  <2> QED
    BY <2>3, <2>4
<1>5. CASE CreateTaskEvent
  <2>1. main = "task" /\ <<"task", 0>> \in Names /\ Create(<<"task", 0>>, "trust")
    BY <1>5, NamesAre DEF CreateTaskEvent, Create
  <2>2. CASE <<"task", 0>> \in names
    BY <2>1, <2>2, FailHolds
  <2>3. CASE <<"task", 0>> \notin names
    <3>1. /\ alive' = alive /\ evt' = evt /\ own' = own
          /\ thr' = [t \in Threads |-> IF t \in {"pool", "io", "time"} THEN "check" ELSE thr[t]]
      BY <1>5, <2>3 DEF CreateTaskEvent
    <3>2. alive' = AliveAt("trust") /\ alive' \subseteq {"param", "lists", "board"}
      BY <1>0, <2>1, <3>1, SMT DEF AliveAt
    <3>3. own' \in BOOLEAN
      BY <1>0, <3>1 DEF Flags
    <3>4. thr' \in [Threads -> {"none", "wait", "check", "work", "gone"}]
      BY <1>0, <3>1, SMT DEF Rest
    <3> QED
      BY <2>1, <2>3, <3>1, <3>2, <3>3, <3>4, CreatedHolds DEF Early
  <2> QED
    BY <2>2, <2>3
<1>6. CASE CreateTrust
  <2>1. /\ main = "trust" /\ main' = "run" /\ thr' = [thr EXCEPT !["trust"] = "check"]
        /\ failed' = 0 /\ disturbed' = FALSE
        /\ UNCHANGED <<names, pid, alive, stopped, quit, evt, own, last, fault, crashes,
                       client, wired, opens, awakes>>
    BY <1>6 DEF CreateTrust, clients
  <2>2. Flags'
    BY <1>0, <2>1, Zenon DEF Flags
  <2>3. Rest'
    BY <1>0, <2>1, StoppedAre, SMT DEF Rest, MainSteps, FailedCap
  <2>4. Phase'
    <3>1. alive' = AliveAt(main') /\ pid' \in Pids
      BY <1>0, <2>1, SMT DEF AliveAt
    <3>2. stopped' = 0 /\ \A i \in 1 .. 4 : ~ (i <= stopped')
      BY <2>1, SMT DEF IInv, Phase
    <3> QED
      BY <2>1, <3>1, <3>2, SMT DEF Phase, Early, Late
  <2>5. Unlinked' /\ StoppedThreadsAreDone'
    BY <2>1, SMT DEF IInv, Unlinked, CleanStop, Late, StoppedThreadsAreDone
  <2> QED
    BY <2>2, <2>3, <2>4, <2>5, TypeParts DEF IInv
<1> QED
  BY <1>1, <1>2, <1>3, <1>4, <1>5, <1>6 DEF Creation

(* A process begins. *)
LEMMA StartHolds == ASSUME IInv, NEW p \in Pids, Start(p) PROVE IInv'
<1>1. /\ main = "down" /\ main' = "shm" /\ pid' = p /\ alive' = {"param"}
      /\ UNCHANGED <<names, stopped, quit, thr, evt, own, failed, last, disturbed, fault,
                     crashes, client, wired, opens, awakes>>
  BY DEF Start, history, clients
<1>2. Flags'
  BY <1>1, TypeParts, Zenon DEF IInv, Flags
<1>3. Rest'
  BY <1>1, TypeParts, Zenon DEF IInv, Rest, MainSteps, Shared
<1>4. Phase'
  BY <1>1, SMTT(30) DEF IInv, Phase, AliveAt, Early, Late
<1>5. Unlinked' /\ StoppedThreadsAreDone'
  BY <1>1, SMT DEF IInv, Unlinked, CleanStop, Late, StoppedThreadsAreDone
<1> QED
  BY <1>2, <1>3, <1>4, <1>5, TypeParts DEF IInv

(* The steps of main that stop the daemon: one thread after another is told *)
(* to quit and joined, and only then its memory goes.                       *)
LEMMA StopHolds == IInv /\ Stop => IInv'
<1> SUFFICES ASSUME IInv, Stop PROVE IInv'
  OBVIOUS
<1>0. Flags /\ Rest /\ Phase /\ Unlinked /\ StoppedThreadsAreDone
  BY TypeParts DEF IInv
<1>1. CASE StopThread
  <2>1. /\ main = "run" \/ (main = "stop" /\ stopped < 4)
        /\ quit' = quit \cup {Stopped[stopped + 1]} /\ main' = "join"
        /\ UNCHANGED <<names, pid, alive, stopped, thr, evt, own, failed, last, disturbed,
                       fault, crashes, client, wired, opens, awakes>>
    BY <1>1, StoppedAre DEF StopThread, history, clients
  <2>2. Flags'
    BY <1>0, <2>1, Zenon DEF Flags
  <2>3. stopped \in 0 .. 3
    BY <1>0, <2>1, SMT DEF Rest, Phase
  <2>4. Stopped[stopped + 1] \in Loops
    BY <2>3, SMT DEF Loops
  <2>5. Rest'
    BY <1>0, <2>1, <2>4, Zenon DEF Rest, MainSteps
  <2>6. Phase'
    BY <1>0, <2>1, <2>3, SMT DEF Phase, AliveAt, Early, Late
  <2>7. Unlinked' /\ StoppedThreadsAreDone'
    BY <1>0, <2>1, SMT DEF Unlinked, CleanStop, Late, StoppedThreadsAreDone
  <2> QED
    BY <2>2, <2>5, <2>6, <2>7, TypeParts DEF IInv
<1>2. CASE JoinThread
  <2>1. /\ main = "join" /\ thr[Stopped[stopped + 1]] = "gone"
        /\ stopped' = stopped + 1 /\ main' = "stop"
        /\ UNCHANGED <<names, pid, alive, quit, thr, evt, own, failed, last, disturbed,
                       fault, crashes, client, wired, opens, awakes>>
    BY <1>2 DEF JoinThread, history, clients
  <2>2. Flags'
    BY <1>0, <2>1, Zenon DEF Flags
  <2>3. stopped \in 0 .. 3
    BY <1>0, <2>1, SMT DEF Rest, Phase
  <2>4. Rest'
    BY <1>0, <2>1, <2>3, SMT DEF Rest, MainSteps
  <2>5. \A i \in 1 .. 4 : i <= stopped' => thr'[Stopped[i]] = "gone"
    <3> SUFFICES ASSUME NEW i \in 1 .. 4, i <= stopped' PROVE thr'[Stopped[i]] = "gone"
      BY Zenon
    <3>1. i <= stopped \/ i = stopped + 1
      BY <2>1, <2>3, SMTT(30)
    <3> QED
      BY <1>0, <2>1, <3>1 DEF Phase
  <2>6. Phase'
    BY <1>0, <2>1, <2>5, Zenon DEF Phase, AliveAt, Early, Late
  <2>7. Unlinked' /\ StoppedThreadsAreDone'
    BY <1>0, <2>1, SMT DEF Unlinked, CleanStop, Late, StoppedThreadsAreDone
  <2> QED
    BY <2>2, <2>4, <2>6, <2>7, TypeParts DEF IInv
<1>3. CASE DestroyTaskEvent
  <2>1. /\ main = "stop" /\ stopped = 4 /\ names' = names \ {<<"task", 0>>} /\ main' = "worker"
        /\ UNCHANGED <<pid, alive, stopped, quit, thr, evt, own, failed, last, disturbed,
                       fault, crashes, client, wired, opens, awakes>>
    BY <1>3, StoppedAre DEF DestroyTaskEvent, process, history, clients
  <2>2. Flags'
    BY <1>0, <2>1, Zenon DEF Flags
  <2>3. Rest'
    BY <1>0, <2>1, Zenon DEF Rest, MainSteps
  <2>4. Phase'
    BY <1>0, <2>1, SMTT(30) DEF Phase, AliveAt, Early, Late
  <2>5. Unlinked' /\ StoppedThreadsAreDone'
    BY <1>0, <2>1, SMT DEF Unlinked, CleanStop, Late, StoppedThreadsAreDone
  <2> QED
    BY <2>2, <2>3, <2>4, <2>5, TypeParts DEF IInv
<1>4. CASE DestroyWorker
  <2>1. /\ main = "worker" /\ alive' = alive \ {"lists"} /\ main' = "unlink"
        /\ UNCHANGED <<names, pid, stopped, quit, thr, evt, own, failed, last, disturbed,
                       fault, crashes, client, wired, opens, awakes>>
    BY <1>4 DEF DestroyWorker, history, clients
  <2>2. Flags'
    BY <1>0, <2>1, Zenon DEF Flags
  <2>3. Rest'
    BY <1>0, <2>1, Zenon DEF Rest, MainSteps
  <2>4. alive' = AliveAt(main')
    BY <1>0, <2>1, Zenon DEF Phase, AliveAt
  <2>5. Phase'
    BY <1>0, <2>1, <2>4, Zenon DEF Phase, Early, Late
  <2>6. Unlinked' /\ StoppedThreadsAreDone'
    BY <1>0, <2>1, SMT DEF Unlinked, CleanStop, Late, StoppedThreadsAreDone
  <2> QED
    BY <2>2, <2>3, <2>5, <2>6, TypeParts DEF IInv
<1>5. CASE DestroyServerEvent
  <2>1. /\ main = "unlink" /\ names' = names \ {<<"evt", 0>>} /\ own' = FALSE /\ main' = "unmap"
        /\ UNCHANGED <<pid, alive, stopped, quit, thr, evt, failed, last, disturbed,
                       fault, crashes, client, wired, opens, awakes>>
    BY <1>5 DEF DestroyServerEvent, history, clients
  <2>2. Flags'
    BY <1>0, <2>1, Zenon DEF Flags
  <2>3. Rest'
    BY <1>0, <2>1, Zenon DEF Rest, MainSteps
  <2>4. Phase'
    BY <1>0, <2>1, Zenon DEF Phase, AliveAt, Early, Late
  <2>5. Unlinked' /\ StoppedThreadsAreDone'
    BY <1>0, <2>1, SMT DEF Unlinked, CleanStop, Late, StoppedThreadsAreDone
  <2> QED
    BY <2>2, <2>3, <2>4, <2>5, TypeParts DEF IInv
<1>6. CASE DestroyServerShm
  <2>1. /\ main = "unmap" /\ names' = names \ {<<"shm", 0>>} /\ alive' = alive \ {"board"}
        /\ main' = "free"
        /\ UNCHANGED <<pid, stopped, quit, thr, evt, own, failed, last, disturbed,
                       fault, crashes, client, wired, opens, awakes>>
    BY <1>6 DEF DestroyServerShm, history, clients
  <2>2. Flags'
    BY <1>0, <2>1, Zenon DEF Flags
  <2>3. Rest'
    BY <1>0, <2>1, Zenon DEF Rest, MainSteps
  <2>4. alive' = AliveAt(main')
    BY <1>0, <2>1, Zenon DEF Phase, AliveAt
  <2>5. Phase'
    BY <1>0, <2>1, <2>4, Zenon DEF Phase, Early, Late
  <2>6. Unlinked' /\ StoppedThreadsAreDone'
    BY <1>0, <2>1, SMT DEF Unlinked, CleanStop, Late, StoppedThreadsAreDone
  <2> QED
    BY <2>2, <2>3, <2>5, <2>6, TypeParts DEF IInv
<1>7. CASE FreeParam
  <2>1. /\ main = "free" /\ alive' = {} /\ main' = "return"
        /\ UNCHANGED <<names, pid, stopped, quit, thr, evt, own, failed, last, disturbed,
                       fault, crashes, client, wired, opens, awakes>>
    BY <1>7 DEF FreeParam, history, clients
  <2>2. Flags'
    BY <1>0, <2>1, Zenon DEF Flags
  <2>3. Rest'
    BY <1>0, <2>1, Zenon DEF Rest, MainSteps
  <2>4. Phase'
    BY <1>0, <2>1, Zenon DEF Phase, AliveAt, Early, Late
  <2>5. Unlinked' /\ StoppedThreadsAreDone'
    BY <1>0, <2>1, SMT DEF Unlinked, CleanStop, Late, StoppedThreadsAreDone
  <2> QED
    BY <2>2, <2>3, <2>4, <2>5, TypeParts DEF IInv
<1>8. CASE Return
  <2>1. main = "return" /\ Gone /\ last' = "clean" /\ UNCHANGED <<names, failed, disturbed, fault, crashes>>
    BY <1>8 DEF Return
  <2>2. Flags'
    BY <1>0, <2>1, Zenon DEF Flags, Gone
  <2>3. Rest' /\ Phase'
    BY <1>0, <2>1, GoneHolds, SMT DEF Rest
  <2>4. disturbed \/ names \cap (Shared \X {0}) = {}
    BY <1>0, <2>1, NamesAre, Zenon DEF Unlinked, Late
  <2>5. Unlinked' /\ StoppedThreadsAreDone'
    BY <1>0, <2>1, <2>4, SMT DEF Unlinked, CleanStop, Gone, Late, StoppedThreadsAreDone
  <2> QED
    BY <2>2, <2>3, <2>5, TypeParts DEF IInv
<1> QED
  BY <1>1, <1>2, <1>3, <1>4, <1>5, <1>6, <1>7, <1>8 DEF Stop

(* A thread with a quit flag works only while its memory is there: main is *)
(* then between the creation of the threads and the last join.             *)
LEMMA WorkingIsServed ==
    ASSUME IInv, NEW t \in Loops, thr[t] \in {"check", "work"}
    PROVE  main \notin Late /\ Needs[t] \subseteq alive
<1>0. Phase /\ Rest
  BY TypeParts DEF IInv
<1>1. main \notin Early
  BY <1>0 DEF Phase
<1>2. main \notin Late
  <2>1. PICK i \in 1 .. 4 : t = Stopped[i]
    BY DEF Loops
  <2>2. ~ (i <= stopped)
    BY <1>0, <2>1 DEF Phase
  <2> QED
    BY <1>0, <2>1, <2>2, SMT DEF Phase
<1>3. alive = {"param", "lists", "board"}
  BY <1>0, <1>1, <1>2, Zenon DEF Phase, AliveAt, Early, Late
<1>4. Needs[t] \subseteq {"param", "lists", "board"}
  BY LoopsAre, SMTT(30) DEF Needs
<1> QED
  BY <1>2, <1>3, <1>4

(* A thread that goes on: main does not, and a thread that has quit stays so. *)
LEMMA MoveHolds ==
    ASSUME IInv, NEW t \in Threads, NEW at \in {"wait", "check", "work", "gone"},
           Move(t, at), evt' \in Nat,
           t \in Loops => thr[t] \in {"check", "work"}
    PROVE  IInv'
<1>0. Flags /\ Rest /\ Phase /\ Unlinked /\ StoppedThreadsAreDone
  BY TypeParts DEF IInv
<1>1. /\ thr' = [thr EXCEPT ![t] = at]
      /\ UNCHANGED <<names, main, pid, alive, stopped, quit, own, failed, last, disturbed, fault,
                     crashes, client, wired, opens, awakes>>
  BY DEF Move, history, clients
<1>2. Flags'
  BY <1>0, <1>1, Zenon DEF Flags
<1>3. Rest'
  BY <1>0, <1>1, SMT DEF Rest
<1>4. \A u \in Threads : u # t => thr'[u] = thr[u]
  BY <1>0, <1>1 DEF Rest
<1>5. Loops \subseteq Threads /\ \A i \in 1 .. 4 : Stopped[i] \in Loops
  BY DEF Loops, Threads
<1>6. main' \in Early => \A u \in Loops : thr'[u] = "none"
  BY <1>0, <1>1, <1>4, <1>5, Zenon DEF Phase
<1>7. \A i \in 1 .. 4 : i <= stopped' => thr'[Stopped[i]] = "gone"
  <2> SUFFICES ASSUME NEW i \in 1 .. 4, i <= stopped PROVE thr'[Stopped[i]] = "gone"
    BY <1>1, Zenon
  <2>1. thr[Stopped[i]] = "gone" /\ Stopped[i] \in Loops
    BY <1>0, <1>5 DEF Phase
  <2>2. Stopped[i] # t
    BY <2>1, Zenon
  <2> QED
    BY <1>4, <1>5, <2>1, <2>2
<1>8. Phase'
  BY <1>0, <1>1, <1>6, <1>7, Zenon DEF Phase
<1>9. Unlinked' /\ StoppedThreadsAreDone'
  BY <1>0, <1>1, SMTT(30) DEF Unlinked, CleanStop, StoppedThreadsAreDone
<1> QED
  BY <1>2, <1>3, <1>8, <1>9, TypeParts DEF IInv

(* The maintain thread may work on memory that is gone, and ends the process. *)
LEMMA FaultHolds == ASSUME IInv, Fault("maintain") PROVE IInv'
<1>1. /\ Gone /\ fault' = fault \cup {"maintain"} /\ last' = "fault" /\ failed' = 0
      /\ UNCHANGED <<names, disturbed, crashes>>
  BY DEF Fault
<1>2. disturbed' \in BOOLEAN
  BY <1>1, TypeParts, Zenon DEF IInv, Flags
<1>3. fault' \subseteq {"maintain"} /\ crashes' \in 0 .. MaxCrashes /\ failed' \in 0 .. FailedCap
  BY <1>1, TypeParts, SMT DEF IInv, Rest, StoppedThreadsAreDone, FailedCap
<1> QED
  BY <1>1, <1>2, <1>3, BadEndHolds

(* The steps of the threads. *)
LEMMA ThreadsHold ==
    ASSUME IInv, (\E t \in Loops : ThreadStep(t)) \/ MaintainWake \/ MaintainWork
    PROVE  IInv'
<1>0. evt \in Nat /\ "maintain" \in Threads /\ "maintain" \notin Loops /\ Loops \subseteq Threads
  BY TypeParts, LoopsAre, StoppedAre DEF IInv, Rest
<1>1. ASSUME NEW t \in Loops, LoopCheck(t) PROVE IInv'
  <2>1. \E at \in {"gone", "work"} : Move(t, at)
    BY <1>1 DEF LoopCheck
  <2>2. evt' = evt /\ thr[t] = "check"
    BY <1>1 DEF LoopCheck
  <2> QED
    BY <1>0, <2>1, <2>2, MoveHolds
<1>2. ASSUME NEW t \in Loops, LoopWork(t) PROVE IInv'
  <2>1. thr[t] = "work"
    BY <1>2 DEF LoopWork
  <2>2. Needs[t] \subseteq alive
    BY <2>1, WorkingIsServed
  <2>3. Move(t, "check") /\ evt' = evt
    BY <1>2, <2>2 DEF LoopWork
  <2> QED
    BY <1>0, <2>1, <2>3, MoveHolds
<1>3. CASE MaintainWake
  <2>1. evt' \in Nat
    BY <1>0, <1>3, SMT DEF MaintainWake
  <2>2. Move("maintain", "work")
    BY <1>3 DEF MaintainWake
  <2> QED
    BY <1>0, <2>1, <2>2, MoveHolds
<1>4. CASE MaintainWork
  <2>1. CASE Move("maintain", "wait") /\ evt' = evt
    BY <1>0, <2>1, MoveHolds
  <2>2. CASE Fault("maintain")
    BY <2>2, FaultHolds
  <2> QED
    BY <1>4, <2>1, <2>2 DEF MaintainWork
<1> QED
  BY <1>1, <1>2, <1>3, <1>4, Zenon DEF ThreadStep

(* The process is killed. *)
LEMMA CrashHolds == ASSUME IInv, Crash PROVE IInv'
<1>1. /\ Gone /\ crashes' = crashes + 1 /\ last' = "crash" /\ failed' = 0 /\ crashes < MaxCrashes
      /\ UNCHANGED <<names, disturbed, fault>>
  BY DEF Crash
<1>2. disturbed' \in BOOLEAN
  BY <1>1, TypeParts, Zenon DEF IInv, Flags
<1>3. fault' \subseteq {"maintain"} /\ crashes' \in 0 .. MaxCrashes /\ failed' \in 0 .. FailedCap
  BY <1>1, TypeParts, LifecycleAssumption, SMT DEF IInv, Rest, StoppedThreadsAreDone, FailedCap
<1> QED
  BY <1>1, <1>2, <1>3, BadEndHolds

(* The clients: they may make the name of the event, which is noted. *)
LEMMA ClientsHold ==
    ASSUME IInv, ClientOpenShm \/ ClientOpenEvent \/ ClientAwake \/ ClientLeave
    PROVE  IInv'
<1>0. Flags /\ Rest /\ Phase /\ Unlinked /\ StoppedThreadsAreDone
  BY TypeParts, Zenon DEF IInv
<1>1. /\ UNCHANGED <<main, pid, alive, stopped, quit, thr, own, failed, last, fault, crashes>>
      /\ names' \in {names, names \cup {<<"evt", 0>>}}
      /\ disturbed' = disturbed \/ disturbed' = (disturbed \/ <<"evt", 0>> \notin names)
      /\ names' # names => disturbed'
      /\ disturbed => disturbed'
  <2>1. CASE ClientOpenEvent
    <3>1. /\ UNCHANGED <<main, pid, alive, stopped, quit, thr, own, failed, last, fault, crashes>>
          /\ names' = names \cup {<<"evt", 0>>}
          /\ disturbed' = (disturbed \/ <<"evt", 0>> \notin names)
      BY <2>1 DEF ClientOpenEvent, process
    <3>2. names' # names => <<"evt", 0>> \notin names
      BY <3>1, SMT
    <3> QED
      BY <3>1, <3>2, Zenon
  <2>2. CASE ClientOpenShm \/ ClientAwake \/ ClientLeave
    <3>1. UNCHANGED <<names, main, pid, alive, stopped, quit, thr, own, failed, last, disturbed,
                      fault, crashes>>
      BY <2>2 DEF ClientOpenShm, ClientAwake, ClientLeave, process, history
    <3> QED
      BY <3>1, Zenon
  <2> QED
    BY <2>1, <2>2
<1>2. Flags'
  <2>1. wired' \in {wired, own, FALSE}
    BY Zenon DEF ClientOpenShm, ClientOpenEvent, ClientAwake, ClientLeave
  <2> QED
    BY <1>0, <1>1, <2>1, Zenon DEF Flags
<1>3. Rest'
  <2>1. evt' \in Nat
    BY <1>0, SMTT(30) DEF Rest, ClientOpenShm, ClientOpenEvent, ClientAwake, ClientLeave, process
  <2>2. /\ client' \in {"out", "half", "in"} /\ opens' \in 0 .. MaxOpens
        /\ awakes' \in 0 .. MaxAwakes
    BY <1>0, LifecycleAssumption, SMTT(30)
       DEF Rest, ClientOpenShm, ClientOpenEvent, ClientAwake, ClientLeave
  <2> QED
    BY <1>0, <1>1, <2>1, <2>2, NamesAre, Zenon DEF Rest
<1>4. Phase'
  BY <1>0, <1>1, SMTT(30) DEF Phase
<1>5. Unlinked'
  BY <1>0, <1>1, NamesAre, SMTT(30) DEF Unlinked, CleanStop, Late
<1>6. StoppedThreadsAreDone'
  BY <1>0, <1>1 DEF StoppedThreadsAreDone
<1> QED
  BY <1>2, <1>3, <1>4, <1>5, <1>6, TypeParts DEF IInv

(* Every step keeps the invariant. *)
LEMMA StepHolds == IInv /\ [Next]_vars => IInv'
<1> SUFFICES ASSUME IInv, [Next]_vars PROVE IInv'
  OBVIOUS
<1>1. CASE UNCHANGED vars
  <2>1. UNCHANGED <<names, main, pid, alive, stopped, quit, thr, evt, own, failed, last, disturbed,
                    fault, crashes, client, wired, opens, awakes>>
    BY <1>1 DEF vars, process, history, clients
  <2> QED
    <3>1. Flags' /\ Rest'
      BY <2>1, TypeParts, Zenon DEF IInv, Flags, Rest
    <3>2. Phase'
      BY <2>1, Zenon DEF IInv, Phase
    <3>3. Unlinked' /\ StoppedThreadsAreDone'
      BY <2>1, Zenon DEF IInv, Unlinked, CleanStop, StoppedThreadsAreDone
    <3> QED
      BY <3>1, <3>2, <3>3, TypeParts, Zenon DEF IInv
<1>2. CASE Next
  BY <1>2, StartHolds, CreationHolds, StopHolds, CrashHolds, ThreadsHold, ClientsHold DEF Next
<1> QED
  BY <1>1, <1>2

(* The invariant holds in every reachable state. *)
LEMMA IInvAlways == Spec => []IInv
<1> QED
  BY InitHolds, StepHolds, PTL DEF Spec

(* Every variable of the lifecycle keeps its type: the stop never looks for  *)
(* a fifth thread, and worker_maintain_thread_proc takes from the server     *)
(* event only what was posted.                                               *)
THEOREM TypeCorrect == Spec => []TypeOK
<1>1. IInv => TypeOK
  BY DEF IInv
<1> QED
  BY <1>1, IInvAlways, PTL

(* The order of the stop in main.c is right: no thread with a quit flag works *)
(* on the board, the lists or res_param after main took them away.            *)
THEOREM StopIsOrdered == Spec => []StoppedThreadsAreDone
<1>1. IInv => StoppedThreadsAreDone
  BY DEF IInv
<1> QED
  BY <1>1, IInvAlways, PTL

(* A stop that ran to its end leaves none of the names every daemon uses,   *)
(* unless a client made the event anew.                                     *)
THEOREM StopIsClean == Spec => []CleanStop
<1>1. IInv => CleanStop
  BY DEF IInv, Unlinked
<1> QED
  BY <1>1, IInvAlways, PTL

-----------------------------------------------------------------------------
(* Why seven failed starts: the shared names that are left are the bits of a *)
(* number, and a start creates them in the order of the bits.  It fails on   *)
(* the lowest bit that is set, clears it, and leaves the lower ones set: it  *)
(* counts down by one.                                                       *)
Bit(ns, n) == IF <<n, 0>> \in ns THEN 1 ELSE 0

Stale(ns) == Bit(ns, "shm") + 2 * Bit(ns, "evt") + 4 * Bit(ns, "task")

(* What a start has made itself when it is at a step. *)
Made(step) ==
    IF step = "evt" THEN 1 ELSE IF step \in {"wshm", "wevt", "task"} THEN 3
    ELSE IF step = "trust" THEN 7 ELSE 0

Budget ==
    /\ main \in {"evt", "wshm", "wevt", "task", "trust"} => <<"shm", 0>> \in names
    /\ main \in {"wshm", "wevt", "task", "trust"} => <<"evt", 0>> \in names
    /\ main = "trust" => <<"task", 0>> \in names
    /\ main \notin Early \cup {"trust"} => failed = 0
    /\ ~ disturbed => failed + Stale(names) - Made(main) <= 7

BInv == IInv /\ Budget

(* A bit is 0 or 1. *)
LEMMA BitType == \A ns, n : Bit(ns, n) \in 0 .. 1
  BY SMT DEF Bit

(* Three bits are at most seven. *)
LEMMA StaleType == \A ns : Stale(ns) \in 0 .. 7
  BY BitType, SMT DEF Stale

(* What a start has made is a number. *)
LEMMA MadeType == \A step : Made(step) \in Nat
  BY SMT DEF Made

(* No failure is counted: what is left is at most seven. *)
LEMMA ZeroIsBudget ==
    ASSUME failed' = 0, main' \notin {"evt", "wshm", "wevt", "task", "trust"}
    PROVE  Budget'
<1>1. Stale(names') \in 0 .. 7 /\ Made(main') \in Nat
  BY StaleType, MadeType
<1> QED
  BY <1>1, SMT DEF Budget

(* A shared name is created, or its stale bit is cleared and one failure counted. *)
LEMMA CreateBudget ==
    ASSUME BInv, NEW n, NEW next,
           <<n, next>> \in {<<"shm", "evt">>, <<"evt", "wshm">>, <<"task", "trust">>},
           Create(<<n, 0>>, next)
    PROVE  Budget'
<1>0. failed \in 0 .. FailedCap /\ FailedCap = 10
  BY TypeParts DEF BInv, IInv, Rest, FailedCap
<1>1. main = n /\ n \notin Private
  BY SMT DEF Create, Private
<1>2. CASE <<n, 0>> \in names
  <2>1. names' = names \ {<<n, 0>>} /\ main' = "down"
    BY <1>2 DEF Create, Fail, Gone
  <2>2. ~ disturbed' => ~ disturbed
    BY <1>2, Zenon DEF Create
  <2>3. failed' = IF failed < FailedCap THEN failed + 1 ELSE failed
    BY <1>2 DEF Create, Fail
  <2>4. ~ disturbed' => failed' + Stale(names') <= 7
    <3> SUFFICES ASSUME ~ disturbed' PROVE failed' + Stale(names') <= 7
      OBVIOUS
    <3>1. failed + Stale(names) - Made(main) <= 7
      BY <2>2 DEF BInv, Budget
    <3>2. Stale(names') <= Stale(names) - Made(main) - 1
      BY <1>1, <1>2, <2>1, SMT DEF BInv, Budget, Stale, Bit, Made
    <3> QED
      BY <1>0, <2>3, <3>1, <3>2, StaleType, MadeType, SMT
  <2>5. Made(main') = 0
    BY <2>1, Zenon DEF Made
  <2> QED
    BY <2>1, <2>4, <2>5, StaleType, SMT DEF Budget, Early, FailedCap
<1>3. CASE <<n, 0>> \notin names
  <2>1. names' = names \cup {<<n, 0>>} /\ main' = next /\ disturbed' = disturbed /\ failed' = failed
    BY <1>3, Zenon DEF Create
  <2>2. Stale(names') - Made(main') = Stale(names) - Made(main)
    BY <1>1, <1>3, <2>1, SMT DEF BInv, Budget, Stale, Bit, Made
  <2> QED
    BY <1>0, <1>1, <2>1, <2>2, StaleType, MadeType, SMT DEF BInv, Budget, Early
<1> QED
  BY <1>2, <1>3, Zenon

(* A name of the daemon's own worker is created; meeting one is noted. *)
LEMMA PrivateBudget ==
    ASSUME BInv, NEW n \in Private, NEW next,
           <<n, next>> \in {<<"wshm", "wevt">>, <<"wevt", "task">>},
           Create(<<n, pid>>, next)
    PROVE  Budget'
<1>1. main = n /\ n \in {"wshm", "wevt"}
  BY SMT DEF Create, Private
<1>2. CASE <<n, pid>> \in names
  <2>1. disturbed' /\ main' = "down"
    BY <1>2, Zenon DEF Create, Fail, Gone
  <2> QED
    BY <2>1, SMT DEF Budget, Early
<1>3. CASE <<n, pid>> \notin names
  <2>1. names' = names \cup {<<n, pid>>} /\ main' = next /\ disturbed' = disturbed /\ failed' = failed
    BY <1>3 DEF Create
  <2>2. \A x \in {"shm", "evt", "task"} : <<x, 0>> \in names' <=> <<x, 0>> \in names
    BY <1>1, <2>1, Zenon
  <2>3. Stale(names') = Stale(names) /\ Made(main') = Made(main)
    BY <1>1, <2>1, <2>2, Zenon DEF Stale, Bit, Made
  <2> QED
    BY <1>1, <2>1, <2>2, <2>3, SMT DEF BInv, Budget, Early
<1> QED
  BY <1>2, <1>3

(* A step that neither moves main nor counts a failure. *)
LEMMA IdleBudget ==
    ASSUME BInv, main' = main, failed' = failed, names \subseteq names',
           ~ disturbed' => ~ disturbed /\ names' = names
    PROVE  Budget'
<1>1. ~ disturbed' => failed' + Stale(names') - Made(main') <= 7
  BY DEF BInv, Budget
<1> QED
  BY <1>1, SMT DEF BInv, Budget

(* Every step keeps the budget. *)
LEMMA BudgetStep == BInv /\ [Next]_vars => Budget'
<1> SUFFICES ASSUME BInv, [Next]_vars PROVE Budget'
  OBVIOUS
<1>0. IInv /\ failed \in 0 .. 10
  BY TypeParts DEF BInv, IInv, Rest, FailedCap
<1>1. CASE UNCHANGED vars
  <2>1. main' = main /\ failed' = failed /\ names' = names /\ disturbed' = disturbed
    BY <1>1 DEF vars, history
  <2> QED
    BY <2>1, IdleBudget
<1>2. ASSUME NEW p \in Pids, Start(p) PROVE Budget'
  <2>1. main = "down" /\ main' = "shm" /\ failed' = failed /\ names' = names /\ disturbed' = disturbed
    BY <1>2 DEF Start, history
  <2>2. Made(main') = 0 /\ Made(main) = 0
    BY <2>1, SMT DEF Made
  <2> QED
    BY <2>1, <2>2, SMT DEF BInv, Budget, Early
<1>3. CASE Creation
  <2>1. CASE CreateServerShm
    <3>1. Create(<<"shm", 0>>, "evt")
      BY <2>1 DEF CreateServerShm
    <3> QED
      BY <3>1, CreateBudget
  <2>2. CASE CreateServerEvent
    <3>1. Create(<<"evt", 0>>, "wshm")
      BY <2>2 DEF CreateServerEvent
    <3> QED
      BY <3>1, CreateBudget
  <2>3. CASE CreateWorkerShm
    <3>1. Create(<<"wshm", pid>>, "wevt") /\ "wshm" \in Private
      BY <2>3 DEF CreateWorkerShm, Private
    <3> QED
      BY <3>1, PrivateBudget
  <2>4. CASE CreateWorkerEvent
    <3>1. Create(<<"wevt", pid>>, "task") /\ "wevt" \in Private
      BY <2>4 DEF CreateWorkerEvent, Private
    <3> QED
      BY <3>1, PrivateBudget
  <2>5. CASE CreateTaskEvent
    <3>1. Create(<<"task", 0>>, "trust")
      BY <2>5 DEF CreateTaskEvent
    <3> QED
      BY <3>1, CreateBudget
  <2>6. CASE CreateTrust
    BY <2>6, ZeroIsBudget DEF CreateTrust
  <2> QED
    BY <1>3, <2>1, <2>2, <2>3, <2>4, <2>5, <2>6 DEF Creation
<1>4. CASE Stop
  <2>1. main \notin Early \cup {"trust"} /\ failed' = failed
    BY <1>4, Zenon DEF Stop, StopThread, JoinThread, DestroyTaskEvent, DestroyWorker,
           DestroyServerEvent, DestroyServerShm, FreeParam, Return, history, Early
  <2>2. failed' = 0
    BY <2>1, Zenon DEF BInv, Budget
  <2>3. main' \in {"join", "stop", "worker", "unlink", "unmap", "free", "return", "down"}
    BY <1>4, SMTT(30) DEF Stop, StopThread, JoinThread, DestroyTaskEvent, DestroyWorker,
           DestroyServerEvent, DestroyServerShm, FreeParam, Return, Gone
  <2>4. main' \notin {"evt", "wshm", "wevt", "task", "trust"}
    BY <2>3, SMT
  <2> QED
    BY <2>2, <2>4, ZeroIsBudget, Zenon
<1>5. CASE Crash
  BY <1>5, ZeroIsBudget DEF Crash, Gone
<1>6. ASSUME NEW t \in Threads, NEW at, Move(t, at) PROVE Budget'
  <2>1. main' = main /\ failed' = failed /\ names' = names /\ disturbed' = disturbed
    BY <1>6 DEF Move, history
  <2> QED
    BY <2>1, IdleBudget
<1>7. ASSUME NEW t \in Threads, Fault(t) PROVE Budget'
  BY <1>7, ZeroIsBudget, Zenon DEF Fault, Gone
<1>8. ASSUME NEW t \in Loops, ThreadStep(t) PROVE Budget'
  BY <1>6, <1>7, <1>8 DEF ThreadStep, LoopCheck, LoopWork, Threads
<1>9. CASE MaintainWake \/ MaintainWork
  BY <1>6, <1>7, <1>9 DEF MaintainWake, MaintainWork, Threads
<1>10. CASE ClientOpenEvent
  <2>1. /\ main' = main /\ failed' = failed /\ names' = names \cup {<<"evt", 0>>}
        /\ disturbed' = (disturbed \/ <<"evt", 0>> \notin names)
    BY <1>10 DEF ClientOpenEvent
  <2>2. ~ disturbed' => ~ disturbed /\ <<"evt", 0>> \in names
    BY <2>1, Zenon
  <2>3. ~ disturbed' => ~ disturbed /\ names' = names
    BY <2>1, <2>2
  <2> QED
    BY <2>1, <2>3, IdleBudget, Zenon
<1>11. CASE ClientOpenShm \/ ClientAwake \/ ClientLeave
  <2>1. main' = main /\ failed' = failed /\ names' = names /\ disturbed' = disturbed
    BY <1>11 DEF ClientOpenShm, ClientAwake, ClientLeave, history
  <2> QED
    BY <2>1, IdleBudget, Zenon
<1> QED
  BY <1>1, <1>2, <1>3, <1>4, <1>5, <1>8, <1>9, <1>10, <1>11 DEF Next

(* A crash costs at most seven failed starts, for any process ids and any   *)
(* number of crashes and clients, if no start meets a worker name of its    *)
(* own process id and no client makes the event name (eal_shm_create() and  *)
(* eal_event_create() unlink what they meet, main leaves what it made).     *)
THEOREM AtMostSevenStarts == Spec => []SevenStarts
<1>1. Init => BInv
  <2>1. Init => Budget
    BY SMT DEF Init, Budget, Stale, Bit, Made, Early
  <2> QED
    BY <2>1, InitHolds, Zenon DEF BInv
<1>2. BInv /\ [Next]_vars => BInv'
  BY StepHolds, BudgetStep DEF BInv
<1>3. BInv => SevenStarts
  <2> SUFFICES ASSUME BInv, ~ disturbed PROVE failed <= 7
    BY Zenon DEF SevenStarts
  <2>1. failed \in 0 .. 10 /\ failed + Stale(names) - Made(main) <= 7
    BY TypeParts, Zenon DEF BInv, Budget, IInv, Rest, FailedCap
  <2>2. Made(main) <= Stale(names)
    BY SMT DEF BInv, Budget, Stale, Bit, Made
  <2> QED
    BY <2>1, <2>2, StaleType, MadeType, SMT
<1> QED
  BY <1>1, <1>2, <1>3, PTL DEF Spec

-----------------------------------------------------------------------------
(* The timers.                                                             *)

(* The fields of a timer the argument is about. *)
TimerType ==
    /\ active \in [Timers -> {"NOTUSE", "RUNNING"}]
    /\ info \in [Timers -> Kinds \cup {NoKind}]
    /\ fired \in [Timers -> Nat]

(* A timer that was not opened has not triggered. *)
Unopened == \A t \in Timers : info[t] = NoKind => fired[t] = 0 /\ active[t] = "NOTUSE"

(* A RUNNING timer with a trigger count has a trigger left. *)
HasTrigger ==
    \A t \in Timers : active[t] = "RUNNING" /\ info[t].size > 0 => fired[t] < info[t].size

WheelInv == TimerType /\ Unopened /\ HasTrigger /\ NeverTooOften

(* A kind a worker registers is not the mark of a timer that is not open:  *)
(* its period is positive.                                                 *)
LEMMA KindIsOpen ==
    ASSUME NEW k \in Kinds
    PROVE  k # NoKind /\ k.size \in Nat
  BY WheelAssumption DEF WheelAssumption, NoKind

(* The size of a timer is a number. *)
LEMMA SizeIsNat ==
    ASSUME TimerType, NEW t \in Timers
    PROVE  info[t].size \in Nat
<1>1. CASE info[t] \in Kinds
  BY <1>1, KindIsOpen, Zenon
<1>2. CASE info[t] = NoKind
  BY <1>2 DEF NoKind
<1> QED
  BY <1>1, <1>2 DEF TimerType

(* What a step that leaves the timers alone, or only stops one, preserves. *)
LEMMA StoppingIsFine ==
    ASSUME WheelInv, info' = info, fired' = fired,
           active' = active \/ \E t \in Timers : active' = [active EXCEPT ![t] = "NOTUSE"]
    PROVE  WheelInv'
<1>1. TimerType'
  BY DEF WheelInv, TimerType
<1>2. \A u \in Timers : active'[u] \in {active[u], "NOTUSE"}
  BY Zenon DEF WheelInv, TimerType
<1>3. Unopened' /\ HasTrigger'
  BY <1>2, Zenon DEF WheelInv, Unopened, HasTrigger
<1> QED
  BY <1>1, <1>3, Zenon DEF WheelInv, NeverTooOften

(* Triggering a RUNNING timer is fine if it is stopped with its last       *)
(* trigger.                                                                *)
LEMMA TriggerIsFine ==
    ASSUME WheelInv, NEW t \in Timers, active[t] = "RUNNING", info' = info,
           fired' = [fired EXCEPT ![t] = @ + 1],
           \/ active' = [active EXCEPT ![t] = "NOTUSE"]
           \/ active' = active /\ fired'[t] < info[t].size
    PROVE  WheelInv'
<1>1. TimerType'
  BY DEF WheelInv, TimerType
<1>2. /\ fired'[t] = fired[t] + 1 /\ fired[t] \in Nat /\ info[t].size \in Nat
      /\ info[t] # NoKind
      /\ info[t].size > 0 => fired[t] < info[t].size
  BY SizeIsNat DEF WheelInv, TimerType, Unopened, HasTrigger
<1>3. \A u \in Timers \ {t} : fired'[u] = fired[u] /\ active'[u] = active[u]
  BY DEF WheelInv, TimerType
<1>4. \/ active'[t] = "NOTUSE"
      \/ fired'[t] < info[t].size
  BY Zenon DEF WheelInv, TimerType
<1>5. Unopened'
  BY <1>2, <1>3, Zenon DEF WheelInv, Unopened
<1>6. HasTrigger'
  BY <1>3, <1>4, Zenon DEF WheelInv, HasTrigger
<1>7. NeverTooOften'
  BY <1>2, <1>3 DEF WheelInv, NeverTooOften
<1> QED
  BY <1>1, <1>5, <1>6, <1>7, Zenon DEF WheelInv

(* Opening a timer starts it with no trigger behind it. *)
LEMMA OpenIsFine ==
    ASSUME WheelInv, NEW t \in Timers, NEW k \in Kinds, OpenTimer(t, k)
    PROVE  WheelInv'
<1>1. k # NoKind /\ k.size \in Nat
  BY KindIsOpen, Zenon
<1>2. TimerType'
  BY Zenon DEF OpenTimer, WheelInv, TimerType
<1>3. /\ info'[t] = k /\ active'[t] = "RUNNING" /\ fired'[t] = 0
      /\ \A u \in Timers \ {t} : info'[u] = info[u] /\ active'[u] = active[u] /\ fired'[u] = fired[u]
  BY Zenon DEF OpenTimer, WheelInv, TimerType, Unopened
<1>4. Unopened' /\ HasTrigger' /\ NeverTooOften'
  BY <1>1, <1>3 DEF WheelInv, Unopened, HasTrigger, NeverTooOften
<1> QED
  BY <1>2, <1>4 DEF WheelInv

(* One iteration of a walk. *)
LEMMA VisitIsFine ==
    ASSUME WheelInv, NEW t \in Timers, Visit(t)
    PROVE  WheelInv'
<1>1. CASE DropStopped(t)
  BY <1>1, StoppingIsFine, Zenon DEF DropStopped, NoTrigger
<1>2. CASE DueWait(t)
  BY <1>2, StoppingIsFine, Zenon DEF DueWait, NoTrigger
<1>3. CASE DueTrigger(t)
  BY <1>3, TriggerIsFine, Zenon DEF DueTrigger, Trigger
<1>4. CASE WorkWait(t)
  BY <1>4, StoppingIsFine DEF WorkWait, NoTrigger
<1>5. CASE WorkTrigger(t)
  <2>1. info' = info /\ active[t] = "RUNNING" /\ fired' = [fired EXCEPT ![t] = @ + 1]
    BY <1>5 DEF WorkTrigger, Trigger
  <2>2. fired'[t] \in Nat /\ info[t].size \in Nat
    BY <2>1, SizeIsNat DEF WheelInv, TimerType
  <2>3. CASE Exhausted(t, fired'[t])
    BY <1>5, <2>1, <2>3, TriggerIsFine, Zenon DEF WorkTrigger
  <2>4. CASE ~ Exhausted(t, fired'[t])
    <3>1. active' = active
      BY <1>5, <2>4, Zenon DEF WorkTrigger
    <3>2. fired'[t] < info[t].size
      BY <2>2, <2>4 DEF Exhausted
    <3> QED
      BY <2>1, <3>1, <3>2, TriggerIsFine, Zenon
  <2> QED
    BY <2>3, <2>4, Zenon
<1> QED
  BY <1>1, <1>2, <1>3, <1>4, <1>5 DEF Visit

(* Every step preserves the invariant. *)
LEMMA StepIsFine == WheelInv /\ [WheelNext]_wheelVars => WheelInv'
<1> SUFFICES ASSUME WheelInv, [WheelNext]_wheelVars PROVE WheelInv'
  OBVIOUS
<1>1. CASE Tick \/ AddTimer \/ StartWalk \/ NextArray
  BY <1>1, StoppingIsFine DEF Tick, AddTimer, StartWalk, NextArray, timerVars
<1>2. CASE \E t \in Timers : Visit(t)
  BY <1>2, VisitIsFine
<1>3. CASE \E t \in Timers, k \in Kinds : OpenTimer(t, k)
  BY <1>3, OpenIsFine
<1>4. CASE UNCHANGED wheelVars
  BY <1>4, StoppingIsFine, Zenon DEF wheelVars, timerVars
<1> QED
  BY <1>1, <1>2, <1>3, <1>4 DEF WheelNext, TimeThread

(* No timer exists when the thread starts. *)
LEMMA InitIsFine == WheelInit => WheelInv
  BY DEF WheelInit, WheelInv, TimerType, Unopened, HasTrigger, NeverTooOften, NoKind

(* A timer with a trigger count never triggers more often than that        *)
(* (due_list_schedule and timer_list_schedule), for all constants.         *)
THEOREM TriggersAreBounded == WheelSpec => []NeverTooOften
<1>1. WheelInv => NeverTooOften
  BY DEF WheelInv
<1> QED
  BY <1>1, InitIsFine, StepIsFine, PTL DEF WheelSpec

=============================================================================
