------------------------ MODULE WorkerRegistryProof ------------------------
(***************************************************************************)
(* Proofs about the worker table, for any number of workers, slots and     *)
(* resources, with crashes anywhere: the lock word in shared memory        *)
(* excludes, and with it no registration is overwritten although the time  *)
(* thread writes the table without the lock.  A running worker's entry is  *)
(* mapped as long as no slot is used twice, the entry of a live worker     *)
(* stays, and the daemon reads unmapped memory only after a worker left.   *)
(***************************************************************************)
EXTENDS WorkerRegistry, FiniteSetTheorems, TLAPS

WorkerPc == {"out", "lock", "scan", "write", "in", "left", "dead"}

(* the part of the types the argument needs *)
Shape ==
    /\ info \in [Slots -> [inst : Workers \cup {Nil}, state : States]]
    /\ pc \in [Workers -> WorkerPc]
    /\ found \in [Workers -> Slots \cup {NoSlot}]

(* the slot a worker found free is free until the worker writes it *)
FoundIsFree ==
    \A w \in Workers : pc[w] = "write" /\ found[w] # NoSlot => info[found[w]].inst = Nil

IInv == Shape /\ LockExclusion /\ FoundIsFree

(* an entry changes hands only through the writes of SpiWrite *)
OnlyCleared == \A s \in Slots : info'[s].inst \in {info[s].inst, Nil}

-----------------------------------------------------------------------------
(* The table starts empty and unlocked.                                    *)
LEMMA InitIInv == Init => IInv
BY RegistryAssumption DEF Init, IInv, Shape, LockExclusion, FoundIsFree, EmptyInfo, States, WorkerPc

(* A step that leaves the worker processes alone, at most clears entries   *)
(* and keeps the lock for those who hold it keeps the invariant.           *)
LEMMA DaemonStep ==
    ASSUME IInv, UNCHANGED <<pc, found>>, LockExclusion',
           info' \in [Slots -> [inst : Workers \cup {Nil}, state : States]],
           OnlyCleared
    PROVE  IInv'
<1>1. Shape'
  BY DEF IInv, Shape
<1>2. FoundIsFree'
  BY DEF IInv, Shape, FoundIsFree, OnlyCleared
<1> QED BY <1>1, <1>2 DEF IInv

(* Setting only the state of an entry.                                     *)
LEMMA StateOnly ==
    ASSUME Shape, NEW s, NEW v \in States, info' = [info EXCEPT ![s].state = v]
    PROVE  info' \in [Slots -> [inst : Workers \cup {Nil}, state : States]] /\ OnlyCleared
BY Zenon DEF Shape, OnlyCleared

(* A scan that starts at slot 1 has a first hit when there is any.         *)
LEMMA Smallest ==
    ASSUME NEW T, T \subseteq Nat, T # {}
    PROVE  \E x \in T : \A y \in T : x <= y
<1>1. PICK x \in T : \A y \in T : ~ (<<y, x>> \in OpToRel(<, Nat))
  BY NatLessThanWellFounded, WFMin, Zenon
<1>2. ASSUME NEW y \in T, y < x PROVE FALSE
  <2>1. <<y, x>> \in Nat \X Nat
    OBVIOUS
  <2>2. <<y, x>> \in OpToRel(<, Nat)
    BY <1>2, <2>1 DEF OpToRel
  <2> QED BY <1>1, <2>2, Zenon
<1>3. x \in Nat /\ \A y \in T : y \in Nat
  OBVIOUS
<1> QED BY <1>2, <1>3

(* Every step of a worker process keeps the invariant.                     *)
LEMMA WorkerStep ==
    ASSUME IInv, NEW w \in Workers, Worker(w)
    PROVE  IInv'
<1> USE RegistryAssumption DEF daemonVars, maintainVars, trustVars, timeVars
<1>1. CASE SpiCreate(w)
  BY <1>1 DEF SpiCreate, IInv, Shape, LockExclusion, FoundIsFree, WorkerPc
<1>2. CASE SpiLock(w)
  <2>1. \A v \in Workers : pc[v] \notin {"scan", "write"}
    BY <1>2 DEF SpiLock, IInv, LockExclusion
  <2>2. tpc # "slot" /\ mpc \notin {"slot", "ack"}
    BY <1>2 DEF SpiLock, IInv, LockExclusion
  <2>3. Shape' /\ FoundIsFree'
    BY <1>2 DEF SpiLock, IInv, Shape, FoundIsFree, WorkerPc
  <2>4. LockExclusion'
    BY <1>2, <2>1, <2>2 DEF SpiLock, IInv, Shape, LockExclusion
  <2> QED BY <2>3, <2>4 DEF IInv
<1>3. CASE SpiScan(w)
  <2> DEFINE free == {s \in Slots : info[s].inst = Nil}
  <2>1. found'[w] \in Slots \cup {NoSlot} /\ (found'[w] # NoSlot => info[found'[w]].inst = Nil)
    <3>1. CASE free = {}
      BY <1>3, <3>1 DEF SpiScan, IInv, Shape
    <3>2. CASE free # {}
      <4>1. \E s \in free : \A r \in free : s <= r
        <5>1. free \subseteq Nat
          BY DEF Slots
        <5> HIDE DEF free
        <5> QED BY <3>2, <5>1, Smallest, Zenon
      <4>2. found'[w] \in free
        BY <1>3, <3>2, <4>1 DEF SpiScan, IInv, Shape
      <4> QED BY <4>2
    <3> QED BY <3>1, <3>2
  <2>2. Shape'
    BY <1>3, <2>1 DEF SpiScan, IInv, Shape, WorkerPc
  <2>3. FoundIsFree'
    BY <1>3, <2>1, Zenon DEF SpiScan, IInv, Shape, FoundIsFree
  <2>4. LockExclusion'
    BY <1>3 DEF SpiScan, IInv, Shape, LockExclusion
  <2> QED BY <2>2, <2>3, <2>4 DEF IInv
<1>4. CASE SpiWrite(w)
  <2>1. lock = w /\ \A v \in Workers : v # w => pc[v] \notin {"scan", "write"}
    BY <1>4 DEF SpiWrite, IInv, LockExclusion
  <2>2. tpc # "slot" /\ mpc \notin {"slot", "ack"}
    BY <2>1 DEF IInv, LockExclusion
  <2>3. Shape'
    <3>1. pc' \in [Workers -> WorkerPc] /\ found' \in [Workers -> Slots \cup {NoSlot}]
      BY <1>4 DEF SpiWrite, IInv, Shape, WorkerPc
    <3>2. CASE found[w] = NoSlot
      BY <1>4, <3>1, <3>2 DEF SpiWrite, IInv, Shape
    <3>3. CASE found[w] # NoSlot
      <4>1. info' = [info EXCEPT ![found[w]] = [inst |-> w, state |-> "MODIFIED"]]
        BY <1>4, <3>3 DEF SpiWrite
      <4>2. [inst |-> w, state |-> "MODIFIED"] \in [inst : Workers \cup {Nil}, state : States]
        BY DEF States
      <4> QED BY <3>1, <4>1, <4>2, Zenon DEF IInv, Shape
    <3> QED BY <3>2, <3>3
  <2>4. FoundIsFree' /\ LockExclusion'
    BY <1>4, <2>1, <2>2 DEF SpiWrite, IInv, Shape, FoundIsFree, LockExclusion
  <2> QED BY <2>3, <2>4 DEF IInv
<1>5. CASE SpiRegisterMessage(w) \/ SpiRegisterTimer(w) \/ SpiRegisterAction(w)
  BY <1>5 DEF SpiRegisterMessage, SpiRegisterTimer, SpiRegisterAction, SpiRegister,
     IInv, Shape, LockExclusion, FoundIsFree
<1>6. CASE SpiCommit(w)
  BY <1>6 DEF SpiCommit, IInv, Shape, LockExclusion, FoundIsFree
<1>7. CASE SpiQuit(w)
  BY <1>7 DEF SpiQuit, IInv, Shape, LockExclusion, FoundIsFree, WorkerPc
<1>8. CASE Exit(w)
  BY <1>8 DEF Exit, IInv, Shape, LockExclusion, FoundIsFree, WorkerPc
<1> QED BY <1>1, <1>2, <1>3, <1>4, <1>5, <1>6, <1>7, <1>8 DEF Worker

(* Every step of the trust thread keeps the invariant, and clears at most. *)
LEMMA TrustStep ==
    ASSUME IInv, Trust
    PROVE  IInv' /\ OnlyCleared
<1> USE RegistryAssumption DEF workerVars, maintainVars, timeVars
<1>1. CASE TrustLock
  <2>1. LockExclusion'
    <3>1. \A v \in Workers : pc[v] \notin {"scan", "write"}
      BY <1>1 DEF TrustLock, IInv, LockExclusion
    <3>2. mpc \notin {"slot", "ack"}
      BY <1>1 DEF TrustLock, IInv, LockExclusion
    <3> QED BY <1>1, <3>1, <3>2 DEF TrustLock, LockExclusion
  <2>2. OnlyCleared
    BY <1>1 DEF TrustLock, OnlyCleared
  <2> QED BY <1>1, <2>1, <2>2, DaemonStep DEF TrustLock, IInv, Shape
<1>2. ASSUME NEW probe \in ThreadProbe, TrustSlot(probe)
      PROVE  IInv' /\ OnlyCleared
  <2>1. info' \in [Slots -> [inst : Workers \cup {Nil}, state : States]] /\ OnlyCleared
    <3>1. CASE Evicts(info[tpos].inst, probe)
      <4>1. info' = [info EXCEPT ![tpos] = [inst |-> Nil, state |-> "DEAD"]]
        BY <1>2, <3>1 DEF TrustSlot
      <4>2. [inst |-> Nil, state |-> "DEAD"] \in [inst : Workers \cup {Nil}, state : States]
        BY DEF States
      <4> QED BY <4>1, <4>2, Zenon DEF IInv, Shape, OnlyCleared
    <3>2. CASE ~Evicts(info[tpos].inst, probe)
      BY <1>2, <3>2 DEF TrustSlot, IInv, Shape, OnlyCleared
    <3> QED BY <3>1, <3>2
  <2>2. LockExclusion'
    <3>1. lock = "trust" /\ (\A v \in Workers : pc[v] \notin {"scan", "write"}) /\ mpc \notin {"slot", "ack"}
      BY <1>2 DEF TrustSlot, IInv, LockExclusion
    <3> QED BY <1>2, <3>1 DEF TrustSlot, LockExclusion
  <2> QED BY <1>2, <2>1, <2>2, DaemonStep DEF TrustSlot
<1> QED BY <1>1, <1>2 DEF Trust

(* Every step of the maintain thread keeps the invariant and the inst_ids. *)
LEMMA MaintainStep ==
    ASSUME IInv, Maintain
    PROVE  IInv' /\ OnlyCleared
<1> USE RegistryAssumption DEF workerVars, trustVars, timeVars
<1>1. CASE MaintainWake
  <2>1. LockExclusion' /\ OnlyCleared
    BY <1>1 DEF MaintainWake, IInv, LockExclusion, OnlyCleared
  <2> QED BY <1>1, <2>1, DaemonStep DEF MaintainWake, IInv, Shape
<1>2. CASE MaintainLock
  <2>1. (\A v \in Workers : pc[v] \notin {"scan", "write"}) /\ tpc # "slot"
    BY <1>2 DEF MaintainLock, IInv, LockExclusion
  <2>2. LockExclusion' /\ OnlyCleared
    BY <1>2, <2>1 DEF MaintainLock, LockExclusion, OnlyCleared
  <2> QED BY <1>2, <2>2, DaemonStep DEF MaintainLock, IInv, Shape
<1>3. CASE MaintainSlot
  <2>1. lock = "maintain" /\ (\A v \in Workers : pc[v] \notin {"scan", "write"}) /\ tpc # "slot"
    BY <1>3 DEF MaintainSlot, IInv, LockExclusion
  <2>2. UNCHANGED <<info, pc, found, tpc>>
    BY <1>3 DEF MaintainSlot
  <2>3. lock' = lock \/ (lock' = Nil /\ mpc' = "wait")
    BY <1>3, Zenon DEF MaintainSlot, MaintainSkip, MaintainClose, MaintainOpen, MaintainOpenFails,
       MaintainOpenOnly, MaintainSync, NextSlot
  <2>4. LockExclusion' /\ OnlyCleared
    BY <2>1, <2>2, <2>3 DEF LockExclusion, OnlyCleared
  <2> QED BY <2>2, <2>4, DaemonStep DEF IInv, Shape
<1>4. CASE MaintainAck
  <2>1. lock = "maintain" /\ (\A v \in Workers : pc[v] \notin {"scan", "write"}) /\ tpc # "slot"
    BY <1>4 DEF MaintainAck, IInv, LockExclusion
  <2>2. LockExclusion'
    BY <1>4, <2>1 DEF MaintainAck, NextSlot, LockExclusion
  <2>3. "RUNNING" \in States /\ Shape
    BY DEF States, IInv
  <2> QED BY <1>4, <2>2, <2>3, StateOnly, DaemonStep, Zenon DEF MaintainAck
<1> QED BY <1>1, <1>2, <1>3, <1>4 DEF Maintain

(* Every step of the time thread keeps the invariant, and clears at most:  *)
(* it needs no lock for it.                                                *)
LEMMA TimeStep ==
    ASSUME IInv, Time
    PROVE  IInv' /\ OnlyCleared
<1> USE DEF workerVars, maintainVars, trustVars
<1>0. Shape
  BY DEF IInv
<1>1. CASE TimeTask
  <2>1. LockExclusion'
    BY <1>1 DEF TimeTask, IInv, LockExclusion
  <2>2. info' \in [Slots -> [inst : Workers \cup {Nil}, state : States]] /\ OnlyCleared
    <3>1. CASE TimeTimerTask(Head(restask))
      BY <1>0, <3>1 DEF TimeTimerTask, Shape, OnlyCleared
    <3>2. CASE TimeRemoveWorker(Head(restask))
      BY <1>0, <3>2, Zenon DEF TimeRemoveWorker, Shape, OnlyCleared
    <3> QED BY <1>1, <3>1, <3>2 DEF TimeTask
  <2> QED BY <1>1, <2>1, <2>2, DaemonStep DEF TimeTask
<1>2. CASE TimeClear
  <2>1. LockExclusion' /\ "EMPTY" \in States
    BY <1>2 DEF TimeClear, IInv, LockExclusion, States
  <2> QED BY <1>0, <1>2, <2>1, StateOnly, DaemonStep, Zenon DEF TimeClear
<1>3. CASE TimeNoTask
  <2>1. LockExclusion' /\ OnlyCleared
    BY <1>3 DEF TimeNoTask, IInv, LockExclusion, OnlyCleared
  <2> QED BY <1>0, <1>3, <2>1, DaemonStep DEF TimeNoTask, Shape
<1>4. ASSUME NEW expired \in SUBSET Range(tlist), TimeSchedule(expired)
      PROVE  IInv' /\ OnlyCleared
  <2>1. UNCHANGED <<lock, info, pc, found, tpc, mpc>>
    BY <1>4 DEF TimeSchedule
  <2>2. LockExclusion' /\ OnlyCleared
    BY <2>1 DEF IInv, LockExclusion, OnlyCleared
  <2> QED BY <1>0, <2>1, <2>2, DaemonStep DEF Shape
<1> QED BY <1>1, <1>2, <1>3, <1>4 DEF Time

(* IInv is inductive.                                                      *)
LEMMA NextIInv == IInv /\ [Next]_vars => IInv'
<1> SUFFICES ASSUME IInv, [Next]_vars PROVE IInv'
  OBVIOUS
<1>1. CASE UNCHANGED vars
  BY <1>1 DEF vars, workerVars, maintainVars, trustVars, IInv, Shape, LockExclusion, FoundIsFree
<1>2. CASE Next
  BY <1>2, WorkerStep, TrustStep, MaintainStep, TimeStep DEF Next
<1> QED BY <1>1, <1>2

(* The inductive invariant holds in every state of every behaviour.        *)
THEOREM Invariance == Spec => []IInv
BY InitIInv, NextIInv, PTL DEF Spec

(* server->lock excludes the init() of the workers, the trust scan and the *)
(* maintain pass from each other, for any number of workers and slots, and *)
(* also when a worker died inside.                                         *)
THEOREM Exclusion == Spec => []LockExclusion
<1>1. IInv => LockExclusion
  BY DEF IInv
<1> QED BY <1>1, Invariance, PTL

(* A step of a worker process writes only entries that are free.           *)
LEMMA WorkerWritesFree ==
    ASSUME IInv, NEW w \in Workers, Worker(w), NEW s \in Slots, info[s].inst # Nil
    PROVE  info'[s].inst = info[s].inst
<1>1. CASE SpiWrite(w)
  BY <1>1, Zenon DEF SpiWrite, IInv, Shape, FoundIsFree
<1>2. CASE ~SpiWrite(w)
  BY <1>2 DEF Worker, SpiCreate, SpiLock, SpiScan, SpiRegisterMessage, SpiRegisterTimer,
     SpiRegisterAction, SpiRegister, SpiCommit, SpiQuit, Exit
<1> QED BY <1>1, <1>2

(* init() never replaces the entry of a registered worker, for any number  *)
(* of workers and slots, although the time thread clears entries without   *)
(* the lock and workers die anywhere.                                      *)
THEOREM NothingIsOverwritten == Spec => NoOverwrite
<1> DEFINE A == \A s \in Slots : info[s].inst # Nil => info'[s].inst \in {info[s].inst, Nil}
<1>1. IInv /\ [Next]_vars => [A]_vars
  <2> SUFFICES ASSUME IInv, Next PROVE A
    OBVIOUS
  <2>1. CASE \E w \in Workers : Worker(w)
    BY <2>1, WorkerWritesFree
  <2>2. CASE Trust \/ Maintain \/ Time
    BY <2>2, TrustStep, MaintainStep, TimeStep DEF OnlyCleared
  <2> QED BY <2>1, <2>2 DEF Next
<1> QED BY <1>1, Invariance, PTL DEF Spec, NoOverwrite

-----------------------------------------------------------------------------
(* The queue and the timer list.                                           *)

(* The ranks of the members of a finite set of naturals are 1, 2, ...      *)
LEMMA RankFound ==
    ASSUME NEW n \in Nat, NEW K \in SUBSET (1 .. n), NEW j \in 1 .. Cardinality(K)
    PROVE  \E i \in K : Cardinality({h \in K : h <= i}) = j
<1> DEFINE Upto(m) == {h \in K : h <= m}
           T == {m \in Nat : Cardinality(Upto(m)) >= j}
<1>0. \A h \in K : h \in Nat /\ 1 <= h /\ h <= n
  <2>1. \A h \in K : h \in 1 .. n
    OBVIOUS
  <2> QED BY <2>1
<1>1. IsFiniteSet(K) /\ Cardinality(K) \in Nat
  <2>1. IsFiniteSet(1 .. n)
    BY FS_Interval
  <2> QED BY <2>1, FS_Subset, FS_CardinalityType, Zenon
<1>j. j \in Nat /\ 1 <= j /\ j <= Cardinality(K)
  BY <1>1
<1>2. \A m : IsFiniteSet(Upto(m)) /\ Cardinality(Upto(m)) \in Nat
  BY <1>1, FS_Subset, FS_CardinalityType
<1>3. Upto(n) = K
  BY <1>0, Zenon
<1>4. T # {} /\ T \subseteq Nat
  <2>1. Cardinality(Upto(n)) >= j
    BY <1>1, <1>3, <1>j
  <2> QED BY <2>1
<1>5. PICK m \in T : \A y \in T : m <= y
  <2> HIDE DEF T
  <2> QED BY <1>4, Smallest, Zenon
<1>6. Cardinality(Upto(0)) = 0
  <2>1. \A h \in K : ~(h <= 0)
    BY <1>0
  <2>2. Upto(0) = {}
    BY <2>1, Zenon
  <2> QED BY <2>2, FS_EmptySet
<1>7. m \in Nat /\ m # 0 /\ Cardinality(Upto(m)) >= j
  <2>1. m \in Nat /\ Cardinality(Upto(m)) >= j
    BY <1>5
  <2>2. m # 0
    <3> HIDE DEF Upto
    <3> QED BY <2>1, <1>6, <1>j
  <2> QED BY <2>1, <2>2
<1>8. m - 1 \in Nat /\ ~ (Cardinality(Upto(m - 1)) >= j)
  <2>1. m - 1 \in Nat /\ ~(m <= m - 1)
    BY <1>7
  <2>2. m - 1 \notin T
    <3> HIDE DEF T
    <3> QED BY <1>5, <2>1
  <2> QED BY <2>1, <2>2
<1>9. CASE m \notin K
  <2>0. \A h \in K : h <= m <=> h <= m - 1
    <3> SUFFICES ASSUME NEW h \in K PROVE h <= m <=> h <= m - 1
      OBVIOUS
    <3>1. h \in Nat /\ h # m
      BY <1>0, <1>9
    <3> QED BY <1>7, <3>1
  <2>1. Upto(m) = Upto(m - 1)
    BY <2>0, Zenon
  <2> QED BY <1>7, <1>8, <2>1
<1>10. CASE m \in K
  <2>0. \A h \in K : h <= m <=> (h <= m - 1 \/ h = m)
    <3> SUFFICES ASSUME NEW h \in K PROVE h <= m <=> (h <= m - 1 \/ h = m)
      OBVIOUS
    <3>1. h \in Nat
      BY <1>0
    <3> QED BY <1>7, <3>1
  <2>1. Upto(m) = Upto(m - 1) \cup {m} /\ m \notin Upto(m - 1)
    <3>1. ~(m <= m - 1)
      BY <1>7
    <3> QED BY <2>0, <1>10, <3>1, Zenon
  <2>2. Cardinality(Upto(m)) = Cardinality(Upto(m - 1)) + 1
    <3>1. IsFiniteSet(Upto(m - 1))
      BY <1>2, Zenon
    <3> HIDE DEF Upto
    <3> QED BY <2>1, <3>1, FS_AddElement
  <2>3. Cardinality(Upto(m)) = j
    <3>1. Cardinality(Upto(m)) \in Nat /\ Cardinality(Upto(m - 1)) \in Nat
      BY <1>2, Zenon
    <3> HIDE DEF Upto
    <3> QED BY <2>2, <3>1, <1>7, <1>8, <1>j
  <2> QED BY <1>10, <2>3
<1> QED BY <1>9, <1>10

(* Nth(K, j) is a member of K.                                             *)
LEMMA NthIsMember ==
    ASSUME NEW n \in Nat, NEW K \in SUBSET (1 .. n), NEW j \in 1 .. Cardinality(K)
    PROVE  Nth(K, j) \in K
BY RankFound DEF Nth

(* What is kept of a list is a list of entries of it.                      *)
LEMMA KeptFromList ==
    ASSUME NEW S, NEW list \in Seq(S), NEW K \in SUBSET DOMAIN list
    PROVE  /\ Kept(list, K) \in Seq(S)
           /\ \A j \in DOMAIN Kept(list, K) : \E i \in DOMAIN list : Kept(list, K)[j] = list[i]
<1>1. Len(list) \in Nat /\ DOMAIN list = 1 .. Len(list)
  OBVIOUS
<1>2. Cardinality(K) \in Nat
  <2>1. IsFiniteSet(1 .. Len(list))
    BY <1>1, FS_Interval
  <2> QED BY <1>1, <2>1, FS_Subset, FS_CardinalityType
<1>3. \A j \in 1 .. Cardinality(K) : Nth(K, j) \in K
  BY <1>1, NthIsMember, Zenon
<1> QED BY <1>1, <1>2, <1>3 DEF Kept

(* The queue with tasks appended, cut at its end.                          *)
Clipped(all) == SubSeq(all, 1, IF Len(all) < QueueSize THEN Len(all) ELSE QueueSize)

(* It holds what was there and what is appended.                           *)
LEMMA ClippedFromBoth ==
    ASSUME restask \in Seq(Tasks), NEW ts \in Seq(Tasks)
    PROVE  /\ Clipped(restask \o ts) \in Seq(Tasks)
           /\ \A i \in DOMAIN Clipped(restask \o ts) :
                 \/ \E j \in DOMAIN restask : Clipped(restask \o ts)[i] = restask[j]
                 \/ \E j \in DOMAIN ts : Clipped(restask \o ts)[i] = ts[j]
<1> DEFINE all == restask \o ts
           n == IF Len(all) < QueueSize THEN Len(all) ELSE QueueSize
<1>1. all \in Seq(Tasks) /\ Len(all) = Len(restask) + Len(ts)
  OBVIOUS
<1>2. Len(all) \in Nat /\ n \in Nat /\ n <= Len(all)
  BY <1>1, RegistryAssumption
<1>3. \A i \in 1 .. n : all[i] \in Tasks
  BY <1>1, <1>2
<1>4. /\ SubSeq(all, 1, n) \in Seq(Tasks)
      /\ Len(SubSeq(all, 1, n)) = n
      /\ \A i \in 1 .. n : SubSeq(all, 1, n)[i] = all[i]
  BY <1>1, <1>2, <1>3
<1>5. \A i \in 1 .. n : (\E j \in DOMAIN restask : all[i] = restask[j])
                        \/ (\E j \in DOMAIN ts : all[i] = ts[j])
  <2> SUFFICES ASSUME NEW i \in 1 .. n
               PROVE  (\E j \in DOMAIN restask : all[i] = restask[j])
                      \/ (\E j \in DOMAIN ts : all[i] = ts[j])
    BY Zenon
  <2>1. all[i] = IF i <= Len(restask) THEN restask[i] ELSE ts[i - Len(restask)]
    <3>1. i \in 1 .. Len(restask) + Len(ts)
      BY <1>1, <1>2
    <3> QED BY <3>1
  <2>2. Len(restask) \in Nat /\ Len(ts) \in Nat /\ i \in Nat /\ 1 <= i /\ i <= Len(restask) + Len(ts)
    BY <1>1, <1>2
  <2>3. DOMAIN restask = 1 .. Len(restask) /\ DOMAIN ts = 1 .. Len(ts)
    OBVIOUS
  <2> HIDE DEF all
  <2>4. CASE i <= Len(restask)
    BY <2>1, <2>2, <2>3, <2>4
  <2>5. CASE ~(i <= Len(restask))
    <3>1. i - Len(restask) \in DOMAIN ts
      BY <2>2, <2>3, <2>5
    <3> QED BY <2>1, <2>5, <3>1
  <2> QED BY <2>4, <2>5
<1>6. Clipped(restask \o ts) = SubSeq(all, 1, n)
  BY DEF Clipped
<1>7. DOMAIN SubSeq(all, 1, n) = 1 .. n
  BY <1>4
<1> HIDE DEF all, n
<1> QED BY <1>4, <1>5, <1>6, <1>7, Zenon

(* What the queue holds after set_resource_task was in it before or is one *)
(* of the new tasks.                                                       *)
LEMMA QueueGrows ==
    ASSUME restask \in Seq(Tasks), NEW ts \in Seq(Tasks), NEW q \in SetResourceTask(ts)
    PROVE  /\ q \in Seq(Tasks)
           /\ \A i \in DOMAIN q : \/ \E j \in DOMAIN restask : q[i] = restask[j]
                                 \/ \E j \in DOMAIN ts : q[i] = ts[j]
<1>1. PICK K \in SUBSET DOMAIN ts : q = Clipped(restask \o Kept(ts, K))
  BY Zenon DEF SetResourceTask, LockedIn, Clipped
<1> DEFINE ks == Kept(ts, K)
<1>2. ks \in Seq(Tasks) /\ \A j \in DOMAIN ks : \E i \in DOMAIN ts : ks[j] = ts[i]
  BY KeptFromList
<1> HIDE DEF ks
<1>3. q = Clipped(restask \o ks)
  BY <1>1 DEF ks
<1>4. /\ q \in Seq(Tasks)
      /\ \A i \in DOMAIN q : \/ \E j \in DOMAIN restask : q[i] = restask[j]
                            \/ \E j \in DOMAIN ks : q[i] = ks[j]
  BY <1>2, <1>3, ClippedFromBoth, Zenon
<1>5. ASSUME NEW i \in DOMAIN q, NEW j \in DOMAIN ks, q[i] = ks[j]
      PROVE  \E k \in DOMAIN ts : q[i] = ts[k]
  BY <1>2, <1>5
<1> QED BY <1>4, <1>5, Zenon

(* maintain_worker_timer_resource posts tasks for timers of its slot.      *)
LEMMA TimerTasksOfSlot ==
    ASSUME NEW s \in Slots, NEW act, NEW n
    PROVE  /\ TimerTasks(s, act, n) \in Seq(Tasks)
           /\ \A i \in DOMAIN TimerTasks(s, act, n) :
                 /\ TimerTasks(s, act, n)[i].type # "DEL_WORKER"
                 /\ TimerTasks(s, act, n)[i].slot = s
<1> DEFINE new == SyncTimers(act, n)
           changed == {t \in Timers : new[t] # act[t]}
           type(t) == IF new[t] = "RUNNING" THEN "ADD_TIMER" ELSE "DEL_TIMER"
<1>1. TimerCount \in Nat /\ changed \in SUBSET (1 .. TimerCount)
  BY RegistryAssumption DEF Timers
<1>2. Cardinality(changed) \in Nat
  <2>0. 1 \in Int /\ TimerCount \in Int
    BY <1>1
  <2>1. IsFiniteSet(1 .. TimerCount)
    BY <2>0, FS_Interval, Zenon
  <2> QED BY <1>1, <2>1, FS_Subset, FS_CardinalityType, Zenon
<1>3. \A i \in 1 .. Cardinality(changed) : Nth(changed, i) \in 1 .. TimerCount
  <2> HIDE DEF changed
  <2> QED BY <1>1, NthIsMember, Zenon
<1>4. \A i \in 1 .. Cardinality(changed) :
        Task(type(Nth(changed, i)), s, Nth(changed, i)) \in Tasks
  BY <1>1, <1>3 DEF Task, Tasks
<1>5. TimerTasks(s, act, n) =
        [i \in 1 .. Cardinality(changed) |-> Task(type(Nth(changed, i)), s, Nth(changed, i))]
  BY Zenon DEF TimerTasks
<1>6. TimerTasks(s, act, n) \in Seq(Tasks)
  <2> HIDE DEF changed, type
  <2> QED BY <1>2, <1>4, <1>5
<1>7. \A i \in 1 .. Cardinality(changed) :
        /\ Task(type(Nth(changed, i)), s, Nth(changed, i)).type # "DEL_WORKER"
        /\ Task(type(Nth(changed, i)), s, Nth(changed, i)).slot = s
  BY Zenon DEF Task
<1> HIDE DEF changed, type
<1> QED BY <1>5, <1>6, <1>7

(* A timer taken out of the list leaves only entries that were in it.      *)
LEMMA RemovedFromList ==
    ASSUME NEW S, NEW list \in Seq(S), NEW e
    PROVE  /\ RemoveFromList(list, e) \in Seq(S)
           /\ \A i \in DOMAIN RemoveFromList(list, e) :
                 \E j \in DOMAIN list : RemoveFromList(list, e)[i] = list[j]
<1> DEFINE K == {i \in DOMAIN list : list[i] = e => \E j \in DOMAIN list : j < i /\ list[j] = e}
<1>1. K \in SUBSET DOMAIN list /\ RemoveFromList(list, e) = Kept(list, K)
  BY DEF RemoveFromList
<1> HIDE DEF K
<1> QED BY <1>1, KeptFromList

(* remove_timer_from_list_by_worker leaves entries of the list.            *)
LEMMA RemoveByWorkerFromList ==
    ASSUME NEW S, NEW list \in Seq(S), NEW s
    PROVE  /\ RemoveByWorker(list, s) \in Seq(S)
           /\ \A i \in DOMAIN RemoveByWorker(list, s) :
                 \E j \in DOMAIN list : RemoveByWorker(list, s)[i] = list[j]
<1> DEFINE cut == CHOOSE C \in SUBSET DOMAIN list :
                     \A i \in DOMAIN list : i \in C <=> list[i][1] = s /\ i - 1 \notin C
           K == DOMAIN list \ cut
<1>1. K \in SUBSET DOMAIN list
  OBVIOUS
<1>2. RemoveByWorker(list, s) = Kept(list, K)
  BY DEF RemoveByWorker
<1> HIDE DEF K
<1> QED BY <1>1, <1>2, KeptFromList

-----------------------------------------------------------------------------
(* The daemon's side of a slot follows the table: a slot it still has to   *)
(* finish with is free and unmapped, as long as no worker entered one      *)
(* before (reused).                                                        *)

(* a DEL_WORKER of slot s is queued, or is being carried out *)
Pending(s) ==
    \/ clearing = s
    \/ \E i \in DOMAIN restask : restask[i].type = "DEL_WORKER" /\ restask[i].slot = s

(* the types of the daemon's side *)
DaemonShape ==
    /\ linked \in [Workers -> BOOLEAN]
    /\ addr \in [Slots -> Workers \cup {Nil}]
    /\ restask \in Seq(Tasks)
    /\ tlist \in Seq(Slots \X (0 .. TimerCount))
    /\ mpos \in Slots /\ tpos \in Slots
    /\ clearing \in Slots \cup {NoSlot}

(* a slot whose worker the daemon still has to remove is free and unmapped *)
PendingIsFree == \A s \in Slots : Pending(s) => info[s].inst = Nil /\ addr[s] = Nil

(* a slot has mapped its own worker, or one of the two sides is empty *)
MappedIsOwn == \A s \in Slots : addr[s] # Nil /\ info[s].inst # Nil => addr[s] = info[s].inst

(* between the sync of a slot and its RUNNING nobody clears it *)
AckIsMapped == mpc = "ack" => info[mpos].inst # Nil /\ addr[mpos] = info[mpos].inst

RunningOwns ==
    \A s \in Slots : info[s].state = "RUNNING" => info[s].inst # Nil /\ addr[s] = info[s].inst

Sync == PendingIsFree /\ MappedIsOwn /\ AckIsMapped /\ RunningOwns

RInv == IInv /\ DaemonShape /\ (~reused => Sync)

(* what RInv reads apart from IInv *)
rvars == <<info, addr, restask, clearing, mpc, mpos, reused>>

(* The daemon starts with nothing mapped and no task.                      *)
LEMMA InitRInv == Init => RInv
<1> SUFFICES ASSUME Init PROVE RInv
  OBVIOUS
<1>1. IInv
  BY InitIInv
<1>2. DaemonShape
  BY RegistryAssumption DEF Init, DaemonShape, Slots, NoSlot
<1>3. Sync
  BY RegistryAssumption
     DEF Init, Sync, PendingIsFree, MappedIsOwn, AckIsMapped, RunningOwns, Pending, EmptyInfo, Slots, NoSlot
<1> QED BY <1>1, <1>2, <1>3 DEF RInv

(* A step that changes nothing Sync speaks about.                          *)
LEMMA SyncUnchanged ==
    ASSUME Sync, UNCHANGED <<info, addr, restask, clearing, mpos>>, mpc' = "ack" => mpc = "ack"
    PROVE  Sync'
BY Zenon DEF Sync, PendingIsFree, MappedIsOwn, AckIsMapped, RunningOwns, Pending

(* Worker processes: only a write into a slot the daemon has not finished  *)
(* with could break Sync, and that is what reused records.                 *)
LEMMA WorkerRInv ==
    ASSUME RInv, NEW w \in Workers, Worker(w)
    PROVE  RInv'
<1> USE DEF daemonVars, maintainVars, trustVars, timeVars
<1>1. IInv'
  BY WorkerStep DEF RInv
<1>2. DaemonShape'
  BY Zenon DEF RInv, DaemonShape, Worker, SpiCreate, SpiLock, SpiScan, SpiWrite, SpiRegisterMessage,
     SpiRegisterTimer, SpiRegisterAction, SpiRegister, SpiCommit, SpiQuit, Exit
<1>3. CASE SpiWrite(w) /\ found[w] # NoSlot
  <2> DEFINE s == found[w]
  <2>1. s \in Slots /\ info[s].inst = Nil /\ mpc # "ack" /\ info \in [Slots -> [inst : Workers \cup {Nil}, state : States]]
    BY <1>3, RegistryAssumption, Zenon DEF RInv, IInv, Shape, FoundIsFree, LockExclusion, SpiWrite
  <2>2. info' = [info EXCEPT ![s] = [inst |-> w, state |-> "MODIFIED"]]
        /\ UNCHANGED <<addr, restask, clearing, mpc, mpos>>
    BY <1>3, Zenon DEF SpiWrite
  <2>3. ASSUME ~reused' PROVE Sync'
    <3>1. ~reused /\ addr[s] = Nil /\ ~Pending(s)
      BY <1>3, <2>3, Zenon DEF SpiWrite, Pending
    <3>2. Sync
      BY <3>1 DEF RInv
    <3>3. \A r \in Slots : Pending(r)' <=> Pending(r)
      BY <2>2 DEF Pending
    <3>4. \A r \in Slots : r # s => info'[r] = info[r]
      BY <2>1, <2>2
    <3>5. info'[s].inst = w /\ info'[s].state = "MODIFIED"
      BY <2>1, <2>2
    <3> HIDE DEF s
    <3>6. PendingIsFree' /\ MappedIsOwn' /\ RunningOwns'
      BY <2>2, <3>1, <3>2, <3>3, <3>4, <3>5, SMTT(30) DEF Sync, PendingIsFree, MappedIsOwn, RunningOwns
    <3>7. AckIsMapped'
      BY <2>1, <2>2 DEF AckIsMapped
    <3> QED BY <3>6, <3>7 DEF Sync
  <2> QED BY <1>1, <1>2, <2>3 DEF RInv
<1>4. CASE ~(SpiWrite(w) /\ found[w] # NoSlot)
  <2>1. UNCHANGED <<info, addr, restask, clearing, mpos, mpc, reused>>
    BY <1>4, Zenon DEF Worker, SpiCreate, SpiLock, SpiScan, SpiWrite, SpiRegisterMessage,
     SpiRegisterTimer, SpiRegisterAction, SpiRegister, SpiCommit, SpiQuit, Exit
  <2> QED BY <1>1, <1>2, <2>1, SyncUnchanged DEF RInv
<1> QED BY <1>3, <1>4

(* An eviction frees a slot; it happens under the lock.                    *)
LEMMA TrustRInv ==
    ASSUME RInv, Trust
    PROVE  RInv'
<1> USE DEF workerVars, maintainVars, timeVars
<1>1. IInv'
  BY TrustStep DEF RInv
<1>2. CASE TrustLock
  <2>1. DaemonShape'
    BY <1>2, RegistryAssumption DEF RInv, DaemonShape, TrustLock, Slots
  <2>2. UNCHANGED rvars
    BY <1>2 DEF TrustLock, rvars
  <2> QED BY <1>1, <2>1, <2>2, SyncUnchanged DEF RInv, rvars
<1>3. ASSUME NEW probe \in ThreadProbe, TrustSlot(probe)
      PROVE  RInv'
  <2>1. DaemonShape'
    <3>1. UNCHANGED <<linked, addr, restask, tlist, mpos, clearing>>
      BY <1>3, Zenon DEF TrustSlot
    <3>2. tpos' \in Slots
      BY <1>3, RegistryAssumption, SMTT(30) DEF RInv, DaemonShape, TrustSlot, Slots
    <3> QED BY <3>1, <3>2, Zenon DEF RInv, DaemonShape
  <2>2. UNCHANGED <<addr, restask, clearing, mpos, mpc, reused>> /\ mpc # "ack" /\ tpos \in Slots
    BY <1>3 DEF TrustSlot, RInv, IInv, LockExclusion, DaemonShape
  <2>3. ASSUME ~reused' PROVE Sync'
    <3>1. Sync /\ info \in [Slots -> [inst : Workers \cup {Nil}, state : States]]
      BY <2>2, <2>3 DEF RInv, IInv, Shape
    <3>2. CASE info' = info
      BY <2>2, <3>1, <3>2, SyncUnchanged
    <3>3. CASE info' = [info EXCEPT ![tpos] = [inst |-> Nil, state |-> "DEAD"]]
      <4>1. \A r \in Slots : r # tpos => info'[r] = info[r]
        BY <3>1, <3>3
      <4>2. info'[tpos].inst = Nil /\ info'[tpos].state = "DEAD"
        BY <2>2, <3>1, <3>3
      <4>3. \A r \in Slots : Pending(r)' <=> Pending(r)
        BY <2>2 DEF Pending
      <4>4. PendingIsFree' /\ MappedIsOwn' /\ RunningOwns'
        <5>1. PendingIsFree'
          BY <2>2, <3>1, <4>1, <4>2, <4>3, Zenon DEF Sync, PendingIsFree
        <5>2. MappedIsOwn'
          BY <2>2, <3>1, <4>1, <4>2, Zenon DEF Sync, MappedIsOwn
        <5>3. RunningOwns'
          <6> SUFFICES ASSUME NEW r \in Slots, info'[r].state = "RUNNING"
                       PROVE  info'[r].inst # Nil /\ addr'[r] = info'[r].inst
            BY Zenon DEF RunningOwns
          <6>1. r # tpos
            BY <4>2
          <6> QED BY <2>2, <3>1, <4>1, <6>1, Zenon DEF Sync, RunningOwns
        <5> QED BY <5>1, <5>2, <5>3
      <4>5. AckIsMapped'
        BY <2>2 DEF AckIsMapped
      <4> QED BY <4>4, <4>5 DEF Sync
    <3> QED BY <1>3, <3>2, <3>3 DEF TrustSlot
  <2> QED BY <1>1, <2>1, <2>3 DEF RInv
<1> QED BY <1>2, <1>3 DEF Trust

(* The sync of a slot posts timer tasks only: no DEL_WORKER comes up.      *)
LEMMA SyncPosts ==
    ASSUME RInv, NEW s \in Slots, NEW w, NEW msgs, NEW act, SyncWorker(s, w, msgs, act)
    PROVE  /\ restask' \in Seq(Tasks)
           /\ \A i \in DOMAIN restask' :
                 \/ \E j \in DOMAIN restask : restask'[i] = restask[j]
                 \/ restask'[i].type # "DEL_WORKER" /\ restask'[i].slot = s
<1> DEFINE ts == TimerTasks(s, act, reg[w].timer)
<1>1. restask' \in SetResourceTask(ts)
  BY Zenon DEF SyncWorker
<1>2. ts \in Seq(Tasks) /\ \A i \in DOMAIN ts : ts[i].type # "DEL_WORKER" /\ ts[i].slot = s
  BY TimerTasksOfSlot
<1>3. restask \in Seq(Tasks)
  BY DEF RInv, DaemonShape
<1> HIDE DEF ts
<1>4. /\ restask' \in Seq(Tasks)
      /\ \A i \in DOMAIN restask' : \/ \E j \in DOMAIN restask : restask'[i] = restask[j]
                                  \/ \E j \in DOMAIN ts : restask'[i] = ts[j]
  BY <1>1, <1>2, <1>3, QueueGrows
<1> QED BY <1>1, <1>2, <1>4, ZenonT(40)

(* close_worker_resource posts one DEL_WORKER.                             *)
LEMMA ClosePosts ==
    ASSUME RInv, NEW s \in Slots, CloseWorkerResource(s)
    PROVE  /\ restask' \in Seq(Tasks)
           /\ \A i \in DOMAIN restask' :
                 \/ \E j \in DOMAIN restask : restask'[i] = restask[j]
                 \/ restask'[i].slot = s
<1> DEFINE ts == <<Task("DEL_WORKER", s, 0)>>
<1>1. restask' \in SetResourceTask(ts)
  BY DEF CloseWorkerResource
<1>2. ts \in Seq(Tasks) /\ \A i \in DOMAIN ts : ts[i].slot = s
  BY RegistryAssumption DEF Task, Tasks
<1>3. restask \in Seq(Tasks)
  BY DEF RInv, DaemonShape
<1> HIDE DEF ts
<1>4. /\ restask' \in Seq(Tasks)
      /\ \A i \in DOMAIN restask' : \/ \E j \in DOMAIN restask : restask'[i] = restask[j]
                                  \/ \E j \in DOMAIN ts : restask'[i] = ts[j]
  BY <1>1, <1>2, <1>3, QueueGrows
<1> QED BY <1>1, <1>2, <1>4

(* The pass goes on at the next slot, or ends.                             *)
LEMMA NextSlotMoves ==
    ASSUME mpos \in Slots, NextSlot
    PROVE  mpos' \in Slots /\ mpc' # "ack"
BY RegistryAssumption DEF NextSlot, Slots

(* The maintain pass maps what the table names, closes what it has freed,  *)
(* and acknowledges what it has mapped.                                    *)
LEMMA MaintainSlotRInv ==
    ASSUME RInv, MaintainSlot
    PROVE  RInv'
<1> USE DEF workerVars, trustVars, timeVars
<1>1. IInv'
  BY MaintainStep DEF RInv, Maintain
<1>2. mpos \in Slots /\ UNCHANGED <<info, linked, tlist, tpos, clearing, reused>>
  BY DEF RInv, DaemonShape, MaintainSlot
<1>3. DaemonShape /\ info \in [Slots -> [inst : Workers \cup {Nil}, state : States]]
  BY DEF RInv, IInv, Shape
<1>4. SUFFICES DaemonShape' /\ (Sync => Sync')
  BY <1>1, <1>2 DEF RInv
<1>5. CASE MaintainSkip(mpos) \/ MaintainOpenFails(mpos)
  <2>1. UNCHANGED <<addr, restask>> /\ mpos' \in Slots
    BY <1>2, <1>5, NextSlotMoves, Zenon DEF MaintainSkip, MaintainOpenFails
  <2>2. mpc' # "ack"
    BY <1>2, <1>5, NextSlotMoves, Zenon DEF MaintainSkip, MaintainOpenFails, MaintainSlot
  <2>3. DaemonShape'
    BY <1>2, <1>3, <2>1 DEF DaemonShape
  <2>4. Sync => Sync'
    BY <1>2, <2>1, <2>2, Zenon DEF Sync, PendingIsFree, MappedIsOwn, AckIsMapped, RunningOwns, Pending
  <2> QED BY <2>3, <2>4
<1>6. CASE MaintainClose(mpos)
  <2>1. /\ restask' \in Seq(Tasks)
        /\ \A i \in DOMAIN restask' :
              \/ \E j \in DOMAIN restask : restask'[i] = restask[j]
              \/ restask'[i].slot = mpos
    BY <1>2, <1>6, ClosePosts, Zenon DEF MaintainClose
  <2>2. mpos' \in Slots /\ mpc' # "ack"
    BY <1>2, <1>6, NextSlotMoves DEF MaintainClose
  <2>3. addr' = [addr EXCEPT ![mpos] = Nil] /\ info[mpos].inst = Nil /\ info[mpos].state # "RUNNING"
    BY <1>6, Zenon DEF MaintainClose, CloseWorkerResource
  <2>4. DaemonShape'
    BY <1>2, <1>3, <2>1, <2>2, <2>3 DEF DaemonShape
  <2>5. \A r \in Slots : Pending(r)' => Pending(r) \/ r = mpos
    BY <1>2, <2>1 DEF Pending
  <2>6. (\A r \in Slots : r # mpos => addr'[r] = addr[r]) /\ addr'[mpos] = Nil
    BY <1>2, <1>3, <2>3 DEF DaemonShape
  <2>7. Sync => PendingIsFree' /\ MappedIsOwn' /\ RunningOwns'
    BY <1>2, <2>3, <2>5, <2>6, Zenon DEF Sync, PendingIsFree, MappedIsOwn, RunningOwns
  <2>8. AckIsMapped'
    BY <2>2 DEF AckIsMapped
  <2> QED BY <2>4, <2>7, <2>8 DEF Sync
<1>7. CASE MaintainOpen(mpos)
  <2>1. /\ restask' \in Seq(Tasks)
        /\ \A i \in DOMAIN restask' :
              \/ \E j \in DOMAIN restask : restask'[i] = restask[j]
              \/ restask'[i].type # "DEL_WORKER"
    BY <1>2, <1>7, SyncPosts DEF MaintainOpen
  <2>2. /\ addr' = [addr EXCEPT ![mpos] = info[mpos].inst] /\ info[mpos].inst # Nil /\ mpos' = mpos
        /\ addr[mpos] = Nil
    BY <1>7 DEF MaintainOpen
  <2>3. DaemonShape'
    BY <1>2, <1>3, <2>1, <2>2 DEF DaemonShape
  <2>4. \A r \in Slots : Pending(r)' => Pending(r)
    BY <1>2, <2>1 DEF Pending
  <2>5. (\A r \in Slots : r # mpos => addr'[r] = addr[r]) /\ addr'[mpos] = info[mpos].inst
    BY <1>2, <1>3, <2>2 DEF DaemonShape
  <2>6. Sync => PendingIsFree' /\ MappedIsOwn' /\ RunningOwns'
    BY <1>2, <2>2, <2>4, <2>5, Zenon DEF Sync, PendingIsFree, MappedIsOwn, RunningOwns
  <2>7. AckIsMapped'
    BY <1>2, <2>2, <2>5 DEF AckIsMapped
  <2> QED BY <2>3, <2>6, <2>7, SMTT(30) DEF Sync
<1>8. CASE MaintainOpenOnly(mpos)
  <2>1. mpos' \in Slots /\ mpc' # "ack" /\ restask' = restask
    BY <1>2, <1>8, NextSlotMoves, Zenon DEF MaintainOpenOnly
  <2>2. /\ info[mpos].inst # Nil /\ addr[mpos] = Nil
        /\ addr' = [addr EXCEPT ![mpos] = info[mpos].inst] \/ addr' = addr
    BY <1>8, Zenon DEF MaintainOpenOnly
  <2>3. DaemonShape'
    BY <1>2, <1>3, <2>1, <2>2, ZenonT(40) DEF DaemonShape
  <2>4. \A r \in Slots : Pending(r)' => Pending(r)
    BY <1>2, <2>1 DEF Pending
  <2>5. (\A r \in Slots : r # mpos => addr'[r] = addr[r]) /\ addr'[mpos] \in {Nil, info[mpos].inst}
    BY <1>2, <1>3, <2>2 DEF DaemonShape
  <2>6. Sync => PendingIsFree' /\ MappedIsOwn' /\ RunningOwns'
    BY <1>2, <2>2, <2>4, <2>5, Zenon DEF Sync, PendingIsFree, MappedIsOwn, RunningOwns
  <2>7. AckIsMapped'
    BY <2>1 DEF AckIsMapped
  <2> QED BY <2>3, <2>6, <2>7 DEF Sync
<1>9. CASE MaintainSync(mpos)
  <2>1. /\ restask' \in Seq(Tasks)
        /\ \A i \in DOMAIN restask' :
              \/ \E j \in DOMAIN restask : restask'[i] = restask[j]
              \/ restask'[i].type # "DEL_WORKER"
    BY <1>2, <1>9, SyncPosts, Zenon DEF MaintainSync
  <2>2. UNCHANGED <<addr, mpos>> /\ addr[mpos] # Nil /\ info[mpos].inst # Nil
    BY <1>9 DEF MaintainSync
  <2>3. DaemonShape'
    BY <1>2, <1>3, <2>1, <2>2 DEF DaemonShape
  <2>4. \A r \in Slots : Pending(r)' => Pending(r)
    BY <1>2, <2>1 DEF Pending
  <2>5. Sync => PendingIsFree' /\ MappedIsOwn' /\ RunningOwns'
    BY <1>2, <2>2, <2>4 DEF Sync, PendingIsFree, MappedIsOwn, RunningOwns
  <2>6. Sync => AckIsMapped'
    BY <1>2, <2>2 DEF Sync, MappedIsOwn, AckIsMapped
  <2> QED BY <2>3, <2>5, <2>6 DEF Sync
<1> QED BY <1>5, <1>6, <1>7, <1>8, <1>9 DEF MaintainSlot

(* The steps of the maintain thread.                                       *)
LEMMA MaintainRInv ==
    ASSUME RInv, Maintain
    PROVE  RInv'
<1> USE DEF workerVars, trustVars, timeVars
<1>1. IInv'
  BY MaintainStep DEF RInv
<1>2. CASE MaintainWake \/ MaintainLock
  <2>1. UNCHANGED <<info, linked, addr, restask, tlist, tpos, clearing, reused>> /\ mpc' # "ack"
    BY <1>2 DEF MaintainWake, MaintainLock
  <2>2. DaemonShape'
    BY <1>2, <2>1, RegistryAssumption DEF RInv, DaemonShape, MaintainWake, MaintainLock, Slots
  <2>3. Sync => Sync'
    BY <2>1, Zenon DEF Sync, PendingIsFree, MappedIsOwn, AckIsMapped, RunningOwns, Pending
  <2> QED BY <1>1, <2>1, <2>2, <2>3 DEF RInv
<1>3. CASE MaintainAck
  <2>1. /\ UNCHANGED <<linked, addr, restask, tlist, tpos, clearing, reused>> /\ mpc = "ack"
        /\ info' = [info EXCEPT ![mpos].state = "RUNNING"]
    BY <1>3 DEF MaintainAck
  <2>2. mpos \in Slots /\ info \in [Slots -> [inst : Workers \cup {Nil}, state : States]]
    BY DEF RInv, DaemonShape, IInv, Shape
  <2>3. mpos' \in Slots /\ mpc' # "ack"
    BY <1>3, <2>2, NextSlotMoves DEF MaintainAck
  <2>4. DaemonShape'
    BY <2>1, <2>3 DEF RInv, DaemonShape
  <2>5. /\ \A r \in Slots : info'[r].inst = info[r].inst
        /\ \A r \in Slots : r # mpos => info'[r].state = info[r].state
    BY <2>1, <2>2
  <2>6. Sync => PendingIsFree' /\ MappedIsOwn' /\ RunningOwns'
    BY <2>1, <2>5 DEF Sync, PendingIsFree, MappedIsOwn, RunningOwns, AckIsMapped, Pending
  <2>7. AckIsMapped'
    BY <2>3 DEF AckIsMapped
  <2> QED BY <1>1, <2>1, <2>4, <2>6, <2>7 DEF RInv, Sync
<1> QED BY <1>2, <1>3, MaintainSlotRInv DEF Maintain

(* The time thread takes the tasks in order; when it removes a worker it   *)
(* clears a slot that is free.                                             *)
LEMMA TimeTaskRInv ==
    ASSUME RInv, TimeTask
    PROVE  RInv'
<1> USE DEF workerVars, maintainVars, trustVars
<1>1. IInv'
  BY TimeStep DEF RInv, Time
<1>2. /\ UNCHANGED <<linked, addr, mpc, mpos, tpos, reused>>
      /\ restask # <<>> /\ restask' = Tail(restask) /\ clearing = NoSlot
  BY DEF TimeTask
<1>3. DaemonShape /\ info \in [Slots -> [inst : Workers \cup {Nil}, state : States]]
  BY DEF RInv, IInv, Shape
<1> DEFINE k == Head(restask)
<1>4. /\ k \in Tasks /\ k = restask[1] /\ 1 \in DOMAIN restask
      /\ restask' \in Seq(Tasks) /\ \A i \in DOMAIN restask' : \E j \in DOMAIN restask : restask'[i] = restask[j]
  <2>1. restask \in Seq(Tasks) /\ restask # <<>> /\ Len(restask) \in Nat
    BY <1>2, <1>3 DEF DaemonShape
  <2>2. k \in Tasks /\ Tail(restask) \in Seq(Tasks) /\ Len(Tail(restask)) = Len(restask) - 1
        /\ \A i \in 1 .. Len(Tail(restask)) : Tail(restask)[i] = restask[i + 1]
    BY <2>1
  <2>3. DOMAIN Tail(restask) = 1 .. Len(restask) - 1 /\ DOMAIN restask = 1 .. Len(restask)
    BY <2>1, <2>2
  <2>4. \A i \in 1 .. Len(restask) - 1 : i + 1 \in 1 .. Len(restask)
    BY <2>1
  <2>5. 1 \in DOMAIN restask /\ k = restask[1]
    BY <2>1, <2>3
  <2> QED BY <1>2, <2>2, <2>3, <2>4, <2>5
<1> HIDE DEF k
<1>5. \A r \in Slots : (\E i \in DOMAIN restask' : restask'[i].type = "DEL_WORKER" /\ restask'[i].slot = r)
         => Pending(r)
  BY <1>4 DEF Pending
<1>6. CASE TimeTimerTask(k)
  <2>1. UNCHANGED <<info, clearing>>
    BY <1>6 DEF TimeTimerTask
  <2>2. tlist' \in Seq(Slots \X (0 .. TimerCount))
    <3> DEFINE e == <<k.slot, k.timer>>
    <3>1. CASE tlist' = tlist \/ tlist' = RemoveFromList(tlist, e)
      BY <1>3, <3>1, RemovedFromList DEF DaemonShape
    <3>2. CASE tlist' = Append(tlist, e)
      <4>1. e \in Slots \X (0 .. TimerCount)
        BY <1>4, <3>2 DEF Tasks
      <4> QED BY <1>3, <3>2, <4>1 DEF DaemonShape
    <3> QED BY <1>6, <3>1, <3>2 DEF TimeTimerTask
  <2>3. DaemonShape'
    BY <1>2, <1>3, <1>4, <2>1, <2>2 DEF DaemonShape
  <2>4. \A r \in Slots : Pending(r)' => Pending(r)
    BY <1>5, <2>1 DEF Pending
  <2>5. Sync => Sync'
    BY <1>2, <2>1, <2>4, Zenon DEF Sync, PendingIsFree, MappedIsOwn, RunningOwns, AckIsMapped
  <2> QED BY <1>1, <1>2, <2>3, <2>5 DEF RInv
<1>7. CASE TimeRemoveWorker(k)
  <2>1. /\ info' = [info EXCEPT ![k.slot].inst = Nil] /\ clearing' = k.slot
        /\ tlist' = RemoveByWorker(tlist, k.slot) /\ k.type = "DEL_WORKER" /\ k.slot \in Slots
    BY <1>4, <1>7 DEF TimeRemoveWorker, Tasks
  <2>2. DaemonShape'
    BY <1>2, <1>3, <1>4, <2>1, RemoveByWorkerFromList DEF DaemonShape
  <2>3. Pending(k.slot)
    BY <1>4, <2>1 DEF Pending
  <2>4. \A r \in Slots : Pending(r)' => Pending(r)
    BY <1>5, <2>1, <2>3 DEF Pending
  <2>5. Sync => info' = info
    <3>1. Sync => info[k.slot].inst = Nil
      BY <2>1, <2>3 DEF Sync, PendingIsFree
    <3> QED BY <1>3, <2>1, <3>1
  <2>6. Sync => Sync'
    BY <1>2, <2>4, <2>5, Zenon DEF Sync, PendingIsFree, MappedIsOwn, RunningOwns, AckIsMapped
  <2> QED BY <1>1, <1>2, <2>2, <2>6 DEF RInv
<1> QED BY <1>6, <1>7 DEF TimeTask, k

(* The steps of the time thread.                                           *)
LEMMA TimeRInv ==
    ASSUME RInv, Time
    PROVE  RInv'
<1> USE DEF workerVars, maintainVars, trustVars
<1>1. IInv'
  BY TimeStep DEF RInv
<1>2. CASE TimeClear
  <2>1. /\ UNCHANGED <<linked, addr, restask, tlist, mpc, mpos, tpos, reused>>
        /\ info' = [info EXCEPT ![clearing].state = "EMPTY"] /\ clearing' = NoSlot /\ clearing # NoSlot
    BY <1>2 DEF TimeClear
  <2>2. clearing \in Slots /\ info \in [Slots -> [inst : Workers \cup {Nil}, state : States]]
    BY <2>1 DEF RInv, DaemonShape, IInv, Shape
  <2>3. DaemonShape'
    BY <2>1 DEF RInv, DaemonShape
  <2>4. /\ \A r \in Slots : info'[r].inst = info[r].inst
        /\ \A r \in Slots : r # clearing => info'[r].state = info[r].state
        /\ info'[clearing].state = "EMPTY"
    BY <2>1, <2>2
  <2>5. \A r \in Slots : Pending(r)' => Pending(r)
    BY <2>1, RegistryAssumption DEF Pending, NoSlot, Slots
  <2>6. Sync => PendingIsFree' /\ MappedIsOwn' /\ RunningOwns'
    BY <2>1, <2>4, <2>5 DEF Sync, PendingIsFree, MappedIsOwn, RunningOwns
  <2>7. Sync => AckIsMapped'
    BY <2>1, <2>4 DEF Sync, AckIsMapped, RInv, DaemonShape
  <2> QED BY <1>1, <2>1, <2>3, <2>6, <2>7 DEF RInv, Sync
<1>3. CASE TimeNoTask
  <2>1. UNCHANGED <<linked, tlist, tpos>> /\ UNCHANGED rvars
    BY <1>3 DEF TimeNoTask, rvars
  <2> QED BY <1>1, <2>1, SyncUnchanged DEF RInv, DaemonShape, rvars
<1>4. ASSUME NEW expired \in SUBSET Range(tlist), TimeSchedule(expired)
      PROVE  RInv'
  <2>1. UNCHANGED <<linked, tpos>> /\ UNCHANGED rvars
    BY <1>4 DEF TimeSchedule, rvars
  <2>2. tlist' \in Seq(Slots \X (0 .. TimerCount))
    <3> DEFINE K == {i \in DOMAIN tlist :
                       active[tlist[i][1]][tlist[i][2]] = "RUNNING" /\ tlist[i] \notin expired}
    <3>1. tlist' = tlist \/ tlist' = Kept(tlist, K)
      BY <1>4 DEF TimeSchedule
    <3>2. K \in SUBSET DOMAIN tlist /\ tlist \in Seq(Slots \X (0 .. TimerCount))
      BY Zenon DEF RInv, DaemonShape
    <3> HIDE DEF K
    <3> QED BY <3>1, <3>2, KeptFromList
  <2>3. DaemonShape'
    BY <2>1, <2>2 DEF RInv, DaemonShape, rvars
  <2> QED BY <1>1, <2>1, <2>3, SyncUnchanged DEF RInv, rvars
<1> QED BY <1>2, <1>3, <1>4, TimeTaskRInv DEF Time

(* RInv is inductive.                                                      *)
LEMMA NextRInv == RInv /\ [Next]_vars => RInv'
<1> SUFFICES ASSUME RInv, [Next]_vars PROVE RInv'
  OBVIOUS
<1>1. CASE UNCHANGED vars
  <2>1. UNCHANGED <<linked, tlist, tpos>> /\ UNCHANGED rvars
    BY <1>1 DEF vars, workerVars, maintainVars, trustVars, timeVars, rvars
  <2>2. IInv'
    BY <1>1, NextIInv DEF RInv
  <2> QED BY <2>1, <2>2, SyncUnchanged DEF RInv, DaemonShape, rvars
<1>2. CASE Next
  BY <1>2, WorkerRInv, TrustRInv, MaintainRInv, TimeRInv DEF Next
<1> QED BY <1>1, <1>2

(* The daemon's side follows the table in every state.                     *)
THEOREM SyncInvariance == Spec => []RInv
BY InitRInv, NextRInv, PTL DEF Spec

(* A slot marked RUNNING has mapped the shm of the worker registered in it *)
(* as long as no worker entered a slot too early, for any number of        *)
(* workers, slots and tasks, whatever pthread_kill says.                   *)
THEOREM RunningSlotsAreMapped == Spec => []RunningIsMapped
<1>1. RInv => RunningIsMapped
  BY DEF RInv, Sync, RunningOwns, RunningIsMapped
<1> QED BY <1>1, SyncInvariance, PTL

(* Which steps clear an entry: an eviction, and the end of a removal.      *)
LEMMA WhoClears ==
    ASSUME RInv, Next, ThreadProbe = {TRUE}, NEW s \in Slots,
           ~reused, info[s].inst # Nil, info'[s].inst = Nil
    PROVE  pc[info[s].inst] = "dead"
<1> USE DEF workerVars, maintainVars, trustVars, timeVars
<1>1. CASE \E w \in Workers : Worker(w)
  BY <1>1, WorkerWritesFree DEF RInv
<1>2. CASE Trust
  <2>1. CASE TrustLock
    BY <2>1, Zenon DEF TrustLock
  <2>2. ASSUME NEW probe \in ThreadProbe, TrustSlot(probe)
        PROVE  pc[info[s].inst] = "dead"
    <3>1. Evicts(info[tpos].inst, TRUE) /\ info' = [info EXCEPT ![tpos] = [inst |-> Nil, state |-> "DEAD"]]
      BY <2>2, Zenon DEF TrustSlot
    <3>2. s = tpos
      BY <3>1, Zenon DEF RInv, IInv, Shape
    <3> QED BY <3>1, <3>2, Zenon DEF Evicts
  <2> QED BY <1>2, <2>1, <2>2, Zenon DEF Trust
<1>3. CASE Maintain
  BY <1>3 DEF Maintain, MaintainWake, MaintainLock, MaintainSlot, MaintainAck, RInv, IInv, Shape
<1>4. CASE Time
  <2>1. CASE TimeTask
    <3>1. CASE TimeTimerTask(Head(restask))
      BY <3>1 DEF TimeTimerTask
    <3>2. CASE TimeRemoveWorker(Head(restask))
      <4>1. info' = [info EXCEPT ![Head(restask).slot].inst = Nil] /\ Head(restask).type = "DEL_WORKER"
        BY <3>2 DEF TimeRemoveWorker
      <4>2. s = Head(restask).slot
        BY <4>1 DEF RInv, IInv, Shape
      <4>3. Head(restask) = restask[1] /\ 1 \in DOMAIN restask
        <5>1. restask \in Seq(Tasks) /\ restask # <<>>
          BY <2>1, Zenon DEF TimeTask, RInv, DaemonShape
        <5> QED BY <5>1
      <4>4. Pending(s)
        BY <4>1, <4>2, <4>3 DEF Pending
      <4> QED BY <4>4 DEF RInv, Sync, PendingIsFree
    <3> QED BY <2>1, <3>1, <3>2, Zenon DEF TimeTask
  <2>2. CASE TimeClear
    BY <2>2 DEF TimeClear, RInv, IInv, Shape
  <2>3. CASE TimeNoTask \/ \E expired \in SUBSET Range(tlist) : TimeSchedule(expired)
    BY <2>3, Zenon DEF TimeNoTask, TimeSchedule
  <2> QED BY <1>4, <2>1, <2>2, <2>3, Zenon DEF Time
<1> QED BY <1>1, <1>2, <1>3, <1>4 DEF Next

(* When kill(2) is the only witness of death, neither an eviction nor a    *)
(* late DEL_WORKER removes a live worker, as long as no slot was reused    *)
(* too early.                                                              *)
THEOREM LiveEntriesStay ==
    ASSUME ThreadProbe = {TRUE}
    PROVE  Spec => OnlyTheDeadAreRemoved
<1> DEFINE A == \A s \in Slots : (~reused /\ info[s].inst # Nil /\ info'[s].inst = Nil) => pc[info[s].inst] = "dead"
<1>1. RInv /\ [Next]_vars => [A]_vars
  BY WhoClears
<1> QED BY <1>1, SyncInvariance, PTL DEF Spec, OnlyTheDeadAreRemoved

-----------------------------------------------------------------------------
(* While every worker is alive the daemon closes nothing, and whatever the *)
(* time thread holds is mapped.                                            *)

Departed == \E w \in Workers : pc[w] \in {"left", "dead"}

(* a registered worker has been through init(), and its names exist until  *)
(* it leaves                                                               *)
Entered ==
    /\ \A s \in Slots : info[s].inst # Nil => pc[info[s].inst] \in {"in", "left", "dead"}
    /\ \A w \in Workers : pc[w] \in {"lock", "scan", "write", "in"} => linked[w]

(* with every worker alive nothing is closed, and what the time thread     *)
(* holds is mapped                                                         *)
AllAlive ==
    /\ fault = "none" /\ clearing = NoSlot
    /\ \A s \in Slots : addr[s] # Nil => info[s].inst # Nil
    /\ \A i \in DOMAIN restask : restask[i].type # "DEL_WORKER" /\ Mapped(restask[i].slot)
    /\ \A i \in DOMAIN tlist : Mapped(tlist[i][1])

FInv == RInv /\ Entered /\ (~Departed => AllAlive)

(* Nothing is mapped, and no worker has gone, at the start.                *)
LEMMA InitFInv == Init => FInv
<1> SUFFICES ASSUME Init PROVE FInv
  OBVIOUS
<1>1. RInv
  BY InitRInv
<1>2. Entered
  <2>0. info = [s \in Slots |-> EmptyInfo] /\ pc = [w \in Workers |-> "out"]
    BY Zenon DEF Init
  <2>1. (\A s \in Slots : info[s].inst = Nil) /\ \A w \in Workers : pc[w] = "out"
    BY <2>0, Zenon DEF EmptyInfo
  <2> QED BY <2>1 DEF Entered
<1>3. AllAlive
  BY DEF Init, AllAlive
<1> QED BY <1>1, <1>2, <1>3 DEF FInv

(* what AllAlive reads *)
fvars == <<info, addr, restask, tlist, clearing, fault>>

(* A step that changes nothing AllAlive speaks about.                      *)
LEMMA AliveUnchanged ==
    ASSUME AllAlive, UNCHANGED fvars
    PROVE  AllAlive'
BY Zenon DEF AllAlive, Mapped, fvars

(* A worker that has gone does not come back, and one that enters has its  *)
(* names.                                                                  *)
LEMMA WorkerFInv ==
    ASSUME FInv, NEW w \in Workers, Worker(w)
    PROVE  FInv'
<1> USE DEF daemonVars, maintainVars, trustVars, timeVars
<1>1. RInv'
  BY WorkerRInv DEF FInv
<1>2. /\ pc \in [Workers -> WorkerPc] /\ linked \in [Workers -> BOOLEAN]
      /\ info \in [Slots -> [inst : Workers \cup {Nil}, state : States]]
      /\ found \in [Workers -> Slots \cup {NoSlot}]
  BY DEF FInv, RInv, IInv, Shape, DaemonShape
<1>3. Departed => Departed'
  BY <1>2, Zenon DEF Departed, Worker, SpiCreate, SpiLock, SpiScan, SpiWrite, SpiRegisterMessage,
     SpiRegisterTimer, SpiRegisterAction, SpiRegister, SpiCommit, SpiQuit, Exit
<1>4. CASE SpiWrite(w)
  <2>1. pc' = [pc EXCEPT ![w] = "in"] /\ pc[w] = "write" /\ UNCHANGED <<linked, addr, restask, tlist, clearing, fault>>
    BY <1>4, Zenon DEF SpiWrite
  <2>2. info' = info \/ (found[w] \in Slots /\ info' = [info EXCEPT ![found[w]] = [inst |-> w, state |-> "MODIFIED"]])
    BY <1>2, <1>4, Zenon DEF SpiWrite
  <2>3. ASSUME NEW s \in Slots PROVE info'[s].inst = info[s].inst \/ info'[s].inst = w
    <3>1. CASE info' = info
      BY <3>1
    <3>2. CASE found[w] \in Slots /\ info' = [info EXCEPT ![found[w]] = [inst |-> w, state |-> "MODIFIED"]]
      <4>1. CASE s = found[w]
        <5>1. info'[s] = [inst |-> w, state |-> "MODIFIED"]
          BY <1>2, <3>2, <4>1
        <5> QED BY <5>1
      <4>2. CASE s # found[w]
        <5>1. info'[s] = info[s]
          BY <1>2, <3>2, <4>2, Zenon
        <5> QED BY <5>1
      <4> QED BY <4>1, <4>2
    <3> QED BY <2>2, <3>1, <3>2, Zenon
  <2>4. Entered'
    <3>0. pc'[w] = "in" /\ \A v \in Workers : v # w => pc'[v] = pc[v]
      BY <1>2, <2>1
    <3>1. ASSUME NEW s \in Slots, info'[s].inst # Nil PROVE pc'[info'[s].inst] \in {"in", "left", "dead"}
      <4>1. CASE info'[s].inst = w
        BY <3>0, <4>1
      <4>2. CASE info'[s].inst = info[s].inst /\ info[s].inst # w
        <5>1. info[s].inst \in Workers /\ pc[info[s].inst] \in {"in", "left", "dead"}
          BY <1>2, <3>1, <4>2 DEF FInv, Entered
        <5> QED BY <3>0, <4>2, <5>1, Zenon
      <4> QED BY <2>3, <4>1, <4>2
    <3>2. ASSUME NEW v \in Workers, pc'[v] \in {"lock", "scan", "write", "in"} PROVE linked'[v]
      <4>1. pc[v] \in {"lock", "scan", "write", "in"}
        BY <2>1, <3>0, <3>2
      <4> QED BY <2>1, <4>1, Zenon DEF FInv, Entered
    <3> QED BY <3>1, <3>2, Zenon DEF Entered
  <2>5. \A s \in Slots : info[s].inst # Nil => info'[s].inst # Nil
    BY <2>3, RegistryAssumption
  <2>6. AllAlive => AllAlive'
    BY <2>1, <2>5, Zenon DEF AllAlive, Mapped
  <2> QED BY <1>1, <1>3, <2>4, <2>6 DEF FInv
<1>5. CASE ~SpiWrite(w)
  <2>1. UNCHANGED fvars
    BY <1>5, Zenon DEF fvars, Worker, SpiCreate, SpiLock, SpiScan, SpiRegisterMessage,
     SpiRegisterTimer, SpiRegisterAction, SpiRegister, SpiCommit, SpiQuit, Exit
  <2>2. Entered'
    <3>1. CASE SpiCreate(w)
      BY <1>2, <2>1, <3>1, RegistryAssumption, Zenon DEF SpiCreate, FInv, Entered, fvars
    <3>2. CASE SpiLock(w) \/ SpiScan(w)
      BY <1>2, <2>1, <3>2, RegistryAssumption, Zenon DEF SpiLock, SpiScan, FInv, Entered, fvars
    <3>3. CASE SpiRegisterMessage(w) \/ SpiRegisterTimer(w) \/ SpiRegisterAction(w) \/ SpiCommit(w)
      BY <2>1, <3>3, Zenon DEF SpiRegisterMessage, SpiRegisterTimer, SpiRegisterAction, SpiRegister,
         SpiCommit, FInv, Entered, fvars
    <3>4. CASE SpiQuit(w) \/ Exit(w)
      BY <1>2, <2>1, <3>4, RegistryAssumption, ZenonT(40) DEF SpiQuit, Exit, FInv, Entered, fvars
    <3> QED BY <1>5, <3>1, <3>2, <3>3, <3>4 DEF Worker
  <2> QED BY <1>1, <1>3, <2>1, <2>2, AliveUnchanged DEF FInv
<1> QED BY <1>4, <1>5

(* A step of the daemon leaves the processes alone.                        *)
LEMMA DaemonEntered ==
    ASSUME FInv, UNCHANGED <<pc, linked>>, OnlyCleared
    PROVE  Entered' /\ (Departed <=> Departed')
BY RegistryAssumption, Zenon DEF FInv, Entered, OnlyCleared, Departed

(* With every worker alive nobody is evicted.                              *)
LEMMA TrustFInv ==
    ASSUME FInv, Trust, ThreadProbe = {TRUE}
    PROVE  FInv'
<1> USE DEF workerVars, maintainVars, timeVars
<1>1. RInv' /\ OnlyCleared
  BY TrustRInv, TrustStep DEF FInv, RInv
<1>2. UNCHANGED <<pc, linked, addr, restask, tlist, clearing, fault>>
  BY Zenon DEF Trust, TrustLock, TrustSlot
<1>3. ASSUME ~Departed, AllAlive PROVE info' = info
  <2>1. CASE TrustLock
    BY <2>1 DEF TrustLock
  <2>2. ASSUME NEW probe \in ThreadProbe, TrustSlot(probe) PROVE info' = info
    <3>1. ~Evicts(info[tpos].inst, TRUE)
      BY <1>3, RegistryAssumption DEF Evicts, Departed, FInv, RInv, DaemonShape, IInv, Shape
    <3> QED BY <2>2, <3>1, Zenon DEF TrustSlot
  <2> QED BY <2>1, <2>2, Zenon DEF Trust
<1>4. ~Departed /\ AllAlive => AllAlive'
  BY <1>2, <1>3, AliveUnchanged DEF fvars
<1> QED BY <1>1, <1>2, <1>4, DaemonEntered DEF FInv

(* With every worker alive each open finds the names, nothing is closed,   *)
(* and the tasks posted are of a mapped slot.                              *)
LEMMA MaintainFInv ==
    ASSUME FInv, Maintain
    PROVE  FInv'
<1> USE DEF workerVars, trustVars, timeVars
<1>1. RInv' /\ OnlyCleared
  BY MaintainRInv, MaintainStep DEF FInv, RInv
<1>2. UNCHANGED <<pc, linked, tlist, clearing>>
  BY DEF Maintain, MaintainWake, MaintainLock, MaintainSlot, MaintainAck
<1>3. mpos \in Slots /\ info \in [Slots -> [inst : Workers \cup {Nil}, state : States]] /\ RInv
      /\ addr \in [Slots -> Workers \cup {Nil}]
  BY Zenon DEF FInv, RInv, DaemonShape, IInv, Shape
<1>S. (\A i \in DOMAIN restask : restask[i].slot \in Slots) /\ \A i \in DOMAIN tlist : tlist[i][1] \in Slots
  <2>1. restask \in Seq(Tasks) /\ tlist \in Seq(Slots \X (0 .. TimerCount))
    BY DEF FInv, RInv, DaemonShape
  <2>2. \A i \in DOMAIN restask : restask[i] \in Tasks
    BY <2>1
  <2>3. \A i \in DOMAIN tlist : tlist[i] \in Slots \X (0 .. TimerCount)
    BY <2>1
  <2> QED BY <2>2, <2>3 DEF Tasks
<1>4. ASSUME ~Departed, AllAlive PROVE AllAlive'
  <2>1. CASE MaintainWake \/ MaintainLock
    BY <1>2, <1>4, <2>1, AliveUnchanged, Zenon DEF fvars, MaintainWake, MaintainLock
  <2>2. CASE MaintainAck
    <3>1. UNCHANGED <<addr, restask, fault>> /\ \A s \in Slots : info'[s].inst = info[s].inst
      BY <1>3, <2>2 DEF MaintainAck
    <3> QED BY <1>2, <1>4, <3>1, Zenon DEF AllAlive, Mapped
  <2>3. CASE MaintainSlot
    <3>0. UNCHANGED info
      BY <2>3 DEF MaintainSlot
    <3>1. ~MaintainClose(mpos)
      BY <1>3, <1>4, Zenon DEF MaintainClose, AllAlive
    <3>2. ~MaintainOpenFails(mpos)
      BY <1>3, <1>4 DEF MaintainOpenFails, FInv, Entered, Departed
    <3>3. CASE MaintainSkip(mpos)
      BY <1>2, <1>4, <3>0, <3>3, AliveUnchanged, Zenon DEF fvars, MaintainSkip
    <3>4. CASE MaintainOpenOnly(mpos)
      <4>1. UNCHANGED <<restask, fault>> /\ info[mpos].inst # Nil
            /\ (addr' = [addr EXCEPT ![mpos] = info[mpos].inst] \/ addr' = addr)
        BY <3>4, Zenon DEF MaintainOpenOnly
      <4>2. (\A s \in Slots : s # mpos => addr'[s] = addr[s]) /\ (addr[mpos] # Nil => addr'[mpos] # Nil)
        BY <1>3, <4>1
      <4> QED BY <1>2, <1>4, <1>S, <3>0, <4>1, <4>2, Zenon DEF AllAlive, Mapped
    <3>5. CASE MaintainOpen(mpos) \/ MaintainSync(mpos)
      <4>1. /\ \A i \in DOMAIN restask' :
                 \/ \E j \in DOMAIN restask : restask'[i] = restask[j]
                 \/ restask'[i].type # "DEL_WORKER" /\ restask'[i].slot = mpos
        BY <1>3, <3>5, SyncPosts, Zenon DEF MaintainOpen, MaintainSync
      <4>2. UNCHANGED fault /\ info[mpos].inst # Nil
            /\ (addr' = [addr EXCEPT ![mpos] = info[mpos].inst] \/ (addr' = addr /\ addr[mpos] # Nil))
        BY <3>5, Zenon DEF MaintainOpen, MaintainSync
      <4>3. (\A s \in Slots : s # mpos => addr'[s] = addr[s]) /\ addr'[mpos] # Nil
        BY <1>3, <4>2
      <4>4. \A s \in Slots : addr[s] # Nil => addr'[s] # Nil
        BY <4>3
      <4>5. \A s \in Slots : addr'[s] # Nil => info'[s].inst # Nil
        BY <1>4, <3>0, <4>2, <4>3, Zenon DEF AllAlive
      <4>6. ASSUME NEW i \in DOMAIN restask'
            PROVE  restask'[i].type # "DEL_WORKER" /\ addr'[restask'[i].slot] # Nil
        <5>1. CASE \E j \in DOMAIN restask : restask'[i] = restask[j]
          BY <1>4, <1>S, <4>4, <5>1, Zenon DEF AllAlive, Mapped
        <5>2. CASE restask'[i].type # "DEL_WORKER" /\ restask'[i].slot = mpos
          BY <4>3, <5>2
        <5> QED BY <4>1, <5>1, <5>2
      <4>7. \A i \in DOMAIN tlist' : addr'[tlist'[i][1]] # Nil
        BY <1>2, <1>4, <1>S, <4>4, Zenon DEF AllAlive, Mapped
      <4> QED BY <1>2, <1>4, <4>2, <4>5, <4>6, <4>7, Zenon DEF AllAlive, Mapped
    <3> QED BY <2>3, <3>1, <3>2, <3>3, <3>4, <3>5 DEF MaintainSlot
  <2> QED BY <2>1, <2>2, <2>3 DEF Maintain
<1> QED BY <1>1, <1>2, <1>4, DaemonEntered DEF FInv

(* With every worker alive each task, and each entry of the list, finds    *)
(* the shm its timer points into.                                          *)
LEMMA TimeFInv ==
    ASSUME FInv, Time
    PROVE  FInv'
<1> USE DEF workerVars, maintainVars, trustVars
<1>1. RInv' /\ OnlyCleared
  BY TimeRInv, TimeStep DEF FInv, RInv
<1>2. UNCHANGED <<pc, linked, addr>>
  BY Zenon DEF Time, TimeTask, TimeClear, TimeNoTask, TimeSchedule
<1>3. tlist \in Seq(Slots \X (0 .. TimerCount)) /\ restask \in Seq(Tasks)
  BY DEF FInv, RInv, DaemonShape
<1>4. ASSUME AllAlive PROVE AllAlive'
  <2>1. CASE TimeTask
    <3> DEFINE k == Head(restask)
               e == <<k.slot, k.timer>>
    <3>1. /\ k = restask[1] /\ 1 \in DOMAIN restask
          /\ \A i \in DOMAIN restask' : \E j \in DOMAIN restask : restask'[i] = restask[j]
      <4>1. restask # <<>> /\ restask' = Tail(restask) /\ Len(restask) \in Nat
        BY <1>3, <2>1 DEF TimeTask
      <4>2. Len(Tail(restask)) = Len(restask) - 1 /\ Tail(restask) \in Seq(Tasks)
            /\ \A i \in 1 .. Len(Tail(restask)) : Tail(restask)[i] = restask[i + 1]
        BY <1>3, <4>1
      <4>3. DOMAIN Tail(restask) = 1 .. Len(restask) - 1 /\ DOMAIN restask = 1 .. Len(restask)
        BY <1>3, <4>1, <4>2
      <4>4. \A i \in 1 .. Len(restask) - 1 : i + 1 \in 1 .. Len(restask)
        BY <4>1
      <4>5. 1 \in DOMAIN restask /\ k = restask[1]
        BY <1>3, <4>1, <4>3
      <4> QED BY <4>1, <4>2, <4>3, <4>4, <4>5
    <3> HIDE DEF k
    <3>2. k.type # "DEL_WORKER" /\ Mapped(k.slot)
      BY <1>4, <3>1 DEF AllAlive
    <3>3. TimeTimerTask(k)
      BY <2>1, <3>2 DEF TimeTask, TimeRemoveWorker, k
    <3>4. UNCHANGED <<info, clearing, fault>> /\ tlist' \in {Append(tlist, e), RemoveFromList(tlist, e)}
      BY <3>2, <3>3 DEF TimeTimerTask
    <3>5. \A i \in DOMAIN tlist' : tlist'[i] = e \/ \E j \in DOMAIN tlist : tlist'[i] = tlist[j]
      <4>1. CASE tlist' = Append(tlist, e)
        <5>1. e \in Slots \X (0 .. TimerCount)
          <6>1. k \in Tasks
            BY <1>3, <3>1
          <6> QED BY <6>1 DEF Tasks
        <5>2. /\ tlist' \in Seq(Slots \X (0 .. TimerCount)) /\ Len(tlist') = Len(tlist) + 1
              /\ \A i \in 1 .. Len(tlist) : tlist'[i] = tlist[i]
              /\ tlist'[Len(tlist) + 1] = e
          BY <1>3, <4>1, <5>1
        <5>3. DOMAIN tlist' = 1 .. Len(tlist) + 1 /\ DOMAIN tlist = 1 .. Len(tlist) /\ Len(tlist) \in Nat
          BY <1>3, <5>2
        <5> HIDE DEF e
        <5> QED BY <5>2, <5>3
      <4>2. CASE tlist' = RemoveFromList(tlist, e)
        <5> HIDE DEF e
        <5> QED BY <1>3, <4>2, RemovedFromList
      <4> QED BY <3>4, <4>1, <4>2, Zenon
    <3>6. e[1] = k.slot
      OBVIOUS
    <3> HIDE DEF e
    <3> QED BY <1>2, <1>4, <3>1, <3>2, <3>4, <3>5, <3>6, Zenon DEF AllAlive, Mapped
  <2>2. CASE TimeClear
    BY <1>4, <2>2 DEF TimeClear, AllAlive
  <2>3. CASE TimeNoTask
    BY <1>4, <2>3, AliveUnchanged DEF TimeNoTask, fvars
  <2>4. ASSUME NEW expired \in SUBSET Range(tlist), TimeSchedule(expired)
        PROVE  AllAlive'
    <3> DEFINE K == {i \in DOMAIN tlist :
                       active[tlist[i][1]][tlist[i][2]] = "RUNNING" /\ tlist[i] \notin expired}
    <3>1. UNCHANGED <<info, restask, clearing, fault>> /\ tlist' = Kept(tlist, K)
      BY <1>4, <2>4, Zenon DEF TimeSchedule, AllAlive
    <3>2. K \in SUBSET DOMAIN tlist
      OBVIOUS
    <3> HIDE DEF K
    <3>3. \A i \in DOMAIN tlist' : \E j \in DOMAIN tlist : tlist'[i] = tlist[j]
      <4>1. \A j \in DOMAIN Kept(tlist, K) : \E i \in DOMAIN tlist : Kept(tlist, K)[j] = tlist[i]
        BY <1>3, <3>2, KeptFromList
      <4> QED BY <3>1, <4>1, Zenon
    <3> QED BY <1>2, <1>4, <3>1, <3>3, Zenon DEF AllAlive, Mapped
  <2> QED BY <2>1, <2>2, <2>3, <2>4 DEF Time
<1> QED BY <1>1, <1>2, <1>4, DaemonEntered DEF FInv

(* When kill(2) is the only witness of death the daemon touches unmapped   *)
(* memory only after a worker has gone, for any number of workers, slots,  *)
(* timers and tasks.                                                       *)
THEOREM FaultsFollowDepartures ==
    ASSUME ThreadProbe = {TRUE}
    PROVE  Spec => []FaultNeedsDeparture
<1>1. FInv /\ [Next]_vars => FInv'
  <2> SUFFICES ASSUME FInv, [Next]_vars PROVE FInv'
    OBVIOUS
  <2>1. CASE UNCHANGED vars
    <3>1. UNCHANGED <<pc, linked>> /\ UNCHANGED fvars
      BY <2>1 DEF vars, workerVars, maintainVars, timeVars, fvars
    <3>2. RInv'
      BY <2>1, NextRInv DEF FInv
    <3>3. OnlyCleared
      BY <3>1 DEF OnlyCleared, fvars
    <3> QED BY <3>1, <3>2, <3>3, DaemonEntered, AliveUnchanged DEF FInv
  <2>2. CASE Next
    BY <2>2, WorkerFInv, TrustFInv, MaintainFInv, TimeFInv DEF Next
  <2> QED BY <2>1, <2>2
<1>2. FInv => FaultNeedsDeparture
  BY DEF FInv, AllAlive, Departed, FaultNeedsDeparture
<1> QED BY <1>1, <1>2, InitFInv, PTL DEF Spec
=============================================================================
