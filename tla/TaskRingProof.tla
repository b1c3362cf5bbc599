--------------------------- MODULE TaskRingProof ---------------------------
(***************************************************************************)
(* Proofs about the ring of scheduled tasks, for any number of threads,    *)
(* producers, slots and tasks, and for both kinds of event.                *)
(***************************************************************************)
EXTENDS TaskRing, FiniteSetTheorems, TLAPS

ThreadPc   == {"check", "wait", "acquire", "got", "process", "release", "exit"}
ProducerPc == {"idle", "pick", "advance", "fill", "post", "awake"}
Holding    == {"got", "process", "release", "advance", "fill", "post"}

(* threads and producers keep to their own program *)
Roles ==
    /\ \A t \in Threads : pc[t] \in ThreadPc
    /\ \A p \in Producers : pc[p] \in ProducerPc

(* who is between a successful compare and swap and the one that gives the *)
(* slot back has a slot, and the lock word of that slot is 2               *)
Held ==
    \A a \in Agents :
        /\ slot[a] # NoSlot <=> pc[a] \in Holding
        /\ slot[a] # NoSlot => lock[slot[a]] = BUSY

(* the producers that will still number a task, and the bound on them *)
Filling == {q \in Producers : pc[q] \in {"pick", "advance", "fill"}}
Budget  == posted + Cardinality(Filling) <= MaxTasks

(* the slots that hold a task which is written and not yet processed *)
Live(s) ==
    \/ lock[s] = READY
    \/ \E t \in Threads : slot[t] = s /\ pc[t] \in {"got", "process"}
    \/ \E p \in Producers : slot[p] = s /\ pc[p] = "post"

(* such a task has a number of its own and has not been processed *)
Fresh ==
    /\ \A s \in Slots : Live(s) => content[s] \in 1 .. posted /\ done[content[s]] = 0
    /\ \A s, r \in Slots : Live(s) /\ Live(r) /\ s # r => content[s] # content[r]
    /\ \A k \in Ids : k > posted => done[k] = 0

IInv == TypeOK /\ Roles /\ Held /\ SlotExclusive /\ Budget /\ Fresh

-----------------------------------------------------------------------------
(* A position reduced modulo the size of the ring names a slot of it, for  *)
(* the slot a scan looks at and for the positions it advances.             *)
LEMMA ModInSlots == ASSUME NEW n \in Nat PROVE n % RingSize \in Slots
BY RingAssumption DEF Slots

(* The tests of a scan are made at a slot.                                 *)
LEMMA AtInSlots == ASSUME TypeOK, NEW a \in Agents PROVE At(a) \in Slots
<1>1. cur[a] + idx[a] \in Nat
  BY RingAssumption DEF TypeOK, Slots
<1> QED BY <1>1, ModInSlots DEF At

(* The set of producers that will still number a task is finite.           *)
LEMMA FillingFinite == IsFiniteSet(Filling) /\ Cardinality(Filling) \in Nat
BY RingAssumption, FS_Subset, FS_CardinalityType DEF Filling

(* A producer that starts a pick is one more of them.                      *)
LEMMA FillingGrows ==
    ASSUME NEW p \in Producers, p \notin Filling, Filling' = Filling \cup {p}
    PROVE  Cardinality(Filling') = Cardinality(Filling) + 1
BY FillingFinite, FS_AddElement

(* A producer that numbers its task, or gives up, is one less.             *)
LEMMA FillingShrinks ==
    ASSUME NEW p \in Filling, Filling' = Filling \ {p}
    PROVE  Cardinality(Filling') = Cardinality(Filling) - 1
BY FillingFinite, FS_RemoveElement, Zenon

-----------------------------------------------------------------------------
(* The ring starts empty, with every thread at its first check.            *)
LEMMA InitIInv == Init => IInv
<1> SUFFICES ASSUME Init PROVE IInv
  OBVIOUS
<1>0. 0 \in Slots /\ NoSlot \notin Slots
  BY RingAssumption DEF Slots, NoSlot
<1>1. TypeOK
  <2>1. quit \in BOOLEAN
    BY Zenon DEF Init
  <2>2. pc \in [Agents -> ThreadPc \cup ProducerPc]
    BY DEF Init, ThreadPc, ProducerPc
  <2>3. done \in [Ids -> Nat] /\ posted \in 0 .. MaxTasks
    BY RingAssumption DEF Init
  <2> QED
    BY <1>0, <2>1, <2>2, <2>3 DEF Init, TypeOK, NOT_USE, READY, BUSY, ThreadPc, ProducerPc
<1>2. Roles /\ Held /\ SlotExclusive
  BY RingAssumption DEF Init, Roles, Held, SlotExclusive, Agents, ThreadPc, ProducerPc, Holding
<1>3. Filling = {}
  BY RingAssumption DEF Init, Filling, Agents
<1>4. Budget
  BY <1>3, FS_EmptySet, RingAssumption DEF Budget, Init
<1>5. Fresh
  BY RingAssumption DEF Init, Fresh, Live, Agents, NOT_USE, READY, Ids
<1> QED BY <1>1, <1>2, <1>4, <1>5 DEF IInv

-----------------------------------------------------------------------------
(* The producers that will still number a task stay within the bound when  *)
(* none joins them and no task is numbered.                                *)
LEMMA BudgetKept ==
    ASSUME IInv, posted' = posted, Filling' \subseteq Filling
    PROVE  Budget'
<1>1. Cardinality(Filling') <= Cardinality(Filling)
  BY FillingFinite, FS_Subset
<1>2. Cardinality(Filling') \in Nat /\ Cardinality(Filling) \in Nat
  BY FillingFinite, FS_Subset, FS_CardinalityType
<1> QED BY <1>1, <1>2, RingAssumption DEF IInv, TypeOK, Budget

(* A step that touches neither the slots nor the tasks, and moves one      *)
(* thread or producer to a place where it holds a slot, a task or a claim  *)
(* to a number only if it did before, keeps the invariant but for types.   *)
LEMMA QuietStep ==
    ASSUME IInv, UNCHANGED <<lock, content, slot, posted, done>>,
           NEW a \in Agents, NEW y, goto(a, y),
           y \in Holding <=> pc[a] \in Holding,
           a \in Threads => y \in ThreadPc /\ (y \in {"got", "process"} => pc[a] \in {"got", "process"}),
           a \in Producers => /\ y \in ProducerPc
                              /\ y = "post" => pc[a] = "post"
                              /\ y \in {"pick", "advance", "fill"} => a \in Filling
    PROVE  Roles' /\ Held' /\ SlotExclusive' /\ Budget' /\ Fresh'
<1> USE DEF IInv, goto
<1>0. pc \in [Agents -> ThreadPc \cup ProducerPc] /\ Threads \subseteq Agents /\ Producers \subseteq Agents
  BY DEF TypeOK, ThreadPc, ProducerPc, Agents
<1>1. Roles'
  BY <1>0 DEF Roles
<1>2. Held' /\ SlotExclusive'
  BY <1>0 DEF Held, SlotExclusive
<1>3. Filling' \subseteq Filling
  BY <1>0 DEF Filling
<1>4. Budget'
  BY <1>3, BudgetKept
<1>5. \A s \in Slots : Live(s)' => Live(s)
  BY <1>0 DEF Live
<1>6. Fresh'
  BY <1>5 DEF Fresh
<1> QED BY <1>1, <1>2, <1>4, <1>6

(* A successful compare and swap keeps the invariant but for types: the    *)
(* slot was free of owners, and a thread gets a task that was waiting.     *)
LEMMA HitStep ==
    ASSUME IInv, UNCHANGED <<content, posted, done>>, NEW a \in Agents, NEW from, NEW y,
           ScanHit(a, from, y),
           \/ a \in Threads /\ pc[a] = "acquire" /\ from = READY /\ y = "got"
           \/ a \in Producers /\ pc[a] = "pick" /\ from = NOT_USE /\ y = "advance"
    PROVE  Roles' /\ Held' /\ SlotExclusive' /\ Budget' /\ Fresh'
<1> USE DEF IInv, goto, ScanHit
<1> DEFINE s0 == At(a)
<1> HIDE DEF s0
<1>0. /\ pc \in [Agents -> ThreadPc \cup ProducerPc] /\ Threads \subseteq Agents /\ Producers \subseteq Agents
      /\ Threads \cap Producers = {}
  BY RingAssumption DEF TypeOK, ThreadPc, ProducerPc, Agents
<1>1. s0 \in Slots /\ s0 # NoSlot
  BY AtInSlots, RingAssumption DEF s0, Slots, NoSlot
<1>2. /\ lock \in [Slots -> {NOT_USE, READY, BUSY}] /\ slot \in [Agents -> Slots \cup {NoSlot}]
      /\ lock[s0] = from /\ from # BUSY
      /\ lock' = [lock EXCEPT ![s0] = BUSY] /\ slot' = [slot EXCEPT ![a] = s0]
      /\ pc' = [pc EXCEPT ![a] = y] /\ slot[a] = NoSlot
  BY <1>0 DEF TypeOK, s0, NOT_USE, READY, BUSY, Held, Holding
<1>3. \A b \in Agents : slot[b] # s0
  BY <1>1, <1>2 DEF Held
<1>4. Roles'
  BY <1>0, <1>2 DEF Roles, ThreadPc, ProducerPc
<1>5. Held'
  BY <1>0, <1>1, <1>2, <1>3 DEF Held, Holding
<1>6. SlotExclusive'
  BY <1>2, <1>3 DEF SlotExclusive
<1>7. Budget'
  <2>1. Filling' \subseteq Filling
    BY <1>0, <1>2 DEF Filling
  <2> QED BY <2>1, BudgetKept
<1>8. \A s \in Slots : Live(s)' => Live(s)
  BY <1>0, <1>1, <1>2, <1>3 DEF Live, READY, BUSY
<1>9. Fresh'
  BY <1>8 DEF Fresh
<1> QED BY <1>4, <1>5, <1>6, <1>7, <1>9

(* Giving a slot back keeps the invariant but for types: it was the only   *)
(* owner's, and a posted slot holds the task its producer numbered.        *)
LEMMA GiveBackStep ==
    ASSUME IInv, UNCHANGED <<content, posted, done>>, NEW a \in Agents, NEW v, NEW y,
           slot[a] # NoSlot,
           lock' = [lock EXCEPT ![slot[a]] = IF @ = BUSY THEN v ELSE @],
           slot' = [slot EXCEPT ![a] = NoSlot],
           goto(a, y),
           \/ a \in Threads /\ pc[a] = "release" /\ v = NOT_USE /\ y = "check"
           \/ a \in Producers /\ pc[a] = "post" /\ v = READY /\ y = "awake"
    PROVE  Roles' /\ Held' /\ SlotExclusive' /\ Budget' /\ Fresh'
<1> USE DEF IInv, goto
<1> DEFINE s0 == slot[a]
<1> HIDE DEF s0
<1>0. /\ pc \in [Agents -> ThreadPc \cup ProducerPc] /\ Threads \subseteq Agents /\ Producers \subseteq Agents
      /\ Threads \cap Producers = {}
  BY RingAssumption DEF TypeOK, ThreadPc, ProducerPc, Agents
<1>1. s0 \in Slots /\ s0 # NoSlot /\ lock[s0] = BUSY
  BY DEF s0, TypeOK, Held
<1>2. /\ lock \in [Slots -> {NOT_USE, READY, BUSY}] /\ slot \in [Agents -> Slots \cup {NoSlot}]
      /\ lock' = [lock EXCEPT ![s0] = v] /\ slot' = [slot EXCEPT ![a] = NoSlot]
      /\ pc' = [pc EXCEPT ![a] = y]
  BY <1>1 DEF TypeOK, s0
<1>3. \A b \in Agents : b # a => slot[b] # s0
  BY <1>1 DEF SlotExclusive, s0
<1>4. Roles'
  BY <1>0, <1>2 DEF Roles, ThreadPc, ProducerPc
<1>5. Held'
  BY <1>0, <1>1, <1>2, <1>3 DEF Held, Holding
<1>6. SlotExclusive'
  BY <1>2, <1>3 DEF SlotExclusive
<1>7. Budget'
  <2>1. Filling' \subseteq Filling
    BY <1>0, <1>2 DEF Filling
  <2> QED BY <2>1, BudgetKept
<1>8. \A s \in Slots : Live(s)' => Live(s)
  BY <1>0, <1>1, <1>2, <1>3 DEF Live, READY, NOT_USE, s0
<1>9. Fresh'
  BY <1>8 DEF Fresh
<1> QED BY <1>4, <1>5, <1>6, <1>7, <1>9
(* A scan that misses goes on to a slot of the ring or gives up.           *)
LEMMA MissTypes ==
    ASSUME TypeOK, NEW a \in Agents, NEW from, NEW y \in {"idle", "check"}, ScanMiss(a, from, y)
    PROVE  /\ pc' \in [Agents -> ThreadPc \cup ProducerPc]
           /\ cur' \in [Agents -> Slots]
           /\ idx' \in [Agents -> Slots]
<1>0. 0 \in Slots /\ idx[a] \in Slots
  BY RingAssumption DEF TypeOK, Slots
<1>1. CASE idx[a] + 1 < RingSize
  <2>1. idx[a] + 1 \in Slots
    BY <1>0, <1>1, RingAssumption DEF Slots
  <2> QED BY <1>1, <2>1 DEF TypeOK, ScanMiss, ThreadPc, ProducerPc
<1>2. CASE ~(idx[a] + 1 < RingSize)
  BY <1>0, <1>2 DEF TypeOK, ScanMiss, goto, ThreadPc, ProducerPc
<1> QED BY <1>1, <1>2

-----------------------------------------------------------------------------
(* Every step of a producer keeps the invariant.                           *)
LEMMA ProducerStep ==
    ASSUME IInv, NEW p \in Producers, Producer(p)
    PROVE  IInv'
<1>0. /\ p \in Agents /\ p \notin Threads
      /\ RingSize \in Nat \ {0} /\ MaxTasks \in Nat /\ Counting \in BOOLEAN
  BY RingAssumption DEF Agents
<1>T. TypeOK
  BY DEF IInv
<1>1. CASE PickStart(p)
  <2>1. TypeOK'
    BY <1>0, <1>1, <1>T DEF PickStart, ScanStart, goto, TypeOK, Slots
  <2>2. p \notin Filling /\ Filling' = Filling \cup {p} /\ posted + Cardinality(Filling) < MaxTasks
    BY <1>0, <1>1, <1>T DEF PickStart, ScanStart, goto, TypeOK, Filling, Agents
  <2>3. Budget'
    <3>1. Cardinality(Filling') = Cardinality(Filling) + 1 /\ Cardinality(Filling) \in Nat
      BY <2>2, FillingGrows, FillingFinite
    <3> QED BY <1>0, <1>1, <1>T, <2>2, <3>1 DEF Budget, PickStart, TypeOK
  <2>4. Roles' /\ Held' /\ SlotExclusive'
    BY <1>0, <1>1, <1>T, RingAssumption DEF PickStart, ScanStart, goto, IInv, TypeOK, Roles, Held, SlotExclusive,
       Agents, ThreadPc, ProducerPc, Holding
  <2>5. \A s \in Slots : Live(s)' => Live(s)
    BY <1>0, <1>1, <1>T DEF PickStart, ScanStart, goto, TypeOK, Live, Agents
  <2>6. Fresh'
    BY <1>1, <2>5 DEF Fresh, IInv, PickStart
  <2> QED BY <2>1, <2>3, <2>4, <2>6 DEF IInv
<1>2. CASE PickTry(p)
  <2> USE <1>2 DEF PickTry
  <2>1. CASE ScanHit(p, NOT_USE, "advance")
    <3>1. TypeOK'
      BY <1>0, <1>T, <2>1, AtInSlots DEF ScanHit, goto, TypeOK
    <3> QED BY <1>0, <2>1, <3>1, HitStep DEF IInv
  <2>2. CASE ScanMiss(p, NOT_USE, "idle")
    <3>1. TypeOK'
      BY <1>0, <1>T, <2>2, MissTypes, Zenon DEF ScanMiss, TypeOK, ThreadPc, ProducerPc
    <3>2. CASE idx[p] + 1 < RingSize
      <4>1. goto(p, "pick")
        BY <1>T, <2>2, <3>2, Zenon DEF ScanMiss, goto, TypeOK
      <4> QED BY <1>0, <1>2, <2>2, <3>1, <4>1, QuietStep DEF IInv, ScanMiss, Holding, ProducerPc, Filling
    <3>3. CASE ~(idx[p] + 1 < RingSize)
      BY <1>0, <1>2, <2>2, <3>1, <3>3, QuietStep DEF IInv, ScanMiss, Holding, ProducerPc, Filling
    <3> QED BY <3>2, <3>3
  <2> QED BY <2>1, <2>2
<1>3. CASE PickAdvance(p)
  <2>1. TypeOK'
    <3>1. write_pos + idx[p] + 1 \in Nat
      BY <1>0, <1>T DEF TypeOK, Slots
    <3>2. write_pos' \in Slots
      BY <1>3, <3>1, ModInSlots DEF PickAdvance, Advance
    <3> QED BY <1>0, <1>3, <1>T, <3>2 DEF PickAdvance, Advance, goto, TypeOK, Slots
  <2> QED BY <1>0, <1>3, <2>1, QuietStep DEF IInv, PickAdvance, Advance, Holding, ProducerPc, Filling
<1>4. CASE Fill(p)
  <2> DEFINE s0 == slot[p]
  <2> USE DEF Fill, goto
  <2>1. s0 \in Slots /\ lock[s0] = BUSY /\ \A b \in Agents : b # p => slot[b] # s0
    BY <1>0, <1>4 DEF IInv, TypeOK, Held, SlotExclusive, Holding
  <2>2. p \in Filling /\ Filling' = Filling \ {p}
    BY <1>0, <1>4, <1>T DEF TypeOK, Filling, Agents
  <2>3. Budget' /\ posted + 1 <= MaxTasks
    <3>1. Cardinality(Filling') = Cardinality(Filling) - 1 /\ Cardinality(Filling) \in Nat
          /\ Cardinality(Filling') \in Nat
      BY <2>2, FillingShrinks, FillingFinite, FS_Subset, FS_CardinalityType
    <3> QED BY <1>0, <1>4, <1>T, <3>1 DEF IInv, Budget, TypeOK
  <2>4. TypeOK'
    BY <1>0, <1>4, <1>T, <2>1, <2>3 DEF TypeOK, Ids
  <2>5. Roles' /\ Held' /\ SlotExclusive'
    BY <1>0, <1>4, <1>T, RingAssumption DEF IInv, TypeOK, Roles, Held, SlotExclusive,
       Agents, ThreadPc, ProducerPc, Holding
  <2>6. \A s \in Slots : s # s0 /\ Live(s)' => Live(s)
    BY <1>0, <1>4, <1>T DEF TypeOK, Live, Agents
  <2>7. \A s \in Slots : Live(s)' => content'[s] \in 1 .. posted' /\ done'[content'[s]] = 0
    BY <1>0, <1>4, <1>T, <2>1, <2>3, <2>6 DEF IInv, Fresh, TypeOK, Ids
  <2>8. \A s \in Slots : s # s0 /\ Live(s)' => content'[s] # content'[s0]
    BY <1>4, <1>T, <2>1, <2>6 DEF IInv, Fresh, TypeOK
  <2>9. \A s, r \in Slots : Live(s)' /\ Live(r)' /\ s # r => content'[s] # content'[r]
    BY <1>4, <1>T, <2>1, <2>6, <2>8 DEF IInv, Fresh, TypeOK
  <2>10. Fresh'
    BY <1>4, <1>T, <2>7, <2>9 DEF IInv, Fresh, TypeOK, Ids
  <2> QED BY <2>3, <2>4, <2>5, <2>10 DEF IInv
<1>5. CASE PostTask(p)
  <2>1. slot[p] # NoSlot
    BY <1>0, <1>5 DEF IInv, Held, Holding, PostTask
  <2>2. TypeOK'
    BY <1>0, <1>5, <1>T, Zenon DEF PostTask, goto, TypeOK
  <2> QED BY <1>0, <1>5, <2>1, <2>2, GiveBackStep, Zenon DEF IInv, PostTask
<1>6. CASE PostAwake(p)
  <2>1. TypeOK'
    BY <1>0, <1>6, <1>T DEF PostAwake, Awake, goto, TypeOK
  <2> QED BY <1>0, <1>6, <2>1, QuietStep DEF IInv, PostAwake, Holding, ProducerPc, Filling
<1> QED BY <1>1, <1>2, <1>3, <1>4, <1>5, <1>6 DEF Producer

(* Every step of a pool thread keeps the invariant.                        *)
LEMMA ThreadStep ==
    ASSUME IInv, NEW t \in Threads, Thread(t)
    PROVE  IInv'
<1>0. /\ t \in Agents /\ t \notin Producers
      /\ RingSize \in Nat \ {0} /\ MaxTasks \in Nat /\ Counting \in BOOLEAN
  BY RingAssumption DEF Agents
<1>T. TypeOK
  BY DEF IInv
<1>1. CASE CheckQuit(t)
  <2>1. PICK y \in {"exit", "wait"} : goto(t, y)
    BY <1>1 DEF CheckQuit
  <2>2. TypeOK'
    BY <1>0, <1>1, <1>T, <2>1 DEF CheckQuit, goto, TypeOK
  <2>3. pc[t] = "check" /\ UNCHANGED <<lock, content, slot, posted, done>>
    BY <1>1 DEF CheckQuit
  <2> QED BY <1>0, <2>1, <2>2, <2>3, QuietStep DEF IInv, Holding, ThreadPc
<1>2. CASE Wake(t)
  <2>1. TypeOK'
    BY <1>0, <1>2, <1>T DEF Wake, ScanStart, goto, TypeOK, Slots
  <2> QED BY <1>0, <1>2, <2>1, QuietStep DEF IInv, Wake, ScanStart, Holding, ThreadPc
<1>3. CASE AcquireTry(t)
  <2> USE <1>3 DEF AcquireTry
  <2>1. CASE ScanHit(t, READY, "got")
    <3>1. TypeOK'
      BY <1>0, <1>T, <2>1, AtInSlots, Zenon DEF ScanHit, goto, TypeOK
    <3> QED BY <1>0, <2>1, <3>1, HitStep DEF IInv
  <2>2. CASE ScanMiss(t, READY, "check")
    <3>1. TypeOK'
      BY <1>0, <1>T, <2>2, MissTypes, Zenon DEF ScanMiss, TypeOK, ThreadPc, ProducerPc
    <3>2. CASE idx[t] + 1 < RingSize
      <4>1. goto(t, "acquire")
        BY <1>T, <2>2, <3>2 DEF ScanMiss, goto, TypeOK
      <4> QED BY <1>0, <1>3, <2>2, <3>1, <4>1, QuietStep DEF IInv, ScanMiss, Holding, ThreadPc
    <3>3. CASE ~(idx[t] + 1 < RingSize)
      BY <1>0, <1>3, <2>2, <3>1, <3>3, QuietStep DEF IInv, ScanMiss, Holding, ThreadPc
    <3> QED BY <3>2, <3>3
  <2> QED BY <2>1, <2>2
<1>4. CASE AcquireAdvance(t)
  <2>1. TypeOK'
    <3>1. read_pos + idx[t] + 1 \in Nat
      BY <1>0, <1>T DEF TypeOK, Slots
    <3>2. read_pos' \in Slots
      BY <1>4, <3>1, ModInSlots DEF AcquireAdvance, Advance
    <3> QED BY <1>0, <1>4, <1>T, <3>2 DEF AcquireAdvance, Advance, goto, TypeOK, Slots
  <2> QED BY <1>0, <1>4, <2>1, QuietStep DEF IInv, AcquireAdvance, Advance, Holding, ThreadPc
<1>5. CASE Process(t)
  <2> DEFINE s0 == slot[t]
             k0 == content[s0]
  <2> USE DEF Process, goto
  <2>1. s0 \in Slots /\ Live(s0) /\ lock[s0] = BUSY /\ \A b \in Agents : b # t => slot[b] # s0
    BY <1>0, <1>5 DEF IInv, TypeOK, Held, SlotExclusive, Holding, Live
  <2>2. k0 \in Ids /\ k0 \in 1 .. posted
    BY <1>T, <2>1, RingAssumption DEF IInv, Fresh, TypeOK, Ids
  <2>3. done' = [done EXCEPT ![k0] = @ + 1]
    BY <1>5
  <2> HIDE DEF k0, s0
  <2>4. TypeOK'
    BY <1>0, <1>5, <1>T, <2>2, <2>3 DEF TypeOK
  <2>5. Roles' /\ Held' /\ SlotExclusive'
    BY <1>0, <1>5, <1>T, RingAssumption DEF IInv, TypeOK, Roles, Held, SlotExclusive,
       Agents, ThreadPc, ProducerPc, Holding
  <2>6. Budget'
    <3>1. Filling' \subseteq Filling
      BY <1>0, <1>5, <1>T DEF TypeOK, Filling, Agents
    <3> QED BY <1>5, <3>1, BudgetKept
  <2>7. \A s \in Slots : Live(s)' => Live(s) /\ s # s0
    BY <1>0, <1>5, <1>T, <2>1 DEF TypeOK, Live, Agents, READY, BUSY, s0
  <2>8. \A s \in Slots : Live(s)' => content[s] # k0
    BY <2>1, <2>7 DEF IInv, Fresh, k0
  <2>9. Fresh'
    BY <1>5, <1>T, <2>2, <2>3, <2>7, <2>8 DEF IInv, Fresh, TypeOK, Ids
  <2> QED BY <2>4, <2>5, <2>6, <2>9 DEF IInv
<1>6. CASE ReleaseTask(t)
  <2>1. slot[t] # NoSlot
    BY <1>0, <1>6 DEF IInv, Held, Holding, ReleaseTask
  <2>2. TypeOK'
    BY <1>0, <1>6, <1>T, Zenon DEF ReleaseTask, goto, TypeOK
  <2> QED BY <1>0, <1>6, <2>1, <2>2, GiveBackStep, Zenon DEF IInv, ReleaseTask
<1> QED BY <1>1, <1>2, <1>3, <1>4, <1>5, <1>6 DEF Thread

(* A step that changes only the control of main keeps the invariant.       *)
LEMMA Unmoved ==
    ASSUME IInv, TypeOK', UNCHANGED <<lock, content, local, posted, done>>
    PROVE  IInv'
<1>1. Filling' = Filling /\ \A s \in Slots : Live(s)' <=> Live(s)
  BY DEF Filling, Live, local
<1> QED BY <1>1, BudgetKept, Zenon DEF IInv, Roles, Held, SlotExclusive, Fresh, local

(* Every step of stop_task_threads keeps the invariant.                    *)
LEMMA StopStep ==
    ASSUME IInv, Stop
    PROVE  IInv'
<1>T. TypeOK /\ Counting \in BOOLEAN
  BY RingAssumption DEF IInv
<1>1. CASE StopFlag
  <2>1. TypeOK'
    BY <1>1, <1>T DEF StopFlag, TypeOK, local
  <2> QED BY <1>1, <2>1, Unmoved DEF StopFlag
<1>2. CASE StopAwake
  <2>1. TypeOK'
    BY <1>2, <1>T DEF StopAwake, Awake, TypeOK, local
  <2> QED BY <1>2, <2>1, Unmoved DEF StopAwake
<1>3. CASE StopJoined
  <2>1. TypeOK'
    BY <1>3, <1>T DEF StopJoined, TypeOK, local
  <2> QED BY <1>3, <2>1, Unmoved DEF StopJoined
<1> QED BY <1>1, <1>2, <1>3 DEF Stop

(* IInv is inductive.                                                      *)
LEMMA NextIInv == IInv /\ [Next]_vars => IInv'
<1> SUFFICES ASSUME IInv, [Next]_vars PROVE IInv'
  OBVIOUS
<1>1. CASE UNCHANGED vars
  <2>1. TypeOK'
    BY <1>1 DEF IInv, TypeOK, vars, local
  <2> QED BY <1>1, <2>1, Unmoved DEF vars
<1>2. CASE Next
  BY <1>2, ProducerStep, ThreadStep, StopStep DEF Next
<1> QED BY <1>1, <1>2

(* The inductive invariant holds in every state of every behaviour.        *)
THEOREM Invariance == Spec => []IInv
BY InitIInv, NextIInv, PTL DEF Spec

(* The fields of the ring keep their ranges for every size of the ring and *)
(* number of tasks: the positions always name a slot, a processed task is  *)
(* one that was written.                                                   *)
THEOREM TypeCorrect == Spec => []TypeOK
<1>1. IInv => TypeOK
  BY DEF IInv
<1> QED BY <1>1, Invariance, PTL

(* lmice_pick_task and lmice_acquire_task hand a slot to one owner at a    *)
(* time, for any number of threads and producers.                          *)
THEOREM Exclusion == Spec => []SlotExclusive
<1>1. IInv => SlotExclusive
  BY DEF IInv
<1> QED BY <1>1, Invariance, PTL
-----------------------------------------------------------------------------
(* The ring implements the task pool.  The three sides of the mapping:     *)
Pending  == {content[s] : s \in {q \in Slots : lock[q] = READY}}
Running  == [t \in Threads |-> IF pc[t] \in {"got", "process"} THEN content[slot[t]] ELSE None]
Finished == {k \in Ids : done[k] > 0}

poolState == <<Pending, Running, Finished>>

(* A thread moves between places where it works on no task, or a producer  *)
(* moves: the pool does not change.                                        *)
LEMMA SameRunning ==
    ASSUME TypeOK, UNCHANGED <<content, slot>>, NEW a \in Agents, NEW y, goto(a, y),
           a \in Threads => (y \in {"got", "process"} <=> pc[a] \in {"got", "process"})
    PROVE  Running' = Running
<1> QED BY DEF Running, goto, TypeOK, Agents

(* A step of a producer is a Submit when it posts and no step of the pool  *)
(* otherwise.                                                              *)
LEMMA ProducerRefines ==
    ASSUME IInv, NEW p \in Producers, Producer(p)
    PROVE  (\E k \in Ids : Pool!Submit(k)) \/ UNCHANGED poolState
<1>0. /\ p \in Agents /\ p \notin Threads /\ Threads \subseteq Agents /\ TypeOK
  BY RingAssumption DEF Agents, IInv
<1>1. CASE PickStart(p)
  BY <1>0, <1>1, SameRunning DEF PickStart, ScanStart, poolState, Pending, Finished
<1>2. CASE PickTry(p)
  <2>1. CASE ScanHit(p, NOT_USE, "advance")
    <3>1. Pending' = Pending
      BY <1>0, <1>2, <2>1, AtInSlots DEF PickTry, ScanHit, Pending, TypeOK, NOT_USE, READY, BUSY
    <3>2. Running' = Running
      BY <1>0, <1>2, <2>1 DEF PickTry, ScanHit, goto, Running, TypeOK
    <3> QED BY <1>2, <3>1, <3>2 DEF PickTry, poolState, Finished
  <2>2. CASE ScanMiss(p, NOT_USE, "idle")
    <3>2. Running' = Running
      BY <1>0, <1>2, <2>2 DEF PickTry, ScanMiss, goto, Running, TypeOK
    <3> QED BY <1>2, <2>2, <3>2, Zenon DEF PickTry, ScanMiss, poolState, Pending, Finished
  <2> QED BY <1>2, <2>1, <2>2 DEF PickTry
<1>3. CASE PickAdvance(p)
  BY <1>0, <1>3, SameRunning, Zenon DEF PickAdvance, Advance, poolState, Pending, Finished
<1>4. CASE Fill(p)
  <2>1. slot[p] \in Slots /\ lock[slot[p]] = BUSY /\ \A b \in Agents : b # p => slot[b] # slot[p]
    BY <1>0, <1>4, Zenon DEF IInv, TypeOK, Held, SlotExclusive, Holding, Fill
  <2>2. Pending' = Pending
    BY <1>4, <2>1, <1>0 DEF Fill, Pending, TypeOK, READY, BUSY
  <2>3. Running' = Running
    <3>1. \A t \in Threads : pc[t] \in {"got", "process"} =>
              slot[t] \in Slots /\ content'[slot[t]] = content[slot[t]]
      BY <1>0, <1>4, <2>1, Zenon DEF Fill, IInv, TypeOK, Held, Holding
    <3>2. \A t \in Threads : pc'[t] = pc[t]
      BY <1>0, <1>4 DEF Fill, goto, TypeOK
    <3> QED BY <1>4, <3>1, <3>2 DEF Fill, Running
  <2> QED BY <1>4, <2>2, <2>3 DEF Fill, poolState, Finished
<1>5. CASE PostTask(p)
  <2> DEFINE s0 == slot[p]
  <2>1. s0 \in Slots /\ lock[s0] = BUSY /\ Live(s0) /\ \A b \in Agents : b # p => slot[b] # s0
    BY <1>0, <1>5 DEF IInv, TypeOK, Held, SlotExclusive, Holding, PostTask, Live
  <2>2. PICK k0 \in Ids : k0 = content[s0] /\ k0 # None /\ done[k0] = 0
    BY <1>0, <2>1, RingAssumption DEF IInv, Fresh, TypeOK, Ids, None
  <2>3. k0 \notin Pending
    BY <2>1, <2>2 DEF IInv, Fresh, Live, Pending, READY, BUSY
  <2>4. \A t \in Threads : Running[t] # k0
    BY <1>0, <2>1, <2>2, Zenon DEF IInv, Fresh, Live, Running, TypeOK, Held, Holding
  <2>5. k0 \notin Finished
    BY <2>2 DEF Finished
  <2>6. Pending' = Pending \cup {k0}
    <3>1. lock' = [lock EXCEPT ![s0] = READY] /\ content' = content
      BY <1>0, <1>5, <2>1 DEF PostTask, TypeOK
    <3> QED BY <1>0, <2>1, <2>2, <3>1, Zenon DEF Pending, TypeOK, READY, BUSY
  <2>7. Running' = Running
    BY <1>0, <1>5 DEF PostTask, goto, Running, TypeOK
  <2>8. Finished' = Finished
    BY <1>5 DEF PostTask, Finished
  <2>9. Pool!Submit(k0)
    <3>1. k0 \notin Pending \cup {Running[t] : t \in Threads} \cup Finished
      BY <2>3, <2>4, <2>5, Zenon
    <3> QED BY <2>6, <2>7, <2>8, <3>1 DEF Pool!Submit, Pool!Known, Pending, Running, Finished
  <2> QED BY <2>2, <2>9
<1>6. CASE PostAwake(p)
  BY <1>0, <1>6, SameRunning DEF PostAwake, poolState, Pending, Finished
<1> QED BY <1>1, <1>2, <1>3, <1>4, <1>5, <1>6 DEF Producer

(* A step of a pool thread is a Take when it acquires a task, a Finish     *)
(* when it processes it and no step of the pool otherwise.                 *)
LEMMA ThreadRefines ==
    ASSUME IInv, NEW t \in Threads, Thread(t)
    PROVE  \/ Pool!Finish(t)
           \/ \E k \in Ids : Pool!Take(t, k)
           \/ UNCHANGED poolState
<1>0. t \in Agents /\ t \notin Producers /\ Threads \subseteq Agents /\ TypeOK
  BY RingAssumption DEF Agents, IInv
<1>1. CASE CheckQuit(t)
  <2>1. PICK y \in {"exit", "wait"} : goto(t, y)
    BY <1>1 DEF CheckQuit
  <2> QED BY <1>0, <1>1, <2>1, SameRunning DEF CheckQuit, poolState, Pending, Finished
<1>2. CASE Wake(t)
  BY <1>0, <1>2, SameRunning DEF Wake, ScanStart, poolState, Pending, Finished
<1>3. CASE AcquireTry(t)
  <2>1. CASE ScanHit(t, READY, "got")
    <3> DEFINE s0 == At(t)
    <3>1. s0 \in Slots /\ lock[s0] = READY /\ Live(s0)
      BY <1>0, <2>1, AtInSlots DEF ScanHit, Live
    <3>2. PICK k0 \in Ids : k0 = content[s0]
      BY <1>0, <3>1, RingAssumption DEF IInv, Fresh, TypeOK, Ids
    <3>3. /\ lock' = [lock EXCEPT ![s0] = BUSY] /\ slot' = [slot EXCEPT ![t] = s0]
          /\ pc' = [pc EXCEPT ![t] = "got"] /\ content' = content /\ done' = done
          /\ pc[t] = "acquire"
      BY <1>3, <2>1 DEF AcquireTry, ScanHit, goto
    <3> HIDE DEF s0
    <3>4. k0 \in Pending
      BY <3>1, <3>2, Zenon DEF Pending
    <3>5. Pending' = Pending \ {k0}
      <4>1. \A s \in Slots : lock[s] = READY /\ s # s0 => content[s] # k0
        BY <3>1, <3>2, Zenon DEF IInv, Fresh, Live
      <4>2. \A s \in Slots : lock'[s] = READY <=> lock[s] = READY /\ s # s0
        BY <1>0, <3>1, <3>3 DEF TypeOK, READY, BUSY
      <4> QED BY <3>1, <3>2, <3>3, <4>1, <4>2 DEF Pending
    <3>6. Running[t] = None /\ Running' = [Running EXCEPT ![t] = k0]
      BY <1>0, <3>2, <3>3, Zenon DEF Running, TypeOK
    <3>7. Finished' = Finished
      BY <3>3 DEF Finished
    <3>8. Pool!Take(t, k0)
      BY <3>4, <3>5, <3>6, <3>7, Zenon DEF Pool!Take, Pending, Running, Finished
    <3> QED BY <3>8
  <2>2. CASE ScanMiss(t, READY, "check")
    <3>1. Running' = Running
      BY <1>0, <1>3, <2>2 DEF AcquireTry, ScanMiss, goto, Running, TypeOK
    <3> QED BY <1>3, <2>2, <3>1, Zenon DEF AcquireTry, ScanMiss, poolState, Pending, Finished
  <2> QED BY <1>3, <2>1, <2>2 DEF AcquireTry
<1>4. CASE AcquireAdvance(t)
  BY <1>0, <1>4, SameRunning, Zenon DEF AcquireAdvance, Advance, poolState, Pending, Finished
<1>5. CASE Process(t)
  <2> DEFINE s0 == slot[t]
  <2>1. s0 \in Slots /\ Live(s0)
    BY <1>0, <1>5 DEF IInv, TypeOK, Held, Holding, Live, Process
  <2>2. PICK k0 \in Ids : k0 = content[s0] /\ k0 # None
    BY <1>0, <2>1, RingAssumption DEF IInv, Fresh, TypeOK, Ids, None
  <2>3. Running[t] = k0 /\ Running' = [Running EXCEPT ![t] = None]
    BY <1>0, <1>5, <2>2, Zenon DEF Running, Process, goto, TypeOK
  <2>4. Finished' = Finished \cup {k0}
    BY <1>0, <1>5, <2>2, SMTT(30) DEF Finished, Process, TypeOK
  <2>5. Pending' = Pending
    BY <1>5, Zenon DEF Pending, Process
  <2> QED BY <2>2, <2>3, <2>4, <2>5, Zenon DEF Pool!Finish, Pending, Running, Finished
<1>6. CASE ReleaseTask(t)
  <2>1. slot[t] \in Slots /\ lock[slot[t]] = BUSY
    BY <1>0, <1>6 DEF IInv, TypeOK, Held, Holding, ReleaseTask
  <2>2. Pending' = Pending
    BY <1>0, <1>6, <2>1 DEF ReleaseTask, Pending, TypeOK, READY, BUSY, NOT_USE
  <2>3. Running' = Running
    BY <1>0, <1>6 DEF ReleaseTask, goto, Running, TypeOK
  <2> QED BY <1>6, <2>2, <2>3, Zenon DEF ReleaseTask, poolState, Finished
<1> QED BY <1>1, <1>2, <1>3, <1>4, <1>5, <1>6 DEF Thread

(* The ring implements the abstract task pool, for any number of threads,  *)
(* producers, slots and tasks: a posted task is taken by one thread, and   *)
(* none is taken half written, twice, or after it was processed.           *)
THEOREM Refinement == Spec => ImplementsPool
<1>1. Init => Pool!Init
  <2> SUFFICES ASSUME Init PROVE Pool!Init
    OBVIOUS
  <2>1. Pending = {}
    BY DEF Init, Pending, NOT_USE, READY
  <2>2. Running = [t \in Threads |-> None]
    BY DEF Init, Running, Agents
  <2>3. Finished = {}
    BY DEF Init, Finished
  <2> QED BY <2>1, <2>2, <2>3 DEF Pool!Init, Pending, Running, Finished
<1>2. IInv /\ [Next]_vars => [Pool!Next]_(Pool!poolVars)
  <2> SUFFICES ASSUME IInv, [Next]_vars PROVE Pool!Next \/ UNCHANGED poolState
    BY DEF poolState, Pool!poolVars, Pending, Running, Finished
  <2>1. CASE \E p \in Producers : Producer(p)
    BY <2>1, ProducerRefines DEF Pool!Next
  <2>2. CASE \E t \in Threads : Thread(t)
    BY <2>2, ThreadRefines, Zenon DEF Pool!Next
  <2>3. CASE Stop \/ UNCHANGED vars
    BY <2>3 DEF Stop, StopFlag, StopAwake, StopJoined, vars, local, poolState, Pending, Running, Finished
  <2> QED BY <2>1, <2>2, <2>3 DEF Next
<1> QED BY <1>1, <1>2, Invariance, PTL DEF Spec, ImplementsPool, Pool!Spec
=============================================================================
