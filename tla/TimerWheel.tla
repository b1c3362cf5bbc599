----------------------------- MODULE TimerWheel -----------------------------
(***************************************************************************)
(* The time thread of the daemon (timer/timer_system_time.c) and the timer *)
(* lists it keeps (resource/resource_manage.h).  Every period of the       *)
(* thread is one time_thread_proc: advance the clock, take the tasks from  *)
(* the queue, then walk the due list and those of the four work lists that *)
(* are due for a check.  A list is a chain of arrays ("chunks").           *)
(*                                                                         *)
(* The maintain thread adds timers while the lists are walked.  How timers *)
(* are taken away with their worker is in module WorkerRegistry.  The      *)
(* ticker lists are copies of these lists that are walked when tick_time   *)
(* is positive; nothing in the source sets tick_zero_time, so it stays 0   *)
(* and they are never walked.                                              *)
(*                                                                         *)
(* One unit of time is the period of the thread (1 ms).                    *)
(***************************************************************************)
EXTENDS Integers, Sequences, FiniteSets

CONSTANTS
    Timers,
    Kinds,          \* timer descriptions [size, period, due] workers register
    ChunkSize,      \* TIMER_LIST_SIZE - 1 (31): timers in one array
    P1, P2, P3,     \* PERIOD_1..3 (8, 32, 128)
    C2, C3, C4,     \* checks of the lists 2, 3 and 4 (every 16, 32, 128 ticks)
    Resync,         \* every so many ticks system_time is read anew (32)
    Delay,          \* what one tick adds to system_time in between: 10000 *
                    \* wTimerDelay.  wTimerDelay is the period in 100 ns, so
                    \* 10000 periods (USE_MMTIMER, which no build sets: 1)
    MaxTicks        \* bound: ticks of a run

ASSUME WheelAssumption ==
    /\ ChunkSize \in Nat \ {0}
    /\ P1 \in Nat /\ P2 \in Nat /\ P3 \in Nat /\ P1 <= P2 /\ P2 <= P3
    /\ {C2, C3, C4, Resync, Delay} \subseteq Nat \ {0}
    /\ MaxTicks \in Nat
    /\ \A k \in Kinds : k.size \in Nat /\ k.period \in Nat \ {0} /\ k.due \in Int

Lists == <<"due", "w1", "w2", "w3", "w4">>
NoKind == [size |-> 0, period |-> 0, due |-> 0]
Idle == [list |-> 0, chunk |-> 0, pos |-> 0]

VARIABLES
    real,           \* what get_system_time returns
    system_time,    \* pt->system_time
    count,          \* tm_param.count
    phase,          \* time thread: "sleep", "tasks", "walk"
    cursor,         \* where the walk is: index into Lists, array, position
    tasks,          \* ADD_TIMER tasks in g_restask
    lists,          \* the chain of arrays of every list
    active,         \* timer->active
    info,           \* timer->info: size, period, due
    begin,          \* info->timer.begin
    fired,          \* info->timer.count
    triggered       \* history: real time of the last trigger, 0 if none

clockVars == <<real, system_time, count>>
timerVars == <<lists, active, begin, fired, triggered>>
wheelVars == <<clockVars, phase, cursor, tasks, timerVars, info>>

WheelInit ==
    /\ real = 0 /\ system_time = 0 /\ count = 0
    /\ phase = "sleep" /\ cursor = Idle
    /\ tasks = <<>>
    /\ lists = [l \in 1 .. Len(Lists) |-> << <<>> >>]
    /\ active = [t \in Timers |-> "NOTUSE"]
    /\ info = [t \in Timers |-> NoKind]
    /\ begin = [t \in Timers |-> 0]
    /\ fired = [t \in Timers |-> 0]
    /\ triggered = [t \in Timers |-> 0]

-----------------------------------------------------------------------------
(* The lists.                                                              *)

(* get_tlist_by_remain; with the period, also the tail of                  *)
(* get_timer_res_list                                                      *)
ListByRemain(remain) ==
    CASE remain < P1 -> 2
      [] remain >= P1 /\ remain < P2 -> 3
      [] remain >= P2 /\ remain < P3 -> 4
      [] OTHER -> 5

(* get_timer_res_list *)
ListOf(k) == IF k.due > 0 THEN 1 ELSE ListByRemain(k.period)

(* the first of some places of a list *)
FirstOf(places) == CHOOSE i \in places : \A j \in places : i <= j

(* append_timer_to_tlist: the first array of the chain with room, or a new *)
(* one at the end                                                          *)
AppendTo(chain, t) ==
    LET room == {c \in DOMAIN chain : Len(chain[c]) < ChunkSize}
    IN  IF room = {} THEN Append(chain, <<t>>)
                     ELSE [chain EXCEPT ![FirstOf(room)] = Append(@, t)]

(* memmove: what follows position i moves down by one *)
Without(s, i) == [j \in 1 .. Len(s) - 1 |-> IF j < i THEN s[j] ELSE s[j + 1]]

(* delete_timer_by_pos, of the entry at the cursor *)
CutAt(ls, at) == [ls EXCEPT ![at.list][at.chunk] = Without(@, at.pos)]

-----------------------------------------------------------------------------
(* The maintain thread opens a timer a worker has registered: RUNNING, and *)
(* an ADD_TIMER task.  A timer whose task is refused (WorkerRegistry) never *)
(* reaches the wheel; those are not the timers of this module.             *)
OpenTimer(t, k) ==
    /\ info[t] = NoKind
    /\ info' = [info EXCEPT ![t] = k]
    /\ active' = [active EXCEPT ![t] = "RUNNING"]
    /\ tasks' = Append(tasks, t)
    /\ UNCHANGED <<clockVars, phase, cursor, lists, begin, fired, triggered>>

(* mutant: the count is advanced before the clock *)
Mut_Tick ==
    /\ phase = "sleep"
    /\ real < MaxTicks
    /\ real' = real + 1
    /\ count' = count + 1
    /\ system_time' = IF count' % Resync = 0 THEN real' ELSE system_time + Delay
    /\ phase' = "tasks"
    /\ UNCHANGED <<cursor, tasks, timerVars, info>>

(* update_time_and_tick *)
Tick ==
    /\ phase = "sleep"
    /\ real < MaxTicks
    /\ real' = real + 1
    /\ system_time' = IF count % Resync = 0 THEN real' ELSE system_time + Delay
    /\ count' = count + 1
    /\ phase' = "tasks"
    /\ UNCHANGED <<cursor, tasks, timerVars, info>>

(* resource_task_proc: one ADD_TIMER, append_timer_to_res *)
AddTimer ==
    /\ phase = "tasks"
    /\ tasks # <<>>
    /\ tasks' = Tail(tasks)
    /\ LET t == Head(tasks)
       IN  lists' = [lists EXCEPT ![ListOf(info[t])] = AppendTo(@, t)]
    /\ UNCHANGED <<clockVars, phase, cursor, active, begin, fired, triggered, info>>

(* the queue is empty: schedule_timer_and_ticker starts with the due list *)
StartWalk ==
    /\ phase = "tasks"
    /\ tasks = <<>>
    /\ phase' = "walk"
    /\ cursor' = [list |-> 1, chunk |-> 1, pos |-> 1]
    /\ UNCHANGED <<clockVars, tasks, timerVars, info>>

(* the lists schedule_timer_and_ticker walks at this count *)
Walked ==
    {1, 2} \cup (IF count % C2 = 0 THEN {3} ELSE {})
           \cup (IF count % C3 = 0 THEN {4} ELSE {})
           \cup (IF count % C4 = 0 THEN {5} ELSE {})

(* end of an array: the next one of the chain, the next list, or done *)
NextArray ==
    /\ phase = "walk"
    /\ cursor.pos > Len(lists[cursor.list][cursor.chunk])
    /\ LET later == {l \in Walked : l > cursor.list}
       IN  IF cursor.chunk < Len(lists[cursor.list])
             THEN cursor' = [cursor EXCEPT !.chunk = @ + 1, !.pos = 1] /\ UNCHANGED phase
           ELSE IF later # {}
             THEN cursor' = [list |-> FirstOf(later), chunk |-> 1, pos |-> 1] /\ UNCHANGED phase
             ELSE cursor' = Idle /\ phase' = "sleep"
    /\ UNCHANGED <<clockVars, tasks, timerVars, info>>

-----------------------------------------------------------------------------
(* One iteration of the for loops of due_list_schedule and                 *)
(* timer_list_schedule, on the timer t at the cursor.  An entry that is    *)
(* taken out leaves the cursor where it is (--pos, ++pos).                 *)

Visits(t) ==
    /\ phase = "walk"
    /\ cursor.pos <= Len(lists[cursor.list][cursor.chunk])
    /\ t = lists[cursor.list][cursor.chunk][cursor.pos]

Step == cursor' = [cursor EXCEPT !.pos = @ + 1]

(* Trigger: awake the worker, count, and remember the time *)
Trigger(t) ==
    /\ fired' = [fired EXCEPT ![t] = @ + 1]
    /\ begin' = [begin EXCEPT ![t] = system_time]
    /\ triggered' = [triggered EXCEPT ![t] = real]

NoTrigger == UNCHANGED <<fired, begin, triggered>>

(* not RUNNING: taken out, in both kinds of list *)
DropStopped(t) ==
    /\ Visits(t)
    /\ active[t] # "RUNNING"
    /\ active' = [active EXCEPT ![t] = "NOTUSE"]
    /\ lists' = CutAt(lists, cursor)
    /\ NoTrigger
    /\ UNCHANGED <<clockVars, phase, cursor, tasks, info>>

DueWait(t) ==
    /\ Visits(t) /\ cursor.list = 1 /\ active[t] = "RUNNING"
    /\ info[t].due > system_time
    /\ Step
    /\ NoTrigger
    /\ UNCHANGED <<clockVars, phase, tasks, lists, active, info>>

(* a due timer triggers; if it has triggers left it is appended again, and *)
(* then it is deleted at its position                                      *)
DueTrigger(t) ==
    /\ Visits(t) /\ cursor.list = 1 /\ active[t] = "RUNNING"
    /\ info[t].due <= system_time
    /\ Trigger(t)
    /\ LET again == fired'[t] < info[t].size \/ info[t].size = 0
           moved == IF again THEN [lists EXCEPT ![ListOf(info[t])] = AppendTo(@, t)] ELSE lists
       IN  lists' = CutAt(moved, cursor)
    /\ active' = [active EXCEPT ![t] = "NOTUSE"]
    /\ UNCHANGED <<clockVars, phase, cursor, tasks, info>>

Remain(t) ==
    IF begin[t] <= 0 THEN 0 ELSE begin[t] + info[t].period - system_time

(* mutant: the timer is appended to the new list and left in the old one *)
Mut_MoveKeeps(t, remain) ==
    LET to == ListByRemain(remain)
    IN  /\ Step
        /\ lists' = IF to = cursor.list /\ cursor.chunk = 1
                      THEN lists ELSE [lists EXCEPT ![to] = AppendTo(@, t)]

(* mutant: the test for the list being walked is missing *)
Mut_MoveAlways(t, remain) ==
    LET to == ListByRemain(remain)
    IN  /\ lists' = CutAt([lists EXCEPT ![to] = AppendTo(@, t)], cursor)
        /\ UNCHANGED cursor

(* "move timer to proper list by remain": appended to its list unless that *)
(* is the array being walked, and then cut here.  The comparison is with   *)
(* the first array of the list only.                                       *)
MoveByRemain(t, remain) ==
    LET to == ListByRemain(remain)
    IN  IF to = cursor.list /\ cursor.chunk = 1
          THEN Step /\ UNCHANGED lists
          ELSE /\ lists' = CutAt([lists EXCEPT ![to] = AppendTo(@, t)], cursor)
               /\ UNCHANGED cursor

WorkWait(t) ==
    /\ Visits(t) /\ cursor.list > 1 /\ active[t] = "RUNNING"
    /\ Remain(t) > 0
    /\ MoveByRemain(t, Remain(t))
    /\ NoTrigger
    /\ UNCHANGED <<clockVars, phase, tasks, active, info>>

(* mutant: one trigger too many *)
Mut_Exhausted(t, n) == info[t].size = 0 \/ n > info[t].size

(* no trigger is left: the count has reached size, or size is 0 *)
Exhausted(t, n) == info[t].size = 0 \/ n >= info[t].size

WorkTrigger(t) ==
    /\ Visits(t) /\ cursor.list > 1 /\ active[t] = "RUNNING"
    /\ Remain(t) <= 0
    /\ Trigger(t)
    /\ IF Exhausted(t, fired'[t])
         THEN /\ active' = [active EXCEPT ![t] = "NOTUSE"]
              /\ lists' = CutAt(lists, cursor)
              /\ UNCHANGED cursor
         ELSE MoveByRemain(t, info[t].period) /\ UNCHANGED active
    /\ UNCHANGED <<clockVars, phase, tasks, info>>

-----------------------------------------------------------------------------
Visit(t) == DropStopped(t) \/ DueWait(t) \/ DueTrigger(t) \/ WorkWait(t) \/ WorkTrigger(t)

TimeThread == Tick \/ AddTimer \/ StartWalk \/ NextArray \/ \E t \in Timers : Visit(t)

WheelNext == TimeThread \/ \E t \in Timers, k \in Kinds : OpenTimer(t, k)

WheelSpec == WheelInit /\ [][WheelNext]_wheelVars

(* The time thread is never stopped while the daemon runs. *)
WheelFairSpec == WheelSpec /\ WF_wheelVars(TimeThread)

-----------------------------------------------------------------------------
(* The fields have their ranges, and no array holds more than fits.        *)
WheelTypeOK ==
    /\ real \in 0 .. MaxTicks /\ system_time \in Nat /\ count \in Nat
    /\ phase \in {"sleep", "tasks", "walk"}
    /\ cursor = Idle \/ cursor \in [list : DOMAIN Lists, chunk : Nat \ {0}, pos : 1 .. ChunkSize + 1]
    /\ tasks \in Seq(Timers)
    /\ \A l \in DOMAIN Lists : lists[l] \in Seq(Seq(Timers)) /\ lists[l] # <<>>
    /\ \A l \in DOMAIN Lists : \A c \in DOMAIN lists[l] : Len(lists[l][c]) <= ChunkSize
    /\ active \in [Timers -> {"NOTUSE", "RUNNING"}]
    /\ info \in [Timers -> Kinds \cup {NoKind}]
    /\ begin \in [Timers -> Nat] /\ fired \in [Timers -> Nat] /\ triggered \in [Timers -> Nat]

(* the entries of the lists that hold t *)
Entries(t) ==
    UNION {UNION {{<<l, c, p>> : p \in {q \in DOMAIN lists[l][c] : lists[l][c][q] = t}}
                    : c \in DOMAIN lists[l]} : l \in DOMAIN Lists}

(* While timers are moved between the lists under the walk, none is lost   *)
(* and none is doubled: a RUNNING timer is in the task queue or at exactly *)
(* one place of one list, one that is not RUNNING at most at one.          *)
OnePlace ==
    \A t \in Timers :
        LET n == Cardinality(Entries(t)) + Cardinality({i \in DOMAIN tasks : tasks[i] = t})
        IN  n <= 1 /\ (active[t] = "RUNNING" => n = 1)

(* A timer with a trigger count never triggers more often than that,       *)
(* whatever lists it passes through.                                       *)
NeverTooOften ==
    \A t \in Timers : info[t].size > 0 => fired[t] <= info[t].size

(* Between two readings of the clock every tick adds ten seconds to        *)
(* system_time, and the next reading takes them back: the last trigger of  *)
(* a timer may lie far in the future.  Its list is then list 4, which is   *)
(* looked at only just before a reading, when the clock is as far ahead as *)
(* it gets.  So triggers may come early, but no timer is forgotten: it     *)
(* waits for its period and one round of list 4 at most, in real time.     *)
NoneIsForgotten ==
    \A t \in Timers : active[t] = "RUNNING" /\ triggered[t] > 0 =>
        real - triggered[t] < info[t].period + C4

(* A second array is in use. *)
Overflowed == \E l \in DOMAIN Lists : \E c \in DOMAIN lists[l] : c > 1 /\ lists[l][c] # <<>>

(* The walk ends, although it appends to the lists it goes through, as     *)
(* long as every list fits its first array.  With a full first array the   *)
(* walk of the second one appends a timer to the very array it cuts it     *)
(* from, and never ends.                                                   *)
WalkReturns == (phase = "walk") ~> (phase = "sleep" \/ Overflowed)

-----------------------------------------------------------------------------
(* What the comments of the code say, and the code does not do.            *)

(* resource_manage.h:153 "0 --> infinite", timer_system_time.c:121 "size = *)
(* 0 means infinite": a timer of size 0 is not stopped by triggering.      *)
InfiniteKeepsRunning ==
    \A t \in Timers : info[t].size = 0 /\ fired[t] > 0 => active[t] = "RUNNING"
=============================================================================
