---------------------------- MODULE MCTimerWheel ----------------------------
EXTENDS TimerWheel, TLC

K(size, period, due) == [size |-> size, period |-> period, due |-> due]

(* periods on and around the bounds of the four lists, and due timers *)
KindsAll ==
    {K(2, p, 0) : p \in {1, 2, 3, 5, 7, 8, 9, 20, 31, 32, 37}} \cup {K(3, 3, -1), K(1, 5, 6), K(2, 5, 3)}
(* short periods and due timers for the runs on the lists *)
KindsShort == {K(2, 1, 0), K(2, 3, 0), K(0, 2, 0), K(2, 2, 2)}
KindsBoth == KindsAll \cup KindsShort
KindsInfinite == {K(0, 2, 0)}

(* What the run on the whole wheel looks at: one timer alone, of any kind, *)
(* for MaxTicks, and all of them, of short kinds, for CrowdTicks (one more *)
(* than Resync: the clock goes back once).  Timers are interchangeable, so *)
(* they are opened in the order of their numbers.                          *)
Alone == \A t \in Timers \ {1} : info[t] = NoKind
Crowd == \A t \in Timers : info[t] \in KindsShort \cup {NoKind}
CrowdTicks == 9
InOrder == \A t \in Timers \ {1} : info[t] # NoKind => info[t - 1] # NoKind
Within == InOrder /\ (Alone \/ (Crowd /\ real <= CrowdTicks))

BoundedNext == WheelNext /\ Within'
BoundedSpec == WheelInit /\ [][BoundedNext]_wheelVars /\ WF_wheelVars(TimeThread /\ Within')
=============================================================================
