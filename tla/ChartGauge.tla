------------------------------ MODULE ChartGauge ------------------------------
(***************************************************************************)
(* A gauge of the dashboard (portal/dashboard.js 5810-6165; a pie, 5636-   *)
(* 5805, is the same): it shows the latest value, or the value at the time *)
(* the user points at on another chart.  While the pointer moves, the      *)
(* label follows at once and the needle 50 ms later, from a timer that is  *)
(* set by the first move.  The event with the timer lives in `tmp`, which  *)
(* is replaced when the chart is destroyed; the timer is not stopped then. *)
(***************************************************************************)
EXTENDS Integers, FiniteSets, FiniteSetsExt

CONSTANTS GaugeRows,      \* the rows of the data: 1 is the latest
          GaugeValues,    \* the values: positive numbers
          GaugeTimers     \* the ids setTimeout() may return

ASSUME GaugeAssumption == 1 \in GaugeRows /\ GaugeTimers \subseteq Nat \ {0}

VARIABLE gauge

\* null, as a value that is shown.
NoValue == 0

NoTimer == 0

OutOfRange == 0

NoEvent == [on |-> FALSE, timer |-> NoTimer, value |-> NoValue]

\* `auto` and `pan`: isAutoRefreshable() and whether a pan or zoom is active;
\* `event`: tmp.gaugeEvent; `pending`: the timers of the browser; `stray`
\* (history): a timer has outlived the event it was set for.
GaugeInit ==
    gauge = [created |-> FALSE, selected |-> FALSE, auto |-> TRUE, pan |-> FALSE,
             data |-> [r \in GaugeRows |-> NoValue], event |-> NoEvent, pending |-> {},
             label |-> NoValue, needle |-> NoValue, stray |-> FALSE]

\* gaugeSet() and gaugeSetLabels().
Show(s, v) == [s EXCEPT !.label = v, !.needle = v]

Settled(s) == [s EXCEPT !.stray = @ /\ s.pending # {}]

\* gaugeChartUpdate(): a chart of a panned page shows nothing.
GaugeUpdate(s) == Settled(Show(s, IF s.pan \/ ~ s.auto THEN NoValue ELSE s.data[1]))

\* Mutant: the timer is forgotten, but not stopped.
Mut_GaugeClear(s) ==
    LET stopped == [s EXCEPT !.event.timer = NoTimer]
    IN  IF s.auto THEN GaugeUpdate(stopped) ELSE Show(stopped, NoValue)

\* gaugeClearSelection(): the timer is stopped, the latest value is shown.
GaugeClear(s) ==
    LET stopped == [s EXCEPT !.event.timer = NoTimer,
                             !.pending = @ \ {s.event.timer}]
    IN  IF s.auto THEN GaugeUpdate(stopped) ELSE Show(stopped, NoValue)


\* gaugeSetSelection() of a time that is in the data.
GaugeSet(s, v) ==
    LET labelled == [s EXCEPT !.event.on = TRUE, !.event.value = v, !.label = v]
        t == Min(GaugeTimers \ s.pending)
    IN  IF s.event.timer # NoTimer THEN labelled
        ELSE [labelled EXCEPT !.event.timer = t, !.pending = @ \cup {t}]

\* gaugeChartCreate(): the latest value is shown, whatever the page is at.
GaugeCreate(s) == Settled(Show([s EXCEPT !.created = TRUE], s.data[1]))

-----------------------------------------------------------------------------
\* Data arrives (updateChartWithData()): the gauge is created or updated; then a
\* selection ends.
GaugeData ==
    \E data \in [GaugeRows -> GaugeValues] :
        LET s == [gauge EXCEPT !.data = data]
            drawn == IF s.created THEN GaugeUpdate(s) ELSE GaugeCreate(s)
        IN  gauge' = IF drawn.selected
                     THEN [GaugeClear(drawn) EXCEPT !.selected = FALSE] ELSE drawn

\* setSelection(): the pointer is at a time of another chart, which the data of
\* this one has a row of, or not; selected is set in either case.
GaugeSelect ==
    /\ gauge.created
    /\ GaugeTimers \ gauge.pending # {}
    /\ \E r \in GaugeRows \cup {OutOfRange} :
          gauge' = [(IF r = OutOfRange THEN GaugeClear(gauge) ELSE GaugeSet(gauge, gauge.data[r]))
                       EXCEPT !.selected = TRUE]

\* clearSelection().
GaugeUnselect ==
    /\ gauge.selected
    /\ gauge' = [GaugeClear(gauge) EXCEPT !.selected = FALSE]

\* A timer is due: it finds the event of the `tmp` there is now.  Without one
\* the handler throws, and nothing is shown.
GaugeTimer ==
    \E t \in gauge.pending :
        LET s == [gauge EXCEPT !.pending = @ \ {t}]
        IN  gauge' = IF ~ s.event.on THEN s
                     ELSE [s EXCEPT !.event.timer = NoTimer, !.needle = s.event.value]

\* setMode() of the chart, and a pan or zoom of the page begins or ends.
GaugeMode ==
    \E auto, pan \in BOOLEAN : gauge' = [gauge EXCEPT !.auto = auto, !.pan = pan]

\* init('force'): the chart and its `tmp` are gone.
GaugeDestroyed ==
    /\ gauge.created
    /\ gauge' = [gauge EXCEPT !.created = FALSE, !.selected = FALSE, !.auto = TRUE,
                              !.data = [r \in GaugeRows |-> NoValue], !.event = NoEvent,
                              !.label = NoValue, !.needle = NoValue,
                              !.stray = @ \/ gauge.pending # {}]

GaugeNext ==
    \/ GaugeData \/ GaugeSelect \/ GaugeUnselect
    \/ GaugeTimer \/ GaugeMode \/ GaugeDestroyed

GaugeSpec == GaugeInit /\ [][GaugeNext]_gauge

GaugeFairness == WF_gauge(GaugeTimer)

GaugeFairSpec == GaugeSpec /\ GaugeFairness

-----------------------------------------------------------------------------
(***************************************************************************)
(* Properties                                                              *)
(***************************************************************************)

\* When nothing is selected, needle and label agree: no timer of a selection that
\* is over moves the needle, unless the chart was destroyed under the timer
\* (gaugeClearSelection() 5902-5922, gaugeSetSelection() 5955-5962).
NeedleAtLabel ==
    gauge.created /\ ~ gauge.selected /\ ~ gauge.stray => gauge.needle = gauge.label

NeedleIsThere == gauge.selected /\ ~ gauge.stray => gauge.needle = gauge.label

=============================================================================
