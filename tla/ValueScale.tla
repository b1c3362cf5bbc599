------------------------------ MODULE ValueScale ------------------------------
(***************************************************************************)
(* The scale several charts share (portal/dashboard.js): charts of the     *)
(* page that name the same common-min draw their values from the smallest  *)
(* value any of them has (NETDATA.commonMin 992-1044); common-max          *)
(* (1046-1098) is its mirror image.  dygraphChartUpdate() (4543-4626)      *)
(* learns the smallest value that a chart really draws only after drawing  *)
(* it, and draws a second time when the scale does not fit; a gauge or a   *)
(* pie asks for the scale with the smallest value of its data, and begins  *)
(* at zero when that is lower.                                             *)
(***************************************************************************)
EXTENDS Integers, FiniteSets, FiniteSetsExt

CONSTANTS Lines,          \* the dygraph charts with the common-min
          Dials,          \* the gauges with the same common-min
          MaxValue,       \* the values are 0..MaxValue, counted from the lowest
          Zero,           \* the one of them that is zero
          NewValues       \* how often the values of the charts change, at most

ASSUME ScaleAssumption ==
    Lines \cap Dials = {} /\ MaxValue \in Nat /\ Zero \in 0..MaxValue /\ NewValues \in Nat

VARIABLE scale

ScaleCharts == Lines \cup Dials

\* undefined in the table, or a scale that dygraph chooses.
Unset == -1

\* `keys` and `latest` are those of NETDATA.commonMin, for the one name.  For each
\* chart: `low`, the smallest value it would draw now; `ext`, the smallest
\* value dygraph found when it last drew (its extremeRange); `range`, the scale it
\* was drawn with (valueRange); `smooth`, whether it was created with the smooth
\* plotter, which the option `plot` asks for; `panned`, whether a global pan and
\* zoom is active.
ScaleInit ==
    \E low \in [ScaleCharts -> 0..MaxValue] :
        scale = [keys |-> [c \in ScaleCharts |-> Unset], latest |-> Unset,
                 low |-> low, ext |-> [c \in ScaleCharts |-> Unset],
                 range |-> [c \in ScaleCharts |-> Unset],
                 created |-> {}, smooth |-> [c \in Lines |-> FALSE], plot |-> FALSE,
                 panned |-> FALSE, changes |-> NewValues]

\* The smallest of the values the table has.
CommonMin(keys) == Min({keys[c] : c \in {d \in ScaleCharts : keys[d] # Unset}})

\* Mutant: a value that is not below the common one leaves it alone.
Mut_CommonMinGet(s, c, min) ==
    IF s.keys[c] = min THEN s
    ELSE [s EXCEPT !.keys[c] = min,
                   !.latest = IF @ = Unset \/ min < @ THEN min ELSE @]

\* commonMin.get() of a chart whose data.min is `min`: what it has returned is
\* `latest` of the result.
CommonMinGet(s, c, min) ==
    IF s.keys[c] = min THEN s
    ELSE IF s.keys[c] # Unset /\ min < s.latest
         THEN [s EXCEPT !.keys[c] = min, !.latest = min]
         ELSE LET keys == [s.keys EXCEPT ![c] = min]
              IN  [s EXCEPT !.keys = keys, !.latest = CommonMin(keys)]

\* dygraphChartCreate(): a scale of its own; dygraph tells what it has drawn.
LineCreate(s, c) ==
    [s EXCEPT !.created = @ \cup {c}, !.range[c] = Unset, !.ext[c] = s.low[c],
              !.smooth[c] = s.plot]

\* Mutant: the scale is not looked at again after drawing.
Mut_LineRedraw(s, c) == s

\* The second half of dygraphChartUpdate(): the values drawn do not fit.
LineRedraw(s, c) ==
    IF s.range[c] <= s.ext[c] THEN s
    ELSE LET got == CommonMinGet(s, c, s.ext[c])
         IN  [got EXCEPT !.range[c] = got.latest]

\* dygraphChartUpdate(): the scale is taken with what the chart drew the last
\* time, the new values are drawn, and the scale is looked at again.  When the
\* option of the plotter has changed, the chart is created anew instead.
LineUpdate(s, c) ==
    LET got == CommonMinGet(s, c, s.ext[c])
        drawn == [got EXCEPT !.range[c] = got.latest, !.ext[c] = s.low[c]]
    IN  IF s.smooth[c] # s.plot THEN LineCreate(got, c) ELSE LineRedraw(drawn, c)

\* A gauge and a pie that do not set their own minimum begin at zero at the latest.
ZeroBased(min) == IF min > Zero THEN Zero ELSE min

\* Mutant: a gauge that names a common-min is drawn with its own.
Mut_DialUpdate(s, c) ==
    [CommonMinGet(s, c, s.low[c]) EXCEPT !.range[c] = ZeroBased(s.low[c]), !.created = @ \cup {c}]

\* gaugeChartCreate() and gaugeChartUpdate(), and those of a pie: during a pan or
\* zoom the dial is set to zero.  (The value shown is never below the common
\* minimum, as that of the chart is not.)
DialUpdate(s, c) ==
    IF s.panned /\ c \in s.created THEN [s EXCEPT !.range[c] = Zero]
    ELSE LET got == CommonMinGet(s, c, s.low[c])
         IN  [got EXCEPT !.range[c] = ZeroBased(got.latest), !.created = @ \cup {c}]

-----------------------------------------------------------------------------
\* A chart is refreshed: it draws the values it has now.
LineRefresh(c) ==
    scale' = IF c \in scale.created THEN LineUpdate(scale, c) ELSE LineCreate(scale, c)

DialRefresh(c) == scale' = DialUpdate(scale, c)

\* The values of a chart change (and the dimensions the user selects of them).
ValuesChange ==
    /\ scale.changes > 0
    /\ \E c \in ScaleCharts, v \in 0..MaxValue :
          scale' = [scale EXCEPT !.low[c] = v, !.changes = @ - 1]

\* The chart is destroyed, to be created anew: the table keeps its value.
LineDestroyed(c) ==
    /\ scale.changes > 0
    /\ c \in scale.created
    /\ scale' = [scale EXCEPT !.created = @ \ {c}, !.range[c] = Unset, !.ext[c] = Unset,
                              !.changes = @ - 1]

\* The user changes the option of the plotter.
PlotOption ==
    /\ scale.changes > 0
    /\ scale' = [scale EXCEPT !.plot = ~ @, !.changes = @ - 1]

\* A global pan and zoom begins or ends.
PannedOrNot ==
    /\ scale.changes > 0
    /\ scale' = [scale EXCEPT !.panned = ~ @, !.changes = @ - 1]

ScaleNext ==
    \/ \E c \in Lines : LineRefresh(c) \/ LineDestroyed(c)
    \/ \E c \in Dials : DialRefresh(c)
    \/ ValuesChange
    \/ PlotOption \/ PannedOrNot

ScaleSpec == ScaleInit /\ [][ScaleNext]_scale

\* Every chart is refreshed again and again.
ScaleFairness ==
    /\ \A c \in Lines : WF_scale(LineRefresh(c))
    /\ \A c \in Dials : WF_scale(DialRefresh(c))

ScaleFairSpec == ScaleSpec /\ ScaleFairness

-----------------------------------------------------------------------------
(***************************************************************************)
(* Properties                                                              *)
(***************************************************************************)

\* `latest`, which commonMin keeps so as not to search the table, is the smallest
\* value of the table (992-1044).
LatestIsTheMinimum ==
    (\E c \in ScaleCharts : scale.keys[c] # Unset) => scale.latest = CommonMin(scale.keys)

\* No chart is drawn with a scale that cuts off values it draws, whatever the
\* other charts did before (dygraphChartUpdate() 4607-4622).
LinesFit == \A c \in Lines : scale.range[c] <= scale.ext[c]

\* The lines are drawn from one minimum that cuts off none of their values, and the
\* dials from the same, or from zero.
SameScale ==
    \E min \in 0..MaxValue :
        /\ \A c \in Lines : scale.range[c] = min /\ min <= scale.low[c]
        /\ \A c \in Dials : IF scale.panned THEN scale.range[c] = Zero
                            ELSE scale.range[c] = ZeroBased(min) /\ min <= scale.low[c]

=============================================================================
