----------------------------- MODULE ChartLegend -----------------------------
(***************************************************************************)
(* The legend of one chart of the dashboard (portal/dashboard.js): which   *)
(* dimensions the user hides (dimensionStatus and dimensionsVisibility,    *)
(* 1269-1463), the colours the dimensions have (2762-2870), the elements   *)
(* of the legend, rebuilt when the labels of the data change (2872-3297),  *)
(* and the values it shows (2604-2759).  The server may add and remove     *)
(* dimensions at any time, the page may destroy and re-create the chart.   *)
(*                                                                         *)
(* A dimension is its place in the order of the server; a sequence is in   *)
(* that order, as the server sends them.  Blank is the text of an          *)
(* element nothing was written to, Dash the text of a null value.          *)
(***************************************************************************)
EXTENDS Integers, FiniteSets, Sequences, SequencesExt, TLC

CONSTANTS NDims,          \* how many dimensions the chart may ever have
          KnownDims,      \* how many of them the chart's definition names
          ThemeColors,    \* how many colours the theme has
          PageColors      \* how many colours the page gives to the chart

VARIABLE legend

Dims == 1..NDims

\* The elements of the legend: one for each dimension, and the title, with the
\* date, the time and the units.
Title == 0
Elements == {Title} \cup Dims

Palette == [i \in 1..ThemeColors |-> i]

CustomColors == [i \in 1..PageColors |-> ThemeColors + i]

\* The latest value of a dimension, and its value at the point under the mouse.
LatestValue == 1
PointValue == 2

Blank == -1
Dash == 0

NoColors == <<0>>         \* null

NoSeries == <<0>>         \* element_legend_childs.series = null

\* What the server may send: the dimensions that have data, in order.
LabelSeqs == {SetToSortSeq(d, <) : d \in SUBSET Dims}

\* A chart that was never drawn.  `labels`: series.labels_key.  `text`: what the
\* elements of the legend show; `last`: series.last_shown_value.  `drawn`: what
\* the chart library was last given.  `stale`: the data is newer than that, as the
\* chart was hidden when it came; `broken`: the message of error() is there
\* instead of the elements.
NewLegend ==
    [known |-> {}, enabled |-> {}, selected |-> {}, unselected |-> 0,
     colors |-> NoColors, assigned |-> [d \in Dims |-> 0], available |-> <<>>,
     prepared |-> FALSE, labels |-> NoSeries,
     text |-> [e \in Elements |-> Blank], last |-> [e \in Elements |-> Blank],
     data |-> NoSeries, latest |-> FALSE, hover |-> FALSE,
     created |-> FALSE, empty |-> FALSE, stale |-> FALSE, broken |-> FALSE, hung |-> FALSE,
     drawn |-> [labels |-> <<>>, visible |-> {}, colors |-> <<>>]]

LegendInit == legend = NewLegend

-----------------------------------------------------------------------------
(***************************************************************************)
(* Colours                                                                 *)
(***************************************************************************)

\* chartPrepareColorPalette(): once, the custom colours before the theme's.
ChartPrepareColorPalette(g) ==
    IF g.prepared THEN g
    ELSE [g EXCEPT !.prepared = TRUE, !.colors = <<>>,
                   !.available = CustomColors \o Palette]

\* Mutant: the colour that is used stays available.
Mut_ChartDimensionColor(g0, d) ==
    LET g == ChartPrepareColorPalette(g0)
        g1 == IF g.assigned[d] # 0 THEN g ELSE [g EXCEPT !.assigned[d] = Head(g.available)]
    IN  [g1 EXCEPT !.colors = Append(@, g1.assigned[d])]

\* __chartDimensionColor(): a dimension keeps its colour; a new one takes the
\* next that is available, after a refill when there is none.
ChartDimensionColor(g0, d) ==
    LET g == ChartPrepareColorPalette(g0)
        avail == IF g.available = <<>> THEN Palette \o CustomColors ELSE g.available
        g1 == IF g.assigned[d] # 0 THEN g
              ELSE [g EXCEPT !.assigned[d] = Head(avail), !.available = Tail(avail)]
    IN  [g1 EXCEPT !.colors = Append(@, g1.assigned[d])]

(***************************************************************************)
(* Visibility of the dimensions                                            *)
(***************************************************************************)

\* setOptions(): the dimension is in the legend again.
SetOptions(g, d) == [g EXCEPT !.enabled = @ \cup {d}]

\* dimensionAdd(): a new dimension is selected when no other is hidden.
DimensionAdd(g, d) ==
    SetOptions([g EXCEPT !.known = @ \cup {d},
                         !.selected = IF d \notin g.known /\ g.unselected = 0
                                      THEN @ \cup {d} ELSE @], d)

InvalidateAll(g) == [g EXCEPT !.enabled = {}]

\* select() and unselect() leave alone the dimensions that are not enabled.
SelectAll(g) == [g EXCEPT !.selected = @ \cup g.enabled]

SelectNone(g) == [g EXCEPT !.selected = @ \ g.enabled]

IsSelected(g) == g.selected \cap g.enabled

\* One pass of selected2BooleanArray() over the labels.
CountLabels(g, labels) ==
    [g EXCEPT !.unselected =
        Cardinality((ToSet(labels) \cap g.known) \ IsSelected(g))]

\* Mutant: the labels are counted, and that is all.
Mut_Selected2BooleanArray(g0, labels) == CountLabels(g0, labels)

\* selected2BooleanArray(): when none is selected, all are, and it starts over
\* (`hung`: it would do so for ever).
Selected2BooleanArray(g0, labels) ==
    LET g == CountLabels(g0, labels)
        again == CountLabels(SelectAll(g), labels)
        Blind(h) == ToSet(labels) \cap IsSelected(h) = {} /\ h.unselected # 0
    IN  IF Blind(g) THEN [again EXCEPT !.hung = Blind(again)] ELSE g

-----------------------------------------------------------------------------
(***************************************************************************)
(* The values in the legend                                                *)
(***************************************************************************)

\* legendSetLabelValue(), and legendSetDate() or legendShowUndefined() for the
\* title: an element is written only when its text changes.  (Elements that are not
\* in the page any more are not followed.)
LegendSetLabelValue(g, e, v) ==
    IF g.broken \/ g.last[e] = v THEN g ELSE [g EXCEPT !.last[e] = v, !.text[e] = v]

LegendSetAll(g, v) ==
    FoldLeft(LAMBDA h, e : LegendSetLabelValue(h, e, v), g,
             <<Title>> \o SelectSeq(g.data, LAMBDA d : d \in ToSet(g.labels)))

\* legendShowLatestValues(): null values when the chart does not show the end
\* of what the server has.
LegendShowLatestValues(g) ==
    IF g.hover \/ g.data = NoSeries \/ g.labels = NoSeries THEN g
    ELSE LegendSetAll(g, IF g.latest THEN LatestValue ELSE Dash)

\* genLabel(): a dimension gets its colour and its visibility; its elements are
\* new, with nothing in them and nothing remembered of them.
GenLabel(g, d) == DimensionAdd([ChartDimensionColor(g, d) EXCEPT !.text[d] = Blank,
                                                                 !.last[d] = Blank], d)

\* The title is new: no date, time or units were shown in it.
NewTitle(g) == [g EXCEPT !.text[Title] = Blank, !.last[Title] = Blank]

\* The series of a legend that is new: one label for each dimension of the data,
\* with the latest values.
NewSeries(g) ==
    LegendShowLatestValues(FoldLeft(GenLabel,
        [g EXCEPT !.labels = g.data,
                  !.text = [e \in Elements |-> IF e = Title THEN @[e] ELSE Blank],
                  !.last = [e \in Elements |-> IF e = Title THEN @[e] ELSE Blank]], g.data))

\* Mutant: the colours of the last labels are kept.
Mut_LegendUpdateDOM(g) ==
    IF g.labels # NoSeries /\ g.labels = g.data
    THEN ChartPrepareColorPalette(g)
    ELSE NewSeries(NewTitle(InvalidateAll(ChartPrepareColorPalette(g))))


\* legendUpdateDOM(): the legend is rebuilt when its labels are not those of the
\* data.  The first time, all the dimensions of the chart's definition get a
\* colour, in their order.
LegendUpdateDOM(g) ==
    IF g.labels # NoSeries /\ g.labels = g.data
    THEN ChartPrepareColorPalette(g)
    ELSE LET first == IF g.colors # NoColors THEN g
                      ELSE FoldLeft(ChartDimensionColor, g, [i \in 1..KnownDims |-> i])
         IN  NewSeries(NewTitle(InvalidateAll([first EXCEPT !.colors = <<>>])))

\* noDataToShow(): the legend of an answer without points.
NoDataToShow(g) == [LegendUpdateDOM(g) EXCEPT !.empty = TRUE]

\* destroyDOM(), of a chart that is re-created: its elements are gone, and
\* runtimeInit() forgets the data.
DestroyLegend(g) == [g EXCEPT !.labels = NoSeries, !.data = NoSeries,
                              !.created = FALSE, !.hover = FALSE, !.empty = FALSE,
                              !.latest = FALSE, !.stale = FALSE, !.broken = FALSE,
                              !.text = NewLegend.text, !.last = NewLegend.last,
                              !.drawn = NewLegend.drawn]

\* globalSelectionSync.stop(), as far as this chart goes: clearSelection().
StopSelection(g) == IF g.hover THEN LegendShowLatestValues([g EXCEPT !.hover = FALSE])
                               ELSE g

\* The chart library draws: dygraph is given the labels, their colours and
\* which of them to show.
DrawLegend(g0) ==
    LET g == Selected2BooleanArray(ChartPrepareColorPalette(g0), g0.data)
    IN  [g EXCEPT !.created = TRUE, !.stale = FALSE,
                  !.drawn = [labels |-> g.data, colors |-> g.colors,
                             visible |-> ToSet(g.data) \cap IsSelected(g)]]

\* updateChartWithData(), from the data on: `fate` is what the page finds out on
\* the way.  "recreate": the chart was drawn as often as its library allows, it
\* is destroyed and nothing is drawn.  "empty": there are no points.  "hidden": it
\* cannot be rendered, so that the legend is that of the new labels and nothing is
\* drawn; "discarded": moreover it is destroyed, being hidden only now.  "broken":
\* the library fails, and the error replaces the chart.
UpdateWithData(g0, data, latest, fate) ==
    LET g == [g0 EXCEPT !.data = data, !.latest = latest, !.empty = FALSE]
    IN  CASE fate = "empty"     -> NoDataToShow(g)
          [] fate = "recreate"  -> DestroyLegend(g)
          [] fate = "hidden"    -> [LegendUpdateDOM(g) EXCEPT !.stale = TRUE]
          [] fate = "discarded" -> DestroyLegend(LegendUpdateDOM(g))
          [] fate = "broken"    -> [LegendUpdateDOM(g) EXCEPT !.broken = TRUE,
                                       !.text = NewLegend.text, !.last = NewLegend.last]
          [] fate = "draw"      ->
                StopSelection(LegendShowLatestValues(DrawLegend(LegendUpdateDOM(g))))

-----------------------------------------------------------------------------
LegendStep(g) == legend' = g

\* New data arrives from the server; whether it is the latest matters for what stays.
LegendData ==
    \E fate \in {"draw", "empty", "recreate", "hidden", "discarded", "broken"} :
    \E data \in LabelSeqs, latest \in IF fate \in {"draw", "hidden"} THEN BOOLEAN ELSE {FALSE} :
        /\ fate = "discarded" => legend.created
        /\ LegendStep(UpdateWithData(legend, data, latest, fate))

\* The page destroys the chart: it was resized, or hidden.
LegendDestroyed ==
    /\ legend.created
    /\ LegendStep(DestroyLegend(legend))

\* A click on a label of the legend (setHandler()), with or without SHIFT or
\* CONTROL; the chart is redrawn with the data it has.
ClickOn(g, d, key) ==
    LET only == [SelectNone(g) EXCEPT !.selected = @ \cup {d}]
    IN  IF d \in IsSelected(g)
        THEN IF key
             THEN LET g1 == [g EXCEPT !.selected = @ \ {d}]
                  IN  IF IsSelected(g1) = {} THEN SelectAll(g1) ELSE g1
             ELSE IF Cardinality(IsSelected(g)) = 1 THEN SelectAll(g) ELSE only
        ELSE IF key THEN [g EXCEPT !.selected = @ \cup {d}] ELSE only

LegendClick ==
    /\ legend.labels # NoSeries /\ ~ legend.broken
    /\ \E d \in ToSet(legend.labels), key \in BOOLEAN,
          fate \in IF legend.empty THEN {"empty"} ELSE {"draw", "recreate", "broken"} :
          LegendStep(UpdateWithData(ClickOn(legend, d, key), legend.data,
                                    legend.latest, fate))

\* The mouse is over a point of the chart: legendFormatter() shows its values, for
\* the labels the legend has.
LegendHover ==
    /\ legend.created /\ ~ legend.broken
    /\ LegendStep(FoldLeft(LAMBDA g, e : LegendSetLabelValue(g, e,
                               IF e \in {Title} \cup legend.drawn.visible
                               THEN PointValue ELSE Dash),
                           [legend EXCEPT !.hover = TRUE],
                           <<Title>> \o SelectSeq(legend.drawn.labels,
                                                  LAMBDA d : d \in ToSet(legend.labels))))

\* The mouse leaves the chart (clearSelection(), legendReset()).
LegendUnhover ==
    /\ legend.hover
    /\ LegendStep(StopSelection(legend))

LegendNext == \/ LegendData
              \/ LegendDestroyed
              \/ LegendClick
              \/ LegendHover
              \/ LegendUnhover

LegendSpec == LegendInit /\ [][LegendNext]_legend

-----------------------------------------------------------------------------
(***************************************************************************)
(* Properties                                                              *)
(***************************************************************************)

\* The chart is never drawn with all its dimensions hidden, whatever the user
\* clicked before dimensions came or went, and selected2BooleanArray() always
\* returns (1433-1463).
SomethingIsShown ==
    /\ ~ legend.hung
    /\ legend.drawn.labels # <<>> => legend.drawn.visible # {}

\* The chart library gets one colour for each label, in the order of the labels,
\* and that is the colour the label has in the legend; it is the one the
\* dimension had ever since it was first seen (2762-2796, 2914-2926).
ColorsMatchLabels ==
    legend.drawn.labels # <<>> =>
        legend.drawn.colors =
            [i \in 1..Len(legend.drawn.labels) |-> legend.assigned[legend.drawn.labels[i]]]

\* While the theme and the page have colours left, no two dimensions share one
\* (__chartDimensionColor() 2765-2787).
ColorsDiffer ==
    Cardinality({d \in Dims : legend.assigned[d] # 0})
            <= Len(Palette) + Len(CustomColors) =>
        \A d, e \in Dims : legend.assigned[d] # 0 /\ legend.assigned[d] = legend.assigned[e]
                               => d = e

\* A chart drawn with data, and the mouse not over it, shows in its title and for
\* every label the value of the data it was drawn with, or no value when it does
\* not show the latest data: the texts that are not written again are those that
\* did not change (2640-2698, 2722-2755).  Data that came while the chart was hidden
\* is not drawn (3515-3523): until the next answer the legend may be of either.
LegendIsCurrent ==
    legend.created /\ ~ legend.hover /\ ~ legend.empty /\ ~ legend.stale /\ ~ legend.broken =>
        \A e \in {Title} \cup ToSet(legend.labels) :
            legend.text[e] = IF legend.latest THEN LatestValue ELSE Dash

=============================================================================
