------------------------------ MODULE ChartMath ------------------------------
(***************************************************************************)
(* What the dashboards compute of numbers alone: the arc of a pie          *)
(* (portal/dashboard.js 5567-5604), the needle of a gauge (5850-5885), the *)
(* points of a chart of the old portal (portal/old/netdata.js 126-211) and *)
(* the width of its thumbnails (portal/old/index.js 485-493).  An input is *)
(* chosen in the initial state, and evaluated in one step.                 *)
(***************************************************************************)
EXTENDS Integers

CONSTANTS MathRange,      \* values, minima and maxima are -MathRange .. MathRange
          MaxPoints,      \* the most points a chart has data of
          MaxScreen       \* the most points a chart has room for

ASSUME MathAssumption == MathRange \in Nat /\ MaxPoints \in Nat /\ MaxScreen \in Nat

VARIABLE math

Signed == -MathRange .. MathRange

\* Math.round(n / d), for d > 0: halves are rounded up.
RoundDiv(n, d) == (2 * n + d) \div (2 * d)

Larger(a, b) == IF a > b THEN a ELSE b
Smaller(a, b) == IF a < b THEN a ELSE b

\* NaN, 0 / 0; no result is that small.
NaN == -10000

\* The minimum and the maximum a pie uses: swapped if need be, widened to the
\* value, and to zero when they are not given by the page.
PieMin(i) ==
    LET m == Smaller(Smaller(i.min, i.max), i.value)
    IN  IF ~ i.fixedMin /\ m > 0 THEN 0 ELSE m

\* Mutant: the maximum is not widened to the value.
Mut_PieMax(i) ==
    LET m == Larger(i.min, i.max) IN IF ~ i.fixedMax /\ m < 0 THEN 0 ELSE m

PieMax(i) ==
    LET m == Larger(Larger(i.min, i.max), i.value)
    IN  IF ~ i.fixedMax /\ m < 0 THEN 0 ELSE m

\* easypiechartPercentFromValueMinMax(), in tenths of a percent.
PiePercent(i) ==
    LET min == PieMin(i)
        max == PieMax(i)
        part(v, d) == IF d = 0 THEN NaN ELSE 10 * RoundDiv(v * 100, d)
        notZero(p, z) == IF p = 0 THEN z ELSE p
    IN  CASE min < 0 /\ max > 0        -> part(i.value, Larger(-min, max))
          [] i.value >= 0 /\ min >= 0  -> notZero(part(i.value - min, max - min), 1)
          [] OTHER                     -> notZero(part(i.value - max, max - min), -1)

\* Mutant: the range is widened after an empty one was, not before.
Mut_GaugePercent(i) ==
    LET max0 == IF i.min = i.max THEN i.min + 1 ELSE i.max
        lo == Smaller(i.min, i.value)
        hi == Larger(max0, i.value)
        min == Smaller(lo, hi)
        max == Larger(lo, hi)
    IN  ((i.value - min) * 100000) \div (max - min)

\* gaugeSet(), in thousandths of a percent; it is called with zero for what is
\* not a number.
GaugePercent(i) ==
    LET hi == Larger(i.max, i.value)
        lo == Smaller(i.min, i.value)
        min == Smaller(lo, hi)
        max == IF lo = hi THEN lo + 1 ELSE Larger(lo, hi)
        p == ((i.value - min) * 100000) \div (max - min)
    IN  Smaller(Larger(p, 1), 99999)

\* Mutant: the steps of the group are one lower.
Mut_NiceGroup(g) ==
    IF g > 60 THEN 60 ELSE IF g > 45 THEN 45 ELSE IF g > 30 THEN 30 ELSE IF g > 20 THEN 20
    ELSE IF g > 15 THEN 15 ELSE IF g > 10 THEN 10 ELSE IF g > 5 THEN 5 ELSE g

\* The group of points that are shown as one: a round number, not below g.
NiceGroup(g) ==
    IF g > 60 THEN 90 ELSE IF g > 45 THEN 60 ELSE IF g > 30 THEN 45 ELSE IF g > 20 THEN 30
    ELSE IF g > 15 THEN 20 ELSE IF g > 10 THEN 15 ELSE IF g > 5 THEN 10
    ELSE IF g > 1 THEN g ELSE 1

\* calculateChartPointsToShow(): i.time seconds, one value every i.every; a group
\* that is not positive is calculated.
PointsToShow(i) ==
    LET found == RoundDiv(i.time, i.every)
        points == IF found = 0 THEN 100 ELSE found
        group == IF i.group > 0 THEN i.group
                 ELSE IF i.screen > points THEN 1
                 ELSE NiceGroup(RoundDiv(points, i.screen))
    IN  [points |-> points, group |-> group, show |-> RoundDiv(points, group)]

\* thumbWidth(), for a target and a least width of thumbnails.
ThumbItems(i) ==
    LET items == Larger(RoundDiv(i.screen, i.target), 1)
    IN  IF items > 1 /\ i.screen < i.least * items THEN items - 1 ELSE items

\* Mutant: a width that was rounded up is kept.
Mut_ThumbWidth(i) == RoundDiv(i.screen, ThumbItems(i))

ThumbWidth(i) == RoundDiv(i.screen, ThumbItems(i)) - 1

-----------------------------------------------------------------------------
Dial(kind) ==
    [kind : {kind}, value : Signed, min : Signed, max : Signed,
     fixedMin : BOOLEAN, fixedMax : BOOLEAN]

Crowd == [kind : {"points"}, time : 1 .. MaxPoints, every : {1, 2},
          screen : 1 .. MaxScreen, group : {0, 7}]

Thumbs == {i \in [kind : {"thumbs"}, screen : 1 .. MaxPoints, target : 3 .. 9, least : 2 .. 8] :
              i.least < i.target}

NotYet == [kind |-> "none"]

MathInit == math \in [in : Dial("pie") \cup Dial("gauge") \cup Crowd \cup Thumbs,
                      done : {FALSE}, out : {NotYet}]

Computed(kind, r) == math' = [math EXCEPT !.done = TRUE, !.out = [kind |-> kind, r |-> r]]

DrawPie == math.in.kind = "pie" /\ ~ math.done /\ Computed("pie", PiePercent(math.in))
DrawGauge == math.in.kind = "gauge" /\ ~ math.done /\ Computed("gauge", GaugePercent(math.in))
ChoosePoints == math.in.kind = "points" /\ ~ math.done /\ Computed("points", PointsToShow(math.in))
SizeThumbs == math.in.kind = "thumbs" /\ ~ math.done /\ Computed("thumbs", ThumbWidth(math.in))

MathNext == DrawPie \/ DrawGauge \/ ChoosePoints \/ SizeThumbs

MathSpec == MathInit /\ [][MathNext]_math

-----------------------------------------------------------------------------
(***************************************************************************)
(* Properties                                                              *)
(***************************************************************************)

\* The arc of a pie is never more than the circle, in the direction of the value
\* and never empty where the pie has one direction; it is undefined (0 / 0) only
\* when value, minimum and maximum are all the same (5567-5604).
PieInCircle ==
    math.out.kind = "pie" =>
        LET i == math.in
            p == math.out.r
            oneWay == ~ (PieMin(i) < 0 /\ PieMax(i) > 0)
        IN  \/ p = NaN /\ PieMin(i) = i.value /\ PieMax(i) = i.value
            \/ /\ -1000 <= p /\ p <= 1000
               /\ oneWay => p # 0
               /\ p # 0 /\ ~ (i.fixedMin \/ i.fixedMax) => (p > 0 <=> i.value > 0 \/ PieMin(i) = 0)

\* The needle of a gauge is strictly between the ends of its scale, whatever the
\* order of value, minimum and maximum: "if the value is the absolute min or
\* max, the chart is broken" (5875-5878), and no division is by zero.
NeedleInside == math.out.kind = "gauge" => 0 < math.out.r /\ math.out.r < 100000

\* The points a chart of the old portal shows stand for all of its data, up to
\* half a group, and they are at most one and a half times the points there is
\* room for, unless the caller chose the group or even 90 points in one are too
\* few (netdata.js 149-186).
PointsFit ==
    math.out.kind = "points" =>
        LET i == math.in
            o == math.out.r
        IN  /\ 2 * (o.show * o.group - o.points) \in -o.group .. o.group
            /\ i.group = 0 /\ o.points <= 90 * i.screen => 2 * o.show <= 3 * i.screen + 1

\* A row of thumbnails is not wider than the screen, although their width is
\* rounded: as many as were planned fit (index.js 485-493).
ThumbsFit ==
    math.out.kind = "thumbs" => ThumbItems(math.in) * math.out.r <= math.in.screen

=============================================================================
