--------------------------- MODULE PagePartsProof ---------------------------
(***************************************************************************)
(* What the parts of a dashboard page keep, for any number of charts,      *)
(* values and timers: the needle of a gauge, the common scale, the numbers *)
(* of a chart and the digits they are shown with.                          *)
(*                                                                         *)
(* The parts share no state.  Each has an invariant of its record          *)
(* (GaugeGood, ScaleGood, MathGood, FormatGood), a lemma that the initial  *)
(* states have it, one that every step keeps it, and one that it gives the *)
(* properties.  PortalProof puts them together.                            *)
(***************************************************************************)
EXTENDS ChartGauge, ValueScale, ChartMath, ValueFormat, TLAPS

-----------------------------------------------------------------------------
(* Numbers shown: digits and formatters.                                   *)

Formatter == [min : -1 .. 7, max : -1 .. 7]

FormatChart == [range : Nat \cup {NoRange}, digits : -1 .. 7, with : Formatter]

FormatState ==
    [chart : [FormatCharts -> FormatChart], fixed : [Digits -> Formatter],
     zero : [Digits -> Formatter], used : Formatter, asked : Formatter]

Exactly(d) == [min |-> d, max |-> d]
UpTo(d) == [min |-> 0, max |-> d]

(* The formatters of the two tables are those their place says.            *)
TablesGood(s) ==
    \A d \in Digits : /\ s.fixed[d] # NoFormatter => s.fixed[d] = Exactly(d)
                      /\ s.zero[d] # NoFormatter => s.zero[d] = UpTo(d)

DigitsGood(range, digits) ==
    digits # NoDigits /\ FormatDetail = NotGiven => range \in Nat /\ digits = DigitsOf(range)

FormatChartGood(t) == t.with = Exactly(t.digits) /\ DigitsGood(t.range, t.digits)

FormatGood(s) ==
    /\ s \in FormatState
    /\ TablesGood(s)
    /\ s.used = s.asked
    /\ \A c \in FormatCharts : FormatChartGood(s.chart[c])

(* The page begins with no formatter.                                      *)
LEMMA FormatInitGood ==
    ASSUME FormatInit PROVE FormatGood(fmt)
<1>1. NoFormatter \in Formatter /\ Exactly(NoDigits) = NoFormatter
  BY DEF NoFormatter, Formatter, NoDigits, Exactly
<1> DEFINE t == [range |-> NoRange, digits |-> NoDigits, with |-> NoFormatter]
<1>2. t \in FormatChart /\ t.with = Exactly(t.digits) /\ t.digits = NoDigits
  BY <1>1 DEF FormatChart, NoDigits
<1>3. fmt = [chart |-> [c \in FormatCharts |-> t],
             fixed |-> [d \in Digits |-> NoFormatter], zero |-> [d \in Digits |-> NoFormatter],
             used |-> NoFormatter, asked |-> NoFormatter]
  BY Zenon DEF FormatInit
<1> HIDE DEF t
<1>4. fmt \in FormatState
  BY <1>1, <1>2, <1>3 DEF FormatState
<1>5. TablesGood(fmt) /\ fmt.used = fmt.asked
  BY <1>3 DEF TablesGood
<1>6. \A c \in FormatCharts : fmt.chart[c] = t
  BY <1>3
<1> QED BY <1>2, <1>4, <1>5, <1>6 DEF FormatGood, FormatChartGood, DigitsGood

(* A formatter of the tables is the one for the digits asked for.          *)
LEMMA GetFormatterGood ==
    ASSUME NEW s \in FormatState, TablesGood(s), NEW min \in Digits, NEW max \in Digits,
           min = max \/ min = 0
    PROVE  LET g == GetFormatter(s, min, max)
           IN  /\ g \in FormatState /\ TablesGood(g) /\ g.chart = s.chart
               /\ g.used = [min |-> min, max |-> max] /\ g.asked = [min |-> min, max |-> max]
<1> DEFINE f == [min |-> min, max |-> max]
           table == IF min = max THEN s.fixed ELSE s.zero
           made == IF table[max] = NoFormatter THEN [table EXCEPT ![max] = f] ELSE table
           s1 == IF min = max THEN [s EXCEPT !.fixed = made] ELSE [s EXCEPT !.zero = made]
           g == [s1 EXCEPT !.used = made[max], !.asked = f]
<1>1. f \in Formatter
  BY DEF Formatter, Digits
<1>2. f = IF min = max THEN Exactly(max) ELSE UpTo(max)
  BY DEF Exactly, UpTo
<1>3. table \in [Digits -> Formatter] /\ (table[max] # NoFormatter => table[max] = f)
  BY <1>2 DEF FormatState, TablesGood
<1>4. g = GetFormatter(s, min, max)
  BY DEF GetFormatter
<1> HIDE DEF f, table
<1>5. /\ made \in [Digits -> Formatter] /\ made[max] = f
      /\ \A d \in Digits \ {max} : made[d] = table[d]
  BY <1>1, <1>3
<1> HIDE DEF made
<1>6. CASE min = max
  <2>1. g = [s EXCEPT !.fixed = made, !.used = made[max], !.asked = f]
    BY <1>6 DEF FormatState
  <2>2. g \in FormatState /\ g.chart = s.chart /\ g.used = f /\ g.asked = f
        /\ g.fixed = made /\ g.zero = s.zero
    BY <1>1, <1>5, <2>1, Zenon DEF FormatState
  <2> HIDE DEF g
  <2>3. \A d \in Digits : made[d] # NoFormatter => made[d] = Exactly(d)
    BY <1>2, <1>5, <1>6 DEF TablesGood, table
  <2>4. TablesGood(g)
    BY <2>2, <2>3 DEF TablesGood
  <2> QED BY <1>4, <2>2, <2>4 DEF f
<1>7. CASE min # max
  <2>1. g = [s EXCEPT !.zero = made, !.used = made[max], !.asked = f]
    BY <1>7 DEF FormatState
  <2>2. g \in FormatState /\ g.chart = s.chart /\ g.used = f /\ g.asked = f
        /\ g.zero = made /\ g.fixed = s.fixed
    BY <1>1, <1>5, <2>1, Zenon DEF FormatState
  <2> HIDE DEF g
  <2>3. \A d \in Digits : made[d] # NoFormatter => made[d] = UpTo(d)
    BY <1>2, <1>5, <1>7 DEF TablesGood, table
  <2>4. TablesGood(g)
    BY <2>2, <2>3 DEF TablesGood
  <2> QED BY <1>4, <2>2, <2>4 DEF f
<1> QED BY <1>6, <1>7

(* The number of digits of a range, and what they resolve.                 *)
LEMMA DigitsAreDigits ==
    ASSUME NEW n \in Nat
    PROVE  /\ DigitsOf(n) \in Digits
           /\ n > 1 => n * PowerOfTen[DigitsOf(n) + 1] >= 10 * 10000
<1>1. DigitsOf(n) \in Digits
  BY DEF DigitsOf, Digits
<1> DEFINE d == DigitsOf(n)
<1>2. /\ PowerOfTen[1] = 1 /\ PowerOfTen[2] = 10 /\ PowerOfTen[3] = 100
      /\ PowerOfTen[5] = 10000 /\ PowerOfTen[6] = 100000 /\ PowerOfTen[7] = 1000000
  BY DEF PowerOfTen
<1>3. n > 1 => \/ d = 0 /\ n > 10000000
               \/ d = 1 /\ n > 100000
               \/ d = 2 /\ n > 1000
               \/ d = 4 /\ n > 100
               \/ d = 5 /\ n > 10
               \/ d = 6
  BY DEF DigitsOf
<1> HIDE DEF d
<1>4. n > 1 => n * PowerOfTen[d + 1] >= 10 * 10000
  BY <1>2, <1>3
<1> QED BY <1>1, <1>4 DEF d

WithDigits(s, c, digits, with) ==
    [s EXCEPT !.chart[c].digits = digits, !.chart[c].with = with]

(* The digits of a chart are set, of what was made for them.               *)
LEMMA FormatChartSet ==
    ASSUME NEW s \in FormatState, TablesGood(s), s.used = s.asked, NEW c \in FormatCharts,
           \A d \in FormatCharts \ {c} : FormatChartGood(s.chart[d]),
           NEW digits \in -1 .. 7, NEW with \in Formatter, with = Exactly(digits),
           DigitsGood(s.chart[c].range, digits)
    PROVE  FormatGood(WithDigits(s, c, digits, with))
<1> DEFINE t == [s.chart[c] EXCEPT !.digits = digits, !.with = with]
           ch == [s.chart EXCEPT ![c] = t]
           r == [s EXCEPT !.chart = ch]
<1>1. s.chart[c] \in FormatChart
  BY DEF FormatState
<1>2. t \in FormatChart /\ t.digits = digits /\ t.with = with /\ t.range = s.chart[c].range
  BY <1>1, Zenon DEF FormatChart
<1>3. WithDigits(s, c, digits, with) = r
  BY Zenon DEF WithDigits, FormatState
<1> HIDE DEF t
<1>4. /\ ch \in [FormatCharts -> FormatChart] /\ ch[c] = t
      /\ \A d \in FormatCharts \ {c} : ch[d] = s.chart[d]
  BY <1>2 DEF FormatState
<1> HIDE DEF ch
<1>5. /\ r \in FormatState /\ r.chart = ch /\ r.fixed = s.fixed /\ r.zero = s.zero
      /\ r.used = s.used /\ r.asked = s.asked
  BY <1>4 DEF FormatState
<1> HIDE DEF r
<1>6. TablesGood(r)
  BY <1>5 DEF TablesGood
<1>7. FormatChartGood(t)
  BY <1>2 DEF FormatChartGood
<1>8. \A d \in FormatCharts : FormatChartGood(r.chart[d])
  BY <1>4, <1>5, <1>7
<1> QED BY <1>3, <1>5, <1>6, <1>8 DEF FormatGood

(* A number of digits is none, or in range.                                *)
LEMMA DigitsAre ==
    \A n \in -1 .. 7 : IF n < 0 THEN n = NoDigits ELSE n \in Digits
BY DEF NoDigits, Digits

(* The digits of a chart are set only where they change, with the          *)
(* formatter for them.                                                     *)
LEMMA SetDigitsGood ==
    ASSUME NEW s \in FormatState, TablesGood(s), s.used = s.asked, NEW c \in FormatCharts,
           \A d \in FormatCharts \ {c} : FormatChartGood(s.chart[d]),
           s.chart[c].with = Exactly(s.chart[c].digits),
           NEW digits \in -1 .. 7, DigitsGood(s.chart[c].range, digits)
    PROVE  FormatGood(SetDigits(s, c, digits))
<1>0. Exactly(NoDigits) = NoFormatter /\ NoFormatter \in Formatter
  BY DEF Exactly, NoFormatter, NoDigits, Formatter
<1>1. CASE digits = s.chart[c].digits
  <2>1. SetDigits(s, c, digits) = s
    BY <1>1 DEF SetDigits
  <2>2. FormatChartGood(s.chart[c])
    BY <1>1 DEF FormatChartGood
  <2> QED BY <2>1, <2>2 DEF FormatGood
<1>2. CASE digits # s.chart[c].digits /\ digits < 0
  <2>1. digits = NoDigits
    BY <1>2, DigitsAre, Zenon
  <2>2. SetDigits(s, c, digits) = WithDigits(s, c, digits, NoFormatter)
    BY <1>2 DEF SetDigits, WithDigits
  <2> QED BY <1>0, <2>1, <2>2, FormatChartSet
<1>3. CASE digits # s.chart[c].digits /\ ~ (digits < 0)
  <2> DEFINE g == GetFormatter(s, digits, digits)
  <2>1. digits \in Digits
    BY <1>3, DigitsAre, Zenon
  <2>2. /\ g \in FormatState /\ TablesGood(g) /\ g.chart = s.chart
        /\ g.used = Exactly(digits) /\ g.asked = Exactly(digits)
    BY <2>1, GetFormatterGood DEF Exactly
  <2>3. SetDigits(s, c, digits) = WithDigits(g, c, digits, g.used)
    BY <1>3 DEF SetDigits, WithDigits
  <2> HIDE DEF g
  <2>4. g.used \in Formatter
    BY <2>2 DEF FormatState
  <2> QED BY <2>2, <2>3, <2>4, FormatChartSet
<1> QED BY <1>1, <1>2, <1>3

(* legendFormatValueDecimalsFromMinMax() of new data.                      *)
LEMMA DecimalsGood ==
    ASSUME NEW s, FormatGood(s), NEW c \in FormatCharts, NEW range \in Nat, NEW flat \in BOOLEAN
    PROVE  FormatGood(DecimalsFromMinMax(s, c, range, flat))
<1> DEFINE digits == IF flat THEN NoDigits
                     ELSE IF FormatDetail # NotGiven THEN FormatDetail ELSE DigitsOf(range)
           t == [s.chart[c] EXCEPT !.range = range]
           ch == [s.chart EXCEPT ![c] = t]
           r == [s EXCEPT !.chart = ch]
<1>1. s \in FormatState /\ s.chart[c] \in FormatChart
  BY DEF FormatGood, FormatState
<1>2. digits \in -1 .. 7
  BY DigitsAreDigits, FormatAssumption DEF NoDigits, NotGiven, Digits
<1>3. DigitsGood(range, digits)
  BY DEF DigitsGood
<1>4. CASE range = s.chart[c].range
  BY <1>4 DEF DecimalsFromMinMax
<1>5. CASE range # s.chart[c].range
  <2>1. DecimalsFromMinMax(s, c, range, flat) = SetDigits(r, c, digits)
    BY <1>1, <1>5 DEF DecimalsFromMinMax, FormatState
  <2> HIDE DEF digits
  <2>2. t \in FormatChart /\ t.digits = s.chart[c].digits /\ t.with = s.chart[c].with
        /\ t.range = range
    BY <1>1 DEF FormatChart
  <2> HIDE DEF t
  <2>3. /\ ch \in [FormatCharts -> FormatChart] /\ ch[c] = t
        /\ \A d \in FormatCharts \ {c} : ch[d] = s.chart[d]
    BY <1>1, <2>2 DEF FormatState
  <2> HIDE DEF ch
  <2>4. /\ r \in FormatState /\ r.chart = ch /\ r.fixed = s.fixed /\ r.zero = s.zero
        /\ r.used = s.used /\ r.asked = s.asked
    BY <1>1, <2>3 DEF FormatState
  <2> HIDE DEF r
  <2>5. TablesGood(r) /\ r.used = r.asked
    BY <2>4 DEF TablesGood, FormatGood
  <2>6. \A d \in FormatCharts \ {c} : FormatChartGood(r.chart[d])
    BY <2>3, <2>4 DEF FormatGood
  <2>7. r.chart[c].with = Exactly(r.chart[c].digits) /\ r.chart[c].range = range
    BY <2>2, <2>3, <2>4 DEF FormatGood, FormatChartGood
  <2> QED BY <1>2, <1>3, <2>1, <2>4, <2>5, <2>6, <2>7, SetDigitsGood
<1> QED BY <1>4, <1>5

(* legendFormatValue() of a value of the legend.                           *)
LEMMA LegendFormatGood ==
    ASSUME NEW s, FormatGood(s), NEW c \in FormatCharts, NEW v \in Nat
    PROVE  FormatGood(LegendFormatValue(s, c, v))
<1>0. s \in FormatState /\ TablesGood(s)
  BY DEF FormatGood
<1>1. CASE s.chart[c].with # NoFormatter
  <2> DEFINE w == s.chart[c].with
             r == [s EXCEPT !.used = w, !.asked = w]
  <2>1. LegendFormatValue(s, c, v) = r /\ w \in Formatter
    BY <1>0, <1>1 DEF LegendFormatValue, FormatState, FormatChart
  <2> HIDE DEF w
  <2>2. /\ r \in FormatState /\ r.chart = s.chart /\ r.fixed = s.fixed /\ r.zero = s.zero
        /\ r.used = w /\ r.asked = w
    BY <1>0, <2>1, Zenon DEF FormatState
  <2> HIDE DEF r
  <2>3. TablesGood(r)
    BY <1>0, <2>2 DEF TablesGood
  <2> QED BY <2>1, <2>2, <2>3 DEF FormatGood
<1>2. CASE s.chart[c].with = NoFormatter
  <2> DEFINE min == IF FormatDetail # NotGiven THEN FormatDetail ELSE 0
             max == IF FormatDetail # NotGiven THEN FormatDetail ELSE DigitsOf(v)
             g == GetFormatter(s, min, max)
  <2>1. LegendFormatValue(s, c, v) = g
    BY <1>2 DEF LegendFormatValue
  <2>2. min \in Digits /\ max \in Digits /\ (min = max \/ min = 0)
    BY DigitsAreDigits, FormatAssumption DEF NotGiven, Digits
  <2> HIDE DEF min, max
  <2>3. /\ g \in FormatState /\ TablesGood(g) /\ g.chart = s.chart
        /\ g.used = [min |-> min, max |-> max] /\ g.asked = [min |-> min, max |-> max]
    BY <1>0, <2>2, GetFormatterGood
  <2> HIDE DEF g
  <2> QED BY <2>1, <2>3 DEF FormatGood
<1> QED BY <1>1, <1>2

(* Every step of the formatting keeps the invariant.                       *)
LEMMA FormatStepGood ==
    ASSUME FormatGood(fmt), FormatNext PROVE FormatGood(fmt')
<1>1. ASSUME NEW c \in FormatCharts, AxisLabel(c) PROVE FormatGood(fmt')
  <2>1. PICK range \in FormatNumbers, v \in FormatNumbers, flat \in BOOLEAN :
           fmt' = LegendFormatValue(DecimalsFromMinMax(fmt, c, range, flat), c, v)
    BY <1>1 DEF AxisLabel
  <2>2. range \in Nat /\ v \in Nat
    BY FormatAssumption
  <2>3. FormatGood(DecimalsFromMinMax(fmt, c, range, flat))
    BY <2>2, DecimalsGood
  <2> QED BY <2>1, <2>2, <2>3, LegendFormatGood
<1>2. ASSUME NEW c \in FormatCharts, ShowValue(c) PROVE FormatGood(fmt')
  <2>1. PICK v \in FormatNumbers : fmt' = LegendFormatValue(fmt, c, v)
    BY <1>2 DEF ShowValue
  <2>2. v \in Nat
    BY FormatAssumption
  <2> QED BY <2>1, <2>2, LegendFormatGood
<1> QED BY <1>1, <1>2 DEF FormatNext

(* The invariant gives the properties of the formatted values.             *)
LEMMA FormatGoodIsRight ==
    ASSUME FormatGood(fmt) PROVE FormatIsAsked /\ KeptFormatterFits /\ AxisIsResolved
<1>1. FormatIsAsked
  BY DEF FormatGood, FormatIsAsked
<1>2. KeptFormatterFits
  BY DEF FormatGood, FormatChartGood, KeptFormatterFits, Exactly
<1>3. AxisIsResolved
  <2> SUFFICES ASSUME NEW c \in FormatCharts, fmt.chart[c].digits # NoDigits,
                      FormatDetail = NotGiven, fmt.chart[c].range > 1
               PROVE  fmt.chart[c].range * PowerOfTen[fmt.chart[c].digits + 1] >= 10 * 10000
    BY DEF AxisIsResolved
  <2>1. fmt.chart[c].range \in Nat /\ fmt.chart[c].digits = DigitsOf(fmt.chart[c].range)
    BY DEF FormatGood, FormatChartGood, DigitsGood
  <2> QED BY <2>1, DigitsAreDigits
<1> QED BY <1>1, <1>2, <1>3

-----------------------------------------------------------------------------
(* The numbers of the charts: arithmetic, with rounding.                   *)

(* Multiplication keeps the order.                                         *)
LEMMA TimesMonotone ==
    ASSUME NEW a \in Int, NEW b \in Int, NEW c \in Int, c >= 0, a <= b
    PROVE  a * c <= b * c
OBVIOUS

(* Math.round() of a quotient is within a half of it.                      *)
LEMMA RoundDivBound ==
    ASSUME NEW n \in Int, NEW d \in Int, d > 0
    PROVE  /\ RoundDiv(n, d) \in Int
           /\ 2 * (d * RoundDiv(n, d)) <= 2 * n + d
           /\ 2 * n + d < 2 * (d * RoundDiv(n, d)) + 2 * d
<1> DEFINE a == 2 * n + d
           b == 2 * d
<1>1. a \in Int /\ b \in Int /\ b > 0
  OBVIOUS
<1>2. RoundDiv(n, d) = a \div b
  BY DEF RoundDiv
<1> HIDE DEF a, b
<1>3. a \div b \in Int /\ b * (a \div b) <= a /\ a < b * (a \div b) + b
  BY <1>1
<1> DEFINE q == a \div b
<1> HIDE DEF q
<1>4. q \in Int => b * q = 2 * (d * q)
  BY DEF b
<1> QED BY <1>1, <1>2, <1>3, <1>4 DEF a, b, q

(* A hundred times a part of d, in units of d.                             *)
LEMMA PercentBound ==
    ASSUME NEW v \in Int, NEW d \in Int, d > 0, -d <= v, v <= d
    PROVE  LET q == RoundDiv(v * 100, d)
           IN  /\ q \in Int /\ -100 <= q /\ q <= 100
               /\ v >= 0 => q >= 0
               /\ v <= 0 => q <= 0
<1> DEFINE q == RoundDiv(v * 100, d)
<1>1. q \in Int /\ 2 * (d * q) <= 200 * v + d /\ 200 * v + d < 2 * (d * q) + 2 * d
  BY RoundDivBound
<1> HIDE DEF q
<1>2. q <= 100
  <2> SUFFICES ASSUME 101 <= q PROVE FALSE
    BY <1>1
  <2>1. 101 * d <= q * d
    BY <1>1, TimesMonotone
  <2> QED BY <1>1, <2>1
<1>3. q >= -100
  <2> SUFFICES ASSUME q <= -101 PROVE FALSE
    BY <1>1
  <2>1. q * d <= (-101) * d
    BY <1>1, TimesMonotone
  <2> QED BY <1>1, <2>1
<1>4. v >= 0 => q >= 0
  <2> SUFFICES ASSUME v >= 0, q <= -1 PROVE FALSE
    BY <1>1
  <2>1. q * d <= (-1) * d
    BY <1>1, TimesMonotone
  <2> QED BY <1>1, <2>1
<1>5. v <= 0 => q <= 0
  <2> SUFFICES ASSUME v <= 0, 1 <= q PROVE FALSE
    BY <1>1
  <2>1. 1 * d <= q * d
    BY <1>1, TimesMonotone
  <2> QED BY <1>1, <2>1
<1> QED BY <1>1, <1>2, <1>3, <1>4, <1>5 DEF q

MathInput == Dial("pie") \cup Dial("gauge") \cup Crowd \cup Thumbs

Evaluate(i) ==
    IF i.kind = "pie" THEN PiePercent(i)
    ELSE IF i.kind = "gauge" THEN GaugePercent(i)
    ELSE IF i.kind = "points" THEN PointsToShow(i)
    ELSE ThumbWidth(i)

(* The number of an input is the one the code computes of it.              *)
MathGood(m) ==
    /\ m.in \in MathInput
    /\ \/ m = [in |-> m.in, done |-> FALSE, out |-> NotYet]
       \/ m = [in |-> m.in, done |-> TRUE, out |-> [kind |-> m.in.kind, r |-> Evaluate(m.in)]]

(* An input, and no number yet.                                            *)
LEMMA MathInitGood ==
    ASSUME MathInit PROVE MathGood(math)
BY Zenon DEF MathInit, MathGood, MathInput

(* The number of the input is the one the code computes.                   *)
LEMMA MathStepGood ==
    ASSUME MathGood(math), MathNext PROVE MathGood(math')
<1>1. /\ ~ math.done /\ math' = [math EXCEPT !.done = TRUE,
                                 !.out = [kind |-> math.in.kind, r |-> Evaluate(math.in)]]
  <2>1. CASE DrawPie
    BY <2>1 DEF DrawPie, Computed, Evaluate
  <2>2. CASE DrawGauge
    BY <2>2 DEF DrawGauge, Computed, Evaluate
  <2>3. CASE ChoosePoints
    BY <2>3 DEF ChoosePoints, Computed, Evaluate
  <2>4. CASE SizeThumbs
    BY <2>4 DEF SizeThumbs, Computed, Evaluate
  <2> QED BY <2>1, <2>2, <2>3, <2>4 DEF MathNext
<1> DEFINE e == Evaluate(math.in)
           i == math.in
<1>2. math = [in |-> i, done |-> FALSE, out |-> NotYet] /\ i \in MathInput
  BY <1>1 DEF MathGood
<1>3. i.kind = math.in.kind
  OBVIOUS
<1> HIDE DEF i, e
<1>4. math' = [in |-> i, done |-> TRUE, out |-> [kind |-> i.kind, r |-> e]]
  BY <1>1, <1>2, <1>3, Zenon DEF e
<1>5. math'.in = i /\ e = Evaluate(i)
  BY <1>4 DEF e, i
<1> QED BY <1>2, <1>4, <1>5 DEF MathGood

(* The pie's percentage.                                                   *)
LEMMA PieIsRight ==
    ASSUME NEW i \in Dial("pie")
    PROVE  LET p == PiePercent(i)
               oneWay == ~ (PieMin(i) < 0 /\ PieMax(i) > 0)
           IN  \/ p = NaN /\ PieMin(i) = i.value /\ PieMax(i) = i.value
               \/ /\ -1000 <= p /\ p <= 1000
                  /\ oneWay => p # 0
                  /\ p # 0 /\ ~ (i.fixedMin \/ i.fixedMax)
                        => (p > 0 <=> i.value > 0 \/ PieMin(i) = 0)
<1> DEFINE min == PieMin(i)
           max == PieMax(i)
           v == i.value
           Part(x, d) == IF d = 0 THEN NaN ELSE 10 * RoundDiv(x * 100, d)
           NotZero(p, z) == IF p = 0 THEN z ELSE p
<1>1. /\ i.value \in Int /\ i.min \in Int /\ i.max \in Int
      /\ i.fixedMin \in BOOLEAN /\ i.fixedMax \in BOOLEAN
  BY MathAssumption DEF Dial, Signed
<1>2. min \in Int /\ max \in Int
  BY <1>1 DEF PieMin, PieMax, Larger, Smaller
<1>3. min <= v /\ v <= max
  BY <1>1 DEF PieMin, PieMax, Larger, Smaller
<1>4. (~ i.fixedMin => min <= 0) /\ (~ i.fixedMax => max >= 0)
  BY <1>1 DEF PieMin, PieMax, Larger, Smaller
<1> DEFINE free == ~ (i.fixedMin \/ i.fixedMax)
           p == PiePercent(i)
           Right == \/ p = NaN /\ min = v /\ max = v
                    \/ /\ -1000 <= p /\ p <= 1000
                       /\ ~ (min < 0 /\ max > 0) => p # 0
                       /\ p # 0 /\ free => (p > 0 <=> v > 0 \/ min = 0)
<1>9. (free => min <= 0 /\ max >= 0) /\ v \in Int
  BY <1>1, <1>4
<1> HIDE DEF free
<1>5. ASSUME min < 0 /\ max > 0 PROVE Right
  <2> DEFINE d == Larger(-min, max)
             q == RoundDiv(v * 100, d)
  <2>1. p = Part(v, d)
    BY <1>1, <1>2, <1>5 DEF PiePercent
  <2>2. d \in Int /\ d > 0 /\ -d <= v /\ v <= d
    BY <1>1, <1>2, <1>3, <1>5 DEF Larger
  <2> HIDE DEF d, min, max, v, p
  <2>3. q \in Int /\ -100 <= q /\ q <= 100 /\ (v >= 0 => q >= 0) /\ (v <= 0 => q <= 0)
    BY <1>9, <2>2, PercentBound
  <2>4. Part(v, d) = 10 * q
    BY <2>2
  <2> HIDE DEF q, Part
  <2> QED BY <1>5, <1>9, <2>1, <2>3, <2>4
<1>6. ASSUME v >= 0 /\ min >= 0 PROVE Right
  <2> DEFINE q == RoundDiv((v - min) * 100, max - min)
  <2>1. p = NotZero(Part(v - min, max - min), 1)
    BY <1>1, <1>2, <1>6 DEF PiePercent
  <2> HIDE DEF min, max, v, p
  <2>2. CASE max = min
    BY <1>2, <1>3, <1>9, <2>1, <2>2 DEF NaN
  <2>3. CASE max # min
    <3>1. q \in Int /\ 0 <= q /\ q <= 100
      <4>1. v \in Int
        BY <1>9
      <4>2. v - min \in Int /\ max - min \in Int /\ max - min > 0 /\ -(max - min) <= v - min
            /\ v - min <= max - min /\ v - min >= 0
        BY <1>2, <1>3, <2>3, <4>1
      <4> DEFINE a == v - min
                 b == max - min
      <4> HIDE DEF a, b
      <4>3. a \in Int /\ b \in Int /\ b > 0 /\ -b <= a /\ a <= b /\ a >= 0
        BY <4>2 DEF a, b
      <4>4. RoundDiv(a * 100, b) \in Int /\ 0 <= RoundDiv(a * 100, b) /\ RoundDiv(a * 100, b) <= 100
        BY <4>3, PercentBound
      <4> QED BY <4>4 DEF a, b
    <3>2. Part(v - min, max - min) = 10 * q
      BY <1>2, <1>9, <2>3
    <3>3. p = IF 10 * q = 0 THEN 1 ELSE 10 * q
      BY <2>1, <3>2, Zenon
    <3> HIDE DEF q
    <3>4. p \in Int /\ 1 <= p /\ p <= 1000
      BY <3>1, <3>3
    <3>5. free => min = 0
      BY <1>2, <1>6, <1>9
    <3> QED BY <1>2, <1>6, <1>9, <3>4, <3>5
  <2> QED BY <2>2, <2>3
<1>7. ASSUME ~ (min < 0 /\ max > 0) /\ ~ (v >= 0 /\ min >= 0) PROVE Right
  <2> DEFINE q == RoundDiv((v - max) * 100, max - min)
  <2>1. p = NotZero(Part(v - max, max - min), -1)
    BY <1>1, <1>2, <1>7 DEF PiePercent
  <2> HIDE DEF min, max, v, p
  <2>2. CASE max = min
    BY <1>2, <1>3, <1>9, <2>1, <2>2 DEF NaN
  <2>3. CASE max # min
    <3>1. q \in Int /\ -100 <= q /\ q <= 0
      <4>1. v \in Int
        BY <1>9
      <4>2. v - max \in Int /\ max - min \in Int /\ max - min > 0 /\ -(max - min) <= v - max
            /\ v - max <= 0
        BY <1>2, <1>3, <2>3, <4>1
      <4> DEFINE a == v - max
                 b == max - min
      <4> HIDE DEF a, b
      <4>3. a \in Int /\ b \in Int /\ b > 0 /\ -b <= a /\ a <= b /\ a <= 0
        BY <4>2 DEF a, b
      <4>4. RoundDiv(a * 100, b) \in Int /\ -100 <= RoundDiv(a * 100, b) /\ RoundDiv(a * 100, b) <= 0
        BY <4>3, PercentBound
      <4> QED BY <4>4 DEF a, b
    <3>2. Part(v - max, max - min) = 10 * q
      BY <1>2, <1>9, <2>3
    <3>3. p = IF 10 * q = 0 THEN -1 ELSE 10 * q
      BY <2>1, <3>2, Zenon
    <3> HIDE DEF q
    <3>4. p \in Int /\ -1000 <= p /\ p <= -1
      BY <3>1, <3>3
    <3>5. free => min # 0 /\ ~ (v > 0)
      BY <1>2, <1>3, <1>7, <1>9, <2>3
    <3> QED BY <1>2, <1>7, <1>9, <3>4, <3>5
  <2> QED BY <2>2, <2>3
<1>8. Right
  BY <1>5, <1>6, <1>7
<1> QED BY <1>8, Zenon DEF free

(* The needle's.                                                           *)
LEMMA NeedleIsInside ==
    ASSUME NEW i \in Dial("gauge")
    PROVE  0 < GaugePercent(i) /\ GaugePercent(i) < 100000
<1> DEFINE hi == Larger(i.max, i.value)
           lo == Smaller(i.min, i.value)
           min == Smaller(lo, hi)
           max == IF lo = hi THEN lo + 1 ELSE Larger(lo, hi)
           n == (i.value - min) * 100000
           d == max - min
           p == n \div d
<1>1. i.value \in Int /\ i.min \in Int /\ i.max \in Int
  BY MathAssumption DEF Dial, Signed
<1>2. n \in Int /\ d \in Int /\ d > 0
  BY <1>1 DEF Larger, Smaller
<1>3. GaugePercent(i) = Smaller(Larger(p, 1), 99999)
  BY DEF GaugePercent
<1> HIDE DEF n, d
<1>4. p \in Int
  BY <1>2
<1> HIDE DEF p
<1>5. Larger(p, 1) \in Int /\ Larger(p, 1) >= 1
  BY <1>4 DEF Larger
<1>6. 0 < Smaller(Larger(p, 1), 99999) /\ Smaller(Larger(p, 1), 99999) < 100000
  BY <1>5 DEF Smaller
<1> QED BY <1>3, <1>6

(* n things in groups of g: they are all of them, up to half a group.      *)
LEMMA GroupsCover ==
    ASSUME NEW n \in Int, NEW g \in Int, g > 0
    PROVE  2 * (RoundDiv(n, g) * g - n) \in -g .. g
<1> DEFINE q == RoundDiv(n, g)
<1>1. q \in Int /\ 2 * (g * q) <= 2 * n + g /\ 2 * n + g < 2 * (g * q) + 2 * g
  BY RoundDivBound
<1> HIDE DEF q
<1>2. q * g = g * q /\ g * q \in Int
  BY <1>1
<1> DEFINE z == g * q
<1> HIDE DEF z
<1>3. 2 * (z - n) \in -g .. g
  BY <1>1, <1>2 DEF z
<1>4. 2 * (q * g - n) \in -g .. g
  BY <1>2, <1>3 DEF z
<1> QED BY <1>4 DEF q

(* A group is made larger, never smaller.                                  *)
LEMMA NiceGroupIsNice ==
    ASSUME NEW g \in 1 .. 90
    PROVE  NiceGroup(g) \in Int /\ NiceGroup(g) >= g
BY DEF NiceGroup

(* The points of a chart on its screen.                                    *)
LEMMA PointsAreRight ==
    ASSUME NEW i \in Crowd
    PROVE  LET o == PointsToShow(i)
           IN  /\ 2 * (o.show * o.group - o.points) \in -o.group .. o.group
               /\ i.group = 0 /\ o.points <= 90 * i.screen => 2 * o.show <= 3 * i.screen + 1
<1> DEFINE found == RoundDiv(i.time, i.every)
           points == IF found = 0 THEN 100 ELSE found
           g == RoundDiv(points, i.screen)
           group == IF i.group > 0 THEN i.group
                    ELSE IF i.screen > points THEN 1 ELSE NiceGroup(g)
           show == RoundDiv(points, group)
           sc == i.screen
<1>1. /\ i.time \in Int /\ i.time >= 1 /\ i.every \in Int /\ i.every > 0
      /\ sc \in Int /\ sc > 0 /\ (i.group = 0 \/ i.group = 7)
  BY MathAssumption DEF Crowd
<1>2. found \in Int /\ found >= 0
  <2> DEFINE q == found
             t == i.time
             e == i.every
  <2>1. t \in Int /\ e \in Int /\ e > 0 /\ t >= 1
    BY <1>1
  <2>2. q = RoundDiv(t, e)
    OBVIOUS
  <2> HIDE DEF q, t, e
  <2>3. q \in Int /\ 2 * t + e < 2 * (e * q) + 2 * e
    BY <2>1, <2>2, RoundDivBound
  <2>4. q >= 0
    <3> SUFFICES ASSUME q <= -1 PROVE FALSE
      BY <2>3
    <3>1. q * e <= (-1) * e
      BY <2>1, <2>3, TimesMonotone
    <3> QED BY <2>1, <2>3, <3>1
  <2> QED BY <2>3, <2>4 DEF q
<1> HIDE DEF found
<1>3. points \in Int /\ points >= 1
  BY <1>2
<1>4. PointsToShow(i) = [points |-> points, group |-> group, show |-> show]
  BY DEF PointsToShow, found
<1> HIDE DEF points
<1>5. g \in Int /\ 2 * (sc * g) <= 2 * points + sc /\ 2 * points + sc < 2 * (sc * g) + 2 * sc
  BY <1>1, <1>3, RoundDivBound, Zenon
<1> HIDE DEF g, sc
<1>6. NiceGroup(g) \in Int /\ NiceGroup(g) > 0
  BY <1>5 DEF NiceGroup
<1>7. group \in Int /\ group > 0
  BY <1>1, <1>3, <1>6
<1>8. ASSUME i.group = 0, points <= 90 * sc PROVE 2 * show <= 3 * sc + 1
  <2>1. CASE sc > points
    <3>1. group = 1
      BY <1>8, <2>1 DEF sc
    <3>2. RoundDiv(points, 1) \in Int /\ 2 * (1 * RoundDiv(points, 1)) <= 2 * points + 1
      BY <1>3, RoundDivBound
    <3> QED BY <1>1, <1>3, <2>1, <3>1, <3>2
  <2>2. CASE ~ (sc > points)
    <3>1. group = NiceGroup(g)
      BY <1>8, <2>2 DEF sc
    <3>2. g >= 1
      <4> SUFFICES ASSUME g <= 0 PROVE FALSE
        BY <1>5
      <4>1. g * sc <= 0 * sc
        BY <1>1, <1>5, TimesMonotone
      <4> QED BY <1>1, <1>3, <1>5, <2>2, <4>1
    <3>3. g <= 90
      <4> SUFFICES ASSUME 91 <= g PROVE FALSE
        BY <1>5
      <4>1. 91 * sc <= g * sc
        BY <1>1, <1>5, TimesMonotone
      <4> QED BY <1>1, <1>3, <1>5, <1>8, <4>1
    <3>4. group >= g
      BY <1>5, <3>1, <3>2, <3>3, NiceGroupIsNice
    <3> HIDE DEF group
    <3>5. show \in Int /\ 2 * (group * show) <= 2 * points + group
      BY <1>3, <1>7, RoundDivBound
    <3> HIDE DEF show
    <3>6. g * sc <= group * sc /\ 1 * sc <= group * sc
      BY <1>1, <1>5, <1>7, <3>4, TimesMonotone
    <3>7. 2 * points < 3 * (group * sc)
      BY <1>1, <1>3, <1>5, <1>7, <3>6
    <3>8. 2 * (group * show) < 3 * (group * sc) + group
      BY <1>1, <1>3, <1>7, <3>5, <3>7
    <3>9. 2 * show <= 3 * sc
      <4> SUFFICES ASSUME 3 * sc + 1 <= 2 * show PROVE FALSE
        BY <1>1, <3>5
      <4>1. (3 * sc + 1) * group <= (2 * show) * group
        BY <1>1, <1>7, <3>5, TimesMonotone
      <4>2. (3 * sc + 1) * group = 3 * (group * sc) + group
        BY <1>1, <1>7
      <4>3. (2 * show) * group = 2 * (group * show)
        BY <1>7, <3>5
      <4>4. 2 * (group * show) \in Int /\ 3 * (group * sc) + group \in Int
        BY <1>1, <1>7, <3>5
      <4> QED BY <3>8, <4>1, <4>2, <4>3, <4>4
    <3> QED BY <1>1, <3>5, <3>9
  <2> QED BY <2>1, <2>2
<1> HIDE DEF group
<1>9. 2 * (show * group - points) \in -group .. group
  BY <1>3, <1>7, GroupsCover
<1> HIDE DEF show
<1> QED BY <1>4, <1>8, <1>9 DEF sc

(* The thumbnails of the old page in its window.                           *)
LEMMA ThumbsAreRight ==
    ASSUME NEW i \in Thumbs
    PROVE  ThumbItems(i) * ThumbWidth(i) <= i.screen
<1> DEFINE n == ThumbItems(i)
           sc == i.screen
           q == RoundDiv(sc, n)
<1>1. sc \in Int /\ i.target \in Int /\ i.target > 0 /\ i.least \in Int
  BY MathAssumption DEF Thumbs
<1>2. n \in Int /\ n >= 1 /\ n > 0
  <2>1. RoundDiv(i.screen, i.target) \in Int
    BY <1>1, RoundDivBound, Zenon
  <2> QED BY <1>1, <2>1 DEF ThumbItems, Larger
<1>3. ThumbWidth(i) = q - 1
  BY DEF ThumbWidth
<1> HIDE DEF n, sc
<1>4. q \in Int /\ 2 * (n * q) <= 2 * sc + n
  BY <1>1, <1>2, RoundDivBound, Zenon
<1> HIDE DEF q
<1>5. n * (q - 1) = n * q - n /\ n * q \in Int
  BY <1>2, <1>4
<1>6. n * q - n <= sc
  BY <1>1, <1>2, <1>4, <1>5
<1> QED BY <1>3, <1>5, <1>6 DEF n, sc

(* The numbers have the properties of the page.                            *)
LEMMA MathGoodIsRight ==
    ASSUME MathGood(math) PROVE PieInCircle /\ NeedleInside /\ PointsFit /\ ThumbsFit
<1> DEFINE i == math.in
<1>1. CASE math.out = NotYet
  BY <1>1 DEF NotYet, PieInCircle, NeedleInside, PointsFit, ThumbsFit
<1>2. CASE math.out = [kind |-> i.kind, r |-> Evaluate(i)]
  <2>1. i \in MathInput /\ math.out.kind = i.kind /\ math.out.r = Evaluate(i)
    BY <1>2 DEF MathGood
  <2>2. /\ i.kind = "pie" => i \in Dial("pie")
        /\ i.kind = "gauge" => i \in Dial("gauge")
        /\ i.kind = "points" => i \in Crowd
        /\ i.kind = "thumbs" => i \in Thumbs
    BY <2>1 DEF MathInput, Dial, Crowd, Thumbs
  <2>3. PieInCircle
    <3> SUFFICES ASSUME i.kind = "pie" PROVE PieInCircle
      BY <2>1 DEF PieInCircle
    <3>1. math.out.r = PiePercent(i) /\ i \in Dial("pie")
      BY <2>1, <2>2 DEF Evaluate
    <3> QED BY <3>1, PieIsRight DEF PieInCircle
  <2>4. NeedleInside
    <3> SUFFICES ASSUME i.kind = "gauge" PROVE NeedleInside
      BY <2>1 DEF NeedleInside
    <3>1. math.out.r = GaugePercent(i) /\ i \in Dial("gauge")
      BY <2>1, <2>2 DEF Evaluate
    <3> QED BY <3>1, NeedleIsInside DEF NeedleInside
  <2>5. PointsFit
    <3> SUFFICES ASSUME i.kind = "points" PROVE PointsFit
      BY <2>1 DEF PointsFit
    <3>1. math.out.r = PointsToShow(i) /\ i \in Crowd
      BY <2>1, <2>2 DEF Evaluate
    <3> QED BY <3>1, PointsAreRight, Zenon DEF PointsFit
  <2>6. ThumbsFit
    <3> SUFFICES ASSUME i.kind = "thumbs" PROVE ThumbsFit
      BY <2>1 DEF ThumbsFit
    <3>1. math.out.r = ThumbWidth(i) /\ i \in Thumbs
      BY <2>1, <2>2 DEF Evaluate
    <3> QED BY <3>1, ThumbsAreRight, Zenon DEF ThumbsFit
  <2> QED BY <2>3, <2>4, <2>5, <2>6
<1>3. math.out = NotYet \/ math.out = [kind |-> i.kind, r |-> Evaluate(i)]
  <2> DEFINE e == [kind |-> i.kind, r |-> Evaluate(i)]
  <2>1. math = [in |-> i, done |-> FALSE, out |-> NotYet]
          \/ math = [in |-> i, done |-> TRUE, out |-> e]
    BY DEF MathGood
  <2> HIDE DEF e, i
  <2>2. math.out = NotYet \/ math.out = e
    BY <2>1
  <2> QED BY <2>2 DEF e
<1> QED BY <1>1, <1>2, <1>3

-----------------------------------------------------------------------------
(* Least members.                                                          *)

LOCAL INSTANCE WellFoundedInduction

(* A non-empty set of naturals has a least member.                         *)
LEMMA Smallest ==
    ASSUME NEW T, T \subseteq Nat, T # {}
    PROVE  \E x \in T : \A y \in T : x <= y
<1>1. PICK x \in T : \A y \in T : ~ (<<y, x>> \in OpToRel(<, Nat))
  BY NatLessThanWellFounded, WFMin, Zenon
<1>2. ASSUME NEW y \in T, y < x PROVE FALSE
  <2>1. <<y, x>> \in Nat \X Nat
    OBVIOUS
  <2>2. <<y, x>> \in OpToRel(<, Nat)
    BY <1>2, <2>1 DEF OpToRel
  <2> QED BY <1>1, <2>2, Zenon
<1>3. x \in Nat /\ \A y \in T : y \in Nat
  OBVIOUS
<1> QED BY <1>2, <1>3

-----------------------------------------------------------------------------
(* The gauge: its timers.                                                  *)

GaugeShown == GaugeValues \cup {0}

GaugeEvent == [on : BOOLEAN, timer : GaugeTimers \cup {0}, value : GaugeShown]

GaugeState ==
    [created : BOOLEAN, selected : BOOLEAN, auto : BOOLEAN, pan : BOOLEAN,
     data : [GaugeRows -> GaugeShown], event : GaugeEvent,
     pending : SUBSET GaugeTimers, label : GaugeShown, needle : GaugeShown, stray : BOOLEAN]

(* A timer that is not stray is the one of the event, and without a        *)
(* selection there is none.                                                *)
GaugeGood(g) ==
    /\ g \in GaugeState
    /\ ~ g.event.on => g.event.timer = 0
    /\ g.event.timer \in g.pending \cup {0}
    /\ ~ g.stray => g.pending \subseteq {g.event.timer}
    /\ g.selected => g.created
    /\ ~ g.selected => g.event.timer = 0
    /\ g.created /\ ~ g.selected /\ ~ g.stray => g.needle = g.label

(* The gauge begins before it is created.                                  *)
LEMMA GaugeInitGood ==
    ASSUME GaugeInit
    PROVE  GaugeGood(gauge)
BY SMTT(30) DEF GaugeInit, GaugeState, GaugeShown, GaugeEvent, GaugeGood, NoEvent, NoTimer, NoValue

(* A new value is shown by the needle and by the label.                    *)
LEMMA GaugeUpdateGood ==
    ASSUME NEW g \in GaugeState
    PROVE  LET u == GaugeUpdate(g)
           IN  /\ u \in GaugeState
               /\ u.needle = u.label /\ u.stray = (g.stray /\ g.pending # {})
               /\ u.pending = g.pending /\ u.event = g.event
               /\ u.selected = g.selected /\ u.created = g.created
BY GaugeAssumption, ZenonT(40) DEF GaugeUpdate, Settled, Show, GaugeState, GaugeShown, GaugeEvent, NoValue

(* The selection ends: its timer is gone, and the needle is at the label.  *)
LEMMA GaugeClearGood ==
    ASSUME NEW g \in GaugeState
    PROVE  LET u == GaugeClear(g)
           IN  /\ u \in GaugeState
               /\ u.needle = u.label /\ u.stray \in {g.stray, g.stray /\ u.pending # {}}
               /\ u.pending = g.pending \ {g.event.timer} /\ u.event.timer = 0
               /\ u.selected = g.selected /\ u.created = g.created
<1> DEFINE st == [g EXCEPT !.event.timer = 0, !.pending = g.pending \ {g.event.timer}]
<1>1. /\ st \in GaugeState /\ st.stray = g.stray
      /\ st.pending = g.pending \ {g.event.timer} /\ st.event.timer = 0
      /\ st.selected = g.selected /\ st.created = g.created
  BY Zenon DEF GaugeState, GaugeEvent
<1> HIDE DEF st
<1>2. CASE g.auto
  <2>1. GaugeClear(g) = GaugeUpdate(st)
    BY <1>2 DEF GaugeClear, NoTimer, st
  <2> QED BY <2>1, <1>1, GaugeUpdateGood
<1>3. CASE ~ g.auto
  <2>1. GaugeClear(g) = Show(st, 0)
    BY <1>3 DEF GaugeClear, NoTimer, NoValue, st
  <2> QED BY <2>1, <1>1, Zenon DEF Show, GaugeState, GaugeShown
<1> QED BY <1>2, <1>3

(* Min() of a non-empty set of naturals is its least member.               *)
LEMMA MinIsMember ==
    ASSUME NEW T, T \subseteq Nat, T # {}
    PROVE  Min(T) \in T /\ \A y \in T : Min(T) <= y
<1>1. \E x \in T : \A y \in T : x <= y
  BY Smallest, Zenon
<1> QED BY <1>1, Zenon DEF Min

(* A selection has one timer, the newest.                                  *)
LEMMA GaugeSetGood ==
    ASSUME NEW g \in GaugeState, NEW v \in GaugeShown, GaugeTimers \ g.pending # {},
           g.event.timer \in g.pending \cup {0}
    PROVE  LET u == GaugeSet(g, v)
           IN  /\ u \in GaugeState
               /\ u.event.on /\ u.event.timer \in u.pending
               /\ g.pending \subseteq {g.event.timer} => u.pending \subseteq {u.event.timer}
               /\ u.stray = g.stray /\ u.created = g.created
<1> DEFINE t == Min(GaugeTimers \ g.pending)
           e == [on |-> TRUE, timer |-> g.event.timer, value |-> v]
           l == [g EXCEPT !.event = e, !.label = v]
           n == [l EXCEPT !.event = [on |-> TRUE, timer |-> t, value |-> v], !.pending = g.pending \cup {t}]
<1>1. t \in GaugeTimers \ g.pending
  BY MinIsMember, GaugeAssumption, Zenon
<1> HIDE DEF t
<1>2. l = [g EXCEPT !.event.on = TRUE, !.event.value = v, !.label = v]
  BY Zenon DEF GaugeState, GaugeEvent
<1>3. l \in GaugeState /\ l.event = e /\ l.pending = g.pending /\ l.stray = g.stray /\ l.created = g.created
  BY Zenon DEF GaugeState, GaugeEvent
<1>4. n = [l EXCEPT !.event.timer = t, !.pending = @ \cup {t}]
  BY <1>3, Zenon DEF GaugeState, GaugeEvent
<1>5. GaugeSet(g, v) = IF g.event.timer # 0 THEN l ELSE n
  BY <1>2, <1>4, Zenon DEF GaugeSet, NoTimer, t
<1>6. /\ n \in GaugeState /\ n.event.on /\ n.event.timer = t
      /\ n.pending = g.pending \cup {t} /\ n.stray = g.stray /\ n.created = g.created
  BY <1>1, <1>3, Zenon DEF GaugeState, GaugeEvent
<1> HIDE DEF n, l
<1>7. CASE g.event.timer # 0
  <2>1. GaugeSet(g, v) = l
    BY <1>5, <1>7
  <2> QED BY <2>1, <1>3, <1>7
<1>8. CASE g.event.timer = 0
  <2>1. GaugeSet(g, v) = n
    BY <1>5, <1>8
  <2>2. g.pending \subseteq {0} => g.pending = {}
    <3>1. 0 \notin g.pending
      BY GaugeAssumption DEF GaugeState
    <3> QED BY <3>1
  <2> QED BY <2>1, <2>2, <1>6, <1>8
<1> QED BY <1>7, <1>8

(* Every step of the gauge keeps the invariant.                            *)
LEMMA GaugeStepGood ==
    ASSUME GaugeGood(gauge), GaugeNext
    PROVE  GaugeGood(gauge')
<1> USE DEF GaugeGood
<1>1. CASE GaugeData
  <2>1. PICK data \in [GaugeRows -> GaugeValues] :
          LET s == [gauge EXCEPT !.data = data]
              drawn == IF s.created THEN GaugeUpdate(s) ELSE GaugeCreate(s)
          IN  gauge' = IF drawn.selected
                      THEN [GaugeClear(drawn) EXCEPT !.selected = FALSE] ELSE drawn
    BY <1>1, Zenon DEF GaugeData
  <2> DEFINE s == [gauge EXCEPT !.data = data]
             d == IF s.created THEN GaugeUpdate(s) ELSE GaugeCreate(s)
             f == [GaugeClear(d) EXCEPT !.selected = FALSE]
  <2>2. s \in GaugeState /\ s.created = gauge.created /\ s.selected = gauge.selected
        /\ s.pending = gauge.pending /\ s.event = gauge.event /\ s.stray = gauge.stray
    BY Zenon DEF GaugeState, GaugeShown
  <2>3. LET c == GaugeCreate(s)
        IN  /\ c \in GaugeState /\ c.created /\ c.selected = s.selected
            /\ c.pending = s.pending /\ c.event = s.event
            /\ c.stray = (s.stray /\ s.pending # {}) /\ c.needle = c.label
    BY <2>2, GaugeAssumption, Zenon DEF GaugeCreate, Settled, Show, GaugeState, GaugeShown
  <2> HIDE DEF s
  <2>4. /\ d \in GaugeState /\ d.created /\ d.selected = gauge.selected
        /\ d.pending = gauge.pending /\ d.event = gauge.event
        /\ d.stray = (gauge.stray /\ gauge.pending # {}) /\ d.needle = d.label
    BY <2>2, <2>3, GaugeUpdateGood
  <2>5. gauge' = IF d.selected THEN f ELSE d
    BY <2>1 DEF s
  <2> HIDE DEF d
  <2>6. CASE ~ d.selected
    BY <2>4, <2>5, <2>6, Zenon
  <2>7. CASE d.selected
    <3> DEFINE u == GaugeClear(d)
    <3>1. /\ u \in GaugeState
          /\ u.needle = u.label /\ u.stray \in {d.stray, d.stray /\ u.pending # {}}
          /\ u.pending = d.pending \ {d.event.timer} /\ u.event.timer = 0
          /\ u.selected = d.selected /\ u.created = d.created
      BY <2>4, GaugeClearGood, Zenon
    <3> HIDE DEF u
    <3>2. /\ f \in GaugeState /\ f.selected = FALSE /\ f.needle = u.needle /\ f.label = u.label
          /\ f.stray = u.stray /\ f.pending = u.pending /\ f.event = u.event /\ f.created = u.created
      BY <3>1, Zenon DEF GaugeState, u
    <3> HIDE DEF f
    <3>3. gauge' = f
      BY <2>5, <2>7
    <3> QED BY <3>1, <3>2, <3>3, <2>4, <2>7, Zenon
  <2> QED BY <2>6, <2>7
<1>2. CASE GaugeSelect
  <2>1. PICK r \in GaugeRows \cup {0} :
          /\ gauge.created /\ GaugeTimers \ gauge.pending # {}
          /\ gauge' = [(IF r = 0 THEN GaugeClear(gauge) ELSE GaugeSet(gauge, gauge.data[r]))
                         EXCEPT !.selected = TRUE]
    BY <1>2, Zenon DEF GaugeSelect, OutOfRange
  <2> DEFINE u == IF r = 0 THEN GaugeClear(gauge) ELSE GaugeSet(gauge, gauge.data[r])
  <2>2. u \in GaugeState /\ (~ u.event.on => u.event.timer = 0)
        /\ u.event.timer \in u.pending \cup {0}
        /\ (~ u.stray => u.pending \subseteq {u.event.timer}) /\ u.created
    <3>1. CASE r = 0
      <4>1. u = GaugeClear(gauge)
        BY <3>1
      <4> HIDE DEF u
      <4>2. /\ u \in GaugeState /\ u.stray \in {gauge.stray, gauge.stray /\ u.pending # {}}
            /\ u.pending = gauge.pending \ {gauge.event.timer} /\ u.event.timer = 0 /\ u.created
        BY <4>1, <2>1, GaugeClearGood
      <4>3. ~ u.stray => u.pending \subseteq {u.event.timer}
        <5>1. u.pending # {} => u.stray = gauge.stray
          BY <4>2, Zenon
        <5> QED BY <4>2, <5>1
      <4> QED BY <4>2, <4>3
    <3>2. CASE r # 0
      <4>1. u = GaugeSet(gauge, gauge.data[r]) /\ gauge.data[r] \in GaugeShown
        BY <3>2 DEF GaugeState
      <4> HIDE DEF u
      <4> QED BY <4>1, <2>1, GaugeSetGood
    <3> QED BY <3>1, <3>2, Zenon
  <2> HIDE DEF u
  <2>3. gauge' = [u EXCEPT !.selected = TRUE]
    BY <2>1 DEF u
  <2> QED BY <2>2, <2>3, Zenon DEF GaugeState
<1>3. CASE GaugeUnselect
  <2> DEFINE u == GaugeClear(gauge)
  <2>1. /\ u \in GaugeState
        /\ u.needle = u.label /\ u.stray \in {gauge.stray, gauge.stray /\ u.pending # {}}
        /\ u.pending = gauge.pending \ {gauge.event.timer} /\ u.event.timer = 0
        /\ u.selected = gauge.selected /\ u.created = gauge.created
    BY GaugeClearGood
  <2> HIDE DEF u
  <2>2. gauge' = [u EXCEPT !.selected = FALSE]
    BY <1>3 DEF GaugeUnselect, u
  <2> QED BY <2>1, <2>2, Zenon DEF GaugeState
<1>4. CASE GaugeTimer
  <2>1. PICK t \in gauge.pending :
          gauge' = LET s == [gauge EXCEPT !.pending = @ \ {t}]
                  IN  IF ~ s.event.on THEN s
                      ELSE [s EXCEPT !.event.timer = 0, !.needle = s.event.value]
    BY <1>4, Zenon DEF GaugeTimer, NoTimer
  <2> DEFINE s == [gauge EXCEPT !.pending = @ \ {t}]
             e == [s.event EXCEPT !.timer = 0]
             r == [s EXCEPT !.event = e, !.needle = s.event.value]
  <2>2. /\ s \in GaugeState /\ s.pending = gauge.pending \ {t} /\ s.event = gauge.event
        /\ s.selected = gauge.selected /\ s.created = gauge.created /\ s.stray = gauge.stray
        /\ s.needle = gauge.needle /\ s.label = gauge.label
    BY Zenon DEF GaugeState
  <2>3. gauge' = IF ~ s.event.on THEN s ELSE [s EXCEPT !.event.timer = 0, !.needle = s.event.value]
    BY <2>1
  <2> HIDE DEF s
  <2>4. [s EXCEPT !.event.timer = 0, !.needle = s.event.value] = r
    BY <2>2, Zenon DEF GaugeState
  <2>5. e \in GaugeEvent /\ e.timer = 0 /\ e.on = s.event.on /\ s.event.value \in GaugeShown
    BY <2>2, Zenon DEF GaugeState, GaugeEvent
  <2> HIDE DEF e
  <2>6. /\ r \in GaugeState /\ r.event = e
        /\ r.pending = s.pending /\ r.selected = s.selected
        /\ r.created = s.created /\ r.stray = s.stray
    BY <2>2, <2>5, Zenon DEF GaugeState
  <2> HIDE DEF r
  <2>7. ~ gauge.stray => gauge.pending = {t} /\ gauge.event.timer = t
    <3>1. gauge.pending # {} /\ gauge.pending \subseteq {gauge.event.timer} => gauge.pending = {gauge.event.timer}
      OBVIOUS
    <3> QED BY <3>1
  <2>8. ~ gauge.stray => gauge.selected /\ gauge.event.on
    <3>1. t # 0
      BY GaugeAssumption DEF GaugeState
    <3> QED BY <2>7, <3>1
  <2>9. IF gauge.event.on THEN gauge' = r ELSE gauge' = s
    BY <2>2, <2>3, <2>4
  <2>10. CASE ~ gauge.event.on
    <3>1. gauge' = s
      BY <2>9, <2>10
    <3> QED BY <2>2, <2>8, <2>10, <3>1, Zenon
  <2>11. CASE gauge.event.on
    <3>1. gauge' = r
      BY <2>9, <2>11
    <3> QED BY <2>2, <2>5, <2>6, <2>7, <2>8, <2>11, <3>1, Zenon
  <2> QED BY <2>10, <2>11, SMTT(30)
<1>5. CASE GaugeMode
  BY <1>5, Zenon DEF GaugeMode, GaugeState
<1>6. CASE GaugeDestroyed
  <2> DEFINE d == [r \in GaugeRows |-> NoValue]
  <2>1. d \in [GaugeRows -> GaugeShown] /\ NoEvent \in GaugeEvent /\ NoValue \in GaugeShown
    BY DEF GaugeShown, GaugeEvent, NoEvent, NoTimer, NoValue
  <2>2. gauge' = [gauge EXCEPT !.created = FALSE, !.selected = FALSE, !.auto = TRUE,
                               !.data = d, !.event = NoEvent,
                               !.label = NoValue, !.needle = NoValue,
                               !.stray = gauge.stray \/ gauge.pending # {}]
    BY <1>6 DEF GaugeDestroyed
  <2> HIDE DEF d
  <2>3. /\ gauge' \in GaugeState /\ gauge'.event = NoEvent /\ ~ gauge'.selected
        /\ ~ gauge'.created /\ gauge'.pending = gauge.pending
        /\ gauge'.stray = (gauge.stray \/ gauge.pending # {})
    BY <2>1, <2>2, Zenon DEF GaugeState
  <2>4. ~ NoEvent.on /\ NoEvent.timer = 0
    BY DEF NoEvent, NoTimer
  <2> QED BY <2>3, <2>4, Zenon
<1> QED BY <1>1, <1>2, <1>3, <1>4, <1>5, <1>6, Zenon DEF GaugeNext

-----------------------------------------------------------------------------
(* The common scale of charts.                                             *)

ScaleValues == 0 .. MaxValue

ScaleState ==
    [keys : [ScaleCharts -> ScaleValues \cup {Unset}], latest : ScaleValues \cup {Unset},
     low : [ScaleCharts -> ScaleValues], ext : [ScaleCharts -> ScaleValues \cup {Unset}],
     range : [ScaleCharts -> ScaleValues \cup {Unset}], created : SUBSET ScaleCharts,
     smooth : [Lines -> BOOLEAN], plot : BOOLEAN, panned : BOOLEAN, changes : Int]

(* `latest` is the smallest value of a table that has one.                 *)
MinOf(keys, latest) ==
    (\E c \in ScaleCharts : keys[c] # Unset) =>
        /\ \E c \in ScaleCharts : keys[c] # Unset /\ keys[c] = latest
        /\ \A c \in ScaleCharts : keys[c] # Unset => latest <= keys[c]

ScaleGood(s) ==
    /\ s \in ScaleState
    /\ MinOf(s.keys, s.latest)
    /\ \A c \in Lines : s.range[c] <= s.ext[c] /\ (c \in s.created => s.ext[c] # Unset)

(* The smallest value of the table is a value of the table, and the        *)
(* smallest.                                                               *)
LEMMA CommonMinIsMin ==
    ASSUME NEW keys \in [ScaleCharts -> ScaleValues \cup {Unset}],
           NEW c \in ScaleCharts, keys[c] # Unset
    PROVE  CommonMin(keys) \in ScaleValues /\ MinOf(keys, CommonMin(keys))
<1> DEFINE T == {keys[d] : d \in {e \in ScaleCharts : keys[e] # Unset}}
<1>1. T \subseteq ScaleValues /\ keys[c] \in T
  OBVIOUS
<1>2. ScaleValues \subseteq Nat
  BY ScaleAssumption DEF ScaleValues
<1>3. Min(T) \in T /\ \A y \in T : Min(T) <= y
  BY <1>1, <1>2, MinIsMember, Zenon
<1>4. CommonMin(keys) = Min(T)
  BY DEF CommonMin
<1> QED BY <1>1, <1>3, <1>4, Zenon DEF MinOf

(* There is one smallest value.                                            *)
LEMMA MinOfIsCommonMin ==
    ASSUME NEW keys \in [ScaleCharts -> ScaleValues \cup {Unset}], NEW latest,
           MinOf(keys, latest), NEW c \in ScaleCharts, keys[c] # Unset
    PROVE  latest = CommonMin(keys)
<1>1. CommonMin(keys) \in ScaleValues /\ MinOf(keys, CommonMin(keys))
  BY CommonMinIsMin
<1>2. ScaleValues \subseteq Nat
  BY ScaleAssumption DEF ScaleValues
<1>3. PICK a \in ScaleCharts : keys[a] # Unset /\ keys[a] = latest
  BY DEF MinOf
<1>4. PICK b \in ScaleCharts : keys[b] # Unset /\ keys[b] = CommonMin(keys)
  BY <1>1 DEF MinOf
<1>5. latest <= CommonMin(keys) /\ CommonMin(keys) <= latest
  BY <1>1, <1>3, <1>4 DEF MinOf
<1>6. latest \in Nat /\ CommonMin(keys) \in Nat
  BY <1>1, <1>2, <1>3, Zenon
<1> QED BY <1>5, <1>6

(* get() of the common minimum: a value no larger than the chart's own.    *)
LEMMA CommonMinGetGood ==
    ASSUME NEW s \in ScaleState, MinOf(s.keys, s.latest), NEW c \in ScaleCharts,
           NEW min \in ScaleValues
    PROVE  LET g == CommonMinGet(s, c, min)
           IN  /\ g \in ScaleState /\ MinOf(g.keys, g.latest)
               /\ g.latest \in ScaleValues /\ g.latest <= min
               /\ g.low = s.low /\ g.ext = s.ext /\ g.range = s.range
               /\ g.created = s.created /\ g.smooth = s.smooth /\ g.plot = s.plot
<1> DEFINE k == [s.keys EXCEPT ![c] = min]
           r(l) == [s EXCEPT !.keys = k, !.latest = l]
<1>1. ScaleValues \subseteq Nat /\ Unset \notin ScaleValues /\ Unset \in Int
  BY ScaleAssumption DEF ScaleValues, Unset
<1>2. /\ k \in [ScaleCharts -> ScaleValues \cup {Unset}] /\ k[c] = min
      /\ \A d \in ScaleCharts \ {c} : k[d] = s.keys[d]
  BY DEF ScaleState
<1> HIDE DEF k
<1>3. ASSUME NEW l \in ScaleValues
      PROVE  /\ r(l) \in ScaleState /\ r(l).keys = k /\ r(l).latest = l
             /\ r(l).low = s.low /\ r(l).ext = s.ext /\ r(l).range = s.range
             /\ r(l).created = s.created /\ r(l).smooth = s.smooth /\ r(l).plot = s.plot
  BY <1>2, <1>3, Zenon DEF ScaleState
<1>4. CASE s.keys[c] = min
  <2>1. CommonMinGet(s, c, min) = s
    BY <1>4 DEF CommonMinGet
  <2>2. s.latest \in ScaleValues /\ s.latest <= min
    BY <1>1, <1>4 DEF MinOf, ScaleState
  <2> QED BY <2>1, <2>2
<1>5. CASE s.keys[c] # min /\ s.keys[c] # Unset /\ min < s.latest
  <2>1. CommonMinGet(s, c, min) = r(min)
    BY <1>5 DEF CommonMinGet, ScaleState, k
  <2>2. MinOf(k, min)
    <3>1. \A d \in ScaleCharts : k[d] # Unset => min <= k[d]
      <4> SUFFICES ASSUME NEW d \in ScaleCharts, k[d] # Unset, d # c PROVE min <= k[d]
        BY <1>1, <1>2
      <4>0. k[d] = s.keys[d]
        BY <1>2
      <4>3. s.latest <= s.keys[d]
        BY <4>0 DEF MinOf
      <4>a. s.latest \in ScaleValues \cup {Unset}
        BY DEF ScaleState
      <4>b. k[d] \in ScaleValues
        BY <1>2
      <4>2. s.latest \in Int /\ k[d] \in Nat
        BY <4>a, <4>b, ScaleAssumption DEF ScaleValues, Unset
      <4>1. k[d] = s.keys[d] /\ s.latest <= s.keys[d] /\ k[d] \in Nat /\ s.latest \in Int
        BY <4>0, <4>2, <4>3
      <4> QED BY <1>1, <1>5, <4>1
    <3> QED BY <1>1, <1>2, <3>1 DEF MinOf
  <2>3. min <= min
    BY <1>1, SMTT(30)
  <2> HIDE DEF r
  <2> QED BY <1>3, <2>1, <2>2, <2>3
<1>6. CASE s.keys[c] # min /\ ~ (s.keys[c] # Unset /\ min < s.latest)
  <2>1. CommonMinGet(s, c, min) = r(CommonMin(k))
    BY <1>6 DEF CommonMinGet, ScaleState, k
  <2>2. CommonMin(k) \in ScaleValues /\ MinOf(k, CommonMin(k))
    BY <1>1, <1>2, CommonMinIsMin
  <2>3. CommonMin(k) <= min
    BY <1>1, <1>2, <2>2 DEF MinOf
  <2> HIDE DEF r
  <2> QED BY <1>3, <2>1, <2>2, <2>3
<1> QED BY <1>4, <1>5, <1>6, Zenon

(* The charts begin with no value.                                         *)
LEMMA ScaleInitGood ==
    ASSUME ScaleInit PROVE ScaleGood(scale)
<1>1. PICK low \in [ScaleCharts -> 0..MaxValue] :
        scale = [keys |-> [c \in ScaleCharts |-> Unset], latest |-> Unset,
                 low |-> low, ext |-> [c \in ScaleCharts |-> Unset],
                 range |-> [c \in ScaleCharts |-> Unset],
                 created |-> {}, smooth |-> [c \in Lines |-> FALSE], plot |-> FALSE,
                 panned |-> FALSE, changes |-> NewValues]
  BY Zenon DEF ScaleInit
<1>2. scale \in ScaleState
  BY <1>1, ScaleAssumption DEF ScaleState, ScaleValues
<1>3. MinOf(scale.keys, scale.latest)
  BY <1>1 DEF MinOf
<1>4. \A c \in Lines : scale.range[c] <= scale.ext[c] /\ c \notin scale.created
  BY <1>1, SMTT(30) DEF ScaleCharts, Unset
<1> QED BY <1>2, <1>3, <1>4 DEF ScaleGood

(* A line chart is created with the common scale.                          *)
LEMMA LineCreateGood ==
    ASSUME NEW s, ScaleGood(s), NEW c \in Lines
    PROVE  ScaleGood(LineCreate(s, c))
<1> DEFINE rg == [s.range EXCEPT ![c] = Unset]
           ex == [s.ext EXCEPT ![c] = s.low[c]]
           sm == [s.smooth EXCEPT ![c] = s.plot]
           r == [s EXCEPT !.created = s.created \cup {c}, !.range = rg, !.ext = ex, !.smooth = sm]
<1>1. s \in ScaleState /\ c \in ScaleCharts
  BY DEF ScaleGood, ScaleCharts
<1>2. /\ rg \in [ScaleCharts -> ScaleValues \cup {Unset}] /\ rg[c] = Unset
      /\ ex \in [ScaleCharts -> ScaleValues \cup {Unset}] /\ ex[c] = s.low[c]
      /\ sm \in [Lines -> BOOLEAN] /\ s.created \cup {c} \in SUBSET ScaleCharts
      /\ \A d \in Lines \ {c} : rg[d] = s.range[d] /\ ex[d] = s.ext[d]
      /\ s.low[c] \in ScaleValues
  BY <1>1 DEF ScaleState, ScaleCharts
<1>3. LineCreate(s, c) = r
  BY <1>1 DEF LineCreate, ScaleState
<1> HIDE DEF rg, ex, sm
<1>4. /\ r \in ScaleState /\ r.keys = s.keys /\ r.latest = s.latest /\ r.range = rg /\ r.ext = ex
      /\ r.created = s.created \cup {c}
  BY <1>1, <1>2, Zenon DEF ScaleState
<1> HIDE DEF r
<1>5. rg[c] <= ex[c] /\ ex[c] # Unset
  BY <1>2, ScaleAssumption DEF ScaleValues, Unset
<1>6. \A d \in Lines : r.range[d] <= r.ext[d] /\ (d \in r.created => r.ext[d] # Unset)
  BY <1>2, <1>4, <1>5 DEF ScaleGood
<1> QED BY <1>3, <1>4, <1>6, SMTT(30) DEF ScaleGood

(* The same for the whole invariant.                                       *)
LEMMA ScaleGetGood ==
    ASSUME NEW s, ScaleGood(s), NEW c \in ScaleCharts, NEW min \in ScaleValues
    PROVE  ScaleGood(CommonMinGet(s, c, min))
<1>1. s \in ScaleState /\ MinOf(s.keys, s.latest)
  BY DEF ScaleGood
<1> QED BY <1>1, CommonMinGetGood DEF ScaleGood

(* A chart whose scale does not fit is drawn again, with one that does.    *)
LEMMA LineRedrawGood ==
    ASSUME NEW s \in ScaleState, MinOf(s.keys, s.latest), NEW c \in Lines,
           s.ext[c] \in ScaleValues,
           \A d \in Lines \ {c} :
               s.range[d] <= s.ext[d] /\ (d \in s.created => s.ext[d] # Unset)
    PROVE  ScaleGood(LineRedraw(s, c))
<1>0. c \in ScaleCharts /\ s.ext[c] # Unset
  BY ScaleAssumption DEF ScaleCharts, ScaleValues, Unset
<1>1. CASE s.range[c] <= s.ext[c]
  <2>1. LineRedraw(s, c) = s
    BY <1>1 DEF LineRedraw
  <2> QED BY <1>0, <1>1, <2>1 DEF ScaleGood
<1>2. CASE ~ (s.range[c] <= s.ext[c])
  <2> DEFINE g == CommonMinGet(s, c, s.ext[c])
             rg == [g.range EXCEPT ![c] = g.latest]
             r == [g EXCEPT !.range = rg]
  <2>1. /\ g \in ScaleState /\ MinOf(g.keys, g.latest) /\ g.latest \in ScaleValues
        /\ g.latest <= s.ext[c] /\ g.ext = s.ext /\ g.range = s.range /\ g.created = s.created
    BY <1>0, CommonMinGetGood
  <2>2. LineRedraw(s, c) = r
    BY <1>2, <2>1 DEF LineRedraw, ScaleState
  <2> HIDE DEF g
  <2>3. /\ rg \in [ScaleCharts -> ScaleValues \cup {Unset}] /\ rg[c] = g.latest
        /\ \A d \in Lines \ {c} : rg[d] = s.range[d]
    BY <1>0, <2>1 DEF ScaleState, ScaleCharts
  <2> HIDE DEF rg
  <2>4. /\ r \in ScaleState /\ r.keys = g.keys /\ r.latest = g.latest /\ r.range = rg
        /\ r.ext = g.ext /\ r.created = g.created
    BY <2>1, <2>3 DEF ScaleState
  <2> HIDE DEF r
  <2>5. \A d \in Lines : r.range[d] <= r.ext[d] /\ (d \in r.created => r.ext[d] # Unset)
    BY <1>0, <2>1, <2>3, <2>4
  <2> QED BY <2>1, <2>2, <2>4, <2>5, SMTT(30) DEF ScaleGood
<1> QED BY <1>1, <1>2

(* New data of a line chart.                                               *)
LEMMA LineUpdateGood ==
    ASSUME NEW s, ScaleGood(s), NEW c \in Lines, c \in s.created
    PROVE  ScaleGood(LineUpdate(s, c))
<1> DEFINE g == CommonMinGet(s, c, s.ext[c])
           rg == [g.range EXCEPT ![c] = g.latest]
           ex == [g.ext EXCEPT ![c] = s.low[c]]
           r == [g EXCEPT !.range = rg, !.ext = ex]
<1>1. /\ s \in ScaleState /\ MinOf(s.keys, s.latest) /\ c \in ScaleCharts /\ s.ext[c] \in ScaleValues
      /\ s.low[c] \in ScaleValues
  BY SMTT(30) DEF ScaleGood, ScaleCharts, ScaleState
<1>2. /\ g \in ScaleState /\ MinOf(g.keys, g.latest) /\ g.latest \in ScaleValues
      /\ g.ext = s.ext /\ g.range = s.range /\ g.created = s.created
      /\ g.smooth = s.smooth /\ g.plot = s.plot
  BY <1>1, CommonMinGetGood
<1>3. ScaleGood(g)
  BY <1>1, ScaleGetGood
<1>4. LineUpdate(s, c) = IF s.smooth[c] # s.plot THEN LineCreate(g, c) ELSE LineRedraw(r, c)
  BY <1>2, Zenon DEF LineUpdate, ScaleState
<1> HIDE DEF g
<1>5. /\ rg \in [ScaleCharts -> ScaleValues \cup {Unset}]
      /\ ex \in [ScaleCharts -> ScaleValues \cup {Unset}] /\ ex[c] = s.low[c]
      /\ \A d \in Lines \ {c} : rg[d] = s.range[d] /\ ex[d] = s.ext[d]
  BY <1>1, <1>2 DEF ScaleState, ScaleCharts
<1> HIDE DEF rg, ex
<1>6. /\ r \in ScaleState /\ r.keys = g.keys /\ r.latest = g.latest /\ r.range = rg
      /\ r.ext = ex /\ r.created = g.created
  BY <1>2, <1>5, Zenon DEF ScaleState
<1> HIDE DEF r
<1>7. \A d \in Lines \ {c} : r.range[d] <= r.ext[d] /\ (d \in r.created => r.ext[d] # Unset)
  BY <1>2, <1>5, <1>6 DEF ScaleGood
<1>8. ScaleGood(LineRedraw(r, c))
  BY <1>1, <1>2, <1>5, <1>6, <1>7, LineRedrawGood, SMTT(30)
<1>9. ScaleGood(LineCreate(g, c))
  BY <1>3, LineCreateGood, SMTT(30)
<1> QED BY <1>4, <1>8, <1>9

(* A dial is drawn with another scale, which changes no line.              *)
DialRange(g, c, v, cr) ==
    [g EXCEPT !.range = [g.range EXCEPT ![c] = v], !.created = g.created \cup cr]

(* This keeps the invariant.                                               *)
LEMMA DialDrawn ==
    ASSUME NEW g, ScaleGood(g), NEW c \in Dials, NEW v \in ScaleValues, NEW cr \in SUBSET Dials
    PROVE  ScaleGood(DialRange(g, c, v, cr))
<1> DEFINE rg == [g.range EXCEPT ![c] = v]
           r == [g EXCEPT !.range = rg, !.created = g.created \cup cr]
<1>1. g \in ScaleState /\ c \in ScaleCharts /\ c \notin Lines /\ cr \cap Lines = {}
  BY ScaleAssumption DEF ScaleGood, ScaleCharts
<1>2. /\ rg \in [ScaleCharts -> ScaleValues \cup {Unset}]
      /\ \A d \in Lines : rg[d] = g.range[d]
      /\ g.created \cup cr \in SUBSET ScaleCharts
  BY <1>1 DEF ScaleState, ScaleCharts
<1> HIDE DEF rg
<1>3. /\ r \in ScaleState /\ r.keys = g.keys /\ r.latest = g.latest /\ r.range = rg
      /\ r.ext = g.ext /\ r.created = g.created \cup cr
  BY <1>1, <1>2, Zenon DEF ScaleState
<1> HIDE DEF r
<1>4. \A d \in Lines : r.range[d] <= r.ext[d] /\ (d \in r.created => r.ext[d] # Unset)
  BY <1>1, <1>2, <1>3 DEF ScaleGood
<1>5. ScaleGood(r)
  BY <1>3, <1>4 DEF ScaleGood
<1> QED BY <1>5, Zenon DEF DialRange, r, rg

(* New data of a dial.                                                     *)
LEMMA DialUpdateGood ==
    ASSUME NEW s, ScaleGood(s), NEW c \in Dials
    PROVE  ScaleGood(DialUpdate(s, c))
<1> DEFINE g == CommonMinGet(s, c, s.low[c])
<1>1. /\ s \in ScaleState /\ MinOf(s.keys, s.latest) /\ c \in ScaleCharts
      /\ s.low[c] \in ScaleValues
  BY SMTT(30) DEF ScaleGood, ScaleCharts, ScaleState
<1>2. g \in ScaleState /\ g.latest \in ScaleValues
  BY <1>1, CommonMinGetGood
<1>3. ScaleGood(g)
  BY <1>1, ScaleGetGood
<1>4. Zero \in ScaleValues /\ ZeroBased(g.latest) \in ScaleValues
  BY <1>2, ScaleAssumption DEF ZeroBased, ScaleValues
<1>5. CASE s.panned /\ c \in s.created
  <2>0. s.created \cup {} = s.created
    OBVIOUS
  <2>1. DialUpdate(s, c) = DialRange(s, c, Zero, {})
    BY <1>1, <1>5, <2>0, Zenon DEF DialUpdate, DialRange, ScaleState
  <2>2. {} \in SUBSET Dials
    OBVIOUS
  <2> QED BY <1>4, <2>1, <2>2, DialDrawn, Zenon
<1>6. CASE ~ (s.panned /\ c \in s.created)
  <2>1. DialUpdate(s, c) = DialRange(g, c, ZeroBased(g.latest), {c})
    BY <1>2, <1>6, Zenon DEF DialUpdate, DialRange
  <2>2. {c} \in SUBSET Dials
    OBVIOUS
  <2> HIDE DEF g
  <2> QED BY <1>3, <1>4, <2>1, <2>2, DialDrawn, Zenon
<1> QED BY <1>5, <1>6

(* Every step of the scales keeps the invariant.                           *)
LEMMA ScaleStepGood ==
    ASSUME ScaleGood(scale), ScaleNext PROVE ScaleGood(scale')
<1>0. scale \in ScaleState
  BY DEF ScaleGood
<1>1. ASSUME NEW c \in Lines, LineRefresh(c) PROVE ScaleGood(scale')
  <2>1. CASE c \in scale.created
    BY <1>1, <2>1, LineUpdateGood DEF LineRefresh
  <2>2. CASE c \notin scale.created
    BY <1>1, <2>2, LineCreateGood DEF LineRefresh
  <2> QED BY <2>1, <2>2
<1>2. ASSUME NEW c \in Lines, LineDestroyed(c) PROVE ScaleGood(scale')
  <2> DEFINE rg == [scale.range EXCEPT ![c] = Unset]
             ex == [scale.ext EXCEPT ![c] = Unset]
             r == [scale EXCEPT !.created = scale.created \ {c}, !.range = rg, !.ext = ex,
                                !.changes = scale.changes - 1]
  <2>1. scale' = r
    BY <1>0, <1>2 DEF LineDestroyed, ScaleState
  <2>2. /\ rg \in [ScaleCharts -> ScaleValues \cup {Unset}] /\ rg[c] = Unset
        /\ ex \in [ScaleCharts -> ScaleValues \cup {Unset}] /\ ex[c] = Unset
        /\ \A d \in Lines \ {c} : rg[d] = scale.range[d] /\ ex[d] = scale.ext[d]
        /\ scale.changes - 1 \in Int /\ scale.created \ {c} \in SUBSET ScaleCharts
    BY <1>0 DEF ScaleState, ScaleCharts
  <2> HIDE DEF rg, ex
  <2>3. /\ r \in ScaleState /\ r.keys = scale.keys /\ r.latest = scale.latest /\ r.range = rg
        /\ r.ext = ex /\ r.created = scale.created \ {c}
    BY <1>0, <2>2, Zenon DEF ScaleState
  <2> HIDE DEF r
  <2>4. \A d \in Lines : r.range[d] <= r.ext[d] /\ (d \in r.created => r.ext[d] # Unset)
    BY <2>2, <2>3 DEF ScaleGood, Unset
  <2> QED BY <2>1, <2>3, <2>4 DEF ScaleGood
<1>3. ASSUME NEW c \in Dials, DialRefresh(c) PROVE ScaleGood(scale')
  BY <1>3, DialUpdateGood DEF DialRefresh
<1>4. CASE ValuesChange
  <2>1. PICK c \in ScaleCharts, v \in 0..MaxValue :
           scale' = [scale EXCEPT !.low[c] = v, !.changes = @ - 1]
    BY <1>4, Zenon DEF ValuesChange
  <2> DEFINE lo == [scale.low EXCEPT ![c] = v]
             r == [scale EXCEPT !.low = lo, !.changes = scale.changes - 1]
  <2>2. scale' = r
    BY <1>0, <2>1 DEF ScaleState
  <2>3. lo \in [ScaleCharts -> ScaleValues] /\ scale.changes - 1 \in Int
    BY <1>0 DEF ScaleState, ScaleValues
  <2> HIDE DEF lo
  <2>4. /\ r \in ScaleState /\ r.keys = scale.keys /\ r.latest = scale.latest
        /\ r.range = scale.range /\ r.ext = scale.ext /\ r.created = scale.created
    BY <1>0, <2>3, Zenon DEF ScaleState
  <2> HIDE DEF r
  <2> QED BY <2>2, <2>4, SMTT(30) DEF ScaleGood
<1>5. CASE PlotOption
  <2> DEFINE r == [scale EXCEPT !.plot = ~ scale.plot, !.changes = scale.changes - 1]
  <2>1. scale' = r
    BY <1>0, <1>5 DEF PlotOption, ScaleState
  <2>2. (~ scale.plot) \in BOOLEAN /\ scale.changes - 1 \in Int
    BY <1>0 DEF ScaleState
  <2>3. /\ r \in ScaleState /\ r.keys = scale.keys /\ r.latest = scale.latest
        /\ r.range = scale.range /\ r.ext = scale.ext /\ r.created = scale.created
    BY <1>0, <2>2, Zenon DEF ScaleState
  <2> HIDE DEF r
  <2> QED BY <2>1, <2>3 DEF ScaleGood
<1>6. CASE PannedOrNot
  <2> DEFINE r == [scale EXCEPT !.panned = ~ scale.panned, !.changes = scale.changes - 1]
  <2>1. scale' = r
    BY <1>0, <1>6 DEF PannedOrNot, ScaleState
  <2>2. (~ scale.panned) \in BOOLEAN /\ scale.changes - 1 \in Int
    BY <1>0 DEF ScaleState
  <2>3. /\ r \in ScaleState /\ r.keys = scale.keys /\ r.latest = scale.latest
        /\ r.range = scale.range /\ r.ext = scale.ext /\ r.created = scale.created
    BY <1>0, <2>2, Zenon DEF ScaleState
  <2> HIDE DEF r
  <2> QED BY <2>1, <2>3 DEF ScaleGood
<1> QED BY <1>1, <1>2, <1>3, <1>4, <1>5, <1>6 DEF ScaleNext

(* The invariant gives the properties of the scales.                       *)
LEMMA ScaleGoodFits ==
    ASSUME ScaleGood(scale) PROVE LinesFit /\ LatestIsTheMinimum
<1>1. scale.keys \in [ScaleCharts -> ScaleValues \cup {Unset}] /\ MinOf(scale.keys, scale.latest)
  BY DEF ScaleGood, ScaleState
<1>2. LatestIsTheMinimum
  BY <1>1, MinOfIsCommonMin DEF LatestIsTheMinimum
<1>3. LinesFit
  BY DEF ScaleGood, LinesFit
<1> QED BY <1>2, <1>3

=============================================================================
