----------------------------- MODULE ValueFormat -----------------------------
(***************************************************************************)
(* How the dashboard chooses the decimal digits of the values it shows     *)
(* (portal/dashboard.js 744-942, 2527-2602, 4731-4742): the labels of the  *)
(* axis of a chart set the digits of the chart from the range they show;   *)
(* a chart without them formats every value by its own size.  The          *)
(* formatters are made once and shared by all charts.                      *)
(*                                                                         *)
(* Numbers are in units of 1/10000, and positive.                          *)
(***************************************************************************)
EXTENDS Integers

CONSTANTS FormatCharts,   \* the charts
          FormatNumbers,  \* the sizes of ranges and values
          FormatDetail    \* value_decimal_detail of the page, or NotGiven

ASSUME FormatAssumption == FormatNumbers \subseteq Nat /\ FormatDetail \in 0 .. 8

VARIABLE fmt

Digits == 0 .. 7

\* No digits are set; no formatter.
NoDigits == -1

NoFormatter == [min |-> NoDigits, max |-> NoDigits]

NoRange == -1

\* The page does not set the digits (-1 in the code).
NotGiven == 8

\* Mutant: a step of the table is missing.
Mut_DigitsOf(n) ==
    IF n > 10000000 THEN 0 ELSE IF n > 100000 THEN 1 ELSE IF n > 100 THEN 2
    ELSE IF n > 10 THEN 5 ELSE IF n > 1 THEN 6 ELSE 7

\* The digits that suit a number.
DigitsOf(n) ==
    IF n > 10000000 THEN 0 ELSE IF n > 100000 THEN 1 ELSE IF n > 10000 THEN 2
    ELSE IF n > 1000 THEN 2 ELSE IF n > 100 THEN 4 ELSE IF n > 10 THEN 5
    ELSE IF n > 1 THEN 6 ELSE 7

\* `range`: the minimum and maximum of the last call (their difference stands for
\* both), `digits`: __legendFormatValueChartDecimals, `with`: __intlNumberFormat;
\* `fixed`, `zero`: the formatters of fastNumberFormat; `used`: the formatter of
\* the last value, and what it was asked for.
FormatInit ==
    fmt = [chart |-> [c \in FormatCharts |->
                         [range |-> NoRange, digits |-> NoDigits, with |-> NoFormatter]],
           fixed |-> [d \in Digits |-> NoFormatter], zero |-> [d \in Digits |-> NoFormatter],
           used |-> NoFormatter, asked |-> NoFormatter]

\* Mutant: all formatters are in one table.
Mut_GetFormatter(s, min, max) ==
    LET f == [min |-> min, max |-> max]
    IN  IF s.fixed[max] # NoFormatter THEN [s EXCEPT !.used = s.fixed[max], !.asked = f]
        ELSE [s EXCEPT !.fixed[max] = f, !.used = f, !.asked = f]

\* fastNumberFormat.get(), of any of the three ways to format: the formatter of
\* the table, made if it is not there yet.
GetFormatter(s, min, max) ==
    LET f == [min |-> min, max |-> max]
        table == IF min = max THEN s.fixed ELSE s.zero
        made == IF table[max] = NoFormatter THEN [table EXCEPT ![max] = f] ELSE table
        s1 == IF min = max THEN [s EXCEPT !.fixed = made] ELSE [s EXCEPT !.zero = made]
    IN  [s1 EXCEPT !.used = made[max], !.asked = f]

\* Mutant: a chart that lets every value decide keeps the formatter it had.
Mut_SetDigits(s, c, digits) ==
    IF digits = s.chart[c].digits THEN s
    ELSE IF digits < 0 THEN [s EXCEPT !.chart[c].digits = digits]
    ELSE LET s1 == GetFormatter(s, digits, digits)
         IN  [s1 EXCEPT !.chart[c].digits = digits, !.chart[c].with = s1.used]

\* The end of legendFormatValueDecimalsFromMinMax(): only a change of the digits
\* changes the formatter of the chart.
SetDigits(s, c, digits) ==
    IF digits = s.chart[c].digits THEN s
    ELSE IF digits < 0 THEN [s EXCEPT !.chart[c].digits = digits, !.chart[c].with = NoFormatter]
    ELSE LET s1 == GetFormatter(s, digits, digits)
         IN  [s1 EXCEPT !.chart[c].digits = digits, !.chart[c].with = s1.used]

\* legendFormatValueDecimalsFromMinMax(): nothing is done for the range of the
\* last call, even if the data, which is flat or not, changed since.
DecimalsFromMinMax(s, c, range, flat) ==
    IF range = s.chart[c].range THEN s
    ELSE SetDigits([s EXCEPT !.chart[c].range = range], c,
                   IF flat THEN NoDigits
                   ELSE IF FormatDetail # NotGiven THEN FormatDetail
                   ELSE DigitsOf(range))

\* legendFormatValue().
LegendFormatValue(s, c, v) ==
    IF s.chart[c].with # NoFormatter
    THEN [s EXCEPT !.used = s.chart[c].with, !.asked = s.chart[c].with]
    ELSE IF FormatDetail # NotGiven THEN GetFormatter(s, FormatDetail, FormatDetail)
    ELSE GetFormatter(s, 0, DigitsOf(v))

\* A label of the axis of a line chart is drawn.
AxisLabel(c) ==
    \E range, v \in FormatNumbers, flat \in BOOLEAN :
        /\ v <= range
        /\ fmt' = LegendFormatValue(DecimalsFromMinMax(fmt, c, range, flat), c, v)

\* A value of the legend, of a pie or of a gauge is shown.
ShowValue(c) == \E v \in FormatNumbers : fmt' = LegendFormatValue(fmt, c, v)

FormatNext == \E c \in FormatCharts : AxisLabel(c) \/ ShowValue(c)

FormatSpec == FormatInit /\ [][FormatNext]_fmt

-----------------------------------------------------------------------------
(***************************************************************************)
(* Properties                                                              *)
(***************************************************************************)

\* A value is formatted with the digits that were asked for, whichever charts
\* made the shared formatters before, and for which values (744-869).
FormatIsAsked == fmt.used = fmt.asked

\* The formatter a chart keeps is always the one of its digits, although it is
\* changed only when they change, and there is none when each value decides
\* (2566-2575).
KeptFormatterFits ==
    \A c \in FormatCharts :
        LET s == fmt.chart[c] IN s.with = [min |-> s.digits, max |-> s.digits]

PowerOfTen == <<1, 10, 100, 1000, 10000, 100000, 1000000, 10000000>>

\* The labels of an axis can differ: at least ten values of the digits of a chart
\* fit in the range they were set for, if it is above 0.0001 and the page does
\* not say otherwise (2548-2564).
AxisIsResolved ==
    \A c \in FormatCharts :
        LET s == fmt.chart[c]
        IN  s.digits # NoDigits /\ FormatDetail = NotGiven /\ s.range > 1
                => s.range * PowerOfTen[s.digits + 1] >= 10 * 10000

=============================================================================
