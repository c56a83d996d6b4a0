------------------------------- MODULE Chart --------------------------------
(***************************************************************************)
(* The load time chart of a website (getSingleChartData): the readings of  *)
(* a period, one bar per label.  The readings arrive in the order of time; *)
(* a reading's load plays no part in which bars there are, so a reading is *)
(* its instant.  Instants are half hours, in a calendar of twelve months   *)
(* of thirty days.                                                         *)
(***************************************************************************)
EXTENDS Integers, FiniteSets, Sequences

CONSTANTS
    Instants,        \* the instants readings may have been taken at, in order
    Nows             \* the instants the chart may be asked for

ASSUME ChartAssumption ==
    /\ Instants \in Seq(Nat)
    /\ \A i, j \in DOMAIN Instants : i < j => Instants[i] < Instants[j]
    /\ Nows \subseteq Nat

\* readings: those there are, by their place in Instants.
VARIABLE chart       \* a request: its filter, its time and the readings

Filter == {"1", "7", "30", "1m", "other"}

ChartInit ==
    \E filter \in Filter, now \in Nows :
       \E readings \in SUBSET {i \in DOMAIN Instants : Instants[i] <= now} :
          chart = [filter |-> filter, now |-> now, readings |-> readings]

DayOf(t) == t \div 48

HourOf(t) == (t \div 2) % 24

\* The months counted on across the years.
MonthAge(t) == DayOf(t) \div 30

MonthOf(t) == MonthAge(t) % 12

\* Mutant: the last month is the last thirty days.
Within30Days(c, t) == t > c.now - 30 * 48

\* getMonth() == getMonth() - 1: of any year, and never in January.
InMonthBefore(c, t) == MonthOf(t) = MonthOf(c.now) - 1

InPeriod(c, t) ==
    CASE c.filter = "7"  -> t > c.now - 7 * 48
      [] c.filter = "30" -> t > c.now - 30 * 48
      [] c.filter = "1m" -> InMonthBefore(c, t)
      [] OTHER           -> t > c.now - 48

\* Mutant: the hours of the afternoon keep their number.
Hour24(h) == IF h < 12 THEN <<h, "AM">> ELSE <<h, "PM">>

\* The four branches of the hours, the first that fits: 12 is an AM.
HourLabel(h) ==
    IF 6 <= h /\ h <= 12 THEN <<h, "AM">>
    ELSE IF 12 <= h /\ h <= 24 THEN <<h - 12, "PM">>
    ELSE <<h, "AM">>

\* toDateString without the year: the day of the week, of the month, the month.
DateLabel(t) == <<DayOf(t) % 7, DayOf(t) % 30, MonthOf(t)>>

Label(c, t) ==
    IF c.filter \in {"7", "30", "1m"} THEN DateLabel(t) ELSE HourLabel(HourOf(t))

\* Mutant: a label keeps its last reading.
LastOf(label, i) == \A j \in DOMAIN label : label[j] = label[i] => j <= i

\* label.indexOf(e) == i
FirstOf(label, i) == \A j \in DOMAIN label : label[j] = label[i] => i <= j

getSingleChartData(c) ==
    LET loadData == {i \in c.readings : InPeriod(c, Instants[i])}
        label == [i \in loadData |-> Label(c, Instants[i])]
        kept == {i \in loadData : FirstOf(label, i)}
    IN {[label |-> label[i], load |-> Instants[i]] : i \in kept}

\* A chart is computed in one go; nothing follows.
ChartSpec == ChartInit /\ [][FALSE]_chart

(***************************************************************************)
(* Properties.                                                             *)
(***************************************************************************)
\* The instants of the readings.
Read(c) == {Instants[i] : i \in c.readings}

\* A chart has one bar for every label of a reading in the period, and it
\* shows the earliest of the readings with that label.
BarsShowFirstReadings ==
    LET bars == getSingleChartData(chart)
        charted == {t \in Read(chart) : InPeriod(chart, t)}
    IN /\ \A t \in charted : Cardinality({bar \in bars : bar.label = Label(chart, t)}) = 1
       /\ \A bar \in bars :
             /\ bar.load \in charted /\ bar.label = Label(chart, bar.load)
             /\ \A t \in charted : Label(chart, t) = bar.label => bar.load <= t

\* In a chart of hours a label tells the hour it stands for: no two hours
\* share one, mornings are AM and afternoons are PM in twelve hour counting -
\* except that noon is called 12 AM (and midnight 0 AM).
HourLabelsTell ==
    chart.filter \in {"1", "other"} =>
       \A bar \in getSingleChartData(chart) :
          LET h == HourOf(bar.load) IN
          /\ \A t \in Read(chart) :
                (InPeriod(chart, t) /\ Label(chart, t) = bar.label) => HourOf(t) = h
          /\ h \in 1 .. 11 => bar.label = <<h, "AM">>
          /\ h \in 13 .. 23 => bar.label = <<h - 12, "PM">>

\* From February on the chart of last month has a bar for every day of the month
\* before with a reading, and of the last twelve months no other month has one.
\* getMonth() knows no year: the same month of earlier years is charted with it.
LastMonthCharted ==
    chart.filter = "1m" /\ MonthOf(chart.now) # 0 =>
       LET bars == getSingleChartData(chart)
           now == MonthAge(chart.now)
       IN /\ \A t \in Read(chart) : MonthAge(t) = now - 1 =>
                \E bar \in bars : bar.label = DateLabel(t)
          /\ \A bar \in bars : MonthAge(bar.load) > now - 12 => MonthAge(bar.load) = now - 1

\* 1m charts the last month, as the description of the route says - which it
\* does whether that is the month before or the last thirty days: a reading
\* that is of both has a bar for its day.
LastMonthServed ==
    chart.filter = "1m" =>
       \A t \in Read(chart) :
          (MonthAge(t) = MonthAge(chart.now) - 1 /\ t > chart.now - 30 * 48) =>
             \E bar \in getSingleChartData(chart) : bar.label = DateLabel(t)
=============================================================================
