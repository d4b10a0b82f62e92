------------------------------ MODULE History ------------------------------
(* The history of the readings as the page shows it: the rows the collector *)
(* saves, the four queries of models/environment.go over them, and the      *)
(* greatest and least value from which the page computes its axes.          *)
(*                                                                          *)
(* The clock goes in steps that are a half of what a query's points stand   *)
(* for, or less, and there is a row for every step.  Temperature stands for *)
(* all three quantities; it is the one that may be negative.                *)
EXTENDS Integers, Sequences, FiniteSetsExt

CONSTANTS
  Spans,        \* for each type the instant its clock starts with, ends with
  Climates      \* temperatures, in tenths, around which it varies

VARIABLES
  type,         \* the query: hour, day, month or year
  climate,
  now,          \* <<year, month, day, hour, minute, second>>
  rows          \* the table environment: when a row was created, and its value

vars == <<type, climate, now, rows>>

Types == {"hour", "day", "month", "year"}

-----------------------------------------------------------------------------
(* Instants, and MySQL's functions on them *)

Earlier(a, b) ==
  \E i \in 1 .. 6 : a[i] < b[i] /\ \A j \in 1 .. i - 1 : a[j] = b[j]

LeapYear(y) == (y % 4 = 0 /\ y % 100 # 0) \/ y % 400 = 0

DaysIn(y, m) ==
  IF m = 2 THEN IF LeapYear(y) THEN 29 ELSE 28
  ELSE IF m \in {4, 6, 9, 11} THEN 30 ELSE 31

Instants ==
  {t \in [1 .. 6 -> Int] :
     /\ t[2] \in 1 .. 12
     /\ t[3] \in 1 .. DaysIn(t[1], t[2])
     /\ t[4] \in 0 .. 23
     /\ t[5] \in 0 .. 59
     /\ t[6] \in 0 .. 59}

\* The clock starts and ends with instants that exist.
ASSUME SpansAssumption == \A unit \in Types : Spans[unit] \in Instants \X Instants
ASSUME ClimatesAssumption == Climates \subseteq Int

MonthBefore(t) == IF t[2] > 1 THEN [t EXCEPT ![2] = @ - 1]
                  ELSE [t EXCEPT ![1] = @ - 1, ![2] = 12]

\* A day that its month does not have becomes the month's last.
Clamp(t) ==
  IF t[3] > DaysIn(t[1], t[2]) THEN [t EXCEPT ![3] = DaysIn(t[1], t[2])] ELSE t

DayBefore(t) ==
  IF t[3] > 1 THEN [t EXCEPT ![3] = @ - 1]
  ELSE LET m == MonthBefore(t) IN [m EXCEPT ![3] = DaysIn(m[1], m[2])]

DATE_SUB(t, unit) ==
  CASE unit = "hour" -> IF t[4] > 0 THEN [t EXCEPT ![4] = @ - 1]
                        ELSE [DayBefore(t) EXCEPT ![4] = 23]
    [] unit = "day" -> DayBefore(t)
    [] unit = "month" -> Clamp(MonthBefore(t))
    [] unit = "year" -> Clamp([t EXCEPT ![1] = @ - 1])

\* Where the place that DATE_FORMAT picks is in an instant: minute, hour, day
\* and month.
Place == [hour |-> 5, day |-> 4, month |-> 3, year |-> 2]

DATE_FORMAT(t, unit) == t[Place[unit]]

\* The minute, hour, day or month an instant really is in.
Period(t, unit) == SubSeq(t, 1, Place[unit])

-----------------------------------------------------------------------------
(* The queries *)

\* The window is closed at its old end and has no new one.
_search2(table) == {r \in table : ~Earlier(r.at, DATE_SUB(now, type))}

\* ROUND(AVG(...), 0) rounds a half away from zero.
Average(rs) ==
  LET sum == MapThenSumSet(LAMBDA r : r.t, rs)
      n == Cardinality(rs)
      magnitude == (2 * (IF sum < 0 THEN -sum ELSE sum) + n) \div (2 * n)
  IN IF sum < 0 THEN -magnitude ELSE magnitude

\* GROUP BY ctx: the readings of each point.
Points(rs) ==
  [ctx \in {DATE_FORMAT(r.at, type) : r \in rs} |->
     {r \in rs : DATE_FORMAT(r.at, type) = ctx}]

\* Faulty variant: the points are put in the order of their names.
OrderedByName(p, a, b, row) == a <= b

\* ORDER BY created_at goes by the row of each point that MySQL picks.
Ordered(p, a, b, row) == a = b \/ Earlier(row[a].at, row[b].at)

-----------------------------------------------------------------------------
(* Greatest and least value, and the axes the page makes of them *)

\* Faulty variant: only the first point is looked at.
HighestFirst(p, row) ==
  Average(p[CHOOSE a \in DOMAIN p : \A b \in DOMAIN p : Ordered(p, a, b, row)])

Highest(p, row) == Max({Average(p[ctx]) : ctx \in DOMAIN p})

Lowest(p, row) == Min({Average(p[ctx]) : ctx \in DOMAIN p})

\* parseInt of a value in tenths, and the remainder of the language, which
\* has the sign of what is divided.
ParseInt(v) == IF v < 0 THEN -((-v) \div 10) ELSE v \div 10
Remainder(n) == n - 10 * ParseInt(n)

AxisMax(v) == ParseInt(v) + (10 - Remainder(ParseInt(v)))
AxisMin(v) == ParseInt(v) - Remainder(ParseInt(v))

-----------------------------------------------------------------------------
(* Time passes *)

Temperature(at) ==
  climate + ((7 * at[2] + 11 * at[3] + 17 * at[4] + 13 * at[5]) % 60)

DayAfter(t) ==
  IF t[3] < DaysIn(t[1], t[2]) THEN [t EXCEPT ![3] = @ + 1]
  ELSE IF t[2] < 12 THEN [t EXCEPT ![2] = @ + 1, ![3] = 1]
  ELSE [t EXCEPT ![1] = @ + 1, ![2] = 1, ![3] = 1]

Carry(t) ==
  LET s == t[6] \div 60
      m == (t[5] + s) \div 60
      h == (t[4] + m) \div 24
      kept == [t EXCEPT ![4] = (@ + m) % 24, ![5] = (@ + s) % 60, ![6] = @ % 60]
  IN IF h = 0 THEN kept ELSE DayAfter(kept)

Next30s(t) == Carry([t EXCEPT ![6] = @ + 30])
Next30min(t) == Carry([t EXCEPT ![5] = @ + 30])
NextHalfDay(t) == Carry([t EXCEPT ![4] = @ + 12])
Next3Days(t) == DayAfter(DayAfter(DayAfter(t)))

After(t) ==
  CASE type = "hour" -> Next30s(t)
    [] type = "day" -> Next30min(t)
    [] type = "month" -> NextHalfDay(t)
    [] type = "year" -> Next3Days(t)

Init ==
  /\ type \in Types
  /\ climate \in Climates
  /\ now = Spans[type][1]
  /\ rows = {}

\* BeforeCreate dates a row with the time at which it is saved.  Rows that no
\* query reaches any more, nor one of twice its length, are left out.
Save ==
  /\ Earlier(now, Spans[type][2])
  /\ now' = After(now)
  /\ rows' = {r \in rows : ~Earlier(r.at, DATE_SUB(DATE_SUB(now', type), type))}
             \cup {[at |-> now', t |-> Temperature(now')]}
  /\ UNCHANGED <<type, climate>>

\* The part of the calendar that is looked at ends.
End == ~Earlier(now, Spans[type][2]) /\ UNCHANGED vars

Next == Save \/ End

Spec == Init /\ [][Next]_vars

-----------------------------------------------------------------------------
(* Properties *)

\* The row MySQL picks may be any; it matters for a point of two periods,
\* where it is one of the older or one of the newer.
Picks(p) ==
  {[ctx \in DOMAIN p |-> CHOOSE r \in p[ctx] :
      \A q \in p[ctx] : IF first THEN ~Earlier(q.at, r.at) ELSE ~Earlier(r.at, q.at)] :
   first \in BOOLEAN}

Of(rs) == {Period(r.at, type) : r \in rs}

Chronological(a, b) ==
  \E i \in DOMAIN a : a[i] < b[i] /\ \A j \in 1 .. i - 1 : a[j] = b[j]

\* What an answer shows is the last hour, day, month or year: every point but
\* the one in whose period the window begins is the average of one period,
\* these points are in the order of time, and no period is missing.  The
\* point of the first period also counts the readings of the period of the
\* same name that follows it, and may stand on either side of the others;
\* around the end of a February that point is not even the last one.
AnswerIsHistory ==
  LET p == Points(_search2(rows))
      whole == DOMAIN p \ {DATE_FORMAT(DATE_SUB(now, type), type)}
      last == {r \in rows : ~Earlier(r.at, DATE_SUB(now, type))}
  IN /\ \A ctx \in whole : Cardinality(Of(p[ctx])) = 1
     /\ \A ctx \in DOMAIN p \ whole : Cardinality(Of(p[ctx])) <= 2
     /\ UNION {Of(p[ctx]) : ctx \in DOMAIN p} = Of(last)
     /\ \A row \in Picks(p), a, b \in whole :
          Ordered(p, a, b, row) <=>
            a = b \/ \E m \in Of(p[a]), n \in Of(p[b]) : Chronological(m, n)

\* The axes of a chart reach around all its points, unless one is negative:
\* below zero the least value is rounded towards zero, away from the points.
AxesReachPoints ==
  LET p == Points(_search2(rows))
  IN \A row \in Picks(p), ctx \in DOMAIN p :
       /\ Average(p[ctx]) <= 10 * AxisMax(Highest(p, row))
       /\ Lowest(p, row) >= 0 =>
            Average(p[ctx]) >= 10 * AxisMin(Lowest(p, row))
=============================================================================
