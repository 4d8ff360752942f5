-------------------------------- MODULE Cron --------------------------------
(***************************************************************************)
(* Five-field cron expressions, as src/gpu_watcher/cron.py reads and       *)
(* matches them.  An expression maps each field to the set of the parts of *)
(* its comma list; a part is "*", a range or a single value, with or       *)
(* without a "/" step.  Names (jan, mon) and the @ aliases stand for       *)
(* numbers and expressions and are not told apart from them here; a list   *)
(* does not repeat a part.                                                 *)
(***************************************************************************)
EXTENDS Integers, FiniteSets

CronField == {"minute", "hour", "day", "month", "weekday"}

NoStep == 0 - 1   \* no "/" in the part

CronPart ==
  [kind : {"any", "range", "value"}, first : Nat, last : Nat,
   step : Nat \cup {NoStep}]

CronExpr == [CronField -> SUBSET CronPart]

Any == [kind |-> "any", first |-> 0, last |-> 0, step |-> NoStep]

AnyEvery(k) == [Any EXCEPT !.step = k]

Value(v) == [kind |-> "value", first |-> v, last |-> v, step |-> NoStep]

Values(a, b) == [kind |-> "range", first |-> a, last |-> b, step |-> NoStep]

ValuesEvery(a, b, k) == [Values(a, b) EXCEPT !.step = k]

Lowest == [minute |-> 0, hour |-> 0, day |-> 1, month |-> 1, weekday |-> 0]

Highest == [minute |-> 59, hour |-> 23, day |-> 31, month |-> 12, weekday |-> 7]

-----------------------------------------------------------------------------
(* _parse_field and _parse_value *)

InBounds(f, v) == Lowest[f] <= v /\ v <= Highest[f]

PartAccepted(f, p) ==
  /\ p.step # 0
  /\ p.kind # "any" => InBounds(f, p.first) /\ InBounds(f, p.last)
  /\ p.kind = "range" => p.first <= p.last
  /\ p.kind = "value" => p.step = NoStep

(* Mutant: a weekday range keeps its 7. *)
PartValuesUnfolded(f, p) ==
  LET first == IF p.kind = "any" THEN Lowest[f] ELSE p.first
      last  == IF p.kind = "any" THEN Highest[f] ELSE p.last
      step  == IF p.step = NoStep THEN 1 ELSE p.step
      taken == {v \in first .. last : (v - first) % step = 0}
  IN  IF f = "weekday" /\ p.kind = "value" THEN {v % 7 : v \in taken} ELSE taken

PartValues(f, p) ==
  LET first == IF p.kind = "any" THEN Lowest[f] ELSE p.first
      last  == IF p.kind = "any" THEN Highest[f] ELSE p.last
      step  == IF p.step = NoStep THEN 1 ELSE p.step
      taken == {v \in first .. last : (v - first) % step = 0}
  IN  IF f = "weekday" THEN {v % 7 : v \in taken} ELSE taken

FieldValues(f, parts) == UNION {PartValues(f, p) : p \in parts}

(* CronExpression.parse raises ValueError for any other expression. *)
Accepted(e) ==
  \A f \in CronField : e[f] # {} /\ \A p \in e[f] : PartAccepted(f, p)

(* CronExpression.matches *)
Matches(e, moment) ==
  LET in(f) == moment[f] \in FieldValues(f, e[f])
      day   == IF e["day"] = {Any} \/ e["weekday"] = {Any}
               THEN in("day") /\ in("weekday")
               ELSE in("day") \/ in("weekday")
  IN  in("minute") /\ in("hour") /\ in("month") /\ day

-----------------------------------------------------------------------------
(***************************************************************************)
(* What the class promises in its docstring and comments, said without its *)
(* sets: a part means the numbers that its step reaches from its first     *)
(* one; Sunday is both 0 and 7; when both day fields are restricted either *)
(* is enough.                                                              *)
(***************************************************************************)
Reaches(f, p, v) ==
  LET first == IF p.kind = "any" THEN Lowest[f] ELSE p.first
      last  == IF p.kind = "any" THEN Highest[f] ELSE p.last
      step  == IF p.step = NoStep THEN 1 ELSE p.step
  IN  \E k \in 0 .. 60 : first + k * step <= last /\ first + k * step = v

Means(e, moment) ==
  LET fits(f, v)    == \E p \in e[f] : Reaches(f, p, v)
      weekday       == \/ fits("weekday", moment["weekday"])
                       \/ moment["weekday"] = 0 /\ fits("weekday", 7)
      restricted(f) == e[f] # {Any}
  IN  /\ fits("minute", moment["minute"])
      /\ fits("hour", moment["hour"])
      /\ fits("month", moment["month"])
      /\ restricted("day") =>
           fits("day", moment["day"]) \/ (restricted("weekday") /\ weekday)
      /\ restricted("weekday") =>
           weekday \/ (restricted("day") /\ fits("day", moment["day"]))

-----------------------------------------------------------------------------
(* Civil time: the minutes of 2026, counted from its first midnight *)

MonthLengths == <<31, 28, 31, 30, 31, 30, 31, 31, 30, 31, 30, 31>>

DaysBefore[m \in 1 .. 12] ==
  IF m = 1 THEN 0 ELSE DaysBefore[m - 1] + MonthLengths[m - 1]

MinutesPerDay == 24 * 60

Civil(n) ==
  LET days  == n \div MinutesPerDay
      month == CHOOSE m \in 1 .. 12 : /\ DaysBefore[m] <= days
                                      /\ days < DaysBefore[m] + MonthLengths[m]
  IN  [minute  |-> n % 60,
       hour    |-> (n \div 60) % 24,
       day     |-> days - DaysBefore[month] + 1,
       month   |-> month,
       weekday |-> (days + 4) % 7]     \* 1 January 2026 is a Thursday
=============================================================================
