--------------------------- MODULE SchedulesProofs ---------------------------
(***************************************************************************)
(* Proofs about cron expressions and schedules, for every accepted         *)
(* expression, any time zones, tasks, edits, faults and restarts.          *)
(***************************************************************************)
EXTENDS Schedules, TLAPS

(* What CronExpression.matches is asked with: the fields of a local time *)
Moment(m) ==
  /\ m["day"] \in 1 .. 31
  /\ m["weekday"] \in 0 .. 6

(* The bounds of a part with "*" written out, and its step *)
First(f, p) == IF p.kind = "any" THEN Lowest[f] ELSE p.first

Last(f, p) == IF p.kind = "any" THEN Highest[f] ELSE p.last

Step1(p) == IF p.step = NoStep THEN 1 ELSE p.step

-----------------------------------------------------------------------------
(* Cron expressions *)

(* The numbers every step-th of a range, by their rest and by their count *)
OnStep(first, last, step, v) == v \in first .. last /\ (v - first) % step = 0

AfterSteps(first, last, step, v) ==
  \E k \in 0 .. 60 : first + k * step <= last /\ first + k * step = v

LEMMA StepsReach ==
  ASSUME NEW first \in Nat, NEW last \in Nat, last <= first + 59,
         NEW step \in Nat \ {0}, NEW v
  PROVE  OnStep(first, last, step, v) <=> AfterSteps(first, last, step, v)
<1> USE DEF OnStep, AfterSteps
<1>1. ASSUME v \in first .. last, (v - first) % step = 0
      PROVE  \E k \in 0 .. 60 : first + k * step <= last /\ first + k * step = v
  <2> DEFINE a == v - first
             k == a \div step
  <2>1. a \in 0 .. 59 /\ v = first + a /\ v <= last
    BY <1>1
  <2>2. a % step = 0
    BY <1>1
  <2> HIDE DEF a
  <2>3. a = step * k /\ k \in Nat
    BY <2>1, <2>2
  <2> HIDE DEF k
  <2>4. k <= a
    BY <2>1, <2>3
  <2>5. k \in 0 .. 60 /\ first + k * step = v
    BY <2>1, <2>3, <2>4
  <2> QED
    BY <2>1, <2>5
<1>2. ASSUME NEW k \in 0 .. 60, first + k * step <= last, first + k * step = v
      PROVE  v \in first .. last /\ (v - first) % step = 0
  <2>1. k * step \in Nat
    OBVIOUS
  <2>2. v - first = k * step /\ v \in first .. last
    BY <1>2, <2>1
  <2>3. (k * step) % step = 0
    OBVIOUS
  <2> QED
    BY <2>2, <2>3
<1> QED
  BY <1>1, <1>2

(* An accepted part stays within the bounds of its field. *)
LEMMA PartBounded ==
  ASSUME NEW f \in CronField, NEW p \in CronPart, PartAccepted(f, p)
  PROVE  /\ First(f, p) \in Nat /\ Last(f, p) \in Nat /\ Step1(p) \in Nat \ {0}
         /\ Last(f, p) <= First(f, p) + 59
         /\ f = "weekday" => Last(f, p) <= 7
<1>1. f \in {"minute", "hour", "day", "month", "weekday"}
  BY DEF CronField
<1>2. /\ Lowest[f] \in Nat /\ Highest[f] \in Nat
      /\ Highest[f] <= Lowest[f] + 59
      /\ f = "weekday" => Highest[f] = 7
  BY <1>1 DEF Lowest, Highest
<1>3. p.kind \in {"any", "range", "value"} /\ p.first \in Nat /\ p.last \in Nat
      /\ p.step \in Nat \cup {0 - 1}
  BY DEF CronPart, NoStep
<1>4. Step1(p) \in Nat \ {0}
  BY <1>3 DEF Step1, PartAccepted, NoStep
<1>5. CASE p.kind = "any"
  BY <1>2, <1>4, <1>5 DEF First, Last
<1>6. CASE p.kind # "any"
  BY <1>2, <1>3, <1>4, <1>6 DEF First, Last, PartAccepted, InBounds
<1> QED
  BY <1>5, <1>6

(* The set computed for a part holds the numbers the part means. *)
LEMMA PartValuesMeant ==
  ASSUME NEW f \in CronField, NEW p \in CronPart, PartAccepted(f, p), NEW v
  PROVE  /\ f # "weekday" => (v \in PartValues(f, p) <=> Reaches(f, p, v))
         /\ f = "weekday" /\ v \in 0 .. 6
              => (v \in PartValues(f, p)
                    <=> Reaches(f, p, v) \/ (v = 0 /\ Reaches(f, p, 7)))
<1> DEFINE first == First(f, p)
           last  == Last(f, p)
           step  == Step1(p)
           taken == {u \in first .. last : (u - first) % step = 0}
<1>1. /\ first \in Nat /\ last \in Nat /\ step \in Nat \ {0} /\ last <= first + 59
      /\ f = "weekday" => last <= 7
  BY PartBounded
<1>2. \A u : Reaches(f, p, u)
               <=> \E k \in 0 .. 60 : first + k * step <= last /\ first + k * step = u
  BY DEF Reaches, First, Last, Step1
<1>3. PartValues(f, p) = IF f = "weekday" THEN {u % 7 : u \in taken} ELSE taken
  BY DEF PartValues, First, Last, Step1
<1> HIDE DEF first, last, step
<1>4. \A u : u \in taken <=> Reaches(f, p, u)
  <2>1. SUFFICES ASSUME NEW u PROVE u \in taken <=> Reaches(f, p, u)
    OBVIOUS
  <2>2. u \in taken <=> OnStep(first, last, step, u)
    BY DEF OnStep
  <2>3. OnStep(first, last, step, u) <=> AfterSteps(first, last, step, u)
    BY <1>1, StepsReach
  <2>4. Reaches(f, p, u) <=> AfterSteps(first, last, step, u)
    BY <1>2 DEF AfterSteps
  <2> QED
    BY <2>2, <2>3, <2>4
<1>5. ASSUME f = "weekday", v \in 0 .. 6
      PROVE  v \in {u % 7 : u \in taken} <=> v \in taken \/ (v = 0 /\ 7 \in taken)
  <2>1. \A u \in taken : u \in 0 .. 7
    BY <1>1, <1>5
  <2> HIDE DEF taken
  <2>2. \A u \in 0 .. 7 : u % 7 = IF u = 7 THEN 0 ELSE u
    OBVIOUS
  <2> QED
    BY <1>5, <2>1, <2>2
<1> HIDE DEF taken
<1> QED
  BY <1>3, <1>4, <1>5

(* "*" means every number of its field. *)
LEMMA AnyMeansAll ==
  ASSUME NEW f \in CronField, NEW v \in Lowest[f] .. Highest[f]
  PROVE  Reaches(f, Any, v)
<1>1. /\ Lowest[f] \in Nat /\ Highest[f] \in Nat
      /\ Highest[f] <= Lowest[f] + 59
  BY DEF Lowest, Highest, CronField
<1>2. Any.kind = "any" /\ Any.step = NoStep
  BY DEF Any
<1>3. v - Lowest[f] \in 0 .. 60 /\ Lowest[f] + (v - Lowest[f]) * 1 = v
  BY <1>1
<1>4. v <= Highest[f]
  BY <1>1
<1> QED
  BY <1>2, <1>3, <1>4 DEF Reaches

(***************************************************************************)
(* CronExpression.matches computes what the class promises: the sets built *)
(* from ranges, steps and lists, the two names of Sunday and the rule for  *)
(* the two day fields mean what the docstring says, for every expression   *)
(* that parse accepts and every local time.                                *)
(***************************************************************************)
THEOREM CronMatchesAsMeant ==
  ASSUME NEW e \in CronExpr, Accepted(e), NEW m, Moment(m)
  PROVE  Matches(e, m) <=> Means(e, m)
<1> DEFINE in(f)      == m[f] \in FieldValues(f, e[f])
           fits(f, v) == \E p \in e[f] : Reaches(f, p, v)
           weekday    == \/ fits("weekday", m["weekday"])
                         \/ m["weekday"] = 0 /\ fits("weekday", 7)
<1>1. \A f \in CronField : \A p \in e[f] : p \in CronPart /\ PartAccepted(f, p)
  BY DEF CronExpr, Accepted
<1>2. \A f \in {"minute", "hour", "day", "month"} :
        f \in CronField /\ f # "weekday"
  BY DEF CronField
<1>3. \A f \in {"minute", "hour", "day", "month"} : in(f) <=> fits(f, m[f])
  BY <1>1, <1>2, PartValuesMeant DEF FieldValues
<1>4. in("weekday") <=> weekday
  <2>1. "weekday" \in CronField /\ m["weekday"] \in 0 .. 6
    BY DEF CronField, Moment
  <2> QED
    BY <1>1, <2>1, PartValuesMeant DEF FieldValues
<1>5. e["day"] = {Any} => fits("day", m["day"])
  <2>1. "day" \in CronField /\ m["day"] \in Lowest["day"] .. Highest["day"]
    BY DEF CronField, Moment, Lowest, Highest
  <2> QED
    BY <2>1, AnyMeansAll
<1>6. e["weekday"] = {Any} => weekday
  <2>1. "weekday" \in CronField /\ m["weekday"] \in Lowest["weekday"] .. Highest["weekday"]
    BY DEF CronField, Moment, Lowest, Highest
  <2> QED
    BY <2>1, AnyMeansAll
<1>7. Matches(e, m) <=>
        /\ in("minute") /\ in("hour") /\ in("month")
        /\ IF e["day"] = {Any} \/ e["weekday"] = {Any}
           THEN in("day") /\ in("weekday")
           ELSE in("day") \/ in("weekday")
  BY DEF Matches
<1>8. Means(e, m) <=>
        /\ fits("minute", m["minute"]) /\ fits("hour", m["hour"])
        /\ fits("month", m["month"])
        /\ e["day"] # {Any} =>
             fits("day", m["day"]) \/ (e["weekday"] # {Any} /\ weekday)
        /\ e["weekday"] # {Any} =>
             weekday \/ (e["day"] # {Any} /\ fits("day", m["day"]))
  BY DEF Means
<1> HIDE DEF in, fits, weekday
<1> QED
  BY <1>3, <1>4, <1>5, <1>6, <1>7, <1>8

-----------------------------------------------------------------------------
(* Civil time *)

(* The days before each month, as the recursion counts them *)
LEMMA DaysCounted ==
  /\ DaysBefore[1] = 0 /\ DaysBefore[2] = 31 /\ DaysBefore[3] = 59
  /\ DaysBefore[4] = 90 /\ DaysBefore[5] = 120 /\ DaysBefore[6] = 151
  /\ DaysBefore[7] = 181 /\ DaysBefore[8] = 212 /\ DaysBefore[9] = 243
  /\ DaysBefore[10] = 273 /\ DaysBefore[11] = 304 /\ DaysBefore[12] = 334
<1> DEFINE counts(d) == d = [m \in 1 .. 12 |-> IF m = 1 THEN 0
                                               ELSE d[m - 1] + MonthLengths[m - 1]]
           days == <<0, 31, 59, 90, 120, 151, 181, 212, 243, 273, 304, 334>>
           list == [m \in 1 .. 12 |-> days[m]]
<1>1. counts(list)
  <2>1. \A m \in 1 .. 12 :
          list[m] = IF m = 1 THEN 0 ELSE list[m - 1] + MonthLengths[m - 1]
    BY DEF MonthLengths
  <2> QED
    BY <2>1
<1>2. DaysBefore = CHOOSE d : counts(d)
  BY DEF DaysBefore
<1>3. counts(DaysBefore)
  <2> HIDE DEF counts
  <2> QED
    BY <1>1, <1>2
<1>4. \A m \in 1 .. 12 :
        DaysBefore[m] = IF m = 1 THEN 0 ELSE DaysBefore[m - 1] + MonthLengths[m - 1]
  BY <1>3
<1> QED
  BY <1>4 DEF MonthLengths

InMonth(d, m) == DaysBefore[m] <= d /\ d < DaysBefore[m] + MonthLengths[m]

MonthOf(d) == CHOOSE m \in 1 .. 12 : InMonth(d, m)

(* Every day of the year is in a month. *)
LEMMA MonthFound ==
  ASSUME NEW d \in 0 .. 364
  PROVE  /\ MonthOf(d) \in 1 .. 12
         /\ d - DaysBefore[MonthOf(d)] + 1 \in 1 .. 31
<1>1. /\ MonthLengths[1] = 31 /\ MonthLengths[2] = 28 /\ MonthLengths[3] = 31
      /\ MonthLengths[4] = 30 /\ MonthLengths[5] = 31 /\ MonthLengths[6] = 30
      /\ MonthLengths[7] = 31 /\ MonthLengths[8] = 31 /\ MonthLengths[9] = 30
      /\ MonthLengths[10] = 31 /\ MonthLengths[11] = 30 /\ MonthLengths[12] = 31
  BY DEF MonthLengths
<1>2. \A m \in 1 .. 12 : MonthLengths[m] \in 28 .. 31 /\ DaysBefore[m] \in Nat
  <2>1. SUFFICES ASSUME NEW m \in 1 .. 12
                 PROVE  MonthLengths[m] \in 28 .. 31 /\ DaysBefore[m] \in Nat
    OBVIOUS
  <2>2. m \in {1, 2, 3, 4, 5, 6, 7, 8, 9, 10, 11, 12}
    OBVIOUS
  <2> QED
    BY <1>1, <2>2, DaysCounted
<1>3. \E m \in 1 .. 12 : InMonth(d, m)
  <2>1. \E m \in {1, 2, 3, 4, 5, 6, 7, 8, 9, 10, 11, 12} : InMonth(d, m)
    BY <1>1, DaysCounted DEF InMonth
  <2> QED
    BY <2>1
<1>4. MonthOf(d) \in 1 .. 12 /\ InMonth(d, MonthOf(d))
  BY <1>3 DEF MonthOf
<1> QED
  BY <1>2, <1>4 DEF InMonth

LEMMA DaysHaveMinutes == MinutesPerDay \in Nat \ {0}
<1>1. 24 * 60 \in Nat /\ 24 * 60 # 0
  OBVIOUS
<1> QED
  BY <1>1 DEF MinutesPerDay

LEMMA DayOfYear ==
  ASSUME NEW m \in Nat \ {0}, NEW n \in 0 .. 365 * m - 1
  PROVE  n \div m \in 0 .. 364
<1>1. PICK d \in Int : d = n \div m
  OBVIOUS
<1>2. m * d <= n /\ n < m * d + m
  BY <1>1
<1>3. d >= 0
  BY <1>2
<1>4. d < 365
  BY <1>2
<1> QED
  BY <1>1, <1>3, <1>4

(* A minute of 2026 has a day of the month and a day of the week. *)
LEMMA CivilIsMoment ==
  ASSUME NEW n \in 0 .. 365 * MinutesPerDay - 1
  PROVE  Moment(Civil(n))
<1>1. n \div MinutesPerDay \in 0 .. 364
  BY DaysHaveMinutes, DayOfYear
<1>2. PICK d \in 0 .. 364 : d = n \div MinutesPerDay
  BY <1>1
<1>3. Civil(n)["day"] = d - DaysBefore[MonthOf(d)] + 1
  BY <1>2 DEF Civil, MonthOf, InMonth
<1>4. Civil(n)["weekday"] = (d + 4) % 7
  BY <1>2 DEF Civil
<1>5. (d + 4) % 7 \in 0 .. 6
  OBVIOUS
<1>6. d - DaysBefore[MonthOf(d)] + 1 \in 1 .. 31
  BY MonthFound
<1> QED
  BY <1>3, <1>4, <1>5, <1>6 DEF Moment

-----------------------------------------------------------------------------
(* What a schedule relies on from step to step *)

Phase == {"idle", "apply", "start", "starting", "stop", "killing", "pausing"}

TickRecord ==
  [phase : Phase, now : Minutes \cup {None}, todo : SUBSET Task,
   task  : Task \cup {None}, host : Worker \cup {None}]

CallRecord ==
  [op   : {"none", "dispatch", "pause", "cancel"},
   task : Task \cup {None}, host : Worker \cup {None}]

ScheduleTyped ==
  /\ rows \in [Task -> Row]
  /\ plan \in [Task -> Plans]
  /\ claimed \in [Task -> [Trigger -> Minutes \cup {None}]]
  /\ fired \in [Task -> [Trigger -> SUBSET Minutes]]
  /\ clock \in Minutes
  /\ tick \in TickRecord
  /\ call \in CallRecord
  /\ HostTyped

(* What runs has a worker, and the threads know what they have in hand. *)
HandsKnown ==
  /\ \A t \in Task : rows[t].status = "running" => rows[t].worker \in Worker
  /\ tick.phase # "idle" => tick.now \in Minutes /\ tick.now <= clock
  /\ tick.phase \notin {"idle", "apply"} => tick.task \in Task
  /\ tick.phase = "killing" => tick.host \in Worker
  /\ call.op # "none" => call.task \in Task

(* A scheduled stop kills where the row says, and pauses nothing that lives. *)
StopIsSafe ==
  tick.phase \in {"killing", "pausing"} /\ rows[tick.task].status = "running" =>
    /\ tick.phase = "killing" => rows[tick.task].worker = tick.host
    /\ tick.phase = "pausing" => sess[rows[tick.task].worker][tick.task] # "live"

(* The last minute that can have been claimed *)
Latest == IF tick.phase = "idle" THEN clock ELSE tick.now

(* The claimed minute is the last of those fired. *)
ClaimIsLast ==
  \A t \in Task, k \in Trigger :
    /\ claimed[t][k] # None => claimed[t][k] \in fired[t][k]
    /\ \A n \in fired[t][k] :
         claimed[t][k] # None /\ n <= claimed[t][k] /\ n <= Latest

(* What fired was due, by the schedule the task still has. *)
FiredWasDue ==
  \A t \in Task :
    /\ \A n \in fired[t]["stop"] : IsDue(t, "stop", n)
    /\ \A n \in fired[t]["start"] : IsDue(t, "start", n) /\ ~IsDue(t, "stop", n)

(* Of the tasks this tick is through with, all that was due has fired. *)
VisitedFired ==
  tick.phase # "idle" =>
    \A t \in Scheduled \ tick.todo :
      /\ IsDue(t, "stop", tick.now) => tick.now \in fired[t]["stop"]
      /\ IsDue(t, "start", tick.now) /\ ~IsDue(t, "stop", tick.now)
           => tick.now \in fired[t]["start"]

ScheduleInv ==
  /\ ScheduleTyped /\ HandsKnown /\ StopIsSafe
  /\ ClaimIsLast /\ FiredWasDue /\ VisitedFired

-----------------------------------------------------------------------------
(* Rows *)

RowFine(r) == r \in Row /\ (r.status = "running" => r.worker \in Worker)

LEMMA StatementsStayFine ==
  ASSUME NEW r, RowFine(r), NEW o \in Option, NEW flag, NEW code \in ExitCode,
         NEW q \in {UpdateTask(r, o), FinishTask(r, code), FailTask(r),
                    RequeueTask(r), StartTask(r), PauseTask(r, flag),
                    RerunTask(r), CancelTask(r)}
  PROVE  /\ RowFine(q)
         /\ q.status = "running" => r.status = "running" /\ q.worker = r.worker
<1> USE DEF RowFine
<1>1. CASE q = UpdateTask(r, o)
  <2>1. Normalized(o) \in Option
    BY DEF Normalized, Option
  <2> QED
    BY <1>1, <2>1 DEF UpdateTask, Row
<1>2. CASE q = FailTask(r)
  BY <1>2 DEF FailTask, Row, Status, Final
<1>8. CASE q = CancelTask(r)
  BY <1>8 DEF CancelTask, Row, Status, Final
<1>3. CASE q = RequeueTask(r)
  BY <1>3 DEF RequeueTask, Unplaced, Row, Status, Final
<1>6. CASE q = RerunTask(r)
  BY <1>6 DEF RerunTask, Unplaced, Row, Status, Final
<1>7. CASE q = FinishTask(r, code)
  <2>1. (IF code = 0 THEN "succeeded" ELSE "failed") \in {"succeeded", "failed"}
    OBVIOUS
  <2> QED
    BY <1>7, <2>1 DEF FinishTask, Row, Status, Final
<1>4. CASE q = StartTask(r)
  BY <1>4 DEF StartTask, Row, Status, Final
<1>5. CASE q = PauseTask(r, flag)
  BY <1>5 DEF PauseTask, Unplaced, Row, Status, Final
<1> QED
  BY <1>1, <1>2, <1>3, <1>4, <1>5, <1>6, <1>7, <1>8

LEMMA LaunchedStaysFine ==
  ASSUME NEW r, RowFine(r), NEW w \in Worker, NEW G \in SUBSET Gpu
  PROVE  RowFine(MarkRunning(r, w, G))
BY DEF RowFine, MarkRunning, Row, Status

LEMMA OptionsForTyped ==
  ASSUME NEW o \in Option, NEW p
  PROVE  OptionsFor(o, p) \in Option
BY DEF OptionsFor, Option, Kinds, Trigger

RowsFine == rows \in [Task -> Row] /\ \A t \in Task : RowFine(rows[t])

LEMMA TypedRowsFine ==
  ASSUME ScheduleTyped, HandsKnown
  PROVE  RowsFine
BY DEF RowsFine, RowFine, ScheduleTyped, HandsKnown

(* No task runs that did not, or runs elsewhere than it did. *)
NothingStarts ==
  \A t \in Task : rows'[t].status = "running"
                    => rows[t].status = "running" /\ rows'[t].worker = rows[t].worker

(* One statement on one row keeps the rows typed and starts nothing. *)
LEMMA OneStatement ==
  ASSUME RowsFine, NEW t \in Task, NEW o \in Option, NEW flag, NEW code \in ExitCode,
         NEW q \in {UpdateTask(rows[t], o), FinishTask(rows[t], code),
                    FailTask(rows[t]), RequeueTask(rows[t]), StartTask(rows[t]),
                    PauseTask(rows[t], flag), RerunTask(rows[t]),
                    CancelTask(rows[t])},
         SetRow(t, q)
  PROVE  RowsFine' /\ NothingStarts
<1>1. /\ RowFine(q)
      /\ q.status = "running"
           => rows[t].status = "running" /\ q.worker = rows[t].worker
  <2>1. RowFine(rows[t])
    BY DEF RowsFine
  <2> QED
    BY <2>1, StatementsStayFine
<1>2. rows' = [rows EXCEPT ![t] = q]
  BY DEF SetRow
<1>3. q \in Row
  BY <1>1 DEF RowFine
<1> QED
  BY <1>1, <1>2, <1>3 DEF RowsFine, NothingStarts

LEMMA RefreshedFine ==
  ASSUME ScheduleTyped, HandsKnown, NEW t \in Task
  PROVE  RowFine(Refreshed(t))
<1>1. RowFine(rows[t])
  BY TypedRowsFine DEF RowsFine
<1>2. rows[t].status = "running"
        => exitFile[rows[t].worker][t] \in ExitCode \cup {None}
  BY <1>1 DEF RowFine, ScheduleTyped, HostTyped
<1>3. ASSUME NEW code \in ExitCode
      PROVE  /\ RowFine(FinishTask(rows[t], code)) /\ RowFine(RequeueTask(rows[t]))
             /\ RowFine(FailTask(rows[t]))
  <2>1. PICK o : o \in Option
    <3>1. [priority |-> 0, gpus |-> 1, preemptible |-> FALSE,
           allow_preempt |-> FALSE, background |-> FALSE, elastic |-> FALSE,
           waits |-> FALSE, target |-> None, schedule |-> {}] \in Option
      BY DEF Option
    <3> QED
      BY <3>1
  <2> QED
    BY <1>1, <1>3, <2>1, StatementsStayFine
<1>4. 0 \in ExitCode
  BY DEF ExitCode
<1> QED
  BY <1>1, <1>2, <1>3, <1>4 DEF Refreshed

LEMMA DispatchTyped ==
  ASSUME ScheduleTyped, NEW after, after \in [Task -> Row],
         \A t \in Task : RowFine(after[t]),
         NEW started \in SUBSET Task, Dispatch(after, started)
  PROVE  /\ RowsFine'
         /\ sess' \in [Worker -> [Task -> SessionState]]
         /\ exitFile' \in [Worker -> [Task -> ExitCode \cup {None}]]
<1>1. PICK place \in [started -> Worker \X Gpu] :
        /\ rows' = [t \in Task |->
                      IF t \in started
                      THEN MarkRunning(after[t], place[t][1], {place[t][2]})
                      ELSE after[t]]
        /\ sess' = [w \in Worker |-> [t \in Task |->
                      IF t \in started /\ place[t][1] = w THEN "live"
                                                          ELSE sess[w][t]]]
        /\ exitFile' = [w \in Worker |-> [t \in Task |->
                      IF t \in started /\ place[t][1] = w THEN None
                                                          ELSE exitFile[w][t]]]
  BY DEF Dispatch
<1>2. ASSUME NEW t \in Task
      PROVE  RowFine(rows'[t])
  <2>1. t \in started => RowFine(MarkRunning(after[t], place[t][1], {place[t][2]}))
    BY <1>1, LaunchedStaysFine
  <2> QED
    BY <1>1, <2>1
<1>3. rows' \in [Task -> Row]
  BY <1>1, <1>2 DEF RowFine
<1>4. sess' \in [Worker -> [Task -> SessionState]]
  BY <1>1 DEF ScheduleTyped, HostTyped, SessionState
<1>5. exitFile' \in [Worker -> [Task -> ExitCode \cup {None}]]
  BY <1>1 DEF ScheduleTyped, HostTyped
<1> QED
  BY <1>2, <1>3, <1>4, <1>5 DEF RowsFine

(* The steps that launch tasks, and all the others *)
Launching == RefreshAndDispatch \/ CallDispatches

LEMMA RowsAfterLaunching ==
  ASSUME ScheduleTyped, HandsKnown, Launching
  PROVE  /\ RowsFine'
         /\ sess' \in [Worker -> [Task -> SessionState]]
         /\ exitFile' \in [Worker -> [Task -> ExitCode \cup {None}]]
<1>1. CASE RefreshAndDispatch
  <2> DEFINE after == [t \in Task |-> Refreshed(t)]
  <2>1. after \in [Task -> Row] /\ \A t \in Task : RowFine(after[t])
    BY RefreshedFine DEF RowFine
  <2>2. PICK started \in SUBSET Task : Dispatch(after, started)
    BY <1>1 DEF RefreshAndDispatch
  <2> HIDE DEF after
  <2> QED
    BY <2>1, <2>2, DispatchTyped
<1>2. CASE CallDispatches
  <2>1. PICK started \in SUBSET Task : Dispatch(rows, started)
    BY <1>2 DEF CallDispatches
  <2>2. rows \in [Task -> Row] /\ \A t \in Task : RowFine(rows[t])
    BY TypedRowsFine DEF RowsFine
  <2> QED
    BY <2>1, <2>2, DispatchTyped
<1> QED
  BY <1>1, <1>2 DEF Launching

LEMMA OtherStepsStartNothing ==
  ASSUME ScheduleTyped, HandsKnown, [Next]_vars, ~Launching
  PROVE  RowsFine' /\ NothingStarts
<1>1. RowsFine
  BY TypedRowsFine
<1>2. PICK o \in Option, code \in ExitCode : TRUE
  <2>1. [priority |-> 0, gpus |-> 1, preemptible |-> FALSE,
         allow_preempt |-> FALSE, background |-> FALSE, elastic |-> FALSE,
         waits |-> FALSE, target |-> None, schedule |-> {}] \in Option
    BY DEF Option
  <2> QED
    BY <2>1 DEF ExitCode
<1>3. CASE ScheduledStartStarts \/ ScheduledStopPauses
  <2>1. tick.task \in Task
    BY <1>3 DEF HandsKnown, ScheduledStartStarts, ScheduledStopPauses
  <2>2. \E q \in {StartTask(rows[tick.task]), PauseTask(rows[tick.task], FALSE)} :
          SetRow(tick.task, q)
    BY <1>3 DEF ScheduledStartStarts, ScheduledStopPauses
  <2> QED
    BY <1>1, <1>2, <2>1, <2>2, OneStatement
<1>4. CASE \E t \in Task : Edit(t)
  <2>1. PICK t \in Task : Edit(t)
    BY <1>4
  <2>2. PICK u \in Submissions[t], p \in Asked[t] :
          SetRow(t, UpdateTask(rows[t], OptionsFor(u, p)))
    BY <2>1 DEF Edit
  <2>3. OptionsFor(u, p) \in Option
    BY <2>2, OptionsForTyped, SubmissionsAssumption
  <2> QED
    BY <1>1, <1>2, <2>2, <2>3, OneStatement
<1>5. CASE \E t \in Task : CallQueues(t)
  <2>1. PICK t \in Task : \E q \in {StartTask(rows[t]), RerunTask(rows[t])} :
                           SetRow(t, q)
    BY <1>5 DEF CallQueues
  <2> QED
    BY <1>1, <1>2, <2>1, OneStatement
<1>6. CASE CallUpdates
  <2>1. call.task \in Task
    BY <1>6 DEF HandsKnown, CallUpdates
  <2>2. \E q \in {PauseTask(rows[call.task], TRUE), CancelTask(rows[call.task])} :
          SetRow(call.task, q)
    BY <1>6 DEF CallUpdates
  <2> QED
    BY <1>1, <1>2, <2>1, <2>2, OneStatement
<1>7. CASE UNCHANGED rows
  BY <1>1, <1>7 DEF RowsFine, NothingStarts
<1> QED
  BY <1>3, <1>4, <1>5, <1>6, <1>7
  DEF Next, TickStep, Launching, TickBegins, ApplyStop, ApplyStart, ApplyNothing,
      ScheduledStartReads, ScheduledStopReads, ScheduledStopKills,
      ScheduledStopKillRaises, TickRaises, Restart, CallReads, CallKills,
      ClockAdvances, HostActs, vars

-----------------------------------------------------------------------------
(* The worker hosts *)

(* No session that did not live does. *)
NothingRevives ==
  \A w \in Worker, t \in Task : sess'[w][t] = "live" => sess[w][t] = "live"

LEMMA SetSessionTyped ==
  ASSUME sess \in [Worker -> [Task -> SessionState]],
         NEW w \in Worker, NEW t \in Task, NEW state \in {"closing", "none"},
         SetSession(w, t, state)
  PROVE  sess' \in [Worker -> [Task -> SessionState]] /\ NothingRevives
<1>1. state \in SessionState /\ state # "live"
  BY DEF SessionState
<1>2. sess' = [sess EXCEPT ![w] = [sess[w] EXCEPT ![t] = state]]
  BY DEF SetSession
<1>3. sess' \in [Worker -> [Task -> SessionState]]
  BY <1>1, <1>2
<1>4. \A v \in Worker, u \in Task :
        sess'[v][u] = IF v = w /\ u = t THEN state ELSE sess[v][u]
  BY <1>2
<1> QED
  BY <1>1, <1>3, <1>4 DEF NothingRevives

LEMMA KillsTyped ==
  ASSUME HostTyped, NEW w \in Worker, NEW t \in Task,
         KillSucceeds(w, t) \/ KillRaises(w, t)
  PROVE  HostTyped' /\ NothingRevives
<1> USE DEF HostTyped
<1>1. sess' = sess \/ SetSession(w, t, "none")
  BY DEF KillSucceeds, KillRaises
<1>2. sess' \in [Worker -> [Task -> SessionState]] /\ NothingRevives
  BY <1>1, SetSessionTyped DEF NothingRevives
<1>3. exitFile' = exitFile /\ faults' \in 0 .. MaxFaults
  BY MaxFaultsAssumption DEF KillSucceeds, KillRaises, Fault
<1> QED
  BY <1>2, <1>3

LEMMA HostStepTyped ==
  ASSUME HostTyped, HostStep
  PROVE  HostTyped' /\ NothingRevives
<1> USE DEF HostTyped
<1>1. PICK w \in Worker, t \in Task :
        CommandExits(w, t) \/ SessionCloses(w, t) \/ SessionLost(w, t)
  BY DEF HostStep
<1>2. \/ SetSession(w, t, "closing") /\ sess[w][t] = "live"
      \/ SetSession(w, t, "none")
  BY <1>1 DEF CommandExits, SessionCloses, SessionLost
<1>3. sess' \in [Worker -> [Task -> SessionState]] /\ NothingRevives
  BY <1>2, SetSessionTyped
<1>4. exitFile' \in [Worker -> [Task -> ExitCode \cup {None}]]
  BY <1>1 DEF CommandExits, SessionCloses, SessionLost, SetExitFile
<1>5. faults' \in 0 .. MaxFaults
  BY <1>1, MaxFaultsAssumption DEF CommandExits, SessionCloses, SessionLost, Fault
<1> QED
  BY <1>3, <1>4, <1>5

LEMMA OtherStepsReviveNothing ==
  ASSUME ScheduleTyped, HandsKnown, [Next]_vars, ~Launching
  PROVE  HostTyped' /\ NothingRevives
<1>1. HostTyped
  BY DEF ScheduleTyped
<1>2. CASE ScheduledStopKills \/ ScheduledStopKillRaises
  <2>1. tick.host \in Worker /\ tick.task \in Task
    BY <1>2 DEF HandsKnown, ScheduledStopKills, ScheduledStopKillRaises
  <2> QED
    BY <1>1, <1>2, <2>1, KillsTyped DEF ScheduledStopKills, ScheduledStopKillRaises
<1>3. CASE CallKills
  <2>1. call.host \in Worker /\ call.task \in Task
    BY <1>3 DEF HandsKnown, CallKills, ScheduleTyped, CallRecord
  <2> QED
    BY <1>1, <1>3, <2>1, KillsTyped DEF CallKills
<1>4. CASE HostActs
  BY <1>1, <1>4, HostStepTyped DEF HostActs
<1>5. CASE TickRaises \/ Restart
  BY <1>1, <1>5, MaxFaultsAssumption
  DEF TickRaises, Restart, ProbeRaises, Fault, HostTyped, NothingRevives
<1>6. CASE UNCHANGED hostVars
  BY <1>1, <1>6 DEF HostTyped, NothingRevives, hostVars
<1> QED
  BY <1>2, <1>3, <1>4, <1>5, <1>6
  DEF Next, TickStep, Launching, TickBegins, ApplyStop, ApplyStart, ApplyNothing,
      ScheduledStartReads, ScheduledStartStarts, ScheduledStopReads,
      ScheduledStopPauses, Edit, CallQueues, CallReads, CallUpdates,
      ClockAdvances, vars

LEMMA HostStaysTyped ==
  ASSUME ScheduleTyped, HandsKnown, [Next]_vars
  PROVE  RowsFine' /\ HostTyped'
<1>1. CASE Launching
  <2>1. faults' = faults
    BY <1>1 DEF Launching, RefreshAndDispatch, CallDispatches
  <2> QED
    BY <1>1, <2>1, RowsAfterLaunching DEF HostTyped, ScheduleTyped
<1>2. CASE ~Launching
  BY <1>2, OtherStepsStartNothing, OtherStepsReviveNothing
<1> QED
  BY <1>1, <1>2

-----------------------------------------------------------------------------
(* The tick, the claims and the clock *)

TickEnds == tick' = Idle /\ UNCHANGED <<plan, claimed, fired, clock>>

TickGoesOn ==
  /\ tick.phase # "idle" /\ tick'.phase # "idle"
  /\ tick'.now = tick.now /\ tick'.todo = tick.todo
  /\ tick'.phase \notin {"idle", "apply"} => tick.task \in Task /\ tick'.task = tick.task
  /\ tick'.phase = "killing" => tick'.host \in Worker
  /\ tick' \in TickRecord
  /\ UNCHANGED <<plan, claimed, fired, clock>>

Applies == \E t \in Task : ApplyStop(t) \/ ApplyStart(t) \/ ApplyNothing(t)

LEMMA TickSteps ==
  ASSUME ScheduleTyped, HandsKnown, [Next]_vars
  PROVE  \/ TickBegins \/ Applies \/ TickEnds \/ TickGoesOn
         \/ \E t \in Task : Edit(t)
         \/ ClockAdvances
         \/ UNCHANGED <<plan, claimed, fired, clock, tick>>
<1>1. tick \in TickRecord
  BY DEF ScheduleTyped
<1>2. CASE ScheduledStopReads
  <2>1. tick.phase = "stop" /\ tick.task \in Task
    BY <1>2 DEF ScheduledStopReads, HandsKnown
  <2>2. rows[tick.task].status = "running" => rows[tick.task].worker \in Worker
    BY <2>1 DEF HandsKnown
  <2>3. UNCHANGED <<plan, claimed, fired, clock>>
    BY <1>2 DEF ScheduledStopReads
  <2>4. CASE rows[tick.task].status = "running"
    BY <1>1, <1>2, <2>1, <2>2, <2>3, <2>4
    DEF ScheduledStopReads, TickGoesOn, TickRecord, Phase
  <2>5. CASE rows[tick.task].status # "running"
    BY <1>1, <1>2, <2>1, <2>3, <2>5
    DEF ScheduledStopReads, Goto, NextTask, TickGoesOn, TickRecord, Phase
  <2> QED
    BY <2>4, <2>5
<1>3. CASE ScheduledStartReads
  BY <1>1, <1>3 DEF HandsKnown, ScheduledStartReads, Goto, NextTask, TickGoesOn,
                    TickRecord, Phase
<1>4. CASE \/ ScheduledStartStarts \/ ScheduledStopPauses
           \/ ScheduledStopKillRaises
  BY <1>1, <1>4 DEF ScheduledStartStarts, ScheduledStopPauses,
       ScheduledStopKillRaises, NextTask, TickGoesOn, TickRecord, Phase
<1>5. CASE ScheduledStopKills
  BY <1>1, <1>5 DEF HandsKnown, ScheduledStopKills, Goto, TickGoesOn, TickRecord, Phase
<1>6. CASE RefreshAndDispatch \/ TickRaises \/ Restart
  BY <1>6 DEF RefreshAndDispatch, TickRaises, Restart, TickEnds
<1>7. CASE UNCHANGED <<plan, claimed, fired, clock, tick>>
  BY <1>7
<1> QED
  BY <1>2, <1>3, <1>4, <1>5, <1>6, <1>7
  DEF Next, TickStep, Applies, CallQueues, CallReads, CallDispatches, CallKills,
      CallUpdates, HostActs, vars

(* A step over one task of the loop: what it claims, what it hands on *)
AppliesTo(t) ==
  /\ tick.phase = "apply" /\ t \in tick.todo
  /\ tick' \in TickRecord
  /\ tick'.phase \in {"apply", "start", "stop"} /\ tick'.now = tick.now
  /\ tick'.todo = tick.todo \ {t}
  /\ tick'.phase \in {"start", "stop"} => tick'.task = t
  /\ UNCHANGED <<plan, clock>>

Claims(t, k) ==
  /\ IsDue(t, k, tick.now)
  /\ k = "start" => ~IsDue(t, "stop", tick.now)
  /\ IF claimed[t][k] # tick.now
     THEN /\ claimed' = [claimed EXCEPT ![t][k] = tick.now]
          /\ fired' = [fired EXCEPT ![t][k] = @ \cup {tick.now}]
          /\ tick'.phase = k
     ELSE UNCHANGED <<claimed, fired>> /\ tick'.phase = "apply"

ClaimsNothing(t) ==
  /\ \A k \in Trigger : ~IsDue(t, k, tick.now)
  /\ UNCHANGED <<claimed, fired>>
  /\ tick'.phase = "apply"

LEMMA ApplySteps ==
  ASSUME ScheduleTyped, HandsKnown, Applies
  PROVE  \E t \in Task :
           AppliesTo(t) /\ (ClaimsNothing(t) \/ \E k \in Trigger : Claims(t, k))
<1>1. PICK t \in Task : ApplyStop(t) \/ ApplyStart(t) \/ ApplyNothing(t)
  BY DEF Applies
<1>2. tick \in TickRecord /\ t \in tick.todo /\ tick.phase = "apply"
  BY <1>1 DEF ScheduleTyped, ApplyStop, ApplyStart, ApplyNothing
<1>3. \E k \in {"start", "stop", "apply"} : Step(t, k)
  BY <1>1 DEF ApplyStop, ApplyStart, ApplyNothing, ClaimTrigger
<1>4. AppliesTo(t)
  <2>1. UNCHANGED <<plan, clock>>
    BY <1>1 DEF ApplyStop, ApplyStart, ApplyNothing
  <2>2. PICK k \in {"start", "stop", "apply"} : Step(t, k)
    BY <1>3
  <2> QED
    BY <1>2, <2>1, <2>2 DEF AppliesTo, Step, TickRecord, Phase
<1>5. \A k \in {"start", "stop", "apply"} : Step(t, k) => tick'.phase = k
  BY <1>2 DEF Step, TickRecord
<1>6. CASE ApplyStop(t)
  <2>1. Claims(t, "stop")
    BY <1>5, <1>6 DEF ApplyStop, ClaimTrigger, Claims
  <2> QED
    BY <1>4, <2>1 DEF Trigger
<1>7. CASE ApplyStart(t)
  <2>1. Claims(t, "start")
    BY <1>5, <1>7 DEF ApplyStart, ClaimTrigger, Claims
  <2> QED
    BY <1>4, <2>1 DEF Trigger
<1>8. CASE ApplyNothing(t)
  <2>1. ClaimsNothing(t)
    BY <1>5, <1>8 DEF ApplyNothing, ClaimsNothing
  <2> QED
    BY <1>4, <2>1
<1> QED
  BY <1>1, <1>6, <1>7, <1>8

-----------------------------------------------------------------------------
(* The invariant is kept *)

LEMMA CallTyped ==
  ASSUME ScheduleTyped, HandsKnown, [Next]_vars
  PROVE  call' \in CallRecord /\ (call'.op # "none" => call'.task \in Task)
<1>1. call \in CallRecord /\ (call.op # "none" => call.task \in Task)
  BY DEF ScheduleTyped, HandsKnown
<1>2. CASE Restart \/ CallDispatches \/ CallUpdates
  <2>1. call' = NoCall
    BY <1>2 DEF Restart, CallDispatches, CallUpdates
  <2> QED
    BY <2>1 DEF NoCall, CallRecord
<1>3. CASE CallKills
  <2>1. call' = NoCall \/ call' = [call EXCEPT !.host = None]
    BY <1>3 DEF CallKills
  <2>2. NoCall \in CallRecord /\ NoCall.op = "none"
    BY DEF NoCall, CallRecord
  <2>3. LET c == [call EXCEPT !.host = None]
        IN  c \in CallRecord /\ c.op = call.op /\ c.task = call.task
    BY <1>1 DEF CallRecord
  <2> QED
    BY <1>1, <2>1, <2>2, <2>3
<1>4. CASE \E t \in Task : CallQueues(t)
  BY <1>4 DEF CallQueues, NoCall, CallRecord
<1>5. CASE \E t \in Task : CallReads(t)
  <2>1. PICK t \in Task : CallReads(t)
    BY <1>5
  <2>2. rows[t].worker \in Worker \cup {None}
    BY DEF ScheduleTyped, Row
  <2>3. \E o \in {"pause", "cancel"} :
          call' = [op |-> o, task |-> t, host |-> rows[t].worker]
    BY <2>1 DEF CallReads
  <2> QED
    BY <2>2, <2>3 DEF CallRecord
<1>6. CASE UNCHANGED call
  BY <1>1, <1>6
<1> QED
  BY <1>2, <1>3, <1>4, <1>5, <1>6
  DEF Next, TickStep, TickBegins, ApplyStop, ApplyStart, ApplyNothing,
      ScheduledStartReads, ScheduledStartStarts, ScheduledStopReads,
      ScheduledStopKills, ScheduledStopKillRaises, ScheduledStopPauses,
      RefreshAndDispatch, TickRaises, Edit, ClockAdvances, HostActs, vars

LEMMA ClaimsTyped ==
  ASSUME ScheduleTyped, HandsKnown, [Next]_vars
  PROVE  /\ plan' \in [Task -> Plans]
         /\ claimed' \in [Task -> [Trigger -> Minutes \cup {None}]]
         /\ fired' \in [Task -> [Trigger -> SUBSET Minutes]]
         /\ clock' \in Minutes
<1> USE DEF ScheduleTyped
<1>1. CASE Applies
  <2>1. PICK t \in Task :
          AppliesTo(t) /\ (ClaimsNothing(t) \/ \E k \in Trigger : Claims(t, k))
    BY <1>1, ApplySteps
  <2>2. tick.now \in Minutes
    BY <2>1 DEF AppliesTo, HandsKnown
  <2>3. CASE ClaimsNothing(t)
    BY <2>1, <2>3 DEF AppliesTo, ClaimsNothing
  <2>4. ASSUME NEW k \in Trigger, Claims(t, k)
        PROVE  /\ claimed' \in [Task -> [Trigger -> Minutes \cup {None}]]
               /\ fired' \in [Task -> [Trigger -> SUBSET Minutes]]
    <3>1. CASE claimed[t][k] # tick.now
      <4>1. claimed' = [claimed EXCEPT ![t] = [claimed[t] EXCEPT ![k] = tick.now]]
        BY <2>4, <3>1 DEF Claims
      <4>2. fired' = [fired EXCEPT ![t] =
                        [fired[t] EXCEPT ![k] = fired[t][k] \cup {tick.now}]]
        BY <2>4, <3>1 DEF Claims
      <4> QED
        BY <2>2, <4>1, <4>2
    <3>2. CASE claimed[t][k] = tick.now
      BY <2>4, <3>2 DEF Claims
    <3> QED
      BY <3>1, <3>2
  <2> QED
    BY <2>1, <2>3, <2>4 DEF AppliesTo
<1>2. CASE \E t \in Task : Edit(t)
  <2>1. PICK t \in Task : Edit(t)
    BY <1>2
  <2>2. PICK p \in Asked[t] : plan' = [plan EXCEPT ![t] = p]
    BY <2>1 DEF Edit
  <2>3. p \in Plans
    BY <2>2, AskedAssumption
  <2> QED
    BY <2>1, <2>2, <2>3 DEF Edit, NoTriggers
<1>3. CASE ClockAdvances
  BY <1>3, WindowAssumption DEF ClockAdvances, Minutes
<1>4. CASE TickBegins \/ TickEnds \/ TickGoesOn
           \/ UNCHANGED <<plan, claimed, fired, clock, tick>>
  BY <1>4 DEF TickBegins, TickEnds, TickGoesOn
<1> QED
  BY <1>1, <1>2, <1>3, <1>4, TickSteps

LEMMA TickTyped ==
  ASSUME ScheduleTyped, HandsKnown, [Next]_vars
  PROVE  /\ tick' \in TickRecord
         /\ tick'.phase # "idle" => tick'.now \in Minutes /\ tick'.now <= clock'
         /\ tick'.phase \notin {"idle", "apply"} => tick'.task \in Task
         /\ tick'.phase = "killing" => tick'.host \in Worker
<1>1. clock \in Minutes /\ clock \in Nat /\ tick \in TickRecord
  BY WindowAssumption DEF ScheduleTyped, Minutes
<1>2. Idle \in TickRecord /\ Idle.phase = "idle"
  BY DEF Idle, TickRecord, Phase
<1>3. CASE TickBegins
  <2>1. tick' = [phase |-> "apply", now |-> clock, todo |-> Scheduled,
                 task |-> None, host |-> None]
    BY <1>3 DEF TickBegins, Idle
  <2>2. clock' = clock /\ Scheduled \in SUBSET Task
    BY <1>3 DEF TickBegins, Scheduled
  <2> QED
    BY <1>1, <2>1, <2>2 DEF TickRecord, Phase
<1>4. CASE Applies
  <2>1. PICK t \in Task : AppliesTo(t)
    BY <1>4, ApplySteps
  <2> QED
    BY <2>1 DEF AppliesTo, HandsKnown
<1>5. CASE TickEnds
  BY <1>2, <1>5 DEF TickEnds
<1>6. CASE TickGoesOn
  BY <1>6 DEF TickGoesOn, HandsKnown
<1>7. CASE ClockAdvances
  <2>1. tick' = tick /\ clock' = clock + 1
    BY <1>7 DEF ClockAdvances
  <2>2. tick.phase # "idle" => tick.now \in Nat
    BY WindowAssumption DEF HandsKnown, Minutes
  <2> QED
    BY <1>1, <2>1, <2>2 DEF HandsKnown
<1>8. CASE (\E t \in Task : Edit(t)) \/ UNCHANGED <<plan, claimed, fired, clock, tick>>
  <2>1. tick' = tick /\ clock' = clock
    BY <1>8 DEF Edit
  <2> QED
    BY <1>1, <2>1 DEF HandsKnown
<1> QED
  BY <1>3, <1>4, <1>5, <1>6, <1>7, <1>8, TickSteps

LEMMA HandsStep ==
  ASSUME ScheduleTyped, HandsKnown, [Next]_vars
  PROVE  ScheduleTyped' /\ HandsKnown'
<1>1. RowsFine' /\ HostTyped'
  BY HostStaysTyped
<1> QED
  BY <1>1, CallTyped, ClaimsTyped, TickTyped
  DEF ScheduleTyped, HandsKnown, RowsFine, RowFine

LEMMA StopStep ==
  ASSUME ScheduleTyped, HandsKnown, StopIsSafe, [Next]_vars
  PROVE  StopIsSafe'
<1>1. SUFFICES ASSUME tick'.phase \in {"killing", "pausing"},
                      rows'[tick'.task].status = "running"
               PROVE  /\ tick'.phase = "killing"
                           => rows'[tick'.task].worker = tick'.host
                      /\ tick'.phase = "pausing"
                           => sess'[rows'[tick'.task].worker][tick'.task] # "live"
  BY DEF StopIsSafe
<1>2. tick \in TickRecord
  BY DEF ScheduleTyped
<1>3. ScheduledStopReads \/ ScheduledStopKills \/ (tick' = tick /\ tick.phase # "idle")
  <2>1. tick' # Idle
    BY <1>1 DEF Idle
  <2>2. ~TickBegins /\ ~Applies
    <3>1. TickBegins => tick'.phase = "apply"
      BY DEF TickBegins, Idle
    <3>2. Applies => tick'.phase \in {"apply", "start", "stop"}
      BY ApplySteps DEF AppliesTo
    <3> QED
      BY <1>1, <3>1, <3>2
  <2>3. ~NextTask /\ ~Goto("starting")
    BY <1>1, <1>2 DEF NextTask, Goto, TickRecord
  <2> QED
    BY <1>1, <2>1, <2>2, <2>3
    DEF Next, TickStep, Applies, ScheduledStartReads, ScheduledStartStarts,
        ScheduledStopKillRaises, ScheduledStopPauses, RefreshAndDispatch,
        TickRaises, Restart, Edit, CallQueues, CallReads, CallDispatches,
        CallKills, CallUpdates, ClockAdvances, HostActs, vars
<1>4. NothingStarts /\ NothingRevives /\ RowsFine'
  <2>1. ~Launching
    BY <1>1, <1>3 DEF Launching, RefreshAndDispatch, CallDispatches,
                      ScheduledStopReads, ScheduledStopKills, Idle
  <2> QED
    BY <2>1, OtherStepsStartNothing, OtherStepsReviveNothing
<1>5. CASE ScheduledStopReads
  <2>1. tick.phase = "stop" /\ rows' = rows
    BY <1>5 DEF ScheduledStopReads
  <2>2. tick'.task = tick.task
    <3>1. ~NextTask
      BY <1>1, <1>2 DEF NextTask, TickRecord
    <3> QED
      BY <1>2, <1>5, <3>1 DEF ScheduledStopReads, Goto, TickRecord
  <2>3. rows[tick.task].status = "running"
    BY <1>1, <2>1, <2>2
  <2>4. tick' = [tick EXCEPT !.phase = "killing", !.host = rows[tick.task].worker]
    BY <1>5, <2>3 DEF ScheduledStopReads
  <2>5. tick'.phase = "killing" /\ tick'.host = rows[tick.task].worker
    BY <1>2, <2>4 DEF TickRecord
  <2> QED
    BY <2>1, <2>2, <2>5
<1>6. CASE ScheduledStopKills
  <2>1. tick.phase = "killing" /\ rows' = rows
    BY <1>6 DEF ScheduledStopKills
  <2>2. tick'.task = tick.task /\ tick'.phase = "pausing"
    BY <1>2, <1>6 DEF ScheduledStopKills, Goto, TickRecord
  <2>3. rows[tick.task].worker = tick.host
    BY <1>1, <2>1, <2>2 DEF StopIsSafe
  <2>4. tick.host \in Worker /\ tick.task \in Task
    BY <2>1 DEF HandsKnown
  <2>5. sess' = [sess EXCEPT ![tick.host][tick.task] = "none"]
    BY <1>6 DEF ScheduledStopKills, KillSucceeds, SetSession
  <2>6. sess'[tick.host][tick.task] = "none"
    BY <2>4, <2>5 DEF ScheduleTyped, HostTyped
  <2> QED
    BY <2>1, <2>2, <2>3, <2>6
<1>7. CASE tick' = tick /\ tick.phase # "idle"
  <2>1. tick.phase \in {"killing", "pausing"} /\ tick.task \in Task
    BY <1>1, <1>7 DEF HandsKnown
  <2>2. PICK t \in Task : t = tick.task
    BY <2>1
  <2>3. /\ rows[t].status = "running" /\ rows'[t].worker = rows[t].worker
        /\ rows[t].worker \in Worker
    BY <1>1, <1>4, <1>7, <2>2 DEF NothingStarts, HandsKnown
  <2>4. PICK w \in Worker : w = rows[t].worker
    BY <2>3
  <2>5. sess'[w][t] = "live" => sess[w][t] = "live"
    BY <1>4 DEF NothingRevives
  <2> QED
    BY <1>7, <2>1, <2>2, <2>3, <2>4, <2>5 DEF StopIsSafe
<1> QED
  BY <1>3, <1>5, <1>6, <1>7

(* The first minute of the window is its smallest: minutes are numbers. *)
LEMMA MinutesAreNumbers == \A n \in Minutes : n \in Nat /\ n # None
BY WindowAssumption DEF Minutes

LEMMA LatestStep ==
  ASSUME ScheduleTyped, HandsKnown, [Next]_vars
  PROVE  Latest \in Nat /\ Latest' \in Nat /\ Latest <= Latest'
<1>1. Latest \in Nat /\ Latest' \in Nat
  BY HandsStep, MinutesAreNumbers DEF Latest, ScheduleTyped, HandsKnown
<1>2. clock \in Nat /\ (tick.phase # "idle" => tick.now \in Nat /\ tick.now <= clock)
  BY MinutesAreNumbers DEF ScheduleTyped, HandsKnown
<1>3. CASE TickBegins
  BY <1>2, <1>3 DEF TickBegins, Idle, Latest
<1>4. CASE Applies
  BY <1>2, <1>4, ApplySteps DEF AppliesTo, Latest
<1>5. CASE TickEnds
  BY <1>2, <1>5 DEF TickEnds, Idle, Latest
<1>6. CASE TickGoesOn
  BY <1>2, <1>6 DEF TickGoesOn, Latest
<1>7. CASE ClockAdvances
  BY <1>2, <1>7 DEF ClockAdvances, Latest
<1>8. CASE (\E t \in Task : Edit(t)) \/ UNCHANGED <<plan, claimed, fired, clock, tick>>
  BY <1>2, <1>8 DEF Edit, Latest
<1> QED
  BY <1>1, <1>3, <1>4, <1>5, <1>6, <1>7, <1>8, TickSteps

(* What a step does to the claims: nothing, one edit or one claim *)
LEMMA ClaimSteps ==
  ASSUME ScheduleTyped, HandsKnown, [Next]_vars
  PROVE  \/ UNCHANGED <<plan, claimed, fired>>
         \/ /\ tick.phase = "idle" /\ tick' = tick
            /\ \E t \in Task :
                 /\ claimed' = [claimed EXCEPT ![t] = NoTriggers(None)]
                 /\ fired' = [fired EXCEPT ![t] = NoTriggers({})]
                 /\ \E p \in Plans : plan' = [plan EXCEPT ![t] = p]
         \/ \E t \in Task : AppliesTo(t) /\ \E k \in Trigger : Claims(t, k)
<1>1. CASE Applies
  BY <1>1, ApplySteps DEF ClaimsNothing, AppliesTo
<1>2. CASE \E t \in Task : Edit(t)
  <2>1. PICK t \in Task : Edit(t)
    BY <1>2
  <2>2. \E p \in Plans : plan' = [plan EXCEPT ![t] = p]
    BY <2>1, AskedAssumption DEF Edit
  <2> QED
    BY <2>1, <2>2 DEF Edit
<1>3. CASE TickBegins \/ TickEnds \/ TickGoesOn \/ ClockAdvances
           \/ UNCHANGED <<plan, claimed, fired, clock, tick>>
  BY <1>3 DEF TickBegins, TickEnds, TickGoesOn, ClockAdvances
<1> QED
  BY <1>1, <1>2, <1>3, TickSteps

(* A claim adds this minute to what fired and to nothing else. *)
LEMMA ClaimAdds ==
  ASSUME ScheduleTyped, NEW t \in Task, NEW k \in Trigger, Claims(t, k)
  PROVE  \A u \in Task, j \in Trigger :
           /\ fired'[u][j] = IF claimed[t][k] # tick.now /\ u = t /\ j = k
                             THEN fired[u][j] \cup {tick.now} ELSE fired[u][j]
           /\ claimed'[u][j] = IF u = t /\ j = k THEN tick.now ELSE claimed[u][j]
<1> USE DEF ScheduleTyped
<1>1. CASE claimed[t][k] # tick.now
  <2>1. claimed' = [claimed EXCEPT ![t] = [claimed[t] EXCEPT ![k] = tick.now]]
    BY <1>1 DEF Claims
  <2>2. fired' = [fired EXCEPT ![t] =
                    [fired[t] EXCEPT ![k] = fired[t][k] \cup {tick.now}]]
    BY <1>1 DEF Claims
  <2> QED
    BY <1>1, <2>1, <2>2
<1>2. CASE claimed[t][k] = tick.now
  BY <1>2 DEF Claims
<1> QED
  BY <1>1, <1>2

LEMMA EditForgets ==
  ASSUME ScheduleTyped, NEW t \in Task,
         claimed' = [claimed EXCEPT ![t] = NoTriggers(None)],
         fired' = [fired EXCEPT ![t] = NoTriggers({})]
  PROVE  \A u \in Task, j \in Trigger :
           /\ fired'[u][j] = IF u = t THEN {} ELSE fired[u][j]
           /\ claimed'[u][j] = IF u = t THEN None ELSE claimed[u][j]
BY DEF ScheduleTyped, NoTriggers

LastOf(c, F, latest) ==
  /\ c # None => c \in F
  /\ \A n \in F : c # None /\ n <= c /\ n <= latest

LEMMA LaterClaim ==
  ASSUME NEW F \in SUBSET Nat, NEW c, NEW now \in Nat, now # None, LastOf(c, F, now)
  PROVE  LastOf(now, F \cup {now}, now)
BY DEF LastOf

LEMMA SameClaim ==
  ASSUME NEW F \in SUBSET Nat, NEW c, NEW m \in Nat, NEW n \in Nat, m <= n,
         LastOf(c, F, m)
  PROVE  LastOf(c, F, n)
BY DEF LastOf

LEMMA ClaimStep ==
  ASSUME ScheduleTyped, HandsKnown, ClaimIsLast, [Next]_vars
  PROVE  ClaimIsLast'
<1>1. SUFFICES ASSUME NEW u \in Task, NEW j \in Trigger
               PROVE  LastOf(claimed'[u][j], fired'[u][j], Latest')
  BY DEF ClaimIsLast, LastOf
<1>2. LastOf(claimed[u][j], fired[u][j], Latest)
  BY DEF ClaimIsLast, LastOf
<1>3. fired[u][j] \in SUBSET Nat
  BY MinutesAreNumbers DEF ScheduleTyped
<1>4. Latest \in Nat /\ Latest' \in Nat /\ Latest <= Latest'
  BY LatestStep
<1>5. CASE claimed'[u][j] = claimed[u][j] /\ fired'[u][j] = fired[u][j]
  BY <1>2, <1>3, <1>4, <1>5, SameClaim
<1>6. CASE claimed'[u][j] = None /\ fired'[u][j] = {}
  BY <1>6 DEF LastOf
<1>7. ASSUME NEW t \in Task, NEW k \in Trigger, AppliesTo(t), Claims(t, k)
      PROVE  LastOf(claimed'[u][j], fired'[u][j], Latest')
  <2>1. tick.now \in Nat /\ tick.now # None /\ Latest = tick.now /\ Latest' = tick.now
    BY <1>7, MinutesAreNumbers DEF AppliesTo, HandsKnown, Latest
  <2>2. /\ fired'[u][j] = IF claimed[t][k] # tick.now /\ u = t /\ j = k
                          THEN fired[u][j] \cup {tick.now} ELSE fired[u][j]
        /\ claimed'[u][j] = IF u = t /\ j = k THEN tick.now ELSE claimed[u][j]
    BY <1>7, ClaimAdds
  <2>3. CASE u = t /\ j = k
    <3>1. claimed'[u][j] = tick.now
      BY <2>3, <2>2
    <3>2. claimed[t][k] = tick.now => tick.now \in fired[u][j]
      BY <1>2, <2>1, <2>3 DEF LastOf
    <3>3. fired'[u][j] = fired[u][j] \cup {tick.now}
      BY <2>3, <2>2, <3>2
    <3>4. LastOf(tick.now, fired[u][j] \cup {tick.now}, tick.now)
      BY <1>2, <1>3, <2>1, LaterClaim
    <3> QED
      BY <2>1, <3>1, <3>3, <3>4
  <2>4. CASE ~(u = t /\ j = k)
    <3>1. claimed'[u][j] = claimed[u][j] /\ fired'[u][j] = fired[u][j]
      BY <2>4, <2>2
    <3> QED
      BY <1>5, <3>1
  <2> QED
    BY <2>3, <2>4
<1> QED
  BY <1>5, <1>6, <1>7, ClaimSteps, EditForgets

(* What fires for one task is what its schedule says. *)
FiredBy(p, F) ==
  /\ \A n \in F["stop"] : "stop" \in Kinds(p) /\ n \in DueMinutes[p]["stop"]
  /\ \A n \in F["start"] :
       /\ "start" \in Kinds(p) /\ n \in DueMinutes[p]["start"]
       /\ ~("stop" \in Kinds(p) /\ n \in DueMinutes[p]["stop"])

LEMMA FiredStep ==
  ASSUME ScheduleTyped, HandsKnown, FiredWasDue, [Next]_vars
  PROVE  FiredWasDue'
<1>1. SUFFICES ASSUME NEW u \in Task PROVE FiredBy(plan'[u], fired'[u])
  BY DEF FiredWasDue, FiredBy, IsDue
<1>2. FiredBy(plan[u], fired[u])
  BY DEF FiredWasDue, FiredBy, IsDue
<1>3. CASE UNCHANGED <<plan, claimed, fired>>
  BY <1>2, <1>3
<1>4. ASSUME NEW t \in Task,
             claimed' = [claimed EXCEPT ![t] = NoTriggers(None)],
             fired' = [fired EXCEPT ![t] = NoTriggers({})],
             NEW p \in Plans, plan' = [plan EXCEPT ![t] = p]
      PROVE  FiredBy(plan'[u], fired'[u])
  <2>1. CASE u = t
    <3>1. fired'[u]["stop"] = {} /\ fired'[u]["start"] = {}
      BY <1>4, <2>1, EditForgets DEF Trigger
    <3> QED
      BY <3>1 DEF FiredBy
  <2>2. CASE u # t
    BY <1>2, <1>4, <2>2 DEF ScheduleTyped
  <2> QED
    BY <2>1, <2>2
<1>5. ASSUME NEW t \in Task, NEW k \in Trigger, AppliesTo(t), Claims(t, k)
      PROVE  FiredBy(plan'[u], fired'[u])
  <2>1. plan'[u] = plan[u]
    BY <1>5 DEF AppliesTo
  <2>2. \A j \in Trigger :
          fired'[u][j] = IF claimed[t][k] # tick.now /\ u = t /\ j = k
                         THEN fired[u][j] \cup {tick.now} ELSE fired[u][j]
    BY <1>5, ClaimAdds
  <2>3. k \in {"start", "stop"}
    BY DEF Trigger
  <2>4. /\ k \in Kinds(plan[t]) /\ tick.now \in DueMinutes[plan[t]][k]
        /\ k = "start" => ~("stop" \in Kinds(plan[t])
                              /\ tick.now \in DueMinutes[plan[t]]["stop"])
    BY <1>5 DEF Claims, IsDue
  <2>5. /\ fired'[u]["stop"] \in {fired[u]["stop"], fired[u]["stop"] \cup {tick.now}}
        /\ fired'[u]["start"] \in {fired[u]["start"], fired[u]["start"] \cup {tick.now}}
        /\ fired'[u]["stop"] # fired[u]["stop"] => u = t /\ k = "stop"
        /\ fired'[u]["start"] # fired[u]["start"] => u = t /\ k = "start"
    BY <2>2 DEF Trigger
  <2>6. FiredBy(plan[u], fired'[u])
    BY <1>2, <2>4, <2>5 DEF FiredBy
  <2> QED
    BY <2>1, <2>6
<1> QED
  BY <1>3, <1>4, <1>5, ClaimSteps

LEMMA VisitedStep ==
  ASSUME ScheduleTyped, HandsKnown, ClaimIsLast, VisitedFired, [Next]_vars
  PROVE  VisitedFired'
<1>1. CASE TickBegins
  <2>1. plan' = plan /\ tick'.todo = Scheduled
    BY <1>1 DEF TickBegins, Idle
  <2>2. Scheduled' = Scheduled
    BY <2>1 DEF Scheduled
  <2> QED
    BY <2>1, <2>2 DEF VisitedFired
<1>2. CASE Applies
  <2>1. PICK t \in Task :
          AppliesTo(t) /\ (ClaimsNothing(t) \/ \E k \in Trigger : Claims(t, k))
    BY <1>2, ApplySteps
  <2>2. /\ tick.phase # "idle" /\ tick'.now = tick.now
        /\ tick'.todo = tick.todo \ {t} /\ plan' = plan
    BY <2>1 DEF AppliesTo
  <2>3. Scheduled' = Scheduled
    BY <2>2 DEF Scheduled
  <2>4. \A u \in Task, j \in Trigger : fired[u][j] \subseteq fired'[u][j]
    <3>1. SUFFICES ASSUME NEW u \in Task, NEW j \in Trigger
                   PROVE  fired[u][j] \subseteq fired'[u][j]
      OBVIOUS
    <3>2. CASE ClaimsNothing(t)
      BY <3>2 DEF ClaimsNothing
    <3>3. ASSUME NEW k \in Trigger, Claims(t, k)
          PROVE  fired[u][j] \subseteq fired'[u][j]
      <4>1. fired'[u][j] = IF claimed[t][k] # tick.now /\ u = t /\ j = k
                           THEN fired[u][j] \cup {tick.now} ELSE fired[u][j]
        BY <3>3, ClaimAdds
      <4> QED
        BY <4>1
    <3> QED
      BY <2>1, <3>2, <3>3
  <2>5. ASSUME NEW k \in Trigger, Claims(t, k)
        PROVE  tick.now \in fired'[t][k]
    <3>1. tick.now # None
      BY <2>2, MinutesAreNumbers DEF HandsKnown
    <3>2. claimed[t][k] = tick.now => tick.now \in fired[t][k]
      BY <3>1 DEF ClaimIsLast
    <3>3. fired'[t][k] = IF claimed[t][k] # tick.now /\ t = t /\ k = k
                         THEN fired[t][k] \cup {tick.now} ELSE fired[t][k]
      BY <2>5, ClaimAdds
    <3> QED
      BY <3>2, <3>3
  <2>6. ASSUME NEW u \in Scheduled \ (tick.todo \ {t})
        PROVE  /\ IsDue(u, "stop", tick.now) => tick.now \in fired'[u]["stop"]
               /\ IsDue(u, "start", tick.now) /\ ~IsDue(u, "stop", tick.now)
                    => tick.now \in fired'[u]["start"]
    <3>1. CASE u = t
      <4>1. CASE ClaimsNothing(t)
        BY <3>1, <4>1 DEF ClaimsNothing, Trigger
      <4>2. ASSUME NEW k \in Trigger, Claims(t, k)
            PROVE  /\ IsDue(u, "stop", tick.now) => tick.now \in fired'[u]["stop"]
                   /\ IsDue(u, "start", tick.now) /\ ~IsDue(u, "stop", tick.now)
                        => tick.now \in fired'[u]["start"]
        <5>1. k \in {"start", "stop"} /\ IsDue(t, k, tick.now)
              /\ (k = "start" => ~IsDue(t, "stop", tick.now))
          BY <4>2 DEF Claims, Trigger
        <5>2. tick.now \in fired'[t][k]
          BY <2>5, <4>2
        <5> QED
          BY <3>1, <5>1, <5>2
      <4> QED
        BY <2>1, <4>1, <4>2
    <3>2. CASE u # t
      <4>1. u \in Scheduled \ tick.todo /\ u \in Task
        BY <3>2, <2>6 DEF Scheduled
      <4> QED
        BY <2>2, <2>4, <4>1 DEF VisitedFired, Trigger
    <3> QED
      BY <3>1, <3>2
  <2> QED
    BY <2>2, <2>3, <2>6 DEF VisitedFired, IsDue
<1>3. CASE TickEnds
  BY <1>3 DEF TickEnds, Idle, VisitedFired
<1>4. CASE \E t \in Task : Edit(t)
  BY <1>4 DEF Edit, VisitedFired
<1>5. CASE TickGoesOn \/ ClockAdvances \/ UNCHANGED <<plan, claimed, fired, clock, tick>>
  <2>1. UNCHANGED <<plan, fired>>
    BY <1>5 DEF TickGoesOn, ClockAdvances
  <2>2. tick'.phase # "idle"
          => tick.phase # "idle" /\ tick'.now = tick.now /\ tick'.todo = tick.todo
    BY <1>5 DEF TickGoesOn, ClockAdvances
  <2> QED
    BY <2>1, <2>2 DEF VisitedFired, Scheduled, IsDue
<1> QED
  BY <1>1, <1>2, <1>3, <1>4, <1>5, TickSteps

LEMMA ScheduleStep == ScheduleInv /\ [Next]_vars => ScheduleInv'
BY HandsStep, StopStep, ClaimStep, FiredStep, VisitedStep DEF ScheduleInv

LEMMA ScheduleInit == Init => ScheduleInv
<1> SUFFICES ASSUME Init PROVE ScheduleInv
  OBVIOUS
<1>1. tick = Idle /\ call = NoCall /\ clock = FirstMinute /\ FirstMinute \in Minutes
  BY WindowAssumption DEF Init, Minutes
<1>2. /\ Idle \in TickRecord /\ Idle.phase = "idle"
      /\ NoCall \in CallRecord /\ NoCall.op = "none"
  BY DEF Idle, NoCall, TickRecord, Phase, CallRecord
<1>3. /\ claimed = [t \in Task |-> [k \in Trigger |-> None]]
      /\ fired = [t \in Task |-> [k \in Trigger |-> {}]]
  BY DEF Init, NoTriggers
<1>4. /\ rows \in [Task -> Row]
      /\ \A t \in Task : rows[t].status # "running"
  <2>1. PICK o \in [Task -> UNION {Submissions[t] : t \in Task}],
             paused \in [Task -> BOOLEAN] :
          /\ \A t \in Task : o[t] \in Submissions[t]
          /\ rows = [t \in Task |->
                       CreateTask(AbsentRow, OptionsFor(o[t], plan[t]), paused[t])]
    BY DEF Init
  <2>2. ASSUME NEW t \in Task
        PROVE  rows[t] \in Row /\ rows[t].status # "running"
    <3>1. PICK q : q = OptionsFor(o[t], plan[t])
      OBVIOUS
    <3>2. q \in Option
      BY <2>1, <3>1, SubmissionsAssumption, OptionsForTyped
    <3>3. Normalized(q) \in Option
      BY <3>2 DEF Normalized, Option
    <3>4. PICK s \in {"paused", "queued"} :
            rows[t] = [AbsentRow EXCEPT !.status = s, !.options = Normalized(q)]
      BY <2>1, <3>1 DEF CreateTask, AbsentRow
    <3> QED
      BY <3>3, <3>4 DEF AbsentRow, Row, Status
  <2> QED
    BY <2>1, <2>2
<1>5. HostTyped
  BY MaxFaultsAssumption DEF Init, HostInit, HostTyped, SessionState
<1>6. plan \in [Task -> Plans]
  BY DEF Init
<1>7. ScheduleTyped
  BY <1>1, <1>2, <1>3, <1>4, <1>5, <1>6 DEF ScheduleTyped
<1>8. HandsKnown /\ StopIsSafe /\ VisitedFired
  BY <1>1, <1>2, <1>4 DEF HandsKnown, StopIsSafe, VisitedFired
<1>9. ClaimIsLast /\ FiredWasDue
  BY <1>3 DEF ClaimIsLast, FiredWasDue, Trigger
<1> QED
  BY <1>7, <1>8, <1>9 DEF ScheduleInv

LEMMA ScheduleInvariant == Spec => []ScheduleInv
BY ScheduleInit, ScheduleStep, PTL DEF Spec

-----------------------------------------------------------------------------
(* What the schedules promise *)

(***************************************************************************)
(* A stop wins over a start of the same minute, over all the ticks and     *)
(* restarts of that minute: _apply_schedules never claims both.            *)
(***************************************************************************)
THEOREM StopWins == Spec => []NeverBothInOneMinute
<1>1. ScheduleInv => NeverBothInOneMinute
  <2>1. SUFFICES ASSUME FiredWasDue, NEW t \in Task,
                        NEW n \in fired[t]["start"] \cap fired[t]["stop"]
                 PROVE  FALSE
    BY DEF ScheduleInv, NeverBothInOneMinute
  <2> QED
    BY <2>1 DEF FiredWasDue
<1> QED
  BY <1>1, ScheduleInvariant, PTL

(* Only the loop of _apply_schedules hands a task on to be started or stopped. *)
LEMMA HandedOn ==
  ASSUME ScheduleTyped, [Next]_vars, tick.phase = "apply", tick'.phase \in Trigger
  PROVE  Applies
<1>1. tick # tick' /\ tick' # Idle
  BY DEF Idle, Trigger
<1> QED
  BY <1>1
  DEF Next, TickStep, TickBegins, Applies, ScheduledStartReads,
      ScheduledStartStarts, ScheduledStopReads, ScheduledStopKills,
      ScheduledStopKillRaises, ScheduledStopPauses, RefreshAndDispatch,
      TickRaises, Restart, Edit, CallQueues, CallReads, CallDispatches,
      CallKills, CallUpdates, ClockAdvances, HostActs, vars

(***************************************************************************)
(* claim_schedule_trigger lets a start or a stop of a task through at most *)
(* once in a minute: the one column that holds the last claim is enough,   *)
(* since the ticks see no minute after a later one.                        *)
(***************************************************************************)
THEOREM ClaimedOncePerMinute == Spec => OncePerMinute
<1>1. ScheduleInv /\ [Next]_vars =>
        [\A k \in Trigger :
           (tick.phase = "apply" /\ tick'.phase = k)
             => tick.now \notin fired[tick'.task][k]]_vars
  <2>1. SUFFICES ASSUME ScheduleInv, [Next]_vars, NEW k \in Trigger,
                        tick.phase = "apply", tick'.phase = k,
                        tick.now \in fired[tick'.task][k]
                 PROVE  FALSE
    OBVIOUS
  <2>2. PICK t \in Task :
          AppliesTo(t) /\ (ClaimsNothing(t) \/ \E j \in Trigger : Claims(t, j))
    BY <2>1, HandedOn, ApplySteps DEF ScheduleInv
  <2>3. PICK j \in Trigger : Claims(t, j)
    BY <2>1, <2>2 DEF ClaimsNothing, Trigger
  <2>4. claimed[t][j] # tick.now /\ j = k
    BY <2>1, <2>3 DEF Claims, Trigger
  <2>5. tick'.task = t
    BY <2>1, <2>2 DEF AppliesTo, Trigger
  <2>6. tick.now \in fired[t][k] /\ Latest = tick.now
    BY <2>1, <2>5 DEF Latest
  <2>7. /\ claimed[t][k] # None /\ tick.now <= claimed[t][k]
        /\ claimed[t][k] \in fired[t][k]
    BY <2>1, <2>6 DEF ScheduleInv, ClaimIsLast
  <2>8. claimed[t][k] <= tick.now
    BY <2>1, <2>6, <2>7 DEF ScheduleInv, ClaimIsLast
  <2>9. claimed[t][k] \in Nat /\ tick.now \in Nat
    BY <2>1, <2>6, <2>7, MinutesAreNumbers DEF ScheduleInv, ScheduleTyped
  <2> QED
    BY <2>4, <2>7, <2>8, <2>9
<1> QED
  BY <1>1, ScheduleInvariant, PTL DEF Spec, OncePerMinute

(* The minutes the code computes for a schedule are those the schedule means. *)
LEMMA DueAsMeant ==
  ASSUME NEW p \in Plans, NEW k \in Kinds(p), NEW n \in Minutes
  PROVE  n \in DueMinutes[p][k] <=> n \in MeantMinutes[p][k]
<1>1. k \in Trigger /\ PlanOf[p][k] # None
  BY DEF Kinds
<1>2. PlanOf[p] \in Plan /\ Accepted(PlanOf[p][k])
  BY <1>1, PlansAssumption
<1>3. PlanOf[p][k] \in CronExpr /\ PlanOf[p].zone \in Zone
  BY <1>1, <1>2 DEF Plan, Trigger
<1>4. Moment(LocalNow(p, n))
  BY <1>3, ZoneAssumption, CivilIsMoment DEF LocalNow
<1>5. Matches(PlanOf[p][k], LocalNow(p, n)) <=> Means(PlanOf[p][k], LocalNow(p, n))
  BY <1>2, <1>3, <1>4, CronMatchesAsMeant
<1> QED
  BY <1>5 DEF DueMinutes, MeantMinutes

(***************************************************************************)
(* A tick that gets past its schedules has claimed every stop that was due *)
(* and every start that was due without a stop, and nothing else: what     *)
(* _apply_schedules claims follows what the cron expressions mean, not     *)
(* only the sets CronExpression computes.                                  *)
(***************************************************************************)
THEOREM DueTriggersAreClaimed == Spec => []DueIsClaimed
<1>1. ScheduleInv => DueIsClaimed
  <2>1. SUFFICES ASSUME ScheduleInv, tick.phase = "apply", tick.todo = {},
                        NEW t \in Scheduled
                 PROVE  /\ tick.now \in fired[t]["stop"] <=> Due(t, "stop", tick.now)
                        /\ tick.now \in fired[t]["start"]
                             <=> /\ Due(t, "start", tick.now)
                                 /\ ~Due(t, "stop", tick.now)
    BY DEF DueIsClaimed
  <2>2. t \in Task /\ t \in Scheduled \ tick.todo
    BY <2>1 DEF Scheduled
  <2>3. tick.now \in Minutes /\ plan[t] \in Plans
    BY <2>1, <2>2 DEF ScheduleInv, HandsKnown, ScheduleTyped
  <2>4. \A k \in Trigger : IsDue(t, k, tick.now) <=> Due(t, k, tick.now)
    BY <2>3, DueAsMeant DEF IsDue, Due
  <2>5. /\ IsDue(t, "stop", tick.now) => tick.now \in fired[t]["stop"]
        /\ IsDue(t, "start", tick.now) /\ ~IsDue(t, "stop", tick.now)
             => tick.now \in fired[t]["start"]
    BY <2>1, <2>2 DEF ScheduleInv, VisitedFired
  <2>6. /\ tick.now \in fired[t]["stop"] => IsDue(t, "stop", tick.now)
        /\ tick.now \in fired[t]["start"]
             => IsDue(t, "start", tick.now) /\ ~IsDue(t, "stop", tick.now)
    BY <2>1, <2>2 DEF ScheduleInv, FiredWasDue
  <2> QED
    BY <2>4, <2>5, <2>6 DEF Trigger
<1> QED
  BY <1>1, ScheduleInvariant, PTL

-----------------------------------------------------------------------------
(* The steps of the scheduler thread *)

LEMMA TickChangesRows ==
  ASSUME ScheduleInv, [Next]_vars, tick' # tick
  PROVE  \/ UNCHANGED rows
         \/ ScheduledStartStarts \/ ScheduledStopPauses \/ RefreshAndDispatch
BY DEF Next, TickStep, TickBegins, ApplyStop, ApplyStart, ApplyNothing,
      ScheduledStartReads, ScheduledStopReads, ScheduledStopKills,
      ScheduledStopKillRaises, TickRaises, Restart, Edit, CallQueues,
      CallReads, CallDispatches, CallKills, CallUpdates, ClockAdvances,
      HostActs, vars

(* The rest of a tick pauses nothing and leaves final rows alone. *)
LEMMA RefreshChangesRows ==
  ASSUME ScheduleInv, RefreshAndDispatch, NEW t \in Task
  PROVE  /\ rows[t].status \in Final => rows'[t] = rows[t]
         /\ rows[t].status = "running" => rows'[t].status # "paused"
<1> DEFINE after == [u \in Task |-> Refreshed(u)]
<1>1. rows[t] \in Row
  BY DEF ScheduleInv, ScheduleTyped
<1>2. PICK started \in SUBSET {u \in Task : after[u].status = "queued"} :
        Dispatch(after, started)
  BY DEF RefreshAndDispatch
<1>3. PICK w \in Worker \cup {None}, G \in SUBSET Gpu :
        rows'[t] = IF t \in started THEN MarkRunning(after[t], w, G) ELSE after[t]
  <2>1. PICK place \in [started -> Worker \X Gpu] :
          rows' = [u \in Task |->
                     IF u \in started
                     THEN MarkRunning(after[u], place[u][1], {place[u][2]})
                     ELSE after[u]]
    BY <1>2 DEF Dispatch
  <2>2. CASE t \in started
    <3>1. place[t][1] \in Worker /\ {place[t][2]} \in SUBSET Gpu
      BY <2>1, <2>2
    <3> QED
      BY <2>1, <2>2, <3>1
  <2>3. CASE t \notin started
    BY <2>1, <2>3
  <2> QED
    BY <2>2, <2>3
<1>4. t \in started => after[t].status = "queued"
  BY <1>2
<1>5. after[t] = Refreshed(t)
  OBVIOUS
<1> HIDE DEF after
<1>6. rows[t].status # "running" => after[t] = rows[t]
  BY <1>5 DEF Refreshed
<1>7. rows[t].status = "running" => after[t].status # "paused"
  BY <1>1, <1>5 DEF Refreshed, FinishTask, RequeueTask, FailTask, Unplaced, Row
<1>8. t \in started => rows'[t].status # "paused"
  <2>1. ASSUME t \in started PROVE after[t] \in Row
    BY RefreshedFine, <1>5 DEF RowFine, ScheduleInv
  <2> QED
    BY <1>3, <1>4, <2>1 DEF MarkRunning, Row
<1> QED
  BY <1>3, <1>4, <1>6, <1>7, <1>8 DEF Final

(***************************************************************************)
(* Schedules never touch a final row, also when the task became final      *)
(* between the claim of a trigger and its UPDATE: start_task and           *)
(* pause_task ask for the status in their WHERE clauses.                   *)
(***************************************************************************)
THEOREM FinalRowsAreKept == Spec => SchedulesKeepFinalRows
<1>1. ScheduleInv /\ [Next]_vars =>
        [\A t \in Task :
           (rows[t].status \in Final /\ tick' # tick) => rows'[t] = rows[t]]_vars
  <2>1. SUFFICES ASSUME ScheduleInv, [Next]_vars, NEW t \in Task,
                        rows[t].status \in Final, tick' # tick
                 PROVE  rows'[t] = rows[t]
    OBVIOUS
  <2>2. rows \in [Task -> Row]
    BY <2>1 DEF ScheduleInv, ScheduleTyped
  <2>3. CASE ScheduledStartStarts
    BY <2>1, <2>2, <2>3 DEF ScheduledStartStarts, SetRow, StartTask, Final
  <2>4. CASE ScheduledStopPauses
    BY <2>1, <2>2, <2>4 DEF ScheduledStopPauses, SetRow, PauseTask, Final
  <2>5. CASE RefreshAndDispatch
    BY <2>1, <2>5, RefreshChangesRows
  <2> QED
    BY <2>1, <2>3, <2>4, <2>5, TickChangesRows
<1> QED
  BY <1>1, ScheduleInvariant, PTL DEF Spec, SchedulesKeepFinalRows

(***************************************************************************)
(* _scheduled_stop pauses no task whose session lives on the worker of its *)
(* row, whatever clients and hosts do between its reading of the row, the  *)
(* kill and the UPDATE.                                                    *)
(***************************************************************************)
THEOREM ScheduledStopIsClean == Spec => ScheduledStopLeavesNoSession
<1>1. ScheduleInv /\ [Next]_vars =>
        [\A t \in Task :
           ( /\ tick' # tick
             /\ rows[t].status = "running" /\ rows'[t].status = "paused" )
             => sess[rows[t].worker][t] # "live"]_vars
  <2>1. SUFFICES ASSUME ScheduleInv, [Next]_vars, NEW t \in Task, tick' # tick,
                        rows[t].status = "running", rows'[t].status = "paused"
                 PROVE  sess[rows[t].worker][t] # "live"
    OBVIOUS
  <2>2. rows \in [Task -> Row]
    BY <2>1 DEF ScheduleInv, ScheduleTyped
  <2>3. ~ScheduledStartStarts
    BY <2>1, <2>2 DEF ScheduledStartStarts, SetRow, StartTask
  <2>4. ScheduledStopPauses
    BY <2>1, <2>3, RefreshChangesRows, TickChangesRows
  <2>5. tick.task = t /\ tick.phase = "pausing"
    BY <2>1, <2>2, <2>4 DEF ScheduledStopPauses, SetRow
  <2> QED
    BY <2>1, <2>5 DEF ScheduleInv, StopIsSafe
<1> QED
  BY <1>1, ScheduleInvariant, PTL DEF Spec, ScheduledStopLeavesNoSession
=============================================================================
