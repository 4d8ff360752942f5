------------------------ MODULE GpuConditionsProofs ------------------------
(***************************************************************************)
(* Proofs about the wait for a quiet GPU and about evictions, for any      *)
(* tasks, workers, GPUs, thresholds, readings and failures.                *)
(***************************************************************************)
EXTENDS GpuConditions, TLAPS

Age == 0 .. MaxAge

RowsKnown == rows \in [Task -> Row]

(* The ages are ages: free_since is NULL or one, the histories are ones. *)
AgesTyped ==
  /\ since \in [Worker -> [Gpu -> [Condition -> Age \cup {None}]]]
  /\ over \in [Worker -> [Gpu -> [Timed -> Age]]]
  /\ asked \in [Timed -> Age]
  /\ faults \in Nat /\ faults <= MaxFaults

(* While every probe was answered, one that read a GPU over a condition is  *)
(* no younger than the condition's free_since, or is no younger than the    *)
(* last probe that left the condition out.                                  *)
SinceIsHonest ==
  faults = MaxFaults =>
    \A w \in Worker, g \in Gpu, k \in Timed :
      since[w][g][k] # None =>
        since[w][g][k] <= over[w][g][k] \/ asked[k] <= over[w][g][k]

PassRecord ==
  [phase : {"idle", "list", "probe", "regular", "reprobe", "retry", "background"},
   queued : BOOLEAN, conditions : SUBSET Condition, probe : SUBSET Worker,
   attempted : SUBSET Task, background : SUBSET Task,
   task : Task \cup {None}, host : Worker \cup {None}]

(* The task that others were evicted for is a regular one. *)
HandIsRegular ==
  /\ pass \in PassRecord
  /\ pass.phase \in {"reprobe", "retry"}
       => pass.task \in Task /\ ~Opt(pass.task).background

(* A task with options o would hold one with options p back on worker w. *)
HoldsBack(o, p, w) ==
  /\ ~o.background /\ o.priority > p.priority
  /\ o.target \in {None, w}

Eviction == [task : Task, host : Worker]

(* What a background task was evicted for would hold it back. *)
EvictorFine(table, v, e) ==
  e # None => /\ table[v].options.background
              /\ HoldsBack(table[e.task].options, table[v].options, e.host)

EvictorKnown ==
  /\ evictor \in [Task -> Eviction \cup {None}]
  /\ \A v \in Task : EvictorFine(rows, v, evictor[v])

ConditionsInv ==
  /\ RowsKnown /\ AgesTyped /\ SinceIsHonest /\ HandIsRegular /\ EvictorKnown

-----------------------------------------------------------------------------
(* Rows *)

(* A statement never touches the options of a task, and only the record of  *)
(* a launch makes one run.                                                  *)
LEMMA LaunchKeepsOptions ==
  ASSUME NEW r \in Row, NEW w \in Worker, NEW G \in SUBSET Gpu
  PROVE  MarkRunning(r, w, G) \in Row /\ MarkRunning(r, w, G).options = r.options
BY DEF MarkRunning, Row, Status

LEMMA StatementsKeepOptions ==
  ASSUME NEW r \in Row, NEW code \in ExitCode,
         NEW q \in {FinishTask(r, code), PreemptTask(r), StartTask(r), RerunTask(r),
                    PauseTask(r, TRUE), CancelTask(r)}
  PROVE  /\ q \in Row /\ q.options = r.options
         /\ q.status = "running" => r.status = "running"
<1>1. CASE q = FinishTask(r, code)
  <2>1. (IF code = 0 THEN "succeeded" ELSE "failed") \in Status
    BY DEF Status, Final
  <2> QED
    BY <1>1, <2>1 DEF FinishTask, Row
<1>2. CASE q = PreemptTask(r)
  BY <1>2 DEF PreemptTask, Unplaced, Row, Status
<1>3. CASE q = StartTask(r)
  BY <1>3 DEF StartTask, Row, Status
<1>4. CASE q = RerunTask(r)
  BY <1>4 DEF RerunTask, Unplaced, Row, Status
<1>5. CASE q = PauseTask(r, TRUE)
  BY <1>5 DEF PauseTask, Unplaced, Row, Status
<1>6. CASE q = CancelTask(r)
  BY <1>6 DEF CancelTask, Row, Status, Final
<1> QED
  BY <1>1, <1>2, <1>3, <1>4, <1>5, <1>6

OptionsKept == \A t \in Task : Opt(t)' = Opt(t)

(* No task starts to run. *)
NothingStarts ==
  \A t \in Task : rows'[t].status = "running" => rows[t].status = "running"

LEMMA LaunchKeeps ==
  ASSUME RowsKnown, NEW t \in Task, NEW p \in Worker \X Gpu, Launch(t, p)
  PROVE  RowsKnown' /\ OptionsKept
<1>1. CASE rows' = [rows EXCEPT ![t] = MarkRunning(@, p[1], {p[2]})]
  <2> DEFINE q == MarkRunning(rows[t], p[1], {p[2]})
  <2>1. rows[t] \in Row /\ p[1] \in Worker /\ {p[2]} \in SUBSET Gpu 
    BY DEF RowsKnown
  <2>2. q \in Row /\ q.options = rows[t].options
    BY <2>1, LaunchKeepsOptions
  <2> HIDE DEF q
  <2>3. rows' = [rows EXCEPT ![t] = q]
    BY <1>1 DEF q
  <2> QED
    BY <2>2, <2>3 DEF RowsKnown, OptionsKept, Opt
<1>2. CASE rows' = rows
  BY <1>2 DEF RowsKnown, OptionsKept, Opt
<1> QED
  BY <1>1, <1>2 DEF Launch

LEMMA StatementKeeps ==
  ASSUME RowsKnown, NEW t \in Task,
         NEW q \in {PreemptTask(rows[t]), StartTask(rows[t]), RerunTask(rows[t]),
                    PauseTask(rows[t], TRUE), CancelTask(rows[t])},
         rows' = [rows EXCEPT ![t] = q]
  PROVE  RowsKnown' /\ OptionsKept /\ NothingStarts
<1>1. rows[t] \in Row /\ 0 \in ExitCode
  BY DEF RowsKnown, ExitCode
<1>2. /\ q \in Row /\ q.options = rows[t].options
      /\ q.status = "running" => rows[t].status = "running"
  BY <1>1, StatementsKeepOptions
<1> QED
  BY <1>2 DEF RowsKnown, OptionsKept, NothingStarts, Opt

LEMMA ResultsKeep ==
  ASSUME RowsKnown, PassBegins
  PROVE  RowsKnown' /\ OptionsKept /\ NothingStarts
<1>1. PICK ended \in SUBSET Running, code \in ExitCode :
        rows' = [t \in Task |-> IF t \in ended THEN FinishTask(rows[t], code)
                                               ELSE rows[t]]
  BY DEF PassBegins
<1>2. ASSUME NEW t \in Task
      PROVE  /\ rows'[t] \in Row /\ rows'[t].options = rows[t].options
             /\ rows'[t].status = "running" => rows[t].status = "running"
  <2>1. rows[t] \in Row
    BY DEF RowsKnown
  <2>2. CASE t \in ended
    <3>1. rows'[t] = FinishTask(rows[t], code)
      BY <1>1, <2>2
    <3> QED
      BY <2>1, <3>1, StatementsKeepOptions
  <2>3. CASE t \notin ended
    BY <1>1, <2>1, <2>3
  <2> QED
    BY <2>2, <2>3
<1> QED
  BY <1>1, <1>2 DEF RowsKnown, OptionsKept, NothingStarts, Opt

(* What steps do to the table: nothing, a launch, or something that starts  *)
(* no task.                                                                 *)
Launches(t) == \E p \in Places(t) : Launch(t, p)

StartStep(t) ==
  \/ StartRegular(t) /\ Launches(t)
  \/ Retry /\ t = pass.task /\ Launches(t)
  \/ StartBackground(t) /\ \E p \in Places(t) : ~PendingRegular(p[1], t) /\ Launch(t, p)

LEMMA TableMoves ==
  ASSUME RowsKnown, HandIsRegular, [Next]_vars
  PROVE  /\ RowsKnown' /\ OptionsKept
         /\ NothingStarts \/ \E t \in Task : StartStep(t)
<1>1. ASSUME NEW t \in Task, StartStep(t)
      PROVE  RowsKnown' /\ OptionsKept
  <2>1. PICK p \in Places(t) : Launch(t, p)
    BY <1>1 DEF StartStep, Launches
  <2> QED
    BY <2>1, LaunchKeeps DEF Places
<1>2. CASE rows' = rows
  BY <1>2 DEF RowsKnown, OptionsKept, NothingStarts, Opt
<1>3. CASE PassBegins
  BY <1>3, ResultsKeep
<1>4. ASSUME NEW t \in Task, ClientChanges(t)
      PROVE  RowsKnown' /\ OptionsKept /\ NothingStarts
  BY <1>4, StatementKeeps DEF ClientChanges
<1>5. ASSUME NEW t \in Task, Evict(t)
      PROVE  RowsKnown' /\ OptionsKept /\ NothingStarts
  <2>1. PICK v \in Task : rows' = [rows EXCEPT ![v] = PreemptTask(@)]
    BY <1>5 DEF Evict, VictimsOn, Running
  <2> QED
    BY <2>1, StatementKeeps
<1>6. ASSUME NEW t \in Task, StartRegular(t) \/ StartBackground(t)
      PROVE  StartStep(t) \/ rows' = rows
  BY <1>6 DEF StartRegular, StartBackground, StartStep, Launches
<1>7. ASSUME Retry
      PROVE  (\E t \in Task : StartStep(t)) \/ rows' = rows
  BY <1>7 DEF Retry, HandIsRegular, StartStep, Launches
<1>8. ASSUME \/ ListConditions \/ ProbesEnd \/ Reprobe \/ ListBackground
             \/ PassEnds \/ LoadChanges \/ TimePasses \/ UNCHANGED vars
             \/ (\E w \in Worker : ProbeWorker(w)) \/ (\E t \in Task : GiveUp(t))
      PROVE  rows' = rows
  BY <1>8 DEF ListConditions, ProbesEnd, Reprobe, ListBackground, PassEnds,
              LoadChanges, TimePasses, ProbeWorker, GiveUp, vars
<1> QED
  BY <1>1, <1>2, <1>3, <1>4, <1>5, <1>6, <1>7, <1>8 DEF Next, PassStep

-----------------------------------------------------------------------------
(* Ages *)

LEMMA OlderIsAge ==
  ASSUME NEW a \in Age
  PROVE  Older(a) \in Age /\ \A b \in Age : b <= a => Older(b) <= Older(a)
<1>1. MaxAge \in Nat /\ None \notin Nat
  BY ConditionsAssumption
<1>2. ASSUME NEW b \in Age
      PROVE  Older(b) = IF b = MaxAge THEN b ELSE b + 1
  BY <1>1 DEF Older, Age
<1>3. Older(a) \in Age
  BY <1>1, <1>2 DEF Age
<1>4. ASSUME NEW b \in Age, b <= a
      PROVE  Older(b) <= Older(a)
  <2>1. a \in Nat /\ b \in Nat /\ a <= MaxAge /\ b <= MaxAge
    BY <1>1 DEF Age
  <2>2. /\ Older(a) = IF a = MaxAge THEN a ELSE a + 1
        /\ Older(b) = IF b = MaxAge THEN b ELSE b + 1
    BY <1>2
  <2> QED
    BY <1>1, <1>4, <2>1, <2>2
<1> QED
  BY <1>3, <1>4

LEMMA TimedConditions == Timed \subseteq Condition
BY DEF Timed, Condition

Honest(s, o, a) == s # None => s <= o \/ a <= o

LEMMA ProbesKeepAges ==
  ASSUME AgesTyped, SinceIsHonest, NEW w, ProbeAnswers(w) \/ ProbeFails(w)
  PROVE  AgesTyped' /\ SinceIsHonest'
<1> USE ConditionsAssumption
<1>1. /\ over' \in [Worker -> [Gpu -> [Timed -> Age]]]
      /\ asked' \in [Timed -> Age]
      /\ \A k \in Timed : asked'[k] \in {asked[k], 0}
  <2>1. 0 \in Age
    BY DEF Age
  <2>2. ObserveProbe(w)
    BY DEF ProbeAnswers, ProbeFails
  <2>3. asked' \in [Timed -> Age] /\ \A k \in Timed : asked'[k] \in {asked[k], 0}
    BY <2>1, <2>2 DEF ObserveProbe, AgesTyped
  <2>4. CASE w \in Worker
    <3>1. ASSUME NEW g \in Gpu, NEW k \in Timed
          PROVE  (IF IsFree(reading[w][g], k) THEN over[w][g][k] ELSE 0) \in Age
      BY <2>1, <2>4 DEF AgesTyped
    <3> QED
      BY <2>2, <2>3, <2>4, <3>1 DEF ObserveProbe, AgesTyped
  <2>5. CASE w \notin Worker
    BY <2>2, <2>3, <2>5 DEF ObserveProbe, AgesTyped
  <2> QED
    BY <2>4, <2>5
<1>2. faults' \in Nat /\ faults' <= faults /\ (ProbeFails(w) => faults' < MaxFaults)
  BY DEF ProbeAnswers, ProbeFails, AgesTyped
<1>3. since' \in [Worker -> [Gpu -> [Condition -> Age \cup {None}]]]
  <2>1. CASE ProbeFails(w)
    BY <2>1 DEF ProbeFails, AgesTyped
  <2>2. CASE ProbeAnswers(w)
    <3>1. CASE w \in Worker
      <4>1. ASSUME NEW g \in Gpu, NEW k \in Condition
            PROVE  (IF k \in pass.conditions
                    THEN SinceAfter(since[w][g][k], reading[w][g], k)
                    ELSE since[w][g][k]) \in Age \cup {None}
        BY <3>1 DEF SinceAfter, AgesTyped, Age
      <4> QED
        BY <2>2, <4>1 DEF ProbeAnswers, UpdateConditions, AgesTyped
    <3>2. CASE w \notin Worker
      BY <2>2, <3>2 DEF ProbeAnswers, UpdateConditions, AgesTyped
    <3> QED
      BY <3>1, <3>2
  <2> QED
    BY <2>1, <2>2
<1>4. ASSUME faults' = MaxFaults, NEW v \in Worker, NEW g \in Gpu, NEW k \in Timed
      PROVE  Honest(since'[v][g][k], over'[v][g][k], asked'[k])
  <2>1. ProbeAnswers(w) /\ faults = MaxFaults
    BY <1>2, <1>4 DEF AgesTyped
  <2>2. /\ k \in Condition
        /\ since[v][g][k] \in Age \cup {None} /\ over[v][g][k] \in Age
        /\ asked[k] \in Age
    BY TimedConditions DEF AgesTyped
  <2>3. Honest(since[v][g][k], over[v][g][k], asked[k])
    BY <2>1 DEF SinceIsHonest, Honest
  <2>4. CASE v # w
    <3>1. since'[v][g][k] = since[v][g][k] /\ over'[v][g][k] = over[v][g][k]
      BY <2>1, <2>4 DEF ProbeAnswers, UpdateConditions, ObserveProbe, AgesTyped
    <3> QED
      BY <1>1, <2>2, <2>3, <3>1 DEF Honest, Age
  <2>5. CASE v = w
    <3>1. /\ since'[v][g][k] = IF k \in pass.conditions
                               THEN SinceAfter(since[v][g][k], reading[v][g], k)
                               ELSE since[v][g][k]
          /\ over'[v][g][k] = IF IsFree(reading[v][g], k) THEN over[v][g][k] ELSE 0
          /\ asked'[k] = IF k \in pass.conditions THEN asked[k] ELSE 0
      BY <2>1, <2>2, <2>5
      DEF ProbeAnswers, UpdateConditions, ObserveProbe, AgesTyped
    <3> QED
      BY <2>2, <2>3, <3>1 DEF SinceAfter, Honest, Age
  <2> QED
    BY <2>4, <2>5
<1> QED
  BY <1>1, <1>2, <1>3, <1>4 DEF AgesTyped, SinceIsHonest, Honest

LEMMA TimeKeepsAges ==
  ASSUME AgesTyped, SinceIsHonest, TimePasses
  PROVE  AgesTyped' /\ SinceIsHonest'
<1> USE ConditionsAssumption
<1>1. ASSUME NEW a \in Age \cup {None}
      PROVE  Older(a) \in Age \cup {None} /\ (Older(a) # None <=> a # None)
  BY <1>1 DEF Older, Age
<1>2. since' \in [Worker -> [Gpu -> [Condition -> Age \cup {None}]]]
  BY <1>1 DEF TimePasses, AgesTyped
<1>3. over' \in [Worker -> [Gpu -> [Timed -> Age]]] /\ asked' \in [Timed -> Age]
  BY OlderIsAge DEF TimePasses, AgesTyped
<1>4. ASSUME faults' = MaxFaults, NEW v \in Worker, NEW g \in Gpu, NEW k \in Timed
      PROVE  Honest(since'[v][g][k], over'[v][g][k], asked'[k])
  <2>1. /\ k \in Condition
        /\ since[v][g][k] \in Age \cup {None} /\ over[v][g][k] \in Age
        /\ asked[k] \in Age
    BY TimedConditions DEF AgesTyped
  <2>2. Honest(since[v][g][k], over[v][g][k], asked[k])
    BY <1>4 DEF SinceIsHonest, Honest, TimePasses
  <2>3. /\ since'[v][g][k] = Older(since[v][g][k])
        /\ over'[v][g][k] = Older(over[v][g][k])
        /\ asked'[k] = Older(asked[k])
    BY <2>1 DEF TimePasses
  <2> QED
    BY <1>1, <2>1, <2>2, <2>3, OlderIsAge DEF Honest
<1> QED
  BY <1>2, <1>3, <1>4 DEF AgesTyped, SinceIsHonest, Honest, TimePasses

LEMMA FailureKeepsAges ==
  ASSUME AgesTyped, SinceIsHonest, UNCHANGED <<since, over, asked>>,
         faults' = faults \/ (faults > 0 /\ faults' = faults - 1)
  PROVE  AgesTyped' /\ SinceIsHonest'
BY ConditionsAssumption DEF AgesTyped, SinceIsHonest

LEMMA AgesStep ==
  ASSUME AgesTyped, SinceIsHonest, [Next]_vars
  PROVE  AgesTyped' /\ SinceIsHonest'
<1>1. ASSUME NEW w \in Worker, ProbeWorker(w)
      PROVE  AgesTyped' /\ SinceIsHonest'
  BY <1>1, ProbesKeepAges DEF ProbeWorker
<1>2. CASE Reprobe
  BY <1>2, ProbesKeepAges DEF Reprobe
<1>3. CASE TimePasses
  BY <1>3, TimeKeepsAges
<1>4. ASSUME NEW t \in Task, StartRegular(t) \/ StartBackground(t)
      PROVE  AgesTyped' /\ SinceIsHonest'
  BY <1>4, FailureKeepsAges DEF StartRegular, StartBackground, Launch
<1>5. CASE Retry
  BY <1>5, FailureKeepsAges DEF Retry, Launch
<1>6. ASSUME NEW t \in Task, Evict(t) \/ GiveUp(t) \/ ClientChanges(t)
      PROVE  AgesTyped' /\ SinceIsHonest'
  BY <1>6, FailureKeepsAges DEF Evict, GiveUp, ClientChanges
<1>7. CASE \/ PassBegins \/ ListConditions \/ ProbesEnd \/ ListBackground
           \/ PassEnds \/ LoadChanges \/ UNCHANGED vars
  BY <1>7, FailureKeepsAges
  DEF PassBegins, ListConditions, ProbesEnd, ListBackground, PassEnds,
      LoadChanges, vars
<1> QED
  BY <1>1, <1>2, <1>3, <1>4, <1>5, <1>6, <1>7 DEF Next, PassStep

-----------------------------------------------------------------------------
(* Evictions *)

LEMMA EvictionStaysFine ==
  ASSUME OptionsKept, NEW v \in Task, NEW e \in Eviction \cup {None},
         EvictorFine(rows, v, e)
  PROVE  EvictorFine(rows', v, e)
BY DEF OptionsKept, Opt, EvictorFine, Eviction

LEMMA ConditionsAreConditions == ConditionsAsked \subseteq Condition
BY DEF ConditionsAsked, Condition, Window, Queued, Running

LEMMA NoPassTyped == NoPass \in PassRecord /\ NoPass.phase = "idle"
BY DEF NoPass, PassRecord

LEMMA HandStep ==
  ASSUME RowsKnown, HandIsRegular, [Next]_vars
  PROVE  HandIsRegular'
<1>1. OptionsKept
  BY TableMoves
<1>2. \A t \in Task : Opt(t)' = Opt(t)
  BY <1>1 DEF OptionsKept
<1>3. CASE pass' = pass
  BY <1>2, <1>3 DEF HandIsRegular
<1>4. CASE PassBegins \/ PassEnds \/ pass' = NoPass
  <2>1. pass' \in PassRecord /\ pass'.phase \in {"idle", "list"}
    BY <1>4, NoPassTyped DEF PassBegins, PassEnds, PassRecord
  <2> QED
    BY <2>1 DEF HandIsRegular
<1>5. CASE ListConditions
  <2>1. pass' \in PassRecord /\ pass'.phase = "probe"
    BY <1>5, ConditionsAreConditions DEF ListConditions, HandIsRegular, PassRecord
  <2> QED
    BY <2>1 DEF HandIsRegular
<1>6. ASSUME NEW w \in Worker, ProbeWorker(w)
      PROVE  HandIsRegular'
  <2>1. pass' \in PassRecord /\ pass'.phase = "probe"
    BY <1>6 DEF ProbeWorker, HandIsRegular, PassRecord
  <2> QED
    BY <2>1 DEF HandIsRegular
<1>7. CASE ProbesEnd
  <2>1. pass' = NoPass \/ (pass' \in PassRecord /\ pass'.phase = "regular")
    BY <1>7 DEF ProbesEnd, HandIsRegular, PassRecord
  <2> QED
    BY <1>4, <2>1 DEF HandIsRegular
<1>8. ASSUME NEW t \in Task, StartRegular(t) \/ GiveUp(t) \/ StartBackground(t)
      PROVE  HandIsRegular'
  <2>1. pass' \in PassRecord /\ pass'.phase = pass.phase
        /\ pass.phase \in {"regular", "background"}
    BY <1>8 DEF StartRegular, GiveUp, StartBackground, Attempted, HandIsRegular,
                PassRecord
  <2> QED
    BY <2>1 DEF HandIsRegular
<1>9. ASSUME NEW t \in Task, Evict(t)
      PROVE  HandIsRegular'
  <2>1. PICK w \in Worker :
          pass' = [pass EXCEPT !.phase = "reprobe", !.task = t,
                               !.host = w, !.attempted = @ \cup {t}]
    BY <1>9 DEF Evict, Offering
  <2>2. ~Opt(t).background
    BY <1>9 DEF Evict, NextRegular, FirstOf
  <2>3. pass' \in PassRecord /\ pass'.task = t
    BY <2>1 DEF HandIsRegular, PassRecord
  <2> QED
    BY <1>2, <2>2, <2>3 DEF HandIsRegular
<1>10. CASE Reprobe
  <2>1. pass' \in PassRecord /\ pass'.task = pass.task /\ pass.phase = "reprobe"
    BY <1>10 DEF Reprobe, HandIsRegular, PassRecord
  <2> QED
    BY <1>2, <2>1 DEF HandIsRegular
<1>11. CASE Retry
  <2>1. pass' \in PassRecord /\ pass'.phase = "regular"
    BY <1>11 DEF Retry, HandIsRegular, PassRecord
  <2> QED
    BY <2>1 DEF HandIsRegular
<1>12. CASE ListBackground
  <2>1. pass' \in PassRecord /\ pass'.phase = "background"
    BY <1>12 DEF ListBackground, Window, Queued, HandIsRegular, PassRecord
  <2> QED
    BY <2>1 DEF HandIsRegular
<1>13. CASE LoadChanges \/ TimePasses \/ UNCHANGED vars
            \/ \E t \in Task : ClientChanges(t)
  BY <1>3, <1>13 DEF LoadChanges, TimePasses, ClientChanges, vars
<1> QED
  BY <1>4, <1>5, <1>6, <1>7, <1>8, <1>9, <1>10, <1>11, <1>12, <1>13
  DEF Next, PassStep

LEMMA EvictorStep ==
  ASSUME RowsKnown, HandIsRegular, EvictorKnown, [Next]_vars
  PROVE  EvictorKnown'
<1>1. OptionsKept
  BY TableMoves
<1>2. \A v \in Task : EvictorFine(rows', v, evictor[v]) /\ EvictorFine(rows', v, None)
  BY <1>1, EvictionStaysFine DEF EvictorKnown, EvictorFine
<1>3. ASSUME evictor' = evictor \/ \E t \in Task : evictor' = [evictor EXCEPT ![t] = None]
      PROVE  EvictorKnown'
  <2>1. evictor' \in [Task -> Eviction \cup {None}]
    BY <1>3 DEF EvictorKnown
  <2>2. \A v \in Task : evictor'[v] \in {evictor[v], None}
    BY <1>3 DEF EvictorKnown
  <2> QED
    BY <1>2, <2>1, <2>2 DEF EvictorKnown
<1>4. ASSUME NEW t \in Task, Evict(t)
      PROVE  EvictorKnown'
  <2> DEFINE background == Offering(t, TRUE) # {}
  <2>1. PICK w \in Offering(t, background) :
          \E v \in VictimsOn(t, w, background) :
            evictor' = [evictor EXCEPT ![v] = IF background
                                              THEN [task |-> t, host |-> w] ELSE None]
    BY <1>4 DEF Evict
  <2>2. PICK v \in VictimsOn(t, w, background) :
          evictor' = [evictor EXCEPT ![v] = IF background
                                            THEN [task |-> t, host |-> w] ELSE None]
    BY <2>1
  <2>3. w \in Worker /\ Opt(t).target \in {None, w}
    BY <2>1 DEF Offering
  <2>4. /\ v \in Task /\ Opt(t).priority > Opt(v).priority
        /\ Opt(v).background = background
    BY <2>2 DEF VictimsOn, Running
  <2>5. ~Opt(t).background
    BY <1>4 DEF Evict, NextRegular, FirstOf
  <2>6. CASE ~background
    BY <1>3, <2>2, <2>4, <2>6
  <2>7. CASE background
    <3> DEFINE e == [task |-> t, host |-> w]
    <3>1. evictor' = [evictor EXCEPT ![v] = e]
      BY <2>2, <2>7
    <3>2. e \in Eviction /\ e.task = t /\ e.host = w
      BY <2>3 DEF Eviction
    <3>3. EvictorFine(rows, v, e)
      BY <2>3, <2>4, <2>5, <2>7, <3>2 DEF EvictorFine, HoldsBack, Opt
    <3> HIDE DEF e
    <3>4. EvictorFine(rows', v, e)
      BY <1>1, <2>4, <3>2, <3>3, EvictionStaysFine
    <3> QED
      BY <1>2, <2>4, <3>1, <3>2, <3>4 DEF EvictorKnown
  <2> QED
    BY <2>6, <2>7
<1>5. ASSUME NEW t \in Task, StartRegular(t) \/ StartBackground(t)
      PROVE  EvictorKnown'
  BY <1>3, <1>5 DEF StartRegular, StartBackground, Launch
<1>6. CASE Retry
  BY <1>3, <1>6 DEF Retry, Launch, HandIsRegular
<1>7. CASE \/ PassBegins \/ ListConditions \/ ProbesEnd \/ Reprobe \/ ListBackground
           \/ PassEnds \/ LoadChanges \/ TimePasses \/ UNCHANGED vars
           \/ (\E w \in Worker : ProbeWorker(w))
           \/ (\E t \in Task : GiveUp(t) \/ ClientChanges(t))
  <2>1. evictor' = evictor
    BY <1>7 DEF PassBegins, ListConditions, ProbesEnd, Reprobe, ListBackground,
                PassEnds, LoadChanges, TimePasses, vars, ProbeWorker, GiveUp,
                ClientChanges
  <2> QED
    BY <1>3, <2>1
<1> QED
  BY <1>4, <1>5, <1>6, <1>7 DEF Next, PassStep

-----------------------------------------------------------------------------
(* All parts together *)

LEMMA ConditionsBegin == Init => ConditionsInv
<1> SUFFICES ASSUME Init PROVE ConditionsInv
  OBVIOUS
<1>1. RowsKnown
  <2>1. PICK o \in [Task -> UNION {Submissions[t] : t \in Task}] :
          /\ \A t \in Task : o[t] \in Submissions[t]
          /\ rows = [t \in Task |-> CreateTask(AbsentRow, o[t], FALSE)]
    BY DEF Init
  <2>2. ASSUME NEW t \in Task
        PROVE  CreateTask(AbsentRow, o[t], FALSE) \in Row
    <3>1. o[t] \in Option
      BY <2>1, SubmissionsAssumption
    <3>2. Normalized(o[t]) \in Option
      BY <3>1 DEF Normalized, Option
    <3> QED
      BY <3>2 DEF CreateTask, AbsentRow, Row, Status
  <2> QED
    BY <2>1, <2>2 DEF RowsKnown
<1>2. AgesTyped /\ SinceIsHonest
  <2>1. MaxAge \in Age /\ faults \in Nat /\ faults <= MaxFaults
    BY ConditionsAssumption DEF Init, Age
  <2>2. /\ since \in [Worker -> [Gpu -> [Condition -> Age \cup {None}]]]
        /\ \A w \in Worker, g \in Gpu, k \in Condition : since[w][g][k] = None
    BY DEF Init
  <2>3. /\ over \in [Worker -> [Gpu -> [Timed -> Age]]]
        /\ asked \in [Timed -> Age]
    BY <2>1 DEF Init
  <2> QED
    BY <2>1, <2>2, <2>3, TimedConditions DEF AgesTyped, SinceIsHonest
<1>3. HandIsRegular
  BY NoPassTyped DEF Init, HandIsRegular
<1>4. EvictorKnown
  BY DEF Init, EvictorKnown, EvictorFine
<1> QED
  BY <1>1, <1>2, <1>3, <1>4 DEF ConditionsInv

LEMMA ConditionsInvariant == Spec => []ConditionsInv
<1>1. ConditionsInv /\ [Next]_vars => ConditionsInv'
  BY TableMoves, AgesStep, HandStep, EvictorStep DEF ConditionsInv
<1> QED
  BY <1>1, ConditionsBegin, PTL DEF Spec

(* A task that starts was placed where it starts. *)
LEMMA StartsAreLaunches ==
  ASSUME ConditionsInv, [Next]_vars, NEW t \in Task, NEW w, NEW g, StartsOn(t, w, g)
  PROVE  /\ <<w, g>> \in Places(t)
         /\ ~Opt(t).background \/ ~PendingRegular(w, t)
<1>1. PICK u \in Task : StartStep(u)
  BY TableMoves DEF ConditionsInv, StartsOn, NothingStarts
<1>2. PICK p \in Places(u) :
        /\ Launch(u, p)
        /\ ~Opt(u).background \/ ~PendingRegular(p[1], u)
  <2>1. CASE StartRegular(u) /\ Launches(u)
    BY <2>1 DEF Launches, StartRegular, NextRegular, FirstOf
  <2>2. CASE Retry /\ u = pass.task /\ Launches(u)
    BY <2>2 DEF Launches, Retry, ConditionsInv, HandIsRegular
  <2>3. CASE StartBackground(u)
             /\ \E p \in Places(u) : ~PendingRegular(p[1], u) /\ Launch(u, p)
    BY <2>3
  <2> QED
    BY <1>1, <2>1, <2>2, <2>3 DEF StartStep
<1>3. p \in Worker \X Gpu
  BY DEF Places
<1>4. rows' = [rows EXCEPT ![u] = MarkRunning(@, p[1], {p[2]})]
  BY <1>2 DEF Launch, StartsOn
<1>5. t = u
  BY <1>4 DEF StartsOn, ConditionsInv, RowsKnown
<1>6. rows'[t].worker = p[1] /\ rows'[t].gpus = {p[2]}
  <2>1. rows[t] \in Row /\ rows'[t] = MarkRunning(rows[t], p[1], {p[2]})
    BY <1>4, <1>5 DEF ConditionsInv, RowsKnown
  <2> QED
    BY <2>1 DEF MarkRunning, StartsOn, Row
<1>7. p = <<w, g>>
  BY <1>3, <1>6 DEF StartsOn
<1> QED
  BY <1>2, <1>5, <1>7

(***************************************************************************)
(* A task with min_free_seconds starts only on a GPU that no probe of that *)
(* many seconds read over the task's thresholds, if each of them asked for *)
(* its condition and was answered: free_since is reset by every such       *)
(* probe, however passes, loads and evictions interleave.                  *)
(***************************************************************************)
THEOREM WaitsAreObserved == Spec => WaitIsObserved
<1>1. ASSUME ConditionsInv, [Next]_vars,
             NEW t \in Task, NEW w \in Worker, NEW g \in Gpu,
             StartsOn(t, w, g), ConditionOf(t) \in Timed,
             asked[ConditionOf(t)] >= Wants[t].seconds, faults = MaxFaults
      PROVE  over[w][g][ConditionOf(t)] >= Wants[t].seconds
  <2> DEFINE k == ConditionOf(t)
  <2>1. Satisfies(t, w, g)
    BY <1>1, StartsAreLaunches DEF Places
  <2>2. /\ k \in Condition /\ Wants[t].seconds \in Nat
        /\ over[w][g][k] \in Nat /\ asked[k] \in Nat
        /\ since[w][g][k] # None => since[w][g][k] \in Nat
    BY <1>1, TimedConditions, ConditionsAssumption
    DEF ConditionsInv, AgesTyped, Age, Want
  <2>3. CASE Wants[t].seconds = 0
    BY <2>2, <2>3
  <2>4. CASE Wants[t].seconds > 0
    <3>1. since[w][g][k] # None /\ since[w][g][k] >= Wants[t].seconds
      BY <2>1, <2>4 DEF Satisfies
    <3>2. since[w][g][k] <= over[w][g][k] \/ asked[k] <= over[w][g][k]
      BY <1>1, <3>1 DEF ConditionsInv, SinceIsHonest
    <3> QED
      BY <1>1, <2>2, <3>1, <3>2
  <2> QED
    BY <2>2, <2>3, <2>4
<1>2. ConditionsInv /\ [Next]_vars =>
        [\A t \in Task, w \in Worker, g \in Gpu :
           LET k == ConditionOf(t)
           IN  ( /\ StartsOn(t, w, g) /\ k \in Timed
                 /\ asked[k] >= Wants[t].seconds /\ faults = MaxFaults )
                 => over[w][g][k] >= Wants[t].seconds]_vars
  BY <1>1
<1> QED
  BY <1>2, ConditionsInvariant, PTL DEF Spec, WaitIsObserved

(***************************************************************************)
(* A background task that was evicted for a regular one is not started     *)
(* again on that worker while the other is in the window of the queue:     *)
(* _worker_has_pending_regular_task finds it, since priorities, kinds and  *)
(* targets of tasks do not change while they wait.                         *)
(***************************************************************************)
THEOREM VictimsWait == Spec => VictimWaitsForPreemptor
<1>1. ASSUME ConditionsInv, [Next]_vars,
             NEW v \in Task, NEW w \in Worker, NEW g \in Gpu,
             StartsOn(v, w, g), evictor[v] # None, evictor[v].host = w
      PROVE  evictor[v].task \notin Window
  <2>1. /\ Opt(v).background
        /\ HoldsBack(Opt(evictor[v].task), Opt(v), w)
    BY <1>1 DEF ConditionsInv, EvictorKnown, EvictorFine, Opt
  <2>2. ~PendingRegular(w, v)
    BY <1>1, <2>1, StartsAreLaunches
  <2> QED
    BY <2>1, <2>2 DEF PendingRegular, HoldsBack
<1>2. ConditionsInv /\ [Next]_vars =>
        [\A v \in Task, w \in Worker, g \in Gpu :
           ( /\ StartsOn(v, w, g)
             /\ evictor[v] # None /\ evictor[v].host = w )
             => evictor[v].task \notin Window]_vars
  BY <1>1
<1> QED
  BY <1>2, ConditionsInvariant, PTL DEF Spec, VictimWaitsForPreemptor
=============================================================================
