--------------------------- MODULE GpuConditions ---------------------------
(***************************************************************************)
(* Which GPUs a queued task may use, and since when: the readings of       *)
(* nvidia-smi, the gpu_condition_states table (update_gpu_condition_states *)
(* of src/gpu_watcher/store.py) and the dispatch pass of                   *)
(* src/gpu_watcher/scheduler.py as far as min_free_seconds, evictions and  *)
(* the window of queued_tasks go.  Tasks ask for one GPU each and workers  *)
(* have no limits; Placement has the numbers.                              *)
(*                                                                         *)
(* Time is a set of ages that grow together and stop growing at MaxAge:    *)
(* since[w][g][k] is the age of free_since.                                *)
(***************************************************************************)
EXTENDS TaskTable

CONSTANTS
  Wants,        \* [Task -> Want]: thresholds and min_free_seconds of a task
  Created,      \* [Task -> Nat]: order of created_at
  FreeMemory, FreeUtilization,   \* [daemon] free_memory_mb, ..._percent
  Readings,     \* SUBSET Reading: what nvidia-smi may say of a GPU
  Total,        \* memory_total_mb of a GPU, 0 when unknown
  QueueWindow,  \* LIMIT of queued_tasks (100 in the code)
  MaxAge,       \* ages stop growing here
  MaxFaults     \* bound on the probes and launches that fail

Reading == [used : Nat, utilization : Nat]

Want ==
  [used : Nat \cup {None},          \* max_memory_used_mb
   utilization : Nat \cup {None},   \* max_utilization_percent
   free : Nat \cup {None},          \* min_free_memory_mb
   seconds : Nat]                   \* min_free_seconds

ASSUME ConditionsAssumption ==
  /\ None \notin Nat
  /\ Wants \in [Task -> Want] /\ Created \in [Task -> Nat]
  /\ FreeMemory \in Nat /\ FreeUtilization \in Nat /\ Total \in Nat
  /\ Readings \subseteq Reading /\ Readings # {}
  /\ QueueWindow \in Nat \ {0} /\ MaxFaults \in Nat
  /\ MaxAge \in Nat /\ \A t \in Task : Wants[t].seconds <= MaxAge

VARIABLES
  rows,      \* [Task -> Row]: the tasks table
  reading,   \* reading[w][g]: what a probe of w would read now
  since,     \* since[w][g][k]: age of free_since of condition k, or None
  seen,      \* worker_states: the readings of this pass, None for no answer
  pass,      \* the thread in dispatch_queued_tasks
  faults,    \* failures that may still happen
  over,      \* history: age of the last probe of g that read it over k
  asked,     \* history: age of the last probe that left condition k out
  evictor    \* history: for which task background task t was evicted, where

vars == <<rows, reading, since, seen, pass, faults, over, asked, evictor>>

-----------------------------------------------------------------------------
(* Conditions *)

Huge == 999999

Default == [used |-> FreeMemory, utilization |-> FreeUtilization, free |-> None]

(* _condition_for_task *)
ConditionOf(t) ==
  [used        |-> IF Wants[t].used # None THEN Wants[t].used
                   ELSE IF Wants[t].free # None THEN Huge
                   ELSE FreeMemory,
   utilization |-> IF Wants[t].utilization # None THEN Wants[t].utilization
                   ELSE FreeUtilization,
   free        |-> Wants[t].free]

Condition == {Default} \cup {ConditionOf(t) : t \in Task}

(* The conditions that some task waits for *)
Timed == {ConditionOf(t) : t \in {u \in Task : Wants[u].seconds > 0}}

(* GpuState.is_free *)
IsFree(r, k) ==
  /\ r.used <= k.used
  /\ r.utilization <= k.utilization
  /\ k.free # None => Total > 0 /\ (k.free = 0 \/ r.used + k.free <= Total)

-----------------------------------------------------------------------------
(* The queue *)

Opt(t) == rows[t].options

Queued == {t \in Task : rows[t].status = "queued"}

Running == {t \in Task : rows[t].status = "running"}

(* ORDER BY priority DESC, created_at ASC *)
Before(t, u) ==
  \/ Opt(t).priority > Opt(u).priority
  \/ Opt(t).priority = Opt(u).priority /\ Created[t] < Created[u]

(* queued_tasks *)
Window ==
  {t \in Queued : Cardinality({u \in Queued : Before(u, t)}) < QueueWindow}

FirstOf(S) == {t \in S : \A u \in S \ {t} : Before(t, u)}

(* _conditions_for_tasks, of the queued and the running elastic tasks *)
ConditionsAsked ==
  {Default} \cup
    {ConditionOf(t) :
       t \in Window \cup {u \in Running : Opt(u).background /\ Opt(u).elastic}}

-----------------------------------------------------------------------------
(* Mutant: a GPU that is over the thresholds keeps the time it had. *)
SinceAfterKept(old, r, k) ==
  IF old # None \/ IsFree(r, k) THEN IF old # None THEN old ELSE 0 ELSE None

(* One row of update_gpu_condition_states *)
SinceAfter(old, r, k) ==
  IF IsFree(r, k) THEN IF old # None THEN old ELSE 0 ELSE None

(* update_gpu_condition_states *)
UpdateConditions(w) ==
  since' = [since EXCEPT ![w] = [g \in Gpu |-> [k \in Condition |->
              IF k \in pass.conditions
              THEN SinceAfter(since[w][g][k], reading[w][g], k)
              ELSE since[w][g][k]]]]

(* What the two histories note of a probe of w, answered or not *)
ObserveProbe(w) ==
  /\ over' = [over EXCEPT ![w] = [g \in Gpu |-> [k \in Timed |->
                IF IsFree(reading[w][g], k) THEN over[w][g][k] ELSE 0]]]
  /\ asked' = [k \in Timed |-> IF k \in pass.conditions THEN asked[k] ELSE 0]

Occupied(w) == UNION {rows[u].gpus : u \in {v \in Running : rows[v].worker = w}}

(* _gpu_satisfies_task *)
Satisfies(t, w, g) ==
  LET k == ConditionOf(t)
  IN  /\ IsFree(seen[w][g], k)
      /\ Wants[t].seconds > 0
           => since[w][g][k] # None /\ since[w][g][k] >= Wants[t].seconds

(* _find_plan, for one GPU *)
Places(t) ==
  {p \in Worker \X Gpu :
     /\ Opt(t).target \in {None, p[1]}
     /\ seen[p[1]] # None
     /\ p[2] \notin Occupied(p[1])
     /\ Satisfies(t, p[1], p[2])}

(* _start_with_requeue_on_failure *)
Launch(t, p) ==
  \/ /\ rows' = [rows EXCEPT ![t] = MarkRunning(@, p[1], {p[2]})]
     /\ evictor' = IF rows' = rows THEN evictor ELSE [evictor EXCEPT ![t] = None]
     /\ UNCHANGED faults
  \/ /\ faults > 0 /\ faults' = faults - 1
     /\ UNCHANGED <<rows, evictor>>

-----------------------------------------------------------------------------
(* A dispatch pass *)

NoPass ==
  [phase |-> "idle", queued |-> FALSE, conditions |-> {}, probe |-> {},
   attempted |-> {}, background |-> {}, task |-> None, host |-> None]

Init ==
  /\ \E o \in [Task -> UNION {Submissions[t] : t \in Task}] :
       /\ \A t \in Task : o[t] \in Submissions[t]
       /\ rows = [t \in Task |-> CreateTask(AbsentRow, o[t], FALSE)]
  /\ reading \in [Worker -> [Gpu -> Readings]]
  /\ since = [w \in Worker |-> [g \in Gpu |-> [k \in Condition |-> None]]]
  /\ seen = [w \in Worker |-> None]
  /\ pass = NoPass
  /\ faults = MaxFaults
  /\ over = [w \in Worker |-> [g \in Gpu |-> [k \in Timed |-> MaxAge]]]
  /\ asked = [k \in Timed |-> MaxAge]
  /\ evictor = [t \in Task |-> None]

(* Results that refresh_running_tasks files, and the lock is taken. *)
PassBegins ==
  /\ pass.phase = "idle"
  /\ \E ended \in SUBSET Running, code \in ExitCode :
       rows' = [t \in Task |-> IF t \in ended THEN FinishTask(rows[t], code)
                                              ELSE rows[t]]
  /\ pass' = [NoPass EXCEPT !.phase = "list"]
  /\ UNCHANGED <<reading, since, seen, faults, over, asked, evictor>>

ListConditions ==
  /\ pass.phase = "list"
  /\ pass' = [pass EXCEPT !.phase = "probe", !.queued = Queued # {},
                          !.conditions = ConditionsAsked, !.probe = Worker]
  /\ UNCHANGED <<rows, reading, since, seen, faults, over, asked, evictor>>

ProbeAnswers(w) ==
  /\ seen' = [seen EXCEPT ![w] = reading[w]]
  /\ UpdateConditions(w)
  /\ ObserveProbe(w)
  /\ UNCHANGED faults

ProbeFails(w) ==
  /\ faults > 0 /\ faults' = faults - 1
  /\ seen' = [seen EXCEPT ![w] = None]
  /\ ObserveProbe(w)
  /\ UNCHANGED since

(* _probe_workers *)
ProbeWorker(w) ==
  /\ pass.phase = "probe" /\ w \in pass.probe
  /\ ProbeAnswers(w) \/ ProbeFails(w)
  /\ pass' = [pass EXCEPT !.probe = @ \ {w}]
  /\ UNCHANGED <<rows, reading, evictor>>

(* Nothing follows when no task was queued. *)
ProbesEnd ==
  /\ pass.phase = "probe" /\ pass.probe = {}
  /\ pass' = IF pass.queued THEN [pass EXCEPT !.phase = "regular"] ELSE NoPass
  /\ seen' = IF pass.queued THEN seen ELSE [w \in Worker |-> None]
  /\ UNCHANGED <<rows, reading, since, faults, over, asked, evictor>>

NextRegular ==
  FirstOf({t \in Window : ~Opt(t).background} \ pass.attempted)

Attempted(t) == pass' = [pass EXCEPT !.attempted = @ \cup {t}]

StartRegular(t) ==
  /\ pass.phase = "regular" /\ t \in NextRegular
  /\ \E p \in Places(t) : Launch(t, p)
  /\ Attempted(t)
  /\ UNCHANGED <<reading, since, seen, over, asked>>

(* _preempt_background_for_task, then _preempt_for_task if it found nobody *)
VictimsOn(t, w, background) ==
  {v \in Running :
     /\ rows[v].worker = w
     /\ Opt(v).priority < Opt(t).priority
     /\ Opt(v).background = background
     /\ ~background => Opt(v).preemptible /\ Opt(t).allow_preempt}

Offering(t, background) ==
  {w \in Worker : /\ seen[w] # None /\ Opt(t).target \in {None, w}
                  /\ VictimsOn(t, w, background) # {}}

Evict(t) ==
  /\ pass.phase = "regular" /\ t \in NextRegular
  /\ Places(t) = {}
  /\ LET background == Offering(t, TRUE) # {}
     IN  \E w \in Offering(t, background) :
           \E v \in VictimsOn(t, w, background) :
             /\ \A u \in VictimsOn(t, w, background) :
                  Opt(v).priority <= Opt(u).priority
             /\ rows' = [rows EXCEPT ![v] = PreemptTask(@)]
             /\ evictor' = [evictor EXCEPT ![v] =
                               IF background THEN [task |-> t, host |-> w]
                                             ELSE None]
             /\ pass' = [pass EXCEPT !.phase = "reprobe", !.task = t,
                                     !.host = w, !.attempted = @ \cup {t}]
  /\ UNCHANGED <<reading, since, seen, faults, over, asked>>

(* _refresh_worker_state *)
Reprobe ==
  /\ pass.phase = "reprobe"
  /\ ProbeAnswers(pass.host) \/ ProbeFails(pass.host)
  /\ pass' = [pass EXCEPT !.phase = "retry", !.host = None]
  /\ UNCHANGED <<rows, reading, evictor>>

Retry ==
  /\ pass.phase = "retry"
  /\ \/ \E p \in Places(pass.task) : Launch(pass.task, p)
     \/ Places(pass.task) = {} /\ UNCHANGED <<rows, faults, evictor>>
  /\ pass' = [pass EXCEPT !.phase = "regular", !.task = None]
  /\ UNCHANGED <<reading, since, seen, over, asked>>

(* Mutant: the first task that fits nowhere ends the loop. *)
GiveUpAndStop(t) ==
  /\ pass.phase = "regular" /\ t \in NextRegular
  /\ Places(t) = {} /\ \A background \in BOOLEAN : Offering(t, background) = {}
  /\ pass' = [pass EXCEPT !.phase = "background"]
  /\ UNCHANGED <<rows, reading, since, seen, faults, over, asked, evictor>>

GiveUp(t) ==
  /\ pass.phase = "regular" /\ t \in NextRegular
  /\ Places(t) = {} /\ \A background \in BOOLEAN : Offering(t, background) = {}
  /\ Attempted(t)
  /\ UNCHANGED <<rows, reading, since, seen, faults, over, asked, evictor>>

ListBackground ==
  /\ pass.phase = "regular" /\ NextRegular = {}
  /\ pass' = [pass EXCEPT !.phase = "background",
                          !.background = {t \in Window : Opt(t).background}]
  /\ UNCHANGED <<rows, reading, since, seen, faults, over, asked, evictor>>

(* Mutant: nothing holds a background task back. *)
NoPendingRegular(w, t) == FALSE

(* _worker_has_pending_regular_task *)
PendingRegular(w, t) ==
  \E u \in Window :
    /\ ~Opt(u).background /\ Opt(u).priority > Opt(t).priority
    /\ Opt(u).target \in {None, w}

StartBackground(t) ==
  /\ pass.phase = "background" /\ t \in FirstOf(pass.background)
  /\ \/ \E p \in Places(t) : ~PendingRegular(p[1], t) /\ Launch(t, p)
     \/ /\ \E p \in Places(t) : PendingRegular(p[1], t)
        /\ UNCHANGED <<rows, faults, evictor>>
     \/ Places(t) = {} /\ UNCHANGED <<rows, faults, evictor>>
  /\ pass' = [pass EXCEPT !.background = @ \ {t}]
  /\ UNCHANGED <<reading, since, seen, over, asked>>

PassEnds ==
  /\ pass.phase = "background" /\ pass.background = {}
  /\ pass' = NoPass
  /\ seen' = [w \in Worker |-> None]
  /\ UNCHANGED <<rows, reading, since, faults, over, asked, evictor>>

-----------------------------------------------------------------------------
(* Around it: clients, the GPUs and time *)

ClientChanges(t) ==
  /\ \/ rows' = [rows EXCEPT ![t] = StartTask(@)]
     \/ rows' = [rows EXCEPT ![t] = RerunTask(@)]
     \/ rows' = [rows EXCEPT ![t] = PauseTask(@, TRUE)]
     \/ rows' = [rows EXCEPT ![t] = CancelTask(@)]
  /\ rows' # rows
  /\ UNCHANGED <<reading, since, seen, pass, faults, over, asked, evictor>>

LoadChanges ==
  /\ \E w \in Worker, g \in Gpu, r \in Readings :
       reading' = [reading EXCEPT ![w][g] = r]
  /\ UNCHANGED <<rows, since, seen, pass, faults, over, asked, evictor>>

Older(age) == IF age = None \/ age = MaxAge THEN age ELSE age + 1

TimePasses ==
  /\ since' = [w \in Worker |-> [g \in Gpu |-> [k \in Condition |->
                 Older(since[w][g][k])]]]
  /\ over' = [w \in Worker |-> [g \in Gpu |-> [k \in Timed |->
                 Older(over[w][g][k])]]]
  /\ asked' = [k \in Timed |-> Older(asked[k])]
  /\ UNCHANGED <<rows, reading, seen, pass, faults, evictor>>

PassStep ==
  \/ ListConditions \/ ProbesEnd \/ \E w \in Worker : ProbeWorker(w)
  \/ \E t \in Task :
       StartRegular(t) \/ Evict(t) \/ GiveUp(t) \/ StartBackground(t)
  \/ Reprobe \/ Retry \/ ListBackground \/ PassEnds

Next ==
  \/ PassBegins \/ PassStep
  \/ \E t \in Task : ClientChanges(t)
  \/ LoadChanges \/ TimePasses

(* The daemon keeps ticking, a pass goes on, and time passes. *)
Spec ==
  /\ Init /\ [][Next]_vars
  /\ WF_vars(PassBegins) /\ WF_vars(PassStep) /\ WF_vars(TimePasses)

-----------------------------------------------------------------------------
StartsOn(t, w, g) ==
  /\ rows[t].status = "queued" /\ rows'[t].status = "running"
  /\ rows'[t].worker = w /\ g \in rows'[t].gpus

(***************************************************************************)
(* "If a queued task requires min_free_seconds, it starts only after that  *)
(* condition has remained true long enough" (docs/architecture.md): no     *)
(* probe of that many seconds read the GPU over the thresholds of the task *)
(* - provided every probe of that time asked for its condition and was     *)
(* answered.  Without the proviso it is false: while no queued task has a  *)
(* condition, its free_since stays as it is, whatever the GPU does.        *)
(***************************************************************************)
WaitIsObserved ==
  [][\A t \in Task, w \in Worker, g \in Gpu :
       LET k == ConditionOf(t)
       IN  ( /\ StartsOn(t, w, g) /\ k \in Timed
             /\ asked[k] >= Wants[t].seconds /\ faults = MaxFaults )
             => over[w][g][k] >= Wants[t].seconds]_vars

(***************************************************************************)
(* A background task that was evicted is not started again on that worker  *)
(* while the task it made room for is still queued, and among the first    *)
(* QueueWindow of the queue: otherwise a preemptor that must wait          *)
(* (min_free_seconds, memory not yet released) would evict it again in     *)
(* every tick.                                                             *)
(***************************************************************************)
VictimWaitsForPreemptor ==
  [][\A v \in Task, w \in Worker, g \in Gpu :
       ( /\ StartsOn(v, w, g)
         /\ evictor[v] # None /\ evictor[v].host = w )
         => evictor[v].task \notin Window]_vars

(***************************************************************************)
(* A regular task that stays queued within the window of queued_tasks does *)
(* start when some GPU stays below its thresholds and is held by nobody or *)
(* by background tasks of lower priority: min_free_seconds passes, and     *)
(* neither tasks ahead of it that fit nowhere, nor the eviction, nor       *)
(* failed probes and launches keep it from its GPU for ever.               *)
(***************************************************************************)
InReach(t) ==
  /\ rows[t].status = "queued" /\ t \in Window /\ ~Opt(t).background
  /\ \E w \in Worker, g \in Gpu :
       /\ Opt(t).target \in {None, w}
       /\ IsFree(reading[w][g], ConditionOf(t))
       /\ \A u \in Running :
            (rows[u].worker = w /\ g \in rows[u].gpus)
              => Opt(u).background /\ Opt(u).priority < Opt(t).priority

WaitingTaskStarts == \A t \in Task : ~<>[]InReach(t)
=============================================================================
