----------------------------- MODULE Schedules -----------------------------
(***************************************************************************)
(* Cron schedules: _apply_schedules, _scheduled_start and _scheduled_stop  *)
(* of src/gpu_watcher/scheduler.py step by step, with the claim of a UTC   *)
(* minute in the tasks table, while REST clients edit, start, pause, rerun *)
(* and cancel the same tasks, the clock runs on and the daemon restarts.   *)
(* The rest of a tick (module Scheduler has it step by step) is one action *)
(* here.  Time is counted in UTC minutes of 2026 (module Cron).            *)
(***************************************************************************)
EXTENDS WorkerHost, Cron

CONSTANTS
  Zone,         \* names of time zones
  Offset,       \* [Zone -> [Minutes -> Int]]: minutes ahead of UTC (tzdata)
  Plans,        \* names of the schedules callers ask for
  PlanOf,       \* [Plans -> Plan]: what they are
  Asked,        \* [Task -> SUBSET Plans]: which of them, per task
  FirstMinute, LastMinute,  \* the window of time that is explored
  MaxCalls      \* bound on the REST calls (after creation) of a behaviour

Trigger == {"start", "stop"}

Minutes == FirstMinute .. LastMinute

Plan ==
  [start : CronExpr \cup {None},   \* start_cron
   stop  : CronExpr \cup {None},   \* stop_cron
   zone  : Zone]                   \* schedule_timezone

ASSUME MaxCallsAssumption == MaxCalls \in Nat

ASSUME WindowAssumption ==
  /\ FirstMinute \in Nat /\ LastMinute \in Nat /\ FirstMinute <= LastMinute
  /\ None \notin Minutes

ASSUME ZoneAssumption ==
  \A z \in Zone : \A n \in Minutes : n + Offset[z][n] \in 0 .. 365 * MinutesPerDay - 1

(* create_task and update_task reject every other expression. *)
ASSUME PlansAssumption ==
  \A p \in Plans :
    /\ PlanOf[p] \in Plan
    /\ \A k \in Trigger : PlanOf[p][k] # None => Accepted(PlanOf[p][k])

ASSUME AskedAssumption == Asked \in [Task -> SUBSET Plans]

VARIABLES
  rows,      \* [Task -> Row]: the tasks table
  plan,      \* plan[t]: start_cron, stop_cron and schedule_timezone of t
  claimed,   \* claimed[t][k]: last_start_schedule_at, last_stop_schedule_at
  clock,     \* the current UTC minute
  tick,      \* the scheduler thread, which holds _dispatch_lock unless idle
  call,      \* the REST call that is being served
  calls,     \* REST calls that may still be made
  fired      \* history: the minutes claimed for t and k since t was edited

vars == <<rows, plan, claimed, clock, tick, call, calls, fired, hostVars>>

NoTriggers(x) == [k \in Trigger |-> x]

Idle ==
  [phase |-> "idle", now |-> None, todo |-> {}, task |-> None, host |-> None]

NoCall == [op |-> "none", task |-> None, host |-> None]

Kinds(p) == {k \in Trigger : PlanOf[p][k] # None}

OptionsFor(o, p) == [o EXCEPT !.schedule = Kinds(p)]

(* create_task: the tasks are there, paused or queued, when the story begins. *)
Init ==
  /\ plan \in [Task -> Plans] /\ \A t \in Task : plan[t] \in Asked[t]
  /\ \E o \in [Task -> UNION {Submissions[t] : t \in Task}],
        paused \in [Task -> BOOLEAN] :
       /\ \A t \in Task : o[t] \in Submissions[t]
       /\ rows = [t \in Task |->
                    CreateTask(AbsentRow, OptionsFor(o[t], plan[t]), paused[t])]
  /\ claimed = [t \in Task |-> NoTriggers(None)]
  /\ clock = FirstMinute
  /\ tick = Idle
  /\ call = NoCall
  /\ calls = MaxCalls
  /\ fired = [t \in Task |-> NoTriggers({})]
  /\ HostInit

SetRow(t, r) == rows' = [rows EXCEPT ![t] = r]

(* scheduled_tasks *)
Scheduled == {t \in Task : Kinds(plan[t]) # {}}

LocalNow(p, n) == Civil(n + Offset[PlanOf[p].zone][n])

DueMinutes ==
  [p \in Plans |-> [k \in Kinds(p) |->
     {n \in Minutes : Matches(PlanOf[p][k], LocalNow(p, n))}]]

IsDue(t, k, n) == k \in Kinds(plan[t]) /\ n \in DueMinutes[plan[t]][k]

-----------------------------------------------------------------------------
(* tick: _apply_schedules *)

TickBegins ==
  /\ tick.phase = "idle"
  /\ tick' = [Idle EXCEPT !.phase = "apply", !.now = clock,
                          !.todo = Scheduled]
  /\ UNCHANGED <<rows, plan, claimed, clock, call, calls, fired, hostVars>>

Step(t, phase) ==
  tick' = [tick EXCEPT !.phase = phase, !.todo = @ \ {t},
                       !.task = IF phase = "apply" THEN None ELSE t]

(* Mutant: the UPDATE has no condition on the column. *)
ClaimTriggerAnyhow(t, k) ==
  /\ claimed' = [claimed EXCEPT ![t][k] = tick.now]
  /\ fired' = [fired EXCEPT ![t][k] = @ \cup {tick.now}]
  /\ Step(t, k)

(* claim_schedule_trigger matches the row unless the minute is taken. *)
ClaimTrigger(t, k) ==
  IF claimed[t][k] # tick.now
  THEN /\ claimed' = [claimed EXCEPT ![t][k] = tick.now]
       /\ fired' = [fired EXCEPT ![t][k] = @ \cup {tick.now}]
       /\ Step(t, k)
  ELSE Step(t, "apply") /\ UNCHANGED <<claimed, fired>>

ApplyStop(t) ==
  /\ tick.phase = "apply" /\ t \in tick.todo
  /\ IsDue(t, "stop", tick.now)
  /\ ClaimTrigger(t, "stop")
  /\ UNCHANGED <<rows, plan, clock, call, calls, hostVars>>

(* Mutant: a stop that is due does not exclude the start. *)
ApplyStartToo(t) ==
  /\ tick.phase = "apply" /\ t \in tick.todo
  /\ IsDue(t, "start", tick.now)
  /\ ClaimTrigger(t, "start")
  /\ UNCHANGED <<rows, plan, clock, call, calls, hostVars>>

ApplyStart(t) ==
  /\ tick.phase = "apply" /\ t \in tick.todo
  /\ ~IsDue(t, "stop", tick.now) /\ IsDue(t, "start", tick.now)
  /\ ClaimTrigger(t, "start")
  /\ UNCHANGED <<rows, plan, clock, call, calls, hostVars>>

ApplyNothing(t) ==
  /\ tick.phase = "apply" /\ t \in tick.todo
  /\ \A k \in Trigger : ~IsDue(t, k, tick.now)
  /\ Step(t, "apply")
  /\ UNCHANGED <<rows, plan, claimed, clock, call, calls, fired, hostVars>>

Goto(phase) == tick' = [tick EXCEPT !.phase = phase]

NextTask ==
  tick' = [tick EXCEPT !.phase = "apply", !.task = None, !.host = None]

(* _scheduled_start: get_task, then start_task of a task that was paused *)
ScheduledStartReads ==
  /\ tick.phase = "start"
  /\ IF rows[tick.task].status = "paused" THEN Goto("starting") ELSE NextTask
  /\ UNCHANGED <<rows, plan, claimed, clock, call, calls, fired, hostVars>>

ScheduledStartStarts ==
  /\ tick.phase = "starting"
  /\ SetRow(tick.task, StartTask(rows[tick.task]))
  /\ NextTask
  /\ UNCHANGED <<plan, claimed, clock, call, calls, fired, hostVars>>

(* _scheduled_stop: get_task, kill what runs, then pause_task *)
ScheduledStopReads ==
  /\ tick.phase = "stop"
  /\ LET r == rows[tick.task]
     IN  \/ /\ r.status = "running"
            /\ tick' = [tick EXCEPT !.phase = "killing", !.host = r.worker]
         \/ r.status = "queued" /\ Goto("pausing")
         \/ r.status \notin {"queued", "running"} /\ NextTask
  /\ UNCHANGED <<rows, plan, claimed, clock, call, calls, fired, hostVars>>

ScheduledStopKills ==
  /\ tick.phase = "killing"
  /\ KillSucceeds(tick.host, tick.task)
  /\ Goto("pausing")
  /\ UNCHANGED <<rows, plan, claimed, clock, call, calls, fired>>

(* Mutant: the task is paused although it could not be killed. *)
ScheduledStopKillIgnored ==
  /\ tick.phase = "killing"
  /\ KillRaises(tick.host, tick.task)
  /\ Goto("pausing")
  /\ UNCHANGED <<rows, plan, claimed, clock, call, calls, fired>>

ScheduledStopKillRaises ==
  /\ tick.phase = "killing"
  /\ KillRaises(tick.host, tick.task)
  /\ NextTask
  /\ UNCHANGED <<rows, plan, claimed, clock, call, calls, fired>>

(* Mutant: a schedule may only pause preemptible tasks. *)
ScheduledStopAsksPreemptible ==
  /\ tick.phase = "pausing"
  /\ SetRow(tick.task, PauseTask(rows[tick.task], TRUE))
  /\ NextTask
  /\ UNCHANGED <<plan, claimed, clock, call, calls, fired, hostVars>>

ScheduledStopPauses ==
  /\ tick.phase = "pausing"
  /\ SetRow(tick.task, PauseTask(rows[tick.task], FALSE))
  /\ NextTask
  /\ UNCHANGED <<plan, claimed, clock, call, calls, fired, hostVars>>

-----------------------------------------------------------------------------
(* The rest of the tick *)

(* refresh_running_tasks, for one row *)
Refreshed(t) ==
  LET r == rows[t]
  IN  IF r.status # "running" THEN r
      ELSE IF exitFile[r.worker][t] # None
           THEN FinishTask(r, exitFile[r.worker][t])
      ELSE IF sess[r.worker][t] = "none"
           THEN IF r.options.preemptible THEN RequeueTask(r) ELSE FailTask(r)
      ELSE r

(* dispatch: some of the queued tasks get a GPU of their own and start. *)
Dispatch(after, started) ==
  \E place \in [started -> Worker \X Gpu] :
    /\ \A t, u \in started : place[t] = place[u] => t = u
    /\ \A t \in started, u \in Task \ started :
         after[u].status = "running"
           => ~(after[u].worker = place[t][1] /\ place[t][2] \in after[u].gpus)
    /\ \A t \in started : sess[place[t][1]][t] = "none"
    /\ rows' = [t \in Task |->
                  IF t \in started
                  THEN MarkRunning(after[t], place[t][1], {place[t][2]})
                  ELSE after[t]]
    /\ sess' = [w \in Worker |-> [t \in Task |->
                  IF t \in started /\ place[t][1] = w THEN "live"
                                                      ELSE sess[w][t]]]
    /\ exitFile' = [w \in Worker |-> [t \in Task |->
                  IF t \in started /\ place[t][1] = w THEN None
                                                      ELSE exitFile[w][t]]]

RefreshAndDispatch ==
  /\ tick.phase = "apply" /\ tick.todo = {}
  /\ LET after == [t \in Task |-> Refreshed(t)]
     IN  \E started \in SUBSET {t \in Task : after[t].status = "queued"} :
           Dispatch(after, started)
  /\ tick' = Idle
  /\ UNCHANGED <<plan, claimed, clock, call, calls, fired, faults>>

(* A statement or a command raises: run_forever logs it and goes on. *)
TickRaises ==
  /\ tick.phase # "idle"
  /\ ProbeRaises
  /\ tick' = Idle
  /\ UNCHANGED <<rows, plan, claimed, clock, call, calls, fired>>

(* The daemon dies and is started again. *)
Restart ==
  /\ Fault("crash")
  /\ tick' = Idle /\ call' = NoCall
  /\ UNCHANGED <<rows, plan, claimed, clock, calls, fired, sess, exitFile>>

-----------------------------------------------------------------------------
(* REST clients *)

(* The WHERE clause of update_task *)
Editable(r) ==
  \/ r.status = "paused"
  \/ r.status = "queued" /\ ~r.started /\ r.worker = None /\ ~r.session

(* update_task holds the lock; it forgets the minutes that were claimed. *)
Edit(t) ==
  /\ tick.phase = "idle"
  /\ calls > 0 /\ calls' = calls - 1
  /\ Editable(rows[t])
  /\ \E o \in Submissions[t], p \in Asked[t] :
       /\ SetRow(t, UpdateTask(rows[t], OptionsFor(o, p)))
       /\ plan' = [plan EXCEPT ![t] = p]
  /\ claimed' = [claimed EXCEPT ![t] = NoTriggers(None)]
  /\ fired' = [fired EXCEPT ![t] = NoTriggers({})]
  /\ UNCHANGED <<clock, tick, call, hostVars>>

(* start_task and rerun_task, then dispatch_queued_tasks under the lock *)
CallQueues(t) ==
  /\ call.op = "none"
  /\ calls > 0 /\ calls' = calls - 1
  /\ \/ rows[t].status = "paused" /\ SetRow(t, StartTask(rows[t]))
     \/ rows[t].status = "failed" /\ SetRow(t, RerunTask(rows[t]))
  /\ call' = [NoCall EXCEPT !.op = "dispatch", !.task = t]
  /\ UNCHANGED <<plan, claimed, clock, tick, fired, hostVars>>

CallDispatches ==
  /\ call.op = "dispatch" /\ tick.phase = "idle"
  /\ \E started \in SUBSET {t \in Task : rows[t].status = "queued"} :
       Dispatch(rows, started)
  /\ call' = NoCall
  /\ UNCHANGED <<plan, claimed, clock, tick, calls, fired, faults>>

(* pause_task and cancel_task read the row, kill what runs, then UPDATE. *)
CallReads(t) ==
  /\ call.op = "none"
  /\ calls > 0 /\ calls' = calls - 1
  /\ \/ /\ rows[t].status \in {"queued", "running"}
        /\ rows[t].options.preemptible
        /\ call' = [op |-> "pause", task |-> t, host |-> rows[t].worker]
     \/ /\ rows[t].status \in {"paused", "queued", "running"}
        /\ call' = [op |-> "cancel", task |-> t, host |-> rows[t].worker]
  /\ UNCHANGED <<rows, plan, claimed, clock, tick, fired, hostVars>>

CallKills ==
  /\ call.op \in {"pause", "cancel"} /\ call.host # None
  /\ \/ /\ KillSucceeds(call.host, call.task)
        /\ call' = [call EXCEPT !.host = None]
     \/ /\ KillRaises(call.host, call.task)
        /\ call' = IF call.op = "pause" THEN NoCall
                                        ELSE [call EXCEPT !.host = None]
  /\ UNCHANGED <<rows, plan, claimed, clock, tick, calls, fired>>

CallUpdates ==
  /\ call.op \in {"pause", "cancel"} /\ call.host = None
  /\ SetRow(call.task,
            IF call.op = "pause" THEN PauseTask(rows[call.task], TRUE)
                                 ELSE CancelTask(rows[call.task]))
  /\ call' = NoCall
  /\ UNCHANGED <<plan, claimed, clock, tick, calls, fired, hostVars>>

-----------------------------------------------------------------------------
ClockAdvances ==
  /\ clock < LastMinute
  /\ clock' = clock + 1
  /\ UNCHANGED <<rows, plan, claimed, tick, call, calls, fired, hostVars>>

HostActs ==
  /\ HostStep
  /\ UNCHANGED <<rows, plan, claimed, clock, tick, call, calls, fired>>

TickStep ==
  \/ \E t \in Task : ApplyStop(t) \/ ApplyStart(t) \/ ApplyNothing(t)
  \/ ScheduledStartReads \/ ScheduledStartStarts
  \/ ScheduledStopReads \/ ScheduledStopKills \/ ScheduledStopKillRaises
  \/ ScheduledStopPauses
  \/ RefreshAndDispatch \/ TickRaises

Next ==
  \/ TickBegins \/ TickStep \/ Restart
  \/ \E t \in Task : Edit(t) \/ CallQueues(t) \/ CallReads(t)
  \/ CallDispatches \/ CallKills \/ CallUpdates
  \/ ClockAdvances \/ HostActs

(* run_forever: a tick is begun again and again and goes on while it can. *)
Spec == Init /\ [][Next]_vars /\ WF_vars(TickBegins) /\ WF_vars(TickStep)

-----------------------------------------------------------------------------
MeantMinutes ==
  [p \in Plans |-> [k \in Kinds(p) |->
     {n \in Minutes : Means(PlanOf[p][k], LocalNow(p, n))}]]

Due(t, k, n) == k \in Kinds(plan[t]) /\ n \in MeantMinutes[plan[t]][k]

(***************************************************************************)
(* "The scheduler evaluates schedules once per minute and records each     *)
(* firing persistently, so daemon polling and restarts do not duplicate an *)
(* action within the same minute" (README): a start or a stop of a task is *)
(* carried out at most once in a minute, however many ticks, exceptions    *)
(* and restarts that minute has, unless the task was edited.               *)
(***************************************************************************)
OncePerMinute ==
  [][\A k \in Trigger :
       (tick.phase = "apply" /\ tick'.phase = k)
         => tick.now \notin fired[tick'.task][k]]_vars

(***************************************************************************)
(* When a tick gets past its schedules, there is a claim in this minute    *)
(* for every stop that was due and every start that was due without a      *)
(* stop, and for nothing that was not due: one task never hides another.   *)
(* "Due" is what cron.py promises (Means), not the sets it computes.  What *)
(* becomes of a claimed stop is StopTakesEffect.                           *)
(***************************************************************************)
DueIsClaimed ==
  (tick.phase = "apply" /\ tick.todo = {}) =>
    \A t \in Scheduled :
      /\ tick.now \in fired[t]["stop"] <=> Due(t, "stop", tick.now)
      /\ tick.now \in fired[t]["start"]
           <=> Due(t, "start", tick.now) /\ ~Due(t, "stop", tick.now)

(***************************************************************************)
(* "If start and stop both match in one minute, stop wins" (README): over  *)
(* all the ticks of a minute a task is never both started and stopped.     *)
(***************************************************************************)
NeverBothInOneMinute ==
  \A t \in Task : fired[t]["start"] \cap fired[t]["stop"] = {}

(***************************************************************************)
(* "Schedules never rerun terminal tasks automatically" (README): a row    *)
(* that is final is changed only by a client's call, also when it becomes  *)
(* final between the claim of a start and the start.                       *)
(***************************************************************************)
SchedulesKeepFinalRows ==
  [][\A t \in Task :
       (rows[t].status \in Final /\ tick' # tick) => rows'[t] = rows[t]]_vars

(***************************************************************************)
(* When a schedule pauses a running task, its session on the worker of the *)
(* row is not left running: a kill that failed may not be followed by the  *)
(* UPDATE, and what clients do between the reading and the UPDATE starts   *)
(* nothing and moves the task nowhere else.                                *)
(***************************************************************************)
ScheduledStopLeavesNoSession ==
  [][\A t \in Task :
       ( /\ tick' # tick
         /\ rows[t].status = "running" /\ rows'[t].status = "paused" )
         => sess[rows[t].worker][t] # "live"]_vars

(***************************************************************************)
(* A stop that was claimed is carried out, preemptible or not, unless      *)
(* something fails after the claim (the kill, or the tick itself); it is   *)
(* then lost, since the claim stays.  A failure before the claim, of an    *)
(* earlier stop for instance, is no excuse.                                *)
(***************************************************************************)
StopTakesEffect ==
  \A t \in Task, n \in 0 .. MaxFaults :
    (tick.phase = "stop" /\ tick.task = t /\ faults = n)
      ~> (rows[t].status \notin {"queued", "running"} \/ faults < n)
=============================================================================
