----------------------------- MODULE TaskEvents -----------------------------
(***************************************************************************)
(* What the world is told about a task: the callback and IM notifications  *)
(* of src/gpu_watcher/scheduler.py, its worker_unreachable and             *)
(* worker_recovered events, and the exit status of "gpu-watcher wait"      *)
(* (src/gpu_watcher/cli.py).  The refresh loop is modelled statement by    *)
(* statement, since the UPDATE of a task, the row read after it and the    *)
(* two notifications are separate steps; which task is launched or evicted *)
(* is left open (module Scheduler decides it).                             *)
(***************************************************************************)
EXTENDS WorkerHost, Sequences

CONSTANTS
  MaxAttempts,  \* bound on the launches, per task
  MaxCalls,     \* bound on the number of REST calls
  Awaited       \* the tasks that "gpu-watcher wait" runs for

ASSUME MaxAttemptsAssumption == MaxAttempts \in [Task -> Nat]
ASSUME MaxCallsAssumption == MaxCalls \in Nat
ASSUME AwaitedAssumption == Awaited \subseteq Task

VARIABLES
  rows,       \* [Task -> Row]: the tasks table
  health,     \* health[w]: workers.connection_state
  job,        \* the thread that holds _dispatch_lock, idle when it is free
  call,       \* the REST call that is being served
  calls,      \* REST calls that may still be made
  waiter,     \* exit status of "gpu-watcher wait", per task; None: it waits
  attempt,    \* history: launches of a task
  announced,  \* history: announced[t]: what was announced of t, in order
  outage,     \* history: the last health event of a running task is an outage
  wrote,      \* history: exit codes that an awaited task ended with
  restarts    \* history: the daemon has been restarted

vars == <<rows, health, job, call, calls, waiter, attempt, announced, outage,
          wrote, restarts, hostVars>>

historyVars == <<attempt, announced, outage, wrote, restarts>>

Running == {t \in Task : rows[t].status = "running"}

Queued == {t \in Task : rows[t].status = "queued"}

Idle ==
  [phase |-> "idle", todo |-> {}, down |-> {}, up |-> {}, task |-> None,
   host |-> None, preemptible |-> FALSE, code |-> None, event |-> None,
   next |-> None]

NoCall == [op |-> "none", task |-> None, host |-> None]

Init ==
  /\ \E o \in [Task -> UNION {Submissions[t] : t \in Task}] :
       /\ \A t \in Task : o[t] \in Submissions[t]
       /\ rows = [t \in Task |-> CreateTask(AbsentRow, o[t], FALSE)]
  /\ health = [w \in Worker |-> "unknown"]
  /\ job = Idle
  /\ call = NoCall
  /\ calls = MaxCalls
  /\ waiter = [t \in Awaited |-> None]
  /\ attempt = [t \in Task |-> 0]
  /\ announced = [t \in Task |-> <<>>]
  /\ outage = [t \in Task |-> FALSE]
  /\ wrote = [t \in Awaited |-> {}]
  /\ restarts = FALSE
  /\ HostInit

SetRow(t, r) == rows' = [rows EXCEPT ![t] = r]

Goto(phase) == job' = [job EXCEPT !.phase = phase]

(* On with the loop that the thread is in: with the next running task, the *)
(* next worker to probe, or the next queued task. *)
Loop(phase) ==
  [Idle EXCEPT !.phase = phase, !.todo = job.todo, !.down = job.down,
               !.up = job.up]

NextTask == job' = Loop("refresh")

-----------------------------------------------------------------------------
(* Worker health: _mark_worker_reachable and _mark_worker_unreachable *)

(* record_worker_probe; the events are recorded in a step of their own. *)
MarkReachable(w, phase, after) ==
  /\ health' = [health EXCEPT ![w] = "online"]
  /\ job' = IF health[w] = "offline"
            THEN [after EXCEPT !.phase = "recovered", !.host = w,
                               !.next = phase]
            ELSE [after EXCEPT !.phase = phase]

(* Mutant: every failed probe is treated as the first. *)
MarkUnreachableAgain(w, phase, after) ==
  /\ health' = [health EXCEPT ![w] = "offline"]
  /\ job' = [after EXCEPT !.phase = "unreachable", !.host = w, !.next = phase]

MarkUnreachable(w, phase, after) ==
  /\ health' = [health EXCEPT ![w] = "offline"]
  /\ job' = IF health[w] # "offline"
            THEN [after EXCEPT !.phase = "unreachable", !.host = w,
                               !.next = phase]
            ELSE [after EXCEPT !.phase = phase]

RecordHealthEvent ==
  /\ job.phase \in {"recovered", "unreachable"}
  /\ outage' = [t \in Task |->
                  IF t \in Running /\ rows[t].worker = job.host
                  THEN job.phase = "unreachable" ELSE outage[t]]
  /\ job' = IF job.next \in {"refresh", "probe"}
            THEN Loop(job.next)
            ELSE [job EXCEPT !.phase = job.next, !.next = None]
  /\ UNCHANGED <<rows, health, call, calls, waiter, attempt, announced, wrote,
                 restarts, hostVars>>

-----------------------------------------------------------------------------
(* tick: refresh_running_tasks *)

TickBegins ==
  /\ job.phase = "idle"
  /\ job' = [Idle EXCEPT
               !.phase = "refresh",
               !.todo  = {[task |-> t, host |-> rows[t].worker,
                           preemptible |-> rows[t].options.preemptible] :
                            t \in Running}]
  /\ UNCHANGED <<rows, health, call, calls, waiter, historyVars, hostVars>>

Listed(r) == r \in job.todo /\ job.phase = "refresh"

Taken(r) ==
  [job EXCEPT !.todo = @ \ {r}, !.task = r.task, !.host = r.host,
              !.preemptible = r.preemptible]

SkipTask(r) ==
  /\ Listed(r) /\ r.host \in job.down
  /\ job' = [job EXCEPT !.todo = @ \ {r}]
  /\ UNCHANGED <<rows, health, call, calls, waiter, historyVars, hostVars>>

ReadExitCode(r) ==
  /\ Listed(r) /\ r.host \notin job.down
  /\ LET code == exitFile[r.host][r.task]
     IN  MarkReachable(r.host, IF code = None THEN "session" ELSE "exited",
                       [Taken(r) EXCEPT !.code = code])
  /\ UNCHANGED <<rows, call, calls, waiter, historyVars, hostVars>>

ReadExitCodeRaises(r) ==
  /\ Listed(r) /\ r.host \notin job.down
  /\ ProbeRaises
  /\ MarkUnreachable(r.host, "refresh",
                     [job EXCEPT !.todo = @ \ {r}, !.down = @ \cup {r.host}])
  /\ UNCHANGED <<rows, call, calls, waiter, historyVars>>

CheckSession ==
  /\ job.phase = "session"
  /\ IF sess[job.host][job.task] = "none" THEN Goto("lost") ELSE NextTask
  /\ UNCHANGED <<rows, health, call, calls, waiter, historyVars, hostVars>>

CheckSessionRaises ==
  /\ job.phase = "session"
  /\ ProbeRaises
  /\ MarkUnreachable(job.host, "refresh",
                     [Loop("refresh") EXCEPT !.down = @ \cup {job.host}])
  /\ UNCHANGED <<rows, call, calls, waiter, historyVars>>

(* _requeue_or_fail_lost_task, up to the notification *)
FileLost ==
  /\ job.phase = "lost"
  /\ SetRow(job.task, IF job.preemptible THEN RequeueTask(rows[job.task])
                                         ELSE FailTask(rows[job.task]))
  /\ job' = [job EXCEPT !.phase = "callback", !.next = "refresh",
                        !.event =
                          IF job.preemptible THEN "switch" ELSE "failed"]
  /\ UNCHANGED <<health, call, calls, waiter, historyVars, hostVars>>

FileResult ==
  /\ job.phase = "exited"
  /\ SetRow(job.task, FinishTask(rows[job.task], job.code))
  /\ job' = [job EXCEPT !.phase = "callback", !.next = "refresh",
                        !.event =
                          IF job.code = 0 THEN "succeeded" ELSE "failed"]
  /\ UNCHANGED <<health, call, calls, waiter, historyVars, hostVars>>

(* tail_logs raises before finish_task: the tick ends here. *)
TailLogsRaises ==
  /\ job.phase = "exited"
  /\ ProbeRaises
  /\ job' = Idle
  /\ UNCHANGED <<rows, health, call, calls, waiter, historyVars>>

-----------------------------------------------------------------------------
(* _run_task_notifications *)

Announces(via) ==
  announced' = [announced EXCEPT ![job.task] =
                  Append(@, [attempt |-> attempt[job.task], via |-> via,
                             event |-> job.event])]

(* Mutant: what the callback raises is not caught around the notifications. *)
RunCallbackUncaught ==
  /\ job.phase = "callback"
  /\ Announces("callback")
  /\ \/ Goto("im")
     \/ job' = Loop(job.next)
  /\ UNCHANGED <<rows, health, call, calls, waiter, attempt, outage, wrote,
                 restarts, hostVars>>

(* _run_callback: a failure or a timeout of the command is only recorded. *)
RunCallback ==
  /\ job.phase = "callback"
  /\ Announces("callback")
  /\ Goto("im")
  /\ UNCHANGED <<rows, health, call, calls, waiter, attempt, outage, wrote,
                 restarts, hostVars>>

RunImNotify ==
  /\ job.phase = "im"
  /\ Announces("im")
  /\ job' = Loop(job.next)
  /\ UNCHANGED <<rows, health, call, calls, waiter, attempt, outage, wrote,
                 restarts, hostVars>>

-----------------------------------------------------------------------------
(* _dispatch_queued_tasks *)

RefreshEnds ==
  /\ job.phase = "refresh" /\ job.todo = {}
  /\ job' = [Idle EXCEPT !.phase = "probe", !.todo = Worker]
  /\ UNCHANGED <<rows, health, call, calls, waiter, historyVars, hostVars>>

(* The clients' dispatch_queued_tasks waits for the lock. *)
CallDispatches ==
  /\ call.op = "dispatch" /\ job.phase = "idle"
  /\ job' = [Idle EXCEPT !.phase = "probe", !.todo = Worker]
  /\ call' = NoCall
  /\ UNCHANGED <<rows, health, calls, waiter, historyVars, hostVars>>

Probe(w) ==
  /\ job.phase = "probe" /\ w \in job.todo
  /\ LET rest == [job EXCEPT !.todo = @ \ {w}]
     IN  \/ /\ MarkReachable(w, "probe", [rest EXCEPT !.up = @ \cup {w}])
            /\ UNCHANGED hostVars
         \/ ProbeRaises /\ MarkUnreachable(w, "probe", rest)
  /\ UNCHANGED <<rows, call, calls, waiter, historyVars>>

(* All workers are probed: the queued tasks are gone through. *)
Dispatching == job.phase = "probe" /\ job.todo = {}

FreeGpus(w) ==
  {g \in Gpu : \A u \in Running : rows[u].worker = w => g \notin rows[u].gpus}

Launch(t, w) ==
  /\ Dispatching /\ t \in Queued /\ w \in job.up
  /\ FreeGpus(w) # {}
  /\ attempt[t] < MaxAttempts[t]
  /\ LaunchSucceeds(w, t)
  /\ SetRow(t, MarkRunning(rows[t], w, {CHOOSE g \in FreeGpus(w) : TRUE}))
  /\ attempt' = [attempt EXCEPT ![t] = @ + 1]
  /\ outage' = [outage EXCEPT ![t] = FALSE]
  /\ UNCHANGED <<health, job, call, calls, waiter, announced, wrote, restarts>>

(* A victim is killed, preempted if it still runs, and then announced; *)
(* after that its worker is probed again. *)
EvictKill(v) ==
  /\ Dispatching /\ v \in Running /\ Queued # {}
  /\ rows[v].options.preemptible /\ rows[v].worker \in job.up
  /\ KillSucceeds(rows[v].worker, v)
  /\ job' = [job EXCEPT !.phase = "evict", !.task = v, !.event = "switch",
                        !.host = rows[v].worker]
  /\ UNCHANGED <<rows, health, call, calls, waiter, historyVars>>

EvictUpdate ==
  /\ job.phase = "evict"
  /\ SetRow(job.task, PreemptTask(rows[job.task]))
  /\ job' = IF job.task \in Running
            THEN [job EXCEPT !.phase = "callback", !.next = "probe",
                             !.todo = {job.host}, !.up = @ \ {job.host}]
            ELSE Loop("probe")
  /\ UNCHANGED <<health, call, calls, waiter, historyVars, hostVars>>

DispatchEnds ==
  /\ Dispatching
  /\ job' = Idle
  /\ UNCHANGED <<rows, health, call, calls, waiter, historyVars, hostVars>>

Restart ==
  /\ Fault("crash")
  /\ job' = Idle /\ call' = NoCall /\ restarts' = TRUE
  /\ UNCHANGED <<rows, health, calls, waiter, attempt, announced, outage, wrote,
                 sess, exitFile>>

-----------------------------------------------------------------------------
(* REST clients, as in module Schedules *)

(* Mutant: the dispatch of a rerun does not wait for the lock. *)
CallQueuesAndLaunches(t) ==
  /\ call.op = "none" /\ calls > 0
  /\ calls' = calls - 1
  /\ rows[t].status = "failed"
  /\ \E w \in Worker, g \in Gpu :
       /\ attempt[t] < MaxAttempts[t]
       /\ LaunchSucceeds(w, t)
       /\ SetRow(t, MarkRunning(RerunTask(rows[t]), w, {g}))
  /\ attempt' = [attempt EXCEPT ![t] = @ + 1]
  /\ UNCHANGED <<health, job, call, waiter, announced, outage, wrote, restarts>>

CallQueues(t) ==
  /\ call.op = "none" /\ calls > 0
  /\ calls' = calls - 1
  /\ \/ rows[t].status = "paused" /\ SetRow(t, StartTask(rows[t]))
     \/ rows[t].status = "failed" /\ SetRow(t, RerunTask(rows[t]))
  /\ call' = [NoCall EXCEPT !.op = "dispatch", !.task = t]
  /\ UNCHANGED <<health, job, waiter, historyVars, hostVars>>

CallReads(t) ==
  /\ call.op = "none" /\ calls > 0
  /\ calls' = calls - 1
  /\ \/ /\ rows[t].status \in {"queued", "running"}
        /\ rows[t].options.preemptible
        /\ call' = [op |-> "pause", task |-> t, host |-> rows[t].worker]
     \/ /\ rows[t].status \in {"paused", "queued", "running"}
        /\ call' = [op |-> "cancel", task |-> t, host |-> rows[t].worker]
  /\ UNCHANGED <<rows, health, job, waiter, historyVars, hostVars>>

CallKills ==
  /\ call.op \in {"pause", "cancel"} /\ call.host # None
  /\ \/ /\ KillSucceeds(call.host, call.task)
        /\ call' = [call EXCEPT !.host = None]
     \/ /\ KillRaises(call.host, call.task)
        /\ call' = IF call.op = "pause" THEN NoCall
                                        ELSE [call EXCEPT !.host = None]
  /\ UNCHANGED <<rows, health, job, calls, waiter, historyVars>>

CallUpdates ==
  /\ call.op \in {"pause", "cancel"} /\ call.host = None
  /\ SetRow(call.task,
            IF call.op = "pause" THEN PauseTask(rows[call.task], TRUE)
                                 ELSE CancelTask(rows[call.task]))
  /\ call' = NoCall
  /\ UNCHANGED <<health, job, calls, waiter, historyVars, hostVars>>

-----------------------------------------------------------------------------
(* gpu-watcher wait: _wait_for_task and _exit_for_terminal_task *)

(* Mutant: a task without an exit code counts as one that returned 0. *)
ProcessExitCodeOrZero(code) == IF code = None THEN 0 ELSE code

(* _process_exit_code, with fallback 1 *)
ProcessExitCode(code) == IF code = None \/ code = 0 THEN 1 ELSE code

WaitReturns(t) ==
  /\ waiter[t] = None /\ rows[t].status \in Final
  /\ waiter' = [waiter EXCEPT ![t] =
                  CASE rows[t].status = "succeeded" -> 0
                    [] rows[t].status = "canceled"  -> 130
                    [] OTHER -> ProcessExitCode(rows[t].exit)]
  /\ UNCHANGED <<rows, health, job, call, calls, historyVars, hostVars>>

HostActs ==
  /\ HostStep
  /\ wrote' = [t \in Awaited |-> wrote[t] \cup
                 ({exitFile'[w][t] : w \in Worker} \ {None})]
  /\ UNCHANGED <<rows, health, job, call, calls, waiter, attempt, announced,
                 outage, restarts>>

JobStep ==
  \/ RecordHealthEvent
  \/ \E r \in job.todo : SkipTask(r) \/ ReadExitCode(r) \/ ReadExitCodeRaises(r)
  \/ CheckSession \/ CheckSessionRaises \/ FileLost \/ FileResult
  \/ TailLogsRaises \/ RunCallback \/ RunImNotify
  \/ RefreshEnds
  \/ \E w \in Worker : Probe(w) \/ \E t \in Task : Launch(t, w)
  \/ \E v \in Task : EvictKill(v)
  \/ EvictUpdate \/ DispatchEnds

Next ==
  \/ TickBegins \/ JobStep \/ Restart
  \/ \E t \in Task : CallQueues(t) \/ CallReads(t)
  \/ \E t \in Awaited : WaitReturns(t)
  \/ CallDispatches \/ CallKills \/ CallUpdates
  \/ HostActs

Spec == Init /\ [][Next]_vars

-----------------------------------------------------------------------------
Results == {"succeeded", "failed"}

(***************************************************************************)
(* The end of an attempt is announced at most once by callback and at most *)
(* once by IM, however the refresh loop, the clients' calls, exceptions    *)
(* and restarts of the daemon interleave.                                  *)
(***************************************************************************)
OneResultPerAttempt ==
  \A t \in Task : \A i, j \in 1 .. Len(announced[t]) :
    LET a == announced[t][i]
        b == announced[t][j]
    IN  (i < j /\ a.event \in Results /\ b.event \in Results)
          => a.attempt # b.attempt \/ a.via # b.via

(***************************************************************************)
(* A notification is never sent of a task that runs again: a rerun or a    *)
(* start that a client asks for in between is launched only after the pass *)
(* that announces the end of the attempt.                                  *)
(***************************************************************************)
NoNewsOfRunningTask ==
  [][\A t \in Task :
       announced'[t] # announced[t] => rows[t].status # "running"]_vars

(***************************************************************************)
(* Whenever no thread holds the dispatch lock, every result that was filed *)
(* has been announced by callback and by IM (README: notifications for     *)
(* succeeded and failed), also when the callback failed or timed out, the  *)
(* task was paused or cancelled meanwhile, or the tick was cut short by an *)
(* exception of a later task.  Only a restart of the daemon between the    *)
(* UPDATE and the notification loses it: a final row is not visited again. *)
(***************************************************************************)
ResultsAreAnnounced ==
  (job.phase = "idle" /\ ~restarts) =>
    \A t \in Task, via \in {"callback", "im"} :
      rows[t].status \in Results =>
        \E i \in 1 .. Len(announced[t]) :
          /\ announced[t][i].attempt = attempt[t]
          /\ announced[t][i].via = via
          /\ announced[t][i].event = rows[t].status

(***************************************************************************)
(* In an attempt of a task worker_unreachable and worker_recovered events  *)
(* alternate, starting with an outage, although every tick probes the      *)
(* worker twice and clients dispatch as well - unless the daemon stopped   *)
(* between the new connection_state and its events.                        *)
(***************************************************************************)
OutagesAlternate ==
  [][\A t \in Running :
       ( /\ job.phase \in {"unreachable", "recovered"} /\ job' # job
         /\ rows[t].worker = job.host /\ ~restarts' )
         => (outage[t] <=> job.phase = "recovered")]_vars

(***************************************************************************)
(* "gpu-watcher wait" exits with 0 only if a command of the task ended     *)
(* with 0: not for a task that was lost, failed without a code or was      *)
(* canceled.                                                               *)
(***************************************************************************)
WaitSucceedsTruly == \A t \in Awaited : waiter[t] = 0 => 0 \in wrote[t]
=============================================================================
