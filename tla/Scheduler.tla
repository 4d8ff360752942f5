----------------------------- MODULE Scheduler -----------------------------
(***************************************************************************)
(* src/gpu_watcher/scheduler.py over the task table and the worker hosts.  *)
(*                                                                         *)
(* One process runs the tick loop (run_forever) and the REST handlers, one *)
(* thread each.  tick() and dispatch_queued_tasks() hold _dispatch_lock;   *)
(* pause_task() and cancel_task() do not.  An action is one SSH command or *)
(* one database transaction together with the local computation up to it.  *)
(*                                                                         *)
(* "The holder" is the thread that holds _dispatch_lock.  pc says where it *)
(* is, job which task it has in hand (with the worker and the GPUs planned *)
(* for it) and scan its other local variables.                             *)
(***************************************************************************)
EXTENDS Placement, WorkerHost

CONSTANTS
  Client       \* threads that serve start, rerun, pause and terminate

VARIABLES
  lock,     \* _dispatch_lock: "free", or held by the "tick" or by a "call"
  pc,       \* the step the holder takes next
  job,      \* the task in hand, its worker and its GPUs
  scan,     \* the holder's other local variables
  call      \* [Client -> Call]: what each client thread is doing

holderVars == <<lock, pc, job, scan>>

vars == <<rows, hostVars, holderVars, call>>

Stage ==
  {"idle", "schedule", "stop", "refresh", "session", "lost", "finish",
   "probe", "pick", "yield", "kill", "evict", "reprobe", "replan",
   "start", "mark", "abort", "resize", "resizeKill", "resizeEvict",
   "background", "release"}

Job == [task : Task \cup {None}, worker : Worker \cup {None}, gpus : SUBSET Gpu]

NoJob == [task |-> None, worker |-> None, gpus |-> {}]

Hand(t, w) == [task |-> t, worker |-> w, gpus |-> {}]

Call ==
  [op     : {"none", "start", "rerun", "pause", "cancel"},
   task   : Task \cup {None},
   worker : Worker \cup {None},
   step   : {"none", "kill", "update", "dispatch", "holds"}]

NoCall == [op |-> "none", task |-> None, worker |-> None, step |-> "none"]

Scan ==
  [due     : SUBSET (Task \X {"start", "stop"}),  \* triggers not yet applied
   todo    : SUBSET Task,           \* tasks this loop has not visited yet
   snap    : [Task -> Row],         \* their rows when they were listed
   down    : SUBSET Worker,         \* unreachable_workers
   code    : ExitCode \cup {None},  \* exit code read for the task in hand
   queued  : BOOLEAN,               \* was a task queued when it began
   up      : SUBSET Worker,         \* keys of worker_states
   ready   : [Worker -> SUBSET Gpu],  \* GPUs that meet the condition
   tried   : SUBSET Task,           \* attempted_regular
   mode    : {"none", "background", "regular", "numa"},  \* whose victims
   passed  : SUBSET Worker,         \* workers that yielded nothing
   host    : Worker \cup {None},    \* worker of the victims
   victims : SUBSET Task,           \* victims to be killed
   victim  : Task \cup {None},      \* victim just killed
   got     : BOOLEAN,               \* preempted
   after   : {"pick", "resize", "background"}]  \* where a launch returns to

NoScan ==
  [due |-> {}, todo |-> {}, snap |-> [t \in Task |-> AbsentRow], down |-> {},
   code |-> None, queued |-> FALSE, up |-> {},
   ready |-> [w \in Worker |-> {}], tried |-> {}, mode |-> "none",
   passed |-> {}, host |-> None, victims |-> {}, victim |-> None,
   got |-> FALSE, after |-> "pick"]

Listed(S) == [t \in Task |-> IF t \in S THEN rows[t] ELSE AbsentRow]

SchedulerInit ==
  /\ StoreInit
  /\ HostInit
  /\ lock = "free" /\ pc = "idle" /\ job = NoJob /\ scan = NoScan
  /\ call = [c \in Client |-> NoCall]

SetRow(t, r) == rows' = [rows EXCEPT ![t] = r]

Goto(stage) == pc' = stage

Drop(t) == scan.todo \ {t}

-----------------------------------------------------------------------------
(* tick and _apply_schedules *)

(* Due triggers: a task may start or stop, and stop wins over start. *)
TickBegins ==
  /\ lock = "free"
  /\ lock' = "tick"
  /\ Goto("schedule")
  /\ \E due \in SUBSET {d \in Task \X {"start", "stop"} :
                          /\ rows[d[1]].status # "absent"
                          /\ d[2] \in Opt(d[1]).schedule} :
       /\ \A t \in Task : ~(<<t, "start">> \in due /\ <<t, "stop">> \in due)
       /\ scan' = [NoScan EXCEPT !.due = due]
  /\ job' = NoJob
  /\ UNCHANGED <<rows, hostVars, call>>

ScheduledStart(t) ==
  /\ pc = "schedule"
  /\ <<t, "start">> \in scan.due
  /\ scan' = [scan EXCEPT !.due = @ \ {<<t, "start">>}]
  /\ SetRow(t, StartTask(rows[t]))
  /\ UNCHANGED <<hostVars, pc, job>>

(* _scheduled_stop, up to the kill of a running task *)
ScheduledStop(t) ==
  /\ pc = "schedule"
  /\ <<t, "stop">> \in scan.due
  /\ scan' = [scan EXCEPT !.due = @ \ {<<t, "stop">>}]
  /\ \/ /\ rows[t].status = "running"
        /\ KillSucceeds(rows[t].worker, t)
        /\ Goto("stop") /\ job' = Hand(t, rows[t].worker)
     \/ /\ rows[t].status = "running"
        /\ KillRaises(rows[t].worker, t)
        /\ UNCHANGED <<pc, job>>
     \/ /\ rows[t].status = "queued"
        /\ Goto("stop") /\ job' = Hand(t, None)
        /\ UNCHANGED hostVars
     \/ /\ rows[t].status \notin {"queued", "running"}
        /\ UNCHANGED <<hostVars, pc, job>>
  /\ UNCHANGED rows

ScheduledStopPauses ==
  /\ pc = "stop"
  /\ SetRow(job.task, PauseTask(rows[job.task], FALSE))
  /\ Goto("schedule") /\ job' = NoJob
  /\ UNCHANGED <<hostVars, scan>>

-----------------------------------------------------------------------------
(* refresh_running_tasks *)

RefreshBegins ==
  /\ pc = "schedule" /\ scan.due = {}
  /\ Goto("refresh")
  /\ scan' = [scan EXCEPT !.todo = Running, !.snap = Listed(Running)]
  /\ UNCHANGED <<rows, hostVars, job>>

SkipUnreachable(t) ==
  /\ pc = "refresh" /\ t \in scan.todo
  /\ scan.snap[t].worker \in scan.down
  /\ scan' = [scan EXCEPT !.todo = Drop(t)]
  /\ UNCHANGED <<rows, hostVars, pc, job>>

(* An SSH failure says nothing of the task: the row stays as it is. *)
ReadRaises(t) ==
  /\ pc = "refresh" /\ t \in scan.todo
  /\ scan.snap[t].worker \notin scan.down
  /\ ProbeRaises
  /\ scan' = [scan EXCEPT !.todo = Drop(t), !.down = @ \cup {scan.snap[t].worker}]
  /\ UNCHANGED <<rows, pc, job>>

ReadExitCode(t) ==
  /\ pc = "refresh" /\ t \in scan.todo
  /\ LET w == scan.snap[t].worker
     IN  /\ w \notin scan.down
         /\ scan' = [scan EXCEPT !.todo = Drop(t), !.code = exitFile[w][t]]
         /\ Goto(IF exitFile[w][t] = None THEN "session" ELSE "finish")
         /\ job' = Hand(t, w)
  /\ UNCHANGED <<rows, hostVars>>

SessionPresent ==
  /\ pc = "session"
  /\ sess[job.worker][job.task] # "none"
  /\ Goto("refresh") /\ job' = NoJob
  /\ UNCHANGED <<rows, hostVars, scan>>

(* Mutant: a failed check is taken for a missing session. *)
SessionCheckFailsAsMissing ==
  /\ pc = "session"
  /\ ProbeRaises
  /\ Goto("lost")
  /\ UNCHANGED <<rows, job, scan>>

SessionCheckRaises ==
  /\ pc = "session"
  /\ ProbeRaises
  /\ scan' = [scan EXCEPT !.down = @ \cup {job.worker}]
  /\ Goto("refresh") /\ job' = NoJob
  /\ UNCHANGED rows

SessionMissing ==
  /\ pc = "session"
  /\ sess[job.worker][job.task] = "none"
  /\ Goto("lost")
  /\ UNCHANGED <<rows, hostVars, job, scan>>

(* Mutant: every lost task is retried. *)
RequeueLost ==
  /\ pc = "lost"
  /\ SetRow(job.task, RequeueTask(rows[job.task]))
  /\ Goto("refresh") /\ job' = NoJob
  /\ UNCHANGED <<hostVars, scan>>

(* _requeue_or_fail_lost_task, on the row as it was listed *)
RequeueOrFailLost ==
  /\ pc = "lost"
  /\ SetRow(job.task, IF scan.snap[job.task].options.preemptible
                      THEN RequeueTask(rows[job.task])
                      ELSE FailTask(rows[job.task]))
  /\ Goto("refresh") /\ job' = NoJob
  /\ UNCHANGED <<hostVars, scan>>

FinishExited ==
  /\ pc = "finish"
  /\ SetRow(job.task, FinishTask(rows[job.task], scan.code))
  /\ scan' = [scan EXCEPT !.code = None]
  /\ Goto("refresh") /\ job' = NoJob
  /\ UNCHANGED hostVars

(* Mutant: the tick ends without giving the lock back. *)
TailLogsRaisesLocked ==
  /\ pc = "finish"
  /\ ProbeRaises
  /\ Goto("idle") /\ job' = NoJob
  /\ UNCHANGED <<rows, scan>>

(* tail_logs of a finished task raises: the whole tick ends here. *)
TailLogsRaises ==
  /\ pc = "finish"
  /\ ProbeRaises
  /\ Goto("release") /\ job' = NoJob
  /\ UNCHANGED <<rows, scan>>

RefreshEnds ==
  /\ pc = "refresh" /\ scan.todo = {}
  /\ Goto("probe") /\ scan' = NoScan
  /\ UNCHANGED <<rows, hostVars, job>>

-----------------------------------------------------------------------------
(* _dispatch_queued_tasks: probe every worker, then place regular tasks *)

ResizeList ==
  {t \in Running : Opt(t).background /\ Opt(t).elastic}

ProbeWorkers ==
  /\ pc = "probe"
  /\ \E up \in SUBSET Worker, reading \in [Worker -> SUBSET Gpu] :
       /\ up # Worker => Fault("ssh")
       /\ up = Worker => UNCHANGED faults
       /\ \A w \in Worker \ up : reading[w] = {}
       /\ LET found == [NoScan EXCEPT !.up = up, !.ready = reading,
                                      !.queued = Queued # {}]
          IN  IF Queued # {}
              THEN Goto("pick") /\ scan' = found
              ELSE /\ Goto("resize")
                   /\ scan' = [found EXCEPT !.todo = ResizeList,
                                            !.snap = Listed(ResizeList)]
  /\ UNCHANGED <<rows, sess, exitFile, job>>

PlansFor(t) == Plans(t, scan.up, scan.ready)

NumaChoicesFor(t) == NumaChoices(t, scan.up, scan.ready)

(* The first queued regular task not attempted yet *)
NextRegular(t) ==
  LET regular == {u \in Queued : ~Opt(u).background} \ scan.tried
  IN  t \in regular /\ \A u \in regular : Opt(u).priority <= Opt(t).priority

PickWithPlan(t) ==
  /\ pc = "pick" /\ NextRegular(t)
  /\ \E p \in PlansFor(t) :
       /\ NumaLocal(p) \/ NumaChoicesFor(t) = {}
       /\ job' = p
  /\ scan' = [scan EXCEPT !.tried = @ \cup {t}, !.after = "pick"]
  /\ Goto("start")
  /\ UNCHANGED <<rows, hostVars>>

PickForNuma(t) ==
  /\ pc = "pick" /\ NextRegular(t)
  /\ \E p \in {q \in PlansFor(t) : ~NumaLocal(q)} :
     \E choice \in NumaChoicesFor(t) :
       /\ job' = p
       /\ scan' = [scan EXCEPT !.tried = @ \cup {t}, !.after = "pick",
                               !.mode = "numa", !.got = FALSE,
                               !.host = choice.host,
                               !.victims = choice.victims]
  /\ Goto("kill")
  /\ UNCHANGED <<rows, hostVars>>

(* Mutant: a task without a plan is not remembered as attempted. *)
PickWithoutPlanAgain(t) ==
  /\ pc = "pick" /\ NextRegular(t)
  /\ PlansFor(t) = {}
  /\ job' = Hand(t, None)
  /\ scan' = [scan EXCEPT !.after = "pick", !.mode = "background",
                          !.passed = {}]
  /\ Goto("yield")
  /\ UNCHANGED <<rows, hostVars>>

PickWithoutPlan(t) ==
  /\ pc = "pick" /\ NextRegular(t)
  /\ PlansFor(t) = {}
  /\ job' = Hand(t, None)
  /\ scan' = [scan EXCEPT !.tried = @ \cup {t}, !.after = "pick",
                          !.mode = "background", !.passed = {}]
  /\ Goto("yield")
  /\ UNCHANGED <<rows, hostVars>>

PickEnds ==
  /\ pc = "pick"
  /\ \A t \in Task : ~NextRegular(t)
  /\ Goto("resize")
  /\ scan' = [scan EXCEPT !.todo = ResizeList, !.snap = Listed(ResizeList)]
  /\ UNCHANGED <<rows, hostVars, job>>

-----------------------------------------------------------------------------
(* _preempt_background_for_task, _preempt_for_task, _apply_numa_preemption *)

Offered(w) ==
  VictimLists(job.task, w,
              IF scan.mode = "background" THEN BackgroundVictims(job.task, w)
                                          ELSE RegularVictims(job.task, w),
              scan.up, scan.ready)

ChooseVictims ==
  /\ pc = "yield"
  /\ \E w \in Worker \ scan.passed : \E V \in Offered(w) :
       scan' = [scan EXCEPT !.host = w, !.victims = V, !.got = FALSE]
  /\ Goto("kill")
  /\ UNCHANGED <<rows, hostVars, job>>

NoVictims ==
  /\ pc = "yield"
  /\ \A w \in Worker \ scan.passed : Offered(w) = {}
  /\ IF scan.mode = "background" /\ Opt(job.task).allow_preempt
     THEN /\ scan' = [scan EXCEPT !.mode = "regular", !.passed = {}]
          /\ UNCHANGED <<pc, job>>
     ELSE Goto("pick") /\ job' = NoJob /\ UNCHANGED scan
  /\ UNCHANGED <<rows, hostVars>>

(* Mutant: a victim is evicted although its kill raised. *)
KillVictimAnyhow(v) ==
  /\ pc = "kill" /\ v \in scan.victims
  /\ KillSucceeds(scan.host, v) \/ KillRaises(scan.host, v)
  /\ scan' = [scan EXCEPT !.victims = @ \ {v}, !.victim = v]
  /\ Goto("evict")
  /\ UNCHANGED <<rows, job>>

KillVictim(v) ==
  /\ pc = "kill" /\ v \in scan.victims
  /\ \/ /\ KillSucceeds(scan.host, v)
        /\ scan' = [scan EXCEPT !.victims = @ \ {v}, !.victim = v]
        /\ Goto("evict")
     \/ /\ KillRaises(scan.host, v)
        /\ scan' = [scan EXCEPT !.victims = @ \ {v}]
        /\ UNCHANGED pc
  /\ UNCHANGED <<rows, job>>

EvictVictim ==
  /\ pc = "evict"
  /\ SetRow(scan.victim, PreemptTask(rows[scan.victim]))
  /\ scan' = [scan EXCEPT !.victim = None,
                          !.got = @ \/ rows[scan.victim].status = "running"]
  /\ Goto("kill")
  /\ UNCHANGED <<hostVars, job>>

VictimsDone ==
  /\ pc = "kill" /\ scan.victims = {}
  /\ IF scan.got THEN Goto("reprobe") /\ UNCHANGED scan
     ELSE IF scan.mode = "numa" THEN Goto("start") /\ UNCHANGED scan
     ELSE Goto("yield") /\ scan' = [scan EXCEPT !.passed = @ \cup {scan.host}]
  /\ UNCHANGED <<rows, hostVars, job>>

(* _refresh_worker_state *)
Reprobe ==
  /\ pc = "reprobe"
  /\ \/ /\ ProbeRaises
        /\ scan' = [scan EXCEPT !.up = @ \ {scan.host}, !.ready[scan.host] = {}]
     \/ /\ UNCHANGED hostVars
        /\ \E reading \in SUBSET Gpu :
             scan' = [scan EXCEPT !.ready[scan.host] = reading]
  /\ Goto("replan")
  /\ UNCHANGED <<rows, job>>

(* After a NUMA preemption only a NUMA-local plan is taken. *)
Replan ==
  /\ pc = "replan"
  /\ LET plans == {p \in PlansFor(job.task) :
                     scan.mode = "numa" => NumaLocal(p)}
     IN  \/ /\ \E p \in plans : job' = p
            /\ Goto("start")
         \/ /\ plans = {}
            /\ job' = NoJob
            /\ Goto("pick")
  /\ UNCHANGED <<rows, hostVars, scan>>

-----------------------------------------------------------------------------
(* _start_with_requeue_on_failure *)

LaunchStarts ==
  /\ pc = "start"
  /\ LaunchSucceeds(job.worker, job.task)
  /\ Goto("mark")
  /\ UNCHANGED <<rows, job, scan>>

LaunchDoesNotStart ==
  /\ pc = "start"
  /\ LaunchRaises(job.worker, job.task)
  /\ Goto(scan.after) /\ job' = NoJob
  /\ UNCHANGED <<rows, scan>>

(* Mutant: the row is marked whatever happened since it was listed. *)
MarkStartedAlways ==
  /\ pc = "mark"
  /\ SetRow(job.task, [rows[job.task] EXCEPT
                         !.status = "running", !.worker = job.worker,
                         !.gpus = job.gpus, !.session = TRUE, !.started = TRUE])
  /\ Goto(scan.after) /\ job' = NoJob
  /\ UNCHANGED <<hostVars, scan>>

MarkStarted ==
  /\ pc = "mark"
  /\ SetRow(job.task, MarkRunning(rows[job.task], job.worker, job.gpus))
  /\ IF rows[job.task].status = "queued"
     THEN Goto(scan.after) /\ job' = NoJob
     ELSE Goto("abort") /\ UNCHANGED job
  /\ UNCHANGED <<hostVars, scan>>

AbortLaunch ==
  /\ pc = "abort"
  /\ KillSucceeds(job.worker, job.task) \/ KillRaises(job.worker, job.task)
  /\ Goto(scan.after) /\ job' = NoJob
  /\ UNCHANGED <<rows, scan>>

-----------------------------------------------------------------------------
(* _resize_elastic_background_tasks *)

ResizeChoices(t) == ResizeTargets(t, scan.snap[t], scan.up, scan.ready)

ResizeTask(t) ==
  /\ pc = "resize" /\ t \in scan.todo
  /\ scan' = [scan EXCEPT !.todo = Drop(t), !.after = "resize"]
  /\ \/ /\ \E G \in ResizeChoices(t) :
             job' = [task |-> t, worker |-> scan.snap[t].worker, gpus |-> G]
        /\ Goto("resizeKill")
     \/ /\ ResizeChoices(t) = {}
        /\ UNCHANGED <<pc, job>>
  /\ UNCHANGED <<rows, hostVars>>

ResizeKill ==
  /\ pc = "resizeKill"
  /\ \/ /\ KillSucceeds(job.worker, job.task)
        /\ Goto("resizeEvict") /\ UNCHANGED job
     \/ /\ KillRaises(job.worker, job.task)
        /\ Goto("resize") /\ job' = NoJob
  /\ UNCHANGED <<rows, scan>>

(* Evict, and start again at once on the new GPUs if there are any *)
ResizeEvict ==
  /\ pc = "resizeEvict"
  /\ SetRow(job.task, PreemptTask(rows[job.task]))
  /\ IF rows[job.task].status = "running" /\ job.gpus # {}
     THEN Goto("start") /\ UNCHANGED job
     ELSE Goto("resize") /\ job' = NoJob
  /\ UNCHANGED <<hostVars, scan>>

ResizeEnds ==
  /\ pc = "resize" /\ scan.todo = {}
  /\ LET list == {t \in Queued : Opt(t).background}
     IN  IF scan.queued
         THEN /\ Goto("background")
              /\ scan' = [scan EXCEPT !.todo = list, !.snap = Listed(list),
                                      !.after = "background"]
         ELSE Goto("release") /\ UNCHANGED scan
  /\ UNCHANGED <<rows, hostVars, job>>

-----------------------------------------------------------------------------
(* The last loop of _dispatch_queued_tasks: background tasks *)

NextBackground(t) ==
  /\ t \in scan.todo
  /\ \A u \in scan.todo : Opt(u).priority <= Opt(t).priority

StartBackground(t) ==
  /\ pc = "background" /\ NextBackground(t)
  /\ scan' = [scan EXCEPT !.todo = Drop(t)]
  /\ \E p \in PlansFor(t) : ~PendingRegular(p.worker, t) /\ job' = p
  /\ Goto("start")
  /\ UNCHANGED <<rows, hostVars>>

SkipBackground(t) ==
  /\ pc = "background" /\ NextBackground(t)
  /\ scan' = [scan EXCEPT !.todo = Drop(t)]
  /\ \/ PlansFor(t) = {}
     \/ \E p \in PlansFor(t) : PendingRegular(p.worker, t)
  /\ UNCHANGED <<rows, hostVars, pc, job>>

BackgroundEnds ==
  /\ pc = "background" /\ scan.todo = {}
  /\ Goto("release")
  /\ UNCHANGED <<rows, hostVars, job, scan>>

ReleaseLock ==
  /\ pc = "release"
  /\ lock' = "free" /\ Goto("idle") /\ job' = NoJob /\ scan' = NoScan
  /\ call' = [c \in Client |->
                IF call[c].step = "holds" THEN NoCall ELSE call[c]]
  /\ UNCHANGED <<rows, hostVars>>

-----------------------------------------------------------------------------
(* The REST handlers *)

SetCall(c, new) == call' = [call EXCEPT ![c] = new]

(* POST /tasks: store.create_task *)
SubmitTask(t) ==
  /\ Create(t)
  /\ UNCHANGED <<hostVars, holderVars, call>>

(* update_task, under the lock *)
EditTask(t) ==
  /\ lock = "free"
  /\ Update(t)
  /\ UNCHANGED <<hostVars, holderVars, call>>

(* The first read of start_task, rerun_task, pause_task and cancel_task.   *)
(* A call that returns at once because of what it read is left out.        *)
CallBegins(c, t) ==
  /\ call[c] = NoCall
  /\ LET status == rows[t].status
         begin(op, step) == SetCall(c, [op |-> op, task |-> t, step |-> step,
                                        worker |-> rows[t].worker])
     IN  \/ status = "paused" /\ begin("start", "update")
         \/ status = "queued" /\ begin("start", "dispatch")
         \/ status = "failed" /\ begin("rerun", "update")
         \/ /\ status \in {"queued", "running"} /\ Opt(t).preemptible
            /\ begin("pause", IF status = "running" THEN "kill" ELSE "update")
         \/ status = "running" /\ begin("cancel", "kill")
         \/ status \notin {"absent", "running"} /\ begin("cancel", "update")
  /\ UNCHANGED <<rows, hostVars, holderVars>>

(* pause_task and cancel_task kill without the lock.  A failed kill ends a *)
(* pause; a cancel only records it and goes on.                            *)
CallKills(c) ==
  /\ call[c].step = "kill"
  /\ \/ /\ KillSucceeds(call[c].worker, call[c].task)
        /\ SetCall(c, [call[c] EXCEPT !.step = "update"])
     \/ /\ KillRaises(call[c].worker, call[c].task)
        /\ SetCall(c, IF call[c].op = "pause"
                      THEN NoCall ELSE [call[c] EXCEPT !.step = "update"])
  /\ UNCHANGED <<rows, holderVars>>

CallResult(op, r) ==
  CASE op = "start"  -> StartTask(r)
    [] op = "rerun"  -> RerunTask(r)
    [] op = "pause"  -> PauseTask(r, TRUE)
    [] op = "cancel" -> CancelTask(r)

(* The statement of the store; start and rerun go on to a dispatch. *)
CallUpdates(c) ==
  /\ call[c].step = "update"
  /\ LET t == call[c].task
         r == CallResult(call[c].op, rows[t])
     IN  /\ SetRow(t, r)
         /\ SetCall(c, IF call[c].op \in {"start", "rerun"} /\ r # rows[t]
                       THEN [call[c] EXCEPT !.step = "dispatch"] ELSE NoCall)
  /\ UNCHANGED <<hostVars, holderVars>>

CallDispatches(c) ==
  /\ call[c].step = "dispatch"
  /\ lock = "free"
  /\ lock' = "call"
  /\ Goto("probe") /\ job' = NoJob /\ scan' = NoScan
  /\ SetCall(c, [call[c] EXCEPT !.step = "holds"])
  /\ UNCHANGED <<rows, hostVars>>

-----------------------------------------------------------------------------
(* The daemon dies and is started again; database and hosts persist. *)
Crash ==
  /\ Fault("crash")
  /\ lock' = "free" /\ pc' = "idle" /\ job' = NoJob /\ scan' = NoScan
  /\ call' = [c \in Client |-> NoCall]
  /\ UNCHANGED <<rows, sess, exitFile>>

HostMoves == HostStep /\ UNCHANGED <<rows, holderVars, call>>

TaskSteps(t) ==
  \/ ScheduledStart(t) \/ ScheduledStop(t)
  \/ SkipUnreachable(t) \/ ReadRaises(t) \/ ReadExitCode(t)
  \/ PickWithPlan(t) \/ PickForNuma(t) \/ PickWithoutPlan(t)
  \/ KillVictim(t) \/ ResizeTask(t) \/ StartBackground(t) \/ SkipBackground(t)

HolderStep ==
  /\ \/ \E t \in Task : TaskSteps(t)
     \/ ScheduledStopPauses \/ RefreshBegins \/ SessionPresent
     \/ SessionCheckRaises \/ SessionMissing \/ RequeueOrFailLost
     \/ FinishExited \/ TailLogsRaises \/ RefreshEnds
     \/ ProbeWorkers \/ PickEnds \/ ChooseVictims \/ NoVictims \/ EvictVictim
     \/ VictimsDone \/ Reprobe \/ Replan
     \/ LaunchStarts \/ LaunchDoesNotStart \/ MarkStarted \/ AbortLaunch
     \/ ResizeKill \/ ResizeEvict \/ ResizeEnds \/ BackgroundEnds
  /\ UNCHANGED <<lock, call>>

ClientStep ==
  \/ \E t \in Task : SubmitTask(t) \/ EditTask(t)
  \/ \E c \in Client, t \in Task : CallBegins(c, t)
  \/ \E c \in Client : CallKills(c) \/ CallUpdates(c) \/ CallDispatches(c)

SchedulerNext ==
  TickBegins \/ HolderStep \/ ReleaseLock \/ ClientStep \/ HostMoves \/ Crash

SchedulerSpec == SchedulerInit /\ [][SchedulerNext]_vars

(***************************************************************************)
(* The tick thread and the handler threads are threads of a live process   *)
(* and every SSH command has a timeout, so the holder keeps stepping and a *)
(* free lock is taken for the next tick; tmux ends a session whose shell   *)
(* has exited.  Nothing makes a command finish or a client call.           *)
(***************************************************************************)
FairSchedulerSpec ==
  /\ SchedulerSpec
  /\ WF_vars(HolderStep \/ ReleaseLock)
  /\ WF_vars(TickBegins)
  /\ \A w \in Worker, t \in Task :
       WF_vars(SessionCloses(w, t) /\ UNCHANGED <<rows, holderVars, call>>)
=============================================================================
