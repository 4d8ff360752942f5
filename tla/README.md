# gpu-watcher: formal models

gpu-watcher is a small scheduler daemon for GPU hosts: it keeps tasks in an
SQLite table, probes the hosts with `nvidia-smi` over SSH, starts tasks in
detached tmux sessions on free GPUs, and collects their exit codes. This
directory holds TLA+ modules of its core, the configurations TLC checks them
with, and theorems about them that TLAPS checks. Line numbers refer to the
files under `src/`.

    tlc -config SchedulerRace.cfg MCScheduler     # check a run
    tlapm SchedulerProofs.tla                     # check the proofs of a module

## 1. The system

| component | state | operations |
|---|---|---|
| task table (`store.py`, `models.py`) | one row per task: status, options, placement (`assigned_worker`, `assigned_gpus_json`, `tmux_session`, `started_at`), result (`exit_code`, `finished_at`) | `create_task`, `update_task`, `mark_running`, `finish_task`, `fail_task`, `requeue_task`, `preempt_task`, `start_task`, `pause_task`, `rerun_task`, `cancel_task`, each an `UPDATE ... WHERE id = ? AND status ...` in a transaction of its own |
| scheduler (`scheduler.py`) | `_dispatch_lock`; the locals of `tick` and of its loops | `tick`: apply schedules, refresh running tasks, dispatch queued ones; `dispatch_queued_tasks`; `start/rerun/pause/cancel/update_task` |
| placement (`scheduler.py`) | none: reads the table and the readings of this tick | `_find_plan`, `_find_numa_preemption_plan`, victims of a preemption, elastic resize |
| worker hosts (`remote.py`) | per host and task a tmux session and an `exit_code` file | `start_task`, `read_exit_code`, `session_exists`, `kill_session`, `probe_gpus`, `tail_logs` |
| REST handlers (`api.py`) | none of their own, one thread per request | submit, edit, start, pause, rerun, terminate; lists, logs, login |
| GPU conditions (`store.py`) | `is_free`, `free_since` per worker, GPU and condition | `update_gpu_condition_states` after each probe, read by `_gpu_satisfies_task` |
| schedules (`cron.py`, `scheduler.py`) | `last_start_schedule_at`, `last_stop_schedule_at` of a row | `CronExpression.parse` and `matches`, `claim_schedule_trigger`, `_scheduled_start`, `_scheduled_stop` |
| connection pool (`store.py`) | one idle connection, `_closed` | `_acquire`, `connect`, `close` |
| events, callbacks, notifications (`scheduler.py`, `callbacks.py`, `im_notify.py`) | `task_events`, `connection_state` of a worker | `_run_task_notifications`, `_mark_worker_reachable`, `_mark_worker_unreachable` |
| streams (`api.py`, `remote.py`) | per web socket an ssh process, a PTY and two relay tasks | `task_log_stream`, `worker_nvtop_stream`, `_terminate_process` |
| command line (`cli.py`) | none; in `--db` mode a scheduler of its own | all task operations, `tick`, `wait` |
| authentication (`auth.py`) | login attempts per address | `login_allowed`, `record_login_failure` |
| configuration (`config.py`) | the TOML file | `load_config`, `update_worker_config_file` |

**How they interact.** The daemon is one process. `run_forever` calls `tick`
every poll interval; each REST request runs on a thread of the server's pool.
`tick`, `dispatch_queued_tasks` (called by start and rerun) and `update_task`
hold `Scheduler._dispatch_lock`. `pause_task`, `cancel_task` and the first
halves of `start_task` and `rerun_task` do **not**: they read a row, run an SSH
command and execute their UPDATE while a tick is between any two of its own
steps. What keeps such pairs apart is only the WHERE clause of each statement.
The hosts go on by themselves: commands end, sessions vanish, SSH calls fail
before or after they had their effect, and the daemon may die between two steps.
The web sockets are coroutines of one event loop, which itself calls the store;
with the scheduler thread and the threads of the handlers it shares one pooled
SQLite connection.

**What is hard here.** (a) A snapshot of the table or of a host is used after
other steps ran: the rows of a loop, the readings of a probe, the exit code
read before the session is asked for. (b) A launch has effect on the host
before the row says so. (c) Kills fail, and one of several may. (d) Tasks go
back from running to queued, paused or a new set of GPUs and start again on the
same host, with the same session name and task directory. (e) The slot and
background limits have to hold through retries and elastic growth, where the
task itself is left out of the sum. (f) Loops run over a table that their own
steps refill. (g) A trigger is claimed before it is carried out, a result is
filed before it is announced, and each may be cut off from the other. (h) What
a probe read is kept with its time and used ticks later. (i) Two relays of a
web socket end in any order, in the middle of reads, waits and signals. `PROJECT.json` lists each hazard at its line with the properties
that watch it.

**What makes each part correct.**

- *Table*: the columns of a row agree with its status after any sequence of
  statements; final rows never change; options stay as they were once a task
  was dispatched; a background task is preemptible.
- *Placement and scheduler*: no GPU runs two tasks; the slot and background
  limits hold; only a task entitled to it preempts; a row leaves `running`
  only when the command is over; every tick ends; the result of a command is
  filed unless its task has to make way before it was read.
- *Hosts*: no exit code of an earlier attempt is ever taken for one of a
  running command.
- *Schedules*: each trigger once per minute, stop before start, no claimed stop
  lost but to a failure after the claim, no session left behind.
- *Conditions*: a wait for `min_free_seconds` is a wait the probes confirm; the
  task that waits gets its GPU, and its victim does not take it back.
- *Notifications*: each result announced once, never of a task that runs again;
  outages and recoveries alternate; `wait` succeeds only for a command that did.
- *Pool and streams*: one borrower per connection, none lost, none dirty; a
  web socket that ends leaves no process and no PTY (but for two cancellations the
  code does not handle, section 3), and it does end.

## 2. Modules

| module | what it models |
|---|---|
| `TaskTable` | a row and the statements on it, as functions from row to row |
| `TaskLifecycle` | the table under any caller: one action per statement. It is also the contract the scheduler is shown to keep |
| `WorkerHost` | sessions and exit_code files, one action per SSH command and outcome, and what hosts do by themselves |
| `Placement` | plans, victims, NUMA victims and resize targets as operators on the table and the readings |
| `Scheduler` | the tick loop, the lock and the handler threads over the table and the hosts |
| `SchedulerProperties` | what the scheduler guarantees |
| `SchedulerClaims` | sentences of the repository the code does not keep |
| `GpuLease` | the abstract GPU allocator: acquire a free set of GPUs, give it back |
| `Cron` | expressions as sets of parts, which of them are accepted, what they match; civil time; and what the docstring of the class promises (`Means`) |
| `Schedules` | `_apply_schedules` with the claim of a minute, scheduled starts and stops, among clients, restarts and a clock |
| `GpuConditions` | probes, `free_since`, `min_free_seconds`, the window of the queue, and the dispatch pass as far as waiting and evicting go |
| `TaskEvents` | the refresh loop statement by statement with its notifications, the health events, and `gpu-watcher wait` |
| `StorePool` | the pooled connection under any number of threads |
| `Streams` | the two web socket handlers on the event loop, over `StorePool` |
| `MCTaskLifecycle`, `MCScheduler`, `MCSchedules`, `MCGpuConditions`, `MCTaskEvents`, `MCStreams` | instances for TLC |
| `SchedulerProofs` | theorems about the task table, and that the scheduler keeps to its statements |
| `PlacementProofs` | theorems about GPUs and limits; EXTENDS `SchedulerProofs` |
| `SessionProofs` | theorems about sessions, exit codes, preemption and the lock; EXTENDS `PlacementProofs` |
| `GpuLeaseProofs`, `SchedulesProofs`, `GpuConditionsProofs`, `TaskEventsProofs` | theorems about the module they are named for |
| `StorePoolProofs` | theorems about `StorePool` and `Streams` |

`Scheduler` EXTENDS `Placement` (which EXTENDS `TaskLifecycle`) and
`WorkerHost`; both build on `TaskTable`. `Schedules` and `TaskEvents` EXTEND
`WorkerHost`, `GpuConditions` EXTENDS `TaskTable`: they use the same statements
and SSH commands as `Scheduler`, with another part of the tick in detail and the
rest coarser. `Streams` EXTENDS `StorePool`.

**State of the scheduler.** `rows[t]` is the row of task `t`, "absent" before it is created.
`sess[w][t]` is the tmux session of `t` on host `w` (its name is a function of
the task id, so there is at most one), `exitFile[w][t]` the content of its
`exit_code` file, `faults` a budget for everything that goes wrong. `lock` is
`_dispatch_lock`. The thread that holds the lock is "the holder": `pc` names
its next step, `job` is the task it has in hand with the worker and GPUs
planned for it (`DispatchPlan`), and `scan` a record of its other locals
(rows as they were listed, unreachable workers, readings, attempted tasks,
victims). `call[c]` is where client thread `c` is inside its handler.

**Steps.** An action is one SSH command or one database transaction together
with the local computation that leads to it. So the kill of a victim
(`KillVictim`) and the UPDATE that requeues it (`EvictVictim`) are two steps,
and likewise launch (`LaunchStarts`) and `mark_running` (`MarkStarted`),
exit code (`ReadExitCode`) and session check (`SessionMissing`), and the read
(`CallBegins`), kill (`CallKills`) and UPDATE (`CallUpdates`) of a pause or a
terminate. One step merges two SSH commands: `LaunchSucceeds` is the set-up
(`remote.py:234`) and `tmux new-session` (`remote.py:243`); `LaunchFails` is the
set-up alone. What differs is an earlier session of the task, left by a launch
whose answer was lost, that ends between the two and writes its `exit_code`
after the set-up removed it: run.sh removes the file once more as it starts
(`remote.py:379`), so it is there for the instant until then, and the next
`read_exit_code` comes a tick later. The table reads of one planning decision are one step: they read
only running and queued rows, only the holder makes rows running, and rows that
stop running in between only make the decision more cautious.

**The other modules.**

- `Schedules`: `tick` is the scheduler thread inside `_apply_schedules`: the
  minute it works for, the tasks still to visit, and the phase of the trigger at
  hand (claimed, row read, killed, to be updated). `claimed` are the two columns
  of the row, `fired` remembers every minute claimed since the last edit, `clock`
  is the time. `refresh` and `dispatch` are one action, in which any queued tasks
  may start. Weekdays, months and offsets of zones are computed for real minutes
  of 2026, since which minute is due is what the properties are about.
- `GpuConditions`: `pass` is the thread in `_dispatch_queued_tasks`, `seen` the
  readings of this pass (`worker_states`), `reading` what a probe would read now,
  `since` the age of `free_since` per GPU and condition. Ages stop growing at
  `MaxAge`, which no wait exceeds, so time never has to end. `over`, `asked` and
  `evictor` are histories the properties compare it with.
- `TaskEvents`: `job` is the thread that holds the lock and the next statement it
  executes; the UPDATE of a result, the callback and the IM are steps of their
  own, and so are `connection_state` and the events recorded for it. Which task
  is launched or evicted is left open. Tasks have a callback and IM for all
  events; an eviction for a resize is announced in the same way as one for a
  preemption.
- `StorePool`: `op[c]` is how far the operation of thread `c` is, from `_acquire`
  to the `finally` of `connect`. `idle` is changed only inside `_pool_lock`; what
  a thread does with its connection outside of it are steps of their own, each
  of which may raise.
- `Streams`: `viewer[v]` is where a handler is, what runs of its two relays, its
  ssh process, its PTY and how far the log was piped and sent. The creation of the
  process is awaited: `OpenBegins` opens the PTY, other coroutines run, and then
  the process is there (`Open`), could not be created (`OpenRaises`) or the handler
  is cancelled at this await (`CancelOpen`). asyncio kills the process it was
  creating in that case; that is the library's part and not modelled. Steps of the event
  loop need `LoopFree`: while a coroutine is inside a store operation no other
  one runs. A read on a PTY is an executor thread that goes on when its relay is
  cancelled.

`PROJECT.json` maps every definition to the lines it translates. A definition
whose comment starts with "Mutant:" is not part of the model: it is a plausible
bug of the definition after it, and putting it in that place makes a run fail.
It shows that the property of that run can tell the difference.

**Data that is abstracted.**

- GPU load, in `Scheduler`: a probe yields an arbitrary set of GPUs that meet the launch
  condition, one condition for all tasks, anew for each probe. Where the code
  orders GPUs by load or victims of the same priority by start time, any order
  may be taken.
- `_gpu_can_satisfy_after_release` is taken as true, so at least as many
  victims are considered as in the code.
- Schedules, in `Scheduler`: each tick applies an arbitrary set of due start and
  stop triggers, stop winning over start.
- Time stamps but the ones named above, texts, and events no property reads.
- Every worker is enabled and has the same GPU indexes, and there is one
  scheduler process. The window of `queued_tasks` is in `GpuConditions` only, an
  exception of the database (a tick that raises anywhere) in `Schedules` only.
- `GpuConditions` is for tasks of one GPU on workers without limits.
- A stream reads its log in pieces of equal size.
- A REST call that returns at once because of the row it read is left out.

## 3. Runs

| run | configuration | question |
|---|---|---|
| `task_lifecycle` | 2 tasks, 1 worker, 2 GPUs; plain, preemptible and background submissions | do the columns of a row agree after any sequence of statements, and are final rows and the options of dispatched tasks left alone? |
| `scheduler_race` | 2 tasks (one preemptible with a stop schedule, one urgent), 1 worker, 1 GPU, 1 client, 1 fault of any kind | do exclusivity, the table contract, the allocator contract, the preemption rules and the exit_code protocol survive clients and faults at any step? |
| `scheduler_placement` | 3 tasks (elastic background, urgent two-GPU, scheduled or background), 2 GPUs, failed kills | do preemption and resizing keep GPUs exclusive, the background limit and every session accounted for? |
| `scheduler_numa` | 2 tasks, 4 GPUs on 2 nodes, 3 slots, failed kills; the GPUs of a node are symmetric | do NUMA preemption and the slot limit keep their promises? |
| `scheduler_liveness` | 2 tasks, 2 GPUs, 2 faults (SSH, kill, lost session), no client | does every tick end, and is the result of every command filed unless its task was displaced? |
| `schedules` | 2 tasks, 23:59 to 00:00 of 31 January in two time zones; 1 fault (SSH, kill or crash), 2 REST calls | is each trigger claimed once, in the right minute and for the right task, and what may lose a stop that was claimed? |
| `gpu_conditions` | 3 tasks, 1 GPU of 2 units of memory, a window of 2, waits of 2, 1 failed probe or launch | is a wait for a quiet GPU observed, does it end, and does the victim stay away? |
| `task_events` | 2 tasks with 2 and 1 launches, 2 GPUs, 2 faults (SSH, kill, lost session, crash), 1 REST call | what is announced, how often and of which attempt? |
| `streams` | a log or nvtop viewer, the event loop and the scheduler thread, 2 connections, a log of 3 pieces, 2 failures | are connections, processes and PTYs handed back, is the log sent once, and does the handler end? |
| `claim_lost` | 1 task, no fault | violated: see below |
| `claim_paused` | 1 task, 1 client, no fault | violated: see below |
| `claim_terminate` | 1 task, 1 client, 1 failed kill | violated: see below |

**Bounds and why they are enough.** Every property relates at most two tasks of
one worker, and workers share no state: the table rows of a worker are only
compared with each other. So one worker and two tasks reach each conflict; a
third task is there for chains (victim, preemptor, and a task that takes what
is left). One GPU forces every conflict in the race run; two are needed for
elastic sizes. For NUMA there are two nodes of two GPUs: a two-GPU task then finds
a plan across the nodes while its own node is blocked, and a limit of three
slots is one that four GPUs can exceed. One client thread is
enough for a race with the holder; two handlers racing each other touch the
table only through statements whose every order `task_lifecycle` covers. One
fault at any place reaches each error path; the liveness run allows two, so an
error path can fail again.

- `schedules`: the two minutes have every relation of triggers: none, start only,
  stop only, both. "both" starts in every hour and stops at midnight of a range
  of weekdays that ends in 7; "local" is due by either day field, in a zone whose
  clocks go back, so the same local hour comes again. One of the tasks is
  preemptible. A minute has any number of ticks, so two minutes suffice for "once
  per minute". Two calls are a change of the row and one more while the tick
  works on it. `FirstMinute` and `LastMinute` bound the clock.
- `gpu_conditions`: three tasks are the one that fits nowhere, the one that waits
  behind it and its victim; the window of two is full with the first two. A wait
  of two leaves room for a GPU to be used in the middle of it.
- `task_events`: two launches of one task are two attempts whose news could be
  mixed up; the second task is there for the loop that goes on after it and for
  the eviction. A second worker would only add independent outages.
- `scheduler_liveness`: the urgent task is not preemptible, so its result has to be
  filed; the elastic one may be evicted or resized when its command has just ended.
- `streams`: a thread holds at most one connection, so two connections serve two
  threads; a log of three pieces has one before, in and after the requested tail;
  two failures let a stream reconnect twice. The pool's properties are proved for
  every number of threads.

`MaxFaults`, `MaxCalls`, `MaxAttempts`, `MaxAge` and `MaxLog` bound what would
grow without end. `Streams.cfg` alone says CHECK_DEADLOCK FALSE: once the viewer
is gone, the log full and the store closed nothing is left to happen. Elsewhere a
tick can always begin.

**Fairness.** `FairSchedulerSpec` assumes weak fairness of the holder
(`HolderStep \/ ReleaseLock`), of `TickBegins` and of `SessionCloses`: threads
of a live process run, each SSH command has a timeout (`SshClient.run`,
`remote.py:61`), `run_forever` calls `tick` for ever, and tmux ends a session
whose shell exited. Nothing is assumed of commands (a task may run for ever),
of clients or of faults. The liveness run has no client, because
`threading.Lock` is not fair: clients that start tasks without end could keep a
tick from ever getting the lock, and the code has nothing against it.

`Schedules` and `GpuConditions` assume the same of their one thread (`TickBegins`
and `TickStep`; `PassBegins` and `PassStep`), `GpuConditions` also that time
passes. `WaitingTaskStarts` says that a task does not stay startable for ever
without being started, so clients and loads may do what they like. `Streams`
assumes that the event loop runs coroutines that can run (`HandlerStep`,
`LoopOperates`; and each of `SocketEnds` and `Wake`, which a busy log may not keep
from their turn), that the creation of a local ssh process ends, that a process ends after SIGKILL and that `read` on a PTY
returns once its process is gone. That `SocketEnds` comes for a client that
vanished without a close frame is what `heartbeat=30` (`api.py:297`) is for.
Nothing is assumed of a process that only got SIGTERM, nor of the log. `TaskEvents`
states safety only and has no fairness.

**What the violation runs show.**

- `claim_lost`: `refresh_running_tasks` reads the exit code, then asks for the
  session. A command that ends between the two is reported as "disappeared
  before exit_code was written" (`scheduler.py:143`) with its exit code on the
  host; a preemptible task that succeeded runs again, another is failed.
- `claim_paused`: a pause that saw the task queued, a tick that starts it, and
  the UPDATE of the pause, which accepts running rows: a paused row without
  placement, and a session that runs (`docs/architecture.md:73`).
- `claim_terminate`: `cancel_task` marks the row canceled although the kill
  raised (`docs/architecture.md:73`); `api.py:526` keeps an answer for a refused
  terminate that is never sent.

More sentences of the repository differ from the code without a run of their own.
`README.md:240` and step 5 of the dispatch flow promise that a GPU satisfied the
thresholds for all of `min_free_seconds`. `free_since` of a condition is brought
up to date only while a queued task or a running elastic one has that condition;
if none had for an hour, the next task with it starts at once on a GPU that was
used in that hour and is free now. `WaitIsObserved` has this proviso. The
docstring of `claim_schedule_trigger` (`store.py:660`) holds for one scheduler
process: the claim compares with `!=`, so two whose ticks are in different minutes
could claim a minute again. `docs/architecture.md:80` lets only tasks with `allow_preempt` preempt; the code,
its tests and the repository's README (line 238) let every regular task preempt
background tasks of lower priority, which is what `PreemptionAuthorised` states.
Step 7 of the dispatch flow speaks of a running-task count where the code (and
README line 234) counts GPU slots.

**What the other runs show of the code as it is.** These contradict no sentence
of the repository, and are worth knowing. A stop whose kill failed, or whose
tick died after the claim, is lost until the schedule matches again
(`StopTakesEffect` excuses a stop by a failure after its claim only, not by an
earlier one). The result of a preemptible task that is evicted or resized
after its command ended and before the next refresh reads the exit code is thrown
away, and the command runs again: nobody reads the code before the kill
(`FiledUnlessDisplaced` says so). A tick that lasts longer
than a minute skips the minutes in between; where clocks go back, local times come
twice and so do their triggers. A restart between `finish_task` and the
notification loses the news for good (`ResultsAreAnnounced`), and one between
`connection_state` and its events loses those (`OutagesAlternate`). News of an end
may follow a terminate, since nobody asks whether the UPDATE matched. A
background victim is held back while its preemptor waits, a regular preemptible
one is not: it may start again in the same pass and be evicted in the next. Nor
does a preemptor hold its victim back that was pushed out of the first 100 of the
queue after the background tasks were listed, by tasks for other workers
(`VictimWaitsForPreemptor` speaks of the window for this reason). With two workers
a pause that saw a task queued may leave its session on the first, the task
starts again on the second, and its scheduled stop then kills only the second
session (`ScheduledStopLeavesNoSession` speaks of the worker of the row). A log
stream keeps to the worker it began with, even after the task moved; what is
written while it reconnects is skipped. A cancellation in the three seconds between
SIGTERM and SIGKILL leaves a process that ignores SIGTERM. And `open_nvtop`
leaks a PTY: it opens it (`remote.py:307`), awaits the creation of the process
(`remote.py:315`) and closes the master side only under `except Exception`
(`remote.py:322`). `CancelledError` is no `Exception`, and the handler's `session`
is still `None` (`api.py:374`), so a handler cancelled at that await, by a server
that shuts down, leaves the descriptor open. `NothingLeftBehind` names these two
cancellations (`cut`) and shows that there is no third way to leave something;
`except BaseException` in `open_nvtop` would close the second gap.

## 4. Proofs

All theorems hold for every set of tasks, workers, GPUs, clients, threads and
viewers, all submissions, limits, expressions, thresholds and fault budgets. What
is assumed of the constants:

- `NoneAssumption`: NULL is not a task, worker, exit code or option record;
  `SubmissionsAssumption`: submissions are option records;
- `FiniteAssumption`: tasks and GPUs are finite sets, so that slots can be counted;
  `LimitsAssumption`: limits and nodes are numbers or NULL;
- `ConditionsAssumption`: thresholds, readings and ages are numbers, and no wait
  exceeds `MaxAge`;
- `PlansAssumption`: the expressions are ones `CronExpression.parse` accepts, as
  `create_task` and `update_task` make sure; `AskedAssumption`, `WindowAssumption`:
  the clock is a window of minutes; `ZoneAssumption`: local times stay within the
  year `Civil` knows;
- `NothingAssumption`: no connection is not a connection; `LoopAssumption`: the
  event loop is one of the threads; `AwaitedAssumption`: `wait` waits for tasks;
- `MaxFaultsAssumption`, `MaxCallsAssumption`, `MaxAttemptsAssumption`,
  `BoundsAssumption`: the bounds are numbers.

TLC evaluates them on each run.

| theorem | statement | inductive invariant or argument |
|---|---|---|
| `StoreKeepsRowsConsistent` | `StoreSpec => [](RowsTyped /\ RowsConsistent)` | `StoreInv`: every row typed, and `RowOK` of every row |
| `StoreKeepsPlacements`, `StoreKeepsResults`, `StoreKeepsBackgroundPreemptible` | `StoreSpec => []P` for `PlacementMatchesStatus`, `ResultMatchesStatus`, `BackgroundIsPreemptible` | the parts of `RowsConsistent`, from `StoreInv` |
| `StoreKeepsFinalRows` | `StoreSpec => FinalRowsStay` | from `StoreInv`, per statement |
| `StoreFreezesOptions` | `StoreSpec => OptionsFrozenOnceDispatched` | from `StoreInv`, per statement |
| `LeaseIsExclusive` | `LeaseSpec => []Exclusive` | `LeaseInv` |
| `SchedulerKeepsStoreContract` | `SchedulerSpec => StoreContract` | every step of the scheduler and of the handlers is a statement of the table with legal arguments (`RowStep`), under `HandInv` |
| `SchedulerKeepsRowsConsistent` | `SchedulerSpec => [](RowsTyped /\ RowsConsistent)` | the first theorem, through the contract |
| `SchedulerKeepsGpusExclusive` | `SchedulerSpec => []GpuExclusive` | `ExclusionInv` |
| `SchedulerKeepsLeaseContract` | `SchedulerSpec => LeaseContract` | under `ExclusionInv`, `MarkStarted` is an `Acquire` or changes nothing, every other step a `Release` or a stutter |
| `SchedulerRespectsCaps`, `SchedulerRespectsBackgroundCaps` | `SchedulerSpec => []P` for `CapRespected`, `BackgroundCapRespected` | `LimitInv` |
| `ResultsAreOfThisAttempt` | `SchedulerSpec => []ExitFileMeansDone` | `HostInv`: every step is one of seven host events |
| `SchedulerLeavesNoSession`, `SchedulerPreemptsAuthorised` | `SchedulerSpec => P` for `HolderLeavesNoSession`, `PreemptionAuthorised` | `ControlInv` |
| `SchedulerStaysTyped` | `SchedulerSpec => []SchedulerTyped` | `ControlInv` and what the lock is (`LockHeld`) |
| `SchedulerAccountsForSessions` | `SchedulerSpec => []SessionsAccounted`, if there is no client, no crash and no lost answer of a launch | `ControlInv`, `QueuedInHand` and the property itself |
| `CronMatchesAsMeant` | for every accepted expression and local time, `Matches <=> Means` | arithmetic of ranges and steps (`StepsReach`), field by field |
| `StopWins`, `DueTriggersAreClaimed` | `Spec => []P` for `NeverBothInOneMinute`, `DueIsClaimed` of `Schedules` | `ScheduleInv`, and `CronMatchesAsMeant` |
| `ClaimedOncePerMinute`, `FinalRowsAreKept`, `ScheduledStopIsClean` | `Spec => P` for `OncePerMinute`, `SchedulesKeepFinalRows`, `ScheduledStopLeavesNoSession` | `ScheduleInv` |
| `WaitsAreObserved`, `VictimsWait` | `Spec => P` for `WaitIsObserved`, `VictimWaitsForPreemptor` of `GpuConditions` | `ConditionsInv` |
| `OneResultIsTold`, `ResultsReachTheWorld`, `WaitIsTruthful` | `Spec => []P` for `OneResultPerAttempt`, `ResultsAreAnnounced`, `WaitSucceedsTruly` of `TaskEvents` | `EventsInv` |
| `NewsIsOfStoppedTasks`, `OutagesDoAlternate` | `Spec => P` for `NoNewsOfRunningTask`, `OutagesAlternate` | `EventsInv` |
| `PoolIsSafe` | `PoolSpec => [](BorrowedByOne /\ NothingLeaks /\ IdleIsClean)` | `PoolInv` |
| `StreamsImplementPool` | `Spec => PoolSpec` of `Streams` | every step of a handler is a step of the event loop's operation on the pool, or leaves the pool alone |
| `StreamsKeepPoolSafe`, `ConnectionsHaveOneBorrower` | `Spec => []P` for the properties of the pool | the two before |
| `StreamsLeaveNothing`, `StreamsSendOnce` | `Spec => []P` for `NothingLeftBehind`, `NothingSentTwice` | `StreamsInv` |

**The table and its contract.** That every step is a statement of
`TaskLifecycle` is not evident from the step
alone: `MarkStarted` needs to know that the plan in hand names a worker and at
least one GPU, `FinishExited` that the code it holds is an exit code,
`EvictVictim` that its victim is a task. `HandInv` states what the locals of
the holder and of the clients are at each step (`HandTyped`, `HandKnown`,
`CallsKnown`) together with `StoreInv`, because plans and victims are computed
from rows. One lemma per group of steps of the code shows it is kept
(`SchedulesKeepHand`, `RefreshKeepsHand`, `PickKeepsHand`, `YieldKeepsHand`,
`LaunchKeepsHand`, `ResizeKeepsHand`, `BackgroundKeepsHand`, `OthersKeepHand`).
`PlanPlaces` is the lemma about placement they rest on: a plan is a non-empty
set of GPUs of one worker that no other running task holds.

**Exclusivity.** `GpuExclusive` is not inductive: when a launch is recorded,
nothing is checked again. `ExclusionInv` adds why the plan is still good.
`PlanIsFree`: while the holder may still record its plan, no other running task
holds the planned GPUs. It is kept because only `MarkStarted` gives a task a
placement (`OnlyMarkPlaces`, `NothingElsePlaces`) and only the holder, with one
task in hand, executes it; all other steps, of clients too, can only free GPUs
(`FewerOccupied`). `ListIsFresh` is for the resize loop, which plans from rows
listed earlier: a task it has not visited is where it was if it runs at all,
because the loop restarts only tasks it has visited. Without it the plan of a
resized task could contain GPUs that another one was given.

**Limits.** `LimitInv` adds to that `PlanFits`: while the plan may still be
recorded, the task on the planned GPUs is within the limits beside all *other*
tasks of the worker. It leaves out the task in hand because a plan of a resize
is made while the task itself runs and counts. Plans satisfy it by how `_find_plan`
and the resize choose a size, and since nothing else places a task the other slots
can only become fewer (`FewerSlots`).

**Sessions and preemption.** Whatever the holder concludes it concludes from
earlier steps. `ControlInv` records what stays true of them: `RefreshKnown` (a
listed task, if it still runs, runs where it was listed), `VictimsKnown` and
`ResizeKnown` (victims are preemptible for the task in hand and run on that host,
if they run), `OverKnown` (after a kill or a check that came out so, the
command of the task is over wherever its row says it runs). The last is stable
because only the holder launches and `HostInv` says what hosts do by themselves.
`SessionsAccounted` needs `QueuedInHand` also: what the holder is about to launch
is queued, so its `mark_running` will match. A client may break that, as may a
launch whose answer is lost and a crash before the record; `claim_paused` shows
the first, and the theorem names all three.

**Schedules.** `NeverBothInOneMinute` follows from `FiredWasDue` (what was fired
was due, a start only where no stop was). `OncePerMinute` needs `ClaimIsLast`:
the one minute kept in the column is the last of all those fired since the last edit, and
no tick works for an earlier one. `VisitedFired` says what the loop of
`_apply_schedules` has done of its minute so far, and `CronMatchesAsMeant` turns
"due by the sets that were computed" into "due as the docstring means it".
`StopIsSafe` carries the success of a kill to the UPDATE that relies on it.

**Conditions.** `SinceIsHonest`: while all probes were answered, a probe that
read a GPU over a condition is at least as old as the condition's `free_since`, or
at least as old as the last probe that did not ask for the condition. The second
half is what makes it inductive, and is the proviso of `WaitIsObserved`.
`EvictorKnown` remembers that the preemptor is a regular task of higher priority
for that worker. Its options cannot change while it waits, so
`PendingRegular` finds it as long as it is in the window. Of a preemptor that is
queued behind the window the property is false, as an instance with two workers and
a window of one shows; the instance of the run is too small for that.

**Notifications.** `EventsInv` has one part per promise: `NewsIsOfStopped`,
`ToldOnce` (a running attempt and one the loop has still to visit are untold),
`ResultsTold` (a filed result is told or being told), `OutagesKnown` (the last
event of a task and `connection_state` of its worker agree, but for the events
about to be recorded) and `CodesWereWritten`. They rest on each other, and on
`VisitedOnce`: the loop has no task twice, and the ones it has still to
visit have no result, which is where the lock is used.

**Pool and streams.** The pool's three properties are conjuncts of `PoolInv`,
which adds what a thread
is known to hold: a connection exactly while its operation works on it
(`HoldsWhileOperating`), and one without a transaction once it committed or rolled
back (`ReusableIsClean`). Without the first a thread could give back a connection
it never took, without the second a dirty one. `StreamsInv` says of each handler by
itself what it holds at which stage (`HoldsByStage`: a PTY only while the process is
created or watched, or after a cancellation in between) and that what was sent
is an ascending sequence of pieces no further than the handler has read, which is
no further than the ssh process has piped (`Sent`).

**Only model-checked.** Every safety and action property of the passing runs is a
theorem. The liveness properties (`LockIsReleased`, `FiledUnlessDisplaced`,
`StopTakesEffect`, `WaitingTaskStarts`, `HandlerEnds`) stay with TLC: TLAPS has no
rules for ENABLED and fairness. Sums over victim sets (`MapThenSumSet`) are defined
by recursion, so facts about `NumaRank` need an induction the installed provers
cannot do; no theorem uses it. The claims of the violation runs are false and
refuted by TLC.

## 5. Not modelled

- Two schedulers on one database (the CLI in `--db` mode next to the daemon):
  nothing but the WHERE clauses keeps them apart, and two plans for one GPU are
  evidently possible; `docs/architecture.md:27` asks for one.
- `update_worker`, disabled or missing workers: workers are constants.
- Authentication: signed tokens can only be assumed, and the login window is a
  counter that one thread changes.
- Configuration files, list and search queries, payload parsing, command line
  output, the web front end: sequential input and output without shared state.
- The commands of callbacks and the HTTP posts of notifications, the filter of
  callback events, texts of events.
- In the streams, input and resize of a terminal and the number of a PTY's
  descriptor: `terminate` closes it while an executor thread may still be about to
  read or write it, and another file may get that number. A model would need the
  kernel's table of descriptors.
- A kill is one step: that a process tree may survive the end of its tmux session
  is not represented. `fail_start` has no caller. Rows are never deleted by the
  code, nor here.

## 6. Plan

1. Done: the scheduler with its table, hosts and placement, `GpuLease` as its
   abstract specification and the theorems about them.
2. Done: `Cron` and `Schedules`, `GpuConditions`, `TaskEvents`, `StorePool` and
   `Streams`, with a run each, and the theorems about the pool.
3. Done: a theorem for every safety and action property of the passing runs.
4. Next: `Schedules`, `TaskEvents` and `GpuConditions` as callers of the table:
   that their steps keep the contract of `TaskLifecycle` as those of the scheduler
   do, so that what is proved of the table holds of them too.
5. Later: `update_worker` with running tasks, and two schedulers on one database.
