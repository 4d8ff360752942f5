----------------------------- MODULE TaskTable -----------------------------
(***************************************************************************)
(* One row of the "tasks" table of gpu-watcher and the statements that     *)
(* src/gpu_watcher/store.py runs on it.  Every operator below maps the row *)
(* before a statement to the row after it; the WHERE clause of the         *)
(* statement is the condition under which the row changes, so "the update  *)
(* matched a row" is  Op(r) # r.                                           *)
(*                                                                         *)
(* Texts (name, command, message, environment, log mode), the time stamps  *)
(* created_at / updated_at and the task_events log are left out;           *)
(* started_at and finished_at are kept as "is not NULL".                   *)
(***************************************************************************)
EXTENDS Naturals, FiniteSets

CONSTANTS
  Task,        \* task ids (uuid4 in the code)
  Worker,      \* names of the configured workers
  Gpu,         \* GPU indexes of a worker
  None,        \* SQL NULL / Python None
  Submissions  \* [Task -> SUBSET Option]: what callers ask for, per task

Final == {"succeeded", "failed", "canceled"}   \* TERMINAL_STATUSES

Status == {"absent", "paused", "queued", "running"} \cup Final

ExitCode == {0, 1}   \* 0, or any other code

Option ==
  [priority      : Nat,
   gpus          : Nat \ {0},            \* requested_gpus
   preemptible   : BOOLEAN,
   allow_preempt : BOOLEAN,
   background    : BOOLEAN,
   elastic       : BOOLEAN,
   waits         : BOOLEAN,              \* min_free_seconds > 0
   target        : Worker \cup {None},   \* target_worker
   schedule      : SUBSET {"start", "stop"}]  \* start_cron, stop_cron set

Row ==
  [status   : Status,
   options  : Option \cup {None},
   worker   : Worker \cup {None},        \* assigned_worker
   gpus     : SUBSET Gpu,                \* assigned_gpus_json
   session  : BOOLEAN,                   \* tmux_session IS NOT NULL
   started  : BOOLEAN,                   \* started_at IS NOT NULL
   finished : BOOLEAN,                   \* finished_at IS NOT NULL
   exit     : ExitCode \cup {None}]

ASSUME NoneAssumption == None \notin Task \cup Worker \cup ExitCode \cup Option
ASSUME SubmissionsAssumption == Submissions \in [Task -> SUBSET Option]

AbsentRow ==
  [status |-> "absent", options |-> None, worker |-> None, gpus |-> {},
   session |-> FALSE, started |-> FALSE, finished |-> FALSE, exit |-> None]

(* Mutant: the flag is stored as it was submitted. *)
NormalizedAsSubmitted(o) == o

(* int(preemptible or background), in create_task and update_task *)
Normalized(o) == [o EXCEPT !.preemptible = o.preemptible \/ o.background]

(* The columns that say where a task runs, set back to NULL *)
Unplaced(r) ==
  [r EXCEPT !.worker = None, !.gpus = {}, !.session = FALSE, !.started = FALSE]

CreateTask(r, o, paused) ==
  IF r.status = "absent"
  THEN [AbsentRow EXCEPT !.status = IF paused THEN "paused" ELSE "queued",
                         !.options = Normalized(o)]
  ELSE r

(* Mutant: the WHERE clause only asks for a task that is not final. *)
UpdateTaskUnlessFinal(r, o) ==
  IF r.status \in {"paused", "queued", "running"}
  THEN [r EXCEPT !.options = Normalized(o)]
  ELSE r

UpdateTask(r, o) ==
  IF \/ r.status = "paused"
     \/ r.status = "queued" /\ ~r.started /\ r.worker = None /\ ~r.session
  THEN [r EXCEPT !.options = Normalized(o)]
  ELSE r

MarkRunning(r, w, G) ==
  IF r.status = "queued"
  THEN [r EXCEPT !.status = "running", !.worker = w, !.gpus = G,
                 !.session = TRUE, !.started = TRUE]
  ELSE r

(* Mutant: the WHERE clause of fail_start. *)
FinishTaskOfQueued(r, code) ==
  IF r.status = "queued"
  THEN [r EXCEPT !.status = IF code = 0 THEN "succeeded" ELSE "failed",
                 !.finished = TRUE, !.exit = code]
  ELSE r

FinishTask(r, code) ==
  IF r.status = "running"
  THEN [r EXCEPT !.status = IF code = 0 THEN "succeeded" ELSE "failed",
                 !.finished = TRUE, !.exit = code]
  ELSE r

(* Mutant: a made-up exit code for a task that left none. *)
FailTaskWithCode(r) ==
  IF r.status = "running"
  THEN [r EXCEPT !.status = "failed", !.finished = TRUE, !.exit = 255]
  ELSE r

FailTask(r) ==
  IF r.status = "running"
  THEN [r EXCEPT !.status = "failed", !.finished = TRUE, !.exit = None]
  ELSE r

(* Mutant: only the status is set back. *)
RequeueTaskInPlace(r) ==
  IF r.status = "running" THEN [r EXCEPT !.status = "queued"] ELSE r

RequeueTask(r) ==
  IF r.status = "running" THEN Unplaced([r EXCEPT !.status = "queued"]) ELSE r

PreemptTask(r) ==
  IF r.status = "running" THEN Unplaced([r EXCEPT !.status = "queued"]) ELSE r

(* Mutant: the WHERE clause only keeps running tasks out. *)
StartTaskUnlessRunning(r) ==
  IF r.status # "running"
  THEN [r EXCEPT !.status = "queued", !.finished = FALSE, !.exit = None]
  ELSE r

StartTask(r) ==
  IF r.status = "paused"
  THEN [r EXCEPT !.status = "queued", !.finished = FALSE, !.exit = None]
  ELSE r

PauseTask(r, require_preemptible) ==
  IF /\ r.status \in {"queued", "running"}
     /\ require_preemptible => r.options.preemptible
  THEN Unplaced([r EXCEPT !.status = "paused", !.finished = FALSE,
                          !.exit = None])
  ELSE r

(* Mutant: the result of the failed attempt is kept. *)
RerunTaskKeepingResult(r) ==
  IF r.status = "failed" THEN Unplaced([r EXCEPT !.status = "queued"]) ELSE r

RerunTask(r) ==
  IF r.status = "failed"
  THEN Unplaced([r EXCEPT !.status = "queued", !.finished = FALSE,
                          !.exit = None])
  ELSE r

(* Mutant: no condition on the status. *)
CancelTaskAlways(r) ==
  IF r.status = "absent"
  THEN r ELSE [r EXCEPT !.status = "canceled", !.finished = TRUE]

CancelTask(r) ==
  IF r.status \in {"paused", "queued", "running"}
  THEN [r EXCEPT !.status = "canceled", !.finished = TRUE]
  ELSE r
=============================================================================
