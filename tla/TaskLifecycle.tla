--------------------------- MODULE TaskLifecycle ---------------------------
(***************************************************************************)
(* The task table under any caller whatever: the daemon's scheduler, the   *)
(* REST handlers, the CLI on the daemon's database and the CLI in --db     *)
(* mode all reach it only through the statements of TaskTable, each one    *)
(* transaction.  This is what the table promises to all of them; Scheduler *)
(* is shown to implement it.                                               *)
(***************************************************************************)
EXTENDS TaskTable

VARIABLE rows   \* the tasks table: [Task -> Row]

StoreInit == rows = [t \in Task |-> AbsentRow]

Create(t) ==
  \E o \in Submissions[t], paused \in BOOLEAN :
    rows' = [rows EXCEPT ![t] = CreateTask(@, o, paused)]

Update(t) ==
  \E o \in Submissions[t] : rows' = [rows EXCEPT ![t] = UpdateTask(@, o)]

Mark(t) ==
  \E w \in Worker, G \in SUBSET Gpu :
    G # {} /\ rows' = [rows EXCEPT ![t] = MarkRunning(@, w, G)]

Finish(t) ==
  \E code \in ExitCode : rows' = [rows EXCEPT ![t] = FinishTask(@, code)]

Fail(t) == rows' = [rows EXCEPT ![t] = FailTask(@)]

Requeue(t) == rows' = [rows EXCEPT ![t] = RequeueTask(@)]

Preempt(t) == rows' = [rows EXCEPT ![t] = PreemptTask(@)]

Start(t) == rows' = [rows EXCEPT ![t] = StartTask(@)]

Pause(t) ==
  \E require_preemptible \in BOOLEAN :
    rows' = [rows EXCEPT ![t] = PauseTask(@, require_preemptible)]

Rerun(t) == rows' = [rows EXCEPT ![t] = RerunTask(@)]

Cancel(t) == rows' = [rows EXCEPT ![t] = CancelTask(@)]

StoreNext ==
  \E t \in Task :
    \/ Create(t) \/ Update(t) \/ Mark(t) \/ Finish(t) \/ Fail(t)
    \/ Requeue(t) \/ Preempt(t) \/ Start(t) \/ Pause(t) \/ Rerun(t)
    \/ Cancel(t)

StoreSpec == StoreInit /\ [][StoreNext]_rows

-----------------------------------------------------------------------------
(* Every row is a row of the schema. *)
RowsTyped == rows \in [Task -> Row]

(***************************************************************************)
(* The columns of a row never contradict its status, whichever statements  *)
(* ran before: a task that waits (paused, queued) has no placement left    *)
(* over from an earlier attempt -- update_task and the dispatcher rely on  *)
(* it -- and a running one has a worker, GPUs, a session and a start time. *)
(***************************************************************************)
Placed(r) == r.worker \in Worker /\ r.gpus # {} /\ r.session /\ r.started

NotPlaced(r) == r.worker = None /\ r.gpus = {} /\ ~r.session /\ ~r.started

PlacementMatchesStatus ==
  \A t \in Task :
    /\ rows[t].status \in {"absent", "paused", "queued"} => NotPlaced(rows[t])
    /\ rows[t].status = "running" => Placed(rows[t])

(***************************************************************************)
(* The result columns never contradict the status: finished_at is set in   *)
(* exactly the final states, exit code 0 in exactly "succeeded", and no    *)
(* task that may still run carries an exit code of an earlier attempt.     *)
(***************************************************************************)
ResultMatchesStatus ==
  \A t \in Task :
    /\ rows[t].finished <=> rows[t].status \in Final
    /\ rows[t].exit = 0 <=> rows[t].status = "succeeded"
    /\ rows[t].exit # None => rows[t].status \in {"succeeded", "failed"}

(***************************************************************************)
(* A background task is always preemptible, whatever was submitted or      *)
(* edited: the scheduler evicts background tasks without asking.           *)
(***************************************************************************)
BackgroundIsPreemptible ==
  \A t \in Task :
    /\ rows[t].status # "absent" => rows[t].options \in Option
    /\ (rows[t].status # "absent" /\ rows[t].options.background)
         => rows[t].options.preemptible

(* What the table guarantees of every row. *)
RowsConsistent ==
  PlacementMatchesStatus /\ ResultMatchesStatus /\ BackgroundIsPreemptible

(***************************************************************************)
(* A succeeded or canceled task stays exactly as it is: no late answer of  *)
(* a worker, no pause, no schedule and no edit changes it any more, and a  *)
(* failed one is only ever re-run.                                         *)
(***************************************************************************)
FinalRowsStay ==
  [][\A t \in Task :
       /\ rows[t].status \in {"succeeded", "canceled"} => rows'[t] = rows[t]
       /\ rows[t].status = "failed"
            => rows'[t] = rows[t] \/ rows'[t].status = "queued"]_rows

(***************************************************************************)
(* The options a task was dispatched with are the ones it has for as long  *)
(* as it runs, and the ones its result is filed under.                     *)
(***************************************************************************)
OptionsFrozenOnceDispatched ==
  [][\A t \in Task :
       rows[t].status \in {"running"} \cup Final
         => rows'[t].options = rows[t].options]_rows
=============================================================================
