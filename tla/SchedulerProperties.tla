------------------------ MODULE SchedulerProperties ------------------------
(* What the scheduler of gpu-watcher is expected to guarantee.             *)
EXTENDS Scheduler

SchedulerTyped ==
  /\ RowsTyped
  /\ HostTyped
  /\ lock \in {"free", "tick", "call"}
  /\ pc \in Stage
  /\ job \in Job
  /\ scan \in Scan
  /\ call \in [Client -> Call]
  /\ lock = "free" <=> pc = "idle"

(***************************************************************************)
(* Two running tasks never share a GPU of a worker, although a plan is     *)
(* made from a snapshot and the row is only written after the SSH launch.  *)
(***************************************************************************)
GpuExclusive ==
  \A t, u \in Running :
    t # u /\ rows[t].worker = rows[u].worker => rows[t].gpus \cap rows[u].gpus = {}

(***************************************************************************)
(* The running tasks of a worker never hold more GPU slots than            *)
(* max_concurrent_tasks, through preemptions, elastic resizes and retries. *)
(***************************************************************************)
CapRespected ==
  \A w \in Worker : Cap[w] # None => Slots(RunningOn(w)) <= Cap[w]

(***************************************************************************)
(* No more background tasks run on a worker than max_background_tasks; the *)
(* restart of a resized task does not check the limit again.               *)
(***************************************************************************)
BackgroundCapRespected ==
  \A w \in Worker :
    Cardinality({t \in RunningOn(w) : Opt(t).background}) <= MaxBackground[w]

(***************************************************************************)
(* Whenever the holder takes a task out of "running" (finished, lost,      *)
(* preempted, resized, stopped by its schedule) the command is over on the *)
(* worker the row names: it never forgets a session that still runs.       *)
(***************************************************************************)
HolderLeavesNoSession ==
  [][\A t \in Task :
       (/\ rows[t].status = "running" /\ rows'[t].status # "running"
        /\ call' = call)
         => sess'[rows[t].worker][t] # "live"]_vars

(***************************************************************************)
(* A running task goes back to the queue only if it is preemptible, and if *)
(* it is a victim only for a task of higher priority that may take it:     *)
(* background tasks by any, regular ones by those with allow_preempt.      *)
(***************************************************************************)
PreemptionAuthorised ==
  [][\A t \in Task :
       (rows[t].status = "running" /\ rows'[t].status = "queued")
         => /\ Opt(t).preemptible
            /\ pc = "evict"
                 => /\ Below(job.task, t)
                    /\ Opt(t).background \/ Opt(job.task).allow_preempt]_vars

(***************************************************************************)
(* Every statement the scheduler and the handlers execute is one of those  *)
(* of TaskLifecycle, on one row.                                           *)
(***************************************************************************)
StoreContract == StoreSpec

(* The GPUs leased to a task are those of its row while it runs. *)
LeaseOf(r) == IF r.status = "running" THEN {r.worker} \X r.gpus ELSE {}

Lease == INSTANCE GpuLease WITH lease <- [t \in Task |-> LeaseOf(rows[t])]

(***************************************************************************)
(* The scheduler implements the abstract GPU allocator: a GPU is acquired  *)
(* only when no other task holds it, and a task gives all of its GPUs back *)
(* at once.                                                                *)
(***************************************************************************)
LeaseContract == Lease!LeaseSpec

(***************************************************************************)
(* With nobody else changing the table, and launches that answer in time,  *)
(* every session that runs a command is accounted for: its row says        *)
(* running on that worker, or it is the launch about to be recorded.       *)
(***************************************************************************)
SessionsAccounted ==
  \A w \in Worker, t \in Task :
    sess[w][t] = "live" =>
      \/ rows[t].status = "running" /\ rows[t].worker = w
      \/ pc \in {"mark", "abort"} /\ job.task = t /\ job.worker = w

(***************************************************************************)
(* A tick or a dispatch always ends and gives the lock back: none of its   *)
(* loops over a table that changes under it goes on for ever.              *)
(***************************************************************************)
LockIsReleased == (lock # "free") ~> (lock = "free")

(* The check that may declare the task lost has read "no exit code". *)
LostCheckOf(t) == job.task = t /\ pc \in {"session", "lost"}

Filed(t, code) ==
  /\ rows[t].status = IF code = 0 THEN "succeeded" ELSE "failed"
  /\ rows[t].exit = code

(***************************************************************************)
(* When the command of a running task has ended, its result is eventually  *)
(* filed: the row becomes final with just that exit code.  The code throws *)
(* the result away in two cases only.  A preemptible task may be evicted,  *)
(* resized or requeued before the next refresh reads the code; it is then  *)
(* queued and its command runs again.  And a check of the session that had *)
(* read "no exit code" before the command ended may declare the task lost. *)
(* (For instances without clients and stop schedules, which may cancel or  *)
(* pause the task instead.)                                                *)
(***************************************************************************)
FiledUnlessDisplaced ==
  \A t \in Task, w \in Worker, code \in ExitCode :
    (/\ rows[t].status = "running" /\ rows[t].worker = w
     /\ exitFile[w][t] = code /\ ~LostCheckOf(t))
      ~> \/ Filed(t, code)
         \/ rows[t].status = "queued" /\ Opt(t).preemptible
=============================================================================
