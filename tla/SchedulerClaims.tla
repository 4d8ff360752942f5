-------------------------- MODULE SchedulerClaims --------------------------
(***************************************************************************)
(* Statements of the repository about the scheduler that the code does not *)
(* keep: each is the property of a run in which TLC shows how it fails.    *)
(***************************************************************************)
EXTENDS Scheduler

(***************************************************************************)
(* scheduler.py:142-144 records "remote tmux session ... disappeared       *)
(* before exit_code was written".  When the holder is about to requeue or  *)
(* fail a task with that message, there is no exit_code file on the host.  *)
(***************************************************************************)
LostMeansNoExitCode ==
  pc = "lost" => exitFile[job.worker][job.task] = None

(* A launch of t on w that is not recorded yet, or about to be undone *)
LaunchInHand(w, t) ==
  pc \in {"mark", "abort"} /\ job.task = t /\ job.worker = w

(***************************************************************************)
(* docs/architecture.md:73: "Pausing a running task kills that task's      *)
(* process tree and tmux session, then clears its current placement so it  *)
(* can be started again later."  A paused task runs nowhere.               *)
(***************************************************************************)
PausedTaskRunsNowhere ==
  \A w \in Worker, t \in Task :
    (rows[t].status = "paused" /\ ~LaunchInHand(w, t)) => sess[w][t] # "live"

(***************************************************************************)
(* docs/architecture.md:73: "Terminating a running task kills that task's  *)
(* process tree and tmux session, then marks the task `canceled`."  A      *)
(* terminate goes on to mark the row only when its kill left no command    *)
(* running; _task_control_error (api.py:526) even has the refusal ready.   *)
(***************************************************************************)
TerminateGoesOnOnlyAfterKill ==
  [][\A c \in Client :
       (/\ call[c].op = "cancel" /\ call[c].step = "kill"
        /\ call'[c].step = "update")
         => sess'[call[c].worker][call[c].task] # "live"]_vars
=============================================================================
