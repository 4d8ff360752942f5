----------------------------- MODULE WorkerHost -----------------------------
(***************************************************************************)
(* The remote side of src/gpu_watcher/remote.py: on every worker host each *)
(* task has at most one tmux session (its name is a function of the task   *)
(* id) and one exit_code file in its task directory.  Each SSH command of  *)
(* RemoteExecutor is one atomic action with its outcomes; a command that   *)
(* raises may or may not have had its effect on the host.                  *)
(*                                                                         *)
(* A session is "live" while the task's command may run, and "closing"     *)
(* between the line of run.sh that writes exit_code and the end of tmux.   *)
(***************************************************************************)
EXTENDS TaskTable

CONSTANTS
  FaultKinds,  \* which may happen: "ssh" (a command fails), "timeout" (a launch
               \* happens unanswered), "kill" (a kill fails), "lost" (a session
               \* vanishes), "crash" (the daemon restarts)
  MaxFaults    \* bound on the number of faults of a behaviour

ASSUME MaxFaultsAssumption == MaxFaults \in Nat

VARIABLES
  sess,      \* sess[w][t]: the tmux session of task t on worker w
  exitFile,  \* exitFile[w][t]: content of t's exit_code file on w, or None
  faults     \* faults that may still happen

hostVars == <<sess, exitFile, faults>>

SessionState == {"none", "live", "closing"}

HostInit ==
  /\ sess = [w \in Worker |-> [t \in Task |-> "none"]]
  /\ exitFile = [w \in Worker |-> [t \in Task |-> None]]
  /\ faults = MaxFaults

Fault(kind) == kind \in FaultKinds /\ faults > 0 /\ faults' = faults - 1

SetSession(w, t, state) == sess' = [sess EXCEPT ![w][t] = state]

SetExitFile(w, t, content) == exitFile' = [exitFile EXCEPT ![w][t] = content]

-----------------------------------------------------------------------------
(* What happens on the host by itself *)

(* The command ends and run.sh writes its exit code. *)
CommandExits(w, t) ==
  /\ sess[w][t] = "live"
  /\ \E code \in ExitCode : SetExitFile(w, t, code)
  /\ SetSession(w, t, "closing")
  /\ UNCHANGED faults

SessionCloses(w, t) ==
  /\ sess[w][t] = "closing"
  /\ SetSession(w, t, "none")
  /\ UNCHANGED <<exitFile, faults>>

(* Reboot, OOM killer or "tmux kill-server": no exit code is written. *)
SessionLost(w, t) ==
  /\ sess[w][t] = "live"
  /\ Fault("lost")
  /\ SetSession(w, t, "none")
  /\ UNCHANGED exitFile

HostStep ==
  \E w \in Worker, t \in Task :
    CommandExits(w, t) \/ SessionCloses(w, t) \/ SessionLost(w, t)

-----------------------------------------------------------------------------
(* start_task: upload run.sh and remove exit_code, then tmux new-session.  *)
(* The two commands are one step: LaunchFails is the first one alone, and  *)
(* run.sh removes exit_code again before it runs the task's command.       *)

(* Mutant: exit_code is not removed before the session is created. *)
LaunchKeepsExitFile(w, t) ==
  /\ sess[w][t] = "none"
  /\ SetSession(w, t, "live")
  /\ UNCHANGED <<exitFile, faults>>

LaunchSucceeds(w, t) ==
  /\ sess[w][t] = "none"
  /\ SetSession(w, t, "live")
  /\ SetExitFile(w, t, None)
  /\ UNCHANGED faults

(* tmux refuses a second session of the same name; exit_code is gone. *)
LaunchRejected(w, t) ==
  /\ sess[w][t] # "none"
  /\ SetExitFile(w, t, None)
  /\ UNCHANGED <<sess, faults>>

(* The set-up command fails, before or after it removed exit_code. *)
LaunchFails(w, t) ==
  /\ Fault("ssh")
  /\ exitFile' = exitFile \/ SetExitFile(w, t, None)
  /\ UNCHANGED sess

(* The session is created but the answer does not arrive in time. *)
LaunchTimesOut(w, t) ==
  /\ sess[w][t] = "none"
  /\ Fault("timeout")
  /\ SetSession(w, t, "live")
  /\ SetExitFile(w, t, None)

LaunchRaises(w, t) ==
  LaunchRejected(w, t) \/ LaunchFails(w, t) \/ LaunchTimesOut(w, t)

(* kill_session: a session that does not exist counts as killed. *)
KillSucceeds(w, t) ==
  /\ SetSession(w, t, "none")
  /\ UNCHANGED <<exitFile, faults>>

KillRaises(w, t) ==
  /\ Fault("kill")
  /\ sess' = sess \/ SetSession(w, t, "none")
  /\ UNCHANGED exitFile

(* A command that only reads raises, or a log or GPU probe fails. *)
ProbeRaises == Fault("ssh") /\ UNCHANGED <<sess, exitFile>>

-----------------------------------------------------------------------------
HostTyped ==
  /\ sess \in [Worker -> [Task -> SessionState]]
  /\ exitFile \in [Worker -> [Task -> ExitCode \cup {None}]]
  /\ faults \in 0 .. MaxFaults

(***************************************************************************)
(* An exit_code file is never seen while the task's command runs: the file *)
(* of an earlier attempt on the same host is gone before the new session   *)
(* exists.  read_exit_code trusts the file without asking for the session. *)
(***************************************************************************)
ExitFileMeansDone ==
  \A w \in Worker, t \in Task : exitFile[w][t] # None => sess[w][t] # "live"
=============================================================================
