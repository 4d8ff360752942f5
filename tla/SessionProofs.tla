---------------------------- MODULE SessionProofs ----------------------------
(***************************************************************************)
(* What the scheduler may conclude about the sessions on the hosts, for    *)
(* any tasks, workers, GPUs, clients and faults: a result is that of the   *)
(* attempt its row is about, no running task is given up while its command *)
(* runs, and only tasks that may be preempted are.                         *)
(*                                                                         *)
(* All of it rests on the lock: between the SSH command on which the       *)
(* holder acts and the statement it then executes, pause_task, cancel_task *)
(* and the hosts may still intervene, but nobody else can launch a task,   *)
(* edit one or have a running one move.                                    *)
(***************************************************************************)
EXTENDS PlacementProofs

-----------------------------------------------------------------------------
(* Results *)

HostInv ==
  /\ sess \in [Worker -> [Task -> SessionState]]
  /\ exitFile \in [Worker -> [Task -> ExitCode \cup {None}]]
  /\ ExitFileMeansDone

(* The commands and events that touch a session or an exit_code file *)
HostEvent(w, t) ==
  \/ CommandExits(w, t) \/ SessionCloses(w, t) \/ SessionLost(w, t)
  \/ LaunchSucceeds(w, t) \/ LaunchRaises(w, t)
  \/ KillSucceeds(w, t) \/ KillRaises(w, t)

LEMMA SetSessionSets ==
  ASSUME HostInv, NEW w, NEW t, NEW state \in SessionState, SetSession(w, t, state)
  PROVE  /\ sess' \in [Worker -> [Task -> SessionState]]
         /\ \A v \in Worker, u \in Task :
              sess'[v][u] = IF v = w /\ u = t THEN state ELSE sess[v][u]
BY DEF HostInv, SetSession

LEMMA SetExitFileSets ==
  ASSUME HostInv, NEW w, NEW t, NEW code \in ExitCode \cup {None},
         SetExitFile(w, t, code)
  PROVE  /\ exitFile' \in [Worker -> [Task -> ExitCode \cup {None}]]
         /\ \A v \in Worker, u \in Task :
              exitFile'[v][u] = IF v = w /\ u = t THEN code ELSE exitFile[v][u]
BY DEF HostInv, SetExitFile

LEMMA HostEventKeeps ==
  ASSUME HostInv, NEW w, NEW t, HostEvent(w, t)
  PROVE  HostInv'
<1> USE DEF ExitFileMeansDone
<1>1. "none" \in SessionState /\ "live" \in SessionState /\ "closing" \in SessionState
  BY DEF SessionState
<1>2. CASE CommandExits(w, t)
  <2>1. SetSession(w, t, "closing") /\ \E code \in ExitCode : SetExitFile(w, t, code)
    BY <1>2 DEF CommandExits
  <2> QED
    BY <1>1, <2>1, SetSessionSets, SetExitFileSets DEF HostInv
<1>3. CASE SetSession(w, t, "none") /\ UNCHANGED exitFile
  BY <1>1, <1>3, SetSessionSets DEF HostInv
<1>4. CASE SetSession(w, t, "live") /\ SetExitFile(w, t, None)
  BY <1>1, <1>4, SetSessionSets, SetExitFileSets DEF HostInv
<1>5. CASE UNCHANGED sess /\ SetExitFile(w, t, None)
  BY <1>5, SetExitFileSets DEF HostInv
<1>6. CASE UNCHANGED <<sess, exitFile>>
  BY <1>6 DEF HostInv
<1> QED
  BY <1>2, <1>3, <1>4, <1>5, <1>6
  DEF HostEvent, SessionCloses, SessionLost, LaunchSucceeds, LaunchRaises,
      LaunchRejected, LaunchFails, LaunchTimesOut, KillSucceeds, KillRaises

(* Every step is such an event or leaves the hosts alone. *)
LEMMA HostEvents ==
  ASSUME [SchedulerNext]_vars
  PROVE  UNCHANGED <<sess, exitFile>> \/ \E w, t : HostEvent(w, t)
<1>1. CASE HolderStep
  BY <1>1
  DEF HolderStep, TaskSteps, hostVars, HostEvent, ProbeRaises, ScheduledStart,
      ScheduledStop, ScheduledStopPauses, RefreshBegins, SkipUnreachable,
      ReadRaises, ReadExitCode, SessionPresent, SessionCheckRaises,
      SessionMissing, RequeueOrFailLost, FinishExited, TailLogsRaises,
      RefreshEnds, ProbeWorkers, PickWithPlan, PickForNuma, PickWithoutPlan,
      PickEnds, ChooseVictims, NoVictims, KillVictim, EvictVictim, VictimsDone,
      Reprobe, Replan, LaunchStarts, LaunchDoesNotStart, MarkStarted,
      AbortLaunch, ResizeTask, ResizeKill, ResizeEvict, ResizeEnds,
      StartBackground, SkipBackground, BackgroundEnds
<1>2. CASE HostMoves
  BY <1>2 DEF HostMoves, HostStep, HostEvent
<1>3. CASE \E c \in Client : CallKills(c)
  BY <1>3 DEF CallKills, HostEvent
<1>4. CASE \/ TickBegins \/ ReleaseLock \/ Crash
           \/ \E t \in Task : SubmitTask(t) \/ EditTask(t)
           \/ \E c \in Client, t \in Task : CallBegins(c, t)
           \/ \E c \in Client : CallUpdates(c) \/ CallDispatches(c)
  BY <1>4 DEF TickBegins, ReleaseLock, Crash, SubmitTask, EditTask, CallBegins,
              CallUpdates, CallDispatches, hostVars
<1> QED
  BY <1>1, <1>2, <1>3, <1>4 DEF SchedulerNext, ClientStep, vars, hostVars

LEMMA HostInvInit == SchedulerInit => HostInv
BY DEF SchedulerInit, HostInit, HostInv, ExitFileMeansDone, SessionState

LEMMA HostInvStep ==
  ASSUME HostInv, [SchedulerNext]_vars
  PROVE  HostInv'
<1>1. CASE UNCHANGED <<sess, exitFile>>
  BY <1>1 DEF HostInv, ExitFileMeansDone
<1>2. CASE \E w, t : HostEvent(w, t)
  BY <1>2, HostEventKeeps
<1> QED
  BY <1>1, <1>2, HostEvents

(***************************************************************************)
(* While the command of a task runs on a host there is no exit_code file   *)
(* of it there: what read_exit_code finds is the result of the attempt the *)
(* row is about, through retries, rejected and unanswered launches.        *)
(***************************************************************************)
THEOREM ResultsAreOfThisAttempt == SchedulerSpec => []ExitFileMeansDone
<1>1. HostInv => ExitFileMeansDone
  BY DEF HostInv
<1> QED
  BY <1>1, HostInvInit, HostInvStep, PTL DEF SchedulerSpec

-----------------------------------------------------------------------------
(* What the holder knows of the tasks it has in hand *)

Refreshing == {"refresh", "session", "lost", "finish"}

Stays(t, w) == rows[t].status = "running" => rows[t].worker = w

(* A task is what it was when it was listed, as far as it still runs. *)
AsListed(t) ==
  /\ rows[t].status # "absent"
  /\ Opt(t) = scan.snap[t].options
  /\ Stays(t, scan.snap[t].worker)

RefreshKnown ==
  /\ pc \in Refreshing => \A t \in scan.todo : AsListed(t)
  /\ pc \in Refreshing \ {"refresh"}
       => AsListed(job.task) /\ job.worker = scan.snap[job.task].worker

(* By their options, a task with options u may be evicted for one with o. *)
GivesWay(u, o) ==
  /\ u.preemptible
  /\ u.priority < o.priority
  /\ u.background \/ o.allow_preempt

MayEvict(t, v) == rows[v].status # "absent" /\ GivesWay(Opt(v), Opt(t))

VictimsKnown ==
  /\ pc \in {"yield", "kill", "evict"} => scan.mode # "none"
  /\ pc \in Yielding /\ scan.mode = "regular" => Opt(job.task).allow_preempt
  /\ pc \in {"kill", "evict"}
       => \A v \in scan.victims : MayEvict(job.task, v) /\ Stays(v, scan.host)
  /\ pc = "evict" => MayEvict(job.task, scan.victim)

IsBackground(t) == rows[t].status # "absent" /\ Opt(t).background

ResizeKnown ==
  /\ Resizing => \A t \in scan.todo : IsBackground(t)
  /\ pc \in {"resizeKill", "resizeEvict"} => IsBackground(job.task)
  /\ pc = "resizeKill" => Stays(job.task, job.worker)

(* If t runs by its row, its command is over all the same. *)
CommandOver(t) ==
  rows[t].status = "running" => sess[rows[t].worker][t] # "live"

OverKnown ==
  /\ pc \in {"stop", "lost", "finish", "resizeEvict"} => CommandOver(job.task)
  /\ pc = "evict" => CommandOver(scan.victim)

ControlInv ==
  /\ ExclusionInv /\ HostInv /\ LockHeld
  /\ RefreshKnown /\ VictimsKnown /\ ResizeKnown /\ OverKnown

-----------------------------------------------------------------------------
(* What stays true under the lock *)

LEMMA RowsStay ==
  ASSUME ControlInv, [SchedulerNext]_vars, NEW t \in Task, rows[t].status # "absent"
  PROVE  rows'[t].status # "absent"
BY RowStep, RowsRemain DEF ControlInv, ExclusionInv, HandInv

LEMMA OptStays ==
  ASSUME ControlInv, [SchedulerNext]_vars, pc # "idle",
         NEW t \in Task, rows[t].status # "absent"
  PROVE  Opt(t)' = Opt(t)
BY HeldOptionsStay DEF ControlInv, ExclusionInv, OptionsKept, Opt

LEMMA StaysStays ==
  ASSUME NothingPlaced, NEW t \in Task, NEW w, Stays(t, w)
  PROVE  rows'[t].status = "running" => rows'[t].worker = w
BY DEF NothingPlaced, SamePlace, Stays

LEMMA ListedStays ==
  ASSUME ControlInv, [SchedulerNext]_vars, pc # "idle", ~MarkStarted,
         NEW t \in Task, AsListed(t), scan'.snap = scan.snap
  PROVE  AsListed(t)'
<1>1. NothingPlaced
  BY NothingElsePlaces DEF ControlInv, ExclusionInv
<1>2. rows'[t].status # "absent"
  BY RowsStay DEF AsListed
<1>3. Opt(t)' = Opt(t)
  BY OptStays DEF AsListed
<1>4. Stays(t, scan.snap[t].worker)'
  BY <1>1, StaysStays DEF AsListed, Stays
<1> QED
  BY <1>2, <1>3, <1>4 DEF AsListed

LEMMA MayEvictStays ==
  ASSUME ControlInv, [SchedulerNext]_vars, pc # "idle",
         NEW t \in Task, NEW v \in Task, rows[t].status # "absent", MayEvict(t, v)
  PROVE  /\ rows'[v].status # "absent"
         /\ GivesWay(rows'[v].options, rows'[t].options)
<1>1. rows'[v].status # "absent"
  BY RowsStay DEF MayEvict
<1>2. Opt(v)' = Opt(v) /\ Opt(t)' = Opt(t)
  BY OptStays DEF MayEvict
<1> QED
  BY <1>1, <1>2 DEF MayEvict, Opt

(* Only a launch makes a session run a command. *)
LEMMA OnlyLaunchesRevive ==
  ASSUME HostInv, [SchedulerNext]_vars, ~LaunchStarts, ~LaunchDoesNotStart,
         NEW w \in Worker, NEW t \in Task, sess'[w][t] = "live"
  PROVE  sess[w][t] = "live"
<1>1. \/ UNCHANGED sess
      \/ \E v, u : SetSession(v, u, "none") \/ SetSession(v, u, "closing")
  BY DEF SchedulerNext, HolderStep, TaskSteps, ClientStep, HostMoves, HostStep,
         CommandExits, SessionCloses, SessionLost, KillSucceeds, KillRaises,
         ProbeRaises, TickBegins, ScheduledStart, ScheduledStop,
         ScheduledStopPauses, RefreshBegins, SkipUnreachable, ReadRaises,
         ReadExitCode, SessionPresent, SessionCheckRaises, SessionMissing,
         RequeueOrFailLost, FinishExited, TailLogsRaises, RefreshEnds,
         ProbeWorkers, PickWithPlan, PickForNuma, PickWithoutPlan, PickEnds,
         ChooseVictims, NoVictims, KillVictim, EvictVictim, VictimsDone, Reprobe,
         Replan, MarkStarted, AbortLaunch, ResizeTask, ResizeKill, ResizeEvict,
         ResizeEnds, StartBackground, SkipBackground, BackgroundEnds, ReleaseLock,
         SubmitTask, EditTask, CallBegins, CallKills, CallUpdates,
         CallDispatches, Crash, hostVars, vars
<1> QED
  BY <1>1, SetSessionSets DEF SessionState

LEMMA OverStays ==
  ASSUME ControlInv, [SchedulerNext]_vars, pc \notin {"start", "mark"},
         NEW t \in Task, CommandOver(t)
  PROVE  rows'[t].status = "running" => sess'[rows'[t].worker][t] # "live"
<1>1. SUFFICES ASSUME rows'[t].status = "running"
               PROVE  sess'[rows'[t].worker][t] # "live"
  OBVIOUS
<1>2. ~MarkStarted /\ ~LaunchStarts /\ ~LaunchDoesNotStart
  BY DEF MarkStarted, LaunchStarts, LaunchDoesNotStart
<1>3. rows[t].status = "running" /\ rows'[t].worker = rows[t].worker
  BY <1>1, <1>2, NothingElsePlaces
  DEF ControlInv, ExclusionInv, NothingPlaced, SamePlace
<1>4. rows[t].worker \in Worker
  BY <1>3 DEF ControlInv, ExclusionInv, HandInv, StoreInv, TableOK, RowOK, Placed
<1> QED
  BY <1>2, <1>3, <1>4, OnlyLaunchesRevive DEF CommandOver, ControlInv

-----------------------------------------------------------------------------
(* The holder's knowledge, step by step *)

(* Steps that go on with the loop over the running tasks *)
LEMMA RefreshGoesOn ==
  ASSUME [SchedulerNext]_vars, scan \in Scan, pc' \in Refreshing, ~RefreshBegins
  PROVE  /\ pc \in Refreshing
         /\ scan'.snap = scan.snap /\ scan'.todo \subseteq scan.todo
         /\ \/ pc' = "refresh"
            \/ pc # "refresh" /\ job' = job
            \/ \E t \in scan.todo : job' = Hand(t, scan.snap[t].worker)
<1> USE DEF Goto, Refreshing
<1>1. CASE UNCHANGED <<pc, job, scan>>
  BY <1>1
<1>2. CASE \E t \in Task : \/ SkipUnreachable(t) \/ ReadRaises(t)
                           \/ ReadExitCode(t)
  <2>1. PICK t \in Task : SkipUnreachable(t) \/ ReadRaises(t) \/ ReadExitCode(t)
    BY <1>2
  <2>2. scan'.snap = scan.snap /\ scan'.todo = Drop(t)
    BY <2>1 DEF SkipUnreachable, ReadRaises, ReadExitCode, Scan
  <2>3. pc = "refresh" /\ t \in scan.todo
    BY <2>1 DEF SkipUnreachable, ReadRaises, ReadExitCode
  <2>4. pc' = "refresh" \/ job' = Hand(t, scan.snap[t].worker)
    BY <2>1 DEF SkipUnreachable, ReadRaises, ReadExitCode
  <2> QED
    BY <2>2, <2>3, <2>4 DEF Drop
<1>3. CASE SessionPresent \/ SessionCheckRaises \/ SessionMissing
           \/ RequeueOrFailLost \/ FinishExited
  <2>1. scan'.snap = scan.snap /\ scan'.todo = scan.todo
    BY <1>3 DEF SessionPresent, SessionCheckRaises, SessionMissing,
                RequeueOrFailLost, FinishExited, Scan
  <2> QED
    BY <1>3, <2>1 DEF SessionPresent, SessionCheckRaises, SessionMissing,
                      RequeueOrFailLost, FinishExited
<1>4. scan.after \notin Refreshing
  BY DEF Scan
<1> QED
  BY <1>1, <1>2, <1>3, <1>4
  DEF SchedulerNext, HolderStep, TaskSteps, ClientStep, HostMoves, TickBegins,
      ScheduledStart, ScheduledStop, ScheduledStopPauses, TailLogsRaises,
      RefreshEnds, ProbeWorkers, PickWithPlan, PickForNuma, PickWithoutPlan,
      PickEnds, ChooseVictims, NoVictims, KillVictim, EvictVictim, VictimsDone,
      Reprobe, Replan, LaunchStarts, LaunchDoesNotStart, MarkStarted,
      AbortLaunch, ResizeTask, ResizeKill, ResizeEvict, ResizeEnds,
      StartBackground, SkipBackground, BackgroundEnds, ReleaseLock, SubmitTask,
      EditTask, CallBegins, CallKills, CallUpdates, CallDispatches, Crash,
      holderVars, vars

LEMMA RefreshStep ==
  ASSUME ControlInv, [SchedulerNext]_vars
  PROVE  RefreshKnown'
<1> SUFFICES ASSUME pc' \in Refreshing PROVE RefreshKnown'
  BY DEF RefreshKnown
<1>1. CASE RefreshBegins
  <2>1. /\ rows' = rows /\ pc' = "refresh"
        /\ scan'.todo = Running /\ scan'.snap = Listed(Running)
    BY <1>1 DEF RefreshBegins, Goto, ControlInv, ExclusionInv, HandInv, HandTyped,
                Scan
  <2>2. \A t \in Running : AsListed(t)'
    BY <2>1 DEF AsListed, Stays, Listed, Running, Opt
  <2> QED
    BY <2>1, <2>2 DEF RefreshKnown
<1>2. CASE ~RefreshBegins
  <2>1. /\ pc \in Refreshing
        /\ scan'.snap = scan.snap /\ scan'.todo \subseteq scan.todo
        /\ \/ pc' = "refresh"
           \/ pc # "refresh" /\ job' = job
           \/ \E t \in scan.todo : job' = Hand(t, scan.snap[t].worker)
    BY <1>2, RefreshGoesOn DEF ControlInv, ExclusionInv, HandInv, HandTyped
  <2>2. \A t \in Task : AsListed(t) => AsListed(t)'
    BY <2>1, ListedStays DEF Refreshing, MarkStarted
  <2>3. scan.todo \subseteq Task /\ \A t \in scan.todo : AsListed(t)
    BY <2>1 DEF ControlInv, ExclusionInv, HandInv, HandTyped, Scan, RefreshKnown
  <2>4. pc # "refresh" => /\ job.task \in Task /\ AsListed(job.task)
                          /\ job.worker = scan.snap[job.task].worker
    BY <2>1 DEF ControlInv, ExclusionInv, HandInv, HandKnown, Working, Refreshing,
                RefreshKnown
  <2>5. pc' # "refresh"
          => \E t \in Task : /\ AsListed(t) /\ job'.task = t
                            /\ job'.worker = scan.snap[t].worker
    BY <2>1, <2>3, <2>4 DEF Hand
  <2> QED
    BY <2>1, <2>2, <2>3, <2>5 DEF RefreshKnown, AsListed, Stays, Opt
<1> QED
  BY <1>1, <1>2

-----------------------------------------------------------------------------
LEMMA VictimsMayBeEvicted ==
  ASSUME StoreInv, NEW t \in Task, NEW w, NEW v,
         \/ v \in BackgroundVictims(t, w)
         \/ v \in RegularVictims(t, w) /\ Opt(t).allow_preempt
  PROVE  v \in Task /\ MayEvict(t, v) /\ Stays(v, w)
<1>1. v \in Task /\ rows[v].status = "running" /\ rows[v].worker = w /\ Below(t, v)
  BY DEF BackgroundVictims, RegularVictims, RunningOn, Running
<1>2. \/ Opt(v).background
      \/ Opt(v).preemptible /\ Opt(t).allow_preempt
  BY DEF BackgroundVictims, RegularVictims
<1>3. Opt(v).background => Opt(v).preemptible
  BY <1>1 DEF StoreInv, TableOK, RowOK, Opt
<1> QED
  BY <1>1, <1>2, <1>3 DEF MayEvict, GivesWay, Below, Stays

LEMMA OfferedMayBeEvicted ==
  ASSUME StoreInv, job.task \in Task, NEW w, NEW V \in Offered(w), NEW v \in V,
         scan.mode = "background" \/ Opt(job.task).allow_preempt
  PROVE  v \in Task /\ MayEvict(job.task, v) /\ Stays(v, w)
<1>1. v \in (IF scan.mode = "background" THEN BackgroundVictims(job.task, w)
                                         ELSE RegularVictims(job.task, w))
  BY DEF Offered, VictimLists
<1> QED
  BY <1>1, VictimsMayBeEvicted

LEMMA NumaChosenMayBeEvicted ==
  ASSUME StoreInv, NEW t \in Task, NEW c \in NumaChoicesFor(t), NEW v \in c.victims
  PROVE  v \in Task /\ MayEvict(t, v) /\ Stays(v, c.host)
<1>1. PICK w \in Worker, n \in {Node[g] : g \in Gpu} \ {None} :
        \E V \in NumaSets(t, w, n, scan.up, scan.ready) :
          c = [host |-> w, victims |-> V]
  BY DEF NumaChoicesFor, NumaChoices
<1>2. c.host = w /\ c.victims \in NumaSets(t, w, n, scan.up, scan.ready)
  BY <1>1
<1>3. v \in NumaVictims(t, w)
  BY <1>2 DEF NumaSets
<1> QED
  BY <1>2, <1>3, VictimsMayBeEvicted DEF NumaVictims

(* The victims of a plan made in this state: nothing has changed yet. *)
LEMMA FreshVictims ==
  ASSUME UNCHANGED rows, pc' = "kill", scan'.mode # "none",
         scan'.mode # "regular" \/ Opt(job'.task).allow_preempt,
         \A v \in scan'.victims : MayEvict(job'.task, v) /\ Stays(v, scan'.host)
  PROVE  VictimsKnown'
BY DEF VictimsKnown, MayEvict, Stays, Opt

LEMMA VictimsStep ==
  ASSUME ControlInv, [SchedulerNext]_vars
  PROVE  VictimsKnown'
<1> USE DEF Goto
<1>1. scan \in Scan /\ StoreInv /\ scan.victims \subseteq Task
  BY DEF ControlInv, ExclusionInv, HandInv, HandTyped, Scan
<1>2. CASE \E t \in Task : PickForNuma(t)
  <2>1. PICK t \in Task : PickForNuma(t)
    BY <1>2
  <2>2. PICK c \in NumaChoicesFor(t) :
          scan' = [scan EXCEPT !.tried = @ \cup {t}, !.after = "pick",
                               !.mode = "numa", !.got = FALSE,
                               !.host = c.host, !.victims = c.victims]
    BY <2>1 DEF PickForNuma
  <2>3. scan'.mode = "numa" /\ scan'.host = c.host /\ scan'.victims = c.victims
    BY <1>1, <2>2 DEF Scan
  <2>4. rows' = rows /\ pc' = "kill" /\ job' \in PlansFor(t)
    BY <2>1 DEF PickForNuma
  <2>5. job'.task = t
    <3>1. rows[t].status # "absent"
      BY <2>1 DEF PickForNuma, NextRegular, Queued
    <3> QED
      BY <2>4, <3>1, HeldPlanPlaces DEF ControlInv, ExclusionInv
  <2> QED
    BY <1>1, <2>3, <2>4, <2>5, NumaChosenMayBeEvicted, FreshVictims
<1>3. CASE ChooseVictims
  <2>1. PICK w \in Worker : \E V \in Offered(w) :
          scan' = [scan EXCEPT !.host = w, !.victims = V, !.got = FALSE]
    BY <1>3 DEF ChooseVictims
  <2>2. PICK V \in Offered(w) :
          scan' = [scan EXCEPT !.host = w, !.victims = V, !.got = FALSE]
    BY <2>1
  <2>3. scan'.mode = scan.mode /\ scan'.host = w /\ scan'.victims = V
    BY <1>1, <2>2 DEF Scan
  <2>4. rows' = rows /\ pc' = "kill" /\ job' = job /\ pc = "yield"
    BY <1>3 DEF ChooseVictims
  <2>5. /\ job.task \in Task
        /\ scan.mode = "background" \/ Opt(job.task).allow_preempt
        /\ scan.mode = "regular" => Opt(job.task).allow_preempt
        /\ scan.mode # "none"
    BY <1>1, <2>4 DEF Scan, ControlInv, VictimsKnown, Yielding, ExclusionInv, HandInv,
                HandKnown, Working
  <2> QED
    BY <1>1, <2>3, <2>4, <2>5, OfferedMayBeEvicted, FreshVictims
<1>4. CASE \E t \in Task : PickWithoutPlan(t)
  <2>1. pc' = "yield" /\ scan'.mode = "background"
    BY <1>1, <1>4 DEF PickWithoutPlan, Scan
  <2> QED
    BY <2>1 DEF VictimsKnown
<1>5. CASE NoVictims
  <2>1. \/ pc' = "pick"
        \/ /\ pc' = "yield" /\ scan'.mode = "regular" /\ UNCHANGED <<rows, job>>
           /\ Opt(job.task).allow_preempt
    BY <1>1, <1>5 DEF NoVictims, Scan
  <2> QED
    BY <2>1 DEF VictimsKnown, Yielding, Opt
<1>6. CASE /\ pc \in Yielding /\ pc' \in Yielding /\ job' = job
           /\ scan'.mode = scan.mode
           /\ pc' \in {"kill", "evict"}
                => /\ pc \in {"kill", "evict"} /\ scan'.host = scan.host
                   /\ scan'.victims \subseteq scan.victims
           /\ pc' = "evict"
                => \/ scan'.victim \in scan.victims
                   \/ pc = "evict" /\ scan'.victim = scan.victim
           /\ pc' \in {"yield", "kill", "evict"} => scan.mode # "none"
  <2>1. job.task \in Task /\ rows[job.task].status # "absent"
    BY <1>6 DEF ControlInv, ExclusionInv, HandInv, HandKnown, Working, Yielding
  <2>2. pc # "idle" /\ ~MarkStarted
    BY <1>6 DEF MarkStarted, Yielding
  <2>3. ASSUME NEW v \in Task, MayEvict(job.task, v)
        PROVE  /\ rows'[v].status # "absent"
               /\ GivesWay(rows'[v].options, rows'[job'.task].options)
    BY <1>6, <2>1, <2>2, <2>3, MayEvictStays
  <2>4. ASSUME NEW v \in Task, Stays(v, scan.host)
        PROVE  rows'[v].status = "running" => rows'[v].worker = scan.host
    BY <2>2, <2>4, NothingElsePlaces, StaysStays DEF ControlInv, ExclusionInv
  <2>5. pc = "evict" => scan.victim \in Task
    BY DEF ControlInv, ExclusionInv, HandInv, HandKnown
  <2>6. ASSUME scan.mode = "regular"
        PROVE  rows'[job'.task].options.allow_preempt
    BY <1>6, <2>1, <2>2, <2>6, OptStays DEF ControlInv, VictimsKnown, Opt
  <2>7. ASSUME pc' \in {"kill", "evict"}, NEW v \in scan'.victims
        PROVE  MayEvict(job.task, v) /\ Stays(v, scan.host) /\ v \in Task
    BY <1>1, <1>6, <2>7 DEF ControlInv, VictimsKnown
  <2>8. ASSUME pc' = "evict"
        PROVE  MayEvict(job.task, scan'.victim) /\ scan'.victim \in Task
    BY <1>1, <1>6, <2>5, <2>8 DEF ControlInv, VictimsKnown
  <2> QED
    BY <1>6, <2>3, <2>4, <2>6, <2>7, <2>8 DEF VictimsKnown, MayEvict, Stays, Opt
<1>7. CASE pc' \notin Yielding
  BY <1>7 DEF VictimsKnown, Yielding
<1>8. CASE UNCHANGED <<pc, job, scan>>
  <2>1. CASE pc \in Yielding
    BY <1>6, <1>8, <2>1 DEF ControlInv, VictimsKnown
  <2> QED
    BY <1>7, <1>8, <2>1
<1>9. CASE \E v \in Task : KillVictim(v)
  <2>1. PICK v \in Task : KillVictim(v)
    BY <1>9
  <2>2. /\ scan'.mode = scan.mode /\ scan'.host = scan.host
        /\ scan'.victims \subseteq scan.victims
        /\ pc' = "evict" => scan'.victim \in scan.victims
    BY <1>1, <2>1 DEF KillVictim, Scan
  <2>3. /\ pc = "kill" /\ pc' \in {"kill", "evict"} /\ job' = job
        /\ scan.mode # "none"
    BY <2>1 DEF KillVictim, ControlInv, VictimsKnown
  <2>4. pc \in Yielding /\ pc' \in Yielding
    BY <2>3 DEF Yielding
  <2> QED
    BY <1>6, <2>2, <2>3, <2>4
<1>10. CASE EvictVictim \/ VictimsDone
  <2>1. /\ scan'.mode = scan.mode /\ scan'.host = scan.host
        /\ scan'.victims = scan.victims
    BY <1>1, <1>10 DEF EvictVictim, VictimsDone, Scan
  <2> QED
    BY <1>6, <1>7, <1>10, <2>1
    DEF EvictVictim, VictimsDone, Yielding, ControlInv, VictimsKnown
<1>11. CASE Reprobe
  <2>1. scan'.mode = scan.mode
    BY <1>1, <1>11 DEF Reprobe, Scan
  <2> QED
    BY <1>6, <1>11, <2>1 DEF Reprobe, Yielding
<1>12. scan.after \notin Yielding
  BY <1>1 DEF Scan, Yielding
<1> QED
  BY <1>2, <1>3, <1>4, <1>5, <1>7, <1>8, <1>9, <1>10, <1>11, <1>12
  DEF Yielding, SchedulerNext, HolderStep, TaskSteps, ClientStep, HostMoves,
      TickBegins, ScheduledStart, ScheduledStop, ScheduledStopPauses,
      RefreshBegins, SkipUnreachable, ReadRaises, ReadExitCode, SessionPresent,
      SessionCheckRaises, SessionMissing, RequeueOrFailLost, FinishExited,
      TailLogsRaises, RefreshEnds, ProbeWorkers, PickWithPlan, PickEnds, Replan,
      LaunchStarts, LaunchDoesNotStart, MarkStarted, AbortLaunch, ResizeTask,
      ResizeKill, ResizeEvict, ResizeEnds, StartBackground, SkipBackground,
      BackgroundEnds, ReleaseLock, SubmitTask, EditTask, CallBegins, CallKills,
      CallUpdates, CallDispatches, Crash, holderVars, vars

-----------------------------------------------------------------------------
LEMMA ResizeKnownStep ==
  ASSUME ControlInv, [SchedulerNext]_vars
  PROVE  ResizeKnown'
<1> USE DEF Goto
<1>1. scan \in Scan /\ scan.todo \subseteq Task /\ scan.after # "resizeKill"
  BY DEF ControlInv, ExclusionInv, HandInv, HandTyped, Scan
<1>2. CASE ProbeWorkers \/ PickEnds
  <2>1. rows' = rows /\ pc' \in {"pick", "resize"}
    BY <1>2 DEF ProbeWorkers, PickEnds
  <2>2. pc' = "resize" => scan'.todo = ResizeList
    <3>1. CASE PickEnds
      BY <1>1, <3>1 DEF PickEnds, Scan
    <3>2. CASE ProbeWorkers
      BY <3>2, NoScanTyped DEF ProbeWorkers, Scan
    <3> QED
      BY <1>2, <3>1, <3>2
  <2> QED
    BY <2>1, <2>2
    DEF ResizeKnown, Resizing, IsBackground, ResizeList, Running, Opt
<1>3. CASE /\ Resizing /\ scan'.todo \subseteq scan.todo
           /\ pc' \in {"resizeKill", "resizeEvict"}
                => /\ job'.task \in Task /\ IsBackground(job'.task)
                   /\ pc' = "resizeKill" => Stays(job'.task, job'.worker)
                   /\ ~MarkStarted
  <2>1. pc # "idle"
    BY <1>3 DEF Resizing
  <2>2. ASSUME NEW t \in Task, IsBackground(t)
        PROVE  rows'[t].status # "absent" /\ rows'[t].options.background
    BY <2>1, <2>2, RowsStay, OptStays DEF IsBackground, Opt
  <2>3. \A t \in scan'.todo : t \in Task /\ IsBackground(t)
    BY <1>1, <1>3 DEF ControlInv, ResizeKnown
  <2>4. ASSUME pc' = "resizeKill"
        PROVE  rows'[job'.task].status = "running"
                 => rows'[job'.task].worker = job'.worker
    BY <1>3, <2>4, NothingElsePlaces, StaysStays DEF ControlInv, ExclusionInv
  <2> QED
    BY <1>3, <2>2, <2>3, <2>4 DEF ResizeKnown, IsBackground, Stays, Opt
<1>4. CASE \E t \in Task : ResizeTask(t)
  <2>1. PICK t \in Task : ResizeTask(t)
    BY <1>4
  <2>2. /\ pc = "resize" /\ t \in scan.todo /\ scan'.todo = Drop(t)
    BY <1>1, <2>1 DEF ResizeTask, Scan
  <2>3. Resizing /\ scan'.todo \subseteq scan.todo /\ ~MarkStarted
    BY <2>2 DEF Resizing, MarkStarted, Drop
  <2>4. pc' \in {"resizeKill", "resizeEvict"}
          => job'.task = t /\ job'.worker = scan.snap[t].worker
    BY <2>1, <2>2 DEF ResizeTask
  <2>5. IsBackground(t) /\ Stays(t, scan.snap[t].worker)
    BY <2>2, <2>3
    DEF ControlInv, ResizeKnown, ExclusionInv, ListIsFresh, SamePlace, Stays
  <2> QED
    BY <1>3, <2>3, <2>4, <2>5
<1>5. CASE /\ Resizing /\ scan'.todo \subseteq scan.todo
           /\ \/ pc' \notin {"resizeKill", "resizeEvict"}
              \/ /\ pc \in {"resizeKill", "resizeEvict"} /\ job' = job
                 /\ pc' = "resizeKill" => pc = "resizeKill"
  <2>1. pc \in {"resizeKill", "resizeEvict"}
          => job.task \in Task /\ IsBackground(job.task) /\ ~MarkStarted
    BY DEF ControlInv, ResizeKnown, ExclusionInv, HandInv, HandKnown, Working,
           MarkStarted
  <2> QED
    BY <1>3, <1>5, <2>1 DEF ControlInv, ResizeKnown
<1>6. CASE UNCHANGED <<pc, job, scan>>
  BY <1>5, <1>6 DEF Resizing, ResizeKnown
<1>7. CASE LaunchStarts \/ LaunchDoesNotStart \/ MarkStarted \/ AbortLaunch
  <2>1. /\ pc \in {"start", "mark", "abort"} /\ scan' = scan
        /\ pc' \in {"mark", "abort", "pick", "resize", "background"}
    BY <1>1, <1>7 DEF Scan, LaunchStarts, LaunchDoesNotStart, MarkStarted, AbortLaunch
  <2>2. pc' \in {"mark", "abort"} \/ pc' = scan.after
    BY <1>7 DEF LaunchStarts, LaunchDoesNotStart, MarkStarted, AbortLaunch
  <2>3. CASE scan.after = "resize"
    BY <1>5, <2>1, <2>3 DEF Resizing
  <2>4. CASE scan.after # "resize"
    BY <2>1, <2>2, <2>4 DEF ResizeKnown, Resizing
  <2> QED
    BY <2>3, <2>4
<1>8. CASE ResizeKill \/ ResizeEvict
  BY <1>5, <1>8 DEF ResizeKill, ResizeEvict, Resizing
<1>9. CASE /\ \/ \E t \in Task : PickWithPlan(t) \/ StartBackground(t)
              \/ VictimsDone \/ Replan
  <2>1. scan.after # "resize" \/ \E t \in Task : PickWithPlan(t)
    BY <1>9 DEF ControlInv, ExclusionInv, HandInv, HandKnown, StartBackground,
                VictimsDone, Replan, Yielding
  <2>2. scan'.after # "resize"
    BY <1>1, <1>9, <2>1 DEF PickWithPlan, StartBackground, VictimsDone, Replan, Scan
  <2>3. pc' \in {"start", "reprobe", "yield", "pick"}
    BY <1>9 DEF PickWithPlan, StartBackground, VictimsDone, Replan
  <2> QED
    BY <2>2, <2>3 DEF ResizeKnown, Resizing
<1>10. CASE pc' \in {"idle", "schedule", "stop", "refresh", "session", "lost",
                     "finish", "probe", "pick", "yield", "kill", "evict",
                     "reprobe", "replan", "background", "release"}
  BY <1>10 DEF ResizeKnown, Resizing
<1> QED
  BY <1>2, <1>4, <1>6, <1>7, <1>8, <1>9, <1>10
  DEF SchedulerNext, HolderStep, TaskSteps, ClientStep, HostMoves, TickBegins,
      ScheduledStart, ScheduledStop, SkipUnreachable, ReadRaises, ReadExitCode,
      PickForNuma, PickWithoutPlan, KillVictim, SkipBackground,
      ScheduledStopPauses, RefreshBegins, SessionPresent, SessionCheckRaises,
      SessionMissing, RequeueOrFailLost, FinishExited, TailLogsRaises,
      RefreshEnds, ChooseVictims, NoVictims, EvictVictim, Reprobe, ResizeEnds,
      BackgroundEnds, ReleaseLock, SubmitTask, EditTask, CallBegins, CallKills,
      CallUpdates, CallDispatches, Crash, holderVars, vars

-----------------------------------------------------------------------------
(* A kill that answers ends the session it names. *)
LEMMA KillEnds ==
  ASSUME HostInv, NEW w \in Worker, NEW t \in Task, KillSucceeds(w, t)
  PROVE  sess'[w][t] = "none"
BY SetSessionSets DEF KillSucceeds, SessionState

LEMMA OverStep ==
  ASSUME ControlInv, [SchedulerNext]_vars
  PROVE  OverKnown'
<1> USE DEF Goto
<1> DEFINE overAfter(t) ==
             rows'[t].status = "running" => sess'[rows'[t].worker][t] # "live"
<1>1. /\ scan \in Scan /\ HostInv /\ HandInv
      /\ scan.after \notin {"stop", "lost", "finish", "resizeEvict", "evict"}
  BY DEF ControlInv, ExclusionInv, HandInv, HandTyped, Scan
<1>2. \A t \in Task : rows[t].status = "running" => rows[t].worker \in Worker
  BY <1>1 DEF HandInv, StoreInv, TableOK, RowOK, Placed
<1>3. SUFFICES /\ pc' \in {"stop", "lost", "finish", "resizeEvict"}
                    => overAfter(job'.task)
               /\ pc' = "evict" => overAfter(scan'.victim)
  BY DEF OverKnown, CommandOver
<1>4. CASE \E t \in Task : ScheduledStop(t)
  <2>1. PICK t \in Task : ScheduledStop(t)
    BY <1>4
  <2>2. pc = "schedule" /\ rows' = rows
    BY <2>1 DEF ScheduledStop
  <2>3. CASE rows[t].status = "running" /\ KillSucceeds(rows[t].worker, t)
    <3>1. sess'[rows[t].worker][t] # "live"
      BY <1>1, <1>2, <2>3, KillEnds
    <3>2. job' = job \/ job'.task = t
      BY <2>1 DEF ScheduledStop, Hand
    <3>3. pc' = pc \/ (pc' = "stop" /\ job'.task = t)
      BY <2>1 DEF ScheduledStop, Hand
    <3> QED
      BY <2>2, <3>1, <3>3
  <2>4. CASE ~(rows[t].status = "running" /\ KillSucceeds(rows[t].worker, t))
    <3>1. pc' = pc \/ (pc' = "stop" /\ job'.task = t /\ rows[t].status # "running")
      BY <2>1, <2>4 DEF ScheduledStop, Hand
    <3> QED
      BY <2>2, <3>1
  <2> QED
    BY <2>3, <2>4
<1>5. CASE \E t \in Task : ReadExitCode(t)
  <2>1. PICK t \in Task : ReadExitCode(t)
    BY <1>5
  <2> DEFINE w == scan.snap[t].worker
  <2>2. /\ pc = "refresh" /\ t \in scan.todo /\ job'.task = t
        /\ pc' = IF exitFile[w][t] = None THEN "session" ELSE "finish"
        /\ rows' = rows /\ sess' = sess
    BY <2>1 DEF ReadExitCode, Hand, hostVars
  <2>3. Stays(t, w) /\ w \in Worker
    BY <2>2 DEF ControlInv, RefreshKnown, Refreshing, AsListed, ExclusionInv,
                HandInv, HandKnown
  <2>4. pc' = "finish" => sess[w][t] # "live"
    BY <1>1, <2>2, <2>3 DEF HostInv, ExitFileMeansDone
  <2> QED
    BY <2>2, <2>3, <2>4 DEF Stays
<1>6. CASE SessionMissing
  <2>1. /\ pc = "session" /\ pc' = "lost" /\ job' = job
        /\ rows' = rows /\ sess' = sess /\ sess[job.worker][job.task] = "none"
    BY <1>6 DEF SessionMissing, hostVars
  <2>2. Stays(job.task, job.worker)
    BY <2>1 DEF ControlInv, RefreshKnown, Refreshing, AsListed
  <2> QED
    BY <2>1, <2>2 DEF Stays
<1>7. CASE \E v \in Task : KillVictim(v)
  <2>1. PICK v \in Task : KillVictim(v)
    BY <1>7
  <2>2. /\ pc = "kill" /\ v \in scan.victims /\ rows' = rows
        /\ \/ pc' = "kill"
           \/ pc' = "evict" /\ KillSucceeds(scan.host, v) /\ scan'.victim = v
    BY <1>1, <2>1 DEF KillVictim, Scan
  <2>3. scan.host \in Worker /\ Stays(v, scan.host)
    BY <1>1, <2>2 DEF HandInv, HandKnown, ControlInv, VictimsKnown
  <2> QED
    BY <1>1, <2>2, <2>3, KillEnds DEF Stays
<1>8. CASE ResizeKill
  <2>1. /\ pc = "resizeKill" /\ rows' = rows
        /\ \/ pc' = "resize"
           \/ /\ pc' = "resizeEvict" /\ job' = job
              /\ KillSucceeds(job.worker, job.task)
    BY <1>8 DEF ResizeKill
  <2>2. job.task \in Task /\ job.worker \in Worker /\ Stays(job.task, job.worker)
    BY <1>1, <2>1 DEF HandInv, HandKnown, Working, ControlInv, ResizeKnown
  <2> QED
    BY <1>1, <2>1, <2>2, KillEnds DEF Stays
<1>9. CASE pc' \notin {"stop", "lost", "finish", "resizeEvict", "evict"}
  BY <1>9
<1>10. CASE UNCHANGED <<pc, job, scan>>
  <2>1. ASSUME pc \in {"stop", "lost", "finish", "resizeEvict"}
        PROVE  overAfter(job.task)
    <3>1. job.task \in Task /\ CommandOver(job.task)
      BY <1>1, <2>1 DEF HandInv, HandKnown, Working, ControlInv, OverKnown
    <3> QED
      BY <2>1, <3>1, OverStays
  <2>2. ASSUME pc = "evict"
        PROVE  overAfter(scan.victim)
    <3>1. scan.victim \in Task /\ CommandOver(scan.victim)
      BY <1>1, <2>2 DEF HandInv, HandKnown, ControlInv, OverKnown
    <3> QED
      BY <2>2, <3>1, OverStays
  <2> QED
    BY <1>10, <2>1, <2>2
<1> QED
  BY <1>1, <1>4, <1>5, <1>6, <1>7, <1>8, <1>9, <1>10
  DEF SchedulerNext, HolderStep, TaskSteps, ClientStep, HostMoves, TickBegins,
      ScheduledStart, ScheduledStopPauses, RefreshBegins, SkipUnreachable,
      ReadRaises, SessionPresent, SessionCheckRaises, RequeueOrFailLost,
      FinishExited, TailLogsRaises, RefreshEnds, ProbeWorkers, PickWithPlan,
      PickForNuma, PickWithoutPlan, PickEnds, ChooseVictims, NoVictims,
      EvictVictim, VictimsDone, Reprobe, Replan, LaunchStarts,
      LaunchDoesNotStart, MarkStarted, AbortLaunch, ResizeTask, ResizeEvict,
      ResizeEnds, StartBackground, SkipBackground, BackgroundEnds, ReleaseLock,
      SubmitTask, EditTask, CallBegins, CallKills, CallUpdates, CallDispatches,
      Crash, holderVars, vars

-----------------------------------------------------------------------------
LEMMA ControlInit == SchedulerInit => ControlInv
<1> SUFFICES ASSUME SchedulerInit PROVE ControlInv
  OBVIOUS
<1>1. pc = "idle" /\ lock = "free"
  BY DEF SchedulerInit
<1>2. RefreshKnown /\ VictimsKnown /\ ResizeKnown /\ OverKnown
  BY <1>1 DEF RefreshKnown, VictimsKnown, ResizeKnown, OverKnown, Refreshing,
              Yielding, Resizing
<1> QED
  BY <1>1, <1>2, ExclusionInit, HostInvInit DEF ControlInv, LockHeld

LEMMA ControlStep ==
  ASSUME ControlInv, [SchedulerNext]_vars
  PROVE  ControlInv'
<1>1. ExclusionInv' /\ HostInv'
  BY ExclusionStep, HostInvStep DEF ControlInv
<1>2. LockHeld'
  BY LockHeldStep DEF ControlInv, ExclusionInv
<1> QED
  BY <1>1, <1>2, RefreshStep, VictimsStep, ResizeKnownStep, OverStep
  DEF ControlInv

-----------------------------------------------------------------------------
(* Which steps take a task out of "running", and where to *)

LEMMA OthersRelease ==
  ASSUME HandInv, [SchedulerNext]_vars, ~HolderStep, NEW t \in Task,
         rows[t].status = "running", rows'[t].status # "running"
  PROVE  call' # call /\ rows'[t].status \in {"paused", "canceled"}
<1>1. rows \in [Task -> Row] /\ \A u \in Task : rows[u] \in Row
  BY DEF HandInv, StoreInv
<1>2. ~UNCHANGED rows
  OBVIOUS
<1>3. ~\E u \in Task : SubmitTask(u) \/ EditTask(u)
  <2> SUFFICES ASSUME NEW u \in Task, SubmitTask(u) \/ EditTask(u) PROVE FALSE
    OBVIOUS
  <2>1. PICK o, flag : \/ rows' = [rows EXCEPT ![u] = CreateTask(@, o, flag)]
                       \/ rows' = [rows EXCEPT ![u] = UpdateTask(@, o)]
    BY DEF SubmitTask, EditTask, Create, Update
  <2>2. /\ rows[t] = CreateTask(rows[t], o, flag)
        /\ rows[t] = UpdateTask(rows[t], o)
    BY <1>1 DEF CreateTask, UpdateTask
  <2> QED
    BY <1>1, <2>1, <2>2
<1>4. PICK c \in Client : CallUpdates(c)
  BY <1>2, <1>3
  DEF SchedulerNext, ClientStep, TickBegins, ReleaseLock, HostMoves, Crash,
      CallBegins, CallKills, CallDispatches, vars
<1>5. /\ call \in [Client -> Call]
      /\ call[c].op \in {"start", "rerun", "pause", "cancel"}
  BY <1>4 DEF HandInv, HandTyped, CallsKnown, CallUpdates, Call
<1>6. call'[c].step # "update"
  BY <1>4, <1>5 DEF CallUpdates, SetCall, NoCall, Call
<1>7. call[c].step = "update"
  BY <1>4 DEF CallUpdates
<1>8. rows'[t] = CallResult(call[c].op, rows[t])
  BY <1>1, <1>4 DEF CallUpdates, SetRow
<1>9. rows'[t].status \in {"paused", "canceled"}
  BY <1>1, <1>5, <1>8 DEF CallResult, StartTask, RerunTask, PauseTask, CancelTask,
                          Unplaced, Row
<1> QED
  BY <1>6, <1>7, <1>9

(* The holder does so in five places, each on the task it has in hand. *)
LEMMA HolderReleases ==
  ASSUME HandInv, HolderStep, NEW t \in Task,
         rows[t].status = "running", rows'[t].status # "running"
  PROVE  /\ UNCHANGED <<sess, call>>
         /\ \/ t = job.task /\ ScheduledStopPauses
            \/ t = job.task /\ FinishExited
            \/ t = job.task /\ RequeueOrFailLost
            \/ t = job.task /\ ResizeEvict
            \/ t = scan.victim /\ EvictVictim
<1>1. rows \in [Task -> Row] /\ \A u \in Task : rows[u] \in Row
  BY DEF HandInv, StoreInv
<1>2. ~UNCHANGED rows
  OBVIOUS
<1>3. ~MarkStarted
  <2> SUFFICES ASSUME MarkStarted PROVE FALSE
    OBVIOUS
  <2>1. rows[t] = MarkRunning(rows[t], job.worker, job.gpus)
    BY DEF MarkRunning
  <2> QED
    BY <1>1, <2>1, MarkStartedMarks
<1>4. ~\E u \in Task : ScheduledStart(u)
  <2>1. rows[t] = StartTask(rows[t])
    BY DEF StartTask
  <2> QED
    BY <1>1, <2>1 DEF ScheduledStart, SetRow
<1>5. \/ ScheduledStopPauses \/ FinishExited \/ RequeueOrFailLost \/ ResizeEvict
      \/ EvictVictim
  BY <1>2, <1>3, <1>4
  DEF HolderStep, TaskSteps, ScheduledStop, SkipUnreachable, ReadRaises,
      ReadExitCode, PickWithPlan, PickForNuma, PickWithoutPlan, KillVictim,
      ResizeTask, StartBackground, SkipBackground, RefreshBegins,
      SessionPresent, SessionCheckRaises, SessionMissing, TailLogsRaises,
      RefreshEnds, ProbeWorkers, PickEnds, ChooseVictims, NoVictims,
      VictimsDone, Reprobe, Replan, LaunchStarts, LaunchDoesNotStart,
      AbortLaunch, ResizeKill, ResizeEnds, BackgroundEnds
<1>6. UNCHANGED <<sess, call>>
  BY <1>5 DEF HolderStep, ScheduledStopPauses, FinishExited, RequeueOrFailLost,
              ResizeEvict, EvictVictim, hostVars
<1>7. EvictVictim => t = scan.victim
  BY <1>1 DEF EvictVictim, SetRow
<1>8. ScheduledStopPauses \/ FinishExited \/ RequeueOrFailLost \/ ResizeEvict
        => t = job.task
  BY <1>1 DEF ScheduledStopPauses, FinishExited, RequeueOrFailLost, ResizeEvict,
              SetRow
<1> QED
  BY <1>5, <1>6, <1>7, <1>8

LEMMA ReleasedIsOver ==
  ASSUME ControlInv, [SchedulerNext]_vars, NEW t \in Task, call' = call,
         rows[t].status = "running", rows'[t].status # "running"
  PROVE  sess'[rows[t].worker][t] # "live"
<1>1. HolderStep
  BY OthersRelease DEF ControlInv, ExclusionInv
<1>2. /\ sess' = sess
      /\ \/ t = job.task /\ pc \in {"stop", "finish", "lost", "resizeEvict"}
         \/ t = scan.victim /\ pc = "evict"
  BY <1>1, HolderReleases
  DEF ControlInv, ExclusionInv, ScheduledStopPauses, FinishExited,
      RequeueOrFailLost, ResizeEvict, EvictVictim
<1> QED
  BY <1>2 DEF ControlInv, OverKnown, CommandOver

(***************************************************************************)
(* When the holder takes a task out of "running" its command is over on    *)
(* the worker the row names, although every kill, read and check it acts   *)
(* on is an earlier step and pauses, cancels, lost sessions and failed     *)
(* commands come in between.                                               *)
(***************************************************************************)
THEOREM SchedulerLeavesNoSession == SchedulerSpec => HolderLeavesNoSession
<1>1. ControlInv /\ [SchedulerNext]_vars
        => [\A t \in Task :
              (/\ rows[t].status = "running" /\ rows'[t].status # "running"
               /\ call' = call)
                => sess'[rows[t].worker][t] # "live"]_vars
  BY ReleasedIsOver
<1> QED
  BY <1>1, ControlInit, ControlStep, PTL DEF SchedulerSpec, HolderLeavesNoSession

(***************************************************************************)
(* Only a preemptible task ever goes back from "running" to the queue, and *)
(* it is only a victim for a task of higher priority that may take it,     *)
(* although the victims are chosen several kills before they are evicted.  *)
(***************************************************************************)
THEOREM SchedulerPreemptsAuthorised == SchedulerSpec => PreemptionAuthorised
<1> DEFINE Authorised ==
      \A t \in Task :
        (rows[t].status = "running" /\ rows'[t].status = "queued")
          => /\ Opt(t).preemptible
             /\ pc = "evict"
                  => /\ Below(job.task, t)
                     /\ Opt(t).background \/ Opt(job.task).allow_preempt
<1>1. ASSUME ControlInv, [SchedulerNext]_vars PROVE Authorised
  <2>1. SUFFICES ASSUME NEW t \in Task, rows[t].status = "running",
                        rows'[t].status = "queued"
                 PROVE  /\ Opt(t).preemptible
                        /\ pc = "evict"
                             => /\ Below(job.task, t)
                                /\ Opt(t).background \/ Opt(job.task).allow_preempt
    OBVIOUS
  <2>2. HandInv /\ rows \in [Task -> Row] /\ rows[t] \in Row
    BY <1>1 DEF ControlInv, ExclusionInv, HandInv, StoreInv
  <2>3. HolderStep
    BY <1>1, <2>1, <2>2, OthersRelease
  <2>4. \/ t = job.task /\ ScheduledStopPauses
        \/ t = job.task /\ FinishExited
        \/ t = job.task /\ RequeueOrFailLost
        \/ t = job.task /\ ResizeEvict
        \/ t = scan.victim /\ EvictVictim
    BY <2>1, <2>2, <2>3, HolderReleases
  <2>5. CASE t = job.task /\ (ScheduledStopPauses \/ FinishExited)
    <3>1. rows'[t] \in {PauseTask(rows[t], FALSE), FinishTask(rows[t], scan.code)}
      BY <2>2, <2>5 DEF ScheduledStopPauses, FinishExited, SetRow
    <3>2. PauseTask(rows[t], FALSE).status = "paused"
      BY <2>1, <2>2 DEF PauseTask, Unplaced, Row
    <3>3. FinishTask(rows[t], scan.code).status # "queued"
      BY <2>1, <2>2 DEF FinishTask, Row
    <3> QED
      BY <2>1, <3>1, <3>2, <3>3
  <2>6. CASE t = job.task /\ RequeueOrFailLost
    <3>1. pc = "lost" /\ rows'[t] = IF scan.snap[t].options.preemptible
                                    THEN RequeueTask(rows[t]) ELSE FailTask(rows[t])
      BY <2>2, <2>6 DEF RequeueOrFailLost, SetRow
    <3>2. Opt(t) = scan.snap[t].options
      BY <1>1, <2>6, <3>1 DEF ControlInv, RefreshKnown, Refreshing, AsListed
    <3>3. FailTask(rows[t]).status # "queued"
      BY <2>1, <2>2 DEF FailTask, Row
    <3> QED
      BY <2>1, <3>1, <3>2, <3>3
  <2>7. CASE t = job.task /\ ResizeEvict
    <3>1. pc = "resizeEvict" /\ Opt(t).background
      BY <1>1, <2>7 DEF ResizeEvict, ControlInv, ResizeKnown, IsBackground
    <3>2. Opt(t).preemptible
      BY <2>1, <2>2, <3>1 DEF HandInv, StoreInv, TableOK, RowOK, Opt
    <3> QED
      BY <3>1, <3>2
  <2>8. CASE t = scan.victim /\ EvictVictim
    BY <1>1, <2>8 DEF EvictVictim, ControlInv, VictimsKnown, MayEvict, GivesWay,
                      Below
  <2> QED
    BY <2>4, <2>5, <2>6, <2>7, <2>8
<1>2. ControlInv /\ [SchedulerNext]_vars => [Authorised]_vars
  BY <1>1
<1> QED
  BY <1>2, ControlInit, ControlStep, PTL DEF SchedulerSpec, PreemptionAuthorised

-----------------------------------------------------------------------------
LEMMA FaultsStay ==
  ASSUME faults \in 0 .. MaxFaults, [SchedulerNext]_vars
  PROVE  faults' \in 0 .. MaxFaults
<1>1. faults' = faults \/ \E kind : Fault(kind)
  BY DEF SchedulerNext, HolderStep, TaskSteps, ClientStep, HostMoves, HostStep,
         CommandExits, SessionCloses, SessionLost, KillSucceeds, KillRaises,
         ProbeRaises, LaunchSucceeds, LaunchRaises, LaunchRejected, LaunchFails,
         LaunchTimesOut, TickBegins, ScheduledStart, ScheduledStop,
         ScheduledStopPauses, RefreshBegins, SkipUnreachable, ReadRaises,
         ReadExitCode, SessionPresent, SessionCheckRaises, SessionMissing,
         RequeueOrFailLost, FinishExited, TailLogsRaises, RefreshEnds,
         ProbeWorkers, PickWithPlan, PickForNuma, PickWithoutPlan, PickEnds,
         ChooseVictims, NoVictims, KillVictim, EvictVictim, VictimsDone, Reprobe,
         Replan, LaunchStarts, LaunchDoesNotStart, MarkStarted, AbortLaunch,
         ResizeTask, ResizeKill, ResizeEvict, ResizeEnds, StartBackground,
         SkipBackground, BackgroundEnds, ReleaseLock, SubmitTask, EditTask,
         CallBegins, CallKills, CallUpdates, CallDispatches, Crash, hostVars, vars
<1> QED
  BY <1>1, MaxFaultsAssumption DEF Fault

LEMMA LockStep ==
  ASSUME lock \in {"free", "tick", "call"}, [SchedulerNext]_vars
  PROVE  lock' \in {"free", "tick", "call"}
BY DEF SchedulerNext, HolderStep, TickBegins, ReleaseLock, ClientStep, SubmitTask,
       EditTask, CallBegins, CallKills, CallUpdates, CallDispatches, HostMoves,
       Crash, holderVars, vars

(***************************************************************************)
(* Every local of the holder and of the clients stays in its range, and    *)
(* the lock is held exactly while the holder is in its loops: no path      *)
(* through them, failed or not, leaves it locked or frees it early.        *)
(***************************************************************************)
THEOREM SchedulerStaysTyped == SchedulerSpec => []SchedulerTyped
<1> DEFINE Inv == ControlInv /\ faults \in 0 .. MaxFaults
                    /\ lock \in {"free", "tick", "call"}
<1>1. SchedulerInit => Inv
  BY ControlInit, MaxFaultsAssumption DEF SchedulerInit, HostInit
<1>2. Inv /\ [SchedulerNext]_vars => Inv'
  BY ControlStep, FaultsStay, LockStep
<1>3. Inv => SchedulerTyped
  BY DEF ControlInv, ExclusionInv, HandInv, HandTyped, StoreInv, HostInv,
         HostTyped, RowsTyped, LockHeld, SchedulerTyped
<1> QED
  BY <1>1, <1>2, <1>3, PTL DEF SchedulerSpec

-----------------------------------------------------------------------------
(* Sessions are accounted for when nobody interferes *)

(***************************************************************************)
(* With no clients the task in hand is still queued when it is launched    *)
(* and recorded, so a launch is never given up after its session exists.   *)
(***************************************************************************)
QueuedInHand ==
  /\ pc # "abort"
  /\ pc \in Yielding \cup {"start", "mark"} => rows[job.task].status = "queued"
  /\ pc = "background" \/ (pc \in {"start", "mark"} /\ scan.after = "background")
       => \A t \in scan.todo : rows[t].status = "queued"
  /\ pc \in {"start", "mark"} /\ scan.after = "background"
       => job.task \notin scan.todo

(* A queued task stays queued but for a schedule, a call and its launch. *)
LEMMA QueuedStays ==
  ASSUME ControlInv, [SchedulerNext]_vars, Client = {},
         pc \notin {"idle", "stop", "mark"},
         NEW t \in Task, rows[t].status = "queued"
  PROVE  rows'[t].status = "queued"
<1>1. rows \in [Task -> Row] /\ \A u \in Task : rows[u] \in Row
  BY DEF ControlInv, ExclusionInv, HandInv, StoreInv
<1>2. CASE UNCHANGED rows
  BY <1>2
<1>3. CASE \E u \in Task : SubmitTask(u)
  BY <1>1, <1>3 DEF SubmitTask, Create, CreateTask
<1>4. CASE \E u \in Task : ScheduledStart(u)
  BY <1>1, <1>4 DEF ScheduledStart, SetRow, StartTask
<1>5. CASE RequeueOrFailLost \/ FinishExited \/ EvictVictim \/ ResizeEvict
  BY <1>1, <1>5
  DEF RequeueOrFailLost, FinishExited, EvictVictim, ResizeEvict, SetRow,
      RequeueTask, FailTask, FinishTask, PreemptTask
<1>6. CASE HolderStep
  BY <1>2, <1>4, <1>5, <1>6
  DEF HolderStep, TaskSteps, ScheduledStop, ScheduledStopPauses, MarkStarted,
      SkipUnreachable, ReadRaises, ReadExitCode, PickWithPlan, PickForNuma,
      PickWithoutPlan, KillVictim, ResizeTask, StartBackground, SkipBackground,
      RefreshBegins, SessionPresent, SessionCheckRaises, SessionMissing,
      TailLogsRaises, RefreshEnds, ProbeWorkers, PickEnds, ChooseVictims,
      NoVictims, VictimsDone, Reprobe, Replan, LaunchStarts, LaunchDoesNotStart,
      AbortLaunch, ResizeKill, ResizeEnds, BackgroundEnds
<1> QED
  BY <1>2, <1>3, <1>6
  DEF SchedulerNext, ClientStep, TickBegins, ReleaseLock, HostMoves, Crash,
      EditTask, ControlInv, LockHeld, vars

LEMMA QueuedInHandStep ==
  ASSUME ControlInv, QueuedInHand, [SchedulerNext]_vars, Client = {}
  PROVE  QueuedInHand'
<1> USE DEF Goto
<1>1. /\ scan \in Scan /\ scan.todo \subseteq Task /\ HandInv
      /\ scan.after \in {"pick", "resize", "background"}
      /\ rows \in [Task -> Row] /\ \A u \in Task : rows[u] \in Row
  BY DEF ControlInv, ExclusionInv, HandInv, HandTyped, Scan, StoreInv
<1>2. pc \in Yielding \cup {"start", "mark"} => job.task \in Task
  BY <1>1 DEF HandInv, HandKnown, Working, Yielding
<1>3. pc # "abort"
  BY DEF QueuedInHand
<1>4. CASE \E t \in Task : \/ PickWithPlan(t) \/ PickForNuma(t)
                           \/ PickWithoutPlan(t) \/ StartBackground(t)
  <2>1. PICK t \in Task : \/ PickWithPlan(t) \/ PickForNuma(t)
                          \/ PickWithoutPlan(t) \/ StartBackground(t)
    BY <1>4
  <2>2. rows' = rows /\ rows[t].status = "queued"
    BY <2>1 DEF PickWithPlan, PickForNuma, PickWithoutPlan, StartBackground,
                NextRegular, Queued, NextBackground, QueuedInHand
  <2>3. job'.task = t
    <3>1. job' \in PlansFor(t) \/ job' = Hand(t, None)
      BY <2>1 DEF PickWithPlan, PickForNuma, PickWithoutPlan, StartBackground
    <3> QED
      BY <1>1, <2>2, <3>1, HeldPlanPlaces DEF Hand
  <2>4. pc' \in {"start", "kill", "yield"}
    BY <2>1 DEF PickWithPlan, PickForNuma, PickWithoutPlan, StartBackground
  <2>5. \/ scan'.after = "pick"
        \/ StartBackground(t) /\ scan'.todo = scan.todo \ {t}
    BY <1>1, <2>1 DEF PickWithPlan, PickForNuma, PickWithoutPlan, StartBackground,
                      Drop, Scan
  <2>6. StartBackground(t) => \A u \in scan.todo : rows[u].status = "queued"
    BY DEF StartBackground, QueuedInHand
  <2> QED
    BY <2>2, <2>3, <2>4, <2>5, <2>6 DEF QueuedInHand
<1>5. CASE /\ pc \in Yielding \cup {"start"} /\ job'.task = job.task
           /\ pc' \in Yielding \cup {"start", "mark"}
           /\ scan'.after = scan.after
           /\ scan'.todo = scan.todo /\ (pc = "start" \/ scan.after = "pick")
  <2>1. rows'[job'.task].status = "queued"
    BY <1>2, <1>5, QueuedStays DEF Yielding, QueuedInHand
  <2>2. ASSUME pc = "start", scan.after = "background"
        PROVE  /\ \A t \in scan.todo : rows'[t].status = "queued"
               /\ job.task \notin scan.todo
    BY <1>1, <2>2, QueuedStays DEF QueuedInHand
  <2> QED
    BY <1>5, <2>1, <2>2 DEF QueuedInHand, Yielding
<1>6. CASE \/ \E v \in Task : KillVictim(v)
           \/ ChooseVictims \/ NoVictims \/ EvictVictim \/ VictimsDone
           \/ Reprobe \/ Replan \/ LaunchStarts
  <2>1. /\ pc \in Yielding \cup {"start"} /\ pc' \in Yielding \cup {"start", "mark", "pick"}
        /\ pc = "start" \/ scan.after = "pick"
    BY <1>1, <1>6
    DEF KillVictim, ChooseVictims, NoVictims, EvictVictim, VictimsDone, Reprobe,
        Replan, LaunchStarts, Yielding, HandInv, HandKnown
  <2>2. scan'.after = scan.after /\ scan'.todo = scan.todo
    BY <1>1, <1>6
    DEF KillVictim, ChooseVictims, NoVictims, EvictVictim, VictimsDone, Reprobe,
        Replan, LaunchStarts, Scan
  <2>3. pc' = "pick" \/ job'.task = job.task
    <3>1. CASE Replan
      <4>1. job.task \in Task /\ rows[job.task].status # "absent"
        BY <1>1, <3>1 DEF Replan, HandInv, HandKnown, Working, Yielding
      <4>2. pc' = "pick" \/ job' \in PlansFor(job.task)
        BY <3>1 DEF Replan
      <4> QED
        BY <1>1, <4>1, <4>2, HeldPlanPlaces
    <3> QED
      BY <1>6, <3>1 DEF KillVictim, ChooseVictims, NoVictims, EvictVictim,
                        VictimsDone, Reprobe, LaunchStarts
  <2>4. CASE pc' = "pick"
    BY <2>4 DEF QueuedInHand, Yielding
  <2> QED
    BY <1>5, <2>1, <2>2, <2>3, <2>4
<1>7. CASE MarkStarted
  <2>1. pc = "mark" /\ scan' = scan /\ pc' = scan.after
    BY <1>7 DEF MarkStarted, QueuedInHand
  <2>2. \A t \in Task : t # job.task => rows'[t] = rows[t]
    BY <1>1, <1>7, MarkStartedMarks
  <2>3. scan.after = "background"
          => \A t \in scan.todo : t # job.task /\ rows[t].status = "queued"
    BY <2>1 DEF QueuedInHand
  <2> QED
    BY <1>1, <2>1, <2>2, <2>3 DEF QueuedInHand, Yielding
<1>8. CASE LaunchDoesNotStart
  <2>1. pc = "start" /\ scan' = scan /\ pc' = scan.after /\ rows' = rows
    BY <1>8 DEF LaunchDoesNotStart
  <2> QED
    BY <1>1, <2>1 DEF QueuedInHand, Yielding
<1>9. CASE ResizeEvict
  <2>1. /\ scan' = scan /\ scan.after = "resize" /\ job.task \in Task
        /\ rows'[job.task] = PreemptTask(rows[job.task])
    BY <1>1, <1>9 DEF ResizeEvict, SetRow, HandInv, HandKnown, Working
  <2>2. \/ pc' = "resize"
        \/ pc' = "start" /\ job' = job /\ rows[job.task].status = "running"
    BY <1>9 DEF ResizeEvict
  <2>3. rows[job.task].status = "running" => rows'[job.task].status = "queued"
    BY <1>1, <2>1 DEF PreemptTask, Unplaced, Row
  <2> QED
    BY <2>1, <2>2, <2>3 DEF QueuedInHand, Yielding
<1>10. CASE ResizeEnds \/ \E t \in Task : SkipBackground(t)
  <2>1. rows' = rows /\ pc' \in {"background", "release"}
    BY <1>10 DEF ResizeEnds, SkipBackground
  <2>2. CASE ResizeEnds
    <3> DEFINE list == {t \in Queued : Opt(t).background}
    <3>1. \/ pc' = "release"
          \/ scan' = [scan EXCEPT !.todo = list, !.snap = Listed(list),
                                  !.after = "background"]
      BY <2>2 DEF ResizeEnds
    <3>2. list \subseteq Queued
      OBVIOUS
    <3> HIDE DEF list
    <3>3. pc' = "background" => scan'.todo \subseteq Queued
      BY <1>1, <3>1, <3>2 DEF Scan
    <3> QED
      BY <2>1, <3>3 DEF QueuedInHand, Queued, Yielding
  <2>3. CASE \E t \in Task : SkipBackground(t)
    <3>1. pc = "background" /\ scan'.todo \subseteq scan.todo
      BY <1>1, <2>3 DEF SkipBackground, Drop, Scan
    <3> QED
      BY <2>1, <3>1 DEF QueuedInHand, Yielding
  <2> QED
    BY <1>10, <2>2, <2>3
<1>11. CASE pc' \in {"idle", "schedule", "stop", "refresh", "session", "lost",
                     "finish", "probe", "pick", "resize", "resizeKill",
                     "resizeEvict", "release"}
  BY <1>11 DEF QueuedInHand, Yielding
<1>12. CASE UNCHANGED <<pc, job, scan>> /\ ~HolderStep
  <2>1. \A t \in Task : rows[t].status = "queued" /\ pc \notin {"idle", "stop"}
                          => rows'[t].status = "queued"
    <3> SUFFICES ASSUME NEW t \in Task, rows[t].status = "queued",
                        pc \notin {"idle", "stop"}
                 PROVE  rows'[t].status = "queued"
      OBVIOUS
    <3>1. UNCHANGED rows \/ \E u \in Task : SubmitTask(u)
      BY <1>12 DEF SchedulerNext, ClientStep, TickBegins, ReleaseLock, HostMoves,
                   Crash, EditTask, ControlInv, LockHeld, vars
    <3> QED
      BY <1>1, <3>1 DEF SubmitTask, Create, CreateTask
  <2> QED
    BY <1>1, <1>2, <1>12, <2>1 DEF QueuedInHand, Yielding
<1> QED
  BY <1>3, <1>4, <1>6, <1>7, <1>8, <1>9, <1>10, <1>11, <1>12
  DEF SchedulerNext, HolderStep, TaskSteps, ClientStep, HostMoves, TickBegins,
      ScheduledStart, ScheduledStop, ScheduledStopPauses, RefreshBegins,
      SkipUnreachable, ReadRaises, ReadExitCode, SessionPresent,
      SessionCheckRaises, SessionMissing, RequeueOrFailLost, FinishExited,
      TailLogsRaises, RefreshEnds, ProbeWorkers, PickEnds, AbortLaunch,
      ResizeTask, ResizeKill, BackgroundEnds, ReleaseLock, SubmitTask, EditTask,
      CallBegins, CallKills, CallUpdates, CallDispatches, Crash, holderVars, vars

LEMMA AccountedStep ==
  ASSUME ControlInv, QueuedInHand, SessionsAccounted, [SchedulerNext]_vars,
         Client = {}, "timeout" \notin FaultKinds, "crash" \notin FaultKinds
  PROVE  SessionsAccounted'
<1>1. /\ HandInv /\ HostInv /\ rows \in [Task -> Row]
      /\ \A u \in Task : rows[u] \in Row
  BY DEF ControlInv, ExclusionInv, HandInv, StoreInv
<1>2. SUFFICES ASSUME NEW w \in Worker, NEW t \in Task, sess'[w][t] = "live"
               PROVE  \/ rows'[t].status = "running" /\ rows'[t].worker = w
                      \/ /\ pc' \in {"mark", "abort"}
                         /\ job'.task = t /\ job'.worker = w
  BY DEF SessionsAccounted
<1>3. CASE LaunchStarts
  <2>1. /\ pc' = "mark" /\ job' = job /\ pc = "start" /\ rows' = rows
        /\ SetSession(job.worker, job.task, "live")
    BY <1>3 DEF LaunchStarts, LaunchSucceeds, Goto
  <2>2. sess[w][t] = "live" \/ (w = job.worker /\ t = job.task)
    BY <1>1, <1>2, <2>1, SetSessionSets DEF SessionState
  <2> QED
    BY <2>1, <2>2 DEF SessionsAccounted
<1>4. CASE LaunchDoesNotStart
  <2>1. sess' = sess /\ rows' = rows /\ pc = "start"
    BY <1>4 DEF LaunchDoesNotStart, LaunchRaises, LaunchRejected, LaunchFails,
                LaunchTimesOut, Fault
  <2> QED
    BY <1>2, <2>1 DEF SessionsAccounted
<1>5. ASSUME ~LaunchStarts, ~LaunchDoesNotStart
      PROVE  \/ rows'[t].status = "running" /\ rows'[t].worker = w
             \/ /\ pc' \in {"mark", "abort"}
                /\ job'.task = t /\ job'.worker = w
  <2>1. sess[w][t] = "live"
    BY <1>1, <1>2, <1>5, OnlyLaunchesRevive
  <2>2. CASE rows[t].status = "running" /\ rows[t].worker = w
    <3>1. call' = call
      <4>1. call \in [Client -> Call] /\ call' \in [Client -> Call]
        BY <1>1, CallStep DEF HandInv, HandTyped
      <4> QED
        BY <4>1
    <3>2. rows'[t].status = "running"
      BY <1>2, <2>2, <3>1, ReleasedIsOver
    <3>3. CASE MarkStarted
      BY <1>1, <2>2, <3>3, MarkStartedMarks DEF MarkRunning
    <3>4. CASE ~MarkStarted
      BY <1>1, <2>2, <3>2, <3>4, NothingElsePlaces DEF NothingPlaced, SamePlace
    <3> QED
      BY <3>3, <3>4
  <2>3. CASE pc = "mark" /\ job.task = t /\ job.worker = w
    <3>1. CASE MarkStarted
      <4>1. rows[t].status = "queued"
        BY <2>3 DEF QueuedInHand
      <4>2. rows'[t] = MarkRunning(rows[t], w, job.gpus)
        BY <1>1, <2>3, <3>1, MarkStartedMarks
      <4> QED
        BY <1>1, <4>1, <4>2 DEF MarkRunning, Row
    <3>2. CASE HolderStep
      <4>1. MarkStarted
        BY <2>3, <3>2
        DEF HolderStep, TaskSteps, ScheduledStart, ScheduledStop,
            ScheduledStopPauses, RefreshBegins, SkipUnreachable, ReadRaises,
            ReadExitCode, SessionPresent, SessionCheckRaises, SessionMissing,
            RequeueOrFailLost, FinishExited, TailLogsRaises, RefreshEnds,
            ProbeWorkers, PickWithPlan, PickForNuma, PickWithoutPlan, PickEnds,
            ChooseVictims, NoVictims, KillVictim, EvictVictim, VictimsDone,
            Reprobe, Replan, LaunchStarts, LaunchDoesNotStart, AbortLaunch,
            ResizeTask, ResizeKill, ResizeEvict, ResizeEnds, StartBackground,
            SkipBackground, BackgroundEnds
      <4> QED
        BY <3>1, <4>1
    <3>3. CASE ~HolderStep
      <4>1. UNCHANGED <<pc, job>>
        BY <2>3, <3>3
        DEF SchedulerNext, TickBegins, ReleaseLock, ClientStep, SubmitTask,
            EditTask, HostMoves, Crash, Fault, ControlInv, LockHeld,
            holderVars, vars
      <4> QED
        BY <2>3, <4>1
    <3> QED
      BY <3>2, <3>3
  <2> QED
    BY <2>1, <2>2, <2>3 DEF SessionsAccounted, QueuedInHand
<1> QED
  BY <1>3, <1>4, <1>5

(***************************************************************************)
(* When the scheduler is alone with its database -- no client calls, no    *)
(* restart -- and launches that happened are answered, every session that  *)
(* runs a command is that of a running row on that worker or of the launch *)
(* about to be recorded: evictions, resizes, schedules, failed kills and   *)
(* SSH commands and lost sessions leave no orphan behind.                  *)
(***************************************************************************)
THEOREM SchedulerAccountsForSessions ==
  ASSUME Client = {}, "timeout" \notin FaultKinds, "crash" \notin FaultKinds
  PROVE  SchedulerSpec => []SessionsAccounted
<1> DEFINE Inv == ControlInv /\ QueuedInHand /\ SessionsAccounted
<1>1. SchedulerInit => Inv
  <2> SUFFICES ASSUME SchedulerInit PROVE Inv
    OBVIOUS
  <2>1. QueuedInHand
    BY DEF SchedulerInit, QueuedInHand, Yielding
  <2>2. SessionsAccounted
    BY DEF SchedulerInit, HostInit, SessionsAccounted
  <2> QED
    BY <2>1, <2>2, ControlInit
<1>2. Inv /\ [SchedulerNext]_vars => Inv'
  BY ControlStep, QueuedInHandStep, AccountedStep
<1>3. Inv => SessionsAccounted
  OBVIOUS
<1> QED
  BY <1>1, <1>2, <1>3, PTL DEF SchedulerSpec
=============================================================================
