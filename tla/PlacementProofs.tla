-------------------------- MODULE PlacementProofs --------------------------
(***************************************************************************)
(* No GPU is given to two running tasks, the scheduler implements the      *)
(* abstract allocator GpuLease, and no worker runs more than its limits    *)
(* allow, for any tasks, workers, GPUs, clients, limits and faults.        *)
(*                                                                         *)
(* A plan is made from what the table says at one time and recorded some   *)
(* SSH commands later.  It stays good because only the record of a launch  *)
(* gives a GPU to a task, only the holder records launches, and it has one *)
(* task in hand.                                                           *)
(***************************************************************************)
EXTENDS SchedulerProofs

(* The holder may still record the GPUs it has planned. *)
Planned ==
  \/ pc \in {"start", "mark"}
  \/ pc \in {"kill", "evict"} /\ scan.mode = "numa"
  \/ pc \in {"resizeKill", "resizeEvict"} /\ rows[job.task].status = "running"

(* No other running task holds them. *)
PlanIsFree ==
  Planned => job.gpus \cap OccupiedByOthers(job.worker, job.task) = {}

(* The holder is inside the loop that resizes elastic tasks. *)
Resizing ==
  \/ pc \in {"resize", "resizeKill", "resizeEvict"}
  \/ pc \in {"start", "mark", "abort"} /\ scan.after = "resize"

SamePlace(r, s) == r.worker = s.worker /\ r.gpus = s.gpus

(* A task the loop has still to visit is where it was, if it runs at all. *)
ListIsFresh ==
  Resizing =>
    /\ \A t \in scan.todo :
         rows[t].status = "running" => SamePlace(rows[t], scan.snap[t])
    /\ pc # "resize" => job.task \notin scan.todo

ExclusionInv == HandInv /\ GpuExclusive /\ PlanIsFree /\ ListIsFresh

-----------------------------------------------------------------------------
(* No task has a placement it did not have before. *)
NothingPlaced ==
  \A u \in Task : rows'[u].status = "running"
                    => rows[u].status = "running" /\ SamePlace(rows'[u], rows[u])

LEMMA StatementsPlaceNothing ==
  ASSUME NEW r \in Row, NEW o, NEW flag, NEW code,
         NEW q \in {CreateTask(r, o, flag), UpdateTask(r, o), FinishTask(r, code),
                    FailTask(r), RequeueTask(r), PreemptTask(r), StartTask(r),
                    PauseTask(r, flag), RerunTask(r), CancelTask(r)},
         q.status = "running"
  PROVE  r.status = "running" /\ SamePlace(q, r)
<1> USE DEF SamePlace
<1>1. CASE q = CreateTask(r, o, flag)
  BY <1>1 DEF CreateTask, AbsentRow
<1>2. CASE q = UpdateTask(r, o)
  BY <1>2 DEF UpdateTask, Row
<1>3. CASE q \in {FinishTask(r, code), FailTask(r), CancelTask(r)}
  BY <1>3 DEF FinishTask, FailTask, CancelTask, Row
<1>4. CASE q \in {RequeueTask(r), PreemptTask(r), RerunTask(r)}
  BY <1>4 DEF RequeueTask, PreemptTask, RerunTask, Unplaced, Row
<1>5. CASE q = StartTask(r)
  BY <1>5 DEF StartTask, Row
<1>6. CASE q = PauseTask(r, flag)
  BY <1>6 DEF PauseTask, Unplaced, Row
<1> QED
  BY <1>1, <1>2, <1>3, <1>4, <1>5, <1>6

LEMMA StatementStaysPlaced ==
  ASSUME StoreInv, NEW t \in Task, PlacesNothing(t), rows'[t].status = "running"
  PROVE  rows[t].status = "running" /\ SamePlace(rows'[t], rows[t])
<1>1. rows \in [Task -> Row]
  BY DEF StoreInv
<1>2. \E o, flag, code :
        rows'[t] \in {CreateTask(rows[t], o, flag), UpdateTask(rows[t], o),
                      FinishTask(rows[t], code), FailTask(rows[t]),
                      RequeueTask(rows[t]), PreemptTask(rows[t]),
                      StartTask(rows[t]), PauseTask(rows[t], flag),
                      RerunTask(rows[t]), CancelTask(rows[t])}
  BY <1>1 DEF PlacesNothing, Moves, Create, Update, Finish, Fail, Requeue, Preempt,
              Start, Pause, Rerun, Cancel
<1> QED
  BY <1>1, <1>2, StatementsPlaceNothing

LEMMA NothingElsePlaces ==
  ASSUME HandInv, [SchedulerNext]_vars, ~MarkStarted
  PROVE  NothingPlaced
<1>1. rows \in [Task -> Row]
  BY DEF HandInv, StoreInv
<1>2. CASE UNCHANGED rows
  BY <1>2 DEF NothingPlaced, SamePlace
<1>3. CASE \E t \in Task : PlacesNothing(t)
  <2>1. PICK t \in Task : PlacesNothing(t)
    BY <1>3
  <2>2. \A u \in Task \ {t} : rows'[u] = rows[u]
    BY <1>1, <2>1 DEF PlacesNothing, Moves, Create, Update, Finish, Fail, Requeue,
                      Preempt, Start, Pause, Rerun, Cancel
  <2>3. rows'[t].status = "running"
          => rows[t].status = "running" /\ SamePlace(rows'[t], rows[t])
    BY <2>1, StatementStaysPlaced DEF HandInv
  <2> QED
    BY <2>2, <2>3 DEF NothingPlaced, SamePlace
<1> QED
  BY <1>2, <1>3, OnlyMarkPlaces

(* Where nothing is placed, fewer GPUs are occupied. *)
LEMMA FewerOccupied ==
  ASSUME NothingPlaced, NEW w, NEW t
  PROVE  OccupiedByOthers(w, t)' \subseteq OccupiedByOthers(w, t)
<1>1. ASSUME NEW g \in OccupiedByOthers(w, t)'
      PROVE  g \in OccupiedByOthers(w, t)
  <2>1. PICK u \in Task : /\ rows'[u].status = "running" /\ rows'[u].worker = w
                          /\ u # t /\ g \in rows'[u].gpus
    BY <1>1 DEF OccupiedByOthers, RunningOn, Running
  <2>2. rows[u].status = "running" /\ SamePlace(rows'[u], rows[u])
    BY <2>1 DEF NothingPlaced
  <2> QED
    BY <2>1, <2>2 DEF OccupiedByOthers, RunningOn, Running, SamePlace
<1> QED
  BY <1>1

(* In terms of rows: what the planned GPUs are free of *)
LEMMA FreeOfOthers ==
  ASSUME NEW w, NEW t, NEW G, G \cap OccupiedByOthers(w, t) = {},
         NEW u \in Task, u # t, rows[u].status = "running", rows[u].worker = w
  PROVE  G \cap rows[u].gpus = {}
BY DEF OccupiedByOthers, RunningOn, Running

LEMMA ExclusionInit == SchedulerInit => ExclusionInv
<1> SUFFICES ASSUME SchedulerInit PROVE ExclusionInv
  OBVIOUS
<1>1. pc = "idle" /\ \A t \in Task : rows[t].status = "absent"
  BY DEF SchedulerInit, StoreInit, AbsentRow
<1> QED
  BY <1>1, HandInit
  DEF ExclusionInv, GpuExclusive, Running, PlanIsFree, Planned, ListIsFresh,
      Resizing

LEMMA ExclusiveStep ==
  ASSUME ExclusionInv, [SchedulerNext]_vars
  PROVE  GpuExclusive'
<1>1. CASE ~MarkStarted
  <2>1. NothingPlaced
    BY <1>1, NothingElsePlaces DEF ExclusionInv
  <2> QED
    BY <2>1 DEF NothingPlaced, SamePlace, ExclusionInv, GpuExclusive, Running
<1>2. CASE MarkStarted
  <2>1. /\ job.task \in Task
        /\ rows' = [rows EXCEPT ![job.task] =
                                  MarkRunning(@, job.worker, job.gpus)]
        /\ rows \in [Task -> Row]
    BY <1>2, MarkStartedMarks DEF ExclusionInv, HandInv, StoreInv
  <2>2. job.gpus \cap OccupiedByOthers(job.worker, job.task) = {}
    BY <1>2 DEF ExclusionInv, PlanIsFree, Planned, MarkStarted
  <2>3. \A u \in Task \ {job.task} : rows'[u] = rows[u]
    BY <2>1
  <2>4. \/ rows'[job.task] = rows[job.task]
        \/ rows'[job.task].worker = job.worker /\ rows'[job.task].gpus = job.gpus
    BY <2>1 DEF MarkRunning, Row
  <2>5. ASSUME NEW u \in Task, u # job.task, rows'[u].status = "running",
               rows'[job.task].status = "running",
               rows'[u].worker = rows'[job.task].worker
        PROVE  rows'[job.task].gpus \cap rows'[u].gpus = {}
    <3>1. rows'[u] = rows[u]
      BY <2>3, <2>5
    <3>2. CASE rows'[job.task] = rows[job.task]
      BY <2>1, <2>5, <3>1, <3>2 DEF ExclusionInv, GpuExclusive, Running
    <3>3. CASE rows'[job.task].worker = job.worker /\ rows'[job.task].gpus = job.gpus
      BY <2>2, <2>5, <3>1, <3>3, FreeOfOthers
    <3> QED
      BY <2>4, <3>2, <3>3
  <2>6. ASSUME NEW t \in Task, NEW u \in Task, t # u, t # job.task, u # job.task,
               rows'[t].status = "running", rows'[u].status = "running",
               rows'[t].worker = rows'[u].worker
        PROVE  rows'[t].gpus \cap rows'[u].gpus = {}
    BY <2>3, <2>6 DEF ExclusionInv, GpuExclusive, Running
  <2> QED
    BY <2>5, <2>6 DEF GpuExclusive, Running
<1> QED
  BY <1>1, <1>2

-----------------------------------------------------------------------------
(* A plan in hand stays good while nothing is placed. *)
LEMMA HeldPlanStaysFree ==
  ASSUME ExclusionInv, NothingPlaced, Planned, UNCHANGED job
  PROVE  PlanIsFree'
BY FewerOccupied DEF ExclusionInv, PlanIsFree

LEMMA SameOccupied ==
  ASSUME UNCHANGED rows, NEW w, NEW t
  PROVE  OccupiedByOthers(w, t)' = OccupiedByOthers(w, t)
BY DEF OccupiedByOthers, RunningOn, Running

(* A new plan is good when it is made. *)
LEMMA NewPlanIsFree ==
  ASSUME ExclusionInv, NEW t \in Task, rows[t].status # "absent",
         job' \in PlansFor(t), UNCHANGED rows
  PROVE  PlanIsFree'
<1>1. job'.task = t /\ job'.gpus \cap OccupiedByOthers(job'.worker, t) = {}
  BY HeldPlanPlaces DEF ExclusionInv
<1> QED
  BY <1>1, SameOccupied DEF PlanIsFree

(* The GPUs a resized task is to have are its own or nobody's. *)
LEMMA ResizePlanIsFree ==
  ASSUME ExclusionInv, NEW t \in Task, ResizeTask(t)
  PROVE  PlanIsFree'
<1>1. SUFFICES ASSUME Planned'
               PROVE  job'.gpus \cap OccupiedByOthers(job.worker, job.task)' = {}
  BY DEF PlanIsFree
<1>2. pc = "resize" /\ t \in scan.todo /\ rows' = rows
  BY DEF ResizeTask
<1>3. PICK G \in ResizeChoices(t) :
        job' = [task |-> t, worker |-> scan.snap[t].worker, gpus |-> G]
  BY <1>1, <1>2 DEF ResizeTask, Planned, Goto
<1>4. rows[t].status = "running"
  BY <1>1, <1>2, <1>3 DEF Planned, ResizeTask, Goto
<1>5. SamePlace(rows[t], scan.snap[t])
  BY <1>2, <1>4 DEF ExclusionInv, ListIsFresh, Resizing
<1>6. /\ scan.up \in SUBSET Worker /\ scan.ready \in [Worker -> SUBSET Gpu]
      /\ scan.snap[t] \in Row
  BY DEF ExclusionInv, HandInv, HandTyped, Scan
<1> DEFINE w == scan.snap[t].worker
<1>7. G \cap OccupiedByOthers(w, t) \subseteq rows[t].gpus
  BY <1>3, <1>5, <1>6, ResizeStays DEF ResizeChoices, SamePlace
<1>8. rows[t].gpus \cap OccupiedByOthers(w, t) = {}
  BY <1>4, <1>5
  DEF ExclusionInv, GpuExclusive, Running, RunningOn, OccupiedByOthers, SamePlace
<1> HIDE DEF w
<1> QED
  BY <1>2, <1>3, <1>7, <1>8, SameOccupied DEF w

(* Where the plan in hand after a step comes from *)
NoPlan == ~Planned'

PlanKept == NothingPlaced /\ Planned /\ job' = job

PlanMade ==
  \E t \in Task : rows[t].status # "absent" /\ job' \in PlansFor(t) /\ rows' = rows

PlanOrigin == NoPlan \/ PlanKept \/ PlanMade \/ \E t \in Task : ResizeTask(t)

LEMMA PlanComesFrom ==
  ASSUME ExclusionInv, [SchedulerNext]_vars
  PROVE  PlanOrigin
<1> USE DEF Goto, PlanOrigin
<1>1. CASE MarkStarted
  <2>1. pc' \in {"pick", "resize", "background", "abort"}
    BY <1>1 DEF MarkStarted, ExclusionInv, HandInv, HandTyped, Scan
  <2> QED
    BY <2>1 DEF NoPlan, Planned
<1>2. ASSUME ~MarkStarted, ~HolderStep PROVE PlanOrigin
  <2>1. CASE UNCHANGED <<pc, job, scan>>
    <3>1. NothingPlaced
      BY <1>2, NothingElsePlaces DEF ExclusionInv
    <3>2. Planned' => Planned
      BY <2>1, <3>1 DEF Planned, NothingPlaced, ExclusionInv, HandInv, HandKnown,
                        Working
    <3> QED
      BY <2>1, <3>1, <3>2 DEF NoPlan, PlanKept
  <2>2. CASE pc' \in {"schedule", "idle", "probe"}
    BY <2>2 DEF NoPlan, Planned
  <2> QED
    BY <1>2, <2>1, <2>2
    DEF SchedulerNext, TickBegins, ReleaseLock, ClientStep, SubmitTask, EditTask,
        CallBegins, CallKills, CallUpdates, CallDispatches, HostMoves, Crash,
        holderVars, vars
<1>3. CASE \E t \in Task : \/ PickWithPlan(t) \/ PickForNuma(t)
                           \/ StartBackground(t)
  <2>1. PICK t \in Task : PickWithPlan(t) \/ PickForNuma(t) \/ StartBackground(t)
    BY <1>3
  <2>2. job' \in PlansFor(t) /\ rows' = rows
    BY <2>1 DEF PickWithPlan, PickForNuma, StartBackground
  <2>3. rows[t].status # "absent"
    BY <2>1 DEF PickWithPlan, PickForNuma, StartBackground, NextRegular, Queued,
                NextBackground, ExclusionInv, HandInv, HandKnown
  <2> QED
    BY <2>2, <2>3 DEF PlanMade
<1>4. CASE Replan
  <2>1. job.task \in Task /\ rows[job.task].status # "absent"
    BY <1>4 DEF Replan, ExclusionInv, HandInv, HandKnown, Working, Yielding
  <2>2. pc' = "pick" \/ (job' \in PlansFor(job.task) /\ rows' = rows)
    BY <1>4 DEF Replan
  <2>3. CASE pc' = "pick"
    BY <2>3 DEF NoPlan, Planned
  <2> QED
    BY <2>1, <2>2, <2>3 DEF PlanMade
<1>5. CASE \E t \in Task : ResizeTask(t)
  BY <1>5
<1>6. ASSUME HolderStep, ~MarkStarted, ~Replan,
             \A t \in Task : /\ ~PickWithPlan(t) /\ ~PickForNuma(t)
                             /\ ~StartBackground(t) /\ ~ResizeTask(t)
      PROVE  PlanOrigin
  <2>1. NothingPlaced
    BY <1>6, NothingElsePlaces DEF ExclusionInv
  <2>2. SUFFICES ASSUME Planned' PROVE PlanOrigin
    BY DEF NoPlan
  <2>3. /\ scan \in Scan /\ scan.after \in {"pick", "resize", "background"}
        /\ pc = "yield" => scan.mode # "numa"
    BY DEF ExclusionInv, HandInv, HandTyped, HandKnown, Scan
  <2>4. CASE LaunchStarts \/ LaunchDoesNotStart \/ AbortLaunch
    <3>1. LaunchStarts
      BY <2>2, <2>3, <2>4 DEF LaunchDoesNotStart, AbortLaunch, Planned
    <3> QED
      BY <2>1, <3>1 DEF PlanKept, LaunchStarts, Planned
  <2>5. CASE \/ \E t \in Task : KillVictim(t)
             \/ ChooseVictims \/ EvictVictim \/ VictimsDone
    <3>1. pc' \in {"kill", "evict"} => scan'.mode = scan.mode
      BY <2>3, <2>5 DEF KillVictim, ChooseVictims, EvictVictim, VictimsDone, Scan
    <3>2. pc \in {"yield", "kill", "evict"} /\ job' = job
          /\ pc' \in {"kill", "evict", "start", "yield", "reprobe"}
      BY <2>5 DEF KillVictim, ChooseVictims, EvictVictim, VictimsDone
    <3>3. pc' = "start" => pc = "kill" /\ scan.mode = "numa"
      BY <2>5 DEF KillVictim, ChooseVictims, EvictVictim, VictimsDone
    <3>4. Planned
      BY <2>2, <2>3, <3>1, <3>2, <3>3 DEF Planned
    <3> QED
      BY <2>1, <3>2, <3>4 DEF PlanKept
  <2>6. CASE ResizeKill \/ ResizeEvict
    <3>1. job.task \in Task
      BY <2>6 DEF ExclusionInv, HandInv, HandKnown, Working, ResizeKill, ResizeEvict
    <3>2. /\ pc \in {"resizeKill", "resizeEvict"} /\ job' = job
          /\ rows[job.task].status = "running"
      BY <2>1, <2>2, <2>6, <3>1 DEF ResizeKill, ResizeEvict, Planned, NothingPlaced
    <3> QED
      BY <2>1, <3>2 DEF PlanKept, Planned
  <2>7. CASE pc' \in {"schedule", "stop", "refresh", "session", "lost", "finish",
                      "probe", "pick", "yield", "resize", "background", "release"}
    BY <2>2, <2>7 DEF Planned
  <2> QED
    BY <1>6, <2>2, <2>4, <2>5, <2>6, <2>7
    DEF HolderStep, TaskSteps, ScheduledStart, ScheduledStop, SkipUnreachable,
        ReadRaises, ReadExitCode, PickWithoutPlan, SkipBackground,
        ScheduledStopPauses, RefreshBegins, SessionPresent, SessionCheckRaises,
        SessionMissing, RequeueOrFailLost, FinishExited, TailLogsRaises,
        RefreshEnds, ProbeWorkers, PickEnds, NoVictims, Reprobe, ResizeEnds,
        BackgroundEnds, Planned
<1> QED
  BY <1>1, <1>2, <1>3, <1>4, <1>5, <1>6

LEMMA PlanStep ==
  ASSUME ExclusionInv, [SchedulerNext]_vars
  PROVE  PlanIsFree'
<1>1. CASE NoPlan
  BY <1>1 DEF NoPlan, PlanIsFree
<1>2. CASE PlanKept
  BY <1>2, HeldPlanStaysFree DEF PlanKept
<1>3. CASE PlanMade
  BY <1>3, NewPlanIsFree DEF PlanMade
<1>4. CASE \E t \in Task : ResizeTask(t)
  BY <1>4, ResizePlanIsFree
<1> QED
  BY <1>1, <1>2, <1>3, <1>4, PlanComesFrom DEF PlanOrigin

LEMMA ListStep ==
  ASSUME ExclusionInv, [SchedulerNext]_vars
  PROVE  ListIsFresh'
<1> USE DEF Goto
<1>1. /\ scan \in Scan /\ scan.after \in {"pick", "resize", "background"}
      /\ rows \in [Task -> Row]
  BY DEF ExclusionInv, HandInv, HandTyped, Scan, StoreInv
<1>2. CASE /\ Resizing /\ scan'.todo \subseteq scan.todo /\ scan'.snap = scan.snap
           /\ pc' # "resize" => job'.task \notin scan'.todo
  <2>1. ASSUME NEW t \in scan'.todo, rows'[t].status = "running"
        PROVE  SamePlace(rows'[t], scan'.snap[t])
    <3>1. t \in Task /\ t \in scan.todo
      BY <1>1, <1>2, <2>1 DEF Scan
    <3>2. rows[t].status = "running" => SamePlace(rows[t], scan.snap[t])
      BY <1>2, <3>1 DEF ExclusionInv, ListIsFresh
    <3>3. CASE MarkStarted
      <4>1. pc # "resize" /\ job.task \notin scan.todo
        BY <1>2, <3>3 DEF ExclusionInv, ListIsFresh, MarkStarted
      <4>2. rows'[t] = rows[t]
        BY <1>1, <3>1, <3>3, <4>1, MarkStartedMarks DEF ExclusionInv
      <4> QED
        BY <1>2, <2>1, <3>2, <4>2
    <3>4. CASE ~MarkStarted
      BY <1>2, <2>1, <3>1, <3>2, <3>4, NothingElsePlaces
      DEF NothingPlaced, SamePlace, ExclusionInv
    <3> QED
      BY <3>3, <3>4
  <2> QED
    BY <1>2, <2>1 DEF ListIsFresh
<1>3. CASE ProbeWorkers \/ PickEnds
  <2>1. \/ pc' = "pick"
        \/ /\ pc' = "resize"
           /\ scan'.todo = ResizeList
           /\ scan'.snap = Listed(ResizeList)
    <3>1. CASE PickEnds
      BY <1>1, <3>1 DEF PickEnds, Scan
    <3>2. CASE ProbeWorkers
      <4>1. PICK up \in SUBSET Worker, reading \in [Worker -> SUBSET Gpu],
                 queued \in BOOLEAN :
              \/ /\ pc' = "pick"
                 /\ scan' = [NoScan EXCEPT !.up = up, !.ready = reading,
                                           !.queued = queued]
              \/ /\ pc' = "resize"
                 /\ scan' = [[NoScan EXCEPT !.up = up, !.ready = reading,
                                            !.queued = queued]
                               EXCEPT !.todo = ResizeList,
                                      !.snap = Listed(ResizeList)]
        BY <3>2 DEF ProbeWorkers
      <4> DEFINE probed == [NoScan EXCEPT !.up = up, !.ready = reading,
                                          !.queued = queued]
      <4>2. probed \in Scan
        BY NoScanTyped DEF Scan
      <4>3. \/ pc' = "pick" /\ scan' = probed
            \/ /\ pc' = "resize"
               /\ scan' = [probed EXCEPT !.todo = ResizeList,
                                         !.snap = Listed(ResizeList)]
        BY <4>1
      <4> HIDE DEF probed
      <4>4. [probed EXCEPT !.todo = ResizeList, !.snap = Listed(ResizeList)].todo
              = ResizeList
        BY <4>2 DEF Scan
      <4>5. [probed EXCEPT !.todo = ResizeList, !.snap = Listed(ResizeList)].snap
              = Listed(ResizeList)
        BY <4>2 DEF Scan
      <4> QED
        BY <4>3, <4>4, <4>5
    <3> QED
      BY <1>3, <3>1, <3>2
  <2>2. \A t \in ResizeList : Listed(ResizeList)[t] = rows[t]
    BY DEF Listed, ResizeList, Running
  <2>3. rows' = rows
    BY <1>3 DEF ProbeWorkers, PickEnds
  <2> QED
    BY <2>1, <2>2, <2>3 DEF ListIsFresh, Resizing, SamePlace
<1>4. CASE \E t \in Task : ResizeTask(t)
  <2>1. PICK t \in Task : ResizeTask(t)
    BY <1>4
  <2>2. Resizing /\ scan'.todo = scan.todo \ {t} /\ scan'.snap = scan.snap
    <3>1. /\ pc = "resize"
          /\ scan' = [scan EXCEPT !.todo = Drop(t), !.after = "resize"]
      BY <2>1 DEF ResizeTask
    <3>2. scan'.todo = Drop(t) /\ scan'.snap = scan.snap
      BY <1>1, <3>1 DEF Scan
    <3> QED
      BY <3>1, <3>2 DEF Resizing, Drop
  <2>3. pc' = "resize" \/ job'.task = t
    BY <2>1 DEF ResizeTask
  <2>4. scan'.todo \subseteq scan.todo
    BY <2>2
  <2>5. pc' # "resize" => job'.task \notin scan'.todo
    BY <2>2, <2>3
  <2> QED
    BY <1>2, <2>2, <2>4, <2>5
<1>5. CASE LaunchStarts \/ LaunchDoesNotStart \/ MarkStarted \/ AbortLaunch
  <2>1. pc \in {"start", "mark", "abort"} /\ scan' = scan
    BY <1>5 DEF LaunchStarts, LaunchDoesNotStart, MarkStarted, AbortLaunch
  <2>2. pc' = scan.after \/ (pc' \in {"mark", "abort"} /\ job' = job)
    BY <1>5 DEF LaunchStarts, LaunchDoesNotStart, MarkStarted, AbortLaunch
  <2>3. CASE scan.after = "resize"
    <3>1. Resizing /\ job.task \notin scan.todo
      BY <2>1, <2>3 DEF Resizing, ExclusionInv, ListIsFresh
    <3> QED
      BY <1>2, <2>1, <2>2, <2>3, <3>1
  <2>4. CASE scan.after # "resize"
    BY <1>1, <2>1, <2>2, <2>4 DEF ListIsFresh, Resizing
  <2> QED
    BY <2>3, <2>4
<1>6. CASE ResizeKill \/ ResizeEvict
  <2>1. Resizing /\ job.task \notin scan.todo /\ scan' = scan
    BY <1>6 DEF ResizeKill, ResizeEvict, Resizing, ExclusionInv, ListIsFresh
  <2>2. pc' = "resize" \/ job' = job
    BY <1>6 DEF ResizeKill, ResizeEvict
  <2> QED
    BY <1>2, <2>1, <2>2
<1>7. CASE /\ \/ \E t \in Task : PickWithPlan(t) \/ StartBackground(t)
              \/ VictimsDone \/ Replan
           /\ HolderStep
  <2>1. scan.after # "resize" \/ \E t \in Task : PickWithPlan(t)
    BY <1>7 DEF ExclusionInv, HandInv, HandKnown, StartBackground, VictimsDone,
                Replan, Yielding
  <2>2. scan'.after # "resize"
    BY <1>1, <1>7, <2>1 DEF PickWithPlan, StartBackground, VictimsDone, Replan, Scan
  <2>3. pc' \in {"start", "reprobe", "yield", "pick"}
    BY <1>7 DEF PickWithPlan, StartBackground, VictimsDone, Replan
  <2> QED
    BY <2>2, <2>3 DEF ListIsFresh, Resizing
<1>8. CASE pc' \in {"idle", "schedule", "stop", "refresh", "session", "lost",
                    "finish", "probe", "pick", "yield", "kill", "evict",
                    "reprobe", "replan", "background", "release"}
  BY <1>8 DEF ListIsFresh, Resizing
<1>9. CASE UNCHANGED <<pc, job, scan>>
  <2>1. CASE Resizing
    <3>1. pc # "resize" => job.task \notin scan.todo
      BY <2>1 DEF ExclusionInv, ListIsFresh
    <3> QED
      BY <1>2, <1>9, <2>1, <3>1
  <2>2. CASE ~Resizing
    BY <1>9, <2>2 DEF ListIsFresh, Resizing
  <2> QED
    BY <2>1, <2>2
<1>10. CASE HolderStep
  BY <1>3, <1>4, <1>5, <1>6, <1>7, <1>8, <1>10
  DEF HolderStep, TaskSteps, ScheduledStart, ScheduledStop, SkipUnreachable,
      ReadRaises, ReadExitCode, PickForNuma, PickWithoutPlan, KillVictim,
      SkipBackground, ScheduledStopPauses, RefreshBegins, SessionPresent,
      SessionCheckRaises, SessionMissing, RequeueOrFailLost, FinishExited,
      TailLogsRaises, RefreshEnds, ChooseVictims, NoVictims, EvictVictim,
      Reprobe, ResizeEnds, BackgroundEnds
<1> QED
  BY <1>8, <1>9, <1>10
  DEF SchedulerNext, TickBegins, ReleaseLock, ClientStep, SubmitTask, EditTask,
      CallBegins, CallKills, CallUpdates, CallDispatches, HostMoves, Crash,
      holderVars, vars

LEMMA ExclusionStep ==
  ASSUME ExclusionInv, [SchedulerNext]_vars
  PROVE  ExclusionInv'
BY HandStep, ExclusiveStep, PlanStep, ListStep DEF ExclusionInv

(***************************************************************************)
(* Two running tasks never share a GPU of a worker, whatever clients,      *)
(* schedules, failed kills, lost sessions and crashes do between the plan, *)
(* the launch and its record.                                              *)
(***************************************************************************)
THEOREM SchedulerKeepsGpusExclusive == SchedulerSpec => []GpuExclusive
<1>1. ExclusionInv => GpuExclusive
  BY DEF ExclusionInv
<1> QED
  BY <1>1, ExclusionInit, ExclusionStep, PTL DEF SchedulerSpec

-----------------------------------------------------------------------------
LEMMA LeaseInitial == SchedulerInit => Lease!LeaseInit
BY DEF SchedulerInit, StoreInit, AbsentRow, LeaseOf, Lease!LeaseInit

LEMMA LeaseStep ==
  ASSUME ExclusionInv, [SchedulerNext]_vars
  PROVE  [Lease!LeaseNext]_[t \in Task |-> LeaseOf(rows[t])]
<1> DEFINE lease == [t \in Task |-> LeaseOf(rows[t])]
<1>1. rows \in [Task -> Row] /\ rows' \in [Task -> Row]
  BY ExclusionStep DEF ExclusionInv, HandInv, StoreInv
<1>2. CASE UNCHANGED rows
  BY <1>2
<1>3. CASE \E t \in Task : PlacesNothing(t)
  <2>1. PICK t \in Task : PlacesNothing(t)
    BY <1>3
  <2>2. \A u \in Task \ {t} : rows'[u] = rows[u]
    BY <1>1, <2>1 DEF PlacesNothing, Moves, Create, Update, Finish, Fail, Requeue,
                      Preempt, Start, Pause, Rerun, Cancel
  <2>3. LeaseOf(rows'[t]) \in {LeaseOf(rows[t]), {}}
    <3>1. CASE rows'[t].status # "running"
      BY <3>1 DEF LeaseOf
    <3>2. CASE rows'[t].status = "running"
      BY <2>1, <3>2, StatementStaysPlaced DEF ExclusionInv, HandInv, LeaseOf, SamePlace
    <3> QED
      BY <3>1, <3>2
  <2>4. lease' = lease \/ lease' = [lease EXCEPT ![t] = {}]
    BY <2>2, <2>3
  <2> QED
    BY <2>4 DEF Lease!LeaseNext, Lease!Release
<1>4. CASE MarkStarted
  <2>1. /\ job.task \in Task /\ job.worker \in Worker /\ job.gpus \in SUBSET Gpu
        /\ rows' = [rows EXCEPT ![job.task] =
                                  MarkRunning(@, job.worker, job.gpus)]
    BY <1>4, MarkStartedMarks DEF ExclusionInv
  <2>2. job.gpus \cap OccupiedByOthers(job.worker, job.task) = {}
    BY <1>4 DEF ExclusionInv, PlanIsFree, Planned, MarkStarted
  <2>3. CASE rows[job.task].status # "queued"
    BY <1>1, <2>1, <2>3 DEF MarkRunning
  <2>4. CASE rows[job.task].status = "queued"
    <3>1. lease[job.task] = {}
      BY <2>1, <2>4 DEF LeaseOf
    <3>2. lease' = [lease EXCEPT ![job.task] = {job.worker} \X job.gpus]
      BY <1>1, <2>1, <2>4 DEF LeaseOf, MarkRunning, Row
    <3>3. ASSUME NEW u \in Task
          PROVE  LeaseOf(rows[u]) \cap ({job.worker} \X job.gpus) = {}
      <4>1. CASE rows[u].status # "running"
        BY <4>1 DEF LeaseOf
      <4>2. CASE rows[u].status = "running" /\ rows[u].worker # job.worker
        BY <4>2 DEF LeaseOf
      <4>3. CASE rows[u].status = "running" /\ rows[u].worker = job.worker
        <5>1. job.gpus \cap rows[u].gpus = {}
          BY <2>2, <2>4, <4>3, FreeOfOthers
        <5> QED
          BY <4>3, <5>1 DEF LeaseOf
      <4> QED
        BY <4>1, <4>2, <4>3
    <3>4. Lease!Acquire(job.task, job.worker, job.gpus)
      BY <2>1, <3>1, <3>2, <3>3 DEF Lease!Acquire
    <3> QED
      BY <2>1, <3>4 DEF Lease!LeaseNext
  <2> QED
    BY <2>3, <2>4
<1> QED
  BY <1>2, <1>3, <1>4, OnlyMarkPlaces DEF ExclusionInv

(***************************************************************************)
(* The scheduler implements the abstract allocator: it takes GPUs for a    *)
(* task that has none, all at once and only when no other task has them,   *)
(* and gives them back all at once.                                        *)
(***************************************************************************)
THEOREM SchedulerKeepsLeaseContract == SchedulerSpec => LeaseContract
BY ExclusionInit, ExclusionStep, LeaseInitial, LeaseStep, PTL
DEF SchedulerSpec, LeaseContract, Lease!LeaseSpec

-----------------------------------------------------------------------------
(* Limits of a worker *)

BackgroundOn(w) == {t \in RunningOn(w) : Opt(t).background}

(* A task t on G of w is within the limits, beside the others that run there. *)
Fits(w, t, G) ==
  /\ Cap[w] # None => Slots(RunningOn(w) \ {t}) + Cardinality(G) <= Cap[w]
  /\ Opt(t).background => Cardinality(BackgroundOn(w) \ {t}) < MaxBackground[w]

(* What the holder may still record fits. *)
PlanFits ==
  Planned => /\ rows[job.task].status # "absent"
             /\ Fits(job.worker, job.task, job.gpus)

LimitInv ==
  ExclusionInv /\ LockHeld /\ CapRespected /\ BackgroundCapRespected /\ PlanFits

LEMMA MinOfTwo ==
  ASSUME NEW a \in Nat, NEW b \in Nat
  PROVE  Min({a, b}) \in Nat /\ Min({a, b}) <= a /\ Min({a, b}) <= b
<1>1. \E x \in {a, b} : \A y \in {a, b} : x =< y
  <2>1. a <= b \/ b <= a
    OBVIOUS
  <2> QED
    BY <2>1
<1>2. /\ Min({a, b}) \in {a, b}
      /\ \A y \in {a, b} : Min({a, b}) =< y
  BY <1>1 DEF Min
<1> QED
  BY <1>2

(* The slots of a set of tasks, and those of the sets it contains *)
SlotPairs(S) == UNION {{u} \X rows[u].gpus : u \in S}

LEMMA SlotsFinite ==
  ASSUME rows \in [Task -> Row], NEW S \in SUBSET Task
  PROVE  IsFiniteSet(SlotPairs(S)) /\ Slots(S) \in Nat
<1>1. IsFiniteSet(Task \X Gpu)
  BY FiniteAssumption, FS_Product
<1>2. SlotPairs(S) \subseteq Task \X Gpu
  BY DEF SlotPairs, Row
<1>3. IsFiniteSet(SlotPairs(S))
  BY <1>1, <1>2, FS_Subset
<1> QED
  BY <1>3, FS_CardinalityType DEF Slots, SlotPairs

LEMMA FewerSlots ==
  ASSUME rows \in [Task -> Row], NEW S \in SUBSET Task, NEW T \in SUBSET S
  PROVE  Slots(T) <= Slots(S)
<1>1. SlotPairs(T) \subseteq SlotPairs(S)
  BY DEF SlotPairs
<1> QED
  BY <1>1, SlotsFinite, FS_Subset DEF Slots, SlotPairs

LEMMA RunningOnTasks ==
  ASSUME NEW w, NEW t
  PROVE  RunningOn(w) \in SUBSET Task /\ RunningOn(w) \ {t} \in SUBSET Task
BY DEF RunningOn, Running

LEMMA SomeBackground ==
  ASSUME NEW w, NEW t
  PROVE  /\ IsFiniteSet(BackgroundOn(w)) /\ IsFiniteSet(BackgroundOn(w) \ {t})
         /\ Cardinality(BackgroundOn(w)) \in Nat
         /\ Cardinality(BackgroundOn(w) \ {t}) \in Nat
         /\ Cardinality(BackgroundOn(w) \ {t}) <= Cardinality(BackgroundOn(w))
<1>1. /\ BackgroundOn(w) \in SUBSET Task
      /\ BackgroundOn(w) \ {t} \in SUBSET BackgroundOn(w)
  BY DEF BackgroundOn, RunningOn, Running
<1>2. IsFiniteSet(BackgroundOn(w))
  BY <1>1, FiniteAssumption, FS_Subset
<1>3. /\ IsFiniteSet(BackgroundOn(w) \ {t})
      /\ Cardinality(BackgroundOn(w) \ {t}) <= Cardinality(BackgroundOn(w))
  BY <1>1, <1>2, FS_Subset
<1> QED
  BY <1>2, <1>3, FS_CardinalityType

-----------------------------------------------------------------------------
(* While nothing is placed *)

(* A worker has no more slots taken, and the planned task has as much room. *)
LEMMA SlotsDoNotGrow ==
  ASSUME rows \in [Task -> Row], rows' \in [Task -> Row], NothingPlaced,
         NEW w, NEW t
  PROVE  /\ Slots(RunningOn(w))' <= Slots(RunningOn(w))
         /\ Slots(RunningOn(w) \ {t})' <= Slots(RunningOn(w) \ {t})
         /\ Slots(RunningOn(w))' \in Nat /\ Slots(RunningOn(w)) \in Nat
         /\ Slots(RunningOn(w) \ {t})' \in Nat /\ Slots(RunningOn(w) \ {t}) \in Nat
<1> DEFINE after(S) == UNION {{u} \X rows'[u].gpus : u \in S}
<1>1. /\ RunningOn(w)' \in SUBSET RunningOn(w)
      /\ \A u \in RunningOn(w)' : rows'[u].gpus = rows[u].gpus
      /\ RunningOn(w) \in SUBSET Task
  BY DEF RunningOn, Running, NothingPlaced, SamePlace
<1>2. /\ after(RunningOn(w)') \subseteq SlotPairs(RunningOn(w))
      /\ after(RunningOn(w)' \ {t}) \subseteq SlotPairs(RunningOn(w) \ {t})
  BY <1>1 DEF SlotPairs
<1>3. /\ Slots(RunningOn(w))' = Cardinality(after(RunningOn(w)'))
      /\ Slots(RunningOn(w) \ {t})' = Cardinality(after(RunningOn(w)' \ {t}))
  BY DEF Slots
<1>4. /\ IsFiniteSet(SlotPairs(RunningOn(w)))
      /\ IsFiniteSet(SlotPairs(RunningOn(w) \ {t}))
  BY <1>1, SlotsFinite
<1> HIDE DEF after
<1>5. /\ IsFiniteSet(after(RunningOn(w)'))
      /\ IsFiniteSet(after(RunningOn(w)' \ {t}))
      /\ Cardinality(after(RunningOn(w)')) <= Cardinality(SlotPairs(RunningOn(w)))
      /\ Cardinality(after(RunningOn(w)' \ {t}))
           <= Cardinality(SlotPairs(RunningOn(w) \ {t}))
  BY <1>2, <1>4, FS_Subset
<1> QED
  BY <1>3, <1>4, <1>5, FS_CardinalityType DEF Slots, SlotPairs

(* The options of a running task stay, whoever steps. *)
LEMMA RunningOptionsStay ==
  ASSUME HandInv, [SchedulerNext]_vars, NEW t \in Task,
         rows[t].status = "running"
  PROVE  rows'[t].options = rows[t].options
<1>1. CASE UNCHANGED rows
  BY <1>1
<1>2. CASE StoreNext
  BY <1>2, OptionsStay DEF HandInv
<1> QED
  BY <1>1, <1>2, RowStep

LEMMA BackgroundDoesNotGrow ==
  ASSUME HandInv, [SchedulerNext]_vars, NothingPlaced, NEW w, NEW t
  PROVE  /\ BackgroundOn(w)' \subseteq BackgroundOn(w)
         /\ Cardinality(BackgroundOn(w))' <= Cardinality(BackgroundOn(w))
         /\ Cardinality(BackgroundOn(w) \ {t})' <= Cardinality(BackgroundOn(w) \ {t})
         /\ Cardinality(BackgroundOn(w))' \in Nat
         /\ Cardinality(BackgroundOn(w) \ {t})' \in Nat
<1>1. \A u \in Task : rows'[u].status = "running"
        => /\ rows[u].status = "running" /\ SamePlace(rows'[u], rows[u])
           /\ rows'[u].options = rows[u].options
  BY RunningOptionsStay DEF NothingPlaced
<1>2. BackgroundOn(w)' \subseteq BackgroundOn(w)
  BY <1>1 DEF BackgroundOn, RunningOn, Running, Opt, SamePlace
<1>3. BackgroundOn(w)' \ {t} \subseteq BackgroundOn(w) \ {t}
  BY <1>2
<1>4. IsFiniteSet(BackgroundOn(w)) /\ IsFiniteSet(BackgroundOn(w) \ {t})
  BY SomeBackground
<1>5. /\ IsFiniteSet(BackgroundOn(w)') /\ IsFiniteSet(BackgroundOn(w)' \ {t})
      /\ Cardinality(BackgroundOn(w)') <= Cardinality(BackgroundOn(w))
      /\ Cardinality(BackgroundOn(w)' \ {t}) <= Cardinality(BackgroundOn(w) \ {t})
  BY <1>2, <1>3, <1>4, FS_Subset
<1> QED
  BY <1>2, <1>5, FS_CardinalityType
-----------------------------------------------------------------------------
(* Plans and resizes fit when they are made *)

LEMMA CountsTyped ==
  ASSUME StoreInv, NEW t \in Task, rows[t].status # "absent", NEW w \in Worker
  PROVE  /\ Opt(t).gpus \in Nat \ {0} /\ Opt(t).elastic \in BOOLEAN
         /\ Cap[w] # None
              => /\ Cap[w] \in Nat
                 /\ SlotsLeft(w, t) \in Nat
                 /\ ElasticLimit(w, t) <= SlotsLeft(w, t)
         /\ ElasticLimit(w, t) \in Nat
<1>1. Opt(t).gpus \in Nat \ {0} /\ Opt(t).elastic \in BOOLEAN
  BY OptionsKnown DEF Option
<1>2. Slots(RunningOn(w) \ {t}) \in Nat
  BY RunningOnTasks, SlotsFinite DEF StoreInv
<1>3. Cap[w] # None => Cap[w] \in Nat /\ SlotsLeft(w, t) \in Nat
  BY <1>2, LimitsAssumption DEF SlotsLeft, Monus
<1>4. Cardinality(Gpu) \in Nat
  BY FiniteAssumption, FS_CardinalityType
<1> DEFINE configured == Min({Opt(t).gpus, Cardinality(Gpu)})
<1>5. configured \in Nat
  BY <1>1, <1>4, MinOfTwo
<1>6. ElasticLimit(w, t) = IF Cap[w] = None THEN configured
                           ELSE Min({configured, SlotsLeft(w, t)})
  BY DEF ElasticLimit
<1> HIDE DEF configured
<1> QED
  BY <1>1, <1>3, <1>5, <1>6, MinOfTwo

(* A plan fits beside the tasks that run when it is made. *)
LEMMA PlanFitsWhenMade ==
  ASSUME StoreInv, NEW t \in Task, rows[t].status # "absent",
         NEW up \in SUBSET Worker, NEW ready \in [Worker -> SUBSET Gpu],
         NEW p \in Plans(t, up, ready)
  PROVE  Fits(p.worker, t, p.gpus)
<1>1. PICK w \in Worker : p \in CandidatesOn(t, w, up, ready)
  BY DEF Plans
<1> DEFINE free == Available(w, t, up, ready)
           count == PlanCount(t, w, free)
<1>2. /\ Opt(t).background => Cardinality(BackgroundOn(w)) < MaxBackground[w]
      /\ count >= (IF Opt(t).elastic THEN 1 ELSE Opt(t).gpus)
      /\ p \in {[task |-> t, worker |-> w, gpus |-> G] :
                  G \in Selections(free, count)}
  BY <1>1 DEF CandidatesOn, BackgroundOn
<1>3. p.worker = w /\ Cardinality(p.gpus) = count
  <2> HIDE DEF count
  <2>1. PICK G \in Selections(free, count) :
          p = [task |-> t, worker |-> w, gpus |-> G]
    BY <1>2
  <2> QED
    BY <2>1, SelectionsSelect
<1>4. Cap[w] # None => Slots(RunningOn(w) \ {t}) + count <= Cap[w]
  <2>1. SUFFICES ASSUME Cap[w] # None
                 PROVE  Slots(RunningOn(w) \ {t}) + count <= Cap[w]
    OBVIOUS
  <2>2. /\ Opt(t).gpus \in Nat \ {0} /\ Opt(t).elastic \in BOOLEAN
        /\ Cap[w] \in Nat /\ SlotsLeft(w, t) \in Nat
        /\ ElasticLimit(w, t) \in Nat
    BY <2>1, CountsTyped
  <2>3. Cardinality(free) \in Nat
    <3>1. free \subseteq Gpu
      BY DEF Available
    <3> QED
      BY <3>1, FiniteAssumption, FS_Subset, FS_CardinalityType
  <2>4. Slots(RunningOn(w) \ {t}) \in Nat
    BY RunningOnTasks, SlotsFinite DEF StoreInv
  <2> DEFINE wanted == IF Opt(t).elastic
                       THEN Min({Cardinality(free), ElasticLimit(w, t)})
                       ELSE IF Cardinality(free) >= Opt(t).gpus
                            THEN Opt(t).gpus ELSE 0
  <2>5. wanted \in Nat
    <3>1. Min({Cardinality(free), ElasticLimit(w, t)}) \in Nat
      BY <2>2, <2>3, MinOfTwo
    <3> QED
      BY <2>2, <3>1
  <2>6. count = Min({wanted, SlotsLeft(w, t)})
    BY <2>1 DEF PlanCount
  <2> HIDE DEF wanted, count
  <2>7. count \in Nat /\ count <= SlotsLeft(w, t)
    BY <2>2, <2>5, <2>6, MinOfTwo
  <2>8. count >= 1
    BY <1>2, <2>2, <2>7
  <2>9. Cap[w] > Slots(RunningOn(w) \ {t})
    BY <2>2, <2>4, <2>7, <2>8 DEF SlotsLeft, Monus
  <2> QED
    BY <2>2, <2>4, <2>7, <2>9 DEF SlotsLeft, Monus
<1>5. Opt(t).background => Cardinality(BackgroundOn(w) \ {t}) < MaxBackground[w]
  <2>1. /\ Cardinality(BackgroundOn(w)) \in Nat
        /\ Cardinality(BackgroundOn(w) \ {t}) \in Nat
        /\ Cardinality(BackgroundOn(w) \ {t}) <= Cardinality(BackgroundOn(w))
    BY SomeBackground
  <2>2. Opt(t).background => Cardinality(BackgroundOn(w)) < MaxBackground[w]
    BY <1>2
  <2>3. MaxBackground[w] \in Nat
    BY LimitsAssumption
  <2> QED
    BY <2>1, <2>2, <2>3
<1> HIDE DEF count
<1> QED
  BY <1>3, <1>4, <1>5 DEF Fits

(* A running task fits on the GPUs it is to be resized to. *)
LEMMA ResizeFitsWhenMade ==
  ASSUME StoreInv, CapRespected, BackgroundCapRespected, NEW t \in Task,
         rows[t].status = "running", NEW r \in Row, SamePlace(rows[t], r),
         NEW up \in SUBSET Worker, NEW ready \in [Worker -> SUBSET Gpu],
         NEW G \in ResizeTargets(t, r, up, ready)
  PROVE  Fits(r.worker, t, G)
<1> DEFINE w == r.worker
<1>1. w \in Worker /\ t \in RunningOn(w)
  BY ResizeStays DEF SamePlace, RunningOn, Running
<1>2. ElasticLimit(w, t) \in Nat
  BY <1>1, CountsTyped
<1>3. Cardinality(G) \in Nat /\ Cardinality(G) <= ElasticLimit(w, t)
  <2> DEFINE additional == Available(w, t, up, ready) \ r.gpus
             size       == Cardinality(r.gpus)
             limit      == ElasticLimit(w, t)
  <2>1. \/ size > limit /\ G \in Selections(r.gpus, limit)
        \/ G \in Selections(r.gpus \cup additional,
                            Min({limit, size + Cardinality(additional)}))
    BY DEF ResizeTargets
  <2>2. size + Cardinality(additional) \in Nat
    <3>1. r.gpus \subseteq Gpu /\ additional \subseteq Gpu
      BY DEF Row, Available
    <3>2. IsFiniteSet(r.gpus) /\ IsFiniteSet(additional)
      BY <3>1, FiniteAssumption, FS_Subset
    <3> HIDE DEF additional
    <3> QED
      BY <3>2, FS_CardinalityType
  <2> HIDE DEF additional, size, limit
  <2>3. limit \in Nat
    BY <1>2 DEF limit
  <2>4. /\ Min({limit, size + Cardinality(additional)}) \in Nat
        /\ Min({limit, size + Cardinality(additional)}) <= limit
    BY <2>2, <2>3, MinOfTwo
  <2>5. Cardinality(G) \in Nat /\ Cardinality(G) <= limit
    BY <2>1, <2>3, <2>4, SelectionsSelect
  <2> QED
    BY <2>5 DEF limit
<1>4. ASSUME Cap[w] # None
      PROVE  Slots(RunningOn(w) \ {t}) + Cardinality(G) <= Cap[w]
  <2>1. /\ Cap[w] \in Nat /\ SlotsLeft(w, t) \in Nat
        /\ ElasticLimit(w, t) <= SlotsLeft(w, t)
    BY <1>1, <1>4, CountsTyped
  <2>2. /\ Slots(RunningOn(w) \ {t}) \in Nat /\ Slots(RunningOn(w)) \in Nat
        /\ Slots(RunningOn(w) \ {t}) <= Slots(RunningOn(w))
    BY RunningOnTasks, SlotsFinite, FewerSlots DEF StoreInv
  <2>3. Slots(RunningOn(w)) <= Cap[w]
    BY <1>1, <1>4 DEF CapRespected
  <2> HIDE DEF w
  <2> QED
    BY <1>2, <1>3, <2>1, <2>2, <2>3 DEF SlotsLeft, Monus
<1>5. ASSUME Opt(t).background
      PROVE  Cardinality(BackgroundOn(w) \ {t}) < MaxBackground[w]
  <2>1. t \in BackgroundOn(w)
    BY <1>1, <1>5 DEF BackgroundOn
  <2>2. Cardinality(BackgroundOn(w)) <= MaxBackground[w]
    BY <1>1 DEF BackgroundCapRespected, BackgroundOn
  <2> HIDE DEF w
  <2>3. Cardinality(BackgroundOn(w) \ {t}) = Cardinality(BackgroundOn(w)) - 1
    BY <2>1, SomeBackground, FS_RemoveElement
  <2>4. MaxBackground[w] \in Nat
    BY <1>1, LimitsAssumption DEF w
  <2>5. Cardinality(BackgroundOn(w)) \in Nat
    BY SomeBackground
  <2> QED
    BY <2>2, <2>3, <2>4, <2>5
<1> QED
  BY <1>4, <1>5 DEF Fits
-----------------------------------------------------------------------------
(* The limits are kept *)

LEMMA LimitInit == SchedulerInit => LimitInv
<1> SUFFICES ASSUME SchedulerInit PROVE LimitInv
  OBVIOUS
<1>1. ExclusionInv /\ LockHeld
  BY ExclusionInit DEF SchedulerInit, LockHeld
<1>2. \A w : RunningOn(w) = {} /\ BackgroundOn(w) = {}
  BY DEF SchedulerInit, StoreInit, AbsentRow, RunningOn, Running, BackgroundOn
<1>3. CapRespected
  <2>1. Slots({}) = 0
    BY EmptyHasNone DEF Slots
  <2> QED
    BY <1>2, <2>1, LimitsAssumption DEF CapRespected
<1>4. BackgroundCapRespected
  <2>1. \A w \in Worker : Cardinality(BackgroundOn(w)) = 0
    BY <1>2, EmptyHasNone
  <2> QED
    BY <2>1, LimitsAssumption DEF BackgroundCapRespected, BackgroundOn
<1>5. PlanFits
  BY DEF SchedulerInit, PlanFits, Planned
<1> QED
  BY <1>1, <1>3, <1>4, <1>5 DEF LimitInv

(* A recorded launch adds its task to its worker, and changes no other row. *)
LEMMA MarkAddsTask ==
  ASSUME ExclusionInv, MarkStarted, rows[job.task].status = "queued"
  PROVE  /\ job.task \in Task /\ job.worker \in Worker /\ job.gpus \in SUBSET Gpu
         /\ \A u \in Task \ {job.task} : rows'[u] = rows[u]
         /\ rows'[job.task].gpus = job.gpus
         /\ rows'[job.task].options = rows[job.task].options
         /\ \A w \in Worker :
              IF w = job.worker
              THEN RunningOn(w)' = (RunningOn(w) \ {job.task}) \cup {job.task}
              ELSE RunningOn(w)' = RunningOn(w) /\ job.task \notin RunningOn(w)
<1>1. /\ job.task \in Task /\ job.worker \in Worker /\ job.gpus \in SUBSET Gpu
      /\ rows' = [rows EXCEPT ![job.task] = MarkRunning(@, job.worker, job.gpus)]
      /\ rows \in [Task -> Row]
  BY MarkStartedMarks DEF ExclusionInv, HandInv, StoreInv
<1>2. /\ rows'[job.task].status = "running" /\ rows'[job.task].worker = job.worker
      /\ rows'[job.task].gpus = job.gpus
      /\ rows'[job.task].options = rows[job.task].options
  BY <1>1 DEF MarkRunning, Row
<1>3. \A u \in Task \ {job.task} : rows'[u] = rows[u]
  BY <1>1
<1> DEFINE t == job.task
<1>4. ASSUME NEW w \in Worker
      PROVE  IF w = job.worker
             THEN RunningOn(w)' = (RunningOn(w) \ {t}) \cup {t}
             ELSE RunningOn(w)' = RunningOn(w) /\ t \notin RunningOn(w)
  <2>1. /\ RunningOn(w)' = {u \in Task : rows'[u].status = "running"
                                        /\ rows'[u].worker = w}
        /\ RunningOn(w) = {u \in Task : rows[u].status = "running"
                                       /\ rows[u].worker = w}
    BY DEF RunningOn, Running
  <2> QED
    BY <1>1, <1>2, <1>3, <2>1
<1> QED
  BY <1>1, <1>2, <1>3, <1>4

(* So many slots are taken on its worker then, and as before elsewhere. *)
LEMMA MarkTakesSlots ==
  ASSUME ExclusionInv, MarkStarted, rows[job.task].status = "queued"
  PROVE  /\ \A w \in Worker \ {job.worker} :
              Slots(RunningOn(w))' = Slots(RunningOn(w))
         /\ \A w \in Worker : w = job.worker =>
              Slots(RunningOn(w))' <=
                Slots(RunningOn(w) \ {job.task}) + Cardinality(job.gpus)
<1> DEFINE t        == job.task
           after(S) == UNION {{u} \X rows'[u].gpus : u \in S}
<1>1. /\ t \in Task /\ job.gpus \in SUBSET Gpu
      /\ \A u \in Task \ {t} : rows'[u] = rows[u]
      /\ rows'[t].gpus = job.gpus
      /\ \A w \in Worker :
           IF w = job.worker
           THEN RunningOn(w)' = (RunningOn(w) \ {t}) \cup {t}
           ELSE RunningOn(w)' = RunningOn(w) /\ t \notin RunningOn(w)
  BY MarkAddsTask
<1>2. ASSUME NEW S \in SUBSET (Task \ {t})
      PROVE  after(S) = SlotPairs(S)
  BY <1>1 DEF SlotPairs
<1>3. \A w : Slots(RunningOn(w))' = Cardinality(after(RunningOn(w)'))
  BY DEF Slots
<1>4. \A w : Slots(RunningOn(w)) = Cardinality(SlotPairs(RunningOn(w)))
  BY DEF Slots, SlotPairs
<1>5. ASSUME NEW w \in Worker \ {job.worker}
      PROVE  Slots(RunningOn(w))' = Slots(RunningOn(w))
  <2>1. RunningOn(w) \in SUBSET (Task \ {t})
    BY <1>1, RunningOnTasks
  <2>2. after(RunningOn(w)') = SlotPairs(RunningOn(w))
    BY <1>1, <1>2, <2>1
  <2> QED
    BY <1>3, <1>4, <2>2
<1>6. ASSUME NEW w \in Worker, w = job.worker
      PROVE  Slots(RunningOn(w))' <=
               Slots(RunningOn(w) \ {t}) + Cardinality(job.gpus)
  <2> DEFINE others == RunningOn(w) \ {t}
             new    == {t} \X job.gpus
  <2>1. others \in SUBSET (Task \ {t}) /\ others \in SUBSET Task
    BY RunningOnTasks
  <2>2. after(RunningOn(w)') = SlotPairs(others) \cup new
    <3>1. after(others \cup {t}) = after(others) \cup new
      <4> DEFINE taken(u) == {u} \X rows'[u].gpus
      <4>1. /\ after(others \cup {t}) = UNION {taken(u) : u \in others \cup {t}}
            /\ after(others) = UNION {taken(u) : u \in others}
        OBVIOUS
      <4>2. taken(t) = new
        BY <1>1
      <4> HIDE DEF taken, new, after
      <4> QED
        BY <4>1, <4>2
    <3>2. RunningOn(w)' = others \cup {t}
      BY <1>1, <1>6
    <3>3. after(others) = SlotPairs(others)
      BY <1>2, <2>1
    <3> HIDE DEF after, others, new
    <3> QED
      BY <3>1, <3>2, <3>3
  <2>3. IsFiniteSet(SlotPairs(others)) /\ Slots(others) = Cardinality(SlotPairs(others))
    BY <2>1, SlotsFinite DEF Slots, SlotPairs, ExclusionInv, HandInv, StoreInv
  <2>4. IsFiniteSet(job.gpus) /\ Cardinality(job.gpus) \in Nat
    BY <1>1, FiniteAssumption, FS_Subset, FS_CardinalityType
  <2>5. IsFiniteSet({t}) /\ Cardinality({t}) = 1
    BY FS_Singleton
  <2> HIDE DEF others, t, after
  <2>6. IsFiniteSet(new) /\ Cardinality(new) = Cardinality(job.gpus)
    BY <2>4, <2>5, FS_Product
  <2> HIDE DEF new
  <2>7. Cardinality(SlotPairs(others) \cap new) \in Nat
    BY <2>3, FS_Intersection, FS_CardinalityType
  <2>8. Cardinality(SlotPairs(others) \cup new)
          = Cardinality(SlotPairs(others)) + Cardinality(new)
              - Cardinality(SlotPairs(others) \cap new)
    BY <2>3, <2>6, FS_Union
  <2>9. Cardinality(SlotPairs(others)) \in Nat
    BY <2>3, FS_CardinalityType
  <2>10. Cardinality(SlotPairs(others) \cup new)
           <= Slots(others) + Cardinality(job.gpus)
    BY <2>3, <2>4, <2>6, <2>7, <2>8, <2>9
  <2>11. Slots(RunningOn(w))' = Cardinality(SlotPairs(others) \cup new)
    BY <1>3, <2>2
  <2> QED
    BY <2>10, <2>11 DEF others
<1> QED
  BY <1>5, <1>6

LEMMA CapStep ==
  ASSUME LimitInv, [SchedulerNext]_vars
  PROVE  CapRespected'
<1>1. rows \in [Task -> Row] /\ rows' \in [Task -> Row]
  BY ExclusionStep DEF LimitInv, ExclusionInv, HandInv, StoreInv
<1>2. CASE NothingPlaced
  <2>1. ASSUME NEW w \in Worker, Cap[w] # None
        PROVE  Slots(RunningOn(w))' <= Cap[w]
    <3>1. /\ Slots(RunningOn(w))' <= Slots(RunningOn(w))
          /\ Slots(RunningOn(w))' \in Nat /\ Slots(RunningOn(w)) \in Nat
      BY <1>1, <1>2, SlotsDoNotGrow
    <3>2. Slots(RunningOn(w)) <= Cap[w] /\ Cap[w] \in Nat
      BY <2>1, LimitsAssumption DEF LimitInv, CapRespected
    <3> QED
      BY <3>1, <3>2
  <2> QED
    BY <2>1 DEF CapRespected
<1>3. CASE MarkStarted /\ rows[job.task].status = "queued"
  <2>1. ASSUME NEW w \in Worker, Cap[w] # None
        PROVE  Slots(RunningOn(w))' <= Cap[w]
    <3>1. CASE w # job.worker
      <4>1. Slots(RunningOn(w))' = Slots(RunningOn(w))
        BY <1>3, <3>1, MarkTakesSlots DEF LimitInv
      <4> QED
        BY <2>1, <4>1 DEF LimitInv, CapRespected
    <3>2. CASE w = job.worker
      <4>1. Slots(RunningOn(w))' <= Slots(RunningOn(w) \ {job.task}) + Cardinality(job.gpus)
        BY <1>3, <3>2, MarkTakesSlots DEF LimitInv
      <4>2. Slots(RunningOn(w) \ {job.task}) + Cardinality(job.gpus) <= Cap[w]
        BY <1>3, <2>1, <3>2 DEF LimitInv, PlanFits, Planned, Fits, MarkStarted
      <4>3. Slots(RunningOn(w))' \in Nat
        <5>1. RunningOn(w)' \in SUBSET Task
          BY DEF RunningOn, Running
        <5>2. UNION {{u} \X rows'[u].gpus : u \in RunningOn(w)'} \subseteq Task \X Gpu
          BY <1>1, <5>1 DEF Row
        <5> QED
          BY <5>2, FiniteAssumption, FS_Product, FS_Subset, FS_CardinalityType
          DEF Slots
      <4>4. Slots(RunningOn(w) \ {job.task}) \in Nat
        BY <1>1, RunningOnTasks, SlotsFinite
      <4>5. Cardinality(job.gpus) \in Nat
        BY <1>3, MarkAddsTask, FiniteAssumption, FS_Subset, FS_CardinalityType
        DEF LimitInv
      <4>6. Cap[w] \in Nat
        BY <2>1, LimitsAssumption
      <4> QED
        BY <4>1, <4>2, <4>3, <4>4, <4>5, <4>6
    <3> QED
      BY <3>1, <3>2
  <2> QED
    BY <2>1 DEF CapRespected
<1>4. CASE MarkStarted /\ rows[job.task].status # "queued"
  <2>1. rows' = rows
    BY <1>1, <1>4, MarkStartedMarks DEF LimitInv, ExclusionInv, MarkRunning
  <2> QED
    BY <1>2, <2>1 DEF NothingPlaced, SamePlace
<1> QED
  BY <1>2, <1>3, <1>4, NothingElsePlaces DEF LimitInv, ExclusionInv

LEMMA BackgroundCapStep ==
  ASSUME LimitInv, [SchedulerNext]_vars
  PROVE  BackgroundCapRespected'
<1>1. \A w \in Worker : MaxBackground[w] \in Nat
  BY LimitsAssumption
<1>2. \A w \in Worker : Cardinality(BackgroundOn(w)) <= MaxBackground[w]
  BY DEF LimitInv, BackgroundCapRespected, BackgroundOn
<1>3. SUFFICES ASSUME NEW w \in Worker
               PROVE  Cardinality(BackgroundOn(w))' <= MaxBackground[w]
  BY DEF BackgroundCapRespected, BackgroundOn
<1>4. /\ Cardinality(BackgroundOn(w)) \in Nat
      /\ \A t : /\ IsFiniteSet(BackgroundOn(w) \ {t})
               /\ Cardinality(BackgroundOn(w) \ {t}) \in Nat
               /\ Cardinality(BackgroundOn(w) \ {t}) <= Cardinality(BackgroundOn(w))
  BY SomeBackground
<1>5. CASE NothingPlaced
  <2>1. /\ Cardinality(BackgroundOn(w))' <= Cardinality(BackgroundOn(w))
        /\ Cardinality(BackgroundOn(w))' \in Nat
    BY <1>5, BackgroundDoesNotGrow DEF LimitInv, ExclusionInv
  <2> QED
    BY <1>1, <1>2, <1>4, <2>1
<1>6. CASE MarkStarted /\ rows[job.task].status = "queued"
  <2> DEFINE t      == job.task
             others == BackgroundOn(w) \ {t}
  <2>1. /\ t \in Task
        /\ \A u \in Task : rows'[u].options = rows[u].options
        /\ IF w = job.worker
           THEN RunningOn(w)' = (RunningOn(w) \ {t}) \cup {t}
           ELSE RunningOn(w)' = RunningOn(w) /\ t \notin RunningOn(w)
    BY <1>6, MarkAddsTask DEF LimitInv
  <2>2. /\ BackgroundOn(w)' = {u \in RunningOn(w)' : rows'[u].options.background}
        /\ BackgroundOn(w) = {u \in RunningOn(w) : rows[u].options.background}
        /\ RunningOn(w) \in SUBSET Task
    BY DEF BackgroundOn, Opt, RunningOn, Running
  <2>3. CASE BackgroundOn(w)' = BackgroundOn(w) \/ BackgroundOn(w)' = others
    BY <1>1, <1>2, <1>4, <2>3
  <2>4. CASE w = job.worker /\ Opt(t).background
    <3>1. Cardinality(others) < MaxBackground[w]
      BY <1>6, <2>4 DEF LimitInv, PlanFits, Planned, Fits, MarkStarted
    <3>2. BackgroundOn(w)' = others \cup {t}
      BY <2>1, <2>2, <2>4 DEF Opt
    <3>3. t \notin others
      OBVIOUS
    <3>4. IsFiniteSet(others) /\ Cardinality(others) \in Nat
      BY <1>4
    <3> HIDE DEF others, t
    <3>5. Cardinality(others \cup {t}) = Cardinality(others) + 1
      BY <3>3, <3>4, FS_AddElement
    <3> QED
      BY <1>1, <3>1, <3>2, <3>4, <3>5
  <2>5. CASE w = job.worker /\ ~Opt(t).background
    <3>1. BackgroundOn(w)' = others
      BY <2>1, <2>2, <2>5 DEF Opt
    <3> QED
      BY <2>3, <3>1
  <2>6. CASE w # job.worker
    <3>1. BackgroundOn(w)' = BackgroundOn(w)
      BY <2>1, <2>2, <2>6
    <3> QED
      BY <2>3, <3>1
  <2> QED
    BY <2>4, <2>5, <2>6
<1>7. CASE MarkStarted /\ rows[job.task].status # "queued"
  <2>1. rows' = rows
    BY <1>7, MarkStartedMarks
    DEF LimitInv, ExclusionInv, HandInv, StoreInv, MarkRunning
  <2> QED
    BY <1>5, <2>1 DEF NothingPlaced, SamePlace
<1> QED
  BY <1>5, <1>6, <1>7, NothingElsePlaces DEF LimitInv, ExclusionInv

(* Under the lock, what fits goes on fitting while nothing is placed. *)
LEMMA StillFits ==
  ASSUME LimitInv, [SchedulerNext]_vars, NothingPlaced, pc # "idle",
         NEW t \in Task, NEW w \in Worker, NEW G \in SUBSET Gpu,
         rows[t].status # "absent", Fits(w, t, G)
  PROVE  Fits(w, t, G)'
<1>1. HandInv /\ HandInv' /\ LockHeld
  BY HandStep DEF LimitInv, ExclusionInv
<1>2. rows \in [Task -> Row] /\ rows' \in [Task -> Row]
  BY <1>1 DEF HandInv, StoreInv
<1>3. rows'[t].options = rows[t].options
  BY <1>1, HeldOptionsStay DEF OptionsKept
<1>4. Cardinality(G) \in Nat
  BY FiniteAssumption, FS_Subset, FS_CardinalityType
<1>5. ASSUME Cap[w] # None
      PROVE  Slots(RunningOn(w) \ {t})' + Cardinality(G) <= Cap[w]
  <2>1. Slots(RunningOn(w) \ {t}) + Cardinality(G) <= Cap[w] /\ Cap[w] \in Nat
    BY <1>5, LimitsAssumption DEF Fits
  <2>2. /\ Slots(RunningOn(w) \ {t})' <= Slots(RunningOn(w) \ {t})
        /\ Slots(RunningOn(w) \ {t})' \in Nat
        /\ Slots(RunningOn(w) \ {t}) \in Nat
    BY <1>2, SlotsDoNotGrow
  <2> QED
    BY <1>4, <2>1, <2>2
<1>6. ASSUME rows'[t].options.background
      PROVE  Cardinality(BackgroundOn(w) \ {t})' < MaxBackground[w]
  <2>1. Cardinality(BackgroundOn(w) \ {t}) < MaxBackground[w]
    BY <1>3, <1>6 DEF Fits, Opt
  <2>2. /\ Cardinality(BackgroundOn(w) \ {t})' <= Cardinality(BackgroundOn(w) \ {t})
        /\ Cardinality(BackgroundOn(w) \ {t})' \in Nat
    BY <1>1, BackgroundDoesNotGrow
  <2>3. Cardinality(BackgroundOn(w) \ {t}) \in Nat /\ MaxBackground[w] \in Nat
    BY SomeBackground, LimitsAssumption
  <2> QED
    BY <2>1, <2>2, <2>3
<1> QED
  BY <1>5, <1>6 DEF Fits, Opt

LEMMA HeldPlanStillFits ==
  ASSUME LimitInv, [SchedulerNext]_vars, NothingPlaced, Planned, UNCHANGED job
  PROVE  PlanFits'
<1>1. PICK t \in Task, w \in Worker, G \in SUBSET Gpu :
        t = job.task /\ w = job.worker /\ G = job.gpus
  BY DEF LimitInv, ExclusionInv, HandInv, HandTyped, HandKnown, Planned, Working,
         Placing, Job
<1>2. pc # "idle" /\ rows[t].status # "absent" /\ Fits(w, t, G)
  BY <1>1 DEF LimitInv, PlanFits, Planned
<1>3. Fits(w, t, G)'
  BY <1>2, StillFits
<1>4. rows'[t].status # "absent"
  BY <1>2, RowStep, RowsRemain DEF LimitInv, ExclusionInv, HandInv
<1> QED
  BY <1>1, <1>3, <1>4 DEF PlanFits

(* Nothing changes between the plan and the end of the step that makes it. *)
LEMMA SameFits ==
  ASSUME UNCHANGED rows, NEW w, NEW t, NEW G, Fits(w, t, G)
  PROVE  Fits(w, t, G)'
BY DEF Fits, Slots, RunningOn, Running, BackgroundOn, Opt

LEMMA NewPlanFits ==
  ASSUME LimitInv, NEW t \in Task, rows[t].status # "absent",
         job' \in PlansFor(t), UNCHANGED rows
  PROVE  PlanFits'
<1>1. job'.task = t
  BY HeldPlanPlaces DEF LimitInv, ExclusionInv
<1>2. scan.up \in SUBSET Worker /\ scan.ready \in [Worker -> SUBSET Gpu] /\ StoreInv
  BY DEF LimitInv, ExclusionInv, HandInv, HandTyped, Scan
<1>3. PICK p \in PlansFor(t) : p = job'
  OBVIOUS
<1>4. Fits(p.worker, t, p.gpus)
  BY <1>2, PlanFitsWhenMade DEF PlansFor
<1>5. PICK w, G : w = p.worker /\ G = p.gpus
  OBVIOUS
<1>6. Fits(w, t, G)'
  BY <1>4, <1>5, SameFits
<1> QED
  BY <1>1, <1>3, <1>5, <1>6 DEF PlanFits

LEMMA ResizePlanFits ==
  ASSUME LimitInv, NEW t \in Task, ResizeTask(t)
  PROVE  PlanFits'
<1>1. SUFFICES ASSUME Planned'
               PROVE  PlanFits'
  BY DEF PlanFits
<1>2. pc = "resize" /\ t \in scan.todo /\ rows' = rows
  BY DEF ResizeTask
<1>3. PICK G \in ResizeChoices(t) :
        job' = [task |-> t, worker |-> scan.snap[t].worker, gpus |-> G]
  BY <1>1, <1>2 DEF ResizeTask, Planned, Goto
<1>4. rows[t].status = "running"
  BY <1>1, <1>2, <1>3 DEF Planned, ResizeTask, Goto
<1>5. SamePlace(rows[t], scan.snap[t])
  BY <1>2, <1>4 DEF LimitInv, ExclusionInv, ListIsFresh, Resizing
<1>6. /\ scan.up \in SUBSET Worker /\ scan.ready \in [Worker -> SUBSET Gpu]
      /\ scan.snap[t] \in Row /\ StoreInv
  BY DEF LimitInv, ExclusionInv, HandInv, HandTyped, Scan
<1>7. PICK w : w = scan.snap[t].worker
  OBVIOUS
<1>8. Fits(w, t, G)
  BY <1>3, <1>4, <1>5, <1>6, <1>7, ResizeFitsWhenMade DEF ResizeChoices, LimitInv
<1>9. Fits(w, t, G)'
  BY <1>2, <1>8, SameFits
<1> QED
  BY <1>2, <1>3, <1>4, <1>7, <1>9 DEF PlanFits

LEMMA FitsStep ==
  ASSUME LimitInv, [SchedulerNext]_vars
  PROVE  PlanFits'
<1>1. CASE NoPlan
  BY <1>1 DEF NoPlan, PlanFits
<1>2. CASE PlanKept
  BY <1>2, HeldPlanStillFits DEF PlanKept
<1>3. CASE PlanMade
  BY <1>3, NewPlanFits DEF PlanMade
<1>4. CASE \E t \in Task : ResizeTask(t)
  BY <1>4, ResizePlanFits
<1> QED
  BY <1>1, <1>2, <1>3, <1>4, PlanComesFrom DEF PlanOrigin, LimitInv

LEMMA LimitStep ==
  ASSUME LimitInv, [SchedulerNext]_vars
  PROVE  LimitInv'
<1>1. ExclusionInv' /\ LockHeld'
  BY ExclusionStep, LockHeldStep DEF LimitInv, ExclusionInv
<1> QED
  BY <1>1, CapStep, BackgroundCapStep, FitsStep DEF LimitInv

(***************************************************************************)
(* The running tasks of a worker never hold more GPU slots than its        *)
(* max_concurrent_tasks, although the count is taken when the plan is made *)
(* and victims are evicted, tasks resized and launches retried before the  *)
(* row says running.                                                       *)
(***************************************************************************)
THEOREM SchedulerRespectsCaps == SchedulerSpec => []CapRespected
<1>1. LimitInv => CapRespected
  BY DEF LimitInv
<1> QED
  BY <1>1, LimitInit, LimitStep, PTL DEF SchedulerSpec

(***************************************************************************)
(* No more background tasks run on a worker than max_background_tasks,     *)
(* although the restart of a resized task does not look at the limit.      *)
(***************************************************************************)
THEOREM SchedulerRespectsBackgroundCaps == SchedulerSpec => []BackgroundCapRespected
<1>1. LimitInv => BackgroundCapRespected
  BY DEF LimitInv
<1> QED
  BY <1>1, LimitInit, LimitStep, PTL DEF SchedulerSpec
=============================================================================
