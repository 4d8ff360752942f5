--------------------------- MODULE SchedulerProofs ---------------------------
(***************************************************************************)
(* Proofs about the task table under any caller (StoreSpec), and that the  *)
(* scheduler and its clients are such callers, for any tasks, workers,     *)
(* GPUs, submissions, clients, limits and faults.                          *)
(***************************************************************************)
EXTENDS SchedulerProperties, FiniteSetTheorems, TLAPS

-----------------------------------------------------------------------------
(* The task table.  What the invariants say of the table they say of each   *)
(* of its rows, so the argument is about one row: RowOK is kept by every    *)
(* statement, and every step of the table applies one statement.            *)

RowOK(r) ==
  /\ r \in Row
  /\ r.status \in {"absent", "paused", "queued"} => NotPlaced(r)
  /\ r.status = "running" => Placed(r)
  /\ r.finished <=> r.status \in Final
  /\ r.exit = 0 <=> r.status = "succeeded"
  /\ r.exit # None => r.status \in {"succeeded", "failed"}
  /\ r.status # "absent" => r.options \in Option
  /\ (r.status # "absent" /\ r.options.background) => r.options.preemptible

TableOK == \A t \in Task : RowOK(rows[t])

StoreInv == rows \in [Task -> Row] /\ TableOK

-----------------------------------------------------------------------------
(* None is neither a worker nor an exit code. *)
LEMMA NoneIsApart == None \notin Worker /\ None # 0 /\ None # 1
BY NoneAssumption DEF ExitCode

LEMMA AbsentRowOK == RowOK(AbsentRow)
BY NoneIsApart
DEF RowOK, Row, AbsentRow, Status, Final, Unplaced, Placed, NotPlaced

LEMMA NormalizedIsOption ==
  ASSUME NEW o \in Option
  PROVE  /\ Normalized(o) \in Option
         /\ Normalized(o).background => Normalized(o).preemptible
BY DEF Normalized, Option

LEMMA CreateTaskOK ==
  ASSUME NEW r, RowOK(r), NEW o \in Option, NEW paused \in BOOLEAN
  PROVE  RowOK(CreateTask(r, o, paused))
BY NoneIsApart, NormalizedIsOption
DEF RowOK, CreateTask, AbsentRow, Row, Status, Final, Unplaced, Placed, NotPlaced

LEMMA UpdateTaskOK ==
  ASSUME NEW r, RowOK(r), NEW o \in Option
  PROVE  RowOK(UpdateTask(r, o))
BY NormalizedIsOption
DEF RowOK, UpdateTask, Row, Status, Final, Unplaced, Placed, NotPlaced

LEMMA MarkRunningOK ==
  ASSUME NEW r, RowOK(r), NEW w \in Worker, NEW G \in SUBSET Gpu, G # {}
  PROVE  RowOK(MarkRunning(r, w, G))
BY DEF RowOK, MarkRunning, Row, Status, Final, Unplaced, Placed, NotPlaced

LEMMA FinishTaskOK ==
  ASSUME NEW r, RowOK(r), NEW code \in ExitCode
  PROVE  RowOK(FinishTask(r, code))
BY NoneIsApart
DEF RowOK, FinishTask, Row, Status, Final, Unplaced, Placed, NotPlaced, ExitCode

LEMMA FailTaskOK ==
  ASSUME NEW r, RowOK(r)
  PROVE  RowOK(FailTask(r))
BY NoneIsApart DEF RowOK, FailTask, Row, Status, Final, Unplaced, Placed, NotPlaced

LEMMA RequeueTaskOK ==
  ASSUME NEW r, RowOK(r)
  PROVE  RowOK(RequeueTask(r))
BY NoneIsApart DEF RowOK, RequeueTask, Row, Status, Final, Unplaced, Placed, NotPlaced

LEMMA PreemptTaskOK ==
  ASSUME NEW r, RowOK(r)
  PROVE  RowOK(PreemptTask(r))
BY NoneIsApart DEF RowOK, PreemptTask, Row, Status, Final, Unplaced, Placed, NotPlaced

LEMMA StartTaskOK ==
  ASSUME NEW r, RowOK(r)
  PROVE  RowOK(StartTask(r))
BY NoneIsApart DEF RowOK, StartTask, Row, Status, Final, Unplaced, Placed, NotPlaced

LEMMA PauseTaskOK ==
  ASSUME NEW r, RowOK(r), NEW require_preemptible \in BOOLEAN
  PROVE  RowOK(PauseTask(r, require_preemptible))
BY NoneIsApart DEF RowOK, PauseTask, Row, Status, Final, Unplaced, Placed, NotPlaced

LEMMA RerunTaskOK ==
  ASSUME NEW r, RowOK(r)
  PROVE  RowOK(RerunTask(r))
BY NoneIsApart DEF RowOK, RerunTask, Row, Status, Final, Unplaced, Placed, NotPlaced

LEMMA CancelTaskOK ==
  ASSUME NEW r, RowOK(r)
  PROVE  RowOK(CancelTask(r))
BY NoneIsApart DEF RowOK, CancelTask, Row, Status, Final, Unplaced, Placed, NotPlaced
-----------------------------------------------------------------------------
(* A step of the table replaces one row by what some statement makes of it. *)
LEMMA OneRowChanges ==
  ASSUME StoreInv, NEW t \in Task, NEW r, RowOK(r),
         rows' = [rows EXCEPT ![t] = r]
  PROVE  StoreInv'
BY DEF StoreInv, TableOK, RowOK

LEMMA StoreInvInit == StoreInit => StoreInv
BY AbsentRowOK DEF StoreInit, StoreInv, TableOK, RowOK

LEMMA StoreInvStep == StoreInv /\ [StoreNext]_rows => StoreInv'
<1>1. SUFFICES ASSUME StoreInv, StoreNext PROVE StoreInv'
  BY DEF StoreInv, TableOK
<1>2. PICK t \in Task :
        \/ Create(t) \/ Update(t) \/ Mark(t) \/ Finish(t) \/ Fail(t)
        \/ Requeue(t) \/ Preempt(t) \/ Start(t) \/ Pause(t) \/ Rerun(t)
        \/ Cancel(t)
  BY <1>1 DEF StoreNext
<1>3. RowOK(rows[t]) /\ Submissions[t] \subseteq Option
  BY <1>1, SubmissionsAssumption DEF StoreInv, TableOK
<1>4. CASE Create(t)
  BY <1>1, <1>3, <1>4, CreateTaskOK, OneRowChanges DEF Create
<1>5. CASE Update(t)
  BY <1>1, <1>3, <1>5, UpdateTaskOK, OneRowChanges DEF Update
<1>6. CASE Mark(t)
  <2>1. PICK w \in Worker, G \in SUBSET Gpu :
          G # {} /\ rows' = [rows EXCEPT ![t] = MarkRunning(@, w, G)]
    BY <1>6 DEF Mark
  <2>2. RowOK(MarkRunning(rows[t], w, G))
    BY <1>3, <2>1, MarkRunningOK
  <2> QED
    BY <1>1, <2>1, <2>2, OneRowChanges
<1>7. CASE Finish(t)
  BY <1>1, <1>3, <1>7, FinishTaskOK, OneRowChanges DEF Finish
<1>8. CASE Fail(t)
  BY <1>1, <1>3, <1>8, FailTaskOK, OneRowChanges DEF Fail
<1>9. CASE Requeue(t)
  BY <1>1, <1>3, <1>9, RequeueTaskOK, OneRowChanges DEF Requeue
<1>10. CASE Preempt(t)
  BY <1>1, <1>3, <1>10, PreemptTaskOK, OneRowChanges DEF Preempt
<1>11. CASE Start(t)
  BY <1>1, <1>3, <1>11, StartTaskOK, OneRowChanges DEF Start
<1>12. CASE Pause(t)
  BY <1>1, <1>3, <1>12, PauseTaskOK, OneRowChanges DEF Pause
<1>13. CASE Rerun(t)
  BY <1>1, <1>3, <1>13, RerunTaskOK, OneRowChanges DEF Rerun
<1>14. CASE Cancel(t)
  BY <1>1, <1>3, <1>14, CancelTaskOK, OneRowChanges DEF Cancel
<1> QED
  BY <1>2, <1>4, <1>5, <1>6, <1>7, <1>8, <1>9, <1>10, <1>11, <1>12, <1>13,
     <1>14

LEMMA StoreInvGivesConsistency == StoreInv => RowsTyped /\ RowsConsistent
BY DEF StoreInv, TableOK, RowOK, RowsTyped, RowsConsistent,
       PlacementMatchesStatus, ResultMatchesStatus, BackgroundIsPreemptible

-----------------------------------------------------------------------------
(***************************************************************************)
(* Every row of the table is a row of the schema, and its placement, its   *)
(* result and its background flag agree with its status, whatever          *)
(* statements were executed in whatever order.                             *)
(***************************************************************************)
THEOREM StoreKeepsRowsConsistent ==
  StoreSpec => [](RowsTyped /\ RowsConsistent)
BY StoreInvInit, StoreInvStep, StoreInvGivesConsistency, PTL DEF StoreSpec

(***************************************************************************)
(* A task that waits has no placement left over from an earlier attempt,   *)
(* and one that runs has a worker, GPUs, a session and a start time.       *)
(***************************************************************************)
THEOREM StoreKeepsPlacements == StoreSpec => []PlacementMatchesStatus
<1>1. StoreInv => PlacementMatchesStatus
  BY StoreInvGivesConsistency DEF RowsConsistent
<1> QED
  BY <1>1, StoreInvInit, StoreInvStep, PTL DEF StoreSpec

(***************************************************************************)
(* finished_at is set in exactly the final states, exit code 0 in exactly  *)
(* "succeeded", and no task that may still run carries an old exit code.   *)
(***************************************************************************)
THEOREM StoreKeepsResults == StoreSpec => []ResultMatchesStatus
<1>1. StoreInv => ResultMatchesStatus
  BY StoreInvGivesConsistency DEF RowsConsistent
<1> QED
  BY <1>1, StoreInvInit, StoreInvStep, PTL DEF StoreSpec

(***************************************************************************)
(* A background task is preemptible, whatever was submitted or edited.     *)
(***************************************************************************)
THEOREM StoreKeepsBackgroundPreemptible ==
  StoreSpec => []BackgroundIsPreemptible
<1>1. StoreInv => BackgroundIsPreemptible
  BY StoreInvGivesConsistency DEF RowsConsistent
<1> QED
  BY <1>1, StoreInvInit, StoreInvStep, PTL DEF StoreSpec

(* One statement leaves a final row as it is, or queues a failed one again. *)
LEMMA FinalRowStep ==
  ASSUME StoreInv, StoreNext, NEW t \in Task
  PROVE  /\ rows[t].status \in {"succeeded", "canceled"} => rows'[t] = rows[t]
         /\ rows[t].status = "failed"
              => rows'[t] = rows[t] \/ rows'[t].status = "queued"
<1>1. PICK u \in Task :
        \/ Create(u) \/ Update(u) \/ Mark(u) \/ Finish(u) \/ Fail(u)
        \/ Requeue(u) \/ Preempt(u) \/ Start(u) \/ Pause(u) \/ Rerun(u)
        \/ Cancel(u)
  BY DEF StoreNext
<1>2. rows \in [Task -> Row]
  BY DEF StoreInv
<1>3. CASE u # t
  BY <1>1, <1>2, <1>3
  DEF Create, Update, Mark, Finish, Fail, Requeue, Preempt, Start, Pause,
      Rerun, Cancel
<1>4. CASE u = t /\ rows[t].status \in {"succeeded", "canceled"}
  BY <1>1, <1>2, <1>4
  DEF Create, Update, Mark, Finish, Fail, Requeue, Preempt, Start, Pause,
      Rerun, Cancel, CreateTask, UpdateTask, MarkRunning, FinishTask,
      FailTask, RequeueTask, PreemptTask, StartTask, PauseTask, RerunTask,
      CancelTask
<1>5. CASE u = t /\ rows[t].status = "failed" /\ ~Rerun(u)
  BY <1>1, <1>2, <1>5
  DEF Create, Update, Mark, Finish, Fail, Requeue, Preempt, Start, Pause,
      Cancel, CreateTask, UpdateTask, MarkRunning, FinishTask,
      FailTask, RequeueTask, PreemptTask, StartTask, PauseTask, CancelTask
<1>6. CASE u = t /\ rows[t].status = "failed" /\ Rerun(u)
  BY <1>2, <1>6 DEF Rerun, RerunTask, Unplaced, Row
<1> QED
  BY <1>3, <1>4, <1>5, <1>6

(***************************************************************************)
(* A succeeded or canceled task is never changed again, and a failed one   *)
(* is only ever queued again by a rerun.                                   *)
(***************************************************************************)
THEOREM StoreKeepsFinalRows == StoreSpec => FinalRowsStay
<1>1. StoreInv /\ [StoreNext]_rows
        => [\A t \in Task :
              /\ rows[t].status \in {"succeeded", "canceled"}
                   => rows'[t] = rows[t]
              /\ rows[t].status = "failed"
                   => rows'[t] = rows[t] \/ rows'[t].status = "queued"]_rows
  BY FinalRowStep
<1> QED
  BY <1>1, StoreInvInit, StoreInvStep, PTL DEF StoreSpec, FinalRowsStay

-----------------------------------------------------------------------------
(* The statements that are not create_task or update_task keep the options. *)
LEMMA StatementsKeepOptions ==
  ASSUME NEW r \in Row, NEW flag, NEW w, NEW G, NEW code,
         NEW q \in {MarkRunning(r, w, G), FinishTask(r, code), FailTask(r),
                    RequeueTask(r), PreemptTask(r), StartTask(r),
                    PauseTask(r, flag), RerunTask(r), CancelTask(r)}
  PROVE  q.options = r.options
<1>1. CASE q \in {MarkRunning(r, w, G), FinishTask(r, code), FailTask(r)}
  BY <1>1 DEF MarkRunning, FinishTask, FailTask, Row
<1>2. CASE q \in {RequeueTask(r), PreemptTask(r), RerunTask(r)}
  BY <1>2 DEF RequeueTask, PreemptTask, RerunTask, Unplaced, Row
<1>3. CASE q \in {StartTask(r), CancelTask(r)}
  BY <1>3 DEF StartTask, CancelTask, Row
<1>4. CASE q = PauseTask(r, flag)
  BY <1>4 DEF PauseTask, Unplaced, Row
<1> QED
  BY <1>1, <1>2, <1>3, <1>4

(* Only an update_task that matches changes the options of a task. *)
LEMMA OptionsStay ==
  ASSUME StoreInv, StoreNext, NEW t \in Task,
         rows[t].status # "absent",
         rows[t].status \in {"paused", "queued"} => ~Update(t)
  PROVE  rows'[t].options = rows[t].options
<1>1. PICK u \in Task :
        \/ Create(u) \/ Update(u) \/ Mark(u) \/ Finish(u) \/ Fail(u)
        \/ Requeue(u) \/ Preempt(u) \/ Start(u) \/ Pause(u) \/ Rerun(u)
        \/ Cancel(u)
  BY DEF StoreNext
<1>2. rows \in [Task -> Row] /\ rows[t] \in Row
  BY DEF StoreInv
<1>3. CASE u # t
  BY <1>1, <1>2, <1>3
  DEF Create, Update, Mark, Finish, Fail, Requeue, Preempt, Start, Pause,
      Rerun, Cancel
<1>4. CASE u = t /\ (Create(u) \/ Update(u))
  BY <1>2, <1>4 DEF Create, CreateTask, Update, UpdateTask
<1>5. CASE u = t /\ ~(Create(u) \/ Update(u))
  <2>1. \E flag, w, G, code :
          rows'[t] \in {MarkRunning(rows[t], w, G), FinishTask(rows[t], code),
                        FailTask(rows[t]), RequeueTask(rows[t]),
                        PreemptTask(rows[t]), StartTask(rows[t]),
                        PauseTask(rows[t], flag), RerunTask(rows[t]),
                        CancelTask(rows[t])}
    BY <1>1, <1>2, <1>5
    DEF Mark, Finish, Fail, Requeue, Preempt, Start, Pause, Rerun, Cancel
  <2> QED
    BY <1>2, <2>1, StatementsKeepOptions
<1> QED
  BY <1>3, <1>4, <1>5

(***************************************************************************)
(* The options a task was dispatched with stay as they are while it runs   *)
(* and after it has ended.                                                 *)
(***************************************************************************)
THEOREM StoreFreezesOptions == StoreSpec => OptionsFrozenOnceDispatched
<1>1. StoreInv /\ [StoreNext]_rows
        => [\A t \in Task :
              rows[t].status \in {"running"} \cup Final
                => rows'[t].options = rows[t].options]_rows
  BY OptionsStay DEF Final
<1> QED
  BY <1>1, StoreInvInit, StoreInvStep, PTL
  DEF StoreSpec, OptionsFrozenOnceDispatched

-----------------------------------------------------------------------------
(* The locals of the scheduler and of the clients *)

(* The holder has a task in hand. *)
Working ==
  {"stop", "session", "lost", "finish", "yield", "kill", "evict", "reprobe",
   "replan", "start", "mark", "abort", "resizeKill", "resizeEvict"}

(* The holder is making room for the task in hand. *)
Yielding == {"yield", "kill", "evict", "reprobe", "replan"}

(* The holder has a plan in hand that it may still carry out. *)
Placing ==
  \/ pc \in {"start", "mark", "abort"}
  \/ pc \in {"kill", "evict"} /\ scan.mode = "numa"

HandTyped ==
  /\ pc \in Stage
  /\ job \in Job
  /\ scan \in Scan
  /\ call \in [Client -> Call]
  /\ exitFile \in [Worker -> [Task -> ExitCode \cup {None}]]

(* What the locals of the holder are at each of its steps *)
HandKnown ==
  /\ pc \in Working => job.task \in Task
  /\ pc \in Yielding => rows[job.task].status # "absent"
  /\ pc \in Yielding => scan.after = "pick"
  /\ pc = "yield" => scan.mode # "numa"
  /\ pc \in {"kill", "evict"} => scan.host \in Worker
  /\ Placing \/ pc \in {"session", "lost", "finish", "resizeKill", "resizeEvict"}
       => job.worker \in Worker
  /\ Placing => job.gpus # {}
  /\ pc = "finish" => scan.code \in ExitCode
  /\ pc = "evict" => scan.victim \in Task
  /\ pc = "background" => scan.after = "background"
  /\ pc \in {"resizeKill", "resizeEvict"} => scan.after = "resize"
  /\ pc \in {"refresh", "session", "lost", "finish"}
       => \A t \in scan.todo : scan.snap[t].worker \in Worker
  /\ pc \in {"background", "start", "mark", "abort"} /\ scan.after = "background"
       => \A t \in scan.todo : rows[t].status # "absent"

(* A client call that will still touch the table has a task. *)
CallsKnown ==
  \A c \in Client :
    call[c].step \in {"kill", "update", "dispatch"}
      => call[c].task \in Task /\ call[c].op # "none"

HandInv == StoreInv /\ HandTyped /\ HandKnown /\ CallsKnown

-----------------------------------------------------------------------------
(* The empty set has no element. *)
LEMMA EmptyHasNone == Cardinality({}) = 0
BY FS_EmptySet

(* A selection is a set of the wanted size among the GPUs offered. *)
LEMMA SelectionsSelect ==
  ASSUME NEW S, NEW n, NEW G \in Selections(S, n)
  PROVE  G \subseteq S /\ Cardinality(G) = n
BY DEF Selections, kSubset

(* A task that exists has options. *)
LEMMA OptionsKnown ==
  ASSUME StoreInv, NEW t \in Task, rows[t].status # "absent"
  PROVE  Opt(t) \in Option
BY DEF StoreInv, TableOK, RowOK, Opt

(***************************************************************************)
(* A plan places its task on a worker, on some GPUs none of which another  *)
(* running task holds.                                                     *)
(***************************************************************************)
LEMMA PlanPlaces ==
  ASSUME StoreInv, NEW t \in Task, rows[t].status # "absent",
         NEW up \in SUBSET Worker, NEW ready \in [Worker -> SUBSET Gpu],
         NEW p \in Plans(t, up, ready)
  PROVE  /\ p \in Job /\ p.task = t /\ p.worker \in Worker /\ p.gpus # {}
         /\ p.gpus \cap OccupiedByOthers(p.worker, t) = {}
<1>1. PICK w \in Worker : p \in CandidatesOn(t, w, up, ready)
  BY DEF Plans
<1> DEFINE free == Available(w, t, up, ready)
           count == PlanCount(t, w, free)
<1>2. /\ count >= (IF Opt(t).elastic THEN 1 ELSE Opt(t).gpus)
      /\ p \in {[task |-> t, worker |-> w, gpus |-> G] :
                  G \in Selections(free, count)}
  BY <1>1 DEF CandidatesOn
<1> HIDE DEF count
<1>3. PICK G \in Selections(free, count) :
        p = [task |-> t, worker |-> w, gpus |-> G]
  BY <1>2
<1>4. G \subseteq free /\ Cardinality(G) = count
  BY SelectionsSelect
<1>5. free \subseteq Gpu \ OccupiedByOthers(w, t)
  BY DEF Available
<1>6. G # {}
  <2>1. SUFFICES ASSUME G = {} PROVE FALSE
    OBVIOUS
  <2>2. count = 0
    BY <1>4, <2>1, EmptyHasNone
  <2>3. Opt(t).gpus \in Nat \ {0} /\ Opt(t).elastic \in BOOLEAN
    BY OptionsKnown DEF Option
  <2> QED
    BY <1>2, <2>2, <2>3
<1> QED
  BY <1>3, <1>4, <1>5, <1>6 DEF Job
(* Victims are tasks, whichever way they are chosen. *)
LEMMA VictimsAreTasks ==
  ASSUME NEW t \in Task, NEW w \in Worker, NEW up, NEW ready,
         NEW eligible \in SUBSET Task, NEW V \in VictimLists(t, w, eligible, up, ready)
  PROVE  V \in SUBSET Task
<1>1. V \in SUBSET eligible
  BY DEF VictimLists
<1> QED
  BY <1>1

LEMMA NumaVictimsAreTasks ==
  ASSUME NEW t \in Task, NEW up, NEW ready, NEW c \in NumaChoices(t, up, ready)
  PROVE  c.host \in Worker /\ c.victims \in SUBSET Task
<1>1. PICK w \in Worker, n \in {Node[g] : g \in Gpu} \ {None} :
        \E V \in NumaSets(t, w, n, up, ready) : c = [host |-> w, victims |-> V]
  BY DEF NumaChoices
<1>2. PICK V \in NumaSets(t, w, n, up, ready) : c = [host |-> w, victims |-> V]
  BY <1>1
<1>3. V \in SUBSET NumaVictims(t, w)
  BY <1>2 DEF NumaSets
<1>4. NumaVictims(t, w) \subseteq Task
  BY DEF NumaVictims, BackgroundVictims, RegularVictims, RunningOn, Running
<1> QED
  BY <1>2, <1>3, <1>4

(***************************************************************************)
(* A resized task stays on a worker that answered, on GPUs it had when it  *)
(* was listed or that no other running task holds.                         *)
(***************************************************************************)
LEMMA ResizeStays ==
  ASSUME NEW t \in Task, NEW r \in Row, NEW up \in SUBSET Worker,
         NEW ready \in [Worker -> SUBSET Gpu],
         NEW G \in ResizeTargets(t, r, up, ready)
  PROVE  /\ r.worker \in Worker
         /\ G \in SUBSET Gpu
         /\ G \cap OccupiedByOthers(r.worker, t) \subseteq r.gpus
<1>1. r.worker \in up
  BY DEF ResizeTargets
<1>2. Available(r.worker, t, up, ready) \subseteq
        Gpu \ OccupiedByOthers(r.worker, t)
  BY <1>1 DEF Available
<1>3. G \subseteq r.gpus \cup Available(r.worker, t, up, ready)
  BY <1>1, SelectionsSelect DEF ResizeTargets
<1>4. r.gpus \subseteq Gpu
  BY DEF Row
<1> QED
  BY <1>1, <1>2, <1>3, <1>4

-----------------------------------------------------------------------------
LEMMA AbsentRowTyped == AbsentRow \in Row
BY AbsentRowOK DEF RowOK

LEMMA ListedTyped ==
  ASSUME StoreInv, NEW S
  PROVE  Listed(S) \in [Task -> Row]
BY AbsentRowTyped DEF Listed, StoreInv

LEMMA NoScanTyped == NoScan \in Scan
BY AbsentRowTyped DEF NoScan, Scan

LEMMA HandInit == SchedulerInit => HandInv
<1> SUFFICES ASSUME SchedulerInit PROVE HandInv
  OBVIOUS
<1>1. StoreInv
  BY StoreInvInit DEF SchedulerInit
<1>2. HandTyped
  BY NoScanTyped DEF SchedulerInit, HostInit, HandTyped, Stage, Job, NoJob,
                     Call, NoCall
<1>3. HandKnown /\ CallsKnown
  BY DEF SchedulerInit, HandKnown, CallsKnown, Working, Yielding, Placing, NoCall
<1> QED
  BY <1>1, <1>2, <1>3 DEF HandInv
-----------------------------------------------------------------------------
(* Rows change as the table allows *)

(* The statements that move a task on, without a placement for it *)
Moves(t) ==
  \/ Finish(t) \/ Fail(t) \/ Requeue(t) \/ Preempt(t) \/ Start(t) \/ Pause(t)
  \/ Rerun(t) \/ Cancel(t)

(* The statements that give no task a placement: all but mark_running *)
PlacesNothing(t) == Create(t) \/ Update(t) \/ Moves(t)

LEMMA CallRowStep ==
  ASSUME HandInv, NEW c \in Client, CallUpdates(c)
  PROVE  \E t \in Task : Moves(t)
<1>1. call[c].task \in Task /\ call[c].op \in {"start", "rerun", "pause", "cancel"}
  BY DEF HandInv, CallsKnown, HandTyped, Call, CallUpdates
<1> DEFINE t == call[c].task
<1>2. rows' = [rows EXCEPT ![t] = CallResult(call[c].op, rows[t])]
  BY DEF CallUpdates, SetRow
<1>3. CASE call[c].op = "start"
  BY <1>1, <1>2, <1>3 DEF Start, CallResult, Moves
<1>4. CASE call[c].op = "rerun"
  BY <1>1, <1>2, <1>4 DEF Rerun, CallResult, Moves
<1>5. CASE call[c].op = "pause"
  <2>1. Pause(t)
    BY <1>2, <1>5 DEF Pause, CallResult
  <2> QED
    BY <1>1, <2>1 DEF Moves
<1>6. CASE call[c].op = "cancel"
  BY <1>1, <1>2, <1>6 DEF Cancel, CallResult, Moves
<1> QED
  BY <1>1, <1>3, <1>4, <1>5, <1>6

(* The holder records a launch on the worker and the GPUs it planned. *)
LEMMA MarkStartedMarks ==
  ASSUME HandInv, MarkStarted
  PROVE  /\ job.task \in Task /\ job.worker \in Worker
         /\ job.gpus \in SUBSET Gpu /\ job.gpus # {}
         /\ rows' = [rows EXCEPT ![job.task] =
                                   MarkRunning(@, job.worker, job.gpus)]
BY DEF HandInv, HandTyped, HandKnown, Placing, Working, Job, MarkStarted, SetRow

LEMMA HolderRowStep ==
  ASSUME HandInv, HolderStep, ~MarkStarted
  PROVE  UNCHANGED rows \/ \E t \in Task : Moves(t)
<1>1. CASE \E t \in Task : ScheduledStart(t)
  BY <1>1 DEF ScheduledStart, SetRow, Moves, Start
<1>2. CASE ScheduledStopPauses
  <2>1. job.task \in Task
    BY <1>2 DEF HandInv, HandKnown, Working, ScheduledStopPauses
  <2>2. Pause(job.task)
    BY <1>2 DEF ScheduledStopPauses, SetRow, Pause
  <2> QED
    BY <2>1, <2>2 DEF Moves
<1>3. CASE RequeueOrFailLost
  <2>1. job.task \in Task
    BY <1>3 DEF HandInv, HandKnown, Working, RequeueOrFailLost
  <2>2. Requeue(job.task) \/ Fail(job.task)
    BY <1>3 DEF RequeueOrFailLost, SetRow, Requeue, Fail
  <2> QED
    BY <2>1, <2>2 DEF Moves
<1>4. CASE FinishExited
  <2>1. job.task \in Task /\ scan.code \in ExitCode
    BY <1>4 DEF HandInv, HandKnown, Working, FinishExited
  <2>2. Finish(job.task)
    BY <1>4, <2>1 DEF FinishExited, SetRow, Finish
  <2> QED
    BY <2>1, <2>2 DEF Moves
<1>5. CASE EvictVictim
  <2>1. scan.victim \in Task
    BY <1>5 DEF HandInv, HandKnown, EvictVictim
  <2>2. Preempt(scan.victim)
    BY <1>5 DEF EvictVictim, SetRow, Preempt
  <2> QED
    BY <2>1, <2>2 DEF Moves
<1>6. CASE ResizeEvict
  <2>1. job.task \in Task
    BY <1>6 DEF HandInv, HandKnown, Working, ResizeEvict
  <2>2. Preempt(job.task)
    BY <1>6 DEF ResizeEvict, SetRow, Preempt
  <2> QED
    BY <2>1, <2>2 DEF Moves
<1>7. CASE ~(\/ \E t \in Task : ScheduledStart(t)
             \/ ScheduledStopPauses \/ RequeueOrFailLost \/ FinishExited
             \/ EvictVictim \/ ResizeEvict)
  BY <1>7
  DEF HolderStep, TaskSteps, ScheduledStop, SkipUnreachable, ReadRaises,
      ReadExitCode, PickWithPlan, PickForNuma, PickWithoutPlan, KillVictim,
      ResizeTask, StartBackground, SkipBackground, RefreshBegins,
      SessionPresent, SessionCheckRaises, SessionMissing, TailLogsRaises,
      RefreshEnds, ProbeWorkers, PickEnds, ChooseVictims, NoVictims,
      VictimsDone, Reprobe, Replan, LaunchStarts, LaunchDoesNotStart,
      AbortLaunch, ResizeKill, ResizeEnds, BackgroundEnds
<1> QED
  BY <1>1, <1>2, <1>3, <1>4, <1>5, <1>6, <1>6, <1>7

(* Only the record of a launch gives a task a placement. *)
LEMMA OnlyMarkPlaces ==
  ASSUME HandInv, [SchedulerNext]_vars, ~MarkStarted
  PROVE  UNCHANGED rows \/ \E t \in Task : PlacesNothing(t)
<1>1. CASE HolderStep
  BY <1>1, HolderRowStep DEF PlacesNothing
<1>2. CASE \E t \in Task : SubmitTask(t) \/ EditTask(t)
  BY <1>2 DEF SubmitTask, EditTask, PlacesNothing
<1>3. CASE \E c \in Client : CallUpdates(c)
  BY <1>3, CallRowStep DEF PlacesNothing
<1>4. CASE \/ TickBegins \/ ReleaseLock \/ HostMoves \/ Crash
           \/ \E c \in Client, t \in Task : CallBegins(c, t)
           \/ \E c \in Client : CallKills(c) \/ CallDispatches(c)
  BY <1>4 DEF TickBegins, ReleaseLock, HostMoves, Crash, CallBegins, CallKills,
              CallDispatches
<1> QED
  BY <1>1, <1>2, <1>3, <1>4 DEF SchedulerNext, ClientStep, vars

(* Every step of the system is a statement of the table or leaves it alone. *)
LEMMA RowStep ==
  ASSUME HandInv, [SchedulerNext]_vars
  PROVE  [StoreNext]_rows
<1>1. CASE MarkStarted
  <2>1. Mark(job.task)
    BY <1>1, MarkStartedMarks DEF Mark
  <2> QED
    BY <1>1, <2>1, MarkStartedMarks DEF StoreNext
<1>2. CASE ~MarkStarted
  BY <1>2, OnlyMarkPlaces DEF PlacesNothing, Moves, StoreNext
<1> QED
  BY <1>1, <1>2
-----------------------------------------------------------------------------
(* The locals of the holder and of the clients *)

(* No statement deletes a row. *)
LEMMA StatementsKeepRow ==
  ASSUME NEW r \in Row, r.status # "absent", NEW o, NEW flag, NEW w, NEW G, NEW code
  PROVE  /\ CreateTask(r, o, flag).status # "absent"
         /\ UpdateTask(r, o).status # "absent"
         /\ MarkRunning(r, w, G).status # "absent"
         /\ FinishTask(r, code).status # "absent"
         /\ FailTask(r).status # "absent"
         /\ RequeueTask(r).status # "absent"
         /\ PreemptTask(r).status # "absent"
         /\ StartTask(r).status # "absent"
         /\ PauseTask(r, flag).status # "absent"
         /\ RerunTask(r).status # "absent"
         /\ CancelTask(r).status # "absent"
<1>1. CreateTask(r, o, flag).status # "absent"
  BY DEF CreateTask
<1>2. UpdateTask(r, o).status # "absent"
  BY DEF UpdateTask, Row
<1>3. MarkRunning(r, w, G).status # "absent"
  BY DEF MarkRunning, Row
<1>4. FinishTask(r, code).status # "absent"
  BY DEF FinishTask, Row
<1>5. FailTask(r).status # "absent" /\ CancelTask(r).status # "absent"
  BY DEF FailTask, CancelTask, Row
<1>6. RequeueTask(r).status # "absent" /\ PreemptTask(r).status # "absent"
  BY DEF RequeueTask, PreemptTask, Unplaced, Row
<1>7. StartTask(r).status # "absent"
  BY DEF StartTask, Row
<1>8. PauseTask(r, flag).status # "absent"
  BY DEF PauseTask, Unplaced, Row
<1>9. RerunTask(r).status # "absent"
  BY DEF RerunTask, Unplaced, Row
<1> QED
  BY <1>1, <1>2, <1>3, <1>4, <1>5, <1>6, <1>7, <1>8, <1>9

LEMMA RowsRemain ==
  ASSUME StoreInv, [StoreNext]_rows, NEW t \in Task, rows[t].status # "absent"
  PROVE  rows'[t].status # "absent"
<1>1. CASE UNCHANGED rows
  BY <1>1
<1>2. CASE StoreNext
  <2>1. PICK u \in Task :
          \/ Create(u) \/ Update(u) \/ Mark(u) \/ Finish(u) \/ Fail(u)
          \/ Requeue(u) \/ Preempt(u) \/ Start(u) \/ Pause(u) \/ Rerun(u)
          \/ Cancel(u)
    BY <1>2 DEF StoreNext
  <2>2. rows \in [Task -> Row] /\ rows[t] \in Row
    BY DEF StoreInv
  <2> QED
    BY <2>1, <2>2, StatementsKeepRow
    DEF Create, Update, Mark, Finish, Fail, Requeue, Preempt, Start, Pause,
        Rerun, Cancel
<1> QED
  BY <1>1, <1>2

(* An exit_code file holds an exit code. *)
LEMMA ExitFileTyped ==
  ASSUME HandInv, [SchedulerNext]_vars
  PROVE  exitFile' \in [Worker -> [Task -> ExitCode \cup {None}]]
<1> USE DEF HandInv, HandTyped
<1>1. CASE UNCHANGED exitFile
  BY <1>1
<1>2. CASE \E w \in Worker, t \in Task : CommandExits(w, t)
  BY <1>2 DEF CommandExits, SetExitFile
<1>3. CASE LaunchStarts \/ LaunchDoesNotStart
  BY <1>3 DEF LaunchStarts, LaunchDoesNotStart, LaunchSucceeds, LaunchRaises,
              LaunchRejected, LaunchFails, LaunchTimesOut, SetExitFile
<1>4. CASE ~(LaunchStarts \/ LaunchDoesNotStart \/ HostMoves) /\ SchedulerNext
  BY <1>1, <1>4
  DEF SchedulerNext, HolderStep, TaskSteps, ClientStep, hostVars, KillSucceeds,
      KillRaises, ProbeRaises, TickBegins, ScheduledStart, ScheduledStop,
      ScheduledStopPauses, RefreshBegins, SkipUnreachable, ReadRaises,
      ReadExitCode, SessionPresent, SessionCheckRaises, SessionMissing,
      RequeueOrFailLost, FinishExited, TailLogsRaises, RefreshEnds,
      ProbeWorkers, PickWithPlan, PickForNuma, PickWithoutPlan, PickEnds,
      ChooseVictims, NoVictims, KillVictim, EvictVictim, VictimsDone, Reprobe,
      Replan, MarkStarted, AbortLaunch, ResizeTask, ResizeKill, ResizeEvict,
      ResizeEnds, StartBackground, SkipBackground, BackgroundEnds, ReleaseLock,
      SubmitTask, EditTask, CallBegins, CallKills, CallUpdates, CallDispatches,
      Crash
<1>5. CASE HostMoves
  BY <1>1, <1>2, <1>5 DEF HostMoves, HostStep, SessionCloses, SessionLost
<1> QED
  BY <1>1, <1>3, <1>4, <1>5 DEF vars, hostVars

(* A client call has a task for as long as it may touch the table. *)
LEMMA CallStep ==
  ASSUME HandInv, [SchedulerNext]_vars
  PROVE  call' \in [Client -> Call] /\ CallsKnown'
<1> USE DEF HandInv, HandTyped, CallsKnown
<1>1. CASE UNCHANGED call
  BY <1>1
<1>2. CASE ReleaseLock \/ Crash
  <2>1. NoCall \in Call /\ NoCall.step = "none"
    BY DEF NoCall, Call
  <2>2. call' = [c \in Client |-> NoCall]
          \/ call' = [c \in Client |->
                        IF call[c].step = "holds" THEN NoCall ELSE call[c]]
    BY <1>2 DEF ReleaseLock, Crash
  <2> QED
    BY <2>1, <2>2
<1>3. CASE \E c \in Client, t \in Task : CallBegins(c, t)
  <2>1. PICK c \in Client, t \in Task : CallBegins(c, t)
    BY <1>3
  <2>2. rows[t].worker \in Worker \cup {None}
    BY DEF StoreInv, Row
  <2>3. PICK new \in Call : /\ new.task = t /\ new.op # "none"
                            /\ call' = [call EXCEPT ![c] = new]
    BY <2>1, <2>2 DEF CallBegins, SetCall, Call
  <2> QED
    BY <2>3
<1>4. CASE \E c \in Client : CallKills(c) \/ CallUpdates(c) \/ CallDispatches(c)
  <2>1. PICK c \in Client : CallKills(c) \/ CallUpdates(c) \/ CallDispatches(c)
    BY <1>4
  <2>2. call[c] \in Call /\ call[c].task \in Task /\ call[c].op # "none"
    BY <2>1 DEF CallKills, CallUpdates, CallDispatches
  <2>3. \/ call' = [call EXCEPT ![c] = NoCall]
        \/ \E step \in {"update", "dispatch", "holds"} :
             call' = [call EXCEPT ![c] = [call[c] EXCEPT !.step = step]]
    BY <2>1 DEF CallKills, CallUpdates, CallDispatches, SetCall
  <2>4. CASE call' = [call EXCEPT ![c] = NoCall]
    BY <2>4 DEF NoCall, Call
  <2>5. CASE \E step \in {"update", "dispatch", "holds"} :
               call' = [call EXCEPT ![c] = [call[c] EXCEPT !.step = step]]
    <3>1. PICK step \in {"update", "dispatch", "holds"} :
            call' = [call EXCEPT ![c] = [call[c] EXCEPT !.step = step]]
      BY <2>5
    <3> DEFINE new == [call[c] EXCEPT !.step = step]
    <3>2. new \in Call /\ new.task = call[c].task /\ new.op = call[c].op
      BY <2>2 DEF Call
    <3> QED
      BY <2>2, <3>1, <3>2
  <2> QED
    BY <2>3, <2>4, <2>5
<1> QED
  BY <1>1, <1>2, <1>3, <1>4
  DEF SchedulerNext, HolderStep, ClientStep, TickBegins, HostMoves, SubmitTask,
      EditTask, vars

(* Steps that are not the holder's leave its locals alone or reset them. *)
LEMMA OthersKeepHand ==
  ASSUME HandInv, [SchedulerNext]_vars, ~HolderStep
  PROVE  HandTyped' /\ HandKnown'
<1>1. CASE UNCHANGED <<pc, job, scan>>
  <2>1. \A t \in Task : rows[t].status # "absent" => rows'[t].status # "absent"
    BY RowStep, RowsRemain DEF HandInv
  <2>2. HandTyped'
    BY <1>1, ExitFileTyped, CallStep DEF HandInv, HandTyped
  <2>3. scan.todo \subseteq Task
    BY DEF HandInv, HandTyped, Scan
  <2>4. HandKnown'
    BY <1>1, <2>1, <2>3 DEF HandInv, HandKnown, Working, Yielding, Placing
  <2> QED
    BY <2>2, <2>4
<1>2. CASE TickBegins
  <2>1. PICK due \in SUBSET (Task \X {"start", "stop"}) :
          scan' = [NoScan EXCEPT !.due = due]
    BY <1>2 DEF TickBegins
  <2>2. scan' \in Scan /\ scan'.todo = {}
    BY <2>1, NoScanTyped DEF Scan, NoScan
  <2>3. pc' = "schedule" /\ job' = NoJob /\ call' = call
    BY <1>2 DEF TickBegins, Goto
  <2>4. HandTyped'
    BY <2>2, <2>3, ExitFileTyped DEF HandInv, HandTyped, Job, NoJob, Stage
  <2> QED
    BY <2>2, <2>3, <2>4 DEF HandKnown, Working, Yielding, Placing
<1>3. CASE ReleaseLock \/ Crash \/ \E c \in Client : CallDispatches(c)
  <2>1. scan' = NoScan /\ pc' \in {"idle", "probe"} /\ job' = NoJob
    BY <1>3 DEF ReleaseLock, Crash, CallDispatches, Goto
  <2>2. HandTyped'
    BY <2>1, CallStep, ExitFileTyped, NoScanTyped
    DEF HandTyped, Job, NoJob, Stage
  <2> QED
    BY <2>1, <2>2 DEF HandKnown, Working, Yielding, Placing, NoScan
<1> QED
  BY <1>1, <1>2, <1>3
  DEF SchedulerNext, ClientStep, HostMoves, SubmitTask, EditTask, CallBegins,
      CallKills, CallUpdates, holderVars, vars
(***************************************************************************)
(* The holder keeps track of what it has in hand.  The steps are grouped   *)
(* as the code is: schedules and refresh, picking and yielding, launching, *)
(* and resizing and background tasks.                                      *)
(***************************************************************************)
HandKept == pc' \in Stage /\ job' \in Job /\ scan' \in Scan /\ HandKnown'

LEMMA SchedulesKeepHand ==
  ASSUME HandInv, [SchedulerNext]_vars,
         \/ \E t \in Task : ScheduledStart(t) \/ ScheduledStop(t)
         \/ ScheduledStopPauses \/ RefreshBegins
  PROVE  HandKept
<1> USE DEF HandInv, HandTyped, HandKnown, HandKept, Working, Yielding, Placing, Goto
<1>1. CASE \E t \in Task : ScheduledStart(t)
  <2>1. PICK t \in Task : ScheduledStart(t)
    BY <1>1
  <2>2. scan' \in Scan
    BY <2>1 DEF ScheduledStart, Scan
  <2> QED
    BY <2>1, <2>2 DEF ScheduledStart
<1>2. CASE \E t \in Task : ScheduledStop(t)
  <2>1. PICK t \in Task : ScheduledStop(t)
    BY <1>2
  <2>2. rows[t].worker \in Worker \cup {None}
    BY DEF StoreInv, Row
  <2>3. scan' \in Scan
    BY <2>1 DEF ScheduledStop, Scan
  <2>4. \/ pc' = "schedule" /\ job' = job
        \/ pc' = "stop" /\ job' \in Job /\ job'.task = t
    BY <2>1, <2>2 DEF ScheduledStop, Hand, Job
  <2> QED
    BY <2>3, <2>4 DEF Stage
<1>3. CASE ScheduledStopPauses
  BY <1>3 DEF ScheduledStopPauses, Stage, Job, NoJob
<1>4. CASE RefreshBegins
  <2>1. Listed(Running) \in [Task -> Row] /\ Running \subseteq Task
    BY ListedTyped DEF Running
  <2>2. scan' \in Scan /\ scan'.todo = Running /\ scan'.snap = Listed(Running)
    BY <1>4, <2>1 DEF RefreshBegins, Scan
  <2>3. \A t \in Running : Listed(Running)[t].worker \in Worker
    BY DEF Listed, Running, StoreInv, TableOK, RowOK, Placed
  <2> QED
    BY <1>4, <2>2, <2>3 DEF RefreshBegins, Stage
<1> QED
  BY <1>1, <1>2, <1>3, <1>4

LEMMA RefreshKeepsHand ==
  ASSUME HandInv, [SchedulerNext]_vars,
         \/ \E t \in Task : SkipUnreachable(t) \/ ReadRaises(t) \/ ReadExitCode(t)
         \/ SessionPresent \/ SessionCheckRaises \/ SessionMissing
         \/ RequeueOrFailLost \/ FinishExited \/ TailLogsRaises \/ RefreshEnds
  PROVE  HandKept
<1> USE DEF HandInv, HandTyped, HandKnown, HandKept, Working, Yielding, Placing, Goto
<1>1. CASE \E t \in Task : SkipUnreachable(t) \/ ReadRaises(t)
  <2>1. PICK t \in Task : SkipUnreachable(t) \/ ReadRaises(t)
    BY <1>1
  <2>2. /\ scan' \in Scan /\ scan'.snap = scan.snap
        /\ scan'.todo \subseteq scan.todo
    <3>1. scan.snap[t].worker \in Worker
      BY <2>1 DEF SkipUnreachable, ReadRaises
    <3> HIDE DEF HandInv, HandTyped, HandKnown
    <3>2. scan \in Scan
      BY DEF HandInv, HandTyped
    <3>3. CASE SkipUnreachable(t)
      BY <3>2, <3>3 DEF SkipUnreachable, Drop, Scan
    <3>4. CASE ReadRaises(t)
      BY <3>1, <3>2, <3>4 DEF ReadRaises, Drop, Scan
    <3> QED
      BY <2>1, <3>3, <3>4
  <2>3. pc = "refresh" /\ pc' = pc /\ job' = job
    BY <2>1 DEF SkipUnreachable, ReadRaises
  <2> QED
    BY <2>2, <2>3
<1>3. CASE \E t \in Task : ReadExitCode(t)
  <2>1. PICK t \in Task : ReadExitCode(t)
    BY <1>3
  <2> DEFINE w == scan.snap[t].worker
             code == exitFile[w][t]
  <2>2. w \in Worker /\ code \in ExitCode \cup {None}
    BY <2>1 DEF ReadExitCode
  <2>3. /\ scan' = [scan EXCEPT !.todo = Drop(t), !.code = code]
        /\ pc' = IF code = None THEN "session" ELSE "finish"
        /\ job' = Hand(t, w) /\ pc = "refresh"
    BY <2>1 DEF ReadExitCode
  <2> HIDE DEF w, code
  <2>4. /\ scan' \in Scan /\ scan'.code = code /\ scan'.snap = scan.snap
        /\ scan'.todo \subseteq scan.todo
    BY <2>2, <2>3 DEF Scan, Drop
  <2> QED
    BY <2>2, <2>3, <2>4 DEF Hand, Job, Stage
<1>4. CASE SessionPresent \/ SessionMissing
  BY <1>4 DEF SessionPresent, SessionMissing, Stage, Job, NoJob
<1>5. CASE SessionCheckRaises
  <2>1. /\ scan' \in Scan /\ scan'.snap = scan.snap /\ scan'.todo = scan.todo
    BY <1>5 DEF SessionCheckRaises, Scan
  <2> QED
    BY <1>5, <2>1 DEF SessionCheckRaises, Stage, Job, NoJob
<1>6. CASE RequeueOrFailLost
  BY <1>6 DEF RequeueOrFailLost, Stage, Job, NoJob
<1>7. CASE FinishExited
  BY <1>7 DEF FinishExited, Scan, Stage, Job, NoJob
<1>8. CASE TailLogsRaises
  BY <1>8 DEF TailLogsRaises, Stage, Job, NoJob
<1>9. CASE RefreshEnds
  BY <1>9, NoScanTyped DEF RefreshEnds, NoScan, Stage
<1> QED
  BY <1>1, <1>3, <1>4, <1>5, <1>6, <1>7, <1>8, <1>9
(* What the holder plans with this tick's readings *)
LEMMA HeldPlanPlaces ==
  ASSUME HandInv, NEW t \in Task, rows[t].status # "absent", NEW p \in PlansFor(t)
  PROVE  /\ p \in Job /\ p.task = t /\ p.worker \in Worker /\ p.gpus # {}
         /\ p.gpus \cap OccupiedByOthers(p.worker, t) = {}
<1>1. scan.up \in SUBSET Worker /\ scan.ready \in [Worker -> SUBSET Gpu] /\ StoreInv
  BY DEF HandInv, HandTyped, Scan
<1> QED
  BY <1>1, PlanPlaces DEF PlansFor

LEMMA PickKeepsHand ==
  ASSUME HandInv, [SchedulerNext]_vars,
         \/ \E t \in Task : PickWithPlan(t) \/ PickForNuma(t) \/ PickWithoutPlan(t)
         \/ ProbeWorkers \/ PickEnds
  PROVE  HandKept
<1> USE DEF HandKept, Goto
<1>1. scan \in Scan /\ job \in Job /\ StoreInv
  BY DEF HandInv, HandTyped
<1>2. ResizeList \subseteq Task /\ Listed(ResizeList) \in [Task -> Row]
  BY <1>1, ListedTyped DEF ResizeList, Running
<1>3. \A t \in Task : NextRegular(t) => rows[t].status # "absent"
  BY DEF NextRegular, Queued
<1>4. CASE \E t \in Task : PickWithPlan(t)
  <2>1. PICK t \in Task : PickWithPlan(t)
    BY <1>4
  <2>2. job' \in PlansFor(t) /\ rows[t].status # "absent"
    BY <1>3, <2>1 DEF PickWithPlan
  <2>3. job' \in Job /\ job'.task = t /\ job'.worker \in Worker /\ job'.gpus # {}
    BY <2>2, HeldPlanPlaces
  <2>4. scan' \in Scan /\ scan'.after = "pick"
    BY <1>1, <2>1 DEF PickWithPlan, Scan
  <2> QED
    BY <2>1, <2>3, <2>4
    DEF PickWithPlan, Stage, HandKnown, Working, Yielding, Placing
<1>5. CASE \E t \in Task : PickForNuma(t)
  <2>1. PICK t \in Task : PickForNuma(t)
    BY <1>5
  <2>2. job' \in PlansFor(t) /\ rows[t].status # "absent" /\ rows' = rows
    BY <1>3, <2>1 DEF PickForNuma
  <2>3. job' \in Job /\ job'.task = t /\ job'.worker \in Worker /\ job'.gpus # {}
    BY <2>2, HeldPlanPlaces
  <2>4. PICK choice \in NumaChoicesFor(t) :
          scan' = [scan EXCEPT !.tried = @ \cup {t}, !.after = "pick",
                               !.mode = "numa", !.got = FALSE,
                               !.host = choice.host,
                               !.victims = choice.victims]
    BY <2>1 DEF PickForNuma
  <2>5. choice.host \in Worker /\ choice.victims \in SUBSET Task
    BY <2>4, NumaVictimsAreTasks DEF NumaChoicesFor
  <2>6. scan' \in Scan /\ scan'.after = "pick" /\ scan'.host \in Worker
    BY <1>1, <2>4, <2>5 DEF Scan
  <2> QED
    BY <2>1, <2>2, <2>3, <2>6
    DEF PickForNuma, Stage, HandKnown, Working, Yielding, Placing
<1>6. CASE \E t \in Task : PickWithoutPlan(t)
  <2>1. PICK t \in Task : PickWithoutPlan(t)
    BY <1>6
  <2>2. scan' \in Scan /\ scan'.after = "pick" /\ scan'.mode = "background"
    BY <1>1, <2>1 DEF PickWithoutPlan, Scan
  <2>3. job' = Hand(t, None) /\ pc' = "yield" /\ rows' = rows
    BY <2>1 DEF PickWithoutPlan
  <2>4. rows[t].status # "absent"
    BY <1>3, <2>1 DEF PickWithoutPlan
  <2> QED
    BY <2>2, <2>3, <2>4
    DEF Hand, Job, Stage, HandKnown, Working, Yielding, Placing
<1>7. CASE ProbeWorkers
  <2>1. PICK up \in SUBSET Worker, reading \in [Worker -> SUBSET Gpu], queued \in BOOLEAN :
          \/ /\ pc' = "pick"
             /\ scan' = [NoScan EXCEPT !.up = up, !.ready = reading, !.queued = queued]
          \/ /\ pc' = "resize"
             /\ scan' = [[NoScan EXCEPT !.up = up, !.ready = reading, !.queued = queued]
                            EXCEPT !.todo = ResizeList, !.snap = Listed(ResizeList)]
    BY <1>7 DEF ProbeWorkers
  <2>2. [NoScan EXCEPT !.up = up, !.ready = reading, !.queued = queued] \in Scan
    BY NoScanTyped DEF Scan
  <2>3. scan' \in Scan
    <3> DEFINE found == [NoScan EXCEPT !.up = up, !.ready = reading, !.queued = queued]
    <3>1. scan' = found \/ scan' = [found EXCEPT !.todo = ResizeList,
                                                !.snap = Listed(ResizeList)]
      BY <2>1
    <3>2. found \in Scan
      BY <2>2
    <3> HIDE DEF found
    <3>3. [found EXCEPT !.todo = ResizeList, !.snap = Listed(ResizeList)] \in Scan
      BY <1>2, <3>2 DEF Scan
    <3> QED
      BY <3>1, <3>2, <3>3
  <2>4. job' = job
    BY <1>7 DEF ProbeWorkers
  <2> QED
    BY <1>1, <2>1, <2>3, <2>4 DEF Stage, HandKnown, Working, Yielding, Placing
<1>8. CASE PickEnds
  <2>1. scan' \in Scan
    BY <1>1, <1>2, <1>8 DEF PickEnds, Scan
  <2> QED
    BY <1>1, <1>8, <2>1 DEF PickEnds, Stage, HandKnown, Working, Yielding, Placing
<1> QED
  BY <1>4, <1>5, <1>6, <1>7, <1>8

LEMMA YieldKeepsHand ==
  ASSUME HandInv, [SchedulerNext]_vars,
         \/ \E t \in Task : KillVictim(t)
         \/ ChooseVictims \/ NoVictims \/ EvictVictim \/ VictimsDone
         \/ Reprobe \/ Replan
  PROVE  HandKept
<1> USE DEF HandKept, Goto
<1>1. scan \in Scan /\ job \in Job /\ StoreInv
  BY DEF HandInv, HandTyped
<1>2. /\ pc \in Yielding /\ scan.after = "pick" /\ job.task \in Task
      /\ rows[job.task].status # "absent"
  BY DEF HandInv, HandKnown, Working, Yielding, KillVictim, ChooseVictims,
         NoVictims, EvictVictim, VictimsDone, Reprobe, Replan
<1>3. rows'[job.task].status # "absent"
  BY <1>1, <1>2, RowStep, RowsRemain
<1>4. CASE ChooseVictims
  <2>1. PICK w \in Worker : \E V \in Offered(w) :
          scan' = [scan EXCEPT !.host = w, !.victims = V, !.got = FALSE]
    BY <1>4 DEF ChooseVictims
  <2>2. PICK V \in Offered(w) :
          scan' = [scan EXCEPT !.host = w, !.victims = V, !.got = FALSE]
    BY <2>1
  <2>3. /\ BackgroundVictims(job.task, w) \subseteq Task
        /\ RegularVictims(job.task, w) \subseteq Task
    BY DEF BackgroundVictims, RegularVictims, RunningOn, Running
  <2>4. V \in SUBSET Task
    BY <1>2, <2>2, <2>3, VictimsAreTasks DEF Offered
  <2>5. /\ scan' \in Scan /\ scan'.after = "pick" /\ scan'.mode = scan.mode
        /\ scan'.host \in Worker
    BY <1>1, <1>2, <2>2, <2>4 DEF Scan
  <2>6. scan.mode # "numa"
    BY <1>4 DEF HandInv, HandKnown, ChooseVictims
  <2> QED
    BY <1>1, <1>2, <1>3, <1>4, <2>5, <2>6
    DEF ChooseVictims, Stage, HandKnown, Working, Yielding, Placing
<1>5. CASE NoVictims
  <2>1. \/ /\ scan' = [scan EXCEPT !.mode = "regular", !.passed = {}]
           /\ pc' = "yield" /\ job' = job
        \/ scan' = scan /\ pc' = "pick" /\ job' = NoJob
    BY <1>5 DEF NoVictims
  <2>2. /\ scan' \in Scan /\ scan'.after = "pick"
        /\ pc' = "yield" => scan'.mode = "regular"
    BY <1>1, <1>2, <2>1 DEF Scan
  <2> QED
    BY <1>1, <1>2, <1>3, <2>1, <2>2
    DEF Stage, Job, NoJob, HandKnown, Working, Yielding, Placing
<1>6. CASE \E t \in Task : KillVictim(t)
  <2>1. PICK t \in Task : KillVictim(t)
    BY <1>6
  <2>2. /\ scan' \in Scan /\ scan'.after = "pick" /\ scan'.mode = scan.mode
        /\ scan'.host = scan.host
    BY <1>1, <1>2, <2>1 DEF KillVictim, Scan
  <2>3. \/ pc' = "evict" /\ scan'.victim = t
        \/ pc' = pc
    BY <1>1, <2>1 DEF KillVictim, Scan
  <2>4. pc = "kill" /\ job' = job
    BY <2>1 DEF KillVictim
  <2>5. /\ scan.host \in Worker
        /\ scan.mode = "numa" => job.worker \in Worker /\ job.gpus # {}
    BY <2>4 DEF HandInv, HandKnown, Placing
  <2> QED
    BY <1>1, <1>2, <1>3, <2>2, <2>3, <2>4, <2>5
    DEF Stage, HandKnown, Working, Yielding, Placing
<1>7. CASE EvictVictim
  <2>1. /\ scan' \in Scan /\ scan'.after = "pick" /\ scan'.mode = scan.mode
        /\ scan'.host = scan.host
    <3> DEFINE got == scan.got \/ rows[scan.victim].status = "running"
    <3>1. scan' = [scan EXCEPT !.victim = None, !.got = got]
      BY <1>7 DEF EvictVictim
    <3>2. got \in BOOLEAN
      OBVIOUS
    <3> HIDE DEF got
    <3> QED
      BY <1>1, <1>2, <3>1, <3>2 DEF Scan
  <2>2. pc = "evict" /\ pc' = "kill" /\ job' = job
    BY <1>7 DEF EvictVictim
  <2>3. /\ scan.host \in Worker
        /\ scan.mode = "numa" => job.worker \in Worker /\ job.gpus # {}
    BY <2>2 DEF HandInv, HandKnown, Placing
  <2> QED
    BY <1>1, <1>2, <1>3, <2>1, <2>2, <2>3
    DEF Stage, HandKnown, Working, Yielding, Placing
<1>8. CASE VictimsDone
  <2>1. scan' \in Scan /\ scan'.after = "pick" /\ scan'.mode = scan.mode
    <3>1. \/ scan' = scan
          \/ scan' = [scan EXCEPT !.passed = @ \cup {scan.host}]
      BY <1>8 DEF VictimsDone
    <3>2. scan.host \in Worker
      BY <1>8 DEF HandInv, HandKnown, VictimsDone
    <3> QED
      BY <1>1, <1>2, <3>1, <3>2 DEF Scan
  <2>2. \/ pc' = "reprobe"
        \/ pc' = "start" /\ scan.mode = "numa"
        \/ pc' = "yield" /\ scan.mode # "numa"
    BY <1>8 DEF VictimsDone
  <2>3. pc = "kill" /\ job' = job
    BY <1>8 DEF VictimsDone
  <2>4. scan.mode = "numa" => job.worker \in Worker /\ job.gpus # {}
    BY <2>3 DEF HandInv, HandKnown, Placing
  <2> QED
    BY <1>1, <1>2, <1>3, <2>1, <2>2, <2>3, <2>4
    DEF Stage, HandKnown, Working, Yielding, Placing
<1>9. CASE Reprobe
  <2>1. scan' \in Scan /\ scan'.after = "pick"
    <3>1. \/ scan' = [scan EXCEPT !.up = @ \ {scan.host}, !.ready[scan.host] = {}]
          \/ \E reading \in SUBSET Gpu :
               scan' = [scan EXCEPT !.ready[scan.host] = reading]
      BY <1>9 DEF Reprobe
    <3>2. scan.ready \in [Worker -> SUBSET Gpu]
      BY <1>1 DEF Scan
    <3>3. \A G \in SUBSET Gpu :
            [scan.ready EXCEPT ![scan.host] = G] \in [Worker -> SUBSET Gpu]
      BY <3>2
    <3>4. \E ready \in [Worker -> SUBSET Gpu], up \in SUBSET Worker :
            scan' = [scan EXCEPT !.up = up, !.ready = ready]
      <4>1. CASE scan' = [scan EXCEPT !.up = @ \ {scan.host}, !.ready[scan.host] = {}]
        BY <1>1, <3>3, <4>1 DEF Scan
      <4>2. CASE \E reading \in SUBSET Gpu :
                   scan' = [scan EXCEPT !.ready[scan.host] = reading]
        <5>1. PICK reading \in SUBSET Gpu :
                scan' = [scan EXCEPT !.ready[scan.host] = reading]
          BY <4>2
        <5>2. scan' = [scan EXCEPT !.up = scan.up,
                         !.ready = [scan.ready EXCEPT ![scan.host] = reading]]
          BY <1>1, <5>1 DEF Scan
        <5>3. scan.up \in SUBSET Worker
          BY <1>1 DEF Scan
        <5> QED
          BY <3>3, <5>2, <5>3
      <4> QED
        BY <3>1, <4>1, <4>2
    <3> QED
      BY <1>1, <1>2, <3>4 DEF Scan
  <2> QED
    BY <1>1, <1>2, <1>3, <1>9, <2>1
    DEF Reprobe, Stage, HandKnown, Working, Yielding, Placing
<1>10. CASE Replan
  <2>1. scan' = scan /\ rows' = rows
    BY <1>10 DEF Replan
  <2>2. CASE pc' = "start" /\ job' \in PlansFor(job.task)
    <3>1. /\ job' \in Job /\ job'.task = job.task
          /\ job'.worker \in Worker /\ job'.gpus # {}
      BY <1>2, <2>2, HeldPlanPlaces
    <3> QED
      BY <1>1, <1>2, <2>1, <2>2, <3>1
      DEF Stage, HandKnown, Working, Yielding, Placing
  <2>3. CASE pc' = "pick" /\ job' = NoJob
    BY <1>1, <2>1, <2>3 DEF Stage, Job, NoJob, HandKnown, Working, Yielding, Placing
  <2> QED
    BY <1>10, <2>2, <2>3 DEF Replan
<1> QED
  BY <1>4, <1>5, <1>6, <1>7, <1>8, <1>9, <1>10
LEMMA LaunchKeepsHand ==
  ASSUME HandInv, [SchedulerNext]_vars,
         LaunchStarts \/ LaunchDoesNotStart \/ MarkStarted \/ AbortLaunch
  PROVE  HandKept
<1> USE DEF HandKept, Goto
<1>1. /\ scan \in Scan /\ job \in Job /\ StoreInv
      /\ scan.todo \subseteq Task /\ scan.after \in {"pick", "resize", "background"}
  BY DEF HandInv, HandTyped, Scan
<1>2. /\ pc \in {"start", "mark", "abort"} /\ scan' = scan
      /\ job.task \in Task /\ job.worker \in Worker /\ job.gpus # {}
  BY DEF HandInv, HandKnown, Working, Placing, LaunchStarts, LaunchDoesNotStart,
         MarkStarted, AbortLaunch
<1>3. scan.after = "background" => \A t \in scan.todo : rows[t].status # "absent"
  BY <1>2 DEF HandInv, HandKnown
<1>4. \A t \in Task : rows[t].status # "absent" => rows'[t].status # "absent"
  BY <1>1, RowStep, RowsRemain
<1>5. \/ pc' \in {"mark", "abort"} /\ job' = job
      \/ pc' = scan.after /\ job' = NoJob
  BY DEF LaunchStarts, LaunchDoesNotStart, MarkStarted, AbortLaunch
<1> QED
  BY <1>1, <1>2, <1>3, <1>4, <1>5
  DEF Stage, Job, NoJob, HandKnown, Working, Yielding, Placing

LEMMA ResizeKeepsHand ==
  ASSUME HandInv, [SchedulerNext]_vars,
         \/ \E t \in Task : ResizeTask(t)
         \/ ResizeKill \/ ResizeEvict \/ ResizeEnds
  PROVE  HandKept
<1> USE DEF HandKept, Goto
<1>1. /\ scan \in Scan /\ job \in Job /\ StoreInv /\ scan.up \in SUBSET Worker
      /\ scan.ready \in [Worker -> SUBSET Gpu] /\ scan.snap \in [Task -> Row]
  BY DEF HandInv, HandTyped, Scan
<1>2. CASE \E t \in Task : ResizeTask(t)
  <2>1. PICK t \in Task : ResizeTask(t)
    BY <1>2
  <2>2. scan' \in Scan /\ scan'.after = "resize"
    BY <1>1, <2>1 DEF ResizeTask, Drop, Scan
  <2>3. CASE pc' = pc /\ job' = job
    BY <1>1, <2>1, <2>2, <2>3
    DEF ResizeTask, Stage, HandKnown, Working, Yielding, Placing
  <2>4. CASE \E G \in ResizeChoices(t) :
               job' = [task |-> t, worker |-> scan.snap[t].worker, gpus |-> G]
    <3>1. PICK G \in ResizeChoices(t) :
            job' = [task |-> t, worker |-> scan.snap[t].worker, gpus |-> G]
      BY <2>4
    <3>2. scan.snap[t].worker \in Worker /\ G \in SUBSET Gpu
      BY <1>1, ResizeStays DEF ResizeChoices
    <3>3. pc' \in {"resize", "resizeKill"}
      BY <2>1 DEF ResizeTask
    <3> QED
      BY <2>2, <3>1, <3>2, <3>3
      DEF Stage, Job, HandKnown, Working, Yielding, Placing
  <2> QED
    BY <2>1, <2>3, <2>4 DEF ResizeTask
<1>3. CASE ResizeKill
  <2>1. job.task \in Task /\ job.worker \in Worker
    BY <1>3 DEF HandInv, HandKnown, Working, ResizeKill
  <2>2. scan' = scan /\ scan.after = "resize"
    BY <1>3 DEF HandInv, HandKnown, ResizeKill
  <2>3. \/ pc' = "resizeEvict" /\ job' = job
        \/ pc' = "resize" /\ job' = NoJob
    BY <1>3 DEF ResizeKill
  <2> QED
    BY <1>1, <2>1, <2>2, <2>3
    DEF Stage, Job, NoJob, HandKnown, Working, Yielding, Placing
<1>4. CASE ResizeEvict
  <2>1. job.task \in Task /\ job.worker \in Worker
    BY <1>4 DEF HandInv, HandKnown, Working, ResizeEvict
  <2>2. scan' = scan /\ scan.after = "resize" /\ scan.todo \subseteq Task
    BY <1>1, <1>4 DEF HandInv, HandKnown, ResizeEvict, Scan
  <2>3. \/ pc' = "start" /\ job' = job /\ job.gpus # {}
        \/ pc' = "resize" /\ job' = NoJob
    BY <1>4 DEF ResizeEvict
  <2> QED
    BY <1>1, <2>1, <2>2, <2>3
    DEF Stage, Job, NoJob, HandKnown, Working, Yielding, Placing
<1>5. CASE ResizeEnds
  <2> DEFINE list == {t \in Queued : Opt(t).background}
  <2>1. list \subseteq Task /\ \A t \in list : rows[t].status # "absent"
    BY DEF Queued
  <2>2. Listed(list) \in [Task -> Row]
    BY <1>1, ListedTyped
  <2>3. \/ /\ pc' = "background"
           /\ scan' = [scan EXCEPT !.todo = list, !.snap = Listed(list),
                                   !.after = "background"]
        \/ pc' = "release" /\ scan' = scan
    BY <1>5 DEF ResizeEnds
  <2> HIDE DEF list
  <2>4. /\ scan' \in Scan
        /\ pc' = "background" => scan'.after = "background" /\ scan'.todo = list
    BY <1>1, <2>1, <2>2, <2>3 DEF Scan
  <2>5. job' = job /\ rows' = rows
    BY <1>5 DEF ResizeEnds
  <2> QED
    BY <1>1, <2>1, <2>3, <2>4, <2>5
    DEF Stage, HandKnown, Working, Yielding, Placing
<1> QED
  BY <1>2, <1>3, <1>4, <1>5

LEMMA BackgroundKeepsHand ==
  ASSUME HandInv, [SchedulerNext]_vars,
         \/ \E t \in Task : StartBackground(t) \/ SkipBackground(t)
         \/ BackgroundEnds
  PROVE  HandKept
<1> USE DEF HandKept, Goto
<1>1. scan \in Scan /\ job \in Job /\ scan.todo \subseteq Task
  BY DEF HandInv, HandTyped, Scan
<1>2. /\ pc = "background" /\ scan.after = "background" /\ rows' = rows
      /\ \A t \in scan.todo : rows[t].status # "absent"
  BY DEF HandInv, HandKnown, StartBackground, SkipBackground, BackgroundEnds
<1>3. CASE \E t \in Task : StartBackground(t) \/ SkipBackground(t)
  <2>1. PICK t \in Task : StartBackground(t) \/ SkipBackground(t)
    BY <1>3
  <2>2. /\ scan' \in Scan /\ scan'.after = "background"
        /\ scan'.todo \subseteq scan.todo
    BY <1>1, <1>2, <2>1 DEF StartBackground, SkipBackground, Drop, Scan
  <2>3. t \in scan.todo
    BY <2>1 DEF StartBackground, SkipBackground, NextBackground
  <2>4. CASE StartBackground(t)
    <3>1. job' \in PlansFor(t) /\ pc' = "start"
      BY <2>4 DEF StartBackground
    <3>2. /\ job' \in Job /\ job'.task = t
          /\ job'.worker \in Worker /\ job'.gpus # {}
      BY <1>2, <2>3, <3>1, HeldPlanPlaces
    <3> QED
      BY <1>1, <1>2, <2>2, <3>1, <3>2
      DEF Stage, HandKnown, Working, Yielding, Placing
  <2>5. CASE SkipBackground(t)
    BY <1>1, <1>2, <2>2, <2>5
    DEF SkipBackground, Stage, HandKnown, Working, Yielding, Placing
  <2> QED
    BY <2>1, <2>4, <2>5
<1>4. CASE BackgroundEnds
  BY <1>1, <1>2, <1>4
  DEF BackgroundEnds, Stage, HandKnown, Working, Yielding, Placing
<1> QED
  BY <1>3, <1>4

-----------------------------------------------------------------------------
LEMMA HandStep ==
  ASSUME HandInv, [SchedulerNext]_vars
  PROVE  HandInv'
<1>1. StoreInv'
  BY RowStep, StoreInvStep DEF HandInv
<1>2. HandTyped' /\ HandKnown'
  <2>1. CASE HolderStep
    <3>1. HandKept
      BY <2>1, SchedulesKeepHand, RefreshKeepsHand, PickKeepsHand,
         YieldKeepsHand, LaunchKeepsHand, ResizeKeepsHand, BackgroundKeepsHand
      DEF HolderStep, TaskSteps
    <3> QED
      BY <3>1, CallStep, ExitFileTyped DEF HandKept, HandTyped
  <2>2. CASE ~HolderStep
    BY <2>2, OthersKeepHand
  <2> QED
    BY <2>1, <2>2
<1> QED
  BY <1>1, <1>2, CallStep DEF HandInv

-----------------------------------------------------------------------------
(* Options under the lock *)

(* No task that exists has other options after the step. *)
OptionsKept ==
  \A t \in Task : rows[t].status # "absent" => rows'[t].options = rows[t].options

LEMMA MovesKeepOptions ==
  ASSUME StoreInv, NEW t \in Task, Moves(t) \/ Mark(t) \/ Create(t)
  PROVE  OptionsKept
<1>1. rows \in [Task -> Row] /\ rows[t] \in Row
  BY DEF StoreInv
<1>2. \A u \in Task \ {t} : rows'[u] = rows[u]
  BY <1>1 DEF Moves, Mark, Create, Finish, Fail, Requeue, Preempt, Start, Pause,
              Rerun, Cancel
<1>3. CASE Moves(t) \/ Mark(t)
  <2>1. \E flag, w, G, code :
          rows'[t] \in {MarkRunning(rows[t], w, G), FinishTask(rows[t], code),
                        FailTask(rows[t]), RequeueTask(rows[t]),
                        PreemptTask(rows[t]), StartTask(rows[t]),
                        PauseTask(rows[t], flag), RerunTask(rows[t]),
                        CancelTask(rows[t])}
    BY <1>1, <1>3
    DEF Moves, Mark, Finish, Fail, Requeue, Preempt, Start, Pause, Rerun, Cancel
  <2>2. rows'[t].options = rows[t].options
    BY <1>1, <2>1, StatementsKeepOptions
  <2> QED
    BY <1>2, <2>2 DEF OptionsKept
<1>4. CASE Create(t)
  <2>1. rows[t].status # "absent" => rows'[t] = rows[t]
    BY <1>1, <1>4 DEF Create, CreateTask
  <2> QED
    BY <1>2, <2>1 DEF OptionsKept
<1> QED
  BY <1>3, <1>4

(* The lock is held exactly while the holder is somewhere in its loops. *)
LockHeld == lock = "free" <=> pc = "idle"

LEMMA LockHeldStep ==
  ASSUME HandInv, LockHeld, [SchedulerNext]_vars
  PROVE  LockHeld'
<1> USE DEF Goto
<1>1. CASE HolderStep
  <2>1. pc # "idle"
    BY <1>1
    DEF HolderStep, TaskSteps, ScheduledStart, ScheduledStop,
        ScheduledStopPauses, RefreshBegins, SkipUnreachable, ReadRaises,
        ReadExitCode, SessionPresent, SessionCheckRaises, SessionMissing,
        RequeueOrFailLost, FinishExited, TailLogsRaises, RefreshEnds,
        ProbeWorkers, PickWithPlan, PickForNuma, PickWithoutPlan, PickEnds,
        ChooseVictims, NoVictims, KillVictim, EvictVictim, VictimsDone, Reprobe,
        Replan, LaunchStarts, LaunchDoesNotStart, MarkStarted, AbortLaunch,
        ResizeTask, ResizeKill, ResizeEvict, ResizeEnds, StartBackground,
        SkipBackground, BackgroundEnds
  <2>2. scan.after # "idle"
    BY DEF HandInv, HandTyped, Scan
  <2>3. pc' # "idle"
    BY <1>1, <2>1, <2>2
    DEF HolderStep, TaskSteps, ScheduledStart, ScheduledStop,
        ScheduledStopPauses, RefreshBegins, SkipUnreachable, ReadRaises,
        ReadExitCode, SessionPresent, SessionCheckRaises, SessionMissing,
        RequeueOrFailLost, FinishExited, TailLogsRaises, RefreshEnds,
        ProbeWorkers, PickWithPlan, PickForNuma, PickWithoutPlan, PickEnds,
        ChooseVictims, NoVictims, KillVictim, EvictVictim, VictimsDone, Reprobe,
        Replan, LaunchStarts, LaunchDoesNotStart, MarkStarted, AbortLaunch,
        ResizeTask, ResizeKill, ResizeEvict, ResizeEnds, StartBackground,
        SkipBackground, BackgroundEnds
  <2> QED
    BY <1>1, <2>1, <2>3 DEF HolderStep, LockHeld
<1>2. CASE ~HolderStep
  BY <1>2
  DEF LockHeld, SchedulerNext, TickBegins, ReleaseLock, ClientStep, SubmitTask,
      EditTask, CallBegins, CallKills, CallUpdates, CallDispatches, HostMoves,
      Crash, holderVars, vars
<1> QED
  BY <1>1, <1>2

(* update_task takes the lock, so the holder sees no options change. *)
LEMMA HeldOptionsStay ==
  ASSUME HandInv, LockHeld, pc # "idle", [SchedulerNext]_vars
  PROVE  OptionsKept
<1>1. CASE MarkStarted
  <2>1. Mark(job.task) /\ job.task \in Task
    BY <1>1, MarkStartedMarks DEF Mark
  <2> QED
    BY <2>1, MovesKeepOptions DEF HandInv
<1>2. CASE HolderStep /\ ~MarkStarted
  BY <1>2, HolderRowStep, MovesKeepOptions DEF HandInv, OptionsKept
<1>3. CASE \E c \in Client : CallUpdates(c)
  BY <1>3, CallRowStep, MovesKeepOptions DEF HandInv
<1>4. CASE \E t \in Task : SubmitTask(t)
  BY <1>4, MovesKeepOptions DEF SubmitTask, HandInv
<1>5. CASE UNCHANGED rows
  BY <1>5 DEF OptionsKept
<1> QED
  BY <1>1, <1>2, <1>3, <1>4, <1>5
  DEF SchedulerNext, TickBegins, ReleaseLock, ClientStep, EditTask, CallBegins,
      CallKills, CallDispatches, HostMoves, Crash, LockHeld, vars

-----------------------------------------------------------------------------
(***************************************************************************)
(* Everything the scheduler and the handlers do to the table is one of the *)
(* statements of the store, so the table keeps its promises under them.    *)
(***************************************************************************)
THEOREM SchedulerKeepsStoreContract == SchedulerSpec => StoreContract
<1>1. SchedulerInit => StoreInit
  BY DEF SchedulerInit
<1> QED
  BY <1>1, HandInit, HandStep, RowStep, PTL
  DEF SchedulerSpec, StoreContract, StoreSpec

(***************************************************************************)
(* So a row that runs names a worker and GPUs, and one that waits or has   *)
(* ended names none, whatever the threads, the faults and the crashes.     *)
(***************************************************************************)
THEOREM SchedulerKeepsRowsConsistent ==
  SchedulerSpec => [](RowsTyped /\ RowsConsistent)
BY SchedulerKeepsStoreContract, StoreKeepsRowsConsistent DEF StoreContract
=============================================================================
