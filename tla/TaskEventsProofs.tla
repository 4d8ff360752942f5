-------------------------- MODULE TaskEventsProofs --------------------------
(***************************************************************************)
(* Proofs about what the world is told of tasks, for any tasks, workers,   *)
(* faults, restarts and clients' calls.                                    *)
(***************************************************************************)
EXTENDS TaskEvents, TLAPS

Event == {"switch", "succeeded", "failed"}

Via == {"callback", "im"}

Announcement == [attempt : Nat, via : Via, event : Event]

Connection == {"unknown", "online", "offline"}

(* A running task as refresh_running_tasks found it in the table *)
Listing == [task : Task, host : Worker, preemptible : BOOLEAN]

Phase ==
  {"idle", "refresh", "session", "exited", "lost", "callback", "im", "probe",
   "evict", "recovered", "unreachable"}

Job ==
  [phase : Phase, todo : (SUBSET Listing) \cup (SUBSET Worker),
   down : SUBSET Worker, up : SUBSET Worker, task : Task \cup {None},
   host : Worker \cup {None}, preemptible : BOOLEAN,
   code : ExitCode \cup {None}, event : Event \cup {None},
   next : {"refresh", "probe", "session", "exited", None}]

CallRecord ==
  [op   : {"none", "dispatch", "pause", "cancel"},
   task : Task \cup {None}, host : Worker \cup {None}]

(* The events of a worker's health are about to be recorded. *)
Recording(j) == j.phase \in {"recovered", "unreachable"}

(* A notification is being sent. *)
Telling(j) == j.phase \in {"callback", "im"}

(* Refresh has asked the worker of a task, and has not updated its row. *)
InHand(j) ==
  \/ j.phase \in {"session", "exited", "lost"}
  \/ Recording(j) /\ j.next \in {"session", "exited"}

InRefresh(j) ==
  \/ j.phase = "refresh" \/ InHand(j)
  \/ (Recording(j) \/ Telling(j)) /\ j.next = "refresh"

InDispatch(j) ==
  \/ j.phase \in {"probe", "evict"}
  \/ (Recording(j) \/ Telling(j)) /\ j.next = "probe"

(* The exit code has been read and is about to be filed. *)
HasCode(j) == j.phase = "exited" \/ (Recording(j) /\ j.next = "exited")

JobFine(j) ==
  /\ j \in Job
  /\ Recording(j) => j.host \in Worker /\ (InRefresh(j) \/ InDispatch(j))
  /\ Telling(j) => j.task \in Task /\ j.event \in Event /\ j.next \in {"refresh", "probe"}
  /\ InHand(j) \/ j.phase = "evict" => j.task \in Task /\ j.host \in Worker
  /\ HasCode(j) => j.code \in ExitCode
  /\ j.phase = "evict" => j.event = "switch"
  /\ InRefresh(j) => j.todo \subseteq Listing /\ j.up = {}
  /\ InDispatch(j) => j.todo \subseteq Worker /\ j.todo \cap j.up = {}

RowFine(r) ==
  /\ r \in Row /\ r.options \in Option
  /\ r.status = "running" => r.worker \in Worker

EventsTyped ==
  /\ rows \in [Task -> Row] /\ \A t \in Task : RowFine(rows[t])
  /\ health \in [Worker -> Connection]
  /\ JobFine(job)
  /\ call \in CallRecord /\ (call.op # "none" => call.task \in Task)
  /\ waiter \in [Awaited -> {0, 1, 130, None}]
  /\ attempt \in [Task -> Nat]
  /\ announced \in [Task -> Seq(Announcement)]
  /\ outage \in [Task -> BOOLEAN]
  /\ wrote \in [Awaited -> SUBSET ExitCode]
  /\ restarts \in BOOLEAN
  /\ HostTyped

(* No notification is about a task that runs. *)
NewsIsOfStopped == Telling(job) => rows[job.task].status # "running"

(* Exit codes, wherever they are, come from commands that ended. *)
CodesWereWritten ==
  /\ \A t \in Awaited, w \in Worker :
       exitFile[w][t] # None => exitFile[w][t] \in wrote[t]
  /\ HasCode(job) /\ job.task \in Awaited => job.code \in wrote[job.task]
  /\ \A t \in Awaited : rows[t].status = "succeeded" => 0 \in wrote[t]
  /\ \A t \in Awaited : waiter[t] = 0 => 0 \in wrote[t]

(* No result of this attempt of the task has been announced that way. *)
Untold(t, via) ==
  \A i \in 1 .. Len(announced[t]) :
    announced[t][i].attempt = attempt[t] /\ announced[t][i].via = via
      => announced[t][i].event \notin Results

(* The tasks the refresh loop still has to visit, or has in hand *)
Unvisited ==
  IF InRefresh(job)
  THEN {r.task : r \in job.todo} \cup (IF InHand(job) THEN {job.task} ELSE {})
  ELSE {}

(* Refresh visits a task at most once in a pass, and none that has ended. *)
VisitedOnce ==
  InRefresh(job) =>
    /\ \A r, s \in job.todo : r.task = s.task => r = s
    /\ InHand(job) \/ Telling(job) => \A r \in job.todo : r.task # job.task
    /\ \A t \in Unvisited : rows[t].status \notin Results

(* Nothing has been announced of an attempt that is not over. *)
ToldOnce ==
  /\ OneResultPerAttempt
  /\ \A t \in Task : \A i \in 1 .. Len(announced[t]) :
       announced[t][i].attempt <= attempt[t]
  /\ \A t \in Task, via \in Via :
       rows[t].status = "running" \/ t \in Unvisited => Untold(t, via)
  /\ job.phase = "callback" => Untold(job.task, "callback")
  /\ Telling(job) => Untold(job.task, "im")

(* The result of a row has been announced, or is just being announced. *)
Told(t, via) ==
  \E i \in 1 .. Len(announced[t]) :
    /\ announced[t][i].attempt = attempt[t] /\ announced[t][i].via = via
    /\ announced[t][i].event = rows[t].status

BeingTold(t, via) ==
  /\ job.task = t /\ job.event = rows[t].status
  /\ job.phase = "callback" \/ (job.phase = "im" /\ via = "im")

ResultsTold ==
  ~restarts =>
    \A t \in Task, via \in Via :
      rows[t].status \in Results => Told(t, via) \/ BeingTold(t, via)

(* A running task's last event agrees with the state of its worker, or the *)
(* event that makes them agree is about to be recorded. *)
OutagesKnown ==
  /\ \A w \in job.up : health[w] = "online"
  /\ Recording(job) =>
       (health[job.host] = IF job.phase = "unreachable" THEN "offline" ELSE "online")
  /\ ~restarts =>
       \A t \in Running :
         outage[t] <=> IF Recording(job) /\ rows[t].worker = job.host
                       THEN job.phase = "recovered"
                       ELSE health[rows[t].worker] = "offline"

EventsInv ==
  /\ EventsTyped /\ NewsIsOfStopped /\ CodesWereWritten
  /\ VisitedOnce /\ ToldOnce /\ ResultsTold /\ OutagesKnown

-----------------------------------------------------------------------------
(* The thread that holds the lock *)

LEMMA IdleFine ==
  /\ JobFine(Idle)
  /\ ~Recording(Idle) /\ ~Telling(Idle) /\ ~InHand(Idle)
  /\ ~InRefresh(Idle) /\ ~HasCode(Idle)
BY DEF Idle, JobFine, Job, Phase, Recording, Telling, InHand, InRefresh,
       InDispatch, HasCode

(* Back in a loop: the thread keeps what the loop needs, and nothing else. *)
LEMMA LoopFine ==
  ASSUME job \in Job, NEW p \in {"refresh", "probe"},
         p = "refresh" => job.todo \subseteq Listing /\ job.up = {},
         p = "probe" => job.todo \subseteq Worker /\ job.todo \cap job.up = {}
  PROVE  /\ JobFine(Loop(p)) /\ Loop(p).phase = p
         /\ Loop(p).todo = job.todo /\ Loop(p).up = job.up
BY DEF Loop, Idle, JobFine, Job, Phase, Recording, Telling, InHand, InRefresh,
       InDispatch, HasCode

(* A probed worker, with what follows its health record *)
LEMMA MarkedFine ==
  ASSUME NEW w \in Worker, NEW p, NEW after,
         \/ MarkReachable(w, p, after) \/ MarkUnreachable(w, p, after),
         after \in Job,
         \/ /\ p = "refresh" /\ after.todo \subseteq Listing /\ after.up = {}
         \/ /\ p = "probe" /\ after.todo \subseteq Worker
            /\ after.todo \cap after.up = {}
         \/ /\ p \in {"session", "exited"}
            /\ after.todo \subseteq Listing /\ after.up = {}
            /\ after.task \in Task /\ after.host = w
            /\ p = "exited" => after.code \in ExitCode
  PROVE  /\ JobFine(job')
         /\ job'.todo = after.todo /\ job'.up = after.up /\ job'.task = after.task
         /\ job'.code = after.code
         /\ job'.phase = p \/ (Recording(job') /\ job'.next = p /\ job'.host = w)
<1>1. PICK e \in {"recovered", "unreachable"} :
        \/ job' = [after EXCEPT !.phase = e, !.host = w, !.next = p]
        \/ job' = [after EXCEPT !.phase = p]
  BY DEF MarkReachable, MarkUnreachable
<1>2. CASE job' = [after EXCEPT !.phase = e, !.host = w, !.next = p]
  BY <1>2 DEF JobFine, Job, Phase, Recording, Telling, InHand, InRefresh,
              InDispatch, HasCode
<1>3. CASE job' = [after EXCEPT !.phase = p]
  BY <1>3 DEF JobFine, Job, Phase, Recording, Telling, InHand, InRefresh,
              InDispatch, HasCode
<1> QED
  BY <1>1, <1>2, <1>3

(* The steps of the thread that holds the lock; the others leave it alone. *)
JobMoves ==
  \/ RecordHealthEvent \/ TickBegins
  \/ \E r \in job.todo : SkipTask(r) \/ ReadExitCode(r) \/ ReadExitCodeRaises(r)
  \/ CheckSession \/ CheckSessionRaises \/ FileLost \/ FileResult
  \/ TailLogsRaises \/ RunCallback \/ RunImNotify
  \/ RefreshEnds \/ CallDispatches \/ DispatchEnds \/ Restart
  \/ (\E w \in Worker : Probe(w))
  \/ (\E v \in Task : EvictKill(v)) \/ EvictUpdate

LEMMA JobMovesOrStays == [Next]_vars => JobMoves \/ UNCHANGED job
BY DEF Next, JobStep, JobMoves, vars, CallQueues, CallReads, CallKills,
       CallUpdates, WaitReturns, HostActs, Launch

LEMMA ReadFine ==
  ASSUME EventsTyped, NEW r \in job.todo, ReadExitCode(r)
  PROVE  /\ JobFine(job') /\ InHand(job') /\ InRefresh(job')
         /\ job'.todo = job.todo \ {r} /\ job'.up = job.up /\ job'.task = r.task
         /\ HasCode(job') => /\ job'.code = exitFile[r.host][r.task]
                             /\ exitFile[r.host][r.task] # None
<1>1. job \in Job /\ job.todo \subseteq Listing /\ job.up = {} /\ job.phase = "refresh"
  BY DEF EventsTyped, JobFine, InRefresh, ReadExitCode, Listed
<1>2. r \in Listing /\ r.task \in Task /\ r.host \in Worker /\ r.preemptible \in BOOLEAN
  BY <1>1 DEF Listing
<1>3. PICK code : code = exitFile[r.host][r.task]
  OBVIOUS
<1>4. code \in ExitCode \cup {None}
  BY <1>2, <1>3 DEF EventsTyped, HostTyped
<1> DEFINE after == [Taken(r) EXCEPT !.code = code]
<1>5. /\ after \in Job /\ after.todo = job.todo \ {r} /\ after.up = job.up
      /\ after.task = r.task /\ after.host = r.host /\ after.code = code
  BY <1>1, <1>2, <1>4 DEF Taken, Job
<1>6. PICK p \in {"session", "exited"} :
        /\ p = IF code = None THEN "session" ELSE "exited"
        /\ MarkReachable(r.host, p, after)
  BY <1>3 DEF ReadExitCode
<1>7. p = "exited" => code # None /\ code \in ExitCode
  BY <1>4, <1>6
<1> HIDE DEF after
<1>8. /\ JobFine(job') /\ job'.todo = after.todo /\ job'.up = after.up
      /\ job'.task = after.task /\ job'.code = after.code
      /\ job'.phase = p \/ (Recording(job') /\ job'.next = p /\ job'.host = r.host)
  BY <1>1, <1>2, <1>5, <1>6, <1>7, MarkedFine
<1>9. InHand(job') /\ InRefresh(job') /\ (HasCode(job') => p = "exited")
  BY <1>8 DEF InHand, InRefresh, Recording, HasCode
<1> QED
  BY <1>3, <1>5, <1>7, <1>8, <1>9

LEMMA FailedReadFine ==
  ASSUME EventsTyped,
         \/ \E r \in job.todo : ReadExitCodeRaises(r) \/ SkipTask(r)
         \/ CheckSessionRaises
  PROVE  /\ JobFine(job') /\ InRefresh(job') /\ ~InHand(job') /\ ~Telling(job')
         /\ job'.todo \subseteq job.todo /\ job'.up = {}
<1>1. job \in Job /\ job.todo \subseteq Listing /\ job.up = {} /\ InRefresh(job)
  BY DEF EventsTyped, JobFine, InRefresh, InHand, ReadExitCodeRaises, SkipTask,
         CheckSessionRaises, Listed
<1>2. ASSUME NEW r \in job.todo, ReadExitCodeRaises(r)
      PROVE  /\ JobFine(job') /\ job'.todo \subseteq job.todo /\ job'.up = {}
             /\ job'.phase = "refresh" \/ (Recording(job') /\ job'.next = "refresh")
  <2> DEFINE after == [job EXCEPT !.todo = @ \ {r}, !.down = @ \cup {r.host}]
  <2>1. r.host \in Worker
    BY <1>1 DEF Listing
  <2>2. after \in Job /\ after.todo = job.todo \ {r} /\ after.up = {}
    BY <1>1, <2>1 DEF Job
  <2>3. MarkUnreachable(r.host, "refresh", after)
    BY <1>2 DEF ReadExitCodeRaises
  <2> HIDE DEF after
  <2> QED
    BY <1>1, <2>1, <2>2, <2>3, MarkedFine
<1>3. ASSUME NEW r \in job.todo, SkipTask(r)
      PROVE  JobFine(job') /\ job'.todo \subseteq job.todo /\ job'.phase = "refresh"
             /\ job'.up = {}
  BY <1>1, <1>3 DEF SkipTask, Listed, JobFine, Job, Phase, Recording, Telling,
                    InHand, InRefresh, InDispatch, HasCode
<1>4. CASE CheckSessionRaises
  <2> DEFINE after == [Loop("refresh") EXCEPT !.down = @ \cup {job.host}]
  <2>1. job.host \in Worker
    BY <1>4 DEF CheckSessionRaises, EventsTyped, JobFine, InHand
  <2>2. after \in Job /\ after.todo = job.todo /\ after.up = {}
    BY <1>1, <2>1, LoopFine DEF JobFine, Job
  <2>3. MarkUnreachable(job.host, "refresh", after)
    BY <1>4 DEF CheckSessionRaises
  <2> HIDE DEF after
  <2>4. /\ JobFine(job') /\ job'.todo = job.todo /\ job'.up = {}
        /\ job'.phase = "refresh" \/ (Recording(job') /\ job'.next = "refresh")
    BY <1>1, <2>1, <2>2, <2>3, MarkedFine
  <2> QED
    BY <2>4 DEF InRefresh, InHand, Telling, Recording
<1> QED
  BY <1>2, <1>3, <1>4 DEF InRefresh, InHand, Telling, Recording

LEMMA ProbeFine ==
  ASSUME EventsTyped, NEW w \in Worker, Probe(w)
  PROVE  /\ JobFine(job') /\ InDispatch(job') /\ ~Telling(job') /\ ~InHand(job')
         /\ job'.todo = job.todo \ {w}
         /\ job'.up = job.up \/ (job'.up = job.up \cup {w} /\ health'[w] = "online")
<1>1. /\ job \in Job /\ job.todo \subseteq Worker /\ job.todo \cap job.up = {}
      /\ w \in job.todo /\ job.phase = "probe"
  BY DEF EventsTyped, JobFine, InDispatch, Probe
<1> DEFINE rest == [job EXCEPT !.todo = @ \ {w}]
           more == [rest EXCEPT !.up = @ \cup {w}]
<1>2. /\ rest \in Job /\ rest.todo = job.todo \ {w} /\ rest.up = job.up
      /\ more \in Job /\ more.todo = job.todo \ {w} /\ more.up = job.up \cup {w}
  BY <1>1 DEF Job
<1>3. \/ MarkReachable(w, "probe", more) \/ MarkUnreachable(w, "probe", rest)
  BY DEF Probe
<1> HIDE DEF rest, more
<1>4. ASSUME NEW after \in {rest, more}, JobFine(job'), job'.todo = after.todo,
             job'.up = after.up,
             job'.phase = "probe" \/ (Recording(job') /\ job'.next = "probe")
      PROVE  InDispatch(job') /\ ~Telling(job') /\ ~InHand(job')
  BY <1>4 DEF InDispatch, Telling, InHand, Recording
<1>5. CASE MarkReachable(w, "probe", more)
  <2>1. /\ JobFine(job') /\ job'.todo = more.todo /\ job'.up = more.up
        /\ job'.phase = "probe" \/ (Recording(job') /\ job'.next = "probe")
    BY <1>1, <1>2, <1>5, MarkedFine
  <2>2. health'[w] = "online"
    BY <1>5 DEF MarkReachable, EventsTyped
  <2> QED
    BY <1>2, <1>4, <2>1, <2>2
<1>6. CASE MarkUnreachable(w, "probe", rest)
  <2>1. /\ JobFine(job') /\ job'.todo = rest.todo /\ job'.up = rest.up
        /\ job'.phase = "probe" \/ (Recording(job') /\ job'.next = "probe")
    BY <1>1, <1>2, <1>6, MarkedFine
  <2> QED
    BY <1>2, <1>4, <2>1
<1> QED
  BY <1>3, <1>5, <1>6

LEMMA RecordFine ==
  ASSUME EventsTyped, RecordHealthEvent
  PROVE  /\ JobFine(job') /\ ~Recording(job') /\ ~Telling(job')
         /\ InHand(job') <=> InHand(job)
         /\ InRefresh(job') <=> InRefresh(job)
         /\ HasCode(job') <=> HasCode(job)
         /\ job'.todo = job.todo /\ job'.up = job.up
         /\ InHand(job) => job'.task = job.task /\ job'.code = job.code
<1>1. job \in Job /\ Recording(job) /\ JobFine(job)
  BY DEF EventsTyped, JobFine, RecordHealthEvent, Recording
<1>2. job.next \in {"refresh", "probe", "session", "exited"}
  BY <1>1 DEF JobFine, InRefresh, InDispatch, InHand, Recording, Telling
<1>3. /\ InHand(job) <=> job.next \in {"session", "exited"}
      /\ InRefresh(job) <=> job.next # "probe"
      /\ InDispatch(job) <=> job.next = "probe"
      /\ HasCode(job) <=> job.next = "exited"
  BY <1>1, <1>2 DEF InHand, InRefresh, InDispatch, HasCode, Recording, Telling
<1>4. CASE job.next \in {"refresh", "probe"}
  <2>1. job' = Loop(job.next)
    BY <1>4 DEF RecordHealthEvent
  <2>2. /\ job.next = "refresh" => job.todo \subseteq Listing /\ job.up = {}
        /\ job.next = "probe" => job.todo \subseteq Worker /\ job.todo \cap job.up = {}
    BY <1>1, <1>3 DEF JobFine
  <2>3. /\ JobFine(job') /\ job'.phase = job.next
        /\ job'.todo = job.todo /\ job'.up = job.up
    BY <1>1, <1>4, <2>1, <2>2, LoopFine
  <2> QED
    BY <1>3, <1>4, <2>3 DEF InHand, InRefresh, HasCode, Recording, Telling
<1>5. CASE job.next \in {"session", "exited"}
  <2>1. job' = [job EXCEPT !.phase = job.next, !.next = None]
    BY <1>5 DEF RecordHealthEvent
  <2>2. /\ job' \in Job /\ job'.phase = job.next /\ job'.todo = job.todo
        /\ job'.up = job.up /\ job'.task = job.task /\ job'.code = job.code
        /\ job'.host = job.host
    BY <1>1, <1>5, <2>1 DEF Job, Phase
  <2>3. /\ InHand(job') /\ InRefresh(job') /\ ~InDispatch(job')
        /\ ~Recording(job') /\ ~Telling(job')
        /\ HasCode(job') <=> job.next = "exited"
        /\ job'.phase # "evict"
    BY <1>5, <2>2 DEF InHand, InRefresh, InDispatch, HasCode, Recording, Telling
  <2>4. /\ job.task \in Task /\ job.host \in Worker
        /\ job.todo \subseteq Listing /\ job.up = {}
        /\ job.next = "exited" => job.code \in ExitCode
    BY <1>1, <1>3, <1>5 DEF JobFine
  <2> QED
    BY <1>3, <1>5, <2>2, <2>3, <2>4 DEF JobFine
<1> QED
  BY <1>2, <1>4, <1>5

(* A task that was submitted has its options. *)
LEMMA RunningHasOptions ==
  ASSUME EventsTyped, NEW t \in Task
  PROVE  rows[t].options.preemptible \in BOOLEAN
BY DEF EventsTyped, RowFine, Row, Option

LEMMA BeginFine ==
  ASSUME EventsTyped, TickBegins
  PROVE  /\ JobFine(job') /\ job'.phase = "refresh"
         /\ job'.up = {}
         /\ job'.todo = {[task |-> t, host |-> rows[t].worker,
                          preemptible |-> rows[t].options.preemptible] :
                            t \in Running}
<1> DEFINE todo == {[task |-> t, host |-> rows[t].worker,
                     preemptible |-> rows[t].options.preemptible] : t \in Running}
<1>1. todo \subseteq Listing
  <2>1. ASSUME NEW t \in Running
        PROVE  rows[t].worker \in Worker /\ rows[t].options.preemptible \in BOOLEAN
    BY RunningHasOptions DEF Running, EventsTyped, RowFine
  <2> QED
    BY <2>1 DEF Listing, Running
<1>2. job' = [Idle EXCEPT !.phase = "refresh", !.todo = todo]
  BY DEF TickBegins
<1> HIDE DEF todo
<1>3. /\ job'.phase = "refresh" /\ job'.todo = todo /\ job'.up = {}
      /\ job' \in Job
  BY <1>1, <1>2 DEF Idle, Job, Phase
<1>4. JobFine(job')
  BY <1>1, <1>3 DEF JobFine, Recording, Telling, InHand, InRefresh, InDispatch, HasCode
<1> QED
  BY <1>3, <1>4 DEF todo

LEMMA CheckFine ==
  ASSUME EventsTyped, CheckSession
  PROVE  /\ JobFine(job') /\ InRefresh(job') /\ ~Telling(job') /\ ~HasCode(job')
         /\ ~Recording(job')
         /\ InHand(job') => job'.task = job.task
         /\ job'.todo = job.todo /\ job'.up = job.up
<1>1. /\ job \in Job /\ JobFine(job) /\ InHand(job) /\ InRefresh(job)
      /\ job.phase = "session"
  BY DEF EventsTyped, JobFine, CheckSession, InHand, InRefresh
<1>2. CASE Goto("lost")
  BY <1>1, <1>2 DEF Goto, JobFine, Job, Phase, Recording, Telling, InHand,
                    InRefresh, InDispatch, HasCode
<1>3. CASE NextTask
  <2>1. /\ JobFine(job') /\ job'.phase = "refresh"
        /\ job'.todo = job.todo /\ job'.up = job.up
    BY <1>1, <1>3, LoopFine DEF NextTask, JobFine
  <2> QED
    BY <2>1 DEF InRefresh, Telling, HasCode, Recording, InHand
<1> QED
  BY <1>2, <1>3 DEF CheckSession

LEMMA FileFine ==
  ASSUME EventsTyped, FileLost \/ FileResult
  PROVE  /\ InHand(job) /\ InRefresh(job)
         /\ JobFine(job') /\ job'.phase = "callback" /\ job'.next = "refresh"
         /\ job'.task = job.task /\ job'.todo = job.todo /\ job'.up = job.up
         /\ job'.event = IF FileResult
                         THEN IF job.code = 0 THEN "succeeded" ELSE "failed"
                         ELSE IF job.preemptible THEN "switch" ELSE "failed"
<1>1. /\ job \in Job /\ JobFine(job) /\ InHand(job) /\ InRefresh(job)
      /\ job.phase \in {"lost", "exited"}
  BY DEF EventsTyped, JobFine, FileLost, FileResult, InHand, InRefresh
<1>2. PICK e \in Event :
        /\ job' = [job EXCEPT !.phase = "callback", !.next = "refresh", !.event = e]
        /\ e = IF job.phase = "exited"
               THEN IF job.code = 0 THEN "succeeded" ELSE "failed"
               ELSE IF job.preemptible THEN "switch" ELSE "failed"
  BY DEF FileLost, FileResult, Event
<1>3. FileResult <=> job.phase = "exited"
  BY DEF FileLost, FileResult
<1>4. /\ job' \in Job /\ job'.phase = "callback" /\ job'.next = "refresh"
      /\ job'.task = job.task /\ job'.todo = job.todo /\ job'.up = job.up
      /\ job'.event = e
  BY <1>1, <1>2 DEF Job, Phase
<1>5. JobFine(job')
  BY <1>1, <1>4 DEF JobFine, Recording, Telling, InHand, InRefresh, InDispatch, HasCode
<1> QED
  BY <1>1, <1>2, <1>3, <1>4, <1>5

LEMMA TellFine ==
  ASSUME EventsTyped, RunCallback \/ RunImNotify
  PROVE  /\ JobFine(job') /\ job'.todo = job.todo /\ job'.up = job.up
         /\ InRefresh(job') <=> InRefresh(job)
         /\ ~InHand(job') /\ ~HasCode(job') /\ ~Recording(job')
         /\ Telling(job') <=> RunCallback
         /\ Telling(job') => /\ job'.phase = "im" /\ job'.task = job.task
                             /\ job'.event = job.event
<1>1. /\ job \in Job /\ JobFine(job) /\ Telling(job)
      /\ job.next \in {"refresh", "probe"}
  BY DEF EventsTyped, JobFine, RunCallback, RunImNotify, Telling
<1>2. InRefresh(job) <=> job.next = "refresh"
  BY <1>1 DEF InRefresh, InHand, Telling, Recording
<1>3. CASE RunCallback
  <2>1. job' = [job EXCEPT !.phase = "im"]
    BY <1>3 DEF RunCallback, Goto
  <2>2. /\ job' \in Job /\ job'.phase = "im" /\ job'.todo = job.todo
        /\ job'.up = job.up /\ job'.task = job.task /\ job'.event = job.event
        /\ job'.next = job.next
    BY <1>1, <2>1 DEF Job, Phase
  <2> QED
    BY <1>1, <1>2, <1>3, <2>2 DEF JobFine, Recording, Telling, InHand, InRefresh,
                                  InDispatch, HasCode
<1>4. CASE RunImNotify
  <2>1. job' = Loop(job.next)
    BY <1>4 DEF RunImNotify
  <2>2. /\ job.next = "refresh" => job.todo \subseteq Listing /\ job.up = {}
        /\ job.next = "probe" => job.todo \subseteq Worker /\ job.todo \cap job.up = {}
    BY <1>1 DEF JobFine, InRefresh, InDispatch
  <2>3. /\ JobFine(job') /\ job'.phase = job.next
        /\ job'.todo = job.todo /\ job'.up = job.up
    BY <1>1, <2>1, <2>2, LoopFine
  <2>4. ~RunCallback
    BY <1>4 DEF RunCallback, RunImNotify
  <2> QED
    BY <1>1, <1>2, <2>3, <2>4 DEF InHand, InRefresh, HasCode, Recording, Telling
<1> QED
  BY <1>3, <1>4

LEMMA DispatchFine ==
  ASSUME RefreshEnds \/ CallDispatches
  PROVE  JobFine(job') /\ job'.phase = "probe" /\ job'.up = {}
<1>1. job' = [Idle EXCEPT !.phase = "probe", !.todo = Worker]
  BY DEF RefreshEnds, CallDispatches
<1>2. /\ job' \in Job /\ job'.phase = "probe" /\ job'.up = {} /\ job'.todo = Worker
  BY <1>1 DEF Idle, Job, Phase
<1> QED
  BY <1>2 DEF JobFine, Recording, Telling, InHand, InRefresh, InDispatch, HasCode

LEMMA KillFine ==
  ASSUME EventsTyped, NEW v \in Task, EvictKill(v)
  PROVE  /\ JobFine(job') /\ job'.phase = "evict" /\ job'.task = v
         /\ job'.up = job.up
<1>1. /\ job \in Job /\ job.todo = {} /\ rows[v].worker \in Worker
  BY DEF EventsTyped, JobFine, EvictKill, Dispatching, Running, RowFine
<1>2. job' = [job EXCEPT !.phase = "evict", !.task = v, !.event = "switch",
                         !.host = rows[v].worker]
  BY DEF EvictKill
<1>3. /\ job' \in Job /\ job'.phase = "evict" /\ job'.task = v /\ job'.up = job.up
      /\ job'.todo = {} /\ job'.host \in Worker /\ job'.event = "switch"
  BY <1>1, <1>2 DEF Job, Phase, Event
<1> QED
  BY <1>3 DEF JobFine, Recording, Telling, InHand, InRefresh, InDispatch, HasCode

LEMMA EvictFine ==
  ASSUME EventsTyped, EvictUpdate
  PROVE  /\ JobFine(job') /\ InDispatch(job') /\ ~Recording(job') /\ ~InHand(job')
         /\ job'.up \subseteq job.up
         /\ Telling(job') => /\ job.task \in Running /\ job'.task = job.task
                             /\ job'.event = "switch"
<1>1. /\ job \in Job /\ JobFine(job) /\ InDispatch(job) /\ job.phase = "evict"
      /\ job.task \in Task /\ job.host \in Worker /\ job.event = "switch"
      /\ job.todo \subseteq Worker /\ job.todo \cap job.up = {}
  BY DEF EventsTyped, JobFine, EvictUpdate, InDispatch
<1>2. CASE job.task \in Running
  <2>1. job' = [job EXCEPT !.phase = "callback", !.next = "probe",
                           !.todo = {job.host}, !.up = @ \ {job.host}]
    BY <1>2 DEF EvictUpdate
  <2>2. {job.host} \subseteq Worker /\ job.up \ {job.host} \subseteq Worker
    BY <1>1 DEF Job
  <2>3. /\ job' \in Job /\ job'.phase = "callback" /\ job'.next = "probe"
        /\ job'.todo = {job.host} /\ job'.up = job.up \ {job.host}
        /\ job'.task = job.task /\ job'.event = "switch"
    BY <1>1, <2>1, <2>2 DEF Job, Phase
  <2>4. JobFine(job')
    BY <1>1, <2>3 DEF JobFine, Recording, Telling, InHand, InRefresh, InDispatch,
                      HasCode, Event
  <2> QED
    BY <1>2, <2>3, <2>4 DEF InDispatch, Recording, InHand, Telling
<1>3. CASE job.task \notin Running
  <2>1. job' = Loop("probe")
    BY <1>3 DEF EvictUpdate
  <2>2. JobFine(job') /\ job'.phase = "probe" /\ job'.up = job.up
    BY <1>1, <2>1, LoopFine
  <2> QED
    BY <2>2 DEF InDispatch, Recording, InHand, Telling
<1> QED
  BY <1>2, <1>3

PassEnds == TailLogsRaises \/ DispatchEnds \/ Restart

LEMMA JobStaysFine ==
  ASSUME EventsTyped, [Next]_vars
  PROVE  JobFine(job')
<1>1. CASE JobMoves
  <2>1. PassEnds => job' = Idle
    BY DEF PassEnds, TailLogsRaises, DispatchEnds, Restart
  <2> QED
    BY <1>1, <2>1, IdleFine, RecordFine, BeginFine, ReadFine, FailedReadFine,
       CheckFine, FileFine, TellFine, DispatchFine, ProbeFine, KillFine,
       EvictFine DEF JobMoves, PassEnds
<1>2. CASE UNCHANGED job
  BY <1>2 DEF EventsTyped
<1> QED
  BY <1>1, <1>2, JobMovesOrStays

-----------------------------------------------------------------------------
(* The rows *)

(* No statement but MarkRunning makes a task run, and only FinishTask and *)
(* FailTask give it a result. *)
LEMMA QuietStatements ==
  ASSUME NEW r, RowFine(r),
         NEW q \in {PreemptTask(r), StartTask(r), PauseTask(r, TRUE),
                    RerunTask(r), CancelTask(r)}
  PROVE  /\ RowFine(q)
         /\ q.status = "running" => q = r
         /\ q.status \in Results => q = r
<1> USE DEF RowFine, Row, Status, Final, Results
<1>4. CASE q = PreemptTask(r)
  BY <1>4 DEF PreemptTask, Unplaced
<1>5. CASE q = StartTask(r)
  BY <1>5 DEF StartTask
<1>6. CASE q = PauseTask(r, TRUE)
  BY <1>6 DEF PauseTask, Unplaced
<1>7. CASE q = RerunTask(r)
  BY <1>7 DEF RerunTask, Unplaced
<1>8. CASE q = CancelTask(r)
  BY <1>8 DEF CancelTask
<1> QED
  BY <1>4, <1>5, <1>6, <1>7, <1>8

LEMMA FilingStatements ==
  ASSUME NEW r, RowFine(r), NEW code \in ExitCode,
         NEW q \in {FinishTask(r, code), FailTask(r), RequeueTask(r)}
  PROVE  RowFine(q) /\ q.status # "running"
<1> USE DEF RowFine, Row, Status, Final
<1>1. CASE q = FinishTask(r, code)
  <2>1. (IF code = 0 THEN "succeeded" ELSE "failed") \in {"succeeded", "failed"}
    OBVIOUS
  <2> QED
    BY <1>1, <2>1 DEF FinishTask
<1>2. CASE q = FailTask(r)
  BY <1>2 DEF FailTask
<1>3. CASE q = RequeueTask(r)
  BY <1>3 DEF RequeueTask, Unplaced
<1> QED
  BY <1>1, <1>2, <1>3

LEMMA LaunchedRow ==
  ASSUME NEW r, RowFine(r), r.status = "queued", NEW w \in Worker, NEW g \in Gpu
  PROVE  LET q == MarkRunning(r, w, {g})
         IN  RowFine(q) /\ q.status = "running" /\ q.worker = w
BY DEF MarkRunning, RowFine, Row, Status

(* What a client's statement does to the row of t *)
ClientUpdates(t) ==
  /\ \E q \in {StartTask(rows[t]), RerunTask(rows[t]), PauseTask(rows[t], TRUE),
               CancelTask(rows[t])} : SetRow(t, q)
  /\ UNCHANGED <<health, job, waiter, historyVars, hostVars>>

LEMMA RowSteps ==
  ASSUME EventsTyped, [Next]_vars
  PROVE  \/ UNCHANGED rows
         \/ \E t \in Task : ClientUpdates(t)
         \/ \E t \in Task, w \in Worker : Launch(t, w)
         \/ FileLost \/ FileResult \/ EvictUpdate
<1>1. CASE CallUpdates
  <2>1. call.task \in Task
    BY <1>1 DEF CallUpdates, EventsTyped
  <2>2. ClientUpdates(call.task)
    BY <1>1 DEF CallUpdates, ClientUpdates
  <2> QED
    BY <2>1, <2>2
<1>2. CASE \E t \in Task : CallQueues(t)
  BY <1>2 DEF CallQueues, ClientUpdates
<1>3. CASE UNCHANGED rows
  BY <1>3
<1>4. CASE FileLost \/ FileResult \/ EvictUpdate \/ \E t \in Task, w \in Worker : Launch(t, w)
  BY <1>4
<1> QED
  BY <1>1, <1>2, <1>3, <1>4
  DEF Next, JobStep, vars, RecordHealthEvent, TickBegins, SkipTask, ReadExitCode,
      ReadExitCodeRaises, CheckSession, CheckSessionRaises, TailLogsRaises,
      RunCallback, RunImNotify, RefreshEnds, CallDispatches, DispatchEnds,
      Restart, Probe, EvictKill, CallReads, CallKills, WaitReturns, HostActs

(* A row after a step: as it was, or after one statement on it *)
RowChanges(t) ==
  \/ rows'[t] = rows[t]
  \/ rows'[t] \in {StartTask(rows[t]), RerunTask(rows[t]), PauseTask(rows[t], TRUE),
                   CancelTask(rows[t])}
     /\ job' = job
  \/ rows'[t] \in {RequeueTask(rows[t]), FailTask(rows[t])}
     /\ FileLost /\ t = job.task
  \/ rows'[t] = FinishTask(rows[t], job.code) /\ FileResult /\ t = job.task
  \/ rows'[t] = PreemptTask(rows[t]) /\ EvictUpdate /\ t = job.task
  \/ \E w \in Worker : Launch(t, w)

LEMMA RowChangesOnly ==
  ASSUME EventsTyped, [Next]_vars, NEW t \in Task
  PROVE  RowChanges(t)
<1>1. rows \in [Task -> Row]
  BY DEF EventsTyped
<1>2. \A u \in Task : \A q : SetRow(u, q) => rows'[t] = IF u = t THEN q ELSE rows[t]
  BY <1>1 DEF SetRow
<1>3. ASSUME NEW u \in Task, ClientUpdates(u) PROVE RowChanges(t)
  BY <1>2, <1>3 DEF ClientUpdates, RowChanges
<1>4. ASSUME NEW u \in Task, NEW w \in Worker, Launch(u, w) PROVE RowChanges(t)
  BY <1>2, <1>4 DEF Launch, RowChanges
<1>5. CASE FileLost \/ FileResult \/ EvictUpdate
  <2>1. job.task \in Task
    BY <1>5, FileFine DEF EventsTyped, JobFine, FileLost, FileResult, EvictUpdate, InHand
  <2> QED
    BY <1>2, <1>5, <2>1 DEF FileLost, FileResult, EvictUpdate, RowChanges
<1>6. CASE UNCHANGED rows
  BY <1>6 DEF RowChanges
<1> QED
  BY <1>3, <1>4, <1>5, <1>6, RowSteps

(* How the status of a row can change *)
LEMMA StatusSteps ==
  ASSUME EventsTyped, [Next]_vars, NEW t \in Task
  PROVE  /\ RowFine(rows'[t])
         /\ rows'[t].status = "running"
              => rows'[t] = rows[t] \/ \E w \in Worker : Launch(t, w) /\ rows'[t].worker = w
         /\ rows'[t].status \in Results
              => \/ rows'[t] = rows[t]
                 \/ /\ FileLost /\ t = job.task
                    /\ rows'[t] \in {RequeueTask(rows[t]), FailTask(rows[t])}
                 \/ /\ FileResult /\ t = job.task
                    /\ rows'[t] = FinishTask(rows[t], job.code)
<1>1. RowFine(rows[t])
  BY DEF EventsTyped
<1>2. FileResult => job.code \in ExitCode
  BY DEF EventsTyped, JobFine, FileResult, HasCode
<1>3. 0 \in ExitCode
  BY DEF ExitCode
<1>4. CASE \E w \in Worker : Launch(t, w)
  <2>1. PICK w \in Worker : Launch(t, w)
    BY <1>4
  <2>2. PICK g \in Gpu : g = CHOOSE f \in FreeGpus(w) : TRUE
    BY <2>1 DEF Launch, FreeGpus
  <2>3. rows[t].status = "queued" /\ rows'[t] = MarkRunning(rows[t], w, {g})
    BY <2>1, <2>2 DEF Launch, SetRow, Queued, EventsTyped
  <2> QED
    BY <1>1, <2>1, <2>3, LaunchedRow DEF Results
<1>5. CASE rows'[t] = rows[t]
  BY <1>1, <1>5
<1>6. CASE rows'[t] \in {StartTask(rows[t]), RerunTask(rows[t]), PauseTask(rows[t], TRUE),
                         CancelTask(rows[t])}
  BY <1>1, <1>6, QuietStatements
<1>7. CASE rows'[t] = PreemptTask(rows[t])
  BY <1>1, <1>7, QuietStatements
<1>8. CASE FileLost /\ t = job.task /\ rows'[t] \in {RequeueTask(rows[t]), FailTask(rows[t])}
  <2>1. RowFine(rows'[t]) /\ rows'[t].status # "running"
    BY <1>1, <1>3, <1>8, FilingStatements
  <2> QED
    BY <1>8, <2>1
<1>9. CASE FileResult /\ t = job.task /\ rows'[t] = FinishTask(rows[t], job.code)
  <2>1. RowFine(rows'[t]) /\ rows'[t].status # "running"
    BY <1>1, <1>2, <1>9, FilingStatements
  <2> QED
    BY <1>9, <2>1
<1> QED
  BY <1>4, <1>5, <1>6, <1>7, <1>8, <1>9, RowChangesOnly DEF RowChanges

-----------------------------------------------------------------------------
(* The hosts, the clients and the histories *)

LEMMA SessionSet ==
  ASSUME sess \in [Worker -> [Task -> SessionState]],
         NEW w \in Worker, NEW t \in Task, NEW state \in SessionState,
         SetSession(w, t, state)
  PROVE  sess' \in [Worker -> [Task -> SessionState]]
<1>1. sess' = [sess EXCEPT ![w] = [sess[w] EXCEPT ![t] = state]]
  BY DEF SetSession
<1> QED
  BY <1>1

LEMMA ExitFileSet ==
  ASSUME exitFile \in [Worker -> [Task -> ExitCode \cup {None}]],
         NEW w \in Worker, NEW t \in Task, NEW code \in ExitCode \cup {None},
         SetExitFile(w, t, code)
  PROVE  /\ exitFile' \in [Worker -> [Task -> ExitCode \cup {None}]]
         /\ \A v \in Worker, u \in Task :
              exitFile'[v][u] = IF v = w /\ u = t THEN code ELSE exitFile[v][u]
<1>1. exitFile' = [exitFile EXCEPT ![w] = [exitFile[w] EXCEPT ![t] = code]]
  BY DEF SetExitFile
<1> QED
  BY <1>1

(* No exit code appears but by the end of a command. *)
NothingExits ==
  \A w \in Worker, t \in Task : exitFile'[w][t] \in {exitFile[w][t], None}

LEMMA KillHost ==
  ASSUME HostTyped, NEW w \in Worker, NEW t \in Task,
         KillSucceeds(w, t) \/ KillRaises(w, t)
  PROVE  HostTyped' /\ exitFile' = exitFile
<1>1. sess' = sess \/ SetSession(w, t, "none")
  BY DEF KillSucceeds, KillRaises
<1>2. sess' \in [Worker -> [Task -> SessionState]]
  BY <1>1, SessionSet DEF HostTyped, SessionState
<1>3. exitFile' = exitFile /\ faults' \in 0 .. MaxFaults
  BY MaxFaultsAssumption DEF KillSucceeds, KillRaises, Fault, HostTyped
<1> QED
  BY <1>2, <1>3 DEF HostTyped

LEMMA HostStepHost ==
  ASSUME HostTyped, HostStep
  PROVE  HostTyped'
<1>1. PICK w \in Worker, t \in Task :
        CommandExits(w, t) \/ SessionCloses(w, t) \/ SessionLost(w, t)
  BY DEF HostStep
<1>2. \E state \in SessionState : SetSession(w, t, state)
  BY <1>1 DEF CommandExits, SessionCloses, SessionLost, SessionState
<1>3. exitFile' = exitFile \/ \E code \in ExitCode : SetExitFile(w, t, code)
  BY <1>1 DEF CommandExits, SessionCloses, SessionLost
<1>4. exitFile' \in [Worker -> [Task -> ExitCode \cup {None}]]
  BY <1>3, ExitFileSet DEF HostTyped
<1>5. faults' \in 0 .. MaxFaults
  BY <1>1, MaxFaultsAssumption
  DEF CommandExits, SessionCloses, SessionLost, Fault, HostTyped
<1> QED
  BY <1>2, <1>4, <1>5, SessionSet DEF HostTyped

LEMMA HostSteps ==
  ASSUME EventsTyped, [Next]_vars
  PROVE  HostTyped' /\ (HostActs \/ NothingExits)
<1>1. HostTyped
  BY DEF EventsTyped
<1>2. CASE HostActs
  BY <1>1, <1>2, HostStepHost DEF HostActs
<1>3. CASE \E t \in Task, w \in Worker : Launch(t, w)
  <2>1. PICK t \in Task, w \in Worker : LaunchSucceeds(w, t)
    BY <1>3 DEF Launch
  <2>2. sess' \in [Worker -> [Task -> SessionState]]
    BY <1>1, <2>1, SessionSet DEF LaunchSucceeds, HostTyped, SessionState
  <2>3. /\ exitFile' \in [Worker -> [Task -> ExitCode \cup {None}]]
        /\ NothingExits
    BY <1>1, <2>1, ExitFileSet DEF LaunchSucceeds, HostTyped, NothingExits
  <2> QED
    BY <1>1, <2>1, <2>2, <2>3 DEF LaunchSucceeds, HostTyped
<1>4. CASE \E v \in Task : EvictKill(v)
  <2>1. PICK v \in Task : EvictKill(v)
    BY <1>4
  <2>2. rows[v].worker \in Worker
    BY <2>1 DEF EvictKill, Running, EventsTyped, RowFine
  <2>3. KillSucceeds(rows[v].worker, v)
    BY <2>1 DEF EvictKill
  <2> QED
    BY <1>1, <2>2, <2>3, KillHost DEF NothingExits
<1>5. CASE CallKills
  <2>1. call.host \in Worker /\ call.task \in Task
    BY <1>5 DEF CallKills, EventsTyped, CallRecord
  <2> QED
    BY <1>1, <1>5, <2>1, KillHost DEF CallKills, NothingExits
<1>6. CASE ProbeRaises \/ (Fault("crash") /\ UNCHANGED <<sess, exitFile>>)
           \/ UNCHANGED hostVars
  BY <1>1, <1>6, MaxFaultsAssumption
  DEF ProbeRaises, Fault, HostTyped, NothingExits, hostVars
<1> QED
  BY <1>2, <1>3, <1>4, <1>5, <1>6
  DEF Next, JobStep, vars, RecordHealthEvent, TickBegins, SkipTask, ReadExitCode,
      ReadExitCodeRaises, CheckSession, CheckSessionRaises, FileLost, FileResult,
      TailLogsRaises, RunCallback, RunImNotify, RefreshEnds, CallDispatches,
      DispatchEnds, Restart, Probe, EvictUpdate, CallQueues, CallReads,
      CallUpdates, WaitReturns

LEMMA ClientsTyped ==
  ASSUME EventsTyped, [Next]_vars
  PROVE  call' \in CallRecord /\ (call'.op # "none" => call'.task \in Task)
<1>1. call \in CallRecord /\ (call.op # "none" => call.task \in Task)
  BY DEF EventsTyped
<1>2. NoCall \in CallRecord /\ NoCall.op = "none"
  BY DEF NoCall, CallRecord
<1>3. CASE CallKills
  <2>1. call' = NoCall \/ call' = [call EXCEPT !.host = None]
    BY <1>3 DEF CallKills
  <2>2. LET c == [call EXCEPT !.host = None]
        IN  c \in CallRecord /\ c.op = call.op /\ c.task = call.task
    BY <1>1 DEF CallRecord
  <2> QED
    BY <1>1, <1>2, <2>1, <2>2
<1>4. CASE \E t \in Task : CallQueues(t)
  BY <1>4 DEF CallQueues, NoCall, CallRecord
<1>5. CASE \E t \in Task : CallReads(t)
  <2>1. PICK t \in Task : CallReads(t)
    BY <1>5
  <2>2. rows[t].worker \in Worker \cup {None}
    BY DEF EventsTyped, Row
  <2>3. \E o \in {"pause", "cancel"} :
          call' = [op |-> o, task |-> t, host |-> rows[t].worker]
    BY <2>1 DEF CallReads
  <2> QED
    BY <2>2, <2>3 DEF CallRecord
<1>6. CASE call' = call \/ call' = NoCall
  BY <1>1, <1>2, <1>6
<1> QED
  BY <1>3, <1>4, <1>5, <1>6
  DEF Next, JobStep, vars, RecordHealthEvent, TickBegins, SkipTask, ReadExitCode,
      ReadExitCodeRaises, CheckSession, CheckSessionRaises, FileLost, FileResult,
      TailLogsRaises, RunCallback, RunImNotify, RefreshEnds, CallDispatches,
      DispatchEnds, Restart, Probe, EvictKill, EvictUpdate, Launch,
      CallUpdates, WaitReturns, HostActs

(* One notification, at the end of what was announced of the task *)
Announced(via) ==
  LET t == job.task
  IN  /\ announced' = [announced EXCEPT ![t] =
           Append(@, [attempt |-> attempt[t], via |-> via, event |-> job.event])]
      /\ attempt' = attempt

LEMMA AnnouncedSteps ==
  ASSUME [Next]_vars
  PROVE  \/ RunCallback /\ Announced("callback")
         \/ RunImNotify /\ Announced("im")
         \/ UNCHANGED announced
BY DEF Next, JobStep, vars, historyVars, Announced, Announces, RecordHealthEvent,
      TickBegins, SkipTask, ReadExitCode,
      ReadExitCodeRaises, CheckSession, CheckSessionRaises, FileLost, FileResult,
      TailLogsRaises, RunCallback, RunImNotify, RefreshEnds, CallDispatches,
      DispatchEnds, Restart, Probe, EvictKill, EvictUpdate, Launch, CallQueues,
      CallReads, CallKills, CallUpdates, WaitReturns, HostActs

LEMMA AnnouncedTyped ==
  ASSUME EventsTyped, RunCallback \/ RunImNotify, NEW via \in Via, Announced(via)
  PROVE  LET t == job.task
         IN  /\ t \in Task
             /\ announced' \in [Task -> Seq(Announcement)]
             /\ \A u \in Task \ {t} : announced'[u] = announced[u]
             /\ Len(announced[t]) \in Nat
             /\ Len(announced'[t]) = Len(announced[t]) + 1
             /\ \A i \in 1 .. Len(announced[t]) : announced'[t][i] = announced[t][i]
             /\ announced'[t][Len(announced[t]) + 1]
                  = [attempt |-> attempt[t], via |-> via, event |-> job.event]
<1>1. job.task \in Task /\ job.event \in Event
  BY DEF EventsTyped, JobFine, Telling, RunCallback, RunImNotify
<1>2. PICK t \in Task : t = job.task
  BY <1>1
<1> DEFINE a == [attempt |-> attempt[t], via |-> via, event |-> job.event]
<1>3. a \in Announcement
  BY <1>1 DEF Announcement, EventsTyped
<1>4. announced[t] \in Seq(Announcement)
  BY DEF EventsTyped
<1>5. announced' = [announced EXCEPT ![t] = Append(announced[t], a)]
  BY <1>2 DEF Announced
<1> HIDE DEF a
<1>6. /\ Append(announced[t], a) \in Seq(Announcement)
      /\ Len(announced[t]) \in Nat
      /\ Len(Append(announced[t], a)) = Len(announced[t]) + 1
      /\ \A i \in 1 .. Len(announced[t]) : Append(announced[t], a)[i] = announced[t][i]
      /\ Append(announced[t], a)[Len(announced[t]) + 1] = a
  BY <1>3, <1>4
<1>7. announced'[t] = Append(announced[t], a)
  BY <1>5 DEF EventsTyped
<1>8. /\ announced' \in [Task -> Seq(Announcement)]
      /\ \A u \in Task \ {t} : announced'[u] = announced[u]
  BY <1>5, <1>6 DEF EventsTyped
<1> QED
  BY <1>2, <1>6, <1>7, <1>8 DEF a

LEMMA WaiterSteps ==
  ASSUME EventsTyped, [Next]_vars, NEW t \in Awaited
  PROVE  /\ waiter' \in [Awaited -> {0, 1, 130, None}]
         /\ waiter'[t] = 0 => waiter[t] = 0 \/ rows[t].status = "succeeded"
<1>1. waiter \in [Awaited -> {0, 1, 130, None}]
  BY DEF EventsTyped
<1>2. CASE \E u \in Awaited : WaitReturns(u)
  <2>1. PICK u \in Awaited : WaitReturns(u)
    BY <1>2
  <2>2. u \in Task /\ rows[u].exit \in ExitCode \cup {None} /\ rows[u].status \in Final
    BY <2>1, AwaitedAssumption DEF EventsTyped, Row, WaitReturns
  <2>3. PICK x : x = CASE rows[u].status = "succeeded" -> 0
                       [] rows[u].status = "canceled"  -> 130
                       [] OTHER -> ProcessExitCode(rows[u].exit)
    OBVIOUS
  <2>4. /\ x \in {0, 1, 130}
        /\ x = 0 => rows[u].status = "succeeded"
    BY <2>2, <2>3 DEF ProcessExitCode, Final, ExitCode
  <2>5. waiter' = [waiter EXCEPT ![u] = x]
    BY <2>1, <2>3 DEF WaitReturns
  <2> QED
    BY <1>1, <2>4, <2>5
<1>3. CASE UNCHANGED waiter
  BY <1>1, <1>3
<1> QED
  BY <1>2, <1>3
  DEF Next, JobStep, vars, RecordHealthEvent, TickBegins, SkipTask, ReadExitCode,
      ReadExitCodeRaises, CheckSession, CheckSessionRaises, FileLost, FileResult,
      TailLogsRaises, RunCallback, RunImNotify, RefreshEnds, CallDispatches,
      DispatchEnds, Restart, Probe, EvictKill, EvictUpdate, Launch,
      CallQueues, CallReads, CallKills, CallUpdates, HostActs

LEMMA HistorySteps ==
  ASSUME [Next]_vars
  PROVE  /\ HostActs \/ UNCHANGED wrote
         /\ Restart \/ UNCHANGED restarts
         /\ (\E t \in Task, w \in Worker : Launch(t, w)) \/ UNCHANGED attempt
         /\ \/ \E t \in Task, w \in Worker : Launch(t, w)
            \/ RecordHealthEvent \/ UNCHANGED outage
         /\ \/ \E r \in job.todo : ReadExitCode(r) \/ ReadExitCodeRaises(r)
            \/ CheckSessionRaises \/ (\E w \in Worker : Probe(w))
            \/ UNCHANGED health
BY DEF Next, JobStep, vars, historyVars, RecordHealthEvent, TickBegins, SkipTask,
      ReadExitCode, ReadExitCodeRaises, CheckSession, CheckSessionRaises, FileLost,
      FileResult, TailLogsRaises, RunCallback, RunImNotify, RefreshEnds,
      CallDispatches, DispatchEnds, Restart, Probe, EvictKill, EvictUpdate, Launch,
      CallQueues, CallReads, CallKills, CallUpdates, WaitReturns, HostActs

LEMMA HistoriesTyped ==
  ASSUME EventsTyped, [Next]_vars
  PROVE  /\ attempt' \in [Task -> Nat]
         /\ announced' \in [Task -> Seq(Announcement)]
         /\ outage' \in [Task -> BOOLEAN]
         /\ wrote' \in [Awaited -> SUBSET ExitCode]
         /\ restarts' \in BOOLEAN
<1>1. attempt' \in [Task -> Nat]
  <2>1. ASSUME NEW t \in Task, NEW w \in Worker, Launch(t, w)
        PROVE  attempt' \in [Task -> Nat]
    BY <2>1 DEF Launch, EventsTyped
  <2> QED
    BY <2>1, HistorySteps DEF EventsTyped
<1>2. announced' \in [Task -> Seq(Announcement)]
  BY AnnouncedSteps, AnnouncedTyped DEF EventsTyped, Via
<1>3. outage' \in [Task -> BOOLEAN]
  <2>1. ASSUME NEW t \in Task, NEW w \in Worker, Launch(t, w)
        PROVE  outage' \in [Task -> BOOLEAN]
    BY <2>1 DEF Launch, EventsTyped
  <2>2. CASE RecordHealthEvent
    BY <2>2 DEF RecordHealthEvent, EventsTyped
  <2> QED
    BY <2>1, <2>2, HistorySteps DEF EventsTyped
<1>4. wrote' \in [Awaited -> SUBSET ExitCode]
  <2>1. CASE HostActs
    <3>1. wrote' = [t \in Awaited |-> wrote[t] \cup
                      ({exitFile'[w][t] : w \in Worker} \ {None})]
      BY <2>1 DEF HostActs
    <3>2. \A w \in Worker, t \in Awaited : exitFile'[w][t] \in ExitCode \cup {None}
      BY HostSteps, AwaitedAssumption DEF HostTyped
    <3> QED
      BY <3>1, <3>2 DEF EventsTyped
  <2>2. CASE UNCHANGED wrote
    BY <2>2 DEF EventsTyped
  <2> QED
    BY <2>1, <2>2, HistorySteps
<1>5. restarts' \in BOOLEAN
  BY HistorySteps DEF Restart, EventsTyped
<1> QED
  BY <1>1, <1>2, <1>3, <1>4, <1>5

LEMMA HealthTyped ==
  ASSUME EventsTyped, [Next]_vars
  PROVE  health' \in [Worker -> Connection]
<1>1. \A w, p, after : MarkReachable(w, p, after) \/ MarkUnreachable(w, p, after)
                         => \E c \in Connection : health' = [health EXCEPT ![w] = c]
  BY DEF MarkReachable, MarkUnreachable, Connection
<1>2. (\E w : \E c \in Connection : health' = [health EXCEPT ![w] = c])
        \/ UNCHANGED health
  BY <1>1, HistorySteps DEF ReadExitCode, ReadExitCodeRaises, CheckSessionRaises, Probe
<1> QED
  BY <1>2 DEF EventsTyped

LEMMA EventsStayTyped ==
  ASSUME EventsTyped, [Next]_vars
  PROVE  EventsTyped'
<1>1. rows' \in [Task -> Row]
  <2>1. DOMAIN rows' = Task /\ rows' = [t \in Task |-> rows'[t]]
    BY RowSteps DEF EventsTyped, ClientUpdates, SetRow, Launch, FileLost,
                    FileResult, EvictUpdate
  <2>2. \A t \in Task : rows'[t] \in Row
    BY StatusSteps DEF RowFine
  <2> QED
    BY <2>1, <2>2
<1>2. \A t \in Task : RowFine(rows'[t])
  BY StatusSteps
<1>3. waiter' \in [Awaited -> {0, 1, 130, None}]
  <2>1. CASE Awaited = {}
    <3>1. waiter' = waiter
      BY <2>1 DEF Next, JobStep, vars, RecordHealthEvent, TickBegins, SkipTask,
        ReadExitCode, ReadExitCodeRaises, CheckSession, CheckSessionRaises,
        FileLost, FileResult, TailLogsRaises, RunCallback, RunImNotify,
        RefreshEnds, CallDispatches, DispatchEnds, Restart, Probe, EvictKill,
        EvictUpdate, Launch, CallQueues, CallReads, CallKills, CallUpdates, HostActs
    <3> QED
      BY <3>1 DEF EventsTyped
  <2>2. CASE Awaited # {}
    BY <2>2, WaiterSteps
  <2> QED
    BY <2>1, <2>2
<1> QED
  BY <1>1, <1>2, <1>3, JobStaysFine, ClientsTyped, HostSteps, HistoriesTyped,
     HealthTyped DEF EventsTyped

-----------------------------------------------------------------------------
(* The parts of the invariant are kept *)

LEMMA TellingSteps ==
  ASSUME EventsTyped, [Next]_vars, Telling(job')
  PROVE  job' = job \/ FileLost \/ FileResult \/ RunCallback \/ EvictUpdate
<1>1. PassEnds => job' = Idle
  BY DEF PassEnds, TailLogsRaises, DispatchEnds, Restart
<1>2. InHand(job') \/ job'.phase \in {"refresh", "probe", "evict"} => ~Telling(job')
  BY DEF InHand, Telling, Recording
<1> QED
  BY <1>1, <1>2, JobMovesOrStays, IdleFine, RecordFine, BeginFine, ReadFine,
     FailedReadFine, CheckFine, TellFine, DispatchFine, ProbeFine, KillFine
  DEF JobMoves, PassEnds

LEMMA NewsStep ==
  ASSUME EventsTyped, NewsIsOfStopped, [Next]_vars
  PROVE  NewsIsOfStopped'
<1>1. SUFFICES ASSUME Telling(job') PROVE rows'[job'.task].status # "running"
  BY DEF NewsIsOfStopped
<1>2. PICK t \in Task : t = job'.task
  BY <1>1, JobStaysFine DEF JobFine
<1>3. RowFine(rows[t])
  BY DEF EventsTyped
<1>4. CASE FileLost
  <2>1. t = job.task
    BY <1>2, <1>4, FileFine
  <2>2. rows'[t] \in {RequeueTask(rows[t]), FailTask(rows[t])}
    BY <1>4, <2>1 DEF FileLost, SetRow, EventsTyped
  <2>3. 0 \in ExitCode
    BY DEF ExitCode
  <2> QED
    BY <1>2, <1>3, <2>2, <2>3, FilingStatements
<1>5. CASE FileResult
  <2>1. t = job.task /\ job.code \in ExitCode
    BY <1>2, <1>5, FileFine DEF EventsTyped, JobFine, FileResult, HasCode
  <2>2. rows'[t] = FinishTask(rows[t], job.code)
    BY <1>5, <2>1 DEF FileResult, SetRow, EventsTyped
  <2> QED
    BY <1>2, <1>3, <2>1, <2>2, FilingStatements
<1>6. CASE RunCallback
  BY <1>1, <1>6, TellFine DEF RunCallback, NewsIsOfStopped, Telling
<1>7. CASE EvictUpdate
  <2>1. t = job.task
    BY <1>1, <1>2, <1>7, EvictFine
  <2>2. rows'[t] = PreemptTask(rows[t])
    BY <1>7, <2>1 DEF EvictUpdate, SetRow, EventsTyped
  <2> QED
    BY <1>2, <1>3, <2>2 DEF PreemptTask, Unplaced, RowFine, Row
<1>8. CASE job' = job
  <2>1. rows[t].status # "running" /\ Telling(job)
    BY <1>1, <1>2, <1>8 DEF NewsIsOfStopped
  <2>2. ~\E w \in Worker : Launch(t, w)
    BY <2>1 DEF Launch, Dispatching, Telling
  <2> QED
    BY <1>2, <2>1, <2>2, StatusSteps
<1> QED
  BY <1>1, <1>4, <1>5, <1>6, <1>7, <1>8, TellingSteps

LEMMA CodeSteps ==
  ASSUME EventsTyped, [Next]_vars, HasCode(job')
  PROVE  \/ HasCode(job) /\ job'.code = job.code /\ job'.task = job.task
         \/ \E r \in job.todo : ReadExitCode(r)
<1>1. PassEnds => job' = Idle
  BY DEF PassEnds, TailLogsRaises, DispatchEnds, Restart
<1>2. HasCode(job') => InHand(job')
  BY DEF InHand, HasCode, Recording
<1>3. job'.phase \in {"refresh", "probe", "evict", "callback"} => ~HasCode(job')
  BY DEF HasCode, Recording
<1>4. HasCode(job) => InHand(job)
  BY DEF InHand, HasCode, Recording
<1> QED
  BY <1>1, <1>2, <1>3, <1>4, JobMovesOrStays, IdleFine, RecordFine, BeginFine,
     FailedReadFine, CheckFine, FileFine, TellFine, DispatchFine, ProbeFine,
     KillFine, EvictFine
  DEF JobMoves, PassEnds

LEMMA CodesStep ==
  ASSUME EventsTyped, CodesWereWritten, [Next]_vars
  PROVE  CodesWereWritten'
<1>1. \A t \in Awaited : wrote[t] \subseteq wrote'[t]
  BY HistorySteps DEF HostActs, EventsTyped
<1>2. ASSUME NEW t \in Awaited, NEW w \in Worker, exitFile'[w][t] # None
      PROVE  exitFile'[w][t] \in wrote'[t]
  <2>1. CASE HostActs
    BY <1>2, <2>1 DEF HostActs
  <2>2. CASE NothingExits
    <3>1. t \in Task
      BY AwaitedAssumption
    <3> QED
      BY <1>1, <1>2, <2>2, <3>1 DEF NothingExits, CodesWereWritten
  <2> QED
    BY <2>1, <2>2, HostSteps
<1>3. ASSUME HasCode(job'), job'.task \in Awaited
      PROVE  job'.code \in wrote'[job'.task]
  <2>1. PICK t \in Awaited : t = job'.task
    BY <1>3
  <2>2. CASE HasCode(job) /\ job'.code = job.code /\ job'.task = job.task
    BY <1>1, <2>1, <2>2 DEF CodesWereWritten
  <2>3. ASSUME NEW r \in job.todo, ReadExitCode(r)
        PROVE  job'.code \in wrote'[t]
    <3>1. /\ job'.task = r.task /\ job'.code = exitFile[r.host][r.task]
          /\ exitFile[r.host][r.task] # None
      BY <1>3, <2>3, ReadFine
    <3>2. r.host \in Worker
      BY <2>3 DEF EventsTyped, JobFine, InRefresh, ReadExitCode, Listed, Listing
    <3> QED
      BY <1>1, <2>1, <3>1, <3>2 DEF CodesWereWritten
  <2> QED
    BY <1>3, <2>1, <2>2, <2>3, CodeSteps
<1>4. ASSUME NEW t \in Awaited, rows'[t].status = "succeeded"
      PROVE  0 \in wrote'[t]
  <2>1. t \in Task /\ RowFine(rows[t])
    BY AwaitedAssumption DEF EventsTyped
  <2>2. CASE rows'[t] = rows[t]
    BY <1>1, <1>4, <2>2 DEF CodesWereWritten
  <2>3. CASE rows'[t] \in {RequeueTask(rows[t]), FailTask(rows[t])}
    <3>1. rows[t].status = "succeeded"
      BY <1>4, <2>1, <2>3 DEF RequeueTask, FailTask, Unplaced, RowFine, Row
    <3> QED
      BY <1>1, <3>1 DEF CodesWereWritten
  <2>4. CASE FileResult /\ t = job.task /\ rows'[t] = FinishTask(rows[t], job.code)
    <3>1. rows[t].status = "succeeded" \/ job.code = 0
      BY <1>4, <2>1, <2>4 DEF FinishTask, RowFine, Row
    <3>2. HasCode(job)
      BY <2>4 DEF FileResult, HasCode
    <3> QED
      BY <1>1, <2>4, <3>1, <3>2 DEF CodesWereWritten
  <2> QED
    BY <1>4, <2>1, <2>2, <2>3, <2>4, StatusSteps DEF Results
<1>5. ASSUME NEW t \in Awaited, waiter'[t] = 0
      PROVE  0 \in wrote'[t]
  BY <1>1, <1>5, WaiterSteps DEF CodesWereWritten
<1> QED
  BY <1>2, <1>3, <1>4, <1>5 DEF CodesWereWritten

(* How a pass of the refresh loop goes on *)
LEMMA RefreshSteps ==
  ASSUME EventsTyped, [Next]_vars, InRefresh(job')
  PROVE  \/ TickBegins
         \/ UNCHANGED job
         \/ /\ InRefresh(job) /\ job'.todo \subseteq job.todo
            /\ InHand(job') \/ Telling(job') =>
                 \/ /\ InHand(job) \/ Telling(job)
                    /\ InHand(job') => InHand(job)
                    /\ job'.task = job.task
                 \/ /\ InHand(job')
                    /\ \E r \in job.todo :
                         job'.task = r.task /\ job'.todo = job.todo \ {r}
<1>1. PassEnds => job' = Idle
  BY DEF PassEnds, TailLogsRaises, DispatchEnds, Restart
<1>2. InDispatch(job') \/ job'.phase = "evict" => ~InRefresh(job')
  BY DEF InHand, InRefresh, InDispatch, Recording, Telling
<1>3. job'.phase = "probe" => ~InRefresh(job')
  BY DEF InHand, InRefresh, Recording, Telling
<1>4. ASSUME NEW r \in job.todo, ReadExitCode(r)
      PROVE  /\ InRefresh(job) /\ job'.todo = job.todo \ {r}
             /\ InHand(job') /\ job'.task = r.task
  BY <1>4, ReadFine DEF ReadExitCode, Listed, InRefresh
<1>5. CASE (\E r \in job.todo : ReadExitCodeRaises(r) \/ SkipTask(r)) \/ CheckSessionRaises
  <2>1. InRefresh(job)
    BY <1>5 DEF ReadExitCodeRaises, SkipTask, CheckSessionRaises, Listed, InRefresh, InHand
  <2> QED
    BY <1>5, <2>1, FailedReadFine
<1>6. CASE CheckSession
  <2>1. InRefresh(job) /\ InHand(job)
    BY <1>6 DEF CheckSession, InRefresh, InHand
  <2> QED
    BY <1>6, <2>1, CheckFine
<1>7. CASE FileLost \/ FileResult
  <2>1. ~InHand(job')
    BY <1>7, FileFine DEF InHand, Recording
  <2> QED
    BY <1>7, <2>1, FileFine
<1>8. CASE RunCallback \/ RunImNotify
  BY <1>8, TellFine DEF RunCallback, RunImNotify, Telling
<1>9. CASE RecordHealthEvent
  BY <1>9, RecordFine
<1>10. CASE PassEnds \/ RefreshEnds \/ CallDispatches \/ EvictUpdate
            \/ (\E w \in Worker : Probe(w)) \/ (\E v \in Task : EvictKill(v))
  BY <1>1, <1>2, <1>3, <1>10, IdleFine, DispatchFine, ProbeFine, KillFine, EvictFine
<1> QED
  BY <1>4, <1>5, <1>6, <1>7, <1>8, <1>9, <1>10, JobMovesOrStays
  DEF JobMoves, PassEnds

(* A new pass has every running task before it. *)
LEMMA BegunUnvisited ==
  ASSUME EventsTyped, TickBegins
  PROVE  Unvisited' = Running /\ InRefresh(job') /\ ~InHand(job') /\ ~Telling(job')
<1> DEFINE listing(t) == [task |-> t, host |-> rows[t].worker,
                          preemptible |-> rows[t].options.preemptible]
           todo == {listing(t) : t \in Running}
<1>1. job'.phase = "refresh" /\ job'.todo = todo
  BY BeginFine
<1>2. InRefresh(job') /\ ~InHand(job') /\ ~Telling(job')
  BY <1>1 DEF InRefresh, InHand, Telling, Recording
<1>3. \A r \in todo : r.task \in Running
  OBVIOUS
<1>4. \A t \in Running : listing(t) \in todo /\ listing(t).task = t
  OBVIOUS
<1> HIDE DEF todo, listing
<1>5. {r.task : r \in todo} = Running
  <2>1. \A t \in Running : \E r \in todo : r.task = t
    BY <1>4
  <2> QED
    BY <1>3, <2>1
<1>6. Unvisited' = {r.task : r \in job'.todo}
  BY <1>2 DEF Unvisited
<1> QED
  BY <1>1, <1>2, <1>5, <1>6

LEMMA UnvisitedSteps ==
  ASSUME EventsTyped, VisitedOnce, [Next]_vars
  PROVE  \/ TickBegins /\ Unvisited' = Running
         \/ Unvisited' \subseteq Unvisited
<1>1. CASE TickBegins
  BY <1>1, BegunUnvisited
<1>2. CASE ~InRefresh(job')
  BY <1>2 DEF Unvisited
<1>3. CASE UNCHANGED job
  BY <1>3 DEF Unvisited
<1>4. CASE /\ InRefresh(job') /\ InRefresh(job) /\ job'.todo \subseteq job.todo
           /\ InHand(job') \/ Telling(job') =>
                 \/ /\ InHand(job) \/ Telling(job)
                    /\ InHand(job') => InHand(job)
                    /\ job'.task = job.task
                 \/ /\ InHand(job')
                    /\ \E r \in job.todo :
                         job'.task = r.task /\ job'.todo = job.todo \ {r}
  BY <1>4 DEF Unvisited
<1> QED
  BY <1>1, <1>2, <1>3, <1>4, RefreshSteps

LEMMA VisitsStep ==
  ASSUME EventsTyped, VisitedOnce, [Next]_vars
  PROVE  VisitedOnce'
<1>1. SUFFICES ASSUME InRefresh(job')
               PROVE  /\ \A r, s \in job'.todo : r.task = s.task => r = s
                      /\ InHand(job') \/ Telling(job')
                           => \A r \in job'.todo : r.task # job'.task
                      /\ \A t \in Unvisited' : rows'[t].status \notin Results
  BY DEF VisitedOnce
<1>2. CASE TickBegins
  <2>1. /\ job'.phase = "refresh"
        /\ job'.todo = {[task |-> t, host |-> rows[t].worker,
                         preemptible |-> rows[t].options.preemptible] :
                            t \in Running}
    BY <1>2, BeginFine
  <2>2. ~InHand(job') /\ ~Telling(job')
    BY <2>1 DEF InHand, Telling, Recording
  <2>3. Unvisited' = Running /\ rows' = rows
    BY <1>2, BegunUnvisited DEF TickBegins
  <2>4. \A t \in Running : rows[t].status \notin Results
    BY DEF Running, Results
  <2> QED
    BY <2>1, <2>2, <2>3, <2>4
<1>3. \A t \in Unvisited' : t \in Unvisited => rows'[t].status \notin Results
  <2>1. SUFFICES ASSUME NEW t \in Unvisited', t \in Unvisited,
                        rows'[t].status \in Results
                 PROVE  FALSE
    OBVIOUS
  <2>2. InRefresh(job)
    BY <2>1 DEF Unvisited
  <2>3. rows[t].status \notin Results
    BY <2>1, <2>2 DEF VisitedOnce
  <2>4. t \in Task
    BY <2>1, <2>2 DEF Unvisited, EventsTyped, JobFine, Listing
  <2>5. (FileLost \/ FileResult) /\ t = job.task
    BY <2>1, <2>3, <2>4, StatusSteps
  <2>6. InHand(job) /\ job'.phase = "callback" /\ job'.todo = job.todo
    BY <2>5, FileFine
  <2>7. ~InHand(job')
    BY <2>6 DEF InHand, Recording
  <2>8. \E r \in job.todo : r.task = job.task
    BY <1>1, <2>1, <2>5, <2>6, <2>7 DEF Unvisited
  <2> QED
    BY <2>2, <2>6, <2>8 DEF VisitedOnce
<1>4. CASE ~TickBegins
  <2>1. Unvisited' \subseteq Unvisited
    BY <1>4, UnvisitedSteps
  <2>2. \A t \in Unvisited' : rows'[t].status \notin Results
    BY <1>3, <2>1
  <2>3. \/ job' = job
        \/ /\ InRefresh(job) /\ job'.todo \subseteq job.todo
           /\ InHand(job') \/ Telling(job') =>
                \/ (InHand(job) \/ Telling(job)) /\ job'.task = job.task
                \/ \E r \in job.todo :
                     job'.task = r.task /\ job'.todo = job.todo \ {r}
    BY <1>1, <1>4, RefreshSteps
  <2>4. InRefresh(job)
    BY <1>1, <2>3
  <2>5. /\ \A r, s \in job.todo : r.task = s.task => r = s
        /\ InHand(job) \/ Telling(job) => \A r \in job.todo : r.task # job.task
    BY <2>4 DEF VisitedOnce
  <2> QED
    BY <2>2, <2>3, <2>5
<1> QED
  BY <1>2, <1>4

LEMMA AttemptsTyped ==
  ASSUME EventsTyped, NEW t \in Task, NEW i \in 1 .. Len(announced[t])
  PROVE  announced[t][i].attempt \in Nat
<1>1. announced[t] \in Seq(Announcement)
  BY DEF EventsTyped
<1>2. announced[t][i] \in Announcement
  BY <1>1
<1> QED
  BY <1>2 DEF Announcement

(* One notification of the task is appended to its history. *)
Tells(t) ==
  /\ t = job.task /\ Telling(job) /\ attempt'[t] = attempt[t]
  /\ Len(announced'[t]) = Len(announced[t]) + 1
  /\ \A i \in 1 .. Len(announced[t]) : announced'[t][i] = announced[t][i]
  /\ RunCallback \/ RunImNotify
  /\ \E via \in Via :
       /\ via = IF RunCallback THEN "callback" ELSE "im"
       /\ announced'[t][Len(announced[t]) + 1]
            = [attempt |-> attempt[t], via |-> via, event |-> job.event]

(* What a step does to the history of one task *)
HistoryMoves(t) ==
  \/ announced'[t] = announced[t] /\ attempt'[t] = attempt[t]
  \/ /\ announced'[t] = announced[t] /\ attempt'[t] = attempt[t] + 1
     /\ \E w \in Worker : Launch(t, w)
  \/ Tells(t)

LEMMA HistoryMovesOnly ==
  ASSUME EventsTyped, [Next]_vars, NEW t \in Task
  PROVE  HistoryMoves(t) /\ Len(announced[t]) \in Nat
<1>1. Len(announced[t]) \in Nat
  BY DEF EventsTyped
<1>2. RunCallback \/ RunImNotify => Telling(job)
  BY DEF RunCallback, RunImNotify, Telling
<1>3. ~(RunCallback /\ RunImNotify)
  BY DEF RunCallback, RunImNotify
<1>4. ASSUME NEW via \in Via, Announced(via), RunCallback \/ RunImNotify,
             via = IF RunCallback THEN "callback" ELSE "im"
      PROVE  HistoryMoves(t)
  <2>1. attempt' = attempt
    BY <1>4 DEF Announced
  <2>2. CASE t = job.task
    BY <1>2, <1>4, <2>1, <2>2, AnnouncedTyped DEF HistoryMoves, Tells
  <2>3. CASE t # job.task
    BY <1>4, <2>1, <2>3, AnnouncedTyped DEF HistoryMoves, Tells
  <2> QED
    BY <2>2, <2>3
<1>5. CASE UNCHANGED announced
  <2>1. ASSUME NEW u \in Task, NEW w \in Worker, Launch(u, w)
        PROVE  attempt'[t] = attempt[t] \/ (u = t /\ attempt'[t] = attempt[t] + 1)
    BY <2>1 DEF Launch, EventsTyped
  <2> QED
    BY <1>5, <2>1, HistorySteps DEF HistoryMoves
<1> QED
  BY <1>1, <1>3, <1>4, <1>5, AnnouncedSteps DEF Via

(* A result is told of an attempt only by the notification itself. *)
LEMMA UntoldSteps ==
  ASSUME EventsTyped, ToldOnce, [Next]_vars, NEW t \in Task, NEW via \in Via,
         Untold(t, via)
  PROVE  \/ Untold(t, via)'
         \/ /\ t = job.task /\ Telling(job)
            /\ \/ RunCallback /\ via = "callback"
               \/ RunImNotify /\ via = "im"
<1>1. HistoryMoves(t) /\ Len(announced[t]) \in Nat
  BY HistoryMovesOnly
<1>2. attempt[t] \in Nat
  BY DEF EventsTyped
<1>3. CASE announced'[t] = announced[t] /\ attempt'[t] = attempt[t]
  BY <1>3 DEF Untold
<1>4. CASE announced'[t] = announced[t] /\ attempt'[t] = attempt[t] + 1
  <2>1. \A i \in 1 .. Len(announced[t]) : announced[t][i].attempt # attempt[t] + 1
    <3>1. \A i \in 1 .. Len(announced[t]) :
            announced[t][i].attempt <= attempt[t] /\ announced[t][i].attempt \in Nat
      BY AttemptsTyped DEF ToldOnce
    <3> QED
      BY <1>2, <3>1
  <2> QED
    BY <1>4, <2>1 DEF Untold
<1>5. ASSUME t = job.task, Telling(job), attempt'[t] = attempt[t],
             Len(announced'[t]) = Len(announced[t]) + 1,
             \A i \in 1 .. Len(announced[t]) : announced'[t][i] = announced[t][i],
             NEW v \in Via,
             announced'[t][Len(announced[t]) + 1]
               = [attempt |-> attempt[t], via |-> v, event |-> job.event],
             v # via
      PROVE  Untold(t, via)'
  <2>1. ASSUME NEW i \in 1 .. Len(announced'[t]),
               announced'[t][i].attempt = attempt'[t], announced'[t][i].via = via
        PROVE  announced'[t][i].event \notin Results
    <3>1. i \in 1 .. Len(announced[t]) \/ i = Len(announced[t]) + 1
      BY <1>1, <1>5
    <3>2. i # Len(announced[t]) + 1
      BY <1>5, <2>1
    <3>3. announced'[t][i] = announced[t][i]
      BY <1>5, <3>1, <3>2
    <3> QED
      BY <1>5, <2>1, <3>1, <3>2, <3>3 DEF Untold
  <2> QED
    BY <2>1 DEF Untold
<1>6. CASE Tells(t)
  <2>1. PICK v \in Via :
          /\ v = IF RunCallback THEN "callback" ELSE "im"
          /\ announced'[t][Len(announced[t]) + 1]
               = [attempt |-> attempt[t], via |-> v, event |-> job.event]
    BY <1>6 DEF Tells
  <2>2. CASE v = via
    <3>1. t = job.task /\ Telling(job) /\ (RunCallback \/ RunImNotify)
      BY <1>6 DEF Tells
    <3>2. RunCallback => via = "callback"
      BY <2>1, <2>2
    <3>3. ~RunCallback => via = "im"
      BY <2>1, <2>2
    <3> QED
      BY <3>1, <3>2, <3>3
  <2>3. CASE v # via
    BY <1>5, <1>6, <2>1, <2>3 DEF Tells
  <2> QED
    BY <2>2, <2>3
<1> QED
  BY <1>1, <1>3, <1>4, <1>6 DEF HistoryMoves

(* A new attempt starts with nothing told. *)
LEMMA LaunchedUntold ==
  ASSUME EventsTyped, ToldOnce, [Next]_vars, NEW t \in Task, NEW via \in Via,
         NEW w \in Worker, Launch(t, w)
  PROVE  Untold(t, via)'
<1>1. announced'[t] = announced[t] /\ attempt'[t] = attempt[t] + 1
  BY DEF Launch, EventsTyped
<1>2. \A i \in 1 .. Len(announced[t]) :
        announced[t][i].attempt <= attempt[t] /\ announced[t][i].attempt \in Nat
  BY AttemptsTyped DEF ToldOnce
<1>3. ASSUME NEW i \in 1 .. Len(announced[t])
      PROVE  announced[t][i].attempt # attempt[t] + 1
  <2>1. attempt[t] \in Nat
    BY DEF EventsTyped
  <2>2. \A a, b \in Nat : a <= b => a # b + 1
    OBVIOUS
  <2> QED
    BY <1>2, <2>1, <2>2
<1> QED
  BY <1>1, <1>3 DEF Untold

LEMMA UntoldOfRunning ==
  ASSUME EventsTyped, NewsIsOfStopped, ToldOnce, [Next]_vars,
         NEW t \in Task, NEW via \in Via, rows'[t].status = "running"
  PROVE  Untold(t, via)'
<1>1. CASE \E w \in Worker : Launch(t, w)
  BY <1>1, LaunchedUntold
<1>2. CASE rows'[t] = rows[t]
  <2>1. rows[t].status = "running"
    BY <1>2
  <2>2. Untold(t, via)
    BY <2>1 DEF ToldOnce
  <2>3. ~(t = job.task /\ Telling(job))
    BY <2>1 DEF NewsIsOfStopped
  <2> QED
    BY <2>2, <2>3, UntoldSteps
<1> QED
  BY <1>1, <1>2, StatusSteps

LEMMA UntoldOfUnvisited ==
  ASSUME EventsTyped, NewsIsOfStopped, VisitedOnce, ToldOnce, [Next]_vars,
         NEW t \in Task, NEW via \in Via, t \in Unvisited'
  PROVE  Untold(t, via)'
<1>1. CASE TickBegins /\ Unvisited' = Running
  <2>1. rows'[t].status = "running"
    BY <1>1 DEF TickBegins, Running
  <2> QED
    BY <2>1, UntoldOfRunning
<1>2. CASE Unvisited' \subseteq Unvisited
  <2>1. t \in Unvisited /\ Untold(t, via) /\ InRefresh(job)
    BY <1>2 DEF ToldOnce, Unvisited
  <2>2. ASSUME RunCallback \/ RunImNotify PROVE t # job.task
    <3>1. job'.todo = job.todo /\ ~InHand(job') /\ Telling(job)
      BY <2>2, TellFine DEF RunCallback, RunImNotify, Telling
    <3>2. \E r \in job.todo : r.task = t
      BY <3>1 DEF Unvisited
    <3> QED
      BY <2>1, <3>1, <3>2 DEF VisitedOnce
  <2> QED
    BY <2>1, <2>2, UntoldSteps
<1> QED
  BY <1>1, <1>2, UnvisitedSteps

LEMMA UntoldOfTelling ==
  ASSUME EventsTyped, ToldOnce, [Next]_vars, Telling(job'),
         NEW t \in Task, t = job'.task, NEW via \in Via,
         via = "im" \/ job'.phase = "callback"
  PROVE  Untold(t, via)'
<1>1. CASE job' = job
  <2>1. Telling(job) /\ t = job.task /\ Untold(t, via)
    BY <1>1 DEF ToldOnce, Via, Telling
  <2>2. ~RunCallback
    BY <1>1 DEF RunCallback, Goto, EventsTyped, JobFine, Job
  <2>3. ~RunImNotify
    BY <1>1, TellFine, <2>2
  <2> QED
    BY <2>1, <2>2, <2>3, UntoldSteps
<1>2. CASE FileLost \/ FileResult
  <2>1. t = job.task /\ InHand(job) /\ InRefresh(job)
    BY <1>2, FileFine
  <2>2. t \in Unvisited /\ ~Telling(job)
    BY <1>2, <2>1 DEF Unvisited, Telling, FileLost, FileResult
  <2> QED
    BY <2>2, UntoldSteps DEF ToldOnce
<1>3. CASE RunCallback
  <2>1. t = job.task /\ job'.phase = "im" /\ job.phase = "callback"
    BY <1>3, TellFine DEF RunCallback
  <2>2. via = "im" /\ Untold(t, via) /\ ~RunImNotify
    BY <2>1 DEF ToldOnce, Telling, RunImNotify
  <2> QED
    BY <2>2, UntoldSteps
<1>4. CASE EvictUpdate
  <2>1. t = job.task /\ t \in Running
    BY <1>4, EvictFine
  <2>2. rows[t].status = "running" /\ ~Telling(job)
    BY <1>4, <2>1 DEF Running, EvictUpdate, Telling
  <2> QED
    BY <2>2, UntoldSteps DEF ToldOnce
<1> QED
  BY <1>1, <1>2, <1>3, <1>4, TellingSteps

LEMMA OneResultStep ==
  ASSUME EventsTyped, ToldOnce, [Next]_vars, NEW t \in Task
  PROVE  /\ \A i, j \in 1 .. Len(announced'[t]) :
              LET a == announced'[t][i]
                  b == announced'[t][j]
              IN  (i < j /\ a.event \in Results /\ b.event \in Results)
                    => a.attempt # b.attempt \/ a.via # b.via
         /\ \A i \in 1 .. Len(announced'[t]) :
              announced'[t][i].attempt <= attempt'[t]
<1>1. HistoryMoves(t) /\ Len(announced[t]) \in Nat /\ attempt[t] \in Nat
  BY HistoryMovesOnly DEF EventsTyped
<1>2. /\ \A i, j \in 1 .. Len(announced[t]) :
              LET a == announced[t][i]
                  b == announced[t][j]
              IN  (i < j /\ a.event \in Results /\ b.event \in Results)
                    => a.attempt # b.attempt \/ a.via # b.via
      /\ \A i \in 1 .. Len(announced[t]) :
           announced[t][i].attempt <= attempt[t] /\ announced[t][i].attempt \in Nat
  BY AttemptsTyped DEF ToldOnce, OneResultPerAttempt
<1>3. CASE announced'[t] = announced[t] /\ attempt'[t] \in {attempt[t], attempt[t] + 1}
  BY <1>1, <1>2, <1>3
<1>4. ASSUME Tells(t)
      PROVE  /\ \A i, j \in 1 .. Len(announced'[t]) :
                  LET a == announced'[t][i]
                      b == announced'[t][j]
                  IN  (i < j /\ a.event \in Results /\ b.event \in Results)
                        => a.attempt # b.attempt \/ a.via # b.via
             /\ \A i \in 1 .. Len(announced'[t]) :
                  announced'[t][i].attempt <= attempt'[t]
  <2>1. PICK v \in Via :
          /\ v = IF RunCallback THEN "callback" ELSE "im"
          /\ announced'[t][Len(announced[t]) + 1]
               = [attempt |-> attempt[t], via |-> v, event |-> job.event]
    BY <1>4 DEF Tells
  <2>2. Untold(t, v)
    BY <1>4, <2>1 DEF Tells, ToldOnce, RunCallback
  <2>3. PICK n \in Nat : n = Len(announced[t])
    BY <1>1
  <2>4. \A i \in 1 .. n + 1 : i \in 1 .. n \/ i = n + 1
    OBVIOUS
  <2>5. ASSUME NEW i \in 1 .. n + 1, NEW j \in 1 .. n + 1, i < j,
               announced'[t][i].event \in Results, announced'[t][j].event \in Results
        PROVE  \/ announced'[t][i].attempt # announced'[t][j].attempt
               \/ announced'[t][i].via # announced'[t][j].via
    <3>1. i \in 1 .. n /\ announced'[t][i] = announced[t][i]
      BY <1>4, <2>3, <2>5 DEF Tells
    <3>2. CASE j \in 1 .. n
      <4>1. announced'[t][j] = announced[t][j]
        BY <1>4, <2>3, <3>2 DEF Tells
      <4> QED
        BY <1>2, <2>3, <2>5, <3>1, <3>2, <4>1
    <3>3. CASE j = n + 1
      <4>1. announced'[t][j].attempt = attempt[t] /\ announced'[t][j].via = v
        BY <2>1, <2>3, <3>3
      <4> QED
        BY <2>2, <2>3, <2>5, <3>1, <4>1 DEF Untold
    <3> QED
      BY <2>4, <3>2, <3>3
  <2>6. ASSUME NEW i \in 1 .. n + 1
        PROVE  announced'[t][i].attempt <= attempt'[t]
    <3>1. CASE i \in 1 .. n
      BY <1>2, <1>4, <2>3, <3>1 DEF Tells
    <3>2. CASE i = n + 1
      BY <1>1, <1>4, <2>1, <2>3, <3>2 DEF Tells
    <3> QED
      BY <2>4, <3>1, <3>2
  <2> QED
    BY <1>4, <2>3, <2>5, <2>6 DEF Tells
<1> QED
  BY <1>1, <1>3, <1>4 DEF HistoryMoves

LEMMA ToldStep ==
  ASSUME EventsTyped, NewsIsOfStopped, VisitedOnce, ToldOnce, [Next]_vars
  PROVE  ToldOnce'
<1>1. OneResultPerAttempt'
  BY OneResultStep DEF OneResultPerAttempt
<1>2. \A t \in Task : \A i \in 1 .. Len(announced'[t]) :
        announced'[t][i].attempt <= attempt'[t]
  BY OneResultStep
<1>3. \A t \in Task, via \in Via :
        rows'[t].status = "running" \/ t \in Unvisited' => Untold(t, via)'
  BY UntoldOfRunning, UntoldOfUnvisited
<1>4. ASSUME Telling(job')
      PROVE  /\ job'.phase = "callback" => Untold(job.task, "callback")'
             /\ Untold(job.task, "im")'
  <2>1. PICK t \in Task : t = job'.task
    BY <1>4, JobStaysFine DEF JobFine
  <2>2. /\ job'.phase = "callback" => Untold(t, "callback")'
        /\ Untold(t, "im")'
    BY <1>4, <2>1, UntoldOfTelling DEF Via
  <2> QED
    BY <2>1, <2>2 DEF Untold
<1>5. job'.phase = "callback" => Telling(job')
  BY DEF Telling
<1> QED
  BY <1>1, <1>2, <1>3, <1>4, <1>5 DEF ToldOnce

(* A notification under way is completed, but for a restart. *)
LEMMA TellingMoves ==
  ASSUME [Next]_vars, Telling(job)
  PROVE  job' = job \/ RunCallback \/ RunImNotify \/ Restart
<1>1. job.phase \in {"callback", "im"}
  BY DEF Telling
<1> QED
  BY <1>1, JobMovesOrStays
  DEF JobMoves, RecordHealthEvent, TickBegins, SkipTask, ReadExitCode,
      ReadExitCodeRaises, Listed, CheckSession, CheckSessionRaises, FileLost,
      FileResult, TailLogsRaises, RefreshEnds, CallDispatches, DispatchEnds,
      Dispatching, Probe, EvictKill, EvictUpdate

LEMMA TellingTells ==
  ASSUME EventsTyped, RunCallback \/ RunImNotify, NEW t \in Task, t = job.task,
         job.event = rows'[t].status, NEW via \in Via,
         via = IF RunCallback THEN "callback" ELSE "im"
  PROVE  Told(t, via)'
<1>1. Announced(via)
  BY DEF RunCallback, RunImNotify, Announces, Announced
<1>2. /\ Len(announced[t]) \in Nat /\ Len(announced'[t]) = Len(announced[t]) + 1
      /\ announced'[t][Len(announced[t]) + 1]
           = [attempt |-> attempt[t], via |-> via, event |-> job.event]
  BY <1>1, AnnouncedTyped
<1>3. attempt' = attempt
  BY <1>1 DEF Announced
<1>4. Len(announced[t]) + 1 \in 1 .. Len(announced'[t])
  BY <1>2
<1> QED
  BY <1>2, <1>3, <1>4 DEF Told

LEMMA ToldKept ==
  ASSUME EventsTyped, [Next]_vars, NEW t \in Task, NEW via \in Via,
         rows'[t] = rows[t], rows[t].status \in Results, Told(t, via)
  PROVE  Told(t, via)'
<1>1. HistoryMoves(t) /\ Len(announced[t]) \in Nat
  BY HistoryMovesOnly
<1>2. \A w \in Worker : ~Launch(t, w)
  BY DEF Launch, Queued, Results
<1>3. /\ attempt'[t] = attempt[t] /\ Len(announced'[t]) >= Len(announced[t])
      /\ \A i \in 1 .. Len(announced[t]) : announced'[t][i] = announced[t][i]
  <2>1. CASE Tells(t)
    BY <1>1, <2>1 DEF Tells
  <2> QED
    BY <1>1, <1>2, <2>1 DEF HistoryMoves
<1>4. PICK i \in 1 .. Len(announced[t]) :
        /\ announced[t][i].attempt = attempt[t] /\ announced[t][i].via = via
        /\ announced[t][i].event = rows[t].status
  BY DEF Told
<1>5. Len(announced'[t]) \in Nat
  BY <1>1 DEF HistoryMoves, Tells
<1>6. i \in 1 .. Len(announced'[t]) /\ announced'[t][i] = announced[t][i]
  BY <1>1, <1>3, <1>5
<1> QED
  BY <1>3, <1>4, <1>6 DEF Told

(* The result that refresh files is the event it is about to tell. *)
LEMMA FiledIsTold ==
  ASSUME EventsTyped, VisitedOnce, [Next]_vars, NEW t \in Task, t = job.task,
         FileLost \/ FileResult, rows'[t].status \in Results
  PROVE  /\ job'.task = t /\ job'.phase = "callback"
         /\ job'.event = rows'[t].status
<1>1. rows[t].status \notin Results /\ RowFine(rows[t])
  <2>1. InHand(job) /\ InRefresh(job)
    BY FileFine
  <2> QED
    BY <2>1 DEF VisitedOnce, Unvisited, EventsTyped
<1>2. CASE FileResult
  <2>1. rows'[t] = FinishTask(rows[t], job.code) /\ job.code \in ExitCode
    BY <1>2 DEF FileResult, SetRow, EventsTyped, JobFine, HasCode
  <2>2. rows'[t].status = IF job.code = 0 THEN "succeeded" ELSE "failed"
    BY <1>1, <2>1 DEF FinishTask, RowFine, Row, Results
  <2> QED
    BY <1>2, <2>2, FileFine
<1>3. ASSUME FileLost
      PROVE  /\ job'.task = t /\ job'.phase = "callback"
             /\ job'.event = rows'[t].status
  <2>1. rows'[t] = IF job.preemptible THEN RequeueTask(rows[t]) ELSE FailTask(rows[t])
    BY <1>3 DEF FileLost, SetRow, EventsTyped
  <2>2. ~job.preemptible /\ rows'[t].status = "failed"
    BY <1>1, <2>1 DEF RequeueTask, FailTask, Unplaced, RowFine, Row, Results
  <2>3. ~FileResult
    BY <1>3 DEF FileLost, FileResult
  <2>4. /\ job'.task = job.task /\ job'.phase = "callback"
        /\ job'.event = IF job.preemptible THEN "switch" ELSE "failed"
    BY <1>3, <2>3, FileFine
  <2> QED
    BY <2>2, <2>4
<1> QED
  BY <1>2, <1>3

LEMMA ResultsStep ==
  ASSUME EventsTyped, VisitedOnce, ResultsTold, [Next]_vars
  PROVE  ResultsTold'
<1>1. SUFFICES ASSUME ~restarts', NEW t \in Task, NEW via \in Via,
                      rows'[t].status \in Results
               PROVE  Told(t, via)' \/ BeingTold(t, via)'
  BY DEF ResultsTold
<1>2. ~restarts /\ ~Restart
  <2>1. ~Restart
    BY <1>1, Zenon DEF Restart
  <2>2. restarts' = restarts
    BY <2>1, HistorySteps
  <2> QED
    BY <1>1, <2>1, <2>2, Zenon
<1>3. CASE (FileLost \/ FileResult) /\ t = job.task
  <2>1. /\ job'.task = t /\ job'.phase = "callback"
        /\ job'.event = rows'[t].status
    BY <1>1, <1>3, FiledIsTold
  <2> QED
    BY <2>1 DEF BeingTold
<1>4. CASE rows'[t] = rows[t] /\ Told(t, via)
  BY <1>1, <1>4, ToldKept
<1>5. CASE rows'[t] = rows[t] /\ BeingTold(t, via)
  <2>1. /\ Telling(job) /\ job.task = t /\ job.event = rows[t].status
        /\ job.phase = "callback" \/ (job.phase = "im" /\ via = "im")
    BY <1>5 DEF BeingTold, Telling
  <2>2. CASE job' = job
    BY <1>5, <2>1, <2>2 DEF BeingTold
  <2>3. CASE RunCallback /\ via = "callback"
    BY <1>5, <2>1, <2>3, TellingTells
  <2>4. CASE RunCallback /\ via = "im"
    BY <1>5, <2>1, <2>4, TellFine DEF BeingTold
  <2>5. CASE RunImNotify
    <3>1. via = "im" /\ ~RunCallback
      BY <2>1, <2>5 DEF RunImNotify, RunCallback
    <3> QED
      BY <1>5, <2>1, <2>5, <3>1, TellingTells
  <2> QED
    BY <1>2, <2>1, <2>2, <2>3, <2>4, <2>5, TellingMoves DEF Via
<1> QED
  BY <1>1, <1>2, <1>3, <1>4, <1>5, StatusSteps DEF ResultsTold

(* A probe of a worker, and the events it gives rise to *)
Marked(w) ==
  /\ health'[w] \in {"online", "offline"}
  /\ \A v \in Worker \ {w} : health'[v] = health[v]
  /\ ~Recording(job)
  /\ \/ ~Recording(job') /\ (health'[w] = "offline" <=> health[w] = "offline")
     \/ /\ job'.phase = "unreachable" /\ job'.host = w
        /\ health'[w] = "offline" /\ health[w] # "offline"
     \/ /\ job'.phase = "recovered" /\ job'.host = w
        /\ health'[w] = "online" /\ health[w] = "offline"
  /\ rows' = rows /\ outage' = outage
  /\ \/ job'.up = {}
     \/ job'.up = job.up /\ w \notin job.up
     \/ job'.up = job.up \cup {w} /\ health'[w] = "online"

LEMMA MarkSteps ==
  ASSUME EventsTyped, NEW w \in Worker, NEW p, NEW after,
         MarkReachable(w, p, after) \/ MarkUnreachable(w, p, after),
         after \in Job, p \notin {"recovered", "unreachable"}
  PROVE  /\ health'[w] \in {"online", "offline"}
         /\ \A v \in Worker \ {w} : health'[v] = health[v]
         /\ \/ /\ ~Recording(job')
               /\ health'[w] = "offline" <=> health[w] = "offline"
            \/ /\ job'.phase = "unreachable" /\ job'.host = w
               /\ health'[w] = "offline" /\ health[w] # "offline"
            \/ /\ job'.phase = "recovered" /\ job'.host = w
               /\ health'[w] = "online" /\ health[w] = "offline"
<1>1. health \in [Worker -> Connection]
  BY DEF EventsTyped
<1>2. \A e : [after EXCEPT !.phase = e].phase = e
  BY DEF Job
<1>3. \A e : /\ [after EXCEPT !.phase = e, !.host = w, !.next = p].phase = e
             /\ [after EXCEPT !.phase = e, !.host = w, !.next = p].host = w
  BY DEF Job
<1>4. CASE MarkReachable(w, p, after)
  <2>1. health'[w] = "online" /\ \A v \in Worker \ {w} : health'[v] = health[v]
    BY <1>1, <1>4 DEF MarkReachable
  <2>2. IF health[w] = "offline" THEN job'.phase = "recovered" /\ job'.host = w
                                 ELSE job'.phase = p
    BY <1>2, <1>3, <1>4 DEF MarkReachable
  <2> QED
    BY <2>1, <2>2 DEF Recording
<1>5. CASE MarkUnreachable(w, p, after)
  <2>1. health'[w] = "offline" /\ \A v \in Worker \ {w} : health'[v] = health[v]
    BY <1>1, <1>5 DEF MarkUnreachable
  <2>2. IF health[w] # "offline" THEN job'.phase = "unreachable" /\ job'.host = w
                                 ELSE job'.phase = p
    BY <1>2, <1>3, <1>5 DEF MarkUnreachable
  <2> QED
    BY <2>1, <2>2 DEF Recording
<1> QED
  BY <1>4, <1>5

LEMMA RefreshMarks ==
  ASSUME EventsTyped,
         \/ \E r \in job.todo : ReadExitCode(r) \/ ReadExitCodeRaises(r)
         \/ CheckSessionRaises
  PROVE  \E w \in Worker : Marked(w)
<1>1. /\ job \in Job /\ job.todo \subseteq Listing /\ job.up = {}
      /\ InRefresh(job) /\ ~Recording(job) /\ rows' = rows /\ outage' = outage
  BY DEF EventsTyped, JobFine, InRefresh, InHand, ReadExitCode, ReadExitCodeRaises,
         CheckSessionRaises, Listed, Recording, historyVars
<1>2. job'.up = {}
  BY <1>1, ReadFine, FailedReadFine
<1>3. ASSUME NEW w \in Worker, NEW p \in {"refresh", "session", "exited"}, NEW after \in Job,
             MarkReachable(w, p, after) \/ MarkUnreachable(w, p, after)
      PROVE  Marked(w)
  BY <1>1, <1>2, <1>3, MarkSteps DEF Marked
<1>4. ASSUME NEW r \in job.todo, ReadExitCode(r)
      PROVE  \E w \in Worker : Marked(w)
  <2>1. r.task \in Task /\ r.host \in Worker /\ r.preemptible \in BOOLEAN
    BY <1>1 DEF Listing
  <2>2. PICK code \in ExitCode \cup {None} : code = exitFile[r.host][r.task]
    BY <2>1 DEF EventsTyped, HostTyped
  <2> DEFINE after == [Taken(r) EXCEPT !.code = code]
  <2>3. after \in Job
    BY <1>1, <2>1, <2>2 DEF Taken, Job
  <2>4. PICK p \in {"session", "exited"} : MarkReachable(r.host, p, after)
    BY <1>4, <2>2 DEF ReadExitCode
  <2> HIDE DEF after
  <2> QED
    BY <1>3, <2>1, <2>3, <2>4
<1>5. ASSUME NEW r \in job.todo, ReadExitCodeRaises(r)
      PROVE  \E w \in Worker : Marked(w)
  <2> DEFINE after == [job EXCEPT !.todo = @ \ {r}, !.down = @ \cup {r.host}]
  <2>1. r.host \in Worker
    BY <1>1 DEF Listing
  <2>2. after \in Job
    BY <1>1, <2>1 DEF Job
  <2>3. MarkUnreachable(r.host, "refresh", after)
    BY <1>5 DEF ReadExitCodeRaises
  <2> HIDE DEF after
  <2> QED
    BY <1>3, <2>1, <2>2, <2>3
<1>6. CASE CheckSessionRaises
  <2> DEFINE after == [Loop("refresh") EXCEPT !.down = @ \cup {job.host}]
  <2>1. job.host \in Worker
    BY <1>6 DEF CheckSessionRaises, EventsTyped, JobFine, InHand
  <2>2. after \in Job
    BY <1>1, <2>1, LoopFine DEF JobFine, Job
  <2>3. MarkUnreachable(job.host, "refresh", after)
    BY <1>6 DEF CheckSessionRaises
  <2> HIDE DEF after
  <2> QED
    BY <1>3, <2>1, <2>2, <2>3
<1> QED
  BY <1>4, <1>5, <1>6

LEMMA ProbeMarks ==
  ASSUME EventsTyped, NEW w \in Worker, Probe(w)
  PROVE  Marked(w)
<1>1. /\ job \in Job /\ job.todo \subseteq Worker /\ job.todo \cap job.up = {}
      /\ w \in job.todo /\ ~Recording(job) /\ rows' = rows /\ outage' = outage
  BY DEF EventsTyped, JobFine, InDispatch, Probe, Recording, historyVars
<1> DEFINE rest == [job EXCEPT !.todo = @ \ {w}]
           more == [rest EXCEPT !.up = @ \cup {w}]
<1>2. rest \in Job /\ more \in Job
  BY <1>1 DEF Job
<1>3. MarkReachable(w, "probe", more) \/ MarkUnreachable(w, "probe", rest)
  BY DEF Probe
<1> HIDE DEF rest, more
<1>4. w \notin job.up
  BY <1>1
<1>5. \/ job'.up = job.up
      \/ job'.up = job.up \cup {w} /\ health'[w] = "online"
  BY ProbeFine
<1>6. /\ health'[w] \in {"online", "offline"}
      /\ \A v \in Worker \ {w} : health'[v] = health[v]
      /\ \/ /\ ~Recording(job')
            /\ health'[w] = "offline" <=> health[w] = "offline"
         \/ /\ job'.phase = "unreachable" /\ job'.host = w
            /\ health'[w] = "offline" /\ health[w] # "offline"
         \/ /\ job'.phase = "recovered" /\ job'.host = w
            /\ health'[w] = "online" /\ health[w] = "offline"
  BY <1>2, <1>3, MarkSteps
<1> QED
  BY <1>1, <1>4, <1>5, <1>6 DEF Marked

(* Whatever else moves leaves the health of the workers alone. *)
LEMMA HealthSteps ==
  ASSUME EventsTyped, [Next]_vars
  PROVE  \/ \E w \in Worker : Marked(w)
         \/ /\ health' = health /\ job'.up \subseteq job.up
            /\ job' = job \/ ~Recording(job')
<1>1. PassEnds => job' = Idle /\ Idle.up = {}
  BY DEF PassEnds, TailLogsRaises, DispatchEnds, Restart, Idle
<1>2. CASE (\E r \in job.todo : ReadExitCode(r) \/ ReadExitCodeRaises(r))
           \/ CheckSessionRaises \/ (\E w \in Worker : Probe(w))
  BY <1>2, RefreshMarks, ProbeMarks
<1>3. job'.phase \in {"refresh", "callback", "probe", "evict"} => ~Recording(job')
  BY DEF Recording
<1>4. ASSUME NEW r \in job.todo, SkipTask(r)
      PROVE  ~Recording(job') /\ job'.up \subseteq job.up
  <2>1. job.phase = "refresh" /\ job' = [job EXCEPT !.todo = job.todo \ {r}]
    BY <1>4 DEF SkipTask, Listed
  <2> QED
    BY <2>1 DEF Recording, EventsTyped, JobFine, Job
<1>5. CASE health' = health
  <2>1. CASE (\E r \in job.todo : SkipTask(r)) \/ UNCHANGED job
    BY <1>4, <1>5, <2>1
  <2>2. CASE \/ RecordHealthEvent \/ TickBegins \/ CheckSession \/ FileLost
             \/ FileResult \/ RunCallback \/ RunImNotify \/ RefreshEnds
             \/ CallDispatches \/ PassEnds \/ (\E v \in Task : EvictKill(v))
             \/ EvictUpdate
    BY <1>1, <1>3, <1>5, <2>2, IdleFine, RecordFine, BeginFine, CheckFine, FileFine,
       TellFine, DispatchFine, KillFine, EvictFine
  <2> QED
    BY <1>2, <2>1, <2>2, JobMovesOrStays DEF JobMoves, PassEnds
<1> QED
  BY <1>2, <1>5, HistorySteps

(* The event of a probe is recorded next, but for a restart. *)
LEMMA RecordingMoves ==
  ASSUME [Next]_vars, Recording(job)
  PROVE  job' = job \/ RecordHealthEvent \/ Restart
<1>1. job.phase \in {"recovered", "unreachable"}
  BY DEF Recording
<1> QED
  BY <1>1, JobMovesOrStays
  DEF JobMoves, TickBegins, SkipTask, ReadExitCode, ReadExitCodeRaises, Listed,
      CheckSession, CheckSessionRaises, FileLost, FileResult, TailLogsRaises,
      RunCallback, RunImNotify, RefreshEnds, CallDispatches, DispatchEnds,
      Dispatching, Probe, EvictKill, EvictUpdate

(* The last event of a running task agrees with its worker's state. *)
OutageRight(t) ==
  outage[t] <=> IF Recording(job) /\ rows[t].worker = job.host
                THEN job.phase = "recovered"
                ELSE health[rows[t].worker] = "offline"

LEMMA MarkedOutages ==
  ASSUME EventsTyped, NEW w \in Worker, Marked(w), NEW t \in Task,
         rows[t].worker \in Worker, OutageRight(t)
  PROVE  OutageRight(t)'
<1>1. PICK v \in Worker : v = rows[t].worker /\ rows'[t].worker = v
  BY DEF Marked
<1>2. outage[t] <=> health[v] = "offline"
  BY <1>1 DEF OutageRight, Marked
<1>3. outage'[t] <=> health[v] = "offline"
  BY <1>2 DEF Marked
<1>4. CASE v # w
  <2>1. health'[v] = health[v]
    BY <1>4 DEF Marked
  <2>2. ~(Recording(job') /\ v = job'.host)
    BY <1>4 DEF Marked
  <2> QED
    BY <1>1, <1>3, <2>1, <2>2 DEF OutageRight
<1>5. CASE v = w
  <2>1. CASE ~Recording(job') /\ (health'[w] = "offline" <=> health[w] = "offline")
    BY <1>1, <1>3, <1>5, <2>1 DEF OutageRight
  <2>2. CASE /\ job'.phase = "unreachable" /\ job'.host = w
             /\ health'[w] = "offline" /\ health[w] # "offline"
    BY <1>1, <1>3, <1>5, <2>2 DEF OutageRight, Recording
  <2>3. CASE /\ job'.phase = "recovered" /\ job'.host = w
             /\ health'[w] = "online" /\ health[w] = "offline"
    BY <1>1, <1>3, <1>5, <2>3 DEF OutageRight, Recording
  <2> QED
    BY <2>1, <2>2, <2>3 DEF Marked
<1> QED
  BY <1>4, <1>5

LEMMA RecordedOutages ==
  ASSUME EventsTyped, RecordHealthEvent, NEW t \in Task, rows[t].status = "running",
         OutageRight(t),
         health[job.host] = IF job.phase = "unreachable" THEN "offline" ELSE "online"
  PROVE  OutageRight(t)'
<1>1. ~Recording(job') /\ Recording(job)
  BY RecordFine DEF RecordHealthEvent, Recording
<1>2. rows' = rows /\ health' = health
  BY DEF RecordHealthEvent
<1>3. t \in Running
  BY DEF Running
<1>4. outage'[t] = IF rows[t].worker = job.host THEN job.phase = "unreachable"
                                                ELSE outage[t]
  BY <1>3 DEF RecordHealthEvent
<1>5. CASE rows[t].worker = job.host
  <2>1. outage'[t] <=> health[rows[t].worker] = "offline"
    BY <1>4, <1>5
  <2> QED
    BY <1>1, <1>2, <2>1 DEF OutageRight
<1>6. CASE rows[t].worker # job.host
  <2>1. outage'[t] <=> health[rows[t].worker] = "offline"
    BY <1>4, <1>6 DEF OutageRight
  <2> QED
    BY <1>1, <1>2, <2>1 DEF OutageRight
<1> QED
  BY <1>5, <1>6

LEMMA LaunchedOutages ==
  ASSUME EventsTyped, NEW u \in Task, NEW w \in Worker, Launch(u, w),
         NEW t \in Task, rows'[t].status = "running", t # u => OutageRight(t),
         health[w] = "online", u = t => rows'[t].worker = w
  PROVE  OutageRight(t)'
<1>1. ~Recording(job) /\ job' = job /\ health' = health
  BY DEF Launch, Dispatching, Recording
<1>2. CASE t = u
  <2>1. outage'[t] = FALSE /\ health'[rows'[t].worker] # "offline"
    BY <1>1, <1>2 DEF Launch, EventsTyped
  <2> QED
    BY <1>1, <2>1 DEF OutageRight
<1>3. CASE t # u
  <2>1. outage'[t] = outage[t] /\ rows'[t] = rows[t]
    BY <1>3 DEF Launch, SetRow, EventsTyped
  <2> QED
    BY <1>1, <1>3, <2>1 DEF OutageRight
<1> QED
  BY <1>2, <1>3

LEMMA OutagesStep ==
  ASSUME EventsTyped, OutagesKnown, [Next]_vars
  PROVE  OutagesKnown'
<1>1. ASSUME NEW w \in job'.up
      PROVE  health'[w] = "online"
  <2>1. ASSUME NEW v \in Worker, Marked(v)
        PROVE  health'[w] = "online"
    <3>1. job.up \subseteq Worker
      BY DEF EventsTyped, JobFine, Job
    <3> QED
      BY <1>1, <2>1, <3>1 DEF Marked, OutagesKnown
  <2> QED
    BY <1>1, <2>1, HealthSteps DEF OutagesKnown
<1>2. ASSUME Recording(job')
      PROVE  health'[job'.host] = IF job'.phase = "unreachable" THEN "offline" ELSE "online"
  <2>1. ASSUME NEW v \in Worker, Marked(v)
        PROVE  health'[job'.host] = IF job'.phase = "unreachable" THEN "offline" ELSE "online"
    BY <1>2, <2>1 DEF Marked
  <2> QED
    BY <1>2, <2>1, HealthSteps DEF OutagesKnown
<1>3. ASSUME ~restarts', NEW t \in Task, rows'[t].status = "running"
      PROVE  OutageRight(t)'
  <2>1. ~Restart
    BY <1>3, Zenon DEF Restart
  <2>2. restarts' = restarts
    BY <2>1, HistorySteps
  <2>3. ~restarts
    BY <1>3, <2>2, Zenon
  <2>4. \A u \in Task : rows[u].status = "running" => OutageRight(u)
    BY <2>3 DEF OutagesKnown, Running, OutageRight
  <2>5. CASE \E u \in Task, w \in Worker : Launch(u, w)
    <3>1. PICK u \in Task, w \in Worker : Launch(u, w)
      BY <2>5
    <3>2. health[w] = "online"
      BY <3>1 DEF Launch, OutagesKnown
    <3>3. t # u => OutageRight(t)
      BY <1>3, <2>4, <3>1 DEF Launch, SetRow, EventsTyped
    <3>4. u = t => rows'[t].worker = w
      <4>1. PICK g \in Gpu : g = CHOOSE f \in FreeGpus(w) : TRUE
        BY <3>1 DEF Launch, FreeGpus
      <4>2. rows[u].status = "queued" /\ RowFine(rows[u])
        BY <3>1 DEF Launch, Queued, EventsTyped
      <4>3. rows'[u] = MarkRunning(rows[u], w, {g})
        BY <3>1, <4>1 DEF Launch, SetRow, EventsTyped
      <4> QED
        BY <4>2, <4>3, LaunchedRow
    <3> QED
      BY <1>3, <3>1, <3>2, <3>3, <3>4, LaunchedOutages
  <2>6. CASE ~\E u \in Task, w \in Worker : Launch(u, w)
    <3>1. rows'[t] = rows[t] /\ rows[t].status = "running"
      BY <1>3, <2>6, StatusSteps
    <3>2. OutageRight(t) /\ rows[t].worker \in Worker
      BY <2>4, <3>1 DEF EventsTyped, RowFine
    <3>3. CASE \E w \in Worker : Marked(w)
      BY <3>2, <3>3, MarkedOutages
    <3>4. CASE RecordHealthEvent
      <4>1. Recording(job)
        BY <3>4 DEF RecordHealthEvent, Recording
      <4> QED
        BY <3>1, <3>2, <3>4, <4>1, RecordedOutages DEF OutagesKnown
    <3>5. CASE /\ ~RecordHealthEvent /\ health' = health
               /\ job' = job \/ ~Recording(job')
      <4>1. outage' = outage
        BY <2>6, <3>5, HistorySteps
      <4>2. job' = job \/ (~Recording(job) /\ ~Recording(job'))
        BY <2>1, <3>5, RecordingMoves
      <4> QED
        BY <3>1, <3>2, <3>5, <4>1, <4>2 DEF OutageRight
    <3> QED
      BY <3>3, <3>4, <3>5, HealthSteps
  <2> QED
    BY <2>5, <2>6
<1> QED
  BY <1>1, <1>2, <1>3 DEF OutagesKnown, Running, OutageRight

-----------------------------------------------------------------------------
(* The invariant, and what follows from it *)

LEMMA EventsBegin == Init => EventsInv
<1> SUFFICES ASSUME Init PROVE EventsInv
  OBVIOUS
<1>1. ~Recording(job) /\ ~Telling(job) /\ ~HasCode(job) /\ ~InRefresh(job)
      /\ job.phase = "idle" /\ job.up = {} /\ JobFine(job)
  BY IdleFine DEF Init, Idle
<1>2. PICK o \in [Task -> UNION {Submissions[t] : t \in Task}] :
        /\ \A t \in Task : o[t] \in Submissions[t]
        /\ rows = [t \in Task |-> CreateTask(AbsentRow, o[t], FALSE)]
  BY DEF Init
<1>3. ASSUME NEW t \in Task
      PROVE  RowFine(rows[t]) /\ rows[t].status \notin {"running", "succeeded", "failed"}
  <2>1. o[t] \in Option
    BY <1>2, SubmissionsAssumption
  <2>2. rows[t] = CreateTask(AbsentRow, o[t], FALSE)
    BY <1>2
  <2>3. Normalized(o[t]) \in Option
    BY <2>1 DEF Normalized, Option
  <2>4. rows[t] = [AbsentRow EXCEPT !.status = "queued", !.options = Normalized(o[t])]
    BY <2>2 DEF CreateTask, AbsentRow
  <2> QED
    BY <2>3, <2>4 DEF AbsentRow, RowFine, Row, Status, Final
<1>4. rows \in [Task -> Row]
  BY <1>2, <1>3 DEF RowFine
<1>5. HostTyped
  BY MaxFaultsAssumption DEF Init, HostInit, HostTyped, SessionState
<1>6. call \in CallRecord /\ call.op = "none"
  BY DEF Init, NoCall, CallRecord
<1>7. /\ health \in [Worker -> Connection] /\ waiter \in [Awaited -> {0, 1, 130, None}]
      /\ attempt \in [Task -> Nat] /\ outage \in [Task -> BOOLEAN]
      /\ wrote \in [Awaited -> SUBSET ExitCode] /\ restarts \in BOOLEAN
  BY DEF Init, Connection
<1>8. announced \in [Task -> Seq(Announcement)] /\ \A t \in Task : Len(announced[t]) = 0
  BY DEF Init
<1>9. EventsTyped
  BY <1>1, <1>3, <1>4, <1>5, <1>6, <1>7, <1>8 DEF EventsTyped
<1>10. NewsIsOfStopped /\ VisitedOnce /\ ResultsTold /\ Unvisited = {}
  BY <1>1, <1>3 DEF NewsIsOfStopped, VisitedOnce, ResultsTold, Results, Unvisited
<1>11. ToldOnce
  <2>1. \A t \in Task : 1 .. Len(announced[t]) = {}
    BY <1>8
  <2>2. OneResultPerAttempt /\ \A t \in Task, via \in Via : Untold(t, via)
    BY <2>1 DEF OneResultPerAttempt, Untold
  <2>3. job.phase # "callback" /\ ~Telling(job)
    BY <1>1
  <2>4. \A t \in Task : \A i \in 1 .. Len(announced[t]) :
          announced[t][i].attempt <= attempt[t]
    BY <2>1
  <2> QED
    BY <2>2, <2>3, <2>4 DEF ToldOnce, Via
<1>12. CodesWereWritten
  <2>1. \A t \in Awaited : t \in Task /\ waiter[t] = None
    BY AwaitedAssumption DEF Init
  <2>2. \A w \in Worker, t \in Task : exitFile[w][t] = None
    BY DEF Init, HostInit
  <2>3. None # 0
    BY NoneAssumption DEF ExitCode
  <2> QED
    BY <1>1, <1>3, <2>1, <2>2, <2>3 DEF CodesWereWritten
<1>13. OutagesKnown
  BY <1>1, <1>3 DEF OutagesKnown, Running
<1> QED
  BY <1>9, <1>10, <1>11, <1>12, <1>13 DEF EventsInv

LEMMA EventsStep == EventsInv /\ [Next]_vars => EventsInv'
BY EventsStayTyped, NewsStep, CodesStep, VisitsStep, ToldStep, ResultsStep,
   OutagesStep DEF EventsInv

LEMMA EventsInvariant == Spec => []EventsInv
<1>1. Init => EventsInv
  BY EventsBegin
<1>2. EventsInv /\ [Next]_vars => EventsInv'
  BY EventsStep
<1> QED
  BY <1>1, <1>2, PTL DEF Spec

(***************************************************************************)
(* The end of an attempt is announced at most once by the callback and at  *)
(* most once by IM (_run_task_notifications), for any number of tasks,     *)
(* clients' calls, exceptions, restarts and lost sessions: refresh visits  *)
(* a task once in a pass, and files its result before it tells it.         *)
(***************************************************************************)
THEOREM OneResultIsTold == Spec => []OneResultPerAttempt
<1>1. EventsInv => OneResultPerAttempt
  BY DEF EventsInv, ToldOnce
<1> QED
  BY <1>1, EventsInvariant, PTL

(***************************************************************************)
(* No notification is sent of a task that runs: whoever tells holds the    *)
(* dispatch lock, so what a client queued meanwhile cannot be launched     *)
(* before the notifications are out.                                       *)
(***************************************************************************)
THEOREM NewsIsOfStoppedTasks == Spec => NoNewsOfRunningTask
<1>1. EventsInv /\ [Next]_vars =>
        \A t \in Task : announced'[t] # announced[t] => rows[t].status # "running"
  <2> SUFFICES ASSUME EventsInv, [Next]_vars, NEW t \in Task,
                      announced'[t] # announced[t]
               PROVE  rows[t].status # "running"
    OBVIOUS
  <2>1. EventsTyped /\ NewsIsOfStopped
    BY DEF EventsInv
  <2>2. t = job.task /\ Telling(job)
    BY <2>1, HistoryMovesOnly DEF HistoryMoves, Tells
  <2> QED
    BY <2>1, <2>2 DEF NewsIsOfStopped
<1>2. EventsInv /\ [Next]_vars =>
        [\A t \in Task : announced'[t] # announced[t] => rows[t].status # "running"]_vars
  BY <1>1
<1> QED
  BY <1>2, EventsInvariant, PTL DEF Spec, NoNewsOfRunningTask

(***************************************************************************)
(* Unless the daemon restarts, every result is announced both ways before  *)
(* the dispatch lock is released, whatever raises in between.              *)
(***************************************************************************)
THEOREM ResultsReachTheWorld == Spec => []ResultsAreAnnounced
<1>1. EventsInv => ResultsAreAnnounced
  <2> SUFFICES ASSUME EventsInv, job.phase = "idle", ~restarts,
                      NEW t \in Task, NEW via \in {"callback", "im"},
                      rows[t].status \in Results
               PROVE  Told(t, via)
    BY DEF ResultsAreAnnounced, Told
  <2>1. ~BeingTold(t, via)
    BY DEF BeingTold
  <2> QED
    BY <2>1 DEF EventsInv, ResultsTold, Via
<1> QED
  BY <1>1, EventsInvariant, PTL

(***************************************************************************)
(* The events worker_unreachable and worker_recovered of a running task    *)
(* alternate, however often its worker is probed, unless a restart came    *)
(* between a new connection_state and its events.                          *)
(***************************************************************************)
THEOREM OutagesDoAlternate == Spec => OutagesAlternate
<1>1. EventsInv /\ [Next]_vars =>
        \A t \in Running :
          ( /\ job.phase \in {"unreachable", "recovered"} /\ job' # job
            /\ rows[t].worker = job.host /\ ~restarts' )
            => (outage[t] <=> job.phase = "recovered")
  <2> SUFFICES ASSUME EventsInv, [Next]_vars, NEW t \in Running,
                      job.phase \in {"unreachable", "recovered"},
                      rows[t].worker = job.host, ~restarts'
               PROVE  outage[t] <=> job.phase = "recovered"
    OBVIOUS
  <2>1. ~Restart
    BY Zenon DEF Restart
  <2>2. restarts' = restarts
    BY <2>1, HistorySteps
  <2>3. ~restarts
    BY <2>2, Zenon
  <2>4. Recording(job)
    BY DEF Recording
  <2> QED
    BY <2>3, <2>4 DEF EventsInv, OutagesKnown
<1>2. EventsInv /\ [Next]_vars =>
        [\A t \in Running :
          ( /\ job.phase \in {"unreachable", "recovered"} /\ job' # job
            /\ rows[t].worker = job.host /\ ~restarts' )
            => (outage[t] <=> job.phase = "recovered")]_vars
  BY <1>1
<1> QED
  BY <1>2, EventsInvariant, PTL DEF Spec, OutagesAlternate

(***************************************************************************)
(* "gpu-watcher wait" returns 0 only for a task whose command ended with   *)
(* 0: not for one that was lost, failed without a code or was canceled,    *)
(* also when it ran several times on several workers.                      *)
(***************************************************************************)
THEOREM WaitIsTruthful == Spec => []WaitSucceedsTruly
<1>1. EventsInv => WaitSucceedsTruly
  BY DEF EventsInv, CodesWereWritten, WaitSucceedsTruly
<1> QED
  BY <1>1, EventsInvariant, PTL
=============================================================================
