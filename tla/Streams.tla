------------------------------ MODULE Streams ------------------------------
(***************************************************************************)
(* The WebSocket handlers of src/gpu_watcher/api.py: task_log_stream which *)
(* follows a task's log through an ssh process and reconnects, and         *)
(* worker_nvtop_stream, a terminal on a worker.  Both are coroutines of    *)
(* the event loop, which looks tasks up in the Store: while it is inside a *)
(* Store operation (module StorePool) no handler runs.  A viewer is one    *)
(* request; its two asyncio tasks are "socket" (_wait_for_ws_close or      *)
(* _relay_ws_to_pty) and "output" (_stream_process_to_ws or                *)
(* _stream_pty_to_ws).  A log is a number of equal pieces.                 *)
(***************************************************************************)
EXTENDS StorePool, Sequences

CONSTANTS
  Viewer,     \* WebSocket requests
  Loop,       \* the thread of the event loop
  TailBytes,       \* tail_bytes of the requests, in pieces of the log
  MaxLog,     \* bound on the length of the log
  MaxFaults   \* bound on the failures of processes and of their creation

ASSUME LoopAssumption == Loop \in Client
ASSUME BoundsAssumption == {TailBytes, MaxLog, MaxFaults} \subseteq Nat

VARIABLES
  viewer,   \* viewer[v]: the state of a handler, see Handler
  written,  \* length of the log on the worker
  seen,     \* history: seen[v]: the pieces sent to v, in order
  faults    \* failures that may still happen

vars == <<viewer, written, seen, faults, poolVars>>

Handler ==
  [kind : {"log", "nvtop"},
   at : {"new", "lookup", "open", "opening", "watch", "stop", "grace", "kill",
         "sleep", "done"},
   ws : {"open", "left", "closed"},       \* "left": the client went away
   proc : {"none", "up", "stopping", "killed", "ended"},
   fd : BOOLEAN,                          \* the PTY master is open
   first : BOOLEAN,                       \* first_connection
   running : SUBSET {"socket", "output"},
   ended : SUBSET {"socket", "output"},
   leave : BOOLEAN,                       \* break out of the loop
   cut : {"no", "opening", "waiting"},    \* where a cancellation ended it
   read : 0 .. MaxLog,                    \* the log is forwarded up to here
   piped : 0 .. MaxLog,                   \* the log is in the pipe up to here
   blocked : BOOLEAN]                     \* an executor thread is in os.read

NewHandler(kind) ==
  [kind |-> kind, at |-> "new", ws |-> "open", proc |-> "none", fd |-> FALSE,
   first |-> TRUE, running |-> {}, ended |-> {}, leave |-> FALSE,
   cut |-> "no", read |-> 0, piped |-> 0, blocked |-> FALSE]

Init ==
  /\ PoolInit
  /\ viewer \in [Viewer -> {NewHandler("log"), NewHandler("nvtop")}]
  /\ written = 0
  /\ seen = [v \in Viewer |-> <<>>]
  /\ faults = MaxFaults

LoopFree == op[Loop] = "none"

Update(v, h) == viewer' = [viewer EXCEPT ![v] = h]

Done(h) == [h EXCEPT !.at = "done", !.ws = "closed"]

Kept == UNCHANGED <<written, seen, faults, poolVars>>

Fault == faults > 0 /\ faults' = faults - 1

-----------------------------------------------------------------------------
(* The outside world *)

LogGrows ==
  /\ written < MaxLog /\ written' = written + 1
  /\ UNCHANGED <<viewer, seen, faults, poolVars>>

(* tail -F on the worker: the pipe holds what was written so far. *)
TailOutputs(v) ==
  LET h == viewer[v]
  IN  /\ h.kind = "log" /\ h.proc = "up" /\ h.piped < written
      /\ Update(v, [h EXCEPT !.piped = written])
      /\ Kept

ClientLeaves(v) ==
  /\ viewer[v].ws = "open"
  /\ Update(v, [viewer[v] EXCEPT !.ws = "left"])
  /\ Kept

(* The connection to the worker breaks, or nvtop or tail ends. *)
ProcessFails(v) ==
  /\ viewer[v].proc = "up" /\ Fault
  /\ Update(v, [viewer[v] EXCEPT !.proc = "ended"])
  /\ UNCHANGED <<written, seen, poolVars>>

(* An ssh process may take any time to react to SIGTERM. *)
ProcessStops(v) ==
  /\ viewer[v].proc = "stopping"
  /\ Update(v, [viewer[v] EXCEPT !.proc = "ended"])
  /\ Kept

ProcessDies(v) ==
  /\ viewer[v].proc = "killed"
  /\ Update(v, [viewer[v] EXCEPT !.proc = "ended"])
  /\ Kept

-----------------------------------------------------------------------------
(* The start of a handler: get_task of a log stream, then the process *)

LookUp(v) ==
  /\ viewer[v].at = "new" /\ viewer[v].kind = "log" /\ LoopFree
  /\ IF closed
     THEN /\ Update(v, Done(viewer[v]))      \* "Store is closed"
          /\ UNCHANGED poolVars
     ELSE /\ AcquireIdle(Loop) \/ AcquireNew(Loop)
          /\ Update(v, [viewer[v] EXCEPT !.at = "lookup"])
  /\ UNCHANGED <<written, seen, faults>>

(* get_task returned or raised; a missing task ends the handler as well. *)
LookedUp(v) ==
  /\ viewer[v].at = "lookup"
  /\ GiveBack(Loop)
  /\ \/ op[Loop] = "committed" /\ Update(v, [viewer[v] EXCEPT !.at = "open"])
     \/ Update(v, Done(viewer[v]))
  /\ UNCHANGED <<written, seen, faults>>

NotLookedUp(v) ==
  /\ viewer[v].at = "lookup"
  /\ ConnectRaises(Loop)
  /\ Update(v, Done(viewer[v]))
  /\ UNCHANGED <<written, seen, faults>>

(* A terminal looks its worker up in a dictionary, and may not find it. *)
FindWorker(v) ==
  /\ viewer[v].at = "new" /\ viewer[v].kind = "nvtop" /\ LoopFree
  /\ \/ Update(v, [viewer[v] EXCEPT !.at = "open"])
     \/ Update(v, Done(viewer[v]))
  /\ Kept

(* open_log_stream or open_nvtop: a terminal opens its PTY, and both wait *)
(* for the creation of the process; other coroutines run meanwhile. *)
OpenBegins(v) ==
  LET h == viewer[v]
  IN  /\ h.at = "open" /\ h.ws # "closed" /\ LoopFree
      /\ Update(v, [h EXCEPT !.at = "opening", !.fd = (h.kind = "nvtop")])
      /\ Kept

Opening(v) == viewer[v].at = "opening" /\ LoopFree

LastOf(n) == IF written > n THEN written - n ELSE 0

Opened(h, from) ==
  [h EXCEPT !.at = "watch", !.proc = "up", !.running = {"socket", "output"},
            !.ended = {}, !.read = from, !.piped = from]

(* Mutant: every connection starts with the tail of the log. *)
OpenWithTail(v) ==
  /\ Opening(v)
  /\ Update(v, Opened(viewer[v], LastOf(TailBytes)))
  /\ Kept

(* The process was created; the handler creates both asyncio tasks. *)
Open(v) ==
  /\ Opening(v)
  /\ Update(v, Opened(viewer[v],
                      LastOf(IF viewer[v].first THEN TailBytes ELSE 0)))
  /\ Kept

(* Mutant: open_nvtop does not close the PTY when the process fails. *)
OpenRaisesKeepingPty(v) ==
  LET h == viewer[v]
  IN  /\ Opening(v) /\ Fault
      /\ Update(v, IF h.first \/ h.kind = "nvtop"
                   THEN Done(h)
                   ELSE [h EXCEPT !.at = "sleep"])
      /\ UNCHANGED <<written, seen, poolVars>>

(* An Exception closes the PTY.  Only the first failure of a log stream is *)
(* reported; later ones are tried again. *)
OpenRaises(v) ==
  LET h == [viewer[v] EXCEPT !.fd = FALSE]
  IN  /\ Opening(v) /\ Fault
      /\ Update(v, IF h.first \/ h.kind = "nvtop"
                   THEN Done(h)
                   ELSE [h EXCEPT !.at = "sleep"])
      /\ UNCHANGED <<written, seen, poolVars>>

(* A cancellation is no Exception: the PTY stays open, and the handler has *)
(* no session to terminate.  asyncio kills the process it was creating. *)
CancelOpen(v) ==
  /\ Opening(v) /\ Fault
  /\ Update(v, Done([viewer[v] EXCEPT !.cut = "opening"]))
  /\ UNCHANGED <<written, seen, poolVars>>

-----------------------------------------------------------------------------
(* The two asyncio tasks, while the handler waits for the first to end *)

Ended(h, task) ==
  [h EXCEPT !.running = @ \ {task}, !.ended = @ \cup {task}]

Runs(v, task) == task \in viewer[v].running /\ LoopFree

(* The close frame, or a heartbeat that is not answered *)
SocketEnds(v) ==
  /\ Runs(v, "socket") /\ viewer[v].ws # "open"
  /\ Update(v, [Ended(viewer[v], "socket") EXCEPT !.ws = "closed"])
  /\ Kept

(* Input for a terminal whose process is gone: the write raises. *)
InputRaises(v) ==
  /\ Runs(v, "socket") /\ viewer[v].ws = "open"
  /\ viewer[v].kind = "nvtop" /\ viewer[v].proc = "ended"
  /\ Update(v, Ended(viewer[v], "socket"))
  /\ Kept

Forward(v) ==
  LET h == viewer[v]
  IN  /\ Runs(v, "output") /\ h.kind = "log" /\ h.read < h.piped
      /\ \/ /\ h.ws = "open"
            /\ Update(v, [h EXCEPT !.read = h.piped])
            /\ seen' = [seen EXCEPT ![v] =
                 @ \o [i \in 1 .. h.piped - h.read |-> h.read + i]]
         \/ /\ h.ws # "open"       \* nobody reads it, or the send raises
            /\ \/ Update(v, [h EXCEPT !.read = h.piped])
               \/ Update(v, Ended([h EXCEPT !.read = h.piped], "output"))
            /\ UNCHANGED seen
      /\ UNCHANGED <<written, faults, poolVars>>

OutputEnds(v) ==
  LET h == viewer[v]
  IN  /\ Runs(v, "output") /\ h.kind = "log"
      /\ h.proc = "ended" /\ h.read = h.piped
      /\ Update(v, Ended(h, "output"))
      /\ Kept

(* RemotePtySession.read: an executor thread blocks in os.read ... *)
ReadPty(v) ==
  LET h == viewer[v]
  IN  /\ Runs(v, "output") /\ h.kind = "nvtop" /\ ~h.blocked
      /\ Update(v, IF h.ws = "closed" THEN Ended(h, "output")
                                      ELSE [h EXCEPT !.blocked = TRUE])
      /\ Kept

(* ... and returns with output, or with an error once the process is gone, *)
(* also when the asyncio task that waited for it has been cancelled. *)
ReadReturns(v) ==
  LET h == viewer[v]
      returned == [h EXCEPT !.blocked = FALSE]
  IN  /\ h.blocked
      /\ IF "output" \in h.running
         THEN /\ LoopFree
              /\ \/ h.proc # "ended" /\ Update(v, returned)
                 \/ /\ h.proc = "ended" \/ h.ws # "open"
                    /\ Update(v, Ended(returned, "output"))
         ELSE Update(v, returned)
      /\ Kept

(* A log stream goes on with its loop unless its client has gone. *)
Leaves(h) == h.kind = "nvtop" \/ "socket" \in h.ended

(* Mutant: both tasks have to end (return_when=ALL_COMPLETED). *)
WakeWhenBothEnded(v) ==
  LET h == viewer[v]
  IN  /\ h.at = "watch" /\ h.running = {} /\ LoopFree
      /\ Update(v, [h EXCEPT !.at = "stop", !.fd = FALSE,
                             !.leave = Leaves(h)])
      /\ Kept

(* asyncio.wait returns, the other task is cancelled, and the finally    *)
(* clause begins: a terminal closes its PTY before it stops the process. *)
Wake(v) ==
  LET h == viewer[v]
  IN  /\ h.at = "watch" /\ h.ended # {} /\ LoopFree
      /\ Update(v, [h EXCEPT !.at = "stop", !.fd = FALSE, !.running = {},
                             !.leave = Leaves(h)])
      /\ Kept

(* The server shuts down and cancels the handler.  A cancellation that   *)
(* hits the wait in _terminate_process leaves it before the kill.        *)
CancelStream(v) ==
  LET h == viewer[v]
  IN  /\ h.at = "watch" /\ LoopFree /\ Fault
      /\ Update(v, [h EXCEPT !.at = "stop", !.fd = FALSE, !.running = {},
                             !.leave = TRUE])
      /\ UNCHANGED <<written, seen, poolVars>>

CancelWait(v) ==
  LET h == viewer[v]
  IN  /\ h.at \in {"sleep", "grace", "kill"} /\ LoopFree /\ Fault
      /\ Update(v, Done(IF h.at = "sleep" THEN h
                                        ELSE [h EXCEPT !.cut = "waiting"]))
      /\ UNCHANGED <<written, seen, poolVars>>

-----------------------------------------------------------------------------
(* _terminate_process and RemotePtySession.terminate, then the loop *)

Stopped(h) ==
  IF h.leave \/ h.ws = "closed"
  THEN Done(h)
  ELSE [h EXCEPT !.at = "sleep", !.first = FALSE]

Terminate(v) ==
  LET h == viewer[v]
  IN  /\ h.at = "stop" /\ LoopFree
      /\ Update(v, IF h.proc = "ended"
                   THEN Stopped(h)
                   ELSE [h EXCEPT !.at = "grace", !.proc = "stopping"])
      /\ Kept

Waited(v) ==
  /\ viewer[v].at \in {"grace", "kill"} /\ viewer[v].proc = "ended" /\ LoopFree
  /\ Update(v, Stopped(viewer[v]))
  /\ Kept

(* Mutant: the process is left alone after three seconds. *)
GraceEndsAlone(v) ==
  /\ viewer[v].at = "grace" /\ viewer[v].proc = "stopping" /\ LoopFree
  /\ Update(v, Stopped(viewer[v]))
  /\ Kept

(* Three seconds are over. *)
GraceEnds(v) ==
  /\ viewer[v].at = "grace" /\ viewer[v].proc = "stopping" /\ LoopFree
  /\ Update(v, [viewer[v] EXCEPT !.at = "kill", !.proc = "killed"])
  /\ Kept

SleepEnds(v) ==
  /\ viewer[v].at = "sleep" /\ LoopFree
  /\ Update(v, IF viewer[v].ws = "closed" THEN Done(viewer[v])
                                          ELSE [viewer[v] EXCEPT !.at = "open"])
  /\ Kept

-----------------------------------------------------------------------------
HandlerStep(v) ==
  \/ LookUp(v) \/ LookedUp(v) \/ NotLookedUp(v) \/ FindWorker(v)
  \/ OpenBegins(v) \/ Open(v)
  \/ SocketEnds(v) \/ Forward(v) \/ OutputEnds(v) \/ ReadPty(v)
  \/ Wake(v) \/ Terminate(v) \/ Waited(v) \/ GraceEnds(v) \/ SleepEnds(v)

Outside(v) ==
  \/ TailOutputs(v) \/ ClientLeaves(v) \/ ProcessFails(v) \/ ProcessStops(v)
  \/ ProcessDies(v) \/ ReadReturns(v) \/ InputRaises(v) \/ OpenRaises(v)
  \/ CancelOpen(v) \/ CancelStream(v) \/ CancelWait(v)

(* get_task only reads; it ends in LookedUp or NotLookedUp. *)
LoopOperates ==
  \/ Connect(Loop) \/ Commit(Loop) \/ OperationRaises(Loop)
  \/ Rollback(Loop) \/ RollbackRaises(Loop)

OthersOperate ==
  \E c \in Client \ {Loop} : AcquireIdle(c) \/ AcquireNew(c) \/ Operates(c)

PoolStep ==
  /\ LoopOperates \/ OthersOperate \/ Close
  /\ UNCHANGED <<viewer, written, seen, faults>>

Next ==
  \/ \E v \in Viewer : HandlerStep(v) \/ Outside(v)
  \/ LogGrows \/ PoolStep

(* The event loop runs every coroutine that can run, the creation of a *)
(* process comes to an end, a killed process ends and a read on a PTY *)
(* without a process returns. *)
Spec ==
  /\ Init /\ [][Next]_vars
  /\ WF_vars(LoopOperates /\ UNCHANGED <<viewer, written, seen, faults>>)
  /\ \A v \in Viewer :
       /\ WF_vars(HandlerStep(v))
       /\ WF_vars(SocketEnds(v))
       /\ WF_vars(Wake(v))
       /\ WF_vars(ProcessDies(v))
       /\ WF_vars(viewer[v].proc = "ended" /\ ReadReturns(v))

-----------------------------------------------------------------------------
(***************************************************************************)
(* A handler that is over, or between two connections of its loop, has     *)
(* left nothing behind, neither an open PTY nor an ssh process, also when  *)
(* the process cannot be created, ignores SIGTERM or a watching handler is *)
(* cancelled.  The code has two gaps and no other: a handler cancelled     *)
(* while open_nvtop creates the process leaves the PTY open for good, and  *)
(* one cancelled in _terminate_process leaves the process it has signalled.*)
(***************************************************************************)
NothingLeftBehind ==
  \A v \in Viewer :
    viewer[v].at \in {"new", "lookup", "open", "sleep", "done"} =>
      /\ viewer[v].fd => viewer[v].kind = "nvtop" /\ viewer[v].cut = "opening"
      /\ \/ viewer[v].proc \in {"none", "ended"}
         \/ /\ viewer[v].cut = "waiting"
            /\ viewer[v].proc \in {"stopping", "killed"}

(***************************************************************************)
(* A viewer gets every piece of the log at most once and in order, over    *)
(* any number of reconnections.  (It may miss pieces: what is written      *)
(* while the handler sleeps is skipped, and so is what an ssh process had  *)
(* not delivered when it ended.)                                           *)
(***************************************************************************)
NothingSentTwice ==
  \A v \in Viewer : \A i, j \in 1 .. Len(seen[v]) :
    i < j => seen[v][i] < seen[v][j]

(***************************************************************************)
(* When the client has gone, its handler ends, and the executor thread of  *)
(* its terminal comes back: neither a quiet log nor a process that ignores *)
(* SIGTERM keeps them, unless a cancellation came between the two signals. *)
(***************************************************************************)
HandlerEnds ==
  \A v \in Viewer :
    viewer[v].ws # "open" ~>
      /\ viewer[v].at = "done"
      /\ viewer[v].blocked => viewer[v].cut = "waiting"
=============================================================================
