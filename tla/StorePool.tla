----------------------------- MODULE StorePool -----------------------------
(***************************************************************************)
(* The SQLite connections of src/gpu_watcher/store.py: every operation of  *)
(* the Store borrows a connection, the idle one or a new one, and gives it *)
(* back.  The threads of the daemon - the event loop, the scheduler and    *)
(* the executor threads of the REST handlers - share one Store.  A step is *)
(* what a thread does inside _pool_lock, or one call on its connection     *)
(* outside of it.                                                          *)
(***************************************************************************)
EXTENDS Naturals

CONSTANTS
  Client,      \* the threads that use the store
  Connection,  \* identities of the open sqlite3.Connection objects
  Nothing      \* no connection

ASSUME NothingAssumption == Nothing \notin Connection

VARIABLES
  idle,    \* _idle
  closed,  \* _closed
  opened,  \* connections that are not closed
  dirty,   \* connections with a transaction that is neither committed nor
           \* rolled back
  op,      \* op[c]: how far the operation of thread c is
  holds    \* holds[c]: the connection that c has borrowed

poolVars == <<idle, closed, opened, dirty, op, holds>>

Stage == {"none", "opening", "working", "failed", "committed", "rolledback",
          "broken"}

PoolInit ==
  /\ idle = {} /\ closed = FALSE /\ opened = {} /\ dirty = {}
  /\ op = [c \in Client |-> "none"]
  /\ holds = [c \in Client |-> Nothing]

Becomes(c, stage) == op' = [op EXCEPT ![c] = stage]

(* Mutant: the idle connection stays in the list. *)
AcquireIdleShared(c) ==
  /\ op[c] = "none" /\ ~closed
  /\ \E k \in idle : holds' = [holds EXCEPT ![c] = k]
  /\ Becomes(c, "working")
  /\ UNCHANGED <<idle, closed, opened, dirty>>

AcquireIdle(c) ==
  /\ op[c] = "none" /\ ~closed
  /\ \E k \in idle : /\ idle' = idle \ {k}
                     /\ holds' = [holds EXCEPT ![c] = k]
  /\ Becomes(c, "working")
  /\ UNCHANGED <<closed, opened, dirty>>

(* There is none: the lock is released before a connection is opened. *)
AcquireNew(c) ==
  /\ op[c] = "none" /\ ~closed
  /\ idle = {}
  /\ Becomes(c, "opening")
  /\ UNCHANGED <<idle, closed, opened, dirty, holds>>

Connect(c) ==
  /\ op[c] = "opening"
  /\ LET new == CHOOSE k \in Connection \ opened : TRUE
     IN  /\ Connection \ opened # {}
         /\ opened' = opened \cup {new}
         /\ holds' = [holds EXCEPT ![c] = new]
  /\ Becomes(c, "working")
  /\ UNCHANGED <<idle, closed, dirty>>

(* Either there is no connection, or a PRAGMA fails and it is closed. *)
ConnectRaises(c) ==
  /\ op[c] = "opening"
  /\ Becomes(c, "none")
  /\ UNCHANGED <<idle, closed, opened, dirty, holds>>

(* The first INSERT, UPDATE or DELETE opens a transaction. *)
Write(c) ==
  /\ op[c] = "working"
  /\ dirty' = dirty \cup {holds[c]}
  /\ UNCHANGED <<idle, closed, opened, op, holds>>

Commit(c) ==
  /\ op[c] = "working"
  /\ dirty' = dirty \ {holds[c]}
  /\ Becomes(c, "committed")
  /\ UNCHANGED <<idle, closed, opened, holds>>

(* The body of the operation or the commit raises. *)
OperationRaises(c) ==
  /\ op[c] = "working"
  /\ Becomes(c, "failed")
  /\ UNCHANGED <<idle, closed, opened, dirty, holds>>

Rollback(c) ==
  /\ op[c] = "failed"
  /\ dirty' = dirty \ {holds[c]}
  /\ Becomes(c, "rolledback")
  /\ UNCHANGED <<idle, closed, opened, holds>>

(* Mutant: reusable is set before the rollback. *)
RollbackRaisesReusable(c) ==
  /\ op[c] = "failed"
  /\ Becomes(c, "rolledback")
  /\ UNCHANGED <<idle, closed, opened, dirty, holds>>

RollbackRaises(c) ==
  /\ op[c] = "failed"
  /\ Becomes(c, "broken")
  /\ UNCHANGED <<idle, closed, opened, dirty, holds>>

Reusable(c) == op[c] \in {"committed", "rolledback"}

(* Mutant: the connection is kept although the store has been closed. *)
GiveBackToClosed(c) ==
  /\ op[c] \in {"committed", "rolledback", "broken"}
  /\ \/ /\ Reusable(c) /\ idle = {}
        /\ idle' = {holds[c]}
        /\ UNCHANGED <<opened, dirty>>
     \/ /\ ~(Reusable(c) /\ idle = {})
        /\ opened' = opened \ {holds[c]}
        /\ dirty' = dirty \ {holds[c]}
        /\ UNCHANGED idle
  /\ holds' = [holds EXCEPT ![c] = Nothing]
  /\ Becomes(c, "none")
  /\ UNCHANGED closed

GiveBack(c) ==
  /\ op[c] \in {"committed", "rolledback", "broken"}
  /\ \/ /\ Reusable(c) /\ ~closed /\ idle = {}
        /\ idle' = {holds[c]}
        /\ UNCHANGED <<opened, dirty>>
     \/ /\ ~(Reusable(c) /\ ~closed /\ idle = {})
        /\ opened' = opened \ {holds[c]}
        /\ dirty' = dirty \ {holds[c]}
        /\ UNCHANGED idle
  /\ holds' = [holds EXCEPT ![c] = Nothing]
  /\ Becomes(c, "none")
  /\ UNCHANGED closed

(* close, and the finalizer of a Store that is collected *)
Close ==
  /\ closed' = TRUE
  /\ opened' = opened \ idle
  /\ dirty' = dirty \ idle
  /\ idle' = {}
  /\ UNCHANGED <<op, holds>>

(* The steps of an operation after _acquire took the lock *)
Operates(c) ==
  \/ Connect(c) \/ ConnectRaises(c) \/ Write(c) \/ Commit(c)
  \/ OperationRaises(c) \/ Rollback(c) \/ RollbackRaises(c) \/ GiveBack(c)

PoolNext ==
  \/ \E c \in Client : AcquireIdle(c) \/ AcquireNew(c) \/ Operates(c)
  \/ Close

PoolSpec == PoolInit /\ [][PoolNext]_poolVars

-----------------------------------------------------------------------------
PoolTyped ==
  /\ idle \subseteq Connection /\ opened \subseteq Connection
  /\ dirty \subseteq Connection
  /\ closed \in BOOLEAN
  /\ op \in [Client -> Stage]
  /\ holds \in [Client -> Connection \cup {Nothing}]

Borrowed == {holds[c] : c \in Client} \ {Nothing}

(***************************************************************************)
(* A connection is used by one operation at a time (check_same_thread is   *)
(* off): two threads never hold the same one, nor does the idle list keep  *)
(* one that a thread holds.                                                *)
(***************************************************************************)
BorrowedByOne ==
  /\ \A c, d \in Client : holds[c] = holds[d] /\ c # d => holds[c] = Nothing
  /\ idle \cap Borrowed = {}

(***************************************************************************)
(* Every open connection is borrowed or idle, and none is idle after       *)
(* close: operations that are under way when the store is closed close     *)
(* theirs, whatever fails in them.                                         *)
(***************************************************************************)
NothingLeaks == opened = idle \cup Borrowed /\ (closed => idle = {})

(***************************************************************************)
(* At most one connection is idle, and it never carries a transaction of   *)
(* an earlier operation into the next one, even if its rollback failed.    *)
(***************************************************************************)
IdleIsClean == (\A j, k \in idle : j = k) /\ idle \cap dirty = {}
=============================================================================
