-------------------------- MODULE StorePoolProofs --------------------------
(***************************************************************************)
(* What the connection pool of the Store guarantees for every number of    *)
(* threads, that the stream handlers, which look tasks up through it, keep *)
(* to its protocol, and what those handlers send and leave behind.         *)
(***************************************************************************)
EXTENDS Streams, SequenceTheorems, TLAPS

(* A thread holds a connection exactly while its operation runs on it. *)
HoldsWhileOperating ==
  \A c \in Client : op[c] \in {"none", "opening"} <=> holds[c] = Nothing

(* What is given back for reuse has no transaction any more. *)
ReusableIsClean ==
  \A c \in Client :
    op[c] \in {"committed", "rolledback"} => holds[c] \notin dirty

PoolInv ==
  /\ PoolTyped /\ BorrowedByOne /\ NothingLeaks /\ IdleIsClean
  /\ HoldsWhileOperating /\ ReusableIsClean

LEMMA PoolInitInv == PoolInit => PoolInv
BY DEF PoolInit, PoolInv, PoolTyped, BorrowedByOne, NothingLeaks, IdleIsClean,
       HoldsWhileOperating, ReusableIsClean, Borrowed, Stage

(* Taking the idle connection hands it over to one thread. *)
LEMMA AcquireIdleInv ==
  ASSUME NEW c \in Client, PoolInv, AcquireIdle(c)
  PROVE  PoolInv'
<1> USE NothingAssumption
<1>1. PICK k \in idle : /\ idle' = idle \ {k}
                        /\ holds' = [holds EXCEPT ![c] = k]
  BY DEF AcquireIdle
<1>2. /\ k \in Connection /\ k \notin Borrowed /\ holds[c] = Nothing
      /\ holds'[c] = k
      /\ \A d \in Client : d # c => holds'[d] = holds[d]
      /\ idle' = {} /\ ~closed
  BY <1>1 DEF PoolInv, PoolTyped, BorrowedByOne, HoldsWhileOperating,
              IdleIsClean, AcquireIdle
<1>3. Borrowed' = Borrowed \cup {k}
  BY <1>2 DEF Borrowed
<1>4. PoolTyped'
  BY <1>1, <1>2 DEF PoolInv, PoolTyped, AcquireIdle, Becomes, Stage
<1>5. BorrowedByOne'
  BY <1>1, <1>2, <1>3 DEF PoolInv, BorrowedByOne, Borrowed, PoolTyped
<1>6. NothingLeaks'
  BY <1>1, <1>2, <1>3 DEF PoolInv, NothingLeaks, AcquireIdle
<1>7. IdleIsClean'
  BY <1>2 DEF IdleIsClean
<1>8. HoldsWhileOperating' /\ ReusableIsClean'
  BY <1>1, <1>2 DEF PoolInv, PoolTyped, HoldsWhileOperating, ReusableIsClean,
                    AcquireIdle, Becomes
<1> QED  BY <1>4, <1>5, <1>6, <1>7, <1>8 DEF PoolInv

(* A new connection is nobody else's. *)
LEMMA ConnectInv ==
  ASSUME NEW c \in Client, PoolInv, Connect(c)
  PROVE  PoolInv'
<1> USE NothingAssumption
<1> DEFINE new == CHOOSE k \in Connection \ opened : TRUE
<1>1. new \in Connection \ opened
  BY DEF Connect
<1>2. opened' = opened \cup {new} /\ holds' = [holds EXCEPT ![c] = new]
  BY DEF Connect
<1> HIDE DEF new
<1>3. /\ new # Nothing /\ new \notin idle /\ new \notin Borrowed
      /\ holds[c] = Nothing /\ holds'[c] = new
      /\ \A d \in Client : d # c => holds'[d] = holds[d]
  BY <1>1, <1>2 DEF PoolInv, PoolTyped, NothingLeaks, HoldsWhileOperating,
                    Connect
<1>4. Borrowed' = Borrowed \cup {new}
  BY <1>3 DEF Borrowed
<1>5. PoolTyped'
  BY <1>1, <1>2 DEF PoolInv, PoolTyped, Connect, Becomes, Stage
<1>6. BorrowedByOne'
  <2>1. \A d \in Client : holds[d] # new
    BY <1>3 DEF Borrowed
  <2>2. \A d, e \in Client : holds'[d] = holds'[e] /\ d # e =>
                              holds'[d] = Nothing
    BY <1>3, <2>1 DEF PoolInv, BorrowedByOne
  <2>3. idle' \cap Borrowed' = {}
    BY <1>3, <1>4 DEF PoolInv, BorrowedByOne, Connect
  <2> QED  BY <2>2, <2>3 DEF BorrowedByOne
<1>7. NothingLeaks'
  BY <1>2, <1>4 DEF PoolInv, NothingLeaks, Connect
<1>8. IdleIsClean'
  BY DEF PoolInv, IdleIsClean, Connect
<1>9. HoldsWhileOperating' /\ ReusableIsClean'
  BY <1>3 DEF PoolInv, PoolTyped, HoldsWhileOperating, ReusableIsClean,
              Connect, Becomes
<1> QED  BY <1>5, <1>6, <1>7, <1>8, <1>9 DEF PoolInv

(* Steps that only move an operation on *)
LEMMA StageInv ==
  ASSUME NEW c \in Client, PoolInv,
         AcquireNew(c) \/ ConnectRaises(c) \/ OperationRaises(c)
           \/ RollbackRaises(c)
  PROVE  PoolInv'
<1>1. /\ UNCHANGED <<idle, closed, opened, dirty, holds>>
      /\ \E stage \in {"opening", "none", "failed", "broken"} :
           op' = [op EXCEPT ![c] = stage]
  BY DEF AcquireNew, ConnectRaises, OperationRaises, RollbackRaises, Becomes
<1>2. PoolTyped'
  BY <1>1 DEF PoolInv, PoolTyped, Stage
<1>3. BorrowedByOne' /\ NothingLeaks' /\ IdleIsClean'
  BY <1>1 DEF PoolInv, BorrowedByOne, NothingLeaks, IdleIsClean, Borrowed
<1>4. HoldsWhileOperating'
  BY DEF PoolInv, PoolTyped, HoldsWhileOperating, AcquireNew, ConnectRaises,
         OperationRaises, RollbackRaises, Becomes
<1>5. ReusableIsClean'
  BY <1>1 DEF PoolInv, PoolTyped, ReusableIsClean
<1> QED  BY <1>2, <1>3, <1>4, <1>5 DEF PoolInv

(* Only the connection of the thread itself gets or loses a transaction. *)
LEMMA TransactionInv ==
  ASSUME NEW c \in Client, PoolInv, Write(c) \/ Commit(c) \/ Rollback(c)
  PROVE  PoolInv'
<1> USE NothingAssumption
<1>1. /\ UNCHANGED <<idle, closed, opened, holds>>
      /\ dirty' \in {dirty \cup {holds[c]}, dirty \ {holds[c]}}
      /\ op[c] \in {"working", "failed"}
      /\ \A d \in Client : d # c => op'[d] = op[d]
  BY DEF PoolInv, PoolTyped, Write, Commit, Rollback, Becomes
<1>2. /\ holds[c] \in Connection /\ holds[c] \notin idle
      /\ \A d \in Client : d # c => holds[d] # holds[c]
  BY <1>1 DEF PoolInv, PoolTyped, HoldsWhileOperating, BorrowedByOne, Borrowed
<1>3. PoolTyped'
  BY <1>1, <1>2 DEF PoolInv, PoolTyped, Write, Commit, Rollback, Becomes, Stage
<1>4. BorrowedByOne' /\ NothingLeaks'
  BY <1>1 DEF PoolInv, BorrowedByOne, NothingLeaks, Borrowed
<1>5. IdleIsClean'
  BY <1>1, <1>2 DEF PoolInv, IdleIsClean
<1>6. HoldsWhileOperating'
  BY DEF PoolInv, PoolTyped, HoldsWhileOperating, Write, Commit, Rollback,
         Becomes
<1>7. ReusableIsClean'
  <2> SUFFICES ASSUME NEW d \in Client, op'[d] \in {"committed", "rolledback"}
               PROVE  holds'[d] \notin dirty'
    BY DEF ReusableIsClean
  <2>1. CASE d = c
    BY <2>1, <1>1 DEF PoolInv, PoolTyped, Write, Commit, Rollback, Becomes
  <2>2. CASE d # c
    BY <2>2, <1>1, <1>2 DEF PoolInv, ReusableIsClean
  <2> QED  BY <2>1, <2>2
<1> QED  BY <1>3, <1>4, <1>5, <1>6, <1>7 DEF PoolInv

(* A connection that is given back becomes the idle one or is closed. *)
LEMMA GiveBackInv ==
  ASSUME NEW c \in Client, PoolInv, GiveBack(c)
  PROVE  PoolInv'
<1> USE NothingAssumption
<1> DEFINE k == holds[c]
<1>1. /\ k \in Connection /\ k \notin idle
      /\ \A d \in Client : d # c => holds[d] # k
      /\ k \in Borrowed
  BY DEF PoolInv, PoolTyped, HoldsWhileOperating, BorrowedByOne, Borrowed,
         GiveBack
<1>2. /\ holds'[c] = Nothing /\ holds' \in [Client -> Connection \cup {Nothing}]
      /\ \A d \in Client : d # c => holds'[d] = holds[d]
      /\ op'[c] = "none" /\ op' \in [Client -> Stage]
      /\ \A d \in Client : d # c => op'[d] = op[d]
      /\ closed' = closed
  BY DEF PoolInv, PoolTyped, GiveBack, Becomes, Stage
<1>3. Borrowed' = Borrowed \ {k}
  BY <1>1, <1>2 DEF Borrowed
<1>4. HoldsWhileOperating'
  BY <1>2 DEF PoolInv, HoldsWhileOperating
<1>5. CASE /\ Reusable(c) /\ ~closed /\ idle = {}
           /\ idle' = {k} /\ UNCHANGED <<opened, dirty>>
  <2>1. PoolTyped'
    BY <1>1, <1>2, <1>5 DEF PoolInv, PoolTyped
  <2>2. BorrowedByOne'
    BY <1>2, <1>3, <1>5 DEF PoolInv, BorrowedByOne
  <2>3. NothingLeaks'
    BY <1>1, <1>2, <1>3, <1>5 DEF PoolInv, NothingLeaks
  <2>4. IdleIsClean'
    BY <1>5 DEF PoolInv, IdleIsClean, ReusableIsClean, Reusable
  <2>5. ReusableIsClean'
    BY <1>2, <1>5 DEF PoolInv, ReusableIsClean
  <2> QED  BY <1>4, <2>1, <2>2, <2>3, <2>4, <2>5 DEF PoolInv
<1>6. CASE /\ opened' = opened \ {k} /\ dirty' = dirty \ {k}
           /\ UNCHANGED idle
  <2>1. PoolTyped'
    BY <1>2, <1>6 DEF PoolInv, PoolTyped
  <2>2. BorrowedByOne'
    BY <1>2, <1>3, <1>6 DEF PoolInv, BorrowedByOne
  <2>3. NothingLeaks'
    BY <1>1, <1>2, <1>3, <1>6 DEF PoolInv, NothingLeaks
  <2>4. IdleIsClean'
    BY <1>6 DEF PoolInv, IdleIsClean
  <2>5. ReusableIsClean'
    BY <1>2, <1>6 DEF PoolInv, ReusableIsClean
  <2> QED  BY <1>4, <2>1, <2>2, <2>3, <2>4, <2>5 DEF PoolInv
<1> QED  BY <1>5, <1>6 DEF GiveBack

LEMMA CloseInv ==
  ASSUME PoolInv, Close
  PROVE  PoolInv'
<1>1. /\ idle' = {} /\ closed' = TRUE /\ opened' = opened \ idle
      /\ dirty' = dirty \ idle /\ UNCHANGED <<op, holds>>
  BY DEF Close
<1>2. Borrowed' = Borrowed
  BY <1>1 DEF Borrowed
<1> QED
  BY <1>1, <1>2 DEF PoolInv, PoolTyped, BorrowedByOne, NothingLeaks,
                    IdleIsClean, HoldsWhileOperating, ReusableIsClean

LEMMA PoolStepInv == PoolInv /\ [PoolNext]_poolVars => PoolInv'
<1> SUFFICES ASSUME PoolInv, [PoolNext]_poolVars
             PROVE  PoolInv'
  OBVIOUS
<1>1. CASE UNCHANGED poolVars
  BY <1>1 DEF PoolInv, PoolTyped, BorrowedByOne, NothingLeaks, IdleIsClean,
              HoldsWhileOperating, ReusableIsClean, Borrowed, poolVars
<1>2. ASSUME NEW c \in Client, AcquireIdle(c) \/ AcquireNew(c) \/ Operates(c)
      PROVE  PoolInv'
  BY <1>2, AcquireIdleInv, ConnectInv, StageInv, TransactionInv, GiveBackInv
     DEF Operates
<1> QED  BY <1>1, <1>2, CloseInv DEF PoolNext

(***************************************************************************)
(* The pool of store.py, however its operations interleave, fail and meet  *)
(* a close: a connection is used by one thread at a time, none leaks, and  *)
(* the one that stays idle carries no transaction.                         *)
(***************************************************************************)
THEOREM PoolIsSafe ==
  PoolSpec => [](BorrowedByOne /\ NothingLeaks /\ IdleIsClean)
<1>1. PoolInv => BorrowedByOne /\ NothingLeaks /\ IdleIsClean
  BY DEF PoolInv
<1> QED  BY PoolInitInv, PoolStepInv, <1>1, PTL DEF PoolSpec

(* The handlers use the pool only through its own steps. *)
LEMMA StreamStepIsPoolStep == [Next]_vars => [PoolNext]_poolVars
<1> SUFFICES ASSUME [Next]_vars
             PROVE  [PoolNext]_poolVars
  OBVIOUS
<1> USE LoopAssumption
<1>1. CASE UNCHANGED vars
  BY <1>1 DEF vars, poolVars
<1>2. ASSUME NEW v \in Viewer, HandlerStep(v)
      PROVE  [PoolNext]_poolVars
  <2>1. CASE LookUp(v)
    BY <2>1 DEF LookUp, PoolNext
  <2>2. CASE LookedUp(v)
    BY <2>2 DEF LookedUp, PoolNext, Operates
  <2>3. CASE NotLookedUp(v)
    BY <2>3 DEF NotLookedUp, PoolNext, Operates
  <2>4. CASE Forward(v)
    BY <2>4 DEF Forward
  <2>5. CASE \/ FindWorker(v) \/ OpenBegins(v) \/ Open(v) \/ SocketEnds(v)
             \/ OutputEnds(v) \/ ReadPty(v) \/ Wake(v) \/ Terminate(v)
             \/ Waited(v) \/ GraceEnds(v) \/ SleepEnds(v)
    BY <2>5 DEF FindWorker, OpenBegins, Open, SocketEnds, OutputEnds, ReadPty,
                Wake, Terminate, Waited, GraceEnds, SleepEnds, Kept
  <2> QED  BY <1>2, <2>1, <2>2, <2>3, <2>4, <2>5 DEF HandlerStep
<1>3. ASSUME NEW v \in Viewer, Outside(v)
      PROVE  [PoolNext]_poolVars
  BY <1>3 DEF Outside, TailOutputs, ClientLeaves, ProcessFails, ProcessStops,
              ProcessDies, ReadReturns, InputRaises, OpenRaises, CancelOpen,
              CancelStream, CancelWait, Kept
<1>4. CASE LogGrows
  BY <1>4 DEF LogGrows
<1>5. CASE PoolStep
  BY <1>5 DEF PoolStep, LoopOperates, OthersOperate, Operates, PoolNext
<1> QED  BY <1>1, <1>2, <1>3, <1>4, <1>5 DEF Next

(***************************************************************************)
(* The event loop's handlers and the other threads together implement the  *)
(* pool's protocol, so what the pool guarantees holds of the whole system. *)
(***************************************************************************)
THEOREM StreamsImplementPool == Spec => PoolSpec
<1>1. Init => PoolInit
  BY DEF Init
<1> QED  BY <1>1, StreamStepIsPoolStep, PTL DEF Spec, PoolSpec

(***************************************************************************)
(* In the daemon, with its stream handlers on the event loop and any other *)
(* threads, a connection is used by one operation at a time, none is lost  *)
(* or kept after close, and none is reused with a transaction in it.       *)
(***************************************************************************)
THEOREM StreamsKeepPoolSafe ==
  Spec => [](BorrowedByOne /\ NothingLeaks /\ IdleIsClean)
BY PoolIsSafe, StreamsImplementPool

-----------------------------------------------------------------------------
(* The stream handlers *)

(* Pieces of a log, in order, none of them beyond piece n *)
Sent(s, n) ==
  /\ s \in Seq(Nat)
  /\ \A i, j \in 1 .. Len(s) : i < j => s[i] < s[j]
  /\ \A i \in 1 .. Len(s) : s[i] <= n

Between(h) == h.at \in {"new", "lookup", "open", "opening", "sleep"}

(* What a handler holds, and at which stages *)
HoldsByStage(h) ==
  /\ h.at # "watch" => h.running = {}
  /\ h.fd => /\ h.kind = "nvtop"
             /\ \/ h.at \in {"opening", "watch"}
                \/ h.at = "done" /\ h.cut = "opening"
  /\ Between(h) => h.proc \in {"none", "ended"}
  /\ h.at \in {"grace", "kill"} => h.proc \in {"stopping", "killed", "ended"}
  /\ h.at = "done" => \/ h.proc \in {"none", "ended"}
                      \/ h.cut = "waiting" /\ h.proc \in {"stopping", "killed"}

(* A handler that has sent s while the log grew to n pieces *)
HandlerFine(h, s, n) ==
  /\ h \in Handler
  /\ HoldsByStage(h)
  /\ h.read <= h.piped /\ h.piped <= n
  /\ Sent(s, h.read)
  /\ h.first /\ Between(h) => h.at # "sleep" /\ s = <<>>

StreamsInv ==
  /\ written \in 0 .. MaxLog
  /\ viewer \in [Viewer -> Handler] /\ seen \in [Viewer -> Seq(Nat)]
  /\ \A v \in Viewer : HandlerFine(viewer[v], seen[v], written)

LEMMA SentFurther ==
  ASSUME NEW s, NEW m \in Nat, NEW n \in Nat, m <= n, Sent(s, m)
  PROVE  Sent(s, n)
<1>1. ASSUME NEW i \in 1 .. Len(s) PROVE s[i] \in Nat
  BY DEF Sent
<1>2. \A i \in 1 .. Len(s) : s[i] <= m
  BY DEF Sent
<1>3. \A i \in 1 .. Len(s) : s[i] <= n
  BY <1>1, <1>2
<1> QED
  BY <1>3 DEF Sent

(* The next pieces are sent after the ones before. *)
LEMMA SentNext ==
  ASSUME NEW s, NEW m \in Nat, NEW n \in Nat, m <= n, Sent(s, m)
  PROVE  Sent(s \o [i \in 1 .. n - m |-> m + i], n)
<1> DEFINE more == [i \in 1 .. n - m |-> m + i]
           t == s \o more
<1>1. s \in Seq(Nat) /\ Len(s) \in Nat /\ \A i \in 1 .. Len(s) : s[i] \in Nat
  BY DEF Sent
<1>2. n - m \in Nat
  OBVIOUS
<1>3. more \in Seq(Nat) /\ Len(more) = n - m
  BY <1>2
<1>4. \A i \in 1 .. n - m : more[i] = m + i
  OBVIOUS
<1> HIDE DEF more
<1>5. /\ t \in Seq(Nat) /\ Len(t) = Len(s) + (n - m)
      /\ \A i \in 1 .. Len(s) : t[i] = s[i]
      /\ \A i \in Len(s) + 1 .. Len(s) + (n - m) : t[i] = more[i - Len(s)]
  <2>1. /\ t \in Seq(Nat) /\ Len(t) = Len(s) + Len(more)
        /\ \A i \in 1 .. Len(s) + Len(more) :
             t[i] = IF i <= Len(s) THEN s[i] ELSE more[i - Len(s)]
    BY <1>1, <1>3, ConcatProperties
  <2> HIDE DEF t
  <2>2. PICK a \in Nat, b \in Nat : a = Len(s) /\ b = Len(more) /\ b = n - m
    BY <1>1, <1>2, <1>3
  <2>3. ASSUME NEW i \in 1 .. a PROVE t[i] = s[i]
    <3>1. i \in 1 .. a + b /\ i <= a
      OBVIOUS
    <3> QED
      BY <2>1, <2>2, <3>1
  <2>4. ASSUME NEW i \in a + 1 .. a + b
        PROVE  t[i] = more[i - a]
    <3>1. i \in 1 .. a + b /\ ~(i <= a)
      OBVIOUS
    <3> QED
      BY <2>1, <2>2, <3>1
  <2> QED
    BY <1>3, <2>1, <2>2, <2>3, <2>4
<1> HIDE DEF t
<1>6. \A i \in Len(s) + 1 .. Len(s) + (n - m) : t[i] = m + (i - Len(s))
  <2> SUFFICES ASSUME NEW i \in Len(s) + 1 .. Len(s) + (n - m)
               PROVE  t[i] = m + (i - Len(s))
    OBVIOUS
  <2>1. i - Len(s) \in 1 .. n - m
    BY <1>1, <1>2
  <2> QED
    BY <1>4, <1>5, <2>1
<1>7. \A i \in 1 .. Len(t) :
        i \in 1 .. Len(s) \/ i \in Len(s) + 1 .. Len(s) + (n - m)
  BY <1>1, <1>2, <1>5
<1>8. \A i \in 1 .. Len(s) : t[i] <= m
  BY <1>5 DEF Sent
<1>9. ASSUME NEW i \in 1 .. Len(t) PROVE t[i] <= n
  <2>1. CASE i \in 1 .. Len(s)
    BY <1>1, <1>5, <1>8, <2>1
  <2>2. CASE i \in Len(s) + 1 .. Len(s) + (n - m)
    BY <1>1, <1>6, <2>2
  <2> QED
    BY <1>7, <2>1, <2>2
<1>10. ASSUME NEW i \in 1 .. Len(t), NEW j \in 1 .. Len(t), i < j
       PROVE  t[i] < t[j]
  <2>1. CASE j \in 1 .. Len(s)
    <3>1. i \in 1 .. Len(s)
      BY <1>1, <1>10, <2>1
    <3> QED
      BY <1>5, <1>10, <2>1, <3>1 DEF Sent
  <2>2. CASE j \in Len(s) + 1 .. Len(s) + (n - m)
    <3>1. CASE i \in 1 .. Len(s)
      <4>1. t[i] \in Nat /\ t[i] <= m
        BY <1>1, <1>5, <1>8, <3>1
      <4>2. t[j] = m + (j - Len(s)) /\ j - Len(s) >= 1
        BY <1>1, <1>2, <1>6, <2>2
      <4> QED
        BY <1>1, <2>2, <4>1, <4>2
    <3>2. CASE i \in Len(s) + 1 .. Len(s) + (n - m)
      BY <1>1, <1>6, <1>10, <2>2, <3>2
    <3> QED
      BY <1>7, <3>1, <3>2
  <2> QED
    BY <1>7, <2>1, <2>2
<1>11. Sent(t, n)
  BY <1>5, <1>9, <1>10 DEF Sent
<1> QED
  BY <1>11 DEF t, more

(* A step of a handler that sends nothing *)
LEMMA QuietHandler ==
  ASSUME StreamsInv, NEW v \in Viewer, NEW g,
         Update(v, g), seen' = seen, written' = written,
         HandlerFine(g, seen[v], written)
  PROVE  StreamsInv'
<1>1. viewer' = [viewer EXCEPT ![v] = g] /\ g \in Handler
  BY DEF Update, HandlerFine
<1>2. /\ viewer' \in [Viewer -> Handler] /\ viewer'[v] = g
      /\ \A u \in Viewer \ {v} : viewer'[u] = viewer[u]
  BY <1>1 DEF StreamsInv
<1>3. \A u \in Viewer : HandlerFine(viewer'[u], seen'[u], written')
  BY <1>2 DEF StreamsInv
<1> QED
  BY <1>2, <1>3 DEF StreamsInv

(* A handler that neither connects nor sends keeps what it has sent. *)
LEMMA StillFine ==
  ASSUME NEW h, NEW s, NEW n \in Nat, HandlerFine(h, s, n), NEW g \in Handler,
         HoldsByStage(g), g.read = h.read,
         g.piped = h.piped \/ (h.piped <= g.piped /\ g.piped <= n),
         g.first /\ Between(g) => g.at # "sleep" /\ h.first /\ Between(h)
  PROVE  HandlerFine(g, s, n)
<1>1. h.read \in Nat /\ h.piped \in Nat /\ g.piped \in Nat
  BY BoundsAssumption DEF HandlerFine, Handler
<1> QED
  BY <1>1 DEF HandlerFine

(* The handler is over, at a stage where it holds nothing or is cut off. *)
LEMMA DoneFine ==
  ASSUME NEW h, NEW s, NEW n \in Nat, HandlerFine(h, s, n),
         \/ Between(h) \/ (h.at # "watch" /\ h.proc = "ended")
         \/ (h.cut = "waiting" /\ h.at \in {"grace", "kill"}),
         h.at = "opening" /\ h.fd => h.cut = "opening"
  PROVE  HandlerFine(Done(h), s, n)
<1>1. h \in Handler /\ HoldsByStage(h)
  BY DEF HandlerFine
<1>2. /\ Done(h) \in Handler /\ Done(h).at = "done" /\ Done(h).fd = h.fd
      /\ Done(h).kind = h.kind
      /\ Done(h).proc = h.proc /\ Done(h).cut = h.cut /\ Done(h).read = h.read
      /\ Done(h).piped = h.piped /\ Done(h).first = h.first
      /\ Done(h).running = h.running
  BY <1>1 DEF Done, Handler
<1>3. HoldsByStage(Done(h))
  BY <1>1, <1>2 DEF HoldsByStage, Between
<1>4. ~Between(Done(h))
  BY <1>2 DEF Between
<1> QED
  BY <1>2, <1>3, <1>4, StillFine

LEMMA StoppedFine ==
  ASSUME NEW h, NEW s, NEW n \in Nat, HandlerFine(h, s, n),
         h.at \in {"stop", "grace", "kill"}, h.proc = "ended"
  PROVE  HandlerFine(Stopped(h), s, n)
<1>1. h \in Handler /\ HoldsByStage(h)
  BY DEF HandlerFine
<1>2. CASE Stopped(h) = Done(h)
  BY <1>2, DoneFine
<1>3. CASE Stopped(h) = [h EXCEPT !.at = "sleep", !.first = FALSE]
  <2> DEFINE g == [h EXCEPT !.at = "sleep", !.first = FALSE]
  <2>1. /\ g \in Handler /\ g.at = "sleep" /\ g.first = FALSE /\ g.fd = h.fd
        /\ g.kind = h.kind
        /\ g.running = h.running
        /\ g.proc = h.proc /\ g.read = h.read /\ g.piped = h.piped
    BY <1>1 DEF Handler
  <2> HIDE DEF g
  <2>2. HoldsByStage(g)
    BY <1>1, <2>1 DEF HoldsByStage, Between
  <2>3. HandlerFine(g, s, n)
    BY <2>1, <2>2, StillFine
  <2> QED
    BY <1>3, <2>3 DEF g
<1> QED
  BY <1>2, <1>3 DEF Stopped

(* The world around a handler: its client, and its process *)
LEMMA OutsideFine ==
  ASSUME StreamsInv, NEW v \in Viewer,
         \/ TailOutputs(v) \/ ClientLeaves(v) \/ ProcessFails(v)
         \/ ProcessStops(v) \/ ProcessDies(v) \/ ReadReturns(v) \/ InputRaises(v)
  PROVE  StreamsInv'
<1> DEFINE h == viewer[v]
<1>1. /\ h \in Handler /\ HoldsByStage(h) /\ HandlerFine(h, seen[v], written)
      /\ written \in Nat /\ written <= MaxLog /\ h.piped \in Nat
  BY BoundsAssumption DEF StreamsInv, HandlerFine, Handler
<1>2. seen' = seen /\ written' = written
  BY DEF TailOutputs, ClientLeaves, ProcessFails, ProcessStops, ProcessDies,
         ReadReturns, InputRaises, Kept
<1>3. ASSUME NEW g, Update(v, g), g \in Handler, g.at = h.at, g.fd = h.fd,
             g.kind = h.kind, g.read = h.read, g.first = h.first, g.cut = h.cut,
             g.running \subseteq h.running,
             g.piped = h.piped \/ (h.piped <= g.piped /\ g.piped <= written),
             g.proc = h.proc \/ (g.proc = "ended" /\ h.proc # "none")
      PROVE  StreamsInv'
  <2>1. HoldsByStage(g)
    BY <1>1, <1>3 DEF HoldsByStage, Between
  <2>2. Between(g) <=> Between(h)
    BY <1>3 DEF Between
  <2>3. h.first /\ Between(h) => h.at # "sleep"
    BY <1>1 DEF HandlerFine
  <2>4. HandlerFine(g, seen[v], written)
    BY <1>1, <1>3, <2>1, <2>2, <2>3, StillFine
  <2> QED
    BY <1>2, <1>3, <2>4, QuietHandler
<1>4. CASE TailOutputs(v)
  <2> DEFINE g == [h EXCEPT !.piped = written]
  <2>1. Update(v, g) /\ h.piped < written
    BY <1>4 DEF TailOutputs
  <2>2. /\ g \in Handler /\ g.at = h.at /\ g.fd = h.fd /\ g.read = h.read
        /\ g.kind = h.kind
        /\ g.running \subseteq h.running
        /\ g.first = h.first /\ g.cut = h.cut /\ g.piped = written /\ g.proc = h.proc
    BY <1>1, BoundsAssumption DEF Handler
  <2> HIDE DEF g, h
  <2> QED
    BY <1>1, <1>3, <2>1, <2>2
<1>5. CASE ClientLeaves(v)
  <2> DEFINE g == [h EXCEPT !.ws = "left"]
  <2>1. Update(v, g)
    BY <1>5 DEF ClientLeaves
  <2>2. /\ g \in Handler /\ g.at = h.at /\ g.fd = h.fd /\ g.read = h.read
        /\ g.kind = h.kind
        /\ g.running \subseteq h.running
        /\ g.first = h.first /\ g.cut = h.cut /\ g.piped = h.piped /\ g.proc = h.proc
    BY <1>1 DEF Handler
  <2> HIDE DEF g, h
  <2> QED
    BY <1>3, <2>1, <2>2
<1>6. CASE ProcessFails(v) \/ ProcessStops(v) \/ ProcessDies(v)
  <2> DEFINE g == [h EXCEPT !.proc = "ended"]
  <2>1. Update(v, g) /\ h.proc # "none"
    BY <1>6 DEF ProcessFails, ProcessStops, ProcessDies
  <2>2. /\ g \in Handler /\ g.at = h.at /\ g.fd = h.fd /\ g.read = h.read
        /\ g.kind = h.kind
        /\ g.running \subseteq h.running
        /\ g.first = h.first /\ g.cut = h.cut /\ g.piped = h.piped /\ g.proc = "ended"
    BY <1>1 DEF Handler
  <2> HIDE DEF g, h
  <2> QED
    BY <1>3, <2>1, <2>2
<1>7. CASE ReadReturns(v) \/ InputRaises(v)
  <2>1. PICK g \in {[h EXCEPT !.blocked = FALSE],
                    Ended([h EXCEPT !.blocked = FALSE], "output"), Ended(h, "socket")} :
          Update(v, g)
    BY <1>7 DEF ReadReturns, InputRaises
  <2>2. /\ g \in Handler /\ g.at = h.at /\ g.fd = h.fd /\ g.read = h.read
        /\ g.kind = h.kind
        /\ g.running \subseteq h.running
        /\ g.first = h.first /\ g.cut = h.cut /\ g.piped = h.piped /\ g.proc = h.proc
    <3>1. CASE g = [h EXCEPT !.blocked = FALSE]
      BY <1>1, <3>1 DEF Handler
    <3>2. CASE g = Ended([h EXCEPT !.blocked = FALSE], "output")
      BY <1>1, <3>2 DEF Handler, Ended
    <3>3. CASE g = Ended(h, "socket")
      BY <1>1, <3>3 DEF Handler, Ended
    <3> QED
      BY <2>1, <3>1, <3>2, <3>3
  <2> HIDE DEF h
  <2> QED
    BY <1>3, <2>1, <2>2
<1> QED
  BY <1>4, <1>5, <1>6, <1>7

(* From the request to the open stream, and to the next one *)
LEMMA StartFine ==
  ASSUME StreamsInv, NEW v \in Viewer,
         \/ LookUp(v) \/ LookedUp(v) \/ NotLookedUp(v) \/ FindWorker(v)
         \/ SleepEnds(v)
  PROVE  StreamsInv'
<1> DEFINE h == viewer[v]
<1>1. /\ h \in Handler /\ HoldsByStage(h) /\ HandlerFine(h, seen[v], written)
      /\ written \in Nat
  <2>1. HandlerFine(h, seen[v], written) /\ written \in Nat
    BY BoundsAssumption DEF StreamsInv
  <2> QED
    BY <2>1 DEF HandlerFine
<1>2. /\ seen' = seen /\ written' = written
      /\ h.at \in {"new", "lookup", "sleep"}
  BY DEF LookUp, LookedUp, NotLookedUp, FindWorker, SleepEnds, Kept
<1>3. CASE Update(v, Done(h))
  BY <1>1, <1>2, <1>3, DoneFine, QuietHandler DEF Between
<1>4. ASSUME NEW at \in {"lookup", "open"}, Update(v, [h EXCEPT !.at = at])
      PROVE  StreamsInv'
  <2> DEFINE g == [h EXCEPT !.at = at]
  <2>1. /\ g \in Handler /\ g.at = at /\ g.fd = h.fd /\ g.read = h.read
        /\ g.kind = h.kind /\ g.running = h.running
        /\ g.first = h.first /\ g.cut = h.cut /\ g.piped = h.piped /\ g.proc = h.proc
    BY <1>1 DEF Handler
  <2> HIDE DEF g
  <2>2. HoldsByStage(g)
    BY <1>1, <1>2, <2>1 DEF HoldsByStage, Between
  <2>3. (g.first => h.first) /\ g.at # "sleep" /\ Between(h)
    BY <1>2, <2>1 DEF Between
  <2> HIDE DEF h
  <2>4. HandlerFine(g, seen[v], written)
    BY <1>1, <2>1, <2>2, <2>3, StillFine
  <2> QED
    BY <1>2, <1>4, <2>4, QuietHandler DEF g
<1>5. \/ Update(v, Done(h))
      \/ \E at \in {"lookup", "open"} : Update(v, [h EXCEPT !.at = at])
  BY DEF LookUp, LookedUp, NotLookedUp, FindWorker, SleepEnds
<1> QED
  BY <1>3, <1>4, <1>5

(* A PTY and no process yet: it may fail, or be cut off with the PTY open. *)
LEMMA OpeningFine ==
  ASSUME StreamsInv, NEW v \in Viewer,
         OpenBegins(v) \/ OpenRaises(v) \/ CancelOpen(v)
  PROVE  StreamsInv'
<1> DEFINE h == viewer[v]
           g(at, fd, cut) == [h EXCEPT !.at = at, !.fd = fd, !.cut = cut]
<1>1. /\ h \in Handler /\ HoldsByStage(h) /\ HandlerFine(h, seen[v], written)
      /\ written \in Nat
  <2>1. HandlerFine(h, seen[v], written) /\ written \in Nat
    BY BoundsAssumption DEF StreamsInv
  <2> QED
    BY <2>1 DEF HandlerFine
<1>2. /\ seen' = seen /\ written' = written
      /\ h.at \in {"open", "opening"} /\ Between(h)
  BY DEF OpenBegins, OpenRaises, CancelOpen, Opening, Kept, Between
<1>3. ASSUME NEW at \in {"opening", "sleep"}, NEW fd \in BOOLEAN,
             NEW cut \in {"no", "opening", "waiting"},
             fd => h.kind = "nvtop" /\ at = "opening", at = "sleep" => ~h.first
      PROVE  HandlerFine(g(at, fd, cut), seen[v], written)
  <2>1. /\ g(at, fd, cut) \in Handler /\ g(at, fd, cut).at = at
        /\ g(at, fd, cut).fd = fd /\ g(at, fd, cut).cut = cut
        /\ g(at, fd, cut).read = h.read /\ g(at, fd, cut).piped = h.piped
        /\ g(at, fd, cut).kind = h.kind /\ g(at, fd, cut).running = h.running
        /\ g(at, fd, cut).first = h.first /\ g(at, fd, cut).proc = h.proc
    BY <1>1 DEF Handler
  <2> HIDE DEF g, h
  <2>2. HoldsByStage(g(at, fd, cut))
    BY <1>1, <1>2, <1>3, <2>1 DEF HoldsByStage, Between
  <2> QED
    BY <1>1, <1>2, <1>3, <2>1, <2>2, StillFine
<1>4. CASE OpenBegins(v)
  <2>1. PICK fd \in BOOLEAN : fd = (h.kind = "nvtop")
    OBVIOUS
  <2>2. Update(v, g("opening", fd, h.cut)) /\ h.cut \in {"no", "opening", "waiting"}
    BY <1>1, <1>4, <2>1 DEF OpenBegins, Handler
  <2>3. HandlerFine(g("opening", fd, h.cut), seen[v], written)
    BY <1>3, <2>1, <2>2
  <2> QED
    BY <1>2, <2>2, <2>3, QuietHandler
<1>5. CASE OpenRaises(v)
  <2> DEFINE k == [h EXCEPT !.fd = FALSE]
  <2>1. /\ k \in Handler /\ k.at = "opening" /\ k.fd = FALSE /\ k.first = h.first
        /\ k = g("opening", FALSE, h.cut) /\ h.cut \in {"no", "opening", "waiting"}
        /\ [k EXCEPT !.at = "sleep"] = g("sleep", FALSE, h.cut)
    BY <1>1, <1>5 DEF OpenRaises, Opening, Handler
  <2>2. \/ Update(v, Done(k))
        \/ ~h.first /\ Update(v, [k EXCEPT !.at = "sleep"])
    BY <1>5, <2>1 DEF OpenRaises
  <2>3. HandlerFine(k, seen[v], written)
    BY <1>3, <2>1
  <2> HIDE DEF k
  <2>4. HandlerFine(Done(k), seen[v], written)
    BY <1>1, <2>1, <2>3, DoneFine DEF Between
  <2>5. ~h.first => HandlerFine([k EXCEPT !.at = "sleep"], seen[v], written)
    BY <1>3, <2>1
  <2> QED
    BY <1>2, <2>2, <2>4, <2>5, QuietHandler
<1>6. CASE CancelOpen(v)
  <2> DEFINE k == [h EXCEPT !.cut = "opening"]
  <2>1. /\ k = g("opening", h.fd, "opening") /\ k.at = "opening"
        /\ k.cut = "opening" /\ h.fd \in BOOLEAN /\ Update(v, Done(k))
        /\ (h.fd => h.kind = "nvtop")
    BY <1>1, <1>6 DEF CancelOpen, Opening, Handler, HoldsByStage
  <2>2. HandlerFine(k, seen[v], written)
    BY <1>3, <2>1
  <2> HIDE DEF k
  <2>3. HandlerFine(Done(k), seen[v], written)
    BY <1>1, <2>1, <2>2, DoneFine DEF Between
  <2> QED
    BY <1>2, <2>1, <2>3, QuietHandler
<1> QED
  BY <1>4, <1>5, <1>6

(* A new ssh process starts where the log ends, or, for a viewer that has *)
(* seen nothing, with the tail of it. *)
LEMMA OpenFine ==
  ASSUME StreamsInv, NEW v \in Viewer, Open(v)
  PROVE  StreamsInv'
<1> DEFINE h == viewer[v]
<1>1. /\ h \in Handler /\ HandlerFine(h, seen[v], written)
      /\ written \in Nat /\ written <= MaxLog /\ MaxLog \in Nat /\ TailBytes \in Nat
      /\ h.read \in Nat /\ h.piped \in Nat /\ h.read <= h.piped /\ h.piped <= written
  BY BoundsAssumption DEF StreamsInv, HandlerFine, Handler
<1>2. h.at = "opening" /\ seen' = seen /\ written' = written
  BY DEF Open, Opening, Kept
<1>3. PICK from : from = LastOf(IF h.first THEN TailBytes ELSE 0)
  OBVIOUS
<1>4. from \in Nat /\ from <= written /\ (~h.first => from = written)
  BY <1>1, <1>3 DEF LastOf
<1> DEFINE g == Opened(h, from)
<1>5. /\ g \in Handler /\ g.at = "watch" /\ g.read = from /\ g.piped = from
      /\ g.fd = h.fd /\ g.kind = h.kind
  <2>1. from \in 0 .. MaxLog
    BY <1>1, <1>4
  <2> QED
    BY <1>1, <2>1 DEF Opened, Handler
<1>6. Update(v, g)
  BY <1>3 DEF Open
<1> HIDE DEF g
<1>7. Sent(seen[v], g.read)
  <2>1. Sent(seen[v], h.read)
    BY <1>1 DEF HandlerFine
  <2>2. CASE h.first
    <3>1. seen[v] = <<>>
      BY <1>1, <1>2, <2>2 DEF HandlerFine, Between
    <3> QED
      BY <3>1 DEF Sent
  <2>3. CASE ~h.first
    BY <1>1, <1>4, <1>5, <2>1, <2>3, SentFurther
  <2> QED
    BY <2>2, <2>3
<1>8. HandlerFine(g, seen[v], written)
  BY <1>1, <1>4, <1>5, <1>7 DEF HandlerFine, HoldsByStage, Between
<1> QED
  BY <1>2, <1>6, <1>8, QuietHandler

(* The two asyncio tasks of a handler end; the handler does not notice yet. *)
LEMMA EndedFine ==
  ASSUME StreamsInv, NEW v \in Viewer, SocketEnds(v) \/ OutputEnds(v) \/ ReadPty(v)
  PROVE  StreamsInv'
<1> DEFINE h == viewer[v]
<1>1. /\ h \in Handler /\ HoldsByStage(h) /\ HandlerFine(h, seen[v], written)
      /\ written \in Nat /\ (h.first /\ Between(h) => h.at # "sleep")
  <2>1. HandlerFine(h, seen[v], written) /\ written \in Nat
    BY BoundsAssumption DEF StreamsInv
  <2> QED
    BY <2>1 DEF HandlerFine
<1>2. seen' = seen /\ written' = written
  BY DEF SocketEnds, OutputEnds, ReadPty, Kept
<1>3. PICK g \in {[Ended(h, "socket") EXCEPT !.ws = "closed"], Ended(h, "output"),
                  [h EXCEPT !.blocked = TRUE]} : Update(v, g)
  BY DEF SocketEnds, OutputEnds, ReadPty
<1>4. /\ g \in Handler /\ g.at = h.at /\ g.fd = h.fd /\ g.read = h.read
      /\ g.kind = h.kind
      /\ g.running \subseteq h.running
      /\ g.first = h.first /\ g.cut = h.cut /\ g.piped = h.piped /\ g.proc = h.proc
  <2>1. CASE g = [Ended(h, "socket") EXCEPT !.ws = "closed"]
    BY <1>1, <2>1 DEF Handler, Ended
  <2>2. CASE g = Ended(h, "output")
    BY <1>1, <2>2 DEF Handler, Ended
  <2>3. CASE g = [h EXCEPT !.blocked = TRUE]
    BY <1>1, <2>3 DEF Handler
  <2> QED
    BY <1>3, <2>1, <2>2, <2>3
<1> HIDE DEF h
<1>5. HoldsByStage(g) /\ (Between(g) <=> Between(h))
  BY <1>1, <1>4 DEF HoldsByStage, Between
<1>6. HandlerFine(g, seen[v], written)
  BY <1>1, <1>4, <1>5, StillFine
<1> QED
  BY <1>2, <1>3, <1>6, QuietHandler

(* The finally clause, _terminate_process and cancellations *)
LEMMA StopFine ==
  ASSUME StreamsInv, NEW v \in Viewer,
         \/ Wake(v) \/ CancelStream(v) \/ CancelWait(v) \/ Terminate(v)
         \/ Waited(v) \/ GraceEnds(v)
  PROVE  StreamsInv'
<1> DEFINE h == viewer[v]
<1>1. /\ h \in Handler /\ HoldsByStage(h) /\ HandlerFine(h, seen[v], written)
      /\ written \in Nat /\ (h.first /\ Between(h) => h.at # "sleep")
  <2>1. HandlerFine(h, seen[v], written) /\ written \in Nat
    BY BoundsAssumption DEF StreamsInv
  <2> QED
    BY <2>1 DEF HandlerFine
<1>2. seen' = seen /\ written' = written
  BY DEF Wake, CancelStream, CancelWait, Terminate, Waited, GraceEnds, Kept
<1>3. ASSUME NEW g, g \in Handler, HoldsByStage(g), Update(v, g),
             g.read = h.read, g.piped = h.piped, ~Between(g)
      PROVE  StreamsInv'
  <2>1. HandlerFine(g, seen[v], written)
    BY <1>1, <1>3, StillFine
  <2> QED
    BY <1>2, <1>3, <2>1, QuietHandler
<1>4. CASE Wake(v) \/ CancelStream(v)
  <2>1. PICK l \in BOOLEAN :
          Update(v, [h EXCEPT !.at = "stop", !.fd = FALSE, !.running = {}, !.leave = l])
    BY <1>4 DEF Wake, CancelStream, Leaves
  <2> DEFINE g == [h EXCEPT !.at = "stop", !.fd = FALSE, !.running = {}, !.leave = l]
  <2>2. /\ g \in Handler /\ g.at = "stop" /\ g.fd = FALSE /\ g.running = {}
        /\ g.kind = h.kind /\ g.read = h.read /\ g.piped = h.piped
    BY <1>1 DEF Handler
  <2> HIDE DEF h
  <2>3. Update(v, g)
    BY <2>1
  <2> HIDE DEF g
  <2>4. HoldsByStage(g) /\ ~Between(g)
    BY <2>2 DEF HoldsByStage, Between
  <2> QED
    BY <1>3, <2>2, <2>3, <2>4
<1>5. CASE CancelWait(v)
  <2> DEFINE g == IF h.at = "sleep" THEN h ELSE [h EXCEPT !.cut = "waiting"]
  <2>1. Update(v, Done(g)) /\ h.at \in {"sleep", "grace", "kill"}
    BY <1>5 DEF CancelWait
  <2>2. /\ g \in Handler /\ g.at = h.at /\ g.fd = h.fd /\ g.read = h.read
        /\ g.kind = h.kind
        /\ g.running \subseteq h.running
        /\ g.first = h.first /\ g.piped = h.piped /\ g.proc = h.proc
        /\ h.at # "sleep" => g.cut = "waiting"
    BY <1>1 DEF Handler
  <2> HIDE DEF g, h
  <2>3. HoldsByStage(g)
    BY <1>1, <2>1, <2>2 DEF HoldsByStage, Between
  <2>4. Between(g) <=> Between(h)
    BY <2>2 DEF Between
  <2>5. HandlerFine(g, seen[v], written)
    BY <1>1, <2>2, <2>3, <2>4, StillFine
  <2>6. Between(g) \/ (g.cut = "waiting" /\ g.at \in {"grace", "kill"})
    BY <2>1, <2>2 DEF Between
  <2>7. HandlerFine(Done(g), seen[v], written)
    BY <1>1, <2>1, <2>2, <2>5, <2>6, DoneFine
  <2> QED
    BY <1>2, <2>1, <2>7, QuietHandler
<1>6. CASE Update(v, Stopped(h)) /\ h.at \in {"stop", "grace", "kill"} /\ h.proc = "ended"
  BY <1>1, <1>2, <1>6, StoppedFine, QuietHandler
<1>7. ASSUME NEW at \in {"grace", "kill"}, NEW proc \in {"stopping", "killed"},
             Update(v, [h EXCEPT !.at = at, !.proc = proc]),
             h.at \in {"stop", "grace"}
      PROVE  StreamsInv'
  <2> DEFINE g == [h EXCEPT !.at = at, !.proc = proc]
  <2>1. /\ g \in Handler /\ g.at = at /\ g.proc = proc /\ g.fd = h.fd
        /\ g.kind = h.kind
        /\ g.running = h.running
        /\ g.read = h.read /\ g.piped = h.piped
    BY <1>1 DEF Handler
  <2>2. Update(v, g)
    BY <1>7
  <2> HIDE DEF g, h
  <2>3. HoldsByStage(g) /\ ~Between(g)
    BY <1>1, <1>7, <2>1 DEF HoldsByStage, Between
  <2> QED
    BY <1>3, <2>1, <2>2, <2>3
<1>8. CASE Terminate(v) \/ Waited(v) \/ GraceEnds(v)
  BY <1>6, <1>7, <1>8 DEF Terminate, Waited, GraceEnds
<1> QED
  BY <1>4, <1>5, <1>8

(* What is in the pipe is sent, or dropped if the client has gone. *)
LEMMA ForwardFine ==
  ASSUME StreamsInv, NEW v \in Viewer, Forward(v)
  PROVE  StreamsInv'
<1> DEFINE h == viewer[v]
           s == seen[v]
           more == [i \in 1 .. h.piped - h.read |-> h.read + i]
<1>1. HandlerFine(h, s, written) /\ written \in Nat /\ written <= MaxLog /\ MaxLog \in Nat
  BY BoundsAssumption DEF StreamsInv
<1>2. /\ h \in Handler /\ HoldsByStage(h) /\ Sent(s, h.read)
      /\ h.read \in Nat /\ h.piped \in Nat /\ h.read <= h.piped /\ h.piped <= written
  BY <1>1 DEF HandlerFine, Handler
<1>3. PICK g \in {[h EXCEPT !.read = h.piped],
                  Ended([h EXCEPT !.read = h.piped], "output")} :
        /\ Update(v, g)
        /\ \/ seen' = seen
           \/ seen' = [seen EXCEPT ![v] = s \o more]
  BY DEF Forward
<1>4. written' = written
  BY DEF Forward
<1>5. /\ g \in Handler /\ g.at = h.at /\ g.fd = h.fd /\ g.first = h.first
      /\ g.kind = h.kind /\ g.cut = h.cut /\ g.proc = h.proc /\ g.read = h.piped /\ g.piped = h.piped
  <2>1. CASE g = [h EXCEPT !.read = h.piped]
    BY <1>2, <2>1 DEF Handler
  <2>2. CASE g = Ended([h EXCEPT !.read = h.piped], "output")
    BY <1>2, <2>2 DEF Handler, Ended
  <2> QED
    BY <1>3, <2>1, <2>2
<1>6. h.at = "watch"
  <2>1. "output" \in h.running
    BY DEF Forward, Runs
  <2> QED
    BY <1>2, <2>1 DEF HoldsByStage
<1>7. Sent(s, h.piped) /\ Sent(s \o more, h.piped)
  BY <1>2, SentFurther, SentNext
<1>8. /\ viewer' \in [Viewer -> Handler] /\ viewer'[v] = g
      /\ \A u \in Viewer \ {v} : viewer'[u] = viewer[u]
  BY <1>3, <1>5 DEF StreamsInv, Update
<1> HIDE DEF more
<1>9. /\ seen' \in [Viewer -> Seq(Nat)] /\ Sent(seen'[v], h.piped)
      /\ \A u \in Viewer \ {v} : seen'[u] = seen[u]
  <2>1. s \o more \in Seq(Nat) /\ seen \in [Viewer -> Seq(Nat)]
    BY <1>7 DEF Sent, StreamsInv
  <2>2. CASE seen' = seen
    BY <1>7, <2>1, <2>2
  <2>3. CASE seen' = [seen EXCEPT ![v] = s \o more]
    BY <1>7, <2>1, <2>3
  <2> QED
    BY <1>3, <2>2, <2>3
<1>10. HandlerFine(g, seen'[v], written)
  BY <1>2, <1>5, <1>6, <1>9 DEF HandlerFine, HoldsByStage, Between
<1>11. \A u \in Viewer : HandlerFine(viewer'[u], seen'[u], written)
  BY <1>8, <1>9, <1>10 DEF StreamsInv
<1> QED
  BY <1>4, <1>8, <1>9, <1>11 DEF StreamsInv

LEMMA LogGrowsFine ==
  ASSUME StreamsInv, LogGrows
  PROVE  StreamsInv'
<1>1. /\ written \in Nat /\ written' = written + 1 /\ written' \in 0 .. MaxLog
      /\ viewer' = viewer /\ seen' = seen
  BY BoundsAssumption DEF StreamsInv, LogGrows
<1>2. ASSUME NEW v \in Viewer
      PROVE  HandlerFine(viewer[v], seen[v], written')
  <2>1. HandlerFine(viewer[v], seen[v], written)
    BY DEF StreamsInv
  <2>2. viewer[v].piped \in Nat
    BY <2>1 DEF HandlerFine, Handler
  <2>3. viewer[v].piped <= written'
    BY <1>1, <2>1, <2>2 DEF HandlerFine
  <2> QED
    BY <2>1, <2>3 DEF HandlerFine
<1> QED
  BY <1>1, <1>2 DEF StreamsInv

LEMMA StreamsBegin == Init => StreamsInv
<1> SUFFICES ASSUME Init PROVE StreamsInv
  OBVIOUS
<1>1. /\ written = 0 /\ seen = [v \in Viewer |-> <<>>] /\ MaxLog \in Nat
      /\ viewer \in [Viewer -> {NewHandler("log"), NewHandler("nvtop")}]
  BY BoundsAssumption DEF Init
<1>2. <<>> \in Seq(Nat) /\ Sent(<<>>, 0)
  BY DEF Sent
<1>3. ASSUME NEW kind \in {"log", "nvtop"}
      PROVE  HandlerFine(NewHandler(kind), <<>>, 0)
  <2>1. NewHandler(kind) \in Handler
    BY <1>1 DEF NewHandler, Handler
  <2>2. HoldsByStage(NewHandler(kind))
    BY DEF NewHandler, HoldsByStage, Between
  <2> QED
    BY <1>2, <2>1, <2>2 DEF HandlerFine, NewHandler
<1>4. \A v \in Viewer : HandlerFine(viewer[v], seen[v], written)
  BY <1>1, <1>3
<1>5. viewer \in [Viewer -> Handler]
  BY <1>1, <1>4 DEF HandlerFine
<1> QED
  BY <1>1, <1>2, <1>4, <1>5 DEF StreamsInv

LEMMA StreamsStep == StreamsInv /\ [Next]_vars => StreamsInv'
<1> SUFFICES ASSUME StreamsInv, [Next]_vars
             PROVE  StreamsInv'
  OBVIOUS
<1>1. ASSUME NEW v \in Viewer, HandlerStep(v) \/ Outside(v)
      PROVE  StreamsInv'
  BY <1>1, OutsideFine, StartFine, OpeningFine, OpenFine, EndedFine, StopFine,
     ForwardFine
  DEF HandlerStep, Outside
<1>2. CASE PoolStep \/ UNCHANGED vars
  BY <1>2 DEF PoolStep, vars, StreamsInv
<1> QED
  BY <1>1, <1>2, LogGrowsFine DEF Next

LEMMA StreamsInvariant == Spec => []StreamsInv
BY StreamsBegin, StreamsStep, PTL DEF Spec

(***************************************************************************)
(* Whatever ends a stream - the client, its process, a failure to create   *)
(* it, a server that shuts down - its handler closes the PTY, unless it is *)
(* cancelled while open_nvtop waits for the new process, and leaves no ssh *)
(* process, but one it has signalled when it is cancelled in the wait for  *)
(* its end.  So these two cancellations are the only leaks of the code.    *)
(***************************************************************************)
THEOREM StreamsLeaveNothing == Spec => []NothingLeftBehind
<1>1. StreamsInv => NothingLeftBehind
  <2> SUFFICES ASSUME StreamsInv, NEW v \in Viewer,
                      viewer[v].at \in {"new", "lookup", "open", "sleep", "done"}
               PROVE  /\ viewer[v].fd => /\ viewer[v].kind = "nvtop"
                                         /\ viewer[v].cut = "opening"
                      /\ \/ viewer[v].proc \in {"none", "ended"}
                         \/ /\ viewer[v].cut = "waiting"
                            /\ viewer[v].proc \in {"stopping", "killed"}
    BY DEF NothingLeftBehind
  <2>1. HoldsByStage(viewer[v])
    BY DEF StreamsInv, HandlerFine
  <2> QED
    BY <2>1 DEF HoldsByStage, Between
<1> QED
  BY <1>1, StreamsInvariant, PTL

(***************************************************************************)
(* A viewer of a log gets no piece twice and none out of order, however    *)
(* often its connection to the worker is opened anew: only the first ssh   *)
(* process starts with the tail of the log.                                *)
(***************************************************************************)
THEOREM StreamsSendOnce == Spec => []NothingSentTwice
<1>1. StreamsInv => NothingSentTwice
  BY DEF StreamsInv, HandlerFine, Sent, NothingSentTwice
<1> QED
  BY <1>1, StreamsInvariant, PTL

(***************************************************************************)
(* No two operations of the store ever work on one SQLite connection, the  *)
(* task lookups of the web sockets on the event loop included.             *)
(***************************************************************************)
THEOREM ConnectionsHaveOneBorrower == Spec => []BorrowedByOne
<1>1. BorrowedByOne /\ NothingLeaks /\ IdleIsClean => BorrowedByOne
  OBVIOUS
<1> QED
  BY <1>1, StreamsKeepPoolSafe, PTL
=============================================================================
