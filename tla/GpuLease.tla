------------------------------ MODULE GpuLease ------------------------------
(***************************************************************************)
(* What gpu-watcher promises of GPUs, without queues, priorities, sessions *)
(* or failures: a task acquires a set of GPUs of one worker, none of which *)
(* another task holds, and later gives all of them back.                   *)
(***************************************************************************)
CONSTANTS Task, Worker, Gpu

VARIABLE lease   \* lease[t]: the <<worker, gpu>> pairs task t holds

LeaseInit == lease = [t \in Task |-> {}]

Acquire(t, w, G) ==
  /\ lease[t] = {}
  /\ \A u \in Task : lease[u] \cap ({w} \X G) = {}
  /\ lease' = [lease EXCEPT ![t] = {w} \X G]

Release(t) == lease' = [lease EXCEPT ![t] = {}]

LeaseNext ==
  \E t \in Task :
    \/ \E w \in Worker, G \in SUBSET Gpu : Acquire(t, w, G)
    \/ Release(t)

LeaseSpec == LeaseInit /\ [][LeaseNext]_lease

(* No GPU of a worker is held by two tasks. *)
Exclusive ==
  \A t, u \in Task : t # u => lease[t] \cap lease[u] = {}
=============================================================================
