---------------------------- MODULE MCTaskEvents ----------------------------
(* TLC instance of TaskEvents: a preemptible task and a plain one. *)
EXTENDS TaskEvents

CONSTANTS t1, t2, w1, g1, g2

MCPlain ==
  [priority |-> 0, gpus |-> 1, preemptible |-> FALSE, allow_preempt |-> FALSE,
   background |-> FALSE, elastic |-> FALSE, waits |-> FALSE, target |-> None,
   schedule |-> {}]

MCAttempts == [t \in Task |-> IF t = t1 THEN 2 ELSE 1]

MCSubmissions == [t \in Task |-> {[MCPlain EXCEPT !.preemptible = (t = t1)]}]
=============================================================================
