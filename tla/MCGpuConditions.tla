-------------------------- MODULE MCGpuConditions --------------------------
(* TLC instances of GpuConditions: one GPU of 2 units of memory. *)
EXTENDS GpuConditions

CONSTANTS t1, t2, t3, w1, g1

MCPlain ==
  [priority |-> 0, gpus |-> 1, preemptible |-> FALSE, allow_preempt |-> FALSE,
   background |-> FALSE, elastic |-> FALSE, waits |-> FALSE, target |-> None,
   schedule |-> {}]

MCWaiting ==
  [MCPlain EXCEPT !.priority = 2, !.waits = TRUE, !.allow_preempt = TRUE]

(* t1 waits for a quiet GPU; t2 is evicted for it, be it a background task   *)
(* or a preemptible one; t3 comes first and wants more memory than there is. *)
MCSubmissions ==
  [t \in Task |->
     CASE t = t1 -> {MCWaiting}
       [] t = t2 -> {[MCPlain EXCEPT !.background = TRUE],
                     [MCPlain EXCEPT !.priority = 1, !.preemptible = TRUE]}
       [] OTHER  -> {[MCPlain EXCEPT !.priority = 3]}]

AnyUse == [used |-> None, utilization |-> None, free |-> None, seconds |-> 0]

AllFree == [AnyUse EXCEPT !.free = 2, !.seconds = 2]

MCWants ==
  [t \in Task |-> CASE t = t1 -> AllFree
                    [] t = t2 -> AnyUse
                    [] OTHER  -> [AnyUse EXCEPT !.free = 3]]

MCCreated == [t \in Task |-> IF t = t1 THEN 1 ELSE IF t = t2 THEN 2 ELSE 3]

MCReadings ==
  {[used |-> 0, utilization |-> 0], [used |-> 1, utilization |-> 1]}
=============================================================================
