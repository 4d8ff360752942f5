---------------------------- MODULE MCScheduler ----------------------------
(* TLC instances of Scheduler. *)
EXTENDS SchedulerProperties, SchedulerClaims, TLC

CONSTANTS t1, t2, t3, w1, w2, g1, g2, g3, g4

MCPlain ==
  [priority |-> 0, gpus |-> 1, preemptible |-> FALSE, allow_preempt |-> FALSE,
   background |-> FALSE, elastic |-> FALSE, waits |-> FALSE, target |-> None,
   schedule |-> {}]

MCUrgent == [MCPlain EXCEPT !.priority = 2, !.allow_preempt = TRUE]

MCYielding == [MCPlain EXCEPT !.priority = 1, !.preemptible = TRUE]

MCElastic ==
  [MCPlain EXCEPT !.background = TRUE, !.elastic = TRUE, !.gpus = 2]

(* Clients against the tick: a preemptible task and an urgent one. *)
RaceSubmissions ==
  [t \in Task |-> IF t = t1 THEN {[MCYielding EXCEPT !.schedule = {"stop"}]}
                            ELSE {MCUrgent}]

(* Preemption and resizing with nobody interfering: two background tasks   *)
(* (one elastic), a scheduled preemptible one and an urgent one.           *)
PlacementSubmissions ==
  [t \in Task |->
     CASE t = t1 -> {MCElastic}
       [] t = t2 -> {[MCUrgent EXCEPT !.gpus = 2]}
       [] OTHER  -> {[MCYielding EXCEPT !.schedule = {"start", "stop"}],
                     [MCPlain EXCEPT !.background = TRUE]}]

(* NUMA: what runs may be regular or elastic background; what wants a whole *)
(* node may or may not preempt regular tasks.                               *)
NumaSubmissions ==
  [t \in Task |->
     IF t = t1 THEN {MCElastic, MCYielding}
     ELSE {[MCUrgent EXCEPT !.gpus = 2, !.allow_preempt = allow] :
             allow \in BOOLEAN}]

(* An elastic background task and an urgent one, for the liveness run *)
LivenessSubmissions == [t \in Task |-> IF t = t1 THEN {MCElastic} ELSE {MCUrgent}]

NoCap == [w \in Worker |-> None]

NumaCap == [w \in Worker |-> 3]

OneBackground == [w \in Worker |-> 1]

OneNode == [g \in Gpu |-> 0]

(* The GPUs of a node are interchangeable. *)
NumaSymmetry == Permutations({g1, g2}) \cup Permutations({g3, g4})

TwoNodes == [g \in Gpu |-> IF g \in {g3, g4} THEN 1 ELSE 0]
=============================================================================
