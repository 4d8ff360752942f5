-------------------------- MODULE MCTaskLifecycle --------------------------
(* TLC instance of TaskLifecycle: every kind of task, one worker.          *)
EXTENDS TaskLifecycle

MCPlain ==
  [priority |-> 0, gpus |-> 1, preemptible |-> FALSE, allow_preempt |-> FALSE,
   background |-> FALSE, elastic |-> FALSE, waits |-> FALSE, target |-> None,
   schedule |-> {}]

MCSubmissions ==
  [t \in Task |->
     {MCPlain,
      [MCPlain EXCEPT !.preemptible = TRUE],
      [MCPlain EXCEPT !.background = TRUE]}]
=============================================================================
