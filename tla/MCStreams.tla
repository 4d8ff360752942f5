----------------------------- MODULE MCStreams -----------------------------
(* TLC instance of Streams: the event loop and the scheduler thread share  *)
(* the Store while one viewer follows a log or uses a terminal. *)
EXTENDS Streams

CONSTANTS loop, scheduler, v1, c1, c2
=============================================================================
