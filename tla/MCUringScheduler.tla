-------------------------- MODULE MCUringScheduler --------------------------
(* Two coroutines on one worker. *)
EXTENDS UringScheduler
CONSTANTS h1, h2
==============================================================================
