------------------------------ MODULE MCServer ------------------------------
(* Four connections, and two workers behind queues of one element. *)
EXTENDS Server
==============================================================================
