----------------------------- MODULE MCHandlers -----------------------------
(* Two connections, and one descriptor more for the file of either. *)
EXTENDS Handlers
CONSTANTS c1, c2
==============================================================================
