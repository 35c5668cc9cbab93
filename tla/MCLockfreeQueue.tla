--------------------------- MODULE MCLockfreeQueue ---------------------------
(* LockfreeQueue on a small ring, before its counters wrap: two consumers    *)
(* race, and the slots are reused. *)
EXTENDS LockfreeQueue
CONSTANTS v1, v2, garbage, c1, c2
MCValues == {v1, v2}
MCConsumers == {c1, c2}
MCWords == 1 .. 2
==============================================================================
