------------------------- MODULE MCLockfreeQueueWrap -------------------------
(* The counters wrap.  2^32 is no multiple of the default capacity 25600, and *)
(* neither is IndexMod = 8 of Capacity = 5; one consumer, as in TcpServer. *)
EXTENDS LockfreeQueue
CONSTANTS v1, v2, garbage, c1
MCValues == {v1, v2}
==============================================================================
