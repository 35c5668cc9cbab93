---------------------------- MODULE MCTimerQueue ----------------------------
(* TimerQueue while neither the 32 bits of the time nor the ids wrap. *)
EXTENDS TimerQueue
CONSTANTS k1, k2, k3
==============================================================================
