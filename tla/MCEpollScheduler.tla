-------------------------- MODULE MCEpollScheduler --------------------------
(* Two connections whose descriptors are numbers that io ids take too. *)
EXTENDS EpollScheduler
CONSTANTS h1, h2
MCFdOf == [h \in Handles |-> IF h = h1 THEN 1 ELSE 2]
==============================================================================
