------------------------------ MODULE TimerSet ------------------------------
(***************************************************************************)
(* What TimerQueue (include/timer.h) promises to the schedulers: each key  *)
(* has at most one deadline, and asking for the expired keys returns       *)
(* exactly those whose deadline has passed, earliest first, and disarms    *)
(* them.                                                                   *)
(***************************************************************************)
EXTENDS Naturals, Sequences

CONSTANTS Keys,
          Times      \* the readings of the clock, in milliseconds

VARIABLES now,       \* the wall clock
          deadline,  \* armed key -> the time it expires
          fired      \* the result of the last request for expired keys

timerVars == <<now, deadline, fired>>

With(f, x, y) == [z \in DOMAIN f \cup {x} |-> IF z = x THEN y ELSE f[z]]
Without(f, S) == [z \in DOMAIN f \ S |-> f[z]]

\* s lists the elements of S, each of them once.
IsListing(s, S) ==
  /\ s \in Seq(S)
  /\ \A x \in S : \E i \in 1 .. Len(s) : s[i] = x
  /\ \A i, j \in 1 .. Len(s) : s[i] = s[j] => i = j

Due == {k \in DOMAIN deadline : deadline[k] <= now}

Init == now \in Times /\ deadline = <<>> /\ fired = <<>>

Arm(k, time) ==
  /\ k \notin DOMAIN deadline
  /\ deadline' = With(deadline, k, time)
  /\ UNCHANGED <<now, fired>>

Disarm(k) ==
  /\ k \in DOMAIN deadline
  /\ deadline' = Without(deadline, {k})
  /\ UNCHANGED <<now, fired>>

\* An answer to a request for the expired keys.
Expiry(s) ==
  /\ IsListing(s, Due)
  /\ \A i, j \in 1 .. Len(s) : i < j => deadline[s[i]] <= deadline[s[j]]

Expire ==
  /\ Expiry(fired')
  /\ deadline' = Without(deadline, Due)
  /\ UNCHANGED now

Clock == now' \in Times /\ UNCHANGED <<deadline, fired>>

Next ==
  \/ \E k \in Keys : Disarm(k) \/ \E time \in Times : Arm(k, time)
  \/ Expire
  \/ Clock

Spec == Init /\ [][Next]_timerVars
==============================================================================
