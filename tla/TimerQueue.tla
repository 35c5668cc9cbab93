----------------------------- MODULE TimerQueue -----------------------------
(***************************************************************************)
(* include/timer.h and src/timer.cpp: deadlines kept in two maps, one from *)
(* a key to its (time, id) pair and an ordered one back.  Both indices     *)
(* pack the pair in 64 bits, so only the low 32 bits of the time survive   *)
(* (TimeMod), and the id counter index_ is 32 bits wide (IdMod).           *)
(***************************************************************************)
EXTENDS Naturals, Sequences, FiniteSets

CONSTANTS Keys,        \* the keys of the callers: io ids
          TimeMod,     \* times are kept modulo TimeMod
          IdMod,       \* index_ is kept modulo IdMod
          Timeouts,    \* what callers add to the clock
          MaxTime,     \* bound: the largest reading of the clock
          MaxAdds      \* bound: how many calls of add succeed

ASSUME TimerAssumption ==
  /\ TimeMod \in Nat \ {0}
  /\ IdMod \in Nat \ {0}
  /\ MaxTime \in Nat
  /\ MaxAdds \in Nat
  /\ Timeouts \subseteq Nat

VARIABLES
  now,         \* utils::getTimeInMilisecond(): the wall clock
  index,       \* index_
  key2timeid,  \* key2timeid_: armed key -> <<time, id>>
  timeid2key,  \* timeid2key_: <<time, id>> -> key, ordered by time, then id
  fired,       \* the keys of the last popExpired
  deadline,    \* history: armed key -> the time its caller asked for
  adds         \* history: how many calls of add succeeded

maps == <<key2timeid, timeid2key>>
vars == <<now, index, maps, fired, deadline, adds>>

Clocks == 0 .. MaxTime
Timeids == (0 .. TimeMod - 1) \X (0 .. IdMod - 1)

TS == INSTANCE TimerSet
  WITH Times <- Clocks \cup {t + d : t \in Clocks, d \in Timeouts}

With(f, x, y) == TS!With(f, x, y)
Without(f, S) == TS!Without(f, S)

Init ==
  /\ now \in Clocks
  /\ index = 0
  /\ key2timeid = <<>>
  /\ timeid2key = <<>>
  /\ fired = <<>>
  /\ deadline = <<>>
  /\ adds = 0

AddRefused(k) ==
  /\ k \in DOMAIN key2timeid
  /\ UNCHANGED vars

\* variant: the id above the time
PackIdFirst(time) == <<index, time % TimeMod>>

\* The index of a new entry: the time above, the id below.
Pack(time) == <<time % TimeMod, index>>

\* std::map::insert leaves an entry that is already there as it is.
Add(k, timeout) ==
  LET time == now + timeout
      timeid == Pack(time)
  IN /\ k \notin DOMAIN key2timeid
     /\ adds < MaxAdds
     /\ key2timeid' = With(key2timeid, k, timeid)
     /\ timeid2key' = IF timeid \in DOMAIN timeid2key
                      THEN timeid2key ELSE With(timeid2key, timeid, k)
     /\ index' = (index + 1) % IdMod
     /\ deadline' = With(deadline, k, time)
     /\ adds' = adds + 1
     /\ UNCHANGED <<now, fired>>

Removable(k) == k \in DOMAIN key2timeid /\ key2timeid[k] \in DOMAIN timeid2key

\* variant: remove leaves the entry of the ordered map
EraseKeyOnly(timeid) == timeid2key' = timeid2key

EraseTimeid(timeid) == timeid2key' = Without(timeid2key, {timeid})

Remove(k) ==
  /\ Removable(k)
  /\ key2timeid' = Without(key2timeid, {k})
  /\ EraseTimeid(key2timeid[k])
  /\ deadline' = Without(deadline, {k})
  /\ UNCHANGED <<now, index, fired, adds>>

RemoveRefused(k) ==
  /\ ~Removable(k)
  /\ UNCHANGED vars

Before(a, b) == a[1] < b[1] \/ (a[1] = b[1] /\ a[2] < b[2])

\* variant: lower_bound of the clock
ExpiredStrictly == {ti \in DOMAIN timeid2key : ti[1] < now % TimeMod}

\* The entries up to upper_bound(flag), flag being the clock's low bits
\* followed by the largest id.
Expired == {ti \in DOMAIN timeid2key : ti[1] <= now % TimeMod}

\* The ordered map visits S from its first entry to its last.
InOrder(S) ==
  {s \in [1 .. Cardinality(S) -> S] :
     /\ TS!IsListing(s, S)
     /\ \A i, j \in DOMAIN s : i < j => Before(s[i], s[j])}

PopExpired ==
  \E s \in InOrder(Expired) :
    LET keys == [i \in 1 .. Len(s) |-> timeid2key[s[i]]]
        gone == {keys[i] : i \in 1 .. Len(s)}
    IN /\ fired' = keys
       /\ key2timeid' = Without(key2timeid, gone)
       /\ timeid2key' = Without(timeid2key, Expired)
       /\ deadline' = Without(deadline, gone)
       /\ UNCHANGED <<now, index, adds>>

\* system_clock may also be set back.
Clock ==
  /\ now' \in Clocks
  /\ UNCHANGED <<index, maps, fired, deadline, adds>>

Next ==
  \/ \E k \in Keys, timeout \in Timeouts : Add(k, timeout)
  \/ \E k \in Keys : AddRefused(k)
  \/ \E k \in Keys : Remove(k)
  \/ \E k \in Keys : RemoveRefused(k)
  \/ PopExpired
  \/ Clock

Spec == Init /\ [][Next]_vars

------------------------------------------------------------------------------
(* Properties *)

\* The types: times and ids fit the halves of the packed index.
TypeOK ==
  /\ now \in Clocks
  /\ index \in 0 .. IdMod - 1
  /\ DOMAIN key2timeid \subseteq Keys
  /\ \A k \in DOMAIN key2timeid : key2timeid[k] \in Timeids
  /\ DOMAIN timeid2key \subseteq Timeids
  /\ \A ti \in DOMAIN timeid2key : timeid2key[ti] \in Keys
  /\ adds \in 0 .. MaxAdds

\* The two maps are the inverse of each other, so that a key can be removed, or
\* expire, from both: no timer is left in one map when it has left the other.
MapsAreInverse ==
  /\ \A k \in DOMAIN key2timeid :
       key2timeid[k] \in DOMAIN timeid2key /\ timeid2key[key2timeid[k]] = k
  /\ \A ti \in DOMAIN timeid2key :
       timeid2key[ti] \in DOMAIN key2timeid /\ key2timeid[timeid2key[ti]] = ti

\* TimerQueue is a TimerSet: popExpired returns the keys whose deadline has
\* passed, all of them and no other, earliest first, each once.
ImplementsTimerSet == TS!Spec
==============================================================================
