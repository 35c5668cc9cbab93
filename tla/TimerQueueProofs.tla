-------------------------- MODULE TimerQueueProofs --------------------------
(***************************************************************************)
(* The two maps of the timer queue stay inverse and the queue implements a *)
(* set of deadlines, for every set of keys and of timeouts and however the *)
(* clock is moved, as long as neither the low bits of the time nor the ids *)
(* wrap.                                                                   *)
(***************************************************************************)
EXTENDS TimerQueue, TLAPS

\* No deadline and no reading of the clock needs more bits than are kept, and
\* index_ does not come back to a value it had.
NoWrap ==
  /\ MaxTime < TimeMod
  /\ \A t \in Clocks, d \in Timeouts : t + d < TimeMod
  /\ MaxAdds < IdMod

\* The pair kept for a key is its deadline and the number of the call of add.
PairsInv ==
  /\ index = adds
  /\ DOMAIN deadline = DOMAIN key2timeid
  /\ \A k \in DOMAIN key2timeid :
       /\ key2timeid[k] \in Timeids
       /\ key2timeid[k][1] = deadline[k]
       /\ key2timeid[k][2] < index

IInv == TypeOK /\ MapsAreInverse /\ PairsInv

LEMMA ModSmall ==
  ASSUME NEW n \in Nat, NEW m \in Nat, n < m
  PROVE  n % m = n
  BY SMT

\* The pair that add builds is new.
LEMMA FreshTimeid ==
  ASSUME NoWrap, IInv, NEW k \in Keys, NEW timeout \in Timeouts, adds < MaxAdds
  PROVE  /\ now + timeout \in Nat
         /\ (now + timeout) % TimeMod = now + timeout
         /\ <<now + timeout, index>> \in Timeids
         /\ <<now + timeout, index>> \notin DOMAIN timeid2key
         /\ (index + 1) % IdMod = index + 1
         /\ index + 1 \in 0 .. IdMod - 1
<1> USE TimerAssumption
<1>1. /\ now \in Nat /\ timeout \in Nat /\ index \in Nat /\ index < MaxAdds
      /\ now + timeout < TimeMod /\ now + timeout \in Nat /\ TimeMod \in Nat
      /\ IdMod \in Nat /\ MaxAdds < IdMod
  BY DEF NoWrap, IInv, TypeOK, PairsInv, Clocks
<1>2. (now + timeout) % TimeMod = now + timeout
  BY <1>1, ModSmall
<1>3. (index + 1) % IdMod = index + 1 /\ index + 1 \in 0 .. IdMod - 1
  <2>1. index + 1 \in Nat /\ index + 1 < IdMod
    BY <1>1
  <2> QED BY <1>1, <2>1, ModSmall
<1>4. <<now + timeout, index>> \in Timeids
  BY <1>1, <1>3 DEF Timeids
<1>5. <<now + timeout, index>> \notin DOMAIN timeid2key
  <2> SUFFICES ASSUME <<now + timeout, index>> \in DOMAIN timeid2key PROVE FALSE
    OBVIOUS
  <2> DEFINE j == timeid2key[<<now + timeout, index>>]
  <2>1. j \in DOMAIN key2timeid /\ key2timeid[j] = <<now + timeout, index>>
    BY DEF IInv, MapsAreInverse
  <2>2. key2timeid[j][2] < index
    BY <2>1 DEF IInv, PairsInv
  <2> QED BY <1>1, <2>1, <2>2
<1> QED BY <1>1, <1>2, <1>3, <1>4, <1>5

LEMMA InitIInv == Init => IInv
BY TimerAssumption DEF Init, IInv, TypeOK, MapsAreInverse, PairsInv

LEMMA AddIInv ==
  ASSUME NoWrap, IInv, NEW k \in Keys, NEW timeout \in Timeouts, Add(k, timeout)
  PROVE  IInv' /\ TS!Arm(k, now + timeout)
<1> USE TimerAssumption
<1> DEFINE time == now + timeout
           timeid == <<time, index>>
<1>1. /\ k \notin DOMAIN key2timeid /\ adds < MaxAdds
      /\ time \in Nat /\ timeid \in Timeids /\ timeid \notin DOMAIN timeid2key
      /\ index + 1 \in 0 .. IdMod - 1
  BY FreshTimeid DEF Add, Pack
<1>2. /\ key2timeid' = With(key2timeid, k, timeid)
      /\ timeid2key' = With(timeid2key, timeid, k)
      /\ index' = index + 1
      /\ deadline' = With(deadline, k, time)
      /\ adds' = adds + 1
      /\ now' = now /\ fired' = fired
  <2>1. (now + timeout) % TimeMod = now + timeout /\ (index + 1) % IdMod = index + 1
    BY <1>1, FreshTimeid
  <2> QED BY <1>1, <2>1 DEF Add, Pack
<1>3. /\ DOMAIN key2timeid' = DOMAIN key2timeid \cup {k}
      /\ key2timeid'[k] = timeid
      /\ \A j \in DOMAIN key2timeid : key2timeid'[j] = key2timeid[j]
  BY <1>1, <1>2 DEF With, TS!With
<1>4. /\ DOMAIN timeid2key' = DOMAIN timeid2key \cup {timeid}
      /\ timeid2key'[timeid] = k
      /\ \A ti \in DOMAIN timeid2key : timeid2key'[ti] = timeid2key[ti]
  BY <1>1, <1>2 DEF With, TS!With
<1>5. /\ DOMAIN deadline' = DOMAIN deadline \cup {k}
      /\ deadline'[k] = time
      /\ \A j \in DOMAIN deadline : j # k => deadline'[j] = deadline[j]
  BY <1>2 DEF With, TS!With
<1> HIDE DEF time, timeid
<1>6. TypeOK'
  BY <1>1, <1>2, <1>3, <1>4 DEF IInv, TypeOK, PairsInv
<1>7. MapsAreInverse'
  BY <1>1, <1>3, <1>4 DEF IInv, MapsAreInverse
<1>8. PairsInv'
  <2>1. timeid[1] = time /\ timeid[2] = index /\ index \in Nat
    BY DEF timeid, IInv, TypeOK
  <2>2. \A j \in DOMAIN key2timeid : j # k /\ key2timeid[j][2] \in Nat
    BY <1>1 DEF IInv, PairsInv, Timeids
  <2> QED BY <1>1, <1>2, <1>3, <1>5, <2>1, <2>2 DEF IInv, PairsInv
<1>9. TS!Arm(k, now + timeout)
  BY <1>1, <1>2 DEF TS!Arm, With, IInv, PairsInv, time
<1> QED BY <1>6, <1>7, <1>8, <1>9 DEF IInv

LEMMA RemoveIInv ==
  ASSUME IInv, NEW k \in Keys, Remove(k)
  PROVE  IInv' /\ TS!Disarm(k)
<1>1. /\ DOMAIN key2timeid' = DOMAIN key2timeid \ {k}
      /\ \A j \in DOMAIN key2timeid' : key2timeid'[j] = key2timeid[j]
  BY DEF Remove, EraseTimeid, Without, TS!Without
<1>2. /\ DOMAIN timeid2key' = DOMAIN timeid2key \ {key2timeid[k]}
      /\ \A ti \in DOMAIN timeid2key' : timeid2key'[ti] = timeid2key[ti]
  BY DEF Remove, EraseTimeid, Without, TS!Without
<1>3. /\ DOMAIN deadline' = DOMAIN deadline \ {k}
      /\ \A j \in DOMAIN deadline' : deadline'[j] = deadline[j]
  BY DEF Remove, EraseTimeid, Without, TS!Without
<1>4. /\ now' = now /\ index' = index /\ adds' = adds /\ fired' = fired
      /\ k \in DOMAIN key2timeid /\ key2timeid[k] \in DOMAIN timeid2key
  BY DEF Remove, EraseTimeid, Removable
<1>5. TypeOK'
  BY <1>1, <1>2, <1>4 DEF IInv, TypeOK
<1>6. MapsAreInverse'
  BY <1>1, <1>2, <1>4 DEF IInv, MapsAreInverse
<1>7. PairsInv'
  BY <1>1, <1>3, <1>4 DEF IInv, PairsInv
<1>8. TS!Disarm(k)
  BY <1>4 DEF TS!Disarm, IInv, PairsInv, Remove, EraseTimeid, Without
<1> QED BY <1>5, <1>6, <1>7, <1>8 DEF IInv

\* The entries that popExpired visits are those of the keys that are due.
LEMMA ExpiredIsDue ==
  ASSUME NoWrap, IInv
  PROVE  /\ \A ti \in Expired : timeid2key[ti] \in TS!Due /\ deadline[timeid2key[ti]] = ti[1]
         /\ \A k \in TS!Due : key2timeid[k] \in Expired /\ timeid2key[key2timeid[k]] = k
<1>1. now % TimeMod = now
  <2>1. now \in Nat /\ TimeMod \in Nat /\ now < TimeMod
    BY TimerAssumption DEF IInv, TypeOK, Clocks, NoWrap
  <2> QED BY <2>1, ModSmall
<1> QED BY <1>1 DEF Expired, TS!Due, IInv, MapsAreInverse, PairsInv

LEMMA PopExpiredIInv ==
  ASSUME NoWrap, IInv, PopExpired
  PROVE  IInv' /\ TS!Expire
<1> DEFINE keysOf(s) == [i \in 1 .. Len(s) |-> timeid2key[s[i]]]
           goneOf(s) == {keysOf(s)[i] : i \in 1 .. Len(s)}
<1>0. PICK s \in InOrder(Expired) :
        /\ fired' = keysOf(s)
        /\ key2timeid' = Without(key2timeid, goneOf(s))
        /\ timeid2key' = Without(timeid2key, Expired)
        /\ deadline' = Without(deadline, goneOf(s))
        /\ UNCHANGED <<now, index, adds>>
  BY Zenon DEF PopExpired
<1>1. /\ fired' = [i \in 1 .. Len(s) |-> timeid2key[s[i]]]
      /\ key2timeid' = Without(key2timeid, {fired'[i] : i \in 1 .. Len(s)})
      /\ timeid2key' = Without(timeid2key, Expired)
      /\ deadline' = Without(deadline, {fired'[i] : i \in 1 .. Len(s)})
      /\ UNCHANGED <<now, index, adds>>
  BY <1>0, Zenon
<1>2. /\ s \in Seq(Expired) /\ Len(s) \in Nat
      /\ \A ti \in Expired : \E i \in 1 .. Len(s) : s[i] = ti
      /\ \A i \in 1 .. Len(s) : s[i] \in Expired
      /\ \A i, j \in 1 .. Len(s) : s[i] = s[j] => i = j
      /\ \A i, j \in 1 .. Len(s) : i < j => Before(s[i], s[j])
  <2>1. /\ TS!IsListing(s, Expired)
        /\ \A i, j \in DOMAIN s : i < j => Before(s[i], s[j])
    BY DEF InOrder
  <2>2. s \in Seq(Expired)
    BY <2>1 DEF TS!IsListing
  <2>3. Len(s) \in Nat /\ DOMAIN s = 1 .. Len(s) /\ \A i \in 1 .. Len(s) : s[i] \in Expired
    BY <2>2
  <2> QED BY <2>1, <2>2, <2>3 DEF TS!IsListing
<1>3. /\ Len(fired') = Len(s) /\ fired' \in Seq(TS!Due)
      /\ \A i \in 1 .. Len(s) : fired'[i] = timeid2key[s[i]] /\ fired'[i] \in TS!Due
  <2>1. \A i \in 1 .. Len(s) : timeid2key[s[i]] \in TS!Due
    BY <1>2, ExpiredIsDue
  <2> QED BY <1>1, <1>2, <2>1
<1>4. \A k \in TS!Due : \E i \in 1 .. Len(s) : fired'[i] = k
  <2> SUFFICES ASSUME NEW k \in TS!Due PROVE \E i \in 1 .. Len(s) : fired'[i] = k
    OBVIOUS
  <2>1. key2timeid[k] \in Expired /\ timeid2key[key2timeid[k]] = k
    BY ExpiredIsDue
  <2> QED BY <1>2, <1>3, <2>1
<1>5. {fired'[i] : i \in 1 .. Len(s)} = TS!Due
  BY <1>3, <1>4
<1>6. \A i, j \in 1 .. Len(s) : fired'[i] = fired'[j] => i = j
  <2> SUFFICES ASSUME NEW i \in 1 .. Len(s), NEW j \in 1 .. Len(s), fired'[i] = fired'[j]
               PROVE  i = j
    OBVIOUS
  <2>1. /\ s[i] \in DOMAIN timeid2key /\ s[j] \in DOMAIN timeid2key
        /\ timeid2key[s[i]] = timeid2key[s[j]]
    BY <1>2, <1>3 DEF Expired
  <2>2. s[i] = s[j]
    BY <2>1 DEF IInv, MapsAreInverse
  <2> QED BY <1>2, <2>2
<1>7. \A i, j \in 1 .. Len(s) : i < j => deadline[fired'[i]] <= deadline[fired'[j]]
  <2> SUFFICES ASSUME NEW i \in 1 .. Len(s), NEW j \in 1 .. Len(s), i < j
               PROVE  deadline[fired'[i]] <= deadline[fired'[j]]
    OBVIOUS
  <2>1. deadline[fired'[i]] = s[i][1] /\ deadline[fired'[j]] = s[j][1]
    BY <1>2, <1>3, ExpiredIsDue
  <2>2. s[i] \in Timeids /\ s[j] \in Timeids
    BY <1>2 DEF Expired, IInv, TypeOK
  <2>3. s[i][1] \in Nat /\ s[j][1] \in Nat
    BY <2>2, TimerAssumption DEF Timeids
  <2>4. Before(s[i], s[j])
    BY <1>2
  <2>5. s[i][1] <= s[j][1]
    BY <2>3, <2>4 DEF Before
  <2> QED BY <2>1, <2>5
<1>8. TS!Expire
  <2>1. TS!IsListing(fired', TS!Due)
    BY <1>3, <1>4, <1>6 DEF TS!IsListing
  <2>2. TS!Expiry(fired')
    BY <1>3, <1>7, <2>1 DEF TS!Expiry
  <2>3. deadline' = TS!Without(deadline, TS!Due) /\ now' = now
    BY <1>1, <1>5 DEF Without
  <2> QED BY <2>2, <2>3 DEF TS!Expire
<1>9. /\ DOMAIN key2timeid' = DOMAIN key2timeid \ TS!Due
      /\ \A k \in DOMAIN key2timeid' : key2timeid'[k] = key2timeid[k]
      /\ DOMAIN deadline' = DOMAIN deadline \ TS!Due
      /\ \A k \in DOMAIN deadline' : deadline'[k] = deadline[k]
      /\ DOMAIN timeid2key' = DOMAIN timeid2key \ Expired
      /\ \A ti \in DOMAIN timeid2key' : timeid2key'[ti] = timeid2key[ti]
  BY <1>1, <1>5 DEF Without, TS!Without
<1>10. TypeOK'
  BY <1>1, <1>9 DEF IInv, TypeOK
<1>11. MapsAreInverse'
  <2>1. ASSUME NEW k \in DOMAIN key2timeid, k \notin TS!Due PROVE key2timeid[k] \notin Expired
    BY <2>1, ExpiredIsDue DEF IInv, MapsAreInverse
  <2>2. ASSUME NEW ti \in DOMAIN timeid2key, ti \notin Expired
        PROVE  timeid2key[ti] \notin TS!Due
    BY <2>2, ExpiredIsDue DEF IInv, MapsAreInverse
  <2> QED BY <1>9, <2>1, <2>2 DEF IInv, MapsAreInverse
<1>12. PairsInv'
  BY <1>1, <1>9 DEF IInv, PairsInv
<1> QED BY <1>8, <1>10, <1>11, <1>12 DEF IInv

LEMMA StutterIInv ==
  ASSUME IInv, UNCHANGED vars
  PROVE  IInv' /\ UNCHANGED TS!timerVars
BY DEF IInv, TypeOK, MapsAreInverse, PairsInv, vars, maps, TS!timerVars

LEMMA ClockIInv ==
  ASSUME IInv, Clock
  PROVE  IInv' /\ TS!Clock
BY DEF IInv, TypeOK, MapsAreInverse, PairsInv, Clock, maps, TS!Clock

\* Every step keeps the invariant and is a step of TimerSet or a stutter.
LEMMA NextIInv ==
  ASSUME NoWrap, IInv, [Next]_vars
  PROVE  IInv' /\ [TS!Next]_(TS!timerVars)
<1>1. ASSUME NEW k \in Keys, NEW timeout \in Timeouts, Add(k, timeout)
      PROVE  IInv' /\ TS!Next
  <2>1. now + timeout \in Clocks \cup {t + d : t \in Clocks, d \in Timeouts}
    BY DEF IInv, TypeOK
  <2> QED BY <1>1, <2>1, AddIInv DEF TS!Next
<1>2. ASSUME NEW k \in Keys, Remove(k) PROVE IInv' /\ TS!Next
  BY <1>2, RemoveIInv DEF TS!Next
<1>3. CASE PopExpired
  BY <1>3, PopExpiredIInv DEF TS!Next
<1>4. CASE Clock
  BY <1>4, ClockIInv DEF TS!Next
<1>5. CASE UNCHANGED vars
  BY <1>5, StutterIInv
<1> QED BY <1>1, <1>2, <1>3, <1>4, <1>5 DEF Next, AddRefused, RemoveRefused

\* Every reachable state satisfies the inductive invariant.
THEOREM IInvHolds ==
  ASSUME NoWrap
  PROVE  Spec => []IInv
<1>1. Init => IInv
  BY InitIInv
<1>2. IInv /\ [Next]_vars => IInv'
  BY NextIInv
<1> QED BY <1>1, <1>2, PTL DEF Spec

\* Type correctness of the timer queue.
THEOREM TypeCorrect ==
  ASSUME NoWrap
  PROVE  Spec => []TypeOK
BY IInvHolds, PTL DEF IInv

\* No timer is in one map and not in the other.
THEOREM MapsAreInverseHolds ==
  ASSUME NoWrap
  PROVE  Spec => []MapsAreInverse
BY IInvHolds, PTL DEF IInv

\* popExpired returns exactly the keys that are due, earliest first.
THEOREM ImplementsTimerSetHolds ==
  ASSUME NoWrap
  PROVE  Spec => ImplementsTimerSet
<1>1. Init => TS!Init
  BY DEF Init, TS!Init
<1>2. IInv /\ [Next]_vars => [TS!Next]_(TS!timerVars)
  BY NextIInv
<1> QED BY <1>1, <1>2, IInvHolds, PTL DEF Spec, ImplementsTimerSet, TS!Spec
==============================================================================
