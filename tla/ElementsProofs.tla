--------------------------- MODULE ElementsProofs ---------------------------
(***************************************************************************)
(* What Append, Tail and \o do to the elements of a sequence, where the     *)
(* elements of several sequences are when FlattenSeq puts them together,   *)
(* and functions that are defined by recursion: for the proofs about the   *)
(* modules that keep their handles in a sequence, and about texts.         *)
(***************************************************************************)
EXTENDS Elements, SequencesExt, SequenceTheorems, WellFoundedInduction, TLAPS

\* The elements of a sequence are of its type.
LEMMA ElemsType ==
  ASSUME NEW S, NEW s \in Seq(S)
  PROVE  Elems(s) \subseteq S
BY DEF Elems

\* What Append adds to the elements.
LEMMA AppendElems ==
  ASSUME NEW S, NEW s \in Seq(S), NEW e \in S
  PROVE  /\ Append(s, e) \in Seq(S)
         /\ Elems(Append(s, e)) = Elems(s) \cup {e}
         /\ Distinct(s) /\ e \notin Elems(s) => Distinct(Append(s, e))
<1>1. /\ Append(s, e) \in Seq(S) /\ Len(Append(s, e)) = Len(s) + 1 /\ Len(s) \in Nat
      /\ \A i \in 1 .. Len(s) : Append(s, e)[i] = s[i]
      /\ Append(s, e)[Len(s) + 1] = e
  BY AppendProperties
<1>2. \A i \in 1 .. Len(s) + 1 : i \in 1 .. Len(s) \/ i = Len(s) + 1
  BY <1>1
<1>3. Elems(Append(s, e)) = Elems(s) \cup {e}
  BY <1>1, <1>2 DEF Elems
<1>4. Distinct(s) /\ e \notin Elems(s) => Distinct(Append(s, e))
  BY <1>1, <1>2 DEF Elems, Distinct
<1> QED BY <1>1, <1>3, <1>4

\* What Tail takes from the elements of a sequence without repetitions.
LEMMA TailElems ==
  ASSUME NEW S, NEW s \in Seq(S), s # <<>>, Distinct(s)
  PROVE  /\ Head(s) \in S /\ Head(s) \in Elems(s)
         /\ Tail(s) \in Seq(S)
         /\ Elems(Tail(s)) = Elems(s) \ {Head(s)}
         /\ Distinct(Tail(s))
<1>1. /\ Head(s) \in S /\ Tail(s) \in Seq(S) /\ Len(Tail(s)) = Len(s) - 1
      /\ Len(s) \in Nat /\ Len(s) # 0 /\ Head(s) = s[1]
      /\ \A i \in 1 .. Len(Tail(s)) : Tail(s)[i] = s[i + 1]
  BY HeadTailProperties
<1>2. Head(s) \in Elems(s)
  BY <1>1 DEF Elems
<1>3. Elems(Tail(s)) \subseteq Elems(s) \ {Head(s)}
  <2> SUFFICES ASSUME NEW i \in 1 .. Len(Tail(s)) PROVE Tail(s)[i] \in Elems(s) \ {Head(s)}
    BY DEF Elems
  <2>1. i + 1 \in 1 .. Len(s) /\ 1 \in 1 .. Len(s) /\ i + 1 # 1 /\ Tail(s)[i] = s[i + 1]
    BY <1>1
  <2> QED BY <1>1, <2>1 DEF Elems, Distinct
<1>4. Elems(s) \ {Head(s)} \subseteq Elems(Tail(s))
  <2> SUFFICES ASSUME NEW i \in 1 .. Len(s), s[i] # Head(s) PROVE s[i] \in Elems(Tail(s))
    BY DEF Elems
  <2>1. i - 1 \in 1 .. Len(Tail(s)) /\ Tail(s)[i - 1] = s[(i - 1) + 1] /\ (i - 1) + 1 = i
    BY <1>1
  <2> QED BY <2>1 DEF Elems
<1>5. Distinct(Tail(s))
  <2> SUFFICES ASSUME NEW i \in 1 .. Len(Tail(s)), NEW j \in 1 .. Len(Tail(s)),
                      Tail(s)[i] = Tail(s)[j]
               PROVE  i = j
    BY DEF Distinct
  <2>1. i + 1 \in 1 .. Len(s) /\ j + 1 \in 1 .. Len(s) /\ s[i + 1] = s[j + 1]
    BY <1>1
  <2>2. i + 1 = j + 1
    BY <2>1 DEF Distinct
  <2> QED BY <2>2
<1> QED BY <1>1, <1>2, <1>3, <1>4, <1>5

\* To take the head of a sequence changes it.
LEMMA TailDiffers ==
  ASSUME NEW S, NEW s \in Seq(S), s # <<>>
  PROVE  Head(s) \in S /\ Tail(s) # s
<1>1. /\ Head(s) \in S /\ Len(Tail(s)) = Len(s) - 1
      /\ Len(s) \in Nat /\ Len(Tail(s)) # Len(s)
  BY HeadTailProperties
<1> QED BY <1>1

\* The elements of two sequences put together.
LEMMA ConcatElems ==
  ASSUME NEW S, NEW s \in Seq(S), NEW t \in Seq(S)
  PROVE  /\ s \o t \in Seq(S)
         /\ Elems(s \o t) = Elems(s) \cup Elems(t)
         /\ Distinct(s) /\ Distinct(t) /\ Elems(s) \cap Elems(t) = {} => Distinct(s \o t)
<1>1. /\ s \o t \in Seq(S) /\ Len(s \o t) = Len(s) + Len(t) /\ Len(s) \in Nat /\ Len(t) \in Nat
      /\ \A i \in 1 .. Len(s) + Len(t) : (s \o t)[i] = IF i <= Len(s) THEN s[i] ELSE t[i - Len(s)]
  BY ConcatProperties
<1>2. /\ \A i \in 1 .. Len(s) : i \in 1 .. Len(s \o t) /\ (s \o t)[i] = s[i]
      /\ \A i \in 1 .. Len(t) : i + Len(s) \in 1 .. Len(s \o t) /\ (s \o t)[i + Len(s)] = t[i]
      /\ \A i \in 1 .. Len(s \o t) :
           \/ i \in 1 .. Len(s) /\ (s \o t)[i] = s[i]
           \/ i - Len(s) \in 1 .. Len(t) /\ (s \o t)[i] = t[i - Len(s)]
  <2>1. \A i \in 1 .. Len(s) : i \in 1 .. Len(s \o t) /\ (s \o t)[i] = s[i]
    BY <1>1
  <2>2. \A i \in 1 .. Len(t) : i + Len(s) \in 1 .. Len(s \o t) /\ (s \o t)[i + Len(s)] = t[i]
    <3> SUFFICES ASSUME NEW i \in 1 .. Len(t)
                 PROVE  i + Len(s) \in 1 .. Len(s \o t) /\ (s \o t)[i + Len(s)] = t[i]
      OBVIOUS
    <3>1. i + Len(s) \in 1 .. Len(s) + Len(t) /\ ~(i + Len(s) <= Len(s)) /\ i + Len(s) - Len(s) = i
      BY <1>1
    <3> QED BY <1>1, <3>1
  <2>3. ASSUME NEW i \in 1 .. Len(s \o t)
        PROVE  \/ i \in 1 .. Len(s) /\ (s \o t)[i] = s[i]
               \/ i - Len(s) \in 1 .. Len(t) /\ (s \o t)[i] = t[i - Len(s)]
    BY <1>1
  <2> QED BY <2>1, <2>2, <2>3
<1>3. Elems(s \o t) = Elems(s) \cup Elems(t)
  BY <1>2 DEF Elems
<1>4. ASSUME Distinct(s), Distinct(t), Elems(s) \cap Elems(t) = {} PROVE Distinct(s \o t)
  <2> SUFFICES ASSUME NEW i \in 1 .. Len(s \o t), NEW j \in 1 .. Len(s \o t),
                      (s \o t)[i] = (s \o t)[j]
               PROVE  i = j
    BY DEF Distinct
  <2>1. CASE i \in 1 .. Len(s) /\ j \in 1 .. Len(s)
    BY <1>1, <1>4, <2>1 DEF Distinct
  <2>2. CASE i \notin 1 .. Len(s) /\ j \notin 1 .. Len(s)
    <3>1. i - Len(s) = j - Len(s)
      BY <1>2, <1>4, <2>2 DEF Distinct
    <3> QED BY <1>1, <3>1
  <2>0. ASSUME NEW k \in 1 .. Len(s \o t)
        PROVE  /\ k \in 1 .. Len(s) => (s \o t)[k] \in Elems(s)
               /\ k \notin 1 .. Len(s) => (s \o t)[k] \in Elems(t)
    BY <1>2 DEF Elems
  <2>3. CASE i \in 1 .. Len(s) /\ j \notin 1 .. Len(s)
    BY <2>0, <1>4, <2>3
  <2>4. CASE i \notin 1 .. Len(s) /\ j \in 1 .. Len(s)
    BY <2>0, <1>4, <2>4
  <2> QED BY <2>1, <2>2, <2>3, <2>4
<1> QED BY <1>1, <1>3, <1>4

\* The head of a sequence is moved to the end of another, in front of it.
LEMMA MoveHead ==
  ASSUME NEW S, NEW s \in Seq(S), NEW t \in Seq(S), t # <<>>
  PROVE  Append(s, Head(t)) \o Tail(t) = s \o t
<1> DEFINE u == Append(s, Head(t))
<1>1. /\ Head(t) \in S /\ Tail(t) \in Seq(S) /\ Len(Tail(t)) = Len(t) - 1
      /\ Len(t) \in Nat /\ Len(t) # 0 /\ Head(t) = t[1]
      /\ \A i \in 1 .. Len(Tail(t)) : Tail(t)[i] = t[i + 1]
  BY HeadTailProperties
<1>2. /\ u \in Seq(S) /\ Len(u) = Len(s) + 1 /\ Len(s) \in Nat
      /\ \A i \in 1 .. Len(s) : u[i] = s[i]
      /\ u[Len(s) + 1] = t[1]
  BY <1>1, AppendProperties
<1> HIDE DEF u
<1>3. /\ u \o Tail(t) \in Seq(S) /\ Len(u \o Tail(t)) = Len(u) + Len(Tail(t))
      /\ \A i \in 1 .. Len(u) + Len(Tail(t)) :
           (u \o Tail(t))[i] = IF i <= Len(u) THEN u[i] ELSE Tail(t)[i - Len(u)]
  BY <1>1, <1>2, ConcatProperties
<1>4. /\ s \o t \in Seq(S) /\ Len(s \o t) = Len(s) + Len(t)
      /\ \A i \in 1 .. Len(s) + Len(t) : (s \o t)[i] = IF i <= Len(s) THEN s[i] ELSE t[i - Len(s)]
  BY ConcatProperties
<1>5. ASSUME NEW i \in 1 .. Len(s) + Len(t) PROVE (u \o Tail(t))[i] = (s \o t)[i]
  <2>1. CASE i <= Len(s)
    BY <1>1, <1>2, <1>3, <1>4, <2>1
  <2>2. CASE i = Len(s) + 1
    BY <1>1, <1>2, <1>3, <1>4, <2>2
  <2>3. CASE i > Len(s) + 1
    <3>1. i - Len(u) \in 1 .. Len(Tail(t)) /\ (i - Len(u)) + 1 = i - Len(s)
      BY <1>1, <1>2, <2>3
    <3>2. (u \o Tail(t))[i] = t[i - Len(s)]
      BY <1>1, <1>2, <1>3, <2>3, <3>1
    <3>3. (s \o t)[i] = t[i - Len(s)]
      BY <1>2, <1>4, <2>3
    <3> QED BY <3>2, <3>3
  <2> QED BY <1>1, <1>2, <2>1, <2>2, <2>3
<1>6. Len(u \o Tail(t)) = Len(s \o t)
  BY <1>1, <1>2, <1>3, <1>4
<1>7. u \o Tail(t) = s \o t
  BY <1>3, <1>4, <1>5, <1>6, SeqEqual
<1> QED BY <1>7 DEF u

\* An element is appended to two sequences put together.
LEMMA AppendRight ==
  ASSUME NEW S, NEW s \in Seq(S), NEW t \in Seq(S), NEW e \in S
  PROVE  s \o Append(t, e) = Append(s \o t, e)
<1>1. <<e>> \in Seq(S) /\ s \o t \in Seq(S)
  BY ConcatProperties
<1>2. Append(t, e) = t \o <<e>> /\ Append(s \o t, e) = (s \o t) \o <<e>>
  BY <1>1, AppendIsConcat
<1>3. (s \o t) \o <<e>> = s \o (t \o <<e>>)
  BY <1>1, ConcatAssociative
<1> QED BY <1>2, <1>3

------------------------------------------------------------------------------
(* Numbers, recursion and texts *)

\* A set of numbers has a least one.
LEMMA LeastNumber ==
  ASSUME NEW S \in SUBSET Nat, S # {}
  PROVE  Min(S) \in S /\ \A y \in S : Min(S) <= y
<1> DEFINE Less == OpToRel(<, Nat)
<1>1. IsWellFoundedOn(Less, Nat)
  BY NatLessThanWellFounded
<1>2. \A x, y \in Nat : x < y => <<x, y>> \in Less
  BY DEF OpToRel
<1> HIDE DEF Less
<1>3. PICK x \in S : \A y \in S : ~(<<y, x>> \in Less)
  BY <1>1, WFMin
<1>4. x \in Nat
  BY <1>3
<1>5. \A y \in S : ~(y < x)
  BY <1>2, <1>3
<1>6. \A y \in S : x <= y
  BY <1>4, <1>5
<1> QED BY <1>6 DEF Min

\* Induction over the numbers, on a set of them.
LEMMA NumbersFromZero ==
  ASSUME NEW S, 0 \in S, \A n \in Nat : n \in S => n + 1 \in S
  PROVE  Nat \subseteq S
<1> SUFFICES ASSUME Nat \ S # {} PROVE FALSE
  OBVIOUS
<1> DEFINE x == Min(Nat \ S)
<1>1. x \in Nat /\ x \notin S /\ \A y \in Nat : y \notin S => x <= y
  BY LeastNumber
<1> HIDE DEF x
<1>2. x # 0 /\ x - 1 \in Nat /\ ~(x <= x - 1)
  BY <1>1
<1>3. x - 1 \in S
  BY <1>1, <1>2
<1>4. (x - 1) + 1 \in S /\ (x - 1) + 1 = x
  BY <1>2, <1>3, <1>1
<1> QED BY <1>1, <1>4

\* A function that is defined by its own values at places of a lower rank exists.
Recursion(I, V, N, rank, turn) ==
  /\ V # {} /\ N \in Nat
  /\ rank \in [I -> 0 .. N]
  /\ turn \in [I -> [[I -> V] -> V]]
  /\ \A i \in I : \A f, g \in [I -> V] :
       (\A j \in I : rank[j] < rank[i] => f[j] = g[j]) => turn[i][f] = turn[i][g]

LEMMA RecursionExists ==
  ASSUME NEW I, NEW V, NEW N, NEW rank, NEW turn, Recursion(I, V, N, rank, turn)
  PROVE  \E f \in [I -> V] : \A i \in I : f[i] = turn[i][f]
<1> USE DEF Recursion
<1> DEFINE Upto(n) == \E f \in [I -> V] : \A i \in I : rank[i] < n => f[i] = turn[i][f]
           S == {n \in Nat : Upto(n)}
<1>1. 0 \in S
  <2>1. PICK v \in V : TRUE
    OBVIOUS
  <2>2. [i \in I |-> v] \in [I -> V] /\ \A i \in I : ~(rank[i] < 0)
    BY <2>1
  <2> QED BY <2>2
<1>2. ASSUME NEW n \in Nat, n \in S PROVE n + 1 \in S
  <2>1. PICK f \in [I -> V] : \A i \in I : rank[i] < n => f[i] = turn[i][f]
    BY <1>2
  <2> DEFINE g == [i \in I |-> IF rank[i] = n THEN turn[i][f] ELSE f[i]]
  <2>2. g \in [I -> V]
    OBVIOUS
  <2>3. ASSUME NEW i \in I, rank[i] < n + 1 PROVE g[i] = turn[i][g]
    <3>1. \A j \in I : rank[j] < rank[i] => f[j] = g[j]
      BY <2>3
    <3>2. turn[i][f] = turn[i][g]
      BY <2>2, <3>1
    <3>3. g[i] = turn[i][f]
      <4>1. \A r \in 0 .. N : r < n + 1 => r = n \/ r < n
        OBVIOUS
      <4>2. rank[i] = n \/ rank[i] < n
        BY <2>3, <4>1
      <4> QED BY <2>1, <4>2
    <3> QED BY <3>2, <3>3
  <2>4. Upto(n + 1)
    BY <2>2, <2>3
  <2> QED BY <2>4
<1>3. N + 1 \in S
  <2> HIDE DEF S
  <2> QED BY <1>1, <1>2, NumbersFromZero
<1>4. PICK f \in [I -> V] : \A i \in I : rank[i] < N + 1 => f[i] = turn[i][f]
  BY <1>3
<1> QED BY <1>4

\* The pieces of a text that is put together of several lie one behind the other:
\* piece k is behind the first place[k - 1] elements.
IsPlace(place, seqs, whole) ==
  /\ place \in [0 .. Len(seqs) -> Nat]
  /\ place[0] = 0 /\ place[Len(seqs)] = Len(whole)
  /\ \A k \in 1 .. Len(seqs) :
       /\ place[k] = place[k - 1] + Len(seqs[k])
       /\ place[k] <= Len(whole)
       /\ \A j \in 1 .. Len(seqs[k]) : whole[place[k - 1] + j] = seqs[k][j]

\* FlattenSeq puts a sequence of sequences together from the left.
LEMMA FlattenRecursion ==
  ASSUME NEW X, NEW seqs \in Seq(Seq(X)), Len(seqs) # 0
  PROVE  \E f \in [1 .. Len(seqs) -> Seq(X)] :
           /\ FlattenSeq(seqs) = f[Len(seqs)]
           /\ f[1] = seqs[1]
           /\ \A i \in 2 .. Len(seqs) : f[i] = f[i - 1] \o seqs[i]
<1> DEFINE n == Len(seqs)
           V == Seq(X)
           Eq(f) == f = [i \in 1 .. Len(seqs) |-> IF i = 1 THEN seqs[i] ELSE f[i - 1] \o seqs[i]]
           rank == [i \in 1 .. n |-> i]
           turn == [i \in 1 .. n |-> [f \in [1 .. n -> V] |-> IF i = 1 THEN seqs[i] ELSE f[i - 1] \o seqs[i]]]
<1>1. n \in Nat /\ V # {} /\ rank \in [1 .. n -> 0 .. n]
  OBVIOUS
<1>2. turn \in [1 .. n -> [[1 .. n -> V] -> V]]
  <2> SUFFICES ASSUME NEW i \in 1 .. n, NEW f \in [1 .. n -> V]
               PROVE  (IF i = 1 THEN seqs[i] ELSE f[i - 1] \o seqs[i]) \in V
    OBVIOUS
  <2>1. CASE i = 1
    BY <2>1
  <2>2. CASE i # 1
    <3>1. i - 1 \in 1 .. n
      BY <2>2
    <3>2. f[i - 1] \in Seq(X) /\ seqs[i] \in Seq(X)
      BY <3>1
    <3> QED BY <2>2, <3>2
  <2> QED BY <2>1, <2>2
<1>3. ASSUME NEW i \in 1 .. n, NEW f \in [1 .. n -> V], NEW g \in [1 .. n -> V],
             \A j \in 1 .. n : rank[j] < rank[i] => f[j] = g[j]
      PROVE  turn[i][f] = turn[i][g]
  <2>1. CASE i = 1
    BY <2>1
  <2>2. CASE i # 1
    <3>1. i - 1 \in 1 .. n /\ i - 1 < i
      BY <2>2
    <3>2. f[i - 1] = g[i - 1]
      BY <1>3, <3>1
    <3> QED BY <2>2, <3>2
  <2> QED BY <2>1, <2>2
<1>4. \E f \in [1 .. n -> V] : \A i \in 1 .. n : f[i] = turn[i][f]
  <2> DEFINE I == 1 .. n
  <2>1. turn \in [I -> [[I -> V] -> V]] /\ rank \in [I -> 0 .. n]
    BY <1>1, <1>2
  <2>2. \A i \in I : \A f, g \in [I -> V] :
          (\A j \in I : rank[j] < rank[i] => f[j] = g[j]) => turn[i][f] = turn[i][g]
    BY <1>3
  <2> HIDE DEF rank, turn, V, n, I
  <2>3. Recursion(I, V, n, rank, turn)
    BY <1>1, <2>1, <2>2 DEF Recursion
  <2>4. \E f \in [I -> V] : \A i \in I : f[i] = turn[i][f]
    BY <2>3, RecursionExists
  <2> QED BY <2>4 DEF I
<1>5. \E f : Eq(f)
  <2>1. PICK f \in [1 .. n -> V] : \A i \in 1 .. n : f[i] = turn[i][f]
    BY <1>4
  <2>2. Eq(f)
    BY <2>1
  <2> QED BY <2>2
<1>6. FlattenSeq(seqs) = (CHOOSE f : Eq(f))[Len(seqs)]
  BY Zenon DEF FlattenSeq
<1>7. Eq(CHOOSE f : Eq(f))
  BY <1>5, Zenon
<1> DEFINE f == CHOOSE f : Eq(f)
<1> HIDE DEF f
<1>8. f = [i \in 1 .. Len(seqs) |-> IF i = 1 THEN seqs[i] ELSE f[i - 1] \o seqs[i]]
  BY <1>7 DEF f
<1>9. FlattenSeq(seqs) = f[Len(seqs)]
  BY <1>6 DEF f
<1>10. f \in [1 .. n -> V]
  <2> DEFINE S == {m \in Nat : m \in 1 .. n => f[m] \in V}
  <2>1. 0 \in S
    OBVIOUS
  <2>2. ASSUME NEW m \in Nat, m \in S PROVE m + 1 \in S
    <3> SUFFICES ASSUME m + 1 \in 1 .. n PROVE f[m + 1] \in V
      OBVIOUS
    <3>1. CASE m = 0
      BY <1>8, <3>1
    <3>2. CASE m # 0
      <4>1. m \in 1 .. n /\ (m + 1) - 1 = m /\ m + 1 # 1
        BY <3>2
      <4>2. f[m + 1] = f[m] \o seqs[m + 1]
        BY <1>8, <4>1
      <4>3. f[m] \in Seq(X) /\ seqs[m + 1] \in Seq(X)
        BY <2>2, <4>1
      <4> QED BY <4>2, <4>3
    <3> QED BY <3>1, <3>2
  <2>3. Nat \subseteq S
    <3> HIDE DEF S
    <3> QED BY <2>1, <2>2, NumbersFromZero
  <2>4. \A m \in 1 .. n : f[m] \in V
    BY <1>1, <2>3
  <2> QED BY <1>8, <2>4
<1>11. f[1] = seqs[1]
  <2>1. 1 \in 1 .. Len(seqs)
    BY <1>1
  <2> QED BY <1>8, <2>1
<1>12. ASSUME NEW i \in 2 .. Len(seqs) PROVE f[i] = f[i - 1] \o seqs[i]
  <2>1. i \in 1 .. Len(seqs) /\ i # 1
    OBVIOUS
  <2> QED BY <1>8, <2>1
<1> QED BY <1>9, <1>10, <1>11, <1>12

\* Where the elements of two sequences are when they are put together.
LEMMA ConcatFacts ==
  ASSUME NEW X, NEW a \in Seq(X), NEW b \in Seq(X)
  PROVE  /\ a \o b \in Seq(X) /\ Len(a) \in Nat /\ Len(b) \in Nat
         /\ Len(a \o b) = Len(a) + Len(b)
         /\ \A j \in 1 .. Len(a) : (a \o b)[j] = a[j]
         /\ \A j \in 1 .. Len(b) : (a \o b)[Len(a) + j] = b[j]
OBVIOUS

\* f[k] is the first k pieces put together, and place[k] its length.
PutTogether(X, piece, n, f, place) ==
  /\ n = Len(piece) /\ n \in Nat \ {0}
  /\ \A k \in 1 .. n : piece[k] \in Seq(X)
  /\ f \in [1 .. n -> Seq(X)]
  /\ f[1] = piece[1] /\ \A i \in 2 .. n : f[i] = f[i - 1] \o piece[i]
  /\ place \in [0 .. n -> Nat] /\ place[0] = 0
  /\ \A k \in 1 .. n : place[k] = Len(f[k])

\* Pieces that are put together from the left lie one behind the other.
LEMMA PrefixPlaces ==
  ASSUME NEW X, NEW n, NEW piece, NEW f, NEW place, PutTogether(X, piece, n, f, place)
  PROVE  IsPlace(place, piece, f[n])
<1> USE DEF PutTogether
<1>1. ASSUME NEW k \in 1 .. n
      PROVE  /\ place[k] = place[k - 1] + Len(piece[k])
             /\ place[k] \in Nat /\ place[k - 1] \in Nat /\ Len(piece[k]) \in Nat
             /\ \A j \in 1 .. place[k - 1] : f[k][j] = f[k - 1][j]
             /\ \A j \in 1 .. Len(piece[k]) : f[k][place[k - 1] + j] = piece[k][j]
  <2>1. piece[k] \in Seq(X) /\ f[k] \in Seq(X) /\ place[k] = Len(f[k])
    OBVIOUS
  <2>2. CASE k = 1
    <3>1. f[k] = piece[k] /\ place[k - 1] = 0 /\ Len(piece[k]) \in Nat
      BY <2>1, <2>2
    <3> QED BY <2>1, <3>1
  <2>3. CASE k # 1
    <3>1. k \in 2 .. n /\ k - 1 \in 1 .. n
      BY <2>3
    <3>2. f[k] = f[k - 1] \o piece[k] /\ f[k - 1] \in Seq(X) /\ place[k - 1] = Len(f[k - 1])
      BY <3>1
    <3> DEFINE a == f[k - 1]
               b == piece[k]
    <3> HIDE DEF a, b
    <3>3. a \in Seq(X) /\ b \in Seq(X) /\ f[k] = a \o b
      BY <2>1, <3>2 DEF a, b
    <3>4. place[k] = Len(a \o b) /\ place[k - 1] = Len(a)
      BY <2>1, <3>2, <3>3 DEF a
    <3>5. /\ place[k] = place[k - 1] + Len(b)
          /\ place[k] \in Nat /\ place[k - 1] \in Nat /\ Len(b) \in Nat
          /\ \A j \in 1 .. place[k - 1] : f[k][j] = a[j]
          /\ \A j \in 1 .. Len(b) : f[k][place[k - 1] + j] = b[j]
      BY <3>3, <3>4, ConcatFacts
    <3> QED BY <3>5 DEF a, b
  <2> QED BY <2>2, <2>3
<1> DEFINE Kept(m) == \A k \in 1 .. m :
                        /\ place[k] <= place[m]
                        /\ \A j \in 1 .. Len(piece[k]) : f[m][place[k - 1] + j] = piece[k][j]
           S == {m \in Nat : m \in 1 .. n => Kept(m)}
<1>2. 0 \in S
  OBVIOUS
<1>3. ASSUME NEW m \in Nat, m \in S PROVE m + 1 \in S
  <2> SUFFICES ASSUME m + 1 \in 1 .. n, NEW k \in 1 .. m + 1
               PROVE  /\ place[k] <= place[m + 1]
                      /\ \A j \in 1 .. Len(piece[k]) : f[m + 1][place[k - 1] + j] = piece[k][j]
    OBVIOUS
  <2>1. CASE k = m + 1
    BY <1>1, <2>1
  <2>2. CASE k # m + 1
    <3>1. k \in 1 .. m /\ m \in 1 .. n /\ (m + 1) - 1 = m /\ k \in 1 .. n
      BY <2>2
    <3>2. Kept(m)
      BY <1>3, <3>1
    <3>3. /\ place[m + 1] = place[m] + Len(piece[m + 1])
          /\ place[m] \in Nat /\ Len(piece[m + 1]) \in Nat
          /\ \A j \in 1 .. place[m] : f[m + 1][j] = f[m][j]
      BY <1>1, <3>1
    <3>4. /\ place[k] = place[k - 1] + Len(piece[k])
          /\ place[k] \in Nat /\ place[k - 1] \in Nat /\ Len(piece[k]) \in Nat
      BY <1>1, <3>1
    <3>5. /\ place[k] <= place[m]
          /\ \A j \in 1 .. Len(piece[k]) : f[m][place[k - 1] + j] = piece[k][j]
      BY <3>1, <3>2
    <3>6. ASSUME NEW j \in 1 .. Len(piece[k])
          PROVE  f[m + 1][place[k - 1] + j] = piece[k][j]
      <4>1. place[k - 1] + j \in 1 .. place[m]
        BY <3>3, <3>4, <3>5
      <4>2. f[m + 1][place[k - 1] + j] = f[m][place[k - 1] + j]
        BY <3>3, <4>1
      <4> QED BY <3>5, <4>2
    <3>7. place[k] <= place[m + 1]
      BY <3>3, <3>4, <3>5
    <3> QED BY <3>6, <3>7
  <2> QED BY <2>1, <2>2
<1>4. n \in S
  <2> HIDE DEF S
  <2> QED BY <1>2, <1>3, NumbersFromZero
<1>5. Kept(n)
  BY <1>4
<1>6. \A k \in 1 .. n :
        /\ place[k] = place[k - 1] + Len(piece[k])
        /\ place[k] <= place[n]
        /\ \A j \in 1 .. Len(piece[k]) : f[n][place[k - 1] + j] = piece[k][j]
  <2> HIDE DEF PutTogether
  <2> QED BY <1>1, <1>5
<1>7. n = Len(piece) /\ place \in [0 .. n -> Nat] /\ place[0] = 0 /\ place[n] = Len(f[n])
  OBVIOUS
<1> QED BY <1>6, <1>7 DEF IsPlace

\* So do those that FlattenSeq puts together.
LEMMA FlattenPlaces ==
  ASSUME NEW X, NEW seqs \in Seq(Seq(X))
  PROVE  /\ FlattenSeq(seqs) \in Seq(X)
         /\ \E place : IsPlace(place, seqs, FlattenSeq(seqs))
<1> DEFINE n == Len(seqs)
           whole == FlattenSeq(seqs)
<1>1. CASE n = 0
  <2>1. whole = <<>> /\ seqs = <<>>
    BY <1>1 DEF FlattenSeq
  <2> DEFINE place == [k \in 0 .. 0 |-> 0]
  <2>2. IsPlace(place, seqs, <<>>)
    BY <1>1, <2>1 DEF IsPlace
  <2> QED BY <2>1, <2>2
<1>2. CASE n # 0
  <2>1. PICK f \in [1 .. n -> Seq(X)] :
          whole = f[n] /\ f[1] = seqs[1] /\ \A i \in 2 .. n : f[i] = f[i - 1] \o seqs[i]
    BY <1>2, FlattenRecursion
  <2>2. n \in Nat \ {0} /\ n \in 1 .. n /\ seqs \in [1 .. n -> Seq(X)]
    BY <1>2
  <2> DEFINE place == [k \in 0 .. n |-> IF k = 0 THEN 0 ELSE Len(f[k])]
  <2> HIDE DEF n, whole
  <2>3. \A k \in 1 .. n : f[k] \in Seq(X) /\ Len(f[k]) \in Nat
    BY <2>1
  <2>4. /\ place \in [0 .. n -> Nat] /\ place[0] = 0
        /\ \A k \in 1 .. n : place[k] = Len(f[k])
    BY <2>2, <2>3
  <2> HIDE DEF place
  <2>5. PutTogether(X, seqs, n, f, place)
    BY <2>1, <2>2, <2>4 DEF PutTogether, n
  <2>6. whole \in Seq(X)
    BY <2>1, <2>2, <2>3
  <2>7. IsPlace(place, seqs, whole)
    BY <2>1, <2>5, PrefixPlaces
  <2> QED BY <2>6, <2>7 DEF whole
<1> QED BY <1>1, <1>2

\* A sequence from place p on, if a is there.
LEMMA SuffixFacts ==
  ASSUME NEW X, NEW whole \in Seq(X), NEW a \in Seq(X), NEW p \in Nat,
         p + Len(a) <= Len(whole), \A j \in 1 .. Len(a) : whole[p + j] = a[j]
  PROVE  SubSeq(whole, p + 1, Len(whole)) = a \o SubSeq(whole, p + Len(a) + 1, Len(whole))
<1> DEFINE q == p + Len(a)
           t == SubSeq(whole, q + 1, Len(whole))
           u == SubSeq(whole, p + 1, Len(whole))
<1>1. Len(a) \in Nat /\ Len(whole) \in Nat /\ q \in Nat /\ q <= Len(whole) /\ q = p + Len(a)
  OBVIOUS
<1> HIDE DEF q
<1>2. /\ t \in Seq(X) /\ Len(t) = Len(whole) - q
      /\ \A j \in 1 .. Len(t) : t[j] = whole[q + j]
  BY <1>1
<1>3. /\ u \in Seq(X) /\ Len(u) = Len(whole) - p
      /\ \A j \in 1 .. Len(u) : u[j] = whole[p + j]
  BY <1>1
<1> HIDE DEF t, u
<1>4. Len(a \o t) = Len(u) /\ a \o t \in Seq(X)
  BY <1>1, <1>2, <1>3, ConcatFacts
<1>5. ASSUME NEW j \in 1 .. Len(u) PROVE u[j] = (a \o t)[j]
  <2>1. CASE j <= Len(a)
    <3>1. j \in 1 .. Len(a)
      BY <1>1, <1>3, <2>1
    <3>2. (a \o t)[j] = a[j]
      BY <1>2, <3>1, ConcatFacts
    <3> QED BY <1>3, <3>1, <3>2
  <2>2. CASE j > Len(a)
    <3>1. PICK i \in 1 .. Len(t) : j = Len(a) + i
      <4>1. j - Len(a) \in 1 .. Len(t) /\ j = Len(a) + (j - Len(a))
        BY <1>1, <1>2, <1>3, <2>2
      <4> QED BY <4>1
    <3>2. (a \o t)[Len(a) + i] = t[i]
      BY <1>2, ConcatFacts
    <3>3. t[i] = whole[q + i] /\ u[j] = whole[p + j] /\ q + i = p + j
      BY <1>1, <1>2, <1>3, <3>1
    <3>4. whole[q + i] = whole[p + j]
      BY <3>3
    <3>5. (a \o t)[j] = t[i]
      BY <3>1, <3>2
    <3> QED BY <3>3, <3>4, <3>5
  <2>3. j <= Len(a) \/ j > Len(a)
    BY <1>1, <1>3
  <2> QED BY <2>1, <2>2, <2>3
<1>6. u = a \o t
  BY <1>3, <1>4, <1>5, SeqEqual
<1> QED BY <1>6 DEF q, t, u

\* A sequence of bounded length is a sequence.
LEMMA BoundedFacts ==
  ASSUME NEW S, NEW n, NEW s \in SeqOf(S, n)
  PROVE  s \in Seq(S)
BY DEF SeqOf

\* A sequence over a set is one over a larger set.
LEMMA SubsetSeq ==
  ASSUME NEW S, NEW T, S \subseteq T, NEW s \in Seq(S)
  PROVE  s \in Seq(T)
<1>1. s \in [1 .. Len(s) -> T]
  OBVIOUS
<1>2. Len(s) \in Nat
  OBVIOUS
<1> QED BY <1>1, <1>2

\* The least number of a set is the one that is in it and not above another.
LEMMA LeastIs ==
  ASSUME NEW S \in SUBSET Nat, NEW p \in S, \A j \in S : p <= j
  PROVE  Min(S) = p
<1>1. Min(S) \in S /\ Min(S) <= p
  BY LeastNumber
<1>2. Min(S) \in Nat /\ p \in Nat /\ p <= Min(S)
  BY <1>1
<1> QED BY <1>1, <1>2

\* What lies behind a number is a number.
LEMMA IntervalFacts ==
  ASSUME NEW i \in Nat, NEW n
  PROVE  i .. n \subseteq Nat
OBVIOUS

\* The elements of a sequence are in its set.
LEMMA ElementFacts ==
  ASSUME NEW X, NEW s \in Seq(X)
  PROVE  /\ Len(s) \in Nat /\ \A j \in 1 .. Len(s) : s[j] \in X
         /\ s # <<>> => 1 \in 1 .. Len(s)
OBVIOUS
==============================================================================
