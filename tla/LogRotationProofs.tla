-------------------------- MODULE LogRotationProofs --------------------------
(***************************************************************************)
(* The rotation of the log loses no line and leaves numbered files alone,  *)
(* for any size limit, any number of lines, and the process ended and      *)
(* started again at any point.                                             *)
(***************************************************************************)
EXTENDS LogRotation, ElementsProofs, FiniteSetTheorems, TLAPS

\* Where each file is while rotate goes on: no two names are one file, what is yet
\* to be renamed is there, and the descriptor refers to the newest file with lines.
FilesInv ==
  /\ \A m, n \in DOMAIN dir : dir[m] = dir[n] => m = n
  /\ \A i \in DOMAIN data : Elems(data[i]) \subseteq 1 .. written
  /\ phase # "rename" => nums = <<>>
  /\ Elems(nums) \subseteq DOMAIN dir \ {0}
  /\ \A i, j \in 1 .. Len(nums) : i < j => nums[i] > nums[j]
  /\ phase \in {"init", "sleep", "rename"} => 0 \in DOMAIN dir /\ fd = dir[0]
  /\ phase = "rename" => TooLong
  /\ phase \in {"open", "dup"} => 1 \in DOMAIN dir /\ fd = dir[1]
  /\ phase = "open" => 0 \notin DOMAIN dir
  /\ phase = "dup" => 0 \in DOMAIN dir /\ dir[0] = newfd /\ data[newfd] = <<>>

\* How long the current file is, if there is one
CurrentLen == IF 0 \in DOMAIN dir THEN Len(Lines(0)) ELSE 0

\* Each rotation takes a line, and each one cut short takes a restart.
NumbersInv ==
  \A n \in DOMAIN dir :
    /\ n + CurrentLen <= written + crashes + 1
    /\ phase # "rename" \/ n \in Elems(nums) \cup {0} => n + CurrentLen <= written + crashes

\* The place a numbered file is renamed to is free.
PlacesInv ==
  failures = 0 /\ phase = "rename" =>
    \A m \in DOMAIN dir \ {0} :
      m \in Elems(nums) \/ (m > 1 /\ \A n \in Elems(nums) : m > n + 1)

IInv == TypeOK /\ FilesInv /\ NumbersInv /\ PlacesInv /\ NothingLost

\* IInv without the type of booting, which each step preserves
Types ==
  /\ phase \in {"down", "init", "sleep", "rename", "open", "dup"}
  /\ DOMAIN dir \subseteq 0 .. MaxLines + MaxCrashes
  /\ dir \in [DOMAIN dir -> DOMAIN data]
  /\ data \in Seq(Seq(1 .. MaxLines))
  /\ phase # "down" => fd \in DOMAIN data
  /\ phase = "sleep" => 0 \in DOMAIN dir
  /\ nums \in Seq(Nat)
  /\ written \in 0 .. MaxLines
  /\ crashes \in 0 .. MaxCrashes
  /\ failures \in 0 .. MaxFailures

Kept == Types /\ FilesInv /\ NumbersInv /\ PlacesInv /\ NothingLost

------------------------------------------------------------------------------
(* The inductive invariant *)

LEMMA InitIInv == Init => IInv
<1> SUFFICES ASSUME Init PROVE IInv
  OBVIOUS
<1> USE LogAssumption DEF Init
<1>1. Elems(nums) = {} /\ nums \in Seq(Nat) /\ Len(nums) = 0
  BY DEF Elems
<1>2. TypeOK
  <2>1. DOMAIN dir = {} /\ dir = [n \in DOMAIN dir |-> dir[n]]
    OBVIOUS
  <2>2. dir \in [DOMAIN dir -> DOMAIN data] /\ data \in Seq(Seq(1 .. MaxLines))
    BY <2>1
  <2>3. /\ written \in 0 .. MaxLines /\ crashes \in 0 .. MaxCrashes
        /\ failures \in 0 .. MaxFailures
        /\ DOMAIN dir \subseteq 0 .. MaxLines + MaxCrashes /\ phase = "down"
    BY <2>1
  <2>4. booting \in BOOLEAN
    BY Zenon
  <2> QED BY <1>1, <2>2, <2>3, <2>4, Zenon DEF TypeOK
<1>3. FilesInv /\ NumbersInv /\ PlacesInv
  BY <1>1 DEF FilesInv, NumbersInv, PlacesInv
<1>4. NothingLost
  BY DEF NothingLost
<1> QED BY <1>2, <1>3, <1>4 DEF IInv

\* What TypeOK says of the files
LEMMA FileFacts ==
  ASSUME IInv
  PROVE  /\ DOMAIN dir \subseteq Nat /\ written \in Nat /\ crashes \in Nat
         /\ \A n \in DOMAIN dir : /\ dir[n] \in DOMAIN data /\ Lines(n) \in Seq(1 .. MaxLines)
                                  /\ Lines(n) \in Seq(Nat) /\ Len(Lines(n)) \in Nat
         /\ CurrentLen \in Nat
         /\ nums \in Seq(Nat)
<1>1. /\ DOMAIN dir \subseteq Nat /\ written \in Nat /\ crashes \in Nat /\ nums \in Seq(Nat)
      /\ dir \in [DOMAIN dir -> DOMAIN data] /\ data \in Seq(Seq(1 .. MaxLines))
  BY LogAssumption DEF IInv, TypeOK
<1>2. \A n \in DOMAIN dir : dir[n] \in DOMAIN data /\ Lines(n) \in Seq(1 .. MaxLines)
  BY <1>1 DEF Lines
<1>3. Seq(1 .. MaxLines) \subseteq Seq(Nat)
  BY LogAssumption
<1>4. \A n \in DOMAIN dir : Lines(n) \in Seq(Nat) /\ Len(Lines(n)) \in Nat
  BY <1>2, <1>3
<1> QED BY <1>1, <1>2, <1>4 DEF CurrentLen

\* rotate takes the greatest number first.
LEMMA HeadIsGreatest ==
  ASSUME IInv, nums # <<>>
  PROVE  /\ Head(nums) \in Elems(nums) /\ Head(nums) \in Nat
         /\ Tail(nums) \in Seq(Nat)
         /\ Elems(nums) = Elems(Tail(nums)) \cup {Head(nums)}
         /\ \A n \in Elems(Tail(nums)) : n < Head(nums)
         /\ \A i, j \in 1 .. Len(Tail(nums)) : i < j => Tail(nums)[i] > Tail(nums)[j]
<1>1. /\ nums \in Seq(Nat)
      /\ \A i, j \in 1 .. Len(nums) : i < j => nums[i] > nums[j]
  BY DEF IInv, TypeOK, FilesInv
<1>2. /\ Head(nums) = nums[1] /\ Head(nums) \in Nat /\ Tail(nums) \in Seq(Nat)
      /\ Len(nums) \in Nat /\ Len(nums) > 0 /\ Len(Tail(nums)) = Len(nums) - 1
      /\ \A i \in 1 .. Len(Tail(nums)) : Tail(nums)[i] = nums[i + 1]
  BY <1>1, HeadTailProperties
<1>3. \A i \in 1 .. Len(Tail(nums)) : i + 1 \in 1 .. Len(nums) /\ 1 < i + 1
  BY <1>2
<1>4. \A i \in 1 .. Len(nums) : i = 1 \/ (i - 1 \in 1 .. Len(Tail(nums)) /\ (i - 1) + 1 = i)
  BY <1>2
<1>5. Head(nums) \in Elems(nums)
  BY <1>2 DEF Elems
<1>6. \A n \in Elems(Tail(nums)) : n < Head(nums) /\ n \in Elems(nums)
  <2> SUFFICES ASSUME NEW i \in 1 .. Len(Tail(nums))
               PROVE  Tail(nums)[i] < Head(nums) /\ Tail(nums)[i] \in Elems(nums)
    BY DEF Elems
  <2>1. i + 1 \in 1 .. Len(nums) /\ 1 \in 1 .. Len(nums) /\ 1 < i + 1
    BY <1>2, <1>3
  <2>2. nums[1] > nums[i + 1] /\ nums[1] \in Nat /\ nums[i + 1] \in Nat
    BY <1>1, <2>1
  <2> QED BY <1>2, <2>1, <2>2 DEF Elems
<1>7. Elems(nums) \subseteq Elems(Tail(nums)) \cup {Head(nums)}
  BY <1>2, <1>4 DEF Elems
<1>8. \A i, j \in 1 .. Len(Tail(nums)) : i < j => Tail(nums)[i] > Tail(nums)[j]
  <2> SUFFICES ASSUME NEW i \in 1 .. Len(Tail(nums)), NEW j \in 1 .. Len(Tail(nums)), i < j
               PROVE  Tail(nums)[i] > Tail(nums)[j]
    OBVIOUS
  <2>1. i + 1 \in 1 .. Len(nums) /\ j + 1 \in 1 .. Len(nums) /\ i + 1 < j + 1
    BY <1>2, <1>3
  <2> QED BY <1>1, <1>2, <2>1
<1> QED BY <1>2, <1>5, <1>6, <1>7, <1>8

\* A step that changes neither the files nor what is counted
LEMMA SameFiles ==
  ASSUME IInv, UNCHANGED <<dir, data, written>>
  PROVE  /\ \A n \in DOMAIN dir : Lines(n)' = Lines(n)
         /\ CurrentLen' = CurrentLen
         /\ failures <= failures' /\ failures \in Nat /\ failures' \in Nat => NothingLost'
<1>1. \A n \in DOMAIN dir : Lines(n)' = Lines(n)
  BY DEF Lines
<1>2. CurrentLen' = CurrentLen
  BY <1>1 DEF CurrentLen
<1>3. ASSUME failures <= failures', failures \in Nat, failures' \in Nat
      PROVE  NothingLost'
  <2> SUFFICES ASSUME failures' = 0 PROVE NothingLost'
    BY DEF NothingLost
  <2>1. failures = 0
    BY <1>3
  <2> QED BY <2>1 DEF IInv, NothingLost, Lines, Elems
<1> QED BY <1>1, <1>2, <1>3

LEMMA IInvTypes == IInv => Types
BY DEF IInv, TypeOK, Types

\* The numbers stay below their bound.
LEMMA NumbersBound ==
  ASSUME NumbersInv', DOMAIN dir' \subseteq Nat, CurrentLen' \in Nat,
         written' \in 0 .. MaxLines, crashes' \in 0 .. MaxCrashes, phase' # "rename"
  PROVE  DOMAIN dir' \subseteq 0 .. MaxLines + MaxCrashes
<1>1. \A n \in DOMAIN dir' : n + CurrentLen' <= written' + crashes'
  BY DEF NumbersInv
<1>2. MaxLines \in Nat /\ MaxCrashes \in Nat
  BY LogAssumption
<1> QED BY <1>1, <1>2

LEMMA StartThreadKept ==
  ASSUME IInv, StartThread
  PROVE  Kept'
<1>1. /\ phase = "init" /\ phase' = "sleep"
      /\ UNCHANGED <<dir, data, fd, newfd, nums, written, crashes, failures>>
  BY DEF StartThread, disk, bounded
<1>2. Types'
  BY <1>1, IInvTypes DEF Types, IInv, FilesInv
<1>3. FilesInv'
  BY <1>1 DEF IInv, FilesInv, Elems
<1>4. CurrentLen' = CurrentLen /\ NothingLost'
  BY <1>1, SameFiles, IInvTypes, LogAssumption DEF Types
<1>5. NumbersInv' /\ PlacesInv'
  BY <1>1, <1>4 DEF IInv, NumbersInv, PlacesInv
<1> QED BY <1>2, <1>3, <1>4, <1>5 DEF Kept

\* The numbers listed, in their order
LEMMA SortedFacts ==
  ASSUME NEW S \in SUBSET Nat, NEW s \in Sorted(S), Cardinality(S) \in Nat
  PROVE  /\ s \in Seq(Nat) /\ Elems(s) = S
         /\ \A i, j \in 1 .. Len(s) : i < j => s[i] > s[j]
<1>1. /\ s \in [1 .. Cardinality(S) -> S] /\ \A n \in S : \E i \in 1 .. Len(s) : s[i] = n
      /\ \A i, j \in 1 .. Len(s) : i < j => s[i] > s[j]
  BY DEF Sorted, Listings
<1>2. s \in Seq(S) /\ Len(s) = Cardinality(S)
  BY <1>1
<1>3. s \in Seq(Nat)
  <2>1. s \in [1 .. Cardinality(S) -> Nat]
    BY <1>1
  <2> QED BY <2>1
<1>4. Elems(s) = S
  BY <1>1, <1>2 DEF Elems
<1> QED BY <1>1, <1>3, <1>4

\* rotate has listed some of the numbered files, all of them unless it failed.
LEMMA ListKept ==
  ASSUME IInv, phase \in {"init", "sleep"}, TooLong, phase' = "rename",
         NEW S \in SUBSET (DOMAIN dir \ {0}), nums' \in Sorted(S),
         failures' = 0 => failures = 0 /\ S = DOMAIN dir \ {0},
         failures' \in 0 .. MaxFailures, failures <= failures',
         UNCHANGED <<dir, data, fd, newfd, written, crashes>>
  PROVE  Kept'
<1>1. DOMAIN dir \subseteq Nat /\ IsFiniteSet(DOMAIN dir)
  <2>1. DOMAIN dir \subseteq 0 .. MaxLines + MaxCrashes
    BY IInvTypes DEF Types
  <2>2. MaxLines + MaxCrashes \in Nat
    BY LogAssumption
  <2>3. IsFiniteSet(0 .. MaxLines + MaxCrashes)
    BY <2>2, FS_Interval
  <2> QED BY <2>1, <2>2, <2>3, FS_Subset
<1>2. S \in SUBSET Nat /\ Cardinality(S) \in Nat
  BY <1>1, FS_Subset, FS_CardinalityType
<1>3. /\ nums' \in Seq(Nat) /\ Elems(nums') = S
      /\ \A i, j \in 1 .. Len(nums') : i < j => nums'[i] > nums'[j]
  <2> SUFFICES ASSUME NEW s, s = nums'
               PROVE  s \in Seq(Nat) /\ Elems(s) = S /\ \A i, j \in 1 .. Len(s) : i < j => s[i] > s[j]
    OBVIOUS
  <2> QED BY <1>2, SortedFacts
<1>4. Elems(nums)' = S
  BY <1>3 DEF Elems
<1>5. Types'
  BY <1>3, IInvTypes DEF Types
<1>6. FilesInv'
  <2>1. 0 \in DOMAIN dir /\ fd = dir[0]
    BY DEF IInv, FilesInv
  <2>2. TooLong'
    BY DEF TooLong
  <2>3. /\ \A m, n \in DOMAIN dir : dir[m] = dir[n] => m = n
        /\ \A i \in DOMAIN data : Elems(data[i]) \subseteq 1 .. written
    BY DEF IInv, FilesInv
  <2>4. \A i \in DOMAIN data : Elems(data[i])' = Elems(data[i])
    BY DEF Elems
  <2> QED BY <1>3, <1>4, <2>1, <2>2, <2>3, <2>4 DEF FilesInv
<1>7. CurrentLen' = CurrentLen /\ NothingLost'
  BY SameFiles, IInvTypes, LogAssumption DEF Types
<1>8. NumbersInv'
  <2>1. \A n \in DOMAIN dir : n + CurrentLen <= written + crashes
    BY DEF IInv, NumbersInv
  <2> QED BY <1>1, <1>7, <2>1, FileFacts DEF NumbersInv
<1>9. PlacesInv'
  BY <1>4 DEF PlacesInv
<1> QED BY <1>5, <1>6, <1>7, <1>8, <1>9 DEF Kept

LEMMA ListFilesKept ==
  ASSUME IInv, ListFiles \/ ListingFails
  PROVE  Kept'
<1>1. failures \in 0 .. MaxFailures /\ MaxFailures \in Nat
  BY LogAssumption, IInvTypes DEF Types
<1>2. CASE ListFiles
  BY <1>1, <1>2, ListKept DEF ListFiles, disk, bounded
<1>3. CASE ListingFails
  <2>1. PICK S \in SUBSET (DOMAIN dir \ {0}) : nums' \in Sorted(S)
    BY <1>3 DEF ListingFails
  <2>2. /\ phase \in {"init", "sleep"} /\ TooLong /\ phase' = "rename"
        /\ failures' = failures + 1 /\ failures < MaxFailures
        /\ UNCHANGED <<dir, data, fd, newfd, written, crashes>>
    BY <1>3 DEF ListingFails, disk
  <2>3. failures' \in 0 .. MaxFailures /\ failures <= failures' /\ failures' # 0
    BY <1>1, <2>2
  <2> QED BY <2>1, <2>2, <2>3, ListKept
<1> QED BY <1>2, <1>3

\* The exception of one rename is caught: the number stays behind.
LEMMA RenameFailsKept ==
  ASSUME IInv, RenameFails
  PROVE  Kept'
<1>1. /\ phase = "rename" /\ phase' = "rename" /\ nums # <<>> /\ nums' = Tail(nums)
      /\ failures' = failures + 1 /\ failures < MaxFailures
      /\ UNCHANGED <<dir, data, fd, newfd, written, crashes>>
  BY DEF RenameFails, disk
<1>2. /\ Elems(nums) = Elems(Tail(nums)) \cup {Head(nums)} /\ Tail(nums) \in Seq(Nat)
      /\ \A i, j \in 1 .. Len(Tail(nums)) : i < j => Tail(nums)[i] > Tail(nums)[j]
  BY <1>1, HeadIsGreatest
<1>3. Elems(nums)' = Elems(Tail(nums))
  BY <1>1 DEF Elems
<1>4. failures' \in 0 .. MaxFailures /\ failures' # 0 /\ failures <= failures'
  BY <1>1, LogAssumption, IInvTypes DEF Types
<1>5. Types'
  BY <1>1, <1>2, <1>4, IInvTypes DEF Types
<1>6. FilesInv'
  <2>1. /\ \A m, n \in DOMAIN dir : dir[m] = dir[n] => m = n
        /\ \A i \in DOMAIN data : Elems(data[i]) \subseteq 1 .. written
        /\ 0 \in DOMAIN dir /\ fd = dir[0] /\ TooLong
        /\ Elems(nums) \subseteq DOMAIN dir \ {0}
    BY <1>1 DEF IInv, FilesInv
  <2>2. \A i \in DOMAIN data : Elems(data[i])' = Elems(data[i])
    BY <1>1 DEF Elems
  <2>3. TooLong'
    BY <1>1, <2>1 DEF TooLong
  <2> QED BY <1>1, <1>2, <1>3, <2>1, <2>2, <2>3 DEF FilesInv
<1>7. CurrentLen' = CurrentLen /\ NothingLost' /\ PlacesInv'
  BY <1>1, <1>4, SameFiles DEF NothingLost, PlacesInv
<1>8. NumbersInv'
  <2>1. Elems(nums)' \subseteq Elems(nums)
    BY <1>2, <1>3
  <2> QED BY <1>1, <1>7, <2>1 DEF IInv, NumbersInv
<1> QED BY <1>5, <1>6, <1>7, <1>8 DEF Kept

\* What a rename does to the names
LEMMA RenamedFacts ==
  ASSUME IInv, NEW m \in DOMAIN dir, NEW n \in Nat, n # m, dir' = Renamed(m, n),
         UNCHANGED <<data, written>>
  PROVE  /\ DOMAIN dir' = (DOMAIN dir \cup {n}) \ {m}
         /\ dir' \in [DOMAIN dir' -> DOMAIN data]
         /\ dir'[n] = dir[m] /\ \A k \in DOMAIN dir' \ {n} : k \in DOMAIN dir /\ dir'[k] = dir[k]
         /\ \A j, k \in DOMAIN dir' : dir'[j] = dir'[k] => j = k
<1>1. dir \in [DOMAIN dir -> DOMAIN data] /\ \A j, k \in DOMAIN dir : dir[j] = dir[k] => j = k
  BY IInvTypes DEF Types, IInv, FilesInv
<1>2. DOMAIN dir' = (DOMAIN dir \cup {n}) \ {m}
  BY DEF Renamed
<1>3. dir'[n] = dir[m] /\ \A k \in DOMAIN dir' \ {n} : k \in DOMAIN dir /\ k # m /\ dir'[k] = dir[k]
  BY <1>2 DEF Renamed
<1>4. dir' \in [DOMAIN dir' -> DOMAIN data]
  BY <1>1 DEF Renamed
<1>5. \A j, k \in DOMAIN dir' : dir'[j] = dir'[k] => j = k
  BY <1>1, <1>3
<1> QED BY <1>2, <1>3, <1>4, <1>5

\* Nothing is lost by a rename to a free place next to the old one.
LEMMA RenamedOrder ==
  ASSUME IInv, NEW m \in DOMAIN dir, m + 1 \notin DOMAIN dir, dir' = Renamed(m, m + 1),
         UNCHANGED <<data, written, failures>>
  PROVE  NothingLost'
<1> SUFFICES ASSUME failures = 0 PROVE NothingLost'
  BY DEF NothingLost
<1>1. m \in Nat /\ DOMAIN dir \subseteq Nat
  BY FileFacts
<1>2. PICK n \in Nat : n = m + 1
  BY <1>1
<1>3. /\ DOMAIN dir' = (DOMAIN dir \cup {n}) \ {m} /\ n # m
      /\ dir'[n] = dir[m] /\ \A k \in DOMAIN dir' \ {n} : k \in DOMAIN dir /\ dir'[k] = dir[k]
  BY <1>1, <1>2, RenamedFacts
<1> DEFINE old(k) == IF k = n THEN m ELSE k
<1>4. \A k \in DOMAIN dir' : old(k) \in DOMAIN dir /\ Lines(k)' = Lines(old(k))
  BY <1>3 DEF Lines
<1>5. \A k \in DOMAIN dir : \E j \in DOMAIN dir' : old(j) = k
  <2> SUFFICES ASSUME NEW k \in DOMAIN dir PROVE \E j \in DOMAIN dir' : old(j) = k
    OBVIOUS
  <2>1. CASE k = m
    BY <1>3, <2>1
  <2>2. CASE k # m
    BY <1>2, <1>3, <2>2
  <2> QED BY <2>1, <2>2
<1>6. \A j, k \in DOMAIN dir' : j > k => old(j) > old(k)
  BY <1>1, <1>2, <1>3
<1> HIDE DEF old
<1>7. \A k \in DOMAIN dir' : Elems(Lines(k))' = Elems(Lines(old(k)))
  BY <1>4 DEF Elems
<1>8. UNION {Elems(Lines(k)) : k \in DOMAIN dir} = 1 .. written
  BY DEF IInv, NothingLost
<1>9. UNION {Elems(Lines(k))' : k \in DOMAIN dir'} = 1 .. written
  BY <1>4, <1>5, <1>7, <1>8
<1>10. ASSUME NEW j \in DOMAIN dir', NEW k \in DOMAIN dir',
              NEW a \in 1 .. Len(Lines(j)'), NEW b \in 1 .. Len(Lines(k)'), j > k \/ (j = k /\ a < b)
       PROVE  Lines(j)'[a] < Lines(k)'[b]
  <2>1. old(j) > old(k) \/ (old(j) = old(k) /\ a < b)
    BY <1>6, <1>10
  <2>2. /\ a \in 1 .. Len(Lines(old(j))) /\ b \in 1 .. Len(Lines(old(k)))
        /\ old(j) \in DOMAIN dir /\ old(k) \in DOMAIN dir
    BY <1>4
  <2>3. Lines(old(j))[a] < Lines(old(k))[b]
    BY <2>1, <2>2 DEF IInv, NothingLost
  <2> QED BY <1>4, <2>3
<1> QED BY <1>9, <1>10 DEF NothingLost

LEMMA RenameNextKept ==
  ASSUME IInv, RenameNext
  PROVE  Kept'
<1>1. /\ phase = "rename" /\ phase' = "rename" /\ nums # <<>> /\ nums' = Tail(nums)
      /\ dir' = Renamed(Head(nums), Head(nums) + 1)
      /\ UNCHANGED <<data, fd, newfd, written, crashes, failures>>
  BY DEF RenameNext, bounded
<1>2. /\ Head(nums) \in Elems(nums) /\ Head(nums) \in Nat
      /\ Elems(nums) = Elems(Tail(nums)) \cup {Head(nums)} /\ Tail(nums) \in Seq(Nat)
      /\ \A k \in Elems(Tail(nums)) : k < Head(nums)
      /\ \A i, j \in 1 .. Len(Tail(nums)) : i < j => Tail(nums)[i] > Tail(nums)[j]
  BY <1>1, HeadIsGreatest
<1>3. Elems(nums)' = Elems(Tail(nums))
  BY <1>1 DEF Elems
<1>4. PICK m \in Nat : m = Head(nums)
  BY <1>2
<1>5. /\ Elems(nums) \subseteq DOMAIN dir \ {0} /\ 0 \in DOMAIN dir /\ fd = dir[0] /\ TooLong
      /\ \A i \in DOMAIN data : Elems(data[i]) \subseteq 1 .. written
  BY <1>1 DEF IInv, FilesInv
<1>6. /\ m \in DOMAIN dir \ {0} /\ m + 1 \in Nat /\ m + 1 # m /\ m + 1 # 0
      /\ \A k \in Elems(Tail(nums)) : k < m /\ k \in DOMAIN dir \ {0}
      /\ DOMAIN dir \subseteq Nat
  BY <1>2, <1>4, <1>5, FileFacts
<1>7. /\ DOMAIN dir' = (DOMAIN dir \cup {m + 1}) \ {m}
      /\ dir' \in [DOMAIN dir' -> DOMAIN data]
      /\ dir'[m + 1] = dir[m]
      /\ \A k \in DOMAIN dir' \ {m + 1} : k \in DOMAIN dir /\ dir'[k] = dir[k]
      /\ \A j, k \in DOMAIN dir' : dir'[j] = dir'[k] => j = k
  BY <1>1, <1>4, <1>6, RenamedFacts
<1>8. 0 \in DOMAIN dir' /\ dir'[0] = dir[0]
  BY <1>5, <1>6, <1>7
<1>9. CurrentLen' = CurrentLen /\ CurrentLen \in Nat /\ CurrentLen > 0
  <2>1. CurrentLen = Len(data[dir[0]]) /\ CurrentLen' = Len(data[dir[0]])
    BY <1>1, <1>5, <1>8 DEF CurrentLen, Lines
  <2>2. CurrentLen >= Limit
    BY <1>5, <2>1 DEF TooLong
  <2> QED BY <2>1, <2>2, FileFacts, LogAssumption
<1>10. NumbersInv'
  <2>1. \A n \in DOMAIN dir : /\ n \in Nat
                              /\ n + CurrentLen <= written + crashes + 1
                              /\ n \in Elems(nums) \cup {0} => n + CurrentLen <= written + crashes
    BY <1>1, FileFacts DEF IInv, NumbersInv
  <2>2. written \in Nat /\ crashes \in Nat
    BY FileFacts
  <2>3. m + CurrentLen <= written + crashes
    BY <1>2, <1>4, <1>6, <2>1
  <2>4. \A n \in DOMAIN dir' : n = m + 1 \/ n \in DOMAIN dir
    BY <1>7
  <2>5. \A n \in DOMAIN dir' : n + CurrentLen <= written + crashes + 1
    BY <1>6, <1>9, <2>1, <2>2, <2>3, <2>4
  <2>6. \A n \in DOMAIN dir' : n \in Elems(nums)' \cup {0} => n + CurrentLen <= written + crashes
    <3>1. \A n \in Elems(nums)' \cup {0} : n \in DOMAIN dir /\ n \in Elems(nums) \cup {0}
      BY <1>2, <1>3, <1>5
    <3> QED BY <2>1, <3>1
  <2> QED BY <1>1, <1>9, <2>5, <2>6 DEF NumbersInv
<1>11. Types'
  <2>1. /\ written \in 0 .. MaxLines /\ crashes \in 0 .. MaxCrashes
        /\ MaxLines \in Nat /\ MaxCrashes \in Nat
    BY LogAssumption, IInvTypes DEF Types
  <2>2. \A n \in DOMAIN dir' : n + CurrentLen <= written + crashes + 1
    BY <1>1, <1>9, <1>10 DEF NumbersInv
  <2>3. \A n \in DOMAIN dir' : n \in Nat
    BY <1>6, <1>7
  <2>4. DOMAIN dir' \subseteq 0 .. MaxLines + MaxCrashes
    BY <1>9, <2>1, <2>2, <2>3
  <2> QED BY <1>1, <1>2, <1>7, <1>8, <2>4, IInvTypes DEF Types
<1>12. FilesInv'
  <2>1. \A i \in DOMAIN data : Elems(data[i])' = Elems(data[i])
    BY <1>1 DEF Elems
  <2>2. TooLong'
    BY <1>1, <1>5 DEF TooLong
  <2>3. Elems(nums)' \subseteq DOMAIN dir' \ {0}
    BY <1>3, <1>6, <1>7
  <2> QED BY <1>1, <1>2, <1>5, <1>7, <1>8, <2>1, <2>2, <2>3 DEF FilesInv
<1>13. CASE failures = 0
  <2>1. \A k \in DOMAIN dir \ {0} : k \in Elems(nums) \/ (k > 1 /\ k > m + 1)
    BY <1>1, <1>2, <1>4, <1>13 DEF IInv, PlacesInv
  <2>2. m + 1 \notin DOMAIN dir
    <3>1. m + 1 \notin Elems(nums)
      BY <1>2, <1>4, <1>6
    <3> QED BY <1>6, <2>1, <3>1
  <2>3. NothingLost'
    BY <1>1, <1>4, <1>6, <2>2, RenamedOrder
  <2>4. PlacesInv'
    <3>1. \A k \in DOMAIN dir' \ {0} : k = m + 1 \/ k \in Elems(Tail(nums)) \/ (k > 1 /\ k > m + 1)
      BY <1>2, <1>4, <1>7, <2>1
    <3>2. \A k \in DOMAIN dir' \ {0} :
            k \in Elems(Tail(nums)) \/ (k > 1 /\ \A n \in Elems(Tail(nums)) : k > n + 1)
      BY <1>6, <1>7, <3>1
    <3> QED BY <1>3, <3>2 DEF PlacesInv
  <2> QED BY <1>10, <1>11, <1>12, <2>3, <2>4 DEF Kept
<1>14. CASE failures # 0
  BY <1>1, <1>10, <1>11, <1>12, <1>14 DEF Kept, NothingLost, PlacesInv
<1> QED BY <1>13, <1>14

LEMMA RenameCurrentKept ==
  ASSUME IInv, RenameCurrent
  PROVE  Kept'
<1>1. /\ phase = "rename" /\ phase' = "open" /\ nums = <<>> /\ dir' = Renamed(0, 0 + 1)
      /\ UNCHANGED <<data, fd, newfd, nums, written, crashes, failures>>
  BY DEF RenameCurrent, bounded
<1>2. /\ 0 \in DOMAIN dir /\ fd = dir[0] /\ TooLong
      /\ \A i \in DOMAIN data : Elems(data[i]) \subseteq 1 .. written
  BY <1>1 DEF IInv, FilesInv
<1>3. /\ DOMAIN dir' = (DOMAIN dir \cup {1}) \ {0}
      /\ dir' \in [DOMAIN dir' -> DOMAIN data]
      /\ dir'[1] = dir[0]
      /\ \A k \in DOMAIN dir' \ {1} : k \in DOMAIN dir /\ dir'[k] = dir[k]
      /\ \A j, k \in DOMAIN dir' : dir'[j] = dir'[k] => j = k
  <2>1. 0 + 1 = 1 /\ 1 \in Nat /\ 1 # 0
    OBVIOUS
  <2>2. dir' = Renamed(0, 1)
    BY <1>1, <2>1
  <2> QED BY <1>1, <1>2, <2>1, <2>2, RenamedFacts
<1>4. Elems(nums) = {} /\ Elems(nums)' = {} /\ Len(nums') = 0
  BY <1>1 DEF Elems
<1>5. CurrentLen >= Limit /\ CurrentLen' = 0 /\ CurrentLen \in Nat
  BY <1>2, <1>3, FileFacts DEF CurrentLen, TooLong, Lines
<1>6. /\ \A n \in DOMAIN dir' : n = 1 \/ n \in DOMAIN dir
      /\ DOMAIN dir' \subseteq Nat /\ DOMAIN dir \subseteq Nat /\ written \in Nat /\ crashes \in Nat
  BY <1>3, FileFacts
<1>7. \A n \in DOMAIN dir' : n <= written + crashes
  <2>1. /\ \A n \in DOMAIN dir : n + CurrentLen <= written + crashes + 1
        /\ 0 + CurrentLen <= written + crashes
    BY <1>2 DEF IInv, NumbersInv
  <2>2. CurrentLen >= 1
    BY <1>5, LogAssumption
  <2> QED BY <1>5, <1>6, <2>1, <2>2
<1>8. NumbersInv'
  <2>1. \A n \in DOMAIN dir' : n + 0 <= written + crashes /\ n + 0 <= written + crashes + 1
    BY <1>6, <1>7
  <2> QED BY <1>1, <1>5, <2>1 DEF NumbersInv
<1>9. Types'
  <2>1. DOMAIN dir' \subseteq 0 .. MaxLines + MaxCrashes
    BY <1>6, <1>7, LogAssumption, IInvTypes DEF Types
  <2> QED BY <1>1, <1>3, <2>1, IInvTypes DEF Types
<1>10. FilesInv'
  <2>1. \A i \in DOMAIN data : Elems(data[i])' = Elems(data[i])
    BY <1>1 DEF Elems
  <2> QED BY <1>1, <1>2, <1>3, <1>4, <2>1 DEF FilesInv
<1>11. NothingLost'
  <2>1. CASE failures = 0
    <3>1. 1 \notin DOMAIN dir
      BY <1>1, <1>4, <2>1 DEF IInv, PlacesInv
    <3> QED BY <1>1, <1>2, <3>1, RenamedOrder
  <2>2. CASE failures # 0
    BY <1>1, <2>2 DEF NothingLost
  <2> QED BY <2>1, <2>2
<1> QED BY <1>1, <1>8, <1>9, <1>10, <1>11 DEF Kept, PlacesInv

\* A new file is empty and has the name of the current one.
LEMMA CreateFacts ==
  ASSUME IInv, 0 \notin DOMAIN dir, dir' = Entered(NewInode), Create, UNCHANGED <<written, failures>>
  PROVE  /\ DOMAIN dir' = DOMAIN dir \cup {0}
         /\ dir' \in [DOMAIN dir' -> DOMAIN data']
         /\ data' \in Seq(Seq(1 .. MaxLines))
         /\ dir'[0] = NewInode /\ NewInode \in DOMAIN data' /\ data'[NewInode] = <<>>
         /\ \A k \in DOMAIN dir : k # 0 /\ dir'[k] = dir[k]
         /\ \A j, k \in DOMAIN dir' : dir'[j] = dir'[k] => j = k
         /\ \A i \in DOMAIN data' : Elems(data'[i]) \subseteq 1 .. written'
         /\ CurrentLen = 0 /\ CurrentLen' = 0
         /\ NothingLost'
<1>1. /\ data \in Seq(Seq(1 .. MaxLines)) /\ dir \in [DOMAIN dir -> DOMAIN data]
      /\ \A j, k \in DOMAIN dir : dir[j] = dir[k] => j = k
      /\ \A i \in DOMAIN data : Elems(data[i]) \subseteq 1 .. written
  BY IInvTypes DEF Types, IInv, FilesInv
<1>2. <<>> \in Seq(1 .. MaxLines) /\ Len(data) \in Nat /\ DOMAIN data = 1 .. Len(data)
  BY <1>1
<1>3. PICK d : d = <<>> /\ d \in Seq(1 .. MaxLines) /\ Elems(d) = {} /\ Len(d) = 0
  <2>1. Len(<<>>) = 0
    BY EmptySeq
  <2>2. Elems(<<>>) = {}
    BY <2>1 DEF Elems
  <2> QED BY <1>2, <2>1, <2>2
<1>4. /\ data' \in Seq(Seq(1 .. MaxLines)) /\ DOMAIN data' = DOMAIN data \cup {NewInode}
      /\ NewInode \notin DOMAIN data /\ data'[NewInode] = d
      /\ \A i \in DOMAIN data : data'[i] = data[i]
  <2>1. data' = Append(data, d)
    BY <1>3 DEF Create
  <2>2. /\ Append(data, d) \in Seq(Seq(1 .. MaxLines))
        /\ Len(Append(data, d)) = Len(data) + 1
        /\ \A i \in 1 .. Len(data) : Append(data, d)[i] = data[i]
        /\ Append(data, d)[Len(data) + 1] = d
    BY <1>1, <1>3, AppendProperties
  <2>3. DOMAIN data' = 1 .. Len(data) + 1
    BY <2>1, <2>2
  <2> QED BY <1>2, <2>1, <2>2, <2>3 DEF NewInode
<1>5. /\ DOMAIN dir' = DOMAIN dir \cup {0} /\ dir'[0] = NewInode
      /\ \A k \in DOMAIN dir : k # 0 /\ dir'[k] = dir[k]
      /\ dir' = [k \in DOMAIN dir' |-> dir'[k]]
  BY DEF Entered
<1>6. \A k \in DOMAIN dir : dir'[k] \in DOMAIN data
  BY <1>1, <1>5
<1>7. dir' \in [DOMAIN dir' -> DOMAIN data']
  BY <1>4, <1>5, <1>6
<1>8. \A j, k \in DOMAIN dir' : dir'[j] = dir'[k] => j = k
  BY <1>1, <1>4, <1>5, <1>6
<1>9. \A i \in DOMAIN data' : Elems(data'[i]) \subseteq 1 .. written'
  <2>1. \A i \in DOMAIN data : Elems(data'[i]) = Elems(data[i])
    BY <1>4
  <2>2. Elems(data'[NewInode]) = {}
    BY <1>3, <1>4
  <2> QED BY <1>1, <1>4, <2>1, <2>2
<1>10. /\ \A k \in DOMAIN dir : Lines(k)' = Lines(k)
       /\ Lines(0)' = d
  BY <1>1, <1>4, <1>5 DEF Lines
<1>11. CurrentLen = 0 /\ CurrentLen' = 0
  BY <1>3, <1>5, <1>10 DEF CurrentLen
<1>12. NothingLost'
  <2> SUFFICES ASSUME failures = 0 PROVE NothingLost'
    BY DEF NothingLost
  <2>1. Elems(Lines(0))' = {} /\ \A k \in DOMAIN dir : Elems(Lines(k))' = Elems(Lines(k))
    BY <1>3, <1>10 DEF Elems
  <2>2. UNION {Elems(Lines(k)) : k \in DOMAIN dir} = 1 .. written
    BY DEF IInv, NothingLost
  <2>3. UNION {Elems(Lines(k))' : k \in DOMAIN dir'} = 1 .. written'
    BY <1>5, <2>1, <2>2
  <2>4. ASSUME NEW j \in DOMAIN dir', NEW k \in DOMAIN dir',
               NEW a \in 1 .. Len(Lines(j)'), NEW b \in 1 .. Len(Lines(k)'), j > k \/ (j = k /\ a < b)
        PROVE  Lines(j)'[a] < Lines(k)'[b]
    <3>1. j # 0 /\ k # 0
      BY <1>3, <1>10
    <3>2. j \in DOMAIN dir /\ k \in DOMAIN dir
      BY <1>5, <3>1
    <3>3. a \in 1 .. Len(Lines(j)) /\ b \in 1 .. Len(Lines(k))
      BY <1>10, <3>2
    <3>4. Lines(j)[a] < Lines(k)[b]
      BY <2>4, <3>2, <3>3 DEF IInv, NothingLost
    <3> QED BY <1>10, <3>2, <3>4
  <2> QED BY <2>3, <2>4 DEF NothingLost
<1> QED BY <1>3, <1>4, <1>5, <1>7, <1>8, <1>9, <1>11, <1>12

LEMMA OpenLogKept ==
  ASSUME IInv, OpenLog
  PROVE  Kept'
<1>1. /\ phase = "down" /\ phase' = "init" /\ nums = <<>>
      /\ UNCHANGED <<newfd, nums, written, crashes, failures>>
  BY DEF OpenLog, bounded, IInv, FilesInv
<1>2. Elems(nums) = {} /\ Elems(nums)' = {} /\ Len(nums') = 0
  BY <1>1 DEF Elems
<1>3. PlacesInv'
  BY <1>1 DEF PlacesInv
<1>4. \A n \in DOMAIN dir : n + CurrentLen <= written + crashes
  BY <1>1 DEF IInv, NumbersInv
<1>5. CASE 0 \in DOMAIN dir
  <2>1. fd' = dir[0] /\ UNCHANGED <<dir, data>>
    BY <1>5 DEF OpenLog, disk
  <2>2. NothingLost' /\ CurrentLen' = CurrentLen
    BY <1>1, <2>1, SameFiles, IInvTypes, LogAssumption DEF Types
  <2>3. NumbersInv'
    BY <1>1, <1>4, <2>1, <2>2, FileFacts DEF NumbersInv
  <2>4. Types'
    BY <1>1, <1>5, <2>1, IInvTypes DEF Types
  <2>5. FilesInv'
    <3>1. \A i \in DOMAIN data : Elems(data[i])' = Elems(data[i])
      BY <2>1 DEF Elems
    <3> QED BY <1>1, <1>2, <1>5, <2>1, <3>1 DEF IInv, FilesInv
  <2> QED BY <1>3, <2>2, <2>3, <2>4, <2>5 DEF Kept
<1>6. CASE 0 \notin DOMAIN dir
  <2>1. fd' = NewInode /\ dir' = Entered(NewInode) /\ Create
    BY <1>6 DEF OpenLog
  <2>2. /\ DOMAIN dir' = DOMAIN dir \cup {0} /\ dir' \in [DOMAIN dir' -> DOMAIN data']
        /\ data' \in Seq(Seq(1 .. MaxLines)) /\ dir'[0] = NewInode /\ NewInode \in DOMAIN data'
        /\ \A j, k \in DOMAIN dir' : dir'[j] = dir'[k] => j = k
        /\ \A i \in DOMAIN data' : Elems(data'[i]) \subseteq 1 .. written'
        /\ CurrentLen = 0 /\ CurrentLen' = 0 /\ NothingLost'
    BY <1>1, <1>6, <2>1, CreateFacts
  <2>3. NumbersInv'
    <3>1. \A n \in DOMAIN dir' : n + 0 <= written + crashes /\ n + 0 <= written + crashes + 1
      BY <1>4, <2>2, FileFacts
    <3> QED BY <1>1, <2>2, <3>1 DEF NumbersInv
  <2>4. DOMAIN dir' \subseteq 0 .. MaxLines + MaxCrashes
    BY <2>2, LogAssumption, IInvTypes DEF Types
  <2>5. Types'
    BY <1>1, <2>1, <2>2, <2>4, IInvTypes DEF Types
  <2>6. FilesInv'
    <3>1. \A i \in DOMAIN data' : Elems(data[i])' \subseteq 1 .. written'
      BY <2>2 DEF Elems
    <3> QED BY <1>1, <1>2, <2>1, <2>2, <3>1 DEF FilesInv
  <2> QED BY <1>3, <2>2, <2>3, <2>5, <2>6 DEF Kept
<1> QED BY <1>5, <1>6

LEMMA OpenNewKept ==
  ASSUME IInv, OpenNew
  PROVE  Kept'
<1>1. /\ phase = "open" /\ phase' = "dup" /\ newfd' = NewInode /\ nums = <<>>
      /\ dir' = Entered(NewInode) /\ Create
      /\ UNCHANGED <<fd, nums, written, crashes, failures>>
  BY DEF OpenNew, EnterCreated, bounded, IInv, FilesInv
<1>2. 0 \notin DOMAIN dir /\ 1 \in DOMAIN dir /\ fd = dir[1]
  BY <1>1 DEF IInv, FilesInv
<1>3. /\ DOMAIN dir' = DOMAIN dir \cup {0} /\ dir' \in [DOMAIN dir' -> DOMAIN data']
      /\ data' \in Seq(Seq(1 .. MaxLines)) /\ dir'[0] = NewInode /\ NewInode \in DOMAIN data'
      /\ data'[NewInode] = <<>>
      /\ \A k \in DOMAIN dir : k # 0 /\ dir'[k] = dir[k]
      /\ \A j, k \in DOMAIN dir' : dir'[j] = dir'[k] => j = k
      /\ \A i \in DOMAIN data' : Elems(data'[i]) \subseteq 1 .. written'
      /\ CurrentLen = 0 /\ CurrentLen' = 0 /\ NothingLost'
  BY <1>1, <1>2, CreateFacts
<1>4. Elems(nums)' = {} /\ Len(nums') = 0
  BY <1>1 DEF Elems
<1>5. NumbersInv'
  <2>1. \A n \in DOMAIN dir : n + CurrentLen <= written + crashes
    BY <1>1 DEF IInv, NumbersInv
  <2>2. \A n \in DOMAIN dir' : n + 0 <= written + crashes /\ n + 0 <= written + crashes + 1
    BY <1>3, <2>1, FileFacts
  <2> QED BY <1>1, <1>3, <2>2 DEF NumbersInv
<1>6. Types'
  <2>1. DOMAIN dir' \subseteq 0 .. MaxLines + MaxCrashes
    BY <1>3, LogAssumption, IInvTypes DEF Types
  <2>2. fd' \in DOMAIN data'
    BY <1>1, <1>2, <1>3
  <2> QED BY <1>1, <1>3, <2>1, <2>2, IInvTypes DEF Types
<1>7. FilesInv'
  <2>1. \A i \in DOMAIN data' : Elems(data[i])' \subseteq 1 .. written'
    BY <1>3 DEF Elems
  <2> QED BY <1>1, <1>2, <1>3, <1>4, <2>1 DEF FilesInv
<1> QED BY <1>1, <1>3, <1>5, <1>6, <1>7 DEF Kept, PlacesInv

LEMMA DupKept ==
  ASSUME IInv, Dup
  PROVE  Kept'
<1>1. /\ phase = "dup" /\ phase' = "sleep" /\ fd' = newfd /\ nums = <<>>
      /\ UNCHANGED <<dir, data, newfd, nums, written, crashes, failures>>
  BY DEF Dup, Redirect, disk, bounded, IInv, FilesInv
<1>2. 0 \in DOMAIN dir /\ dir[0] = newfd
  BY <1>1 DEF IInv, FilesInv
<1>3. Types'
  BY <1>1, <1>2, IInvTypes DEF Types
<1>4. FilesInv'
  <2>1. Elems(nums)' = Elems(nums) /\ \A i \in DOMAIN data : Elems(data[i])' = Elems(data[i])
    BY <1>1 DEF Elems
  <2> QED BY <1>1, <1>2, <2>1 DEF IInv, FilesInv
<1>5. NothingLost' /\ CurrentLen' = CurrentLen
  BY <1>1, SameFiles, IInvTypes, LogAssumption DEF Types
<1>6. NumbersInv' /\ PlacesInv'
  BY <1>1, <1>5 DEF IInv, NumbersInv, PlacesInv
<1> QED BY <1>3, <1>4, <1>5, <1>6 DEF Kept

\* The process ends: what is on the disk stays as it is.
LEMMA EndsKept ==
  ASSUME IInv, Ends
  PROVE  Kept'
<1>1. /\ phase' = "down" /\ crashes' = crashes + 1 /\ crashes < MaxCrashes /\ nums' = <<>>
      /\ UNCHANGED <<dir, data, written, failures>>
  BY DEF Ends, disk
<1>2. Elems(nums)' = {} /\ Len(nums') = 0 /\ nums' \in Seq(Nat)
  BY <1>1 DEF Elems
<1>3. Types'
  <2>1. crashes' \in 0 .. MaxCrashes
    BY <1>1, LogAssumption, IInvTypes DEF Types
  <2> QED BY <1>1, <1>2, <2>1, IInvTypes DEF Types
<1>4. FilesInv'
  <2>1. \A i \in DOMAIN data : Elems(data[i])' = Elems(data[i])
    BY <1>1 DEF Elems
  <2> QED BY <1>1, <1>2, <2>1 DEF IInv, FilesInv
<1>5. NothingLost' /\ CurrentLen' = CurrentLen
  BY <1>1, SameFiles, IInvTypes, LogAssumption DEF Types
<1>6. NumbersInv'
  <2>1. \A n \in DOMAIN dir : n + CurrentLen <= written + crashes + 1
    BY DEF IInv, NumbersInv
  <2>2. \A n \in DOMAIN dir : /\ n + CurrentLen <= written + (crashes + 1)
                              /\ n + CurrentLen <= written + (crashes + 1) + 1
    BY <2>1, FileFacts
  <2> QED BY <1>1, <1>5, <2>2 DEF NumbersInv
<1> QED BY <1>1, <1>3, <1>4, <1>5, <1>6 DEF Kept, PlacesInv

\* The descriptor refers to the newest file that has lines: when this is a numbered
\* one, rotate is between its rename and dup2.
LEMMA NewestFile ==
  ASSUME IInv, phase # "down"
  PROVE  \E f \in DOMAIN dir :
           /\ fd = dir[f]
           /\ f # 0 => CurrentLen = 0
           /\ \A n \in DOMAIN dir : n < f => Len(Lines(n)) = 0
           /\ \A n \in DOMAIN dir : n # f => dir[n] # fd
           /\ f = 0 \/ phase \notin {"init", "sleep", "rename"}
<1>1. \A m, n \in DOMAIN dir : dir[m] = dir[n] => m = n
  BY DEF IInv, FilesInv
<1>2. DOMAIN dir \subseteq Nat
  BY FileFacts
<1>3. CASE phase \in {"init", "sleep", "rename"}
  <2>1. 0 \in DOMAIN dir /\ fd = dir[0]
    BY <1>3 DEF IInv, FilesInv
  <2> QED BY <1>1, <1>2, <2>1
<1>4. CASE phase \in {"open", "dup"}
  <2>1. 1 \in DOMAIN dir /\ fd = dir[1] /\ (0 \in DOMAIN dir => data[dir[0]] = <<>>)
    BY <1>4 DEF IInv, FilesInv
  <2>2. CurrentLen = 0
    BY <2>1 DEF CurrentLen, Lines
  <2>3. \A n \in DOMAIN dir : n < 1 => Len(Lines(n)) = 0
    BY <1>2, <2>1 DEF Lines
  <2>4. phase \notin {"init", "sleep", "rename"}
    BY <1>4
  <2> QED BY <1>1, <2>1, <2>2, <2>3, <2>4
<1> QED BY <1>3, <1>4, IInvTypes DEF Types

\* A line is appended to the newest file, after every line there is.
LEMMA WriteLineKept ==
  ASSUME IInv, WriteLine
  PROVE  Kept'
<1>1. /\ phase # "down" /\ written < MaxLines /\ written' = written + 1
      /\ data' = [data EXCEPT ![fd] = Append(@, written + 1)]
      /\ UNCHANGED <<phase, dir, fd, newfd, nums, crashes, failures>>
  BY DEF WriteLine, bounded
<1>2. PICK f \in DOMAIN dir :
        /\ fd = dir[f]
        /\ f # 0 => CurrentLen = 0
        /\ \A n \in DOMAIN dir : n < f => Len(Lines(n)) = 0
        /\ \A n \in DOMAIN dir : n # f => dir[n] # fd
        /\ f = 0 \/ phase \notin {"init", "sleep", "rename"}
  BY <1>1, NewestFile
<1>3. PICK line \in 1 .. MaxLines : line = written + 1
  BY <1>1, FileFacts, LogAssumption
<1>4. /\ written \in Nat /\ crashes \in Nat /\ CurrentLen \in Nat /\ DOMAIN dir \subseteq Nat
      /\ data \in Seq(Seq(1 .. MaxLines)) /\ fd \in DOMAIN data
      /\ Lines(f) \in Seq(1 .. MaxLines) /\ data[fd] = Lines(f)
  BY <1>1, <1>2, FileFacts, IInvTypes DEF Types, Lines
<1>5. PICK longer : longer = Append(Lines(f), line)
  OBVIOUS
<1>6. /\ longer \in Seq(1 .. MaxLines) /\ Len(longer) = Len(Lines(f)) + 1 /\ Len(Lines(f)) \in Nat
      /\ \A a \in 1 .. Len(Lines(f)) : longer[a] = Lines(f)[a]
      /\ longer[Len(Lines(f)) + 1] = line
      /\ Elems(longer) = Elems(Lines(f)) \cup {line}
  <2>1. /\ longer \in Seq(1 .. MaxLines) /\ Len(longer) = Len(Lines(f)) + 1
        /\ \A a \in 1 .. Len(Lines(f)) : longer[a] = Lines(f)[a]
        /\ longer[Len(Lines(f)) + 1] = line
    BY <1>4, <1>5, AppendProperties
  <2>2. PICK S : S = 1 .. MaxLines
    OBVIOUS
  <2>3. Lines(f) \in Seq(S) /\ line \in S
    BY <1>3, <1>4, <2>2
  <2>4. Elems(Append(Lines(f), line)) = Elems(Lines(f)) \cup {line}
    BY <2>3, AppendElems
  <2> QED BY <1>4, <1>5, <2>1, <2>4
<1>7. /\ data' \in Seq(Seq(1 .. MaxLines)) /\ DOMAIN data' = DOMAIN data /\ data'[fd] = longer
      /\ \A i \in DOMAIN data : i # fd => data'[i] = data[i]
  <2>1. data' = [data EXCEPT ![fd] = longer]
    BY <1>1, <1>3, <1>4, <1>5
  <2> QED BY <1>4, <1>6, <2>1
<1>8. Lines(f)' = longer /\ \A n \in DOMAIN dir : n # f => Lines(n)' = Lines(n)
  BY <1>1, <1>2, <1>7, FileFacts DEF Lines
<1>9. Elems(Lines(f))' = Elems(Lines(f)) \cup {line}
      /\ \A n \in DOMAIN dir : n # f => Elems(Lines(n))' = Elems(Lines(n))
  BY <1>6, <1>8 DEF Elems
<1>10. Types'
  <2>1. written' \in 0 .. MaxLines
    BY <1>1, <1>4, LogAssumption
  <2> QED BY <1>1, <1>7, <2>1, IInvTypes DEF Types
<1>11. FilesInv'
  <2>1. /\ \A m, n \in DOMAIN dir : dir[m] = dir[n] => m = n
        /\ \A i \in DOMAIN data : Elems(data[i]) \subseteq 1 .. written
    BY DEF IInv, FilesInv
  <2>2. \A i \in DOMAIN data' : Elems(data[i])' \subseteq 1 .. written'
    <3>1. \A i \in DOMAIN data : i # fd => Elems(data[i])' = Elems(data[i])
      BY <1>7 DEF Elems
    <3>2. Elems(data[fd])' = Elems(data[fd]) \cup {line}
      <4>1. Elems(data[fd])' = Elems(longer)
        BY <1>1, <1>7 DEF Elems
      <4> QED BY <1>4, <1>6, <4>1
    <3>3. 1 .. written \subseteq 1 .. written' /\ line \in 1 .. written'
      BY <1>1, <1>3, <1>4
    <3>4. ASSUME NEW i \in DOMAIN data PROVE Elems(data[i])' \subseteq 1 .. written'
      <4>1. CASE i = fd
        <5>1. Elems(data[i])' = Elems(data[fd])'
          BY <1>1, <4>1 DEF Elems
        <5> QED BY <1>4, <2>1, <3>2, <3>3, <5>1
      <4>2. CASE i # fd
        BY <2>1, <3>1, <3>3, <4>2
      <4> QED BY <4>1, <4>2
    <3> QED BY <1>7, <3>4
  <2>3. Elems(nums)' = Elems(nums)
    BY <1>1 DEF Elems
  <2>4. phase = "rename" => TooLong'
    <3>1. Len(longer) >= Len(data[fd])
      BY <1>4, <1>6
    <3>2. phase = "rename" => Len(data[fd]) >= Limit
      BY DEF IInv, FilesInv, TooLong
    <3> QED BY <1>1, <1>4, <1>6, <1>7, <3>1, <3>2, LogAssumption DEF TooLong
  <2>5. phase = "dup" => 0 \in DOMAIN dir /\ dir[0] = newfd /\ data'[newfd] = <<>>
    <3> SUFFICES ASSUME phase = "dup"
                 PROVE  0 \in DOMAIN dir /\ dir[0] = newfd /\ data'[newfd] = <<>>
      OBVIOUS
    <3>1. 0 \in DOMAIN dir /\ dir[0] = newfd /\ data[newfd] = <<>> /\ 1 \in DOMAIN dir /\ fd = dir[1]
      BY DEF IInv, FilesInv
    <3>2. newfd # fd /\ newfd \in DOMAIN data
      BY <2>1, <3>1, FileFacts
    <3> QED BY <1>7, <3>1, <3>2
  <2>6. /\ phase # "rename" => nums = <<>>
        /\ Elems(nums) \subseteq DOMAIN dir \ {0}
        /\ \A i, j \in 1 .. Len(nums) : i < j => nums[i] > nums[j]
        /\ phase \in {"init", "sleep", "rename"} => 0 \in DOMAIN dir /\ fd = dir[0]
        /\ phase \in {"open", "dup"} => 1 \in DOMAIN dir /\ fd = dir[1]
        /\ phase = "open" => 0 \notin DOMAIN dir
    BY DEF IInv, FilesInv
  <2> QED BY <1>1, <2>1, <2>2, <2>3, <2>4, <2>5, <2>6 DEF FilesInv
<1>12. NumbersInv' /\ PlacesInv'
  <2>1. Elems(nums)' = Elems(nums)
    BY <1>1 DEF Elems
  <2>2. CurrentLen' \in Nat /\ CurrentLen' <= CurrentLen + 1
    <3>1. CASE f = 0
      BY <1>1, <1>2, <1>4, <1>6, <1>8, <3>1 DEF CurrentLen
    <3>2. CASE f # 0
      <4>1. CurrentLen' = CurrentLen
        BY <1>1, <1>8, <3>2 DEF CurrentLen
      <4> QED BY <1>4, <4>1
    <3> QED BY <3>1, <3>2
  <2>3. \A n \in DOMAIN dir :
          /\ n + CurrentLen <= written + crashes + 1
          /\ phase # "rename" \/ n \in Elems(nums) \cup {0} => n + CurrentLen <= written + crashes
    BY DEF IInv, NumbersInv
  <2>4. \A n \in DOMAIN dir :
          /\ n + CurrentLen' <= (written + 1) + crashes + 1
          /\ phase # "rename" \/ n \in Elems(nums) \cup {0} => n + CurrentLen' <= (written + 1) + crashes
    BY <1>4, <2>2, <2>3
  <2> QED BY <1>1, <2>1, <2>4 DEF IInv, NumbersInv, PlacesInv
<1>13. NothingLost'
  <2> SUFFICES ASSUME failures = 0 PROVE NothingLost'
    BY <1>1 DEF NothingLost
  <2>1. /\ UNION {Elems(Lines(n)) : n \in DOMAIN dir} = 1 .. written
        /\ \A m, n \in DOMAIN dir :
             \A i \in 1 .. Len(Lines(m)), j \in 1 .. Len(Lines(n)) :
               m > n \/ (m = n /\ i < j) => Lines(m)[i] < Lines(n)[j]
    BY DEF IInv, NothingLost
  <2>2. UNION {Elems(Lines(n))' : n \in DOMAIN dir} = 1 .. written'
    <3>1. UNION {Elems(Lines(n))' : n \in DOMAIN dir} =
            (UNION {Elems(Lines(n)) : n \in DOMAIN dir}) \cup {line}
      <4>1. \A x : (\E n \in DOMAIN dir : x \in Elems(Lines(n))') <=>
                     (x = line \/ \E n \in DOMAIN dir : x \in Elems(Lines(n)))
        BY <1>9
      <4> QED BY <4>1
    <3>2. 1 .. written + 1 = (1 .. written) \cup {written + 1}
      BY <1>4
    <3> QED BY <1>1, <1>3, <2>1, <3>1, <3>2
  <2>3. ASSUME NEW m \in DOMAIN dir, NEW a \in 1 .. Len(Lines(m))
        PROVE  Lines(m)[a] <= written /\ Lines(m)[a] \in Nat
    <3>1. Lines(m)[a] \in Elems(Lines(m))
      BY DEF Elems
    <3>2. Lines(m)[a] \in 1 .. written
      BY <2>1, <3>1
    <3> QED BY <1>4, <3>2
  <2>4. ASSUME NEW m \in DOMAIN dir, NEW n \in DOMAIN dir,
               NEW a \in 1 .. Len(Lines(m)'), NEW b \in 1 .. Len(Lines(n)'), m > n \/ (m = n /\ a < b)
        PROVE  Lines(m)'[a] < Lines(n)'[b]
    <3>1. m \in Nat /\ n \in Nat /\ f \in Nat
      BY <1>4
    <3>2. CASE m # f /\ n # f
      BY <1>8, <2>1, <2>4, <3>2
    <3>3. CASE n = f
      <4>1. a \in 1 .. Len(Lines(m)) /\ Lines(m)'[a] = Lines(m)[a]
        <5>1. CASE m = f
          <6>1. a < b /\ b \in 1 .. Len(Lines(f)) + 1
            BY <1>6, <1>8, <2>4, <3>1, <3>3, <5>1
          <6>2. a \in 1 .. Len(Lines(f))
            BY <1>6, <6>1
          <6> QED BY <1>6, <1>8, <5>1, <6>2
        <5>2. CASE m # f
          BY <1>8, <5>2
        <5> QED BY <5>1, <5>2
      <4>2. CASE b = Len(Lines(f)) + 1
        <5>1. Lines(n)'[b] = line
          BY <1>6, <1>8, <3>3, <4>2
        <5> QED BY <1>3, <1>4, <2>3, <4>1, <5>1
      <4>3. CASE b # Len(Lines(f)) + 1
        <5>1. b \in 1 .. Len(Lines(f)) /\ Lines(n)'[b] = Lines(f)[b]
          BY <1>6, <1>8, <3>3, <4>3
        <5> QED BY <2>1, <2>4, <3>3, <4>1, <5>1
      <4> QED BY <4>2, <4>3
    <3>4. CASE m = f /\ n # f
      <4>1. n < f
        BY <2>4, <3>1, <3>4
      <4>2. Len(Lines(n)) = 0 /\ b \in 1 .. Len(Lines(n))
        BY <1>2, <1>8, <3>4, <4>1
      <4> QED BY <4>2
    <3> QED BY <3>2, <3>3, <3>4
  <2> QED BY <1>1, <2>2, <2>4 DEF NothingLost
<1> QED BY <1>10, <1>11, <1>12, <1>13 DEF Kept

LEMMA BootingType == IInv /\ [Next]_vars => booting' \in BOOLEAN
<1> SUFFICES ASSUME booting \in BOOLEAN, [Next]_vars PROVE booting' \in BOOLEAN
  BY Zenon DEF IInv, TypeOK
<1>1. CASE LoggerThread
  <2>1. CASE OpenLog \/ StartThread \/ Dup
    BY <2>1, Zenon DEF OpenLog, StartThread, Dup
  <2>2. CASE ListFiles \/ ListingFails \/ RenameNext \/ RenameFails
    BY <2>2, Zenon DEF ListFiles, ListingFails, RenameNext, RenameFails
  <2>3. CASE RenameCurrent \/ RenameCurrentFails \/ OpenNew \/ OpenNewFails
    BY <2>3, Zenon DEF RenameCurrent, RenameCurrentFails, OpenNew, OpenNewFails, Ends
  <2> QED BY <1>1, <2>1, <2>2, <2>3 DEF LoggerThread
<1>2. CASE WriteLine \/ Crash
  BY <1>2, Zenon DEF WriteLine, Crash, Ends
<1>3. CASE UNCHANGED vars
  BY <1>3, Zenon DEF vars
<1> QED BY <1>1, <1>2, <1>3 DEF Next

LEMMA SameKept ==
  ASSUME IInv, UNCHANGED vars
  PROVE  Kept'
<1>1. /\ phase' = phase /\ booting' = booting /\ dir' = dir /\ data' = data /\ fd' = fd
      /\ nums' = nums /\ newfd' = newfd /\ written' = written /\ crashes' = crashes
      /\ failures' = failures
  BY DEF vars, disk, bounded
<1>2. Types'
  BY <1>1, IInvTypes DEF Types
<1>3. FilesInv'
  BY <1>1 DEF IInv, FilesInv, Elems, TooLong, Lines
<1>4. PlacesInv'
  BY <1>1 DEF IInv, PlacesInv, Elems
<1>5. CurrentLen' = CurrentLen /\ NothingLost'
  BY SameFiles, IInvTypes, LogAssumption DEF vars, disk, bounded, Types
<1>6. NumbersInv'
  BY <1>5 DEF vars, disk, bounded, IInv, NumbersInv, Elems
<1> QED BY <1>2, <1>3, <1>4, <1>5, <1>6 DEF Kept

LEMMA NextIInv == IInv /\ [Next]_vars => IInv'
<1> SUFFICES ASSUME IInv, [Next]_vars PROVE IInv'
  OBVIOUS
<1>1. Kept'
  <2>1. CASE LoggerThread
    BY <2>1, OpenLogKept, StartThreadKept, ListFilesKept, RenameNextKept, RenameFailsKept,
       RenameCurrentKept, OpenNewKept, DupKept, EndsKept
       DEF LoggerThread, RenameCurrentFails, OpenNewFails
  <2>2. CASE WriteLine
    BY <2>2, WriteLineKept
  <2>3. CASE Crash
    BY <2>3, EndsKept DEF Crash
  <2>4. CASE UNCHANGED vars
    BY <2>4, SameKept
  <2> QED BY <2>1, <2>2, <2>3, <2>4 DEF Next
<1>2. booting' \in BOOLEAN
  BY BootingType
<1>3. TypeOK'
  BY <1>1, <1>2, Zenon DEF Kept, Types, TypeOK
<1> QED BY <1>1, <1>3 DEF IInv, Kept

\* The inductive invariant holds in every reachable state.
THEOREM IInvHolds == Spec => []IInv
BY InitIInv, NextIInv, PTL DEF Spec

\* The types, that the current log file is there whenever the logger sleeps, and
\* that the numbers of the files grow with the lines and the restarts only.
THEOREM TypeCorrect == Spec => []TypeOK
BY IInvHolds, PTL DEF IInv

\* Unless a listing or the rename of a numbered file fails, the directory holds
\* every line once and in order, also while rotate renames and after a crash
\* between any two of its calls.
THEOREM NothingLostHolds == Spec => []NothingLost
BY IInvHolds, PTL DEF IInv

\* No step between two rotations changes a numbered file.
LEMMA NumberedFilesStep ==
  ASSUME IInv, [Next]_vars, phase = "sleep", NEW n \in DOMAIN dir \ {0}
  PROVE  data'[dir[n]] = data[dir[n]]
<1>1. 0 \in DOMAIN dir /\ fd = dir[0] /\ dir[n] # fd
  BY DEF IInv, FilesInv
<1>2. dir[n] \in DOMAIN data
  BY FileFacts
<1>3. CASE WriteLine
  BY <1>1, <1>2, <1>3 DEF WriteLine
<1>4. CASE UNCHANGED data
  BY <1>4
<1>5. CASE LoggerThread
  BY <1>4, <1>5 DEF LoggerThread, OpenLog, StartThread, ListFiles, ListingFails, RenameNext, RenameFails,
     RenameCurrent, RenameCurrentFails, OpenNew, OpenNewFails, Dup, disk
<1>6. CASE Crash
  BY <1>4, <1>6 DEF Crash, Ends, disk
<1>7. CASE UNCHANGED vars
  BY <1>4, <1>7 DEF vars, disk
<1> QED BY <1>3, <1>5, <1>6, <1>7 DEF Next

\* A line never goes to a file that was rotated away before the last rotation began:
\* between two rotations only the current file grows.
THEOREM NumberedFilesAreFinalHolds == Spec => NumberedFilesAreFinal
<1>1. IInv /\ [Next]_vars =>
        [phase = "sleep" => \A n \in DOMAIN dir \ {0} : data'[dir[n]] = data[dir[n]]]_vars
  BY NumberedFilesStep
<1> QED BY <1>1, IInvHolds, PTL DEF Spec, NumberedFilesAreFinal
==============================================================================
