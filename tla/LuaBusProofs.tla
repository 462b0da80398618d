----------------------------- MODULE LuaBusProofs ------------------------------
(***************************************************************************)
(* Theorems about LuaBus, for any detectors, any sleeps and any clock: a    *)
(* second of any number of ticks, polls of any length up to a second.       *)
(***************************************************************************)
EXTENDS LuaBus, SequenceTheorems, FiniteSetTheorems, TLAPS

TypeOK ==
  /\ now \in Nat
  /\ opened \in BOOLEAN
  /\ detectors \in Seq(Detectors)
  /\ pc \in {"idle", "test", "recv", "dispatch"}
  /\ sleeping \in BOOLEAN
  /\ deadline \in Nat /\ began \in Nat /\ asked \in Nat
  /\ i \in Nat /\ moved \in Nat

(* The detectors that ipairs() has passed and that were not called, ...     *)
Missed == {detectors[k] : k \in {n \in DOMAIN detectors : n <= i}} \ called

(* ... and how many more it will pass, as they are added, because it is     *)
(* beyond the end of a list that got shorter.                               *)
Beyond == IF i > Len(detectors) THEN i - Len(detectors) ELSE 0

(* Each of both is owed to a removal of its own.                            *)
CalledSoFar ==
  pc = "dispatch" => IsFiniteSet(Missed) /\ Cardinality(Missed) + Beyond <= moved

(* A sleep polls only before its deadline, which is asked seconds after the *)
(* second in which it began, so that it is at most one poll late when it    *)
(* looks at the clock again.                                                *)
SleepInv ==
  /\ pc = "test" => sleeping
  /\ sleeping /\ pc # "idle" =>
       /\ deadline = began \div Second + asked
       /\ IF pc = "recv" THEN now < deadline * Second
                         ELSE now - began < asked * Second + Poll

Inv == TypeOK /\ CalledSoFar /\ SleepInv

-------------------------------------------------------------------------------
(* What is left when the element at n is taken out.                         *)
LEMMA RemovedAt ==
  ASSUME NEW S, NEW s \in Seq(S), NEW n \in 1..Len(s)
  PROVE  /\ RemoveAt(s, n) \in Seq(S)
         /\ Len(RemoveAt(s, n)) = Len(s) - 1
         /\ \A j \in 1..(Len(s) - 1) :
              RemoveAt(s, n)[j] = IF j < n THEN s[j] ELSE s[j + 1]
<1> DEFINE u == SubSeq(s, 1, n - 1)
           v == SubSeq(s, n + 1, Len(s))
<1>1. Len(s) \in Nat /\ n \in 1..Len(s)
  OBVIOUS
<1>2. u \in Seq(S) /\ Len(u) = n - 1 /\ \A j \in 1..(n - 1) : u[j] = s[j]
  BY <1>1, SubSeqProperties
<1>3. v \in Seq(S) /\ Len(v) = Len(s) - n /\ \A j \in 1..(Len(s) - n) : v[j] = s[j + n]
  BY <1>1, SubSeqProperties
<1>4. RemoveAt(s, n) = u \o v
  BY DEF RemoveAt
<1> HIDE DEF u, v
<1>5. /\ u \o v \in Seq(S) /\ Len(u \o v) = Len(u) + Len(v)
      /\ \A j \in 1..(Len(u) + Len(v)) : (u \o v)[j] = IF j <= Len(u) THEN u[j] ELSE v[j - Len(u)]
  BY <1>2, <1>3, ConcatProperties
<1> QED
  BY <1>1, <1>2, <1>3, <1>4, <1>5

(* A finite set and a part of it, or of it with one more element.           *)
LEMMA Fewer ==
  ASSUME NEW S, NEW T, IsFiniteSet(S), T \subseteq S
  PROVE  /\ IsFiniteSet(T) /\ Cardinality(T) <= Cardinality(S)
         /\ Cardinality(S) \in Nat /\ Cardinality(T) \in Nat
  BY FS_Subset, FS_CardinalityType

LEMMA OneMore ==
  ASSUME NEW S, NEW T, NEW x, IsFiniteSet(S), T \subseteq S \cup {x}
  PROVE  /\ IsFiniteSet(T) /\ Cardinality(T) <= Cardinality(S) + 1
         /\ Cardinality(S) \in Nat /\ Cardinality(T) \in Nat
<1>1. /\ IsFiniteSet(S \cup {x}) /\ Cardinality(S) \in Nat
      /\ Cardinality(S \cup {x}) \in {Cardinality(S), Cardinality(S) + 1}
  BY FS_AddElement, FS_CardinalityType
<1>2. IsFiniteSet(T) /\ Cardinality(T) <= Cardinality(S \cup {x}) /\ Cardinality(T) \in Nat
  BY <1>1, Fewer
<1> QED
  BY <1>1, <1>2

(* The whole seconds of a time. *)
LEMMA WholeSeconds ==
  ASSUME NEW t \in Nat
  PROVE  /\ t \div Second \in Nat
         /\ (t \div Second) * Second <= t
         /\ t < (t \div Second) * Second + Second
  BY LuaBusAssumption

(* A deadline in ticks. *)
LEMMA DeadlineTicks ==
  ASSUME TypeOK, deadline = began \div Second + asked
  PROVE  /\ deadline * Second = (began \div Second) * Second + asked * Second
         /\ deadline * Second \in Nat /\ asked * Second \in Nat
         /\ deadline * Second <= began + asked * Second
         /\ deadline * Second > began + asked * Second - Second
<1> DEFINE b == began \div Second
<1>1. began \in Nat /\ asked \in Nat /\ Second \in Nat
  BY LuaBusAssumption DEF TypeOK
<1>2. b \in Nat /\ b * Second \in Nat /\ b * Second <= began /\ began < b * Second + Second
  BY <1>1, WholeSeconds
<1>3. deadline = b + asked
  OBVIOUS
<1> HIDE DEF b
<1>4. (b + asked) * Second = b * Second + asked * Second /\ asked * Second \in Nat
  BY <1>1, <1>2
<1> QED
  BY <1>1, <1>2, <1>3, <1>4 DEF b

(* The clock has reached a second exactly if it has reached its ticks. *)
LEMMA ReachedSecond ==
  ASSUME NEW t \in Nat, NEW s \in Nat
  PROVE  t \div Second < s <=> t < s * Second
<1> DEFINE n == t \div Second
<1>1. Second \in Nat \ {0}
  BY LuaBusAssumption
<1>2. n \in Nat /\ n * Second <= t /\ t < n * Second + Second
  BY WholeSeconds
<1> HIDE DEF n
<1>3. CASE n < s
  <2>1. s - (n + 1) \in Nat /\ (s - (n + 1)) * Second \in Nat
    BY <1>1, <1>2, <1>3
  <2>2. s * Second = n * Second + Second + (s - (n + 1)) * Second
    BY <1>1, <1>2
  <2> QED
    BY <1>1, <1>2, <1>3, <2>1, <2>2 DEF n
<1>4. CASE ~(n < s)
  <2>1. n - s \in Nat /\ (n - s) * Second \in Nat
    BY <1>1, <1>2, <1>4
  <2>2. n * Second = s * Second + (n - s) * Second
    BY <1>1, <1>2
  <2> QED
    BY <1>1, <1>2, <1>4, <2>1, <2>2 DEF n
<1> QED
  BY <1>3, <1>4

-------------------------------------------------------------------------------
(* The steps. *)

LEMMA InitInv == Init => Inv
<1> SUFFICES ASSUME Init PROVE Inv
  OBVIOUS
<1>1. now \in Nat /\ <<>> \in Seq(Detectors)
  BY LuaBusAssumption DEF Init
<1>2. TypeOK
  BY <1>1 DEF Init, TypeOK
<1> QED
  BY <1>2 DEF Init, Inv, CalledSoFar, SleepInv

LEMMA TypeStep == TypeOK /\ [Next]_vars => TypeOK'
<1> SUFFICES ASSUME TypeOK, [Next]_vars PROVE TypeOK'
  OBVIOUS
<1> USE LuaBusAssumption DEF TypeOK, clock, sleep, dispatch
<1>1. CASE Open \/ Close \/ PollCall \/ Raise \/ SleepTest
  BY <1>1 DEF Open, Close, PollCall, Raise, SleepTest, TestUnless
<1>2. ASSUME NEW d \in Detectors, add_detector(d)
      PROVE  TypeOK'
  <2>1. detectors' \in Seq(Detectors)
    BY <1>2 DEF add_detector, AddTo
  <2> QED
    BY <1>2, <2>1 DEF add_detector, AddTo
<1>3. ASSUME NEW d \in Detectors, remove_detector(d)
      PROVE  TypeOK'
  <2>1. PICK k \in 1..Len(detectors) :
          /\ detectors' = RemoveAt(detectors, k)
          /\ moved' = IF pc = "dispatch" /\ k <= i THEN moved + 1 ELSE moved
    BY <1>3 DEF remove_detector
  <2>2. detectors' \in Seq(Detectors)
    BY <2>1, RemovedAt
  <2>3. moved' \in Nat
    BY <2>1
  <2> QED
    BY <1>3, <2>2, <2>3 DEF remove_detector
<1>4. ASSUME NEW t \in 0..Poll, RecvFrame(t)
      PROVE  TypeOK'
  BY <1>4 DEF RecvFrame, Elapse
<1>5. CASE RecvTimeout
  BY <1>5 DEF RecvTimeout, Elapse, PollDone
<1>6. CASE CallDetector
  BY <1>6 DEF CallDetector
<1>7. CASE Dispatched
  BY <1>7 DEF Dispatched, PollDone
<1>8. ASSUME NEW s \in Sleeps, SleepCall(s)
      PROVE  TypeOK'
  <2>1. s \in Nat /\ os_time \in Nat
    BY WholeSeconds DEF os_time
  <2> QED
    BY <1>8, <2>1 DEF SleepCall
<1>9. CASE UNCHANGED vars
  BY <1>9 DEF vars
<1> QED
  BY <1>1, <1>2, <1>3, <1>4, <1>5, <1>6, <1>7, <1>8, <1>9 DEF Next

(* What is owed, c + b of it now and d + a next, stays covered by m and o:  *)
(* if c does not grow, or by one.                                           *)
LEMMA StillCovered ==
  ASSUME NEW c \in Nat, NEW d \in Nat, NEW b \in Nat, NEW a \in Nat,
         NEW m \in Nat, NEW o \in Nat,
         c + b <= m,
         \/ d <= c /\ a - b <= o - m
         \/ d <= c + 1 /\ a - b + 1 <= o - m
  PROVE  d + a <= o
  OBVIOUS

LEMMA CalledStep == TypeOK /\ CalledSoFar /\ [Next]_vars => CalledSoFar'
<1> SUFFICES ASSUME TypeOK, CalledSoFar, [Next]_vars, pc' = "dispatch"
             PROVE  IsFiniteSet(Missed') /\ Cardinality(Missed') + Beyond' <= moved'
  BY DEF CalledSoFar
<1> DEFINE n == Len(detectors)
<1> USE DEF clock, sleep, dispatch
<1>0. /\ n \in Nat /\ DOMAIN detectors = 1..n /\ detectors \in Seq(Detectors)
      /\ i \in Nat /\ moved \in Nat
  BY DEF TypeOK
<1>11. moved \in Nat
  BY DEF TypeOK
<1>12. Beyond = IF i > n THEN i - n ELSE 0
  BY DEF Beyond
(* Fewer have been missed, or as many, ... *)
<1>1. ASSUME pc = "dispatch", Missed' \subseteq Missed, Beyond' - Beyond <= moved' - moved,
             Beyond' \in Nat, moved' \in Nat
      PROVE  IsFiniteSet(Missed') /\ Cardinality(Missed') + Beyond' <= moved'
  <2>1. IsFiniteSet(Missed) /\ Cardinality(Missed) + Beyond <= moved /\ Beyond \in Nat
    BY <1>0, <1>1 DEF CalledSoFar, Beyond
  <2>2. /\ IsFiniteSet(Missed') /\ Cardinality(Missed') <= Cardinality(Missed)
        /\ Cardinality(Missed) \in Nat /\ Cardinality(Missed') \in Nat
    BY <1>1, <2>1, Fewer
  <2>3. Cardinality(Missed') + Beyond' <= moved'
    BY <1>1, <1>11, <2>1, <2>2, StillCovered, Zenon
  <2> QED
    BY <2>2, <2>3
(* ... or one more. *)
<1>2. ASSUME NEW x, pc = "dispatch", Missed' \subseteq Missed \cup {x},
             Beyond' - Beyond + 1 <= moved' - moved, Beyond' \in Nat, moved' \in Nat
      PROVE  IsFiniteSet(Missed') /\ Cardinality(Missed') + Beyond' <= moved'
  <2>1. IsFiniteSet(Missed) /\ Cardinality(Missed) + Beyond <= moved /\ Beyond \in Nat
    BY <1>0, <1>2 DEF CalledSoFar, Beyond
  <2>2. /\ IsFiniteSet(Missed') /\ Cardinality(Missed') <= Cardinality(Missed) + 1
        /\ Cardinality(Missed) \in Nat /\ Cardinality(Missed') \in Nat
    BY <1>2, <2>1, OneMore
  <2>3. Cardinality(Missed') + Beyond' <= moved'
    BY <1>2, <1>11, <2>1, <2>2, StillCovered, Zenon
  <2> QED
    BY <2>2, <2>3
<1>3. CASE UNCHANGED <<pc, detectors, dispatch>>
  BY <1>0, <1>1, <1>3 DEF Missed, Beyond
<1>4. CASE Open \/ Close \/ PollCall \/ Raise \/ RecvTimeout \/ Dispatched \/ SleepTest
  BY <1>3, <1>4
     DEF Open, Close, PollCall, Raise, RecvTimeout, Dispatched, SleepTest, TestUnless, PollDone
<1>5. ASSUME NEW d \in Detectors, add_detector(d)
      PROVE  IsFiniteSet(Missed') /\ Cardinality(Missed') + Beyond' <= moved'
  <2>1. /\ pc = "dispatch" /\ UNCHANGED <<i, called, moved>>
        /\ detectors' = Append(detectors, d)
    BY <1>5 DEF add_detector, AddTo
  <2>2. /\ Len(detectors') = n + 1 /\ DOMAIN detectors' = 1..(n + 1)
        /\ detectors'[n + 1] = d /\ \A k \in 1..n : detectors'[k] = detectors[k]
    BY <1>0, <2>1
  <2>5. Beyond' = IF i > n + 1 THEN i - (n + 1) ELSE 0
    BY <2>1, <2>2 DEF Beyond
  <2> HIDE DEF n
  <2>3. CASE i > n
    <3>1. Missed' \subseteq Missed \cup {d}
      BY <1>0, <2>1, <2>2 DEF Missed
    <3>2. Beyond = i - n /\ Beyond' = i - n - 1 /\ i - n - 1 \in Nat
      BY <1>0, <1>12, <2>5, <2>3
    <3>3. Beyond' - Beyond + 1 <= moved' - moved /\ Beyond' \in Nat /\ moved' \in Nat
      BY <1>0, <2>1, <3>2
    <3> QED
      BY <1>2, <2>1, <3>1, <3>3
  <2>4. CASE i <= n
    <3>1. Missed' \subseteq Missed
      BY <1>0, <2>1, <2>2, <2>4 DEF Missed
    <3>2. Beyond = 0 /\ Beyond' = 0
      BY <1>0, <1>12, <2>5, <2>4
    <3>3. Beyond' - Beyond <= moved' - moved /\ Beyond' \in Nat /\ moved' \in Nat
      BY <1>0, <2>1, <3>2
    <3> QED
      BY <1>1, <2>1, <3>1, <3>3
  <2> QED
    BY <1>0, <2>3, <2>4
<1>6. ASSUME NEW d \in Detectors, remove_detector(d)
      PROVE  IsFiniteSet(Missed') /\ Cardinality(Missed') + Beyond' <= moved'
  <2>1. PICK r \in 1..n :
          /\ detectors' = RemoveAt(detectors, r)
          /\ moved' = IF r <= i THEN moved + 1 ELSE moved
          /\ pc = "dispatch" /\ UNCHANGED <<i, called>>
    BY <1>0, <1>6 DEF remove_detector
  <2>2. /\ Len(detectors') = n - 1 /\ DOMAIN detectors' = 1..(n - 1)
        /\ \A k \in 1..(n - 1) :
             detectors'[k] = IF k < r THEN detectors[k] ELSE detectors[k + 1]
    <3>1. /\ RemoveAt(detectors, r) \in Seq(Detectors) /\ Len(RemoveAt(detectors, r)) = n - 1
          /\ \A k \in 1..(n - 1) :
               RemoveAt(detectors, r)[k] = IF k < r THEN detectors[k] ELSE detectors[k + 1]
      BY <1>0, RemovedAt
    <3> QED
      BY <1>0, <2>1, <3>1
  <2>8. Beyond' = IF i > n - 1 THEN i - (n - 1) ELSE 0
    BY <2>1, <2>2 DEF Beyond
  <2> HIDE DEF n
  <2>3. r \in Nat /\ r <= n /\ n - 1 \in Nat /\ moved' \in Nat
    BY <1>0, <2>1
  (* A detector that has been passed was passed before, or moved up to i. *)
  <2>4. ASSUME NEW k \in 1..(n - 1), k <= i
        PROVE  \E m \in 1..n : detectors'[k] = detectors[m] /\ (m <= i \/ (m = i + 1 /\ r <= i))
    <3>1. CASE k < r
      BY <1>0, <2>2, <2>4, <3>1
    <3>2. CASE ~(k < r)
      <4>1. k + 1 \in 1..n /\ detectors'[k] = detectors[k + 1]
        BY <1>0, <2>2, <2>3, <3>2
      <4>2. k + 1 <= i \/ (k + 1 = i + 1 /\ r <= i)
        BY <1>0, <2>3, <2>4, <3>2
      <4> QED
        BY <4>1, <4>2
    <3> QED
      BY <3>1, <3>2
  <2>5. CASE r <= i /\ i < n
    <3>1. Missed' \subseteq Missed \cup {detectors[i + 1]}
      <4>1. \A k \in 1..(n - 1) : k <= i =>
              \E m \in 1..n : detectors'[k] = detectors[m] /\ (m <= i \/ m = i + 1)
        BY <2>4
      <4>2. ASSUME NEW x \in Missed'
            PROVE  x \in Missed \cup {detectors[i + 1]}
        <5>1. PICK k \in 1..(n - 1) : k <= i /\ x = detectors'[k] /\ x \notin called
          BY <2>1, <2>2, <4>2 DEF Missed
        <5>2. PICK m \in 1..n : x = detectors[m] /\ (m <= i \/ m = i + 1)
          BY <4>1, <5>1
        <5> QED
          BY <1>0, <5>1, <5>2 DEF Missed
      <4> QED
        BY <4>2
    <3>2. Beyond = 0 /\ Beyond' = 0 /\ moved' = moved + 1
      BY <1>0, <1>12, <2>1, <2>3, <2>5, <2>8
    <3>3. Beyond' - Beyond + 1 <= moved' - moved /\ Beyond' \in Nat
      BY <1>0, <3>2
    <3> QED
      BY <1>2, <2>1, <2>3, <3>1, <3>3
  <2>6. CASE r <= i /\ ~(i < n)
    <3>1. Missed' \subseteq Missed
      <4>1. \A k \in 1..(n - 1) : \E m \in 1..n : detectors'[k] = detectors[m] /\ m <= i
        BY <1>0, <2>4, <2>6
      <4> QED
        BY <1>0, <2>1, <2>2, <4>1 DEF Missed
    <3>2. Beyond = i - n /\ Beyond' = i - n + 1 /\ moved' = moved + 1 /\ i - n + 1 \in Nat
      BY <1>0, <1>12, <2>1, <2>3, <2>6, <2>8
    <3>3. Beyond' - Beyond <= moved' - moved /\ Beyond' \in Nat
      BY <1>0, <3>2
    <3> QED
      BY <1>1, <2>1, <2>3, <3>1, <3>3
  <2>7. CASE ~(r <= i)
    <3>1. Missed' \subseteq Missed
      <4>1. \A k \in 1..(n - 1) : k <= i => \E m \in 1..n : detectors'[k] = detectors[m] /\ m <= i
        BY <1>0, <2>4, <2>7
      <4> QED
        BY <1>0, <2>1, <2>2, <4>1 DEF Missed
    <3>2. Beyond = 0 /\ Beyond' = 0 /\ moved' = moved
      BY <1>0, <1>12, <2>1, <2>3, <2>7, <2>8
    <3>3. Beyond' - Beyond <= moved' - moved /\ Beyond' \in Nat
      BY <1>0, <3>2
    <3> QED
      BY <1>1, <2>1, <2>3, <3>1, <3>3
  <2> QED
    BY <2>5, <2>6, <2>7
<1>7. ASSUME NEW t \in 0..Poll, RecvFrame(t)
      PROVE  IsFiniteSet(Missed') /\ Cardinality(Missed') + Beyond' <= moved'
  <2>1. i' = 0 /\ moved' = 0 /\ detectors' = detectors
    BY <1>7 DEF RecvFrame
  <2>2. Missed' = {}
    BY <1>0, <2>1 DEF Missed
  <2>3. Beyond' = 0
    BY <1>0, <2>1 DEF Beyond
  <2> QED
    BY <2>1, <2>2, <2>3, FS_EmptySet
<1>8. CASE CallDetector
  <2>1. /\ pc = "dispatch" /\ i + 1 \in 1..n /\ i' = i + 1
        /\ called' = called \cup {detectors[i + 1]} /\ UNCHANGED <<detectors, moved>>
    BY <1>0, <1>8 DEF CallDetector
  <2>4. Beyond' = IF i + 1 > n THEN i + 1 - n ELSE 0
    BY <2>1 DEF Beyond
  <2> HIDE DEF n
  <2>2. Missed' \subseteq Missed
    BY <1>0, <2>1 DEF Missed
  <2>3. Beyond = 0 /\ Beyond' = 0
    BY <1>0, <1>12, <2>1, <2>4
  <2>5. Beyond' - Beyond <= moved' - moved /\ Beyond' \in Nat /\ moved' \in Nat
    BY <1>0, <2>1, <2>3
  <2> QED
    BY <1>1, <2>1, <2>2, <2>5
<1>9. ASSUME NEW s \in Sleeps, SleepCall(s)
      PROVE  FALSE
  BY <1>9 DEF SleepCall
<1>10. CASE UNCHANGED vars
  BY <1>3, <1>10 DEF vars
<1> QED
  BY <1>4, <1>5, <1>6, <1>7, <1>8, <1>9, <1>10 DEF Next

LEMMA SleepStep == TypeOK /\ SleepInv /\ [Next]_vars => SleepInv'
<1> SUFFICES ASSUME TypeOK, SleepInv, [Next]_vars PROVE SleepInv'
  OBVIOUS
<1> USE DEF SleepInv, clock, sleep, dispatch
<1>1. CASE Open \/ Close
  BY <1>1 DEF Open, Close
<1>2. ASSUME NEW d \in Detectors, add_detector(d) \/ remove_detector(d)
      PROVE  SleepInv'
  BY <1>2 DEF add_detector, AddTo, remove_detector
<1>3. CASE PollCall \/ Raise
  BY <1>3 DEF PollCall, Raise
(* A poll of a sleep ends no later than Poll after the deadline.            *)
<1>4. ASSUME NEW t \in 0..Poll, pc = "recv", Elapse(t), UNCHANGED sleep,
             pc' = "dispatch" \/ PollDone
      PROVE  SleepInv'
  <2>1. CASE sleeping
    <3>1. /\ now \in Nat /\ began \in Nat /\ t \in Nat /\ Poll \in Nat /\ t <= Poll
          /\ deadline = began \div Second + asked
          /\ now < deadline * Second
          /\ now' = now + t
      BY <1>4, <2>1, LuaBusAssumption DEF TypeOK, Elapse
    <3>2. deadline * Second <= began + asked * Second /\ deadline * Second \in Nat
          /\ asked * Second \in Nat
      BY <3>1, DeadlineTicks
    <3>3. now' - began < asked * Second + Poll
      BY <3>1, <3>2
    <3> QED
      BY <1>4, <2>1, <3>1, <3>3 DEF PollDone
  <2>2. CASE ~sleeping
    BY <1>4, <2>2 DEF PollDone
  <2> QED
    BY <2>1, <2>2
<1>5. ASSUME NEW t \in 0..Poll, RecvFrame(t)
      PROVE  SleepInv'
  BY <1>4, <1>5 DEF RecvFrame
<1>6. CASE RecvTimeout
  BY <1>4, <1>6, LuaBusAssumption DEF RecvTimeout
<1>7. CASE CallDetector
  BY <1>7 DEF CallDetector
<1>8. CASE Dispatched
  BY <1>8 DEF Dispatched, PollDone
<1>9. ASSUME NEW s \in Sleeps, SleepCall(s)
      PROVE  SleepInv'
  <2>1. /\ pc' = "test" /\ sleeping'
        /\ deadline' = now \div Second + s /\ began' = now /\ asked' = s /\ now' = now
    BY <1>9 DEF SleepCall, os_time
  <2>2. now - now < s * Second + Poll
    BY LuaBusAssumption DEF TypeOK
  <2> QED
    BY <2>1, <2>2
<1>10. CASE SleepTest
  <2>1. pc' = "recv" => now < deadline * Second
    <3>1. now \in Nat /\ deadline \in Nat /\ now \div Second \in Nat
      BY WholeSeconds DEF TypeOK
    <3>2. pc' = "recv" => now \div Second < deadline
      BY <1>10, <3>1 DEF SleepTest, TestUnless, os_time
    <3> QED
      BY <3>1, <3>2, ReachedSecond
  <2> QED
    BY <1>10, <2>1 DEF SleepTest, TestUnless
<1>11. CASE UNCHANGED vars
  BY <1>11 DEF vars
<1> QED
  BY <1>1, <1>2, <1>3, <1>5, <1>6, <1>7, <1>8, <1>9, <1>10, <1>11 DEF Next

LEMMA BusInvariant == Spec => []Inv
<1>1. Inv /\ [Next]_vars => Inv'
  BY TypeStep, CalledStep, SleepStep DEF Inv
<1> QED
  BY InitInv, <1>1, PTL DEF Spec

-------------------------------------------------------------------------------
(* poll() calls every registered detector, but for at most one per removal  *)
(* at or before the detector that ran: what else detectors do, adding       *)
(* others, closing the bus or removing what is still to come, skips none.   *)
THEOREM EveryDetectorCalled == Spec => AllCalled
<1>1. ASSUME Inv, Dispatched
      PROVE  Cardinality(Registered \ called) <= moved
  <2>1. /\ pc = "dispatch" /\ DOMAIN detectors = 1..Len(detectors) /\ Len(detectors) \in Nat
        /\ i \in Nat /\ moved \in Nat
    BY <1>1 DEF Dispatched, Inv, TypeOK
  <2>2. i >= Len(detectors)
    BY <1>1, <2>1 DEF Dispatched
  <2>3. Registered \ called \subseteq Missed
    BY <2>1, <2>2 DEF Registered, Missed
  <2>4. IsFiniteSet(Missed) /\ Cardinality(Missed) + Beyond <= moved /\ Beyond \in Nat
    BY <1>1, <2>1 DEF Inv, CalledSoFar, Beyond
  <2>5. /\ Cardinality(Registered \ called) <= Cardinality(Missed)
        /\ Cardinality(Missed) \in Nat /\ Cardinality(Registered \ called) \in Nat
    BY <2>3, <2>4, Fewer
  <2> HIDE DEF Missed, Beyond
  <2> QED
    BY <2>1, <2>4, <2>5
<1>2. Inv => [Dispatched => Cardinality(Registered \ called) <= moved]_vars
  BY <1>1
<1> QED
  BY <1>2, BusInvariant, PTL DEF AllCalled

(* sleep() returns less than a second before the time asked for, and less   *)
(* than a poll after it, though it knows only whole seconds and a busy bus  *)
(* ends its polls at any time.                                              *)
THEOREM SleepsAreAsAsked == Spec => SleepsAsAsked
<1> DEFINE Kept ==
      pc = "test" /\ pc' = "idle" /\ opened =>
        now - began > (asked - 1) * Second /\ now - began < asked * Second + Poll
<1>1. ASSUME Inv, [Next]_vars, pc = "test", pc' = "idle", opened
      PROVE  now - began > (asked - 1) * Second /\ now - began < asked * Second + Poll
  <2>1. SleepTest
    BY <1>1 DEF Next, Open, Close, UserCode, add_detector, AddTo, remove_detector, PollCall,
      RecvFrame, RecvTimeout, Raise, CallDetector, Dispatched, SleepCall, vars
  <2>2. /\ TypeOK
        /\ deadline = began \div Second + asked
        /\ now - began < asked * Second + Poll
    BY <1>1 DEF Inv, SleepInv
  <2>3. now \in Nat /\ began \in Nat /\ asked \in Nat /\ deadline \in Nat /\ Second \in Nat
    BY <2>2, LuaBusAssumption DEF TypeOK
  <2>4. ~(now \div Second < deadline)
    <3>1. now \div Second \in Nat
      BY <2>3, WholeSeconds
    <3> QED
      BY <1>1, <2>1, <2>3, <3>1 DEF SleepTest, TestUnless, os_time
  <2>5. ~(now < deadline * Second)
    BY <2>3, <2>4, ReachedSecond
  <2>6. /\ deadline * Second \in Nat /\ asked * Second \in Nat
        /\ deadline * Second > began + asked * Second - Second
    BY <2>2, DeadlineTicks
  <2>7. (asked - 1) * Second = asked * Second - Second
    BY <2>3
  <2> QED
    BY <2>2, <2>3, <2>5, <2>6, <2>7
<1>2. Inv /\ [Next]_vars => [Kept]_vars
  BY <1>1
<1> HIDE DEF Kept
<1>3. Spec => [][Kept]_vars
  BY <1>2, BusInvariant, PTL DEF Spec
<1> QED
  BY <1>3 DEF SleepsAsAsked, Kept
===============================================================================
