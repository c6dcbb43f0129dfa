--------------------------- MODULE SlotLoopsProofs ---------------------------
(* The loops of BULKMOV and CALL are SlotMove and SlotClear, for every     *)
(* array, every pair of ranges and every number of iterations.             *)
EXTENDS SlotLoops, Integers, TLAPS

(* Remainders, which say where an upward move repeats itself.              *)
LEMMA NoMultipleBetween ==
  ASSUME NEW k \in Int, NEW d \in Nat \ {0}, d * k < d, -d < d * k
  PROVE  k = 0
<1>1. CASE k >= 1
  <2>1. d * k >= d
    BY <1>1, Z3
  <2> QED
    BY <2>1
<1>2. CASE k <= -1
  <2>1. d * k <= -d
    BY <1>2, Z3
  <2> QED
    BY <2>1
<1> QED
  BY <1>1, <1>2

LEMMA RemainderBelow == ASSUME NEW n \in Nat, NEW d \in Nat \ {0}, n < d PROVE n % d = n
OBVIOUS

LEMMA RemainderShifts ==
  ASSUME NEW n \in Nat, NEW d \in Nat \ {0} PROVE (n + d) % d = n % d
<1> DEFINE q == n \div d
           r == n % d
           p == (n + d) \div d
           s == (n + d) % d
<1>1. q \in Int /\ r \in 0 .. d - 1 /\ n = d * q + r
  OBVIOUS
<1>2. p \in Int /\ s \in 0 .. d - 1 /\ n + d = d * p + s
  OBVIOUS
<1> HIDE DEF q, r, p, s
<1>3. d * (p - q - 1) = r - s
  BY <1>1, <1>2
<1>4. p - q - 1 = 0
  BY <1>1, <1>2, <1>3, NoMultipleBetween
<1>5. r = s
  BY <1>1, <1>2, <1>3, <1>4
<1> QED
  BY <1>5 DEF r, s

-----------------------------------------------------------------------------
(* One more iteration is one more word of the closed form.                 *)

LEMMA ClearStep ==
  ASSUME NEW s, IsSlots(s), NEW lo \in Nat, NEW k \in Nat
  PROVE  SlotClear(s, lo, lo + (k + 1)) = SlotSet(SlotClear(s, lo, lo + k), lo + k, NilCell)
<1> DEFINE m == SlotClear(s, lo, lo + k)
           l == SlotClear(s, lo, lo + (k + 1))
           r == SlotSet(m, lo + k, NilCell)
           n == LongerOf(s.size, lo + k + 1)
<1>1. s.size \in Nat
  BY DEF IsSlots
<1>2. m.size = (IF k = 0 THEN s.size ELSE LongerOf(s.size, lo + k)) /\ m.size \in Nat
  BY <1>1 DEF SlotClear, LongerOf
<1>3. LongerOf(m.size, lo + k + 1) = n /\ n \in Nat
  BY <1>1, <1>2 DEF LongerOf
<1>4. l = [size |-> n, data |-> [j \in 0 .. n - 1 |->
             IF j >= lo /\ j < lo + (k + 1) THEN NilCell
             ELSE IF j < s.size THEN s.data[j] ELSE NilCell]]
  <2>1. ~ (lo + (k + 1) <= lo) /\ lo + (k + 1) = lo + k + 1
    OBVIOUS
  <2> QED
    BY <2>1 DEF SlotClear
<1>5. r = [size |-> n, data |-> [j \in 0 .. n - 1 |->
             IF j = lo + k THEN NilCell
             ELSE IF j < m.size THEN m.data[j] ELSE NilCell]]
  BY <1>3 DEF SlotSet
<1>6. ASSUME NEW j \in 0 .. n - 1
      PROVE  (IF j >= lo /\ j < lo + (k + 1) THEN NilCell
              ELSE IF j < s.size THEN s.data[j] ELSE NilCell)
             = (IF j = lo + k THEN NilCell
                ELSE IF j < m.size THEN m.data[j] ELSE NilCell)
  <2>1. CASE j < m.size
    <3>1. m.data[j] = IF j >= lo /\ j < lo + k THEN NilCell
                      ELSE IF j < s.size THEN s.data[j] ELSE NilCell
      <4>1. j \in 0 .. m.size - 1
        BY <1>2, <1>3, <2>1
      <4> QED
        BY <1>2, <4>1 DEF SlotClear
    <3> HIDE DEF m
    <3> QED
      BY <1>1, <1>3, <2>1, <3>1
  <2>2. CASE j >= m.size
    <3> HIDE DEF m
    <3>1. j >= s.size
      BY <1>1, <1>2, <1>3, <2>2 DEF LongerOf
    <3> QED
      BY <1>1, <1>2, <1>3, <2>2, <3>1 DEF LongerOf
  <2> QED
    BY <1>2, <1>3, <2>1, <2>2
<1> HIDE DEF m, l, r, n
<1>7. l = r
  BY <1>4, <1>5, <1>6
<1> QED
  BY <1>7 DEF m, l, r

(* Where word k of a move comes from.                                      *)
Source(t, f, k) == IF t > f THEN f + (k % (t - f)) ELSE f + k

LEMMA SourceFacts ==
  ASSUME NEW t \in Nat, NEW f \in Nat, NEW k \in Nat
  PROVE  /\ Source(t, f, k) \in Nat
         /\ f + k < t \/ t <= f => Source(t, f, k) = f + k
         /\ t > f /\ f + k >= t =>
              Source(t, f, (f + k) - t) = Source(t, f, k)
<1>1. CASE t <= f
  BY <1>1 DEF Source
<1>2. CASE t > f
  <2> DEFINE d == t - f
  <2>1. d \in Nat \ {0}
    BY <1>2
  <2>2. k % d \in Nat
    BY <2>1
  <2>3. f + k < t => k % d = k
    BY <2>1, RemainderBelow
  <2>4. f + k >= t => (k - d) % d = k % d
    <3>1. SUFFICES ASSUME f + k >= t PROVE (k - d) % d = k % d
      OBVIOUS
    <3>2. k - d \in Nat /\ (k - d) + d = k
      BY <1>2, <3>1
    <3> HIDE DEF d
    <3>3. ((k - d) + d) % d = (k - d) % d
      BY <2>1, <3>2, RemainderShifts
    <3> QED
      BY <3>2, <3>3
  <2>5. (f + k) - t = k - d
    BY <1>2
  <2> QED
    BY <1>2, <2>2, <2>3, <2>4, <2>5 DEF Source
<1> QED
  BY <1>1, <1>2

LEMMA MoveStep ==
  ASSUME NEW s, IsSlots(s), NEW t \in Nat, NEW f \in Nat, NEW k \in Nat,
         f + k < SlotMove(s, t, f, k).size
  PROVE  SlotMove(s, t, f, k + 1)
           = SlotSet(SlotMove(s, t, f, k), t + k,
                     SlotMove(s, t, f, k).data[f + k])
<1> DEFINE m == SlotMove(s, t, f, k)
           l == SlotMove(s, t, f, k + 1)
           r == SlotSet(m, t + k, m.data[f + k])
           n == LongerOf(s.size, t + k + 1)
           at(x) == IF x < s.size THEN s.data[x] ELSE NilCell
           old(c, j) == IF j >= t /\ j < t + c THEN Source(t, f, j - t) ELSE j
<1>1. s.size \in Nat
  BY DEF IsSlots
<1>2. m.size = (IF k = 0 THEN s.size ELSE LongerOf(s.size, t + k)) /\ m.size \in Nat
  BY <1>1 DEF SlotMove, LongerOf
<1>3. LongerOf(m.size, t + k + 1) = n /\ n \in Nat
  BY <1>1, <1>2 DEF LongerOf
<1>4. l = [size |-> n, data |-> [j \in 0 .. n - 1 |-> at(old(k + 1, j))]]
  <2>1. k + 1 # 0 /\ t + (k + 1) = t + k + 1
    OBVIOUS
  <2> QED
    BY <2>1 DEF SlotMove, Source
<1>5. m.data = [j \in 0 .. m.size - 1 |-> at(old(k, j))]
  BY <1>2 DEF SlotMove, Source
<1>6. r = [size |-> n, data |-> [j \in 0 .. n - 1 |->
             IF j = t + k THEN m.data[f + k]
             ELSE IF j < m.size THEN m.data[j] ELSE NilCell]]
  BY <1>3 DEF SlotSet
<1>7. f + k < m.size
  OBVIOUS
<1> HIDE DEF m, l, r
<1>8. m.data[f + k] = at(Source(t, f, k))
  <2>1. m.data[f + k] = at(old(k, f + k))
    BY <1>2, <1>5, <1>7
  <2>2. old(k, f + k) = Source(t, f, k)
    <3>1. CASE f + k >= t /\ f + k < t + k
      BY <3>1, SourceFacts
    <3>2. CASE ~(f + k >= t /\ f + k < t + k)
      <4>1. f + k < t \/ t <= f
        BY <3>2
      <4> QED
        BY <3>2, <4>1, SourceFacts
    <3> QED
      BY <3>1, <3>2
  <2> QED
    BY <2>1, <2>2
<1>9. ASSUME NEW j \in 0 .. n - 1
      PROVE  at(old(k + 1, j))
             = (IF j = t + k THEN m.data[f + k]
                ELSE IF j < m.size THEN m.data[j] ELSE NilCell)
  <2>1. CASE j = t + k
    <3>1. old(k + 1, j) = Source(t, f, k)
      BY <2>1
    <3> QED
      BY <1>8, <2>1, <3>1
  <2>2. CASE j # t + k
    <3>1. old(k + 1, j) = old(k, j)
      BY <1>3, <2>2
    <3>2. CASE j < m.size
      <4>1. m.data[j] = at(old(k, j))
        BY <1>2, <1>3, <1>5, <3>2
      <4> QED
        BY <2>2, <3>1, <3>2, <4>1
    <3>3. CASE j >= m.size
      <4>1. j >= s.size /\ ~(j >= t /\ j < t + k)
        BY <1>1, <1>2, <1>3, <3>3 DEF LongerOf
      <4>2. at(old(k, j)) = NilCell
        BY <1>1, <1>3, <4>1
      <4>3. ~(j < m.size)
        BY <1>2, <1>3, <3>3
      <4> QED
        BY <2>2, <3>1, <4>2, <4>3
    <3> QED
      BY <1>2, <1>3, <3>2, <3>3
  <2> QED
    BY <2>1, <2>2
<1> HIDE DEF at, old, n
<1>10. l = r
  BY <1>4, <1>6, <1>9
<1> QED
  BY <1>10 DEF m, l, r

-----------------------------------------------------------------------------
(* The invariant: the array is what the closed form gives for the          *)
(* iterations done so far, and a failure is a read past its end.           *)
LoopInv ==
  /\ before \in Arrays /\ to \in Index /\ from \in Index /\ count \in Counts
  /\ i \in Nat /\ i <= count
  /\ ~clearing => slots = SlotMove(before, to, from, i)
  /\ clearing  => slots = SlotClear(before, to, to + i) /\ ~failed
  /\ ~clearing /\ i > 0 => \A r \in MoveReads(to, from, i) : r < before.size
  /\ failed => i < count /\ from + i >= slots.size

LEMMA LoopTypes ==
  ASSUME LoopInv
  PROVE  /\ IsSlots(before) /\ before.size \in Nat
         /\ to \in Nat /\ from \in Nat /\ count \in Nat /\ i \in Nat
BY SlotLoopsAssumption DEF LoopInv, IsSlots

LEMMA NothingDone ==
  ASSUME NEW s, IsSlots(s), NEW m \in Nat, NEW n \in Nat
  PROVE  SlotMove(s, m, n, 0) = s /\ SlotClear(s, m, m + 0) = s
<1>1. s = [size |-> s.size, data |-> s.data] /\ s.size \in Nat
      /\ s.data = [j \in 0 .. s.size - 1 |-> s.data[j]]
  BY DEF IsSlots
<1>2. ASSUME NEW j \in 0 .. s.size - 1
      PROVE  /\ ~(j >= m /\ j < m + 0) /\ j < s.size
  BY <1>1
<1>3. SlotMove(s, m, n, 0) = s
  BY <1>1, <1>2 DEF SlotMove
<1>4. SlotClear(s, m, m + 0) = s
  <2>1. m + 0 <= m
    OBVIOUS
  <2> QED
    BY <1>1, <1>2, <2>1 DEF SlotClear
<1> QED
  BY <1>3, <1>4

(* What a read says of the array the move began on.                        *)
LEMMA MoveSize ==
  ASSUME NEW s, IsSlots(s), NEW m \in Nat, NEW n \in Nat, NEW k \in Nat
  PROVE  /\ SlotMove(s, m, n, k).size \in Nat
         /\ SlotMove(s, m, n, k).size = IF k = 0 THEN s.size ELSE LongerOf(s.size, m + k)
<1>1. s.size \in Nat
  BY DEF IsSlots
<1> QED
  BY <1>1 DEF SlotMove, LongerOf

LEMMA ReadInside ==
  ASSUME NEW s, IsSlots(s), NEW m \in Nat, NEW n \in Nat, NEW k \in Nat,
         n + k < SlotMove(s, m, n, k).size,
         k > 0 => \A r \in MoveReads(m, n, k) : r < s.size
  PROVE  \A r \in MoveReads(m, n, k + 1) : r < s.size
<1>1. s.size \in Nat
  BY DEF IsSlots
<1>2. SlotMove(s, m, n, k).size = IF k = 0 THEN s.size ELSE LongerOf(s.size, m + k)
  BY MoveSize
<1>3. CASE m > n
  <2>1. MoveReads(m, n, k + 1) = {n} /\ (k > 0 => MoveReads(m, n, k) = {n})
    BY <1>3 DEF MoveReads
  <2> QED
    BY <1>1, <1>2, <2>1
<1>4. CASE m <= n
  <2>1. MoveReads(m, n, k + 1) = {n + k}
    BY <1>4 DEF MoveReads
  <2>2. n + k < s.size
    BY <1>1, <1>4, <1>2 DEF LongerOf
  <2> QED
    BY <2>1, <2>2
<1> QED
  BY <1>3, <1>4

LEMMA ReadOutside ==
  ASSUME NEW s, IsSlots(s), NEW m \in Nat, NEW n \in Nat, NEW k \in Nat, NEW c \in Nat,
         k < c, n + k >= SlotMove(s, m, n, k).size
  PROVE  ~ \A r \in MoveReads(m, n, c) : r < s.size
<1>1. s.size \in Nat
  BY DEF IsSlots
<1>2. SlotMove(s, m, n, k).size = IF k = 0 THEN s.size ELSE LongerOf(s.size, m + k)
  BY MoveSize
<1>3. CASE m > n
  <2>1. MoveReads(m, n, c) = {n}
    BY <1>3 DEF MoveReads
  <2>2. k = 0
    BY <1>1, <1>3, <1>2 DEF LongerOf
  <2> QED
    BY <1>1, <1>2, <2>1, <2>2
<1>4. CASE m <= n
  <2>1. MoveReads(m, n, c) = {n + c - 1}
    BY <1>4 DEF MoveReads
  <2>2. n + c - 1 >= s.size
    BY <1>1, <1>4, <1>2 DEF LongerOf
  <2> QED
    BY <1>1, <2>1, <2>2
<1> QED
  BY <1>3, <1>4

-----------------------------------------------------------------------------
LEMMA LoopInvInit == LoopInit => LoopInv
<1> SUFFICES ASSUME LoopInit PROVE LoopInv
  OBVIOUS
<1>1. before \in Arrays /\ to \in Index /\ from \in Index /\ count \in Counts
      /\ i = 0 /\ failed = FALSE /\ slots = before
  BY DEF LoopInit
<1>2. IsSlots(before) /\ to \in Nat /\ from \in Nat /\ count \in Nat
  BY <1>1, SlotLoopsAssumption
<1>3. SlotMove(before, to, from, 0) = before /\ SlotClear(before, to, to + 0) = before
  BY <1>2, NothingDone
<1> QED
  BY <1>1, <1>2, <1>3 DEF LoopInv

(* An iteration.  The operands keep their values, so those before the step *)
(* name the closed form after it.                                          *)
LEMMA LoopInvMove == LoopInv /\ Move => LoopInv'
<1> SUFFICES ASSUME LoopInv, Move PROVE LoopInv'
  OBVIOUS
<1>1. PICK s, m, n, c, k : s = before /\ m = to /\ n = from /\ c = count /\ k = i
  OBVIOUS
<1>2. IsSlots(s) /\ m \in Nat /\ n \in Nat /\ c \in Nat /\ k \in Nat
  BY <1>1, LoopTypes
<1>3. ~clearing /\ ~failed /\ k < c
      /\ s \in Arrays /\ m \in Index /\ n \in Index /\ c \in Counts
  BY <1>1, <1>2 DEF Move, LoopInv
<1>4. before' = s /\ to' = m /\ from' = n /\ count' = c /\ ~clearing'
  BY <1>1, <1>3 DEF Move, operands
<1>5. slots = SlotMove(s, m, n, k)
  BY <1>1, <1>3 DEF LoopInv
<1>6. k > 0 => \A r \in MoveReads(m, n, k) : r < s.size
  BY <1>1, <1>3 DEF LoopInv
<1>7. CASE n + k < slots.size
  <2>1. slots' = SlotSet(slots, m + k, slots.data[n + k]) /\ i' = k + 1 /\ ~failed'
    BY <1>1, <1>3, <1>7 DEF Move
  <2>2. slots' = SlotMove(s, m, n, k + 1)
    BY <1>2, <1>5, <1>7, <2>1, MoveStep
  <2>3. \A r \in MoveReads(m, n, k + 1) : r < s.size
    BY <1>2, <1>5, <1>6, <1>7, ReadInside
  <2>4. k + 1 \in Nat /\ k + 1 <= c
    BY <1>2, <1>3
  <2> QED
    BY <1>3, <1>4, <2>1, <2>2, <2>3, <2>4 DEF LoopInv
<1>8. CASE ~(n + k < slots.size)
  <2>1. slots' = slots /\ i' = k
    BY <1>1, <1>8 DEF Move
  <2>2. n + k >= slots.size
    BY <1>2, <1>5, <1>8, MoveSize
  <2> QED
    BY <1>2, <1>3, <1>4, <1>5, <1>6, <2>1, <2>2 DEF LoopInv
<1> QED
  BY <1>7, <1>8

LEMMA LoopInvClear == LoopInv /\ Clear => LoopInv'
<1> SUFFICES ASSUME LoopInv, Clear PROVE LoopInv'
  OBVIOUS
<1>1. PICK s, m, n, c, k : s = before /\ m = to /\ n = from /\ c = count /\ k = i
  OBVIOUS
<1>2. IsSlots(s) /\ m \in Nat /\ n \in Nat /\ c \in Nat /\ k \in Nat
  BY <1>1, LoopTypes
<1>3. clearing /\ ~failed /\ k < c
      /\ s \in Arrays /\ m \in Index /\ n \in Index /\ c \in Counts
  BY <1>1, <1>2 DEF Clear, LoopInv
<1>4. before' = s /\ to' = m /\ from' = n /\ count' = c /\ clearing' /\ ~failed'
  BY <1>1, <1>3 DEF Clear, operands
<1>5. slots = SlotClear(s, m, m + k)
  BY <1>1, <1>3 DEF LoopInv
<1>6. slots' = SlotSet(slots, m + k, NilCell) /\ i' = k + 1
  BY <1>1 DEF Clear
<1>7. slots' = SlotClear(s, m, m + (k + 1))
  BY <1>2, <1>5, <1>6, ClearStep
<1>8. k + 1 \in Nat /\ k + 1 <= c
  BY <1>2, <1>3
<1> QED
  BY <1>3, <1>4, <1>6, <1>7, <1>8 DEF LoopInv

LEMMA LoopInvSuffices == LoopInv => LoopsAsOneStep
<1> SUFFICES ASSUME LoopInv PROVE LoopsAsOneStep
  OBVIOUS
<1> DEFINE readable == \A r \in MoveReads(to, from, count) : r < before.size
<1>1. IsSlots(before) /\ to \in Nat /\ from \in Nat /\ count \in Nat /\ i \in Nat
  BY LoopTypes
<1>2. ASSUME failed PROVE ~readable
  <2>1. i < count /\ from + i >= SlotMove(before, to, from, i).size
    BY <1>2 DEF LoopInv
  <2> QED
    BY <1>1, <2>1, ReadOutside
<1>3. ASSUME i = count, ~clearing
      PROVE  readable /\ slots = SlotMove(before, to, from, count)
  <2>1. CASE i = 0
    BY <1>3, <2>1 DEF LoopInv, MoveReads
  <2>2. CASE i > 0
    BY <1>3, <2>2 DEF LoopInv
  <2> QED
    BY <1>1, <2>1, <2>2
<1>4. i = count /\ clearing => slots = SlotClear(before, to, to + count)
  BY DEF LoopInv
<1> QED
  BY <1>2, <1>3, <1>4 DEF LoopsAsOneStep

(* BULKMOV's loop, each word read after the one before has been written,   *)
(* and the clearing loop of CALL end with the array that SlotMove and      *)
(* SlotClear give in one step, for every array, every two ranges and every *)
(* length; BULKMOV exits exactly where a slot of MoveReads is missing.     *)
THEOREM LoopsCorrect == SlotLoopsSpec => []LoopsAsOneStep
<1>1. LoopInv /\ [LoopNext]_loopVars => LoopInv'
  <2> SUFFICES ASSUME LoopInv, [LoopNext]_loopVars PROVE LoopInv'
    OBVIOUS
  <2>1. CASE Move
    BY <2>1, LoopInvMove
  <2>2. CASE Clear
    BY <2>2, LoopInvClear
  <2>3. CASE UNCHANGED loopVars
    BY <2>3 DEF LoopInv, loopVars, operands
  <2> QED
    BY <2>1, <2>2, <2>3 DEF LoopNext
<1> QED
  BY <1>1, LoopInvInit, LoopInvSuffices, PTL DEF SlotLoopsSpec

=============================================================================
