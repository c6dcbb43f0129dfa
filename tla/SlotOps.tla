------------------------------- MODULE SlotOps -------------------------------
(***************************************************************************)
(* Slot arrays as their users see them (slots.h, vm.c): an array that      *)
(* grows with nil words when it is written past its end, and whose size    *)
(* the RET instruction cuts back.  Buffers, capacities and copying are     *)
(* absent: SlotMemory states the promise, SlotArray has the buffers and is *)
(* shown to keep it.  Module Execute computes with these operators.        *)
(***************************************************************************)
EXTENDS Naturals

CONSTANTS
  Cell,        \* the words a slot may hold
  NilCell      \* the word 0, which growth appends

(* A slot array of n words.                                                *)
IsSlots(s) ==
  /\ s = [size |-> s.size, data |-> s.data]
  /\ s.size \in Nat
  /\ s.data \in [0 .. s.size - 1 -> Cell]

NoSlots == [size |-> 0, data |-> [j \in 0 .. 0 - 1 |-> NilCell]]

LongerOf(m, n) == IF m < n THEN n ELSE m

(* slots_set: appends nil words until index i exists, then stores v.       *)
SlotSet(s, i, v) ==
  LET n == LongerOf(s.size, i + 1)
  IN  [size |-> n,
       data |-> [j \in 0 .. n - 1 |-> IF j = i      THEN v
                                      ELSE IF j < s.size THEN s.data[j]
                                      ELSE NilCell]]

(* Stores nil at the indices lo .. hi - 1, one slots_set after the other.  *)
SlotClear(s, lo, hi) ==
  LET n == IF hi <= lo THEN s.size ELSE LongerOf(s.size, hi)
  IN  [size |-> n,
       data |-> [j \in 0 .. n - 1 |-> IF j >= lo /\ j < hi THEN NilCell
                                      ELSE IF j < s.size THEN s.data[j]
                                      ELSE NilCell]]

(* slots.size = n, as RET assigns it: the words from n on are given up.    *)
SlotTruncate(s, n) == [size |-> n, data |-> [j \in 0 .. n - 1 |-> s.data[j]]]

(* Mutant: all words are read before the first is written.                 *)
SlotMoveAtOnce(s, to, from, c) ==
  LET n == IF c = 0 THEN s.size ELSE LongerOf(s.size, to + c)
  IN  [size |-> n,
       data |-> [j \in 0 .. n - 1 |->
                   LET old == IF j >= to /\ j < to + c THEN from + (j - to) ELSE j
                   IN  IF old < s.size THEN s.data[old] ELSE NilCell]]

(* c slots_get / slots_set pairs, from from + k to to + k with k rising.   *)
(* Where the ranges overlap with to above from, a word already overwritten *)
(* is read again, so the first to - from words repeat.                     *)
SlotMove(s, to, from, c) ==
  LET n      == IF c = 0 THEN s.size ELSE LongerOf(s.size, to + c)
      src(k) == IF to > from THEN from + (k % (to - from)) ELSE from + k
  IN  [size |-> n,
       data |-> [j \in 0 .. n - 1 |->
                   LET old == IF j >= to /\ j < to + c THEN src(j - to) ELSE j
                   IN  IF old < s.size THEN s.data[old] ELSE NilCell]]

(* The slots that must exist for all these reads to succeed: moving up, the*)
(* slots after the first have been written by then.                        *)
MoveReads(to, from, c) ==
  IF c = 0 THEN {} ELSE IF to > from THEN {from} ELSE {from + c - 1}

=============================================================================
