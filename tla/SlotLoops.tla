------------------------------ MODULE SlotLoops ------------------------------
(***************************************************************************)
(* The two loops of execute.c over slots: BULKMOV moves words one at a     *)
(* time, each read after the write before it, and CALL clears the slots a  *)
(* builtin leaves.  Module Execute does each in one step, as SlotMove and  *)
(* SlotClear of the array it starts on; here they run iteration by         *)
(* iteration, on the array SlotMemory promises.                            *)
(***************************************************************************)
EXTENDS SlotOps

CONSTANTS
  Arrays,      \* the slot arrays a loop starts on
  Index,       \* the slots an operand can name
  Counts       \* numbers of iterations

ASSUME SlotLoopsAssumption ==
  /\ NilCell \in Cell
  /\ \A s \in Arrays : IsSlots(s)
  /\ Index \subseteq Nat /\ Counts \subseteq Nat

VARIABLES
  slots,                \* vm.slots
  before,               \* what it was when the loop began
  clearing,             \* the loop of CALL, or that of BULKMOV
  to, from, count,      \* the operands
  i,                    \* the iterations done
  failed                \* slots_get has ended the program

operands == <<before, clearing, to, from, count>>
loopVars == <<slots, operands, i, failed>>

LoopInit ==
  /\ before \in Arrays /\ slots = before
  /\ clearing \in BOOLEAN
  /\ to \in Index /\ from \in Index /\ count \in Counts
  /\ i = 0 /\ failed = FALSE

(* move(&vm, abc.a + i, abc.b + i)                                         *)
Move ==
  /\ ~clearing /\ ~failed /\ i # count
  /\ IF from + i < slots.size
       THEN /\ slots' = SlotSet(slots, to + i, slots.data[from + i])
            /\ i' = i + 1 /\ UNCHANGED failed
       ELSE failed' = TRUE /\ UNCHANGED <<slots, i>>
  /\ UNCHANGED operands

(* set(&vm, i, get_nil())                                                  *)
Clear ==
  /\ clearing /\ i # count
  /\ slots' = SlotSet(slots, to + i, NilCell)
  /\ i' = i + 1
  /\ UNCHANGED <<operands, failed>>

LoopNext == Move \/ Clear

SlotLoopsSpec == LoopInit /\ [][LoopNext]_loopVars

-----------------------------------------------------------------------------
(* The loops end with the array SlotMove and SlotClear give, however the   *)
(* ranges overlap and wherever the array ends; and BULKMOV is stopped by a *)
(* read past the end exactly if a slot of MoveReads did not exist before.  *)
(* (BULKMOV; the loop of CALL after f(&vm).)                               *)
LoopsAsOneStep ==
  LET readable == \A r \in MoveReads(to, from, count) : r < before.size
  IN  /\ failed => ~readable
      /\ i = count /\ ~clearing =>
           readable /\ slots = SlotMove(before, to, from, count)
      /\ i = count /\ clearing => slots = SlotClear(before, to, to + count)

=============================================================================
