----------------------------- MODULE SlotMemory ------------------------------
(***************************************************************************)
(* What the slot array promises (slots.h): reads return what was written   *)
(* last, growth appends nil, and a read past the end stops the program.    *)
(* mem is the array, got the word last read, failed whether a read past    *)
(* the end has ended the program.  Module SlotArray implements this.       *)
(***************************************************************************)
EXTENDS SlotOps

CONSTANT Index       \* the indices an instruction can reach

VARIABLES mem, got, failed

memVars == <<mem, got, failed>>

MemInit == mem = NoSlots /\ got = NilCell /\ failed = FALSE

MemGet(i) ==
  /\ ~failed
  /\ IF i < mem.size THEN got' = mem.data[i] /\ failed' = FALSE
                     ELSE got' = got /\ failed' = TRUE
  /\ mem' = mem

MemSet(i, v) == ~failed /\ mem' = SlotSet(mem, i, v) /\ UNCHANGED <<got, failed>>

MemTruncate(n) ==
  ~failed /\ n < mem.size /\ mem' = SlotTruncate(mem, n) /\ UNCHANGED <<got, failed>>

MemNext ==
  \E i \in Index : \/ MemGet(i)
                   \/ MemTruncate(i)
                   \/ \E v \in Cell : MemSet(i, v)

SlotMemorySpec == MemInit /\ [][MemNext]_memVars

=============================================================================
