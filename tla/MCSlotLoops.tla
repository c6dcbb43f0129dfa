---------------------------- MODULE MCSlotLoops ------------------------------
(* Both loops on arrays of up to 4 words, all different, with every overlap*)
(* and distance of the ranges and every position of the end between them.  *)
EXTENDS SlotLoops

MCArrays == { [size |-> n, data |-> [j \in 0 .. n - 1 |-> j + 1]] : n \in 0 .. 4 }
MCCells  == 0 .. 4
MCIndex  == 0 .. 5
MCCounts == 0 .. 5

=============================================================================
