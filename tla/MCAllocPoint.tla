---------------------------- MODULE MCAllocPoint -----------------------------
(* AllocPoint with objects of no, one and two fields, in buffers of four   *)
(* words: objects that fill a buffer, and remainders of one to three words.*)
EXTENDS AllocPoint

MCSizes == 1 .. 3

=============================================================================
