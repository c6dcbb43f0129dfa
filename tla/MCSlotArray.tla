---------------------------- MODULE MCSlotArray ------------------------------
(* SlotArray with buffers of 2, 4 and 8 words: one buffer can be halved    *)
(* twice, and indices reach past the largest capacity that is not full.    *)
EXTENDS SlotArray

MCIndex == 0 .. 5
MCCapacities == {2, 4, 8}

=============================================================================
