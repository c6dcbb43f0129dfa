--------------------------- MODULE MCContextStack ----------------------------
(* ContextStack with buffers of 2, 4 and 8 contexts: two doublings, and    *)
(* pushes over words that earlier pops have left.                          *)
EXTENDS ContextStack

MCCapacities == {2, 4, 8}

=============================================================================
