---------------------------- MODULE ContextLifo ------------------------------
(* What CALL and RET count on: contexts come back in the reverse order of  *)
(* their pushes, a pop without a push ends the program, and a push may     *)
(* find no memory.                                                         *)
EXTENDS Naturals, Sequences, SequencesExt

CONSTANT Ctx         \* the pairs of base and ip (struct Context)

VARIABLES
  stack,             \* the contexts pushed and not popped, the last at the end
  popped,            \* what the last pop returned
  ended              \* how the process has ended: "no", "stack_error", "killed"

lifoVars == <<stack, popped, ended>>

LifoInit == stack = <<>> /\ popped \in Ctx /\ ended = "no"

LifoPush(c) ==
  /\ ended = "no" /\ stack' = Append(stack, c)
  /\ UNCHANGED <<popped, ended>>

LifoPop ==
  /\ ended = "no" /\ stack # <<>>
  /\ popped' = Last(stack) /\ stack' = Front(stack)
  /\ UNCHANGED ended

LifoError ==
  /\ ended = "no" /\ stack = <<>>
  /\ ended' = "stack_error" /\ UNCHANGED <<stack, popped>>

NoMemory ==
  /\ ended = "no"
  /\ ended' = "killed" /\ UNCHANGED <<stack, popped>>

LifoNext == (\E c \in Ctx : LifoPush(c)) \/ LifoPop \/ LifoError \/ NoMemory

LifoSpec == LifoInit /\ [][LifoNext]_lifoVars

=============================================================================
