---------------------------- MODULE ContextStack -----------------------------
(***************************************************************************)
(* The context stack as stack.c implements it: a buffer of capacity        *)
(* contexts of which the first top are in use, doubled by realloc, whose   *)
(* result nothing tests, when a push finds it full.                        *)
(***************************************************************************)
EXTENDS Integers

CONSTANTS
  Ctx,               \* the pairs of base and ip (struct Context)
  InitialCapacity,   \* STACK_INITIAL_CAPACITY, 10
  Capacities,        \* InitialCapacity doubled any number of times, up to the
                     \* largest buffer realloc grants (the bound on growth)
  Garbage            \* what malloc and realloc leave in a new word

ASSUME ContextStackAssumption ==
  /\ Garbage \notin Ctx
  /\ InitialCapacity \in Capacities
  /\ Capacities \subseteq Nat \ {0}

VARIABLES
  top, capacity,     \* the fields of Stack
  data,              \* the buffer: capacity contexts
  popped,            \* what the last pop returned
  ended              \* "no", or how the process has ended

stackVars == <<top, capacity, data, popped, ended>>

stack_init ==
  /\ top = 0 /\ capacity = InitialCapacity
  /\ data = [j \in 0 .. InitialCapacity - 1 |-> Garbage]
  /\ popped \in Ctx /\ ended = "no"

FullTooLate == top > capacity                         \* mutant: off by one

(* The test of stack_double_capacity_if_full.                              *)
full == top >= capacity

(* realloc moves the words of the old buffer and adds words nobody wrote.  *)
Realloc(c) == [j \in 0 .. c - 1 |-> IF j < capacity THEN data[j] ELSE Garbage]

(* stack->data[stack->top++] = ctx, on a buffer that has the element; a    *)
(* store behind the buffer damages the heap.                               *)
Store(buf, c) ==
  /\ data' = [buf EXCEPT ![top] = c] /\ top' = top + 1
  /\ ended' = IF top \in DOMAIN buf THEN ended ELSE "wild"

push(c) ==
  /\ ended = "no"
  /\ IF full
       THEN /\ 2 * capacity \in Capacities /\ capacity' = 2 * capacity
            /\ Store(Realloc(2 * capacity), c)
       ELSE Store(data, c) /\ UNCHANGED capacity
  /\ UNCHANGED popped

(* realloc returns NULL: the store that follows is killed by a signal.     *)
PushWithoutMemory ==
  /\ ended = "no" /\ full
  /\ ended' = "killed"
  /\ UNCHANGED <<top, capacity, data, popped>>

PoppedAtTop == data[top]                              \* mutant: read before top--
popped_word == data[top - 1]

pop ==
  /\ ended = "no" /\ top > 0
  /\ top' = top - 1 /\ popped' = popped_word
  /\ UNCHANGED <<capacity, data, ended>>

(* top-- below 0: the message, and exit(1).                                *)
PopError ==
  /\ ended = "no" /\ top <= 0
  /\ top' = top - 1 /\ ended' = "stack_error"
  /\ UNCHANGED <<capacity, data, popped>>

StackNext ==
  \/ \E c \in Ctx : push(c)
  \/ PushWithoutMemory \/ pop \/ PopError

ContextStackSpec == stack_init /\ [][StackNext]_stackVars

-----------------------------------------------------------------------------
(* However calls and returns alternate, the contexts in use fit the buffer *)
(* push and pop (stack.c) address, and each has been pushed: doubling and  *)
(* later pushes over popped words leave no hole.                           *)
StackSound ==
  /\ top \in Int /\ capacity \in Capacities
  /\ popped \in Ctx
  /\ ended \in {"no", "stack_error", "killed"}
  /\ ended # "stack_error" => top \in 0 .. capacity
  /\ DOMAIN data = 0 .. capacity - 1
  /\ \A j \in 0 .. top - 1 : data[j] \in Ctx

Lifo == INSTANCE ContextLifo WITH stack <- [j \in 1 .. top |-> data[j - 1]]

(* The buffer is a stack: through every doubling a pop returns the context *)
(* of the matching push, and only an unmatched pop or a realloc without    *)
(* memory ends the program.                                                *)
ImplementsLifo == Lifo!LifoSpec

=============================================================================
