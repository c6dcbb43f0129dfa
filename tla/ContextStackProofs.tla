------------------------- MODULE ContextStackProofs --------------------------
(***************************************************************************)
(* Proofs about ContextStack for every choice of capacities and contexts:  *)
(* the buffer invariant, and that the buffer implements ContextLifo.       *)
(***************************************************************************)
EXTENDS ContextStack, SequenceTheorems, TLAPS

(* StackSound is inductive.                                                *)
LEMMA InitSound == stack_init => StackSound
<1> SUFFICES ASSUME stack_init PROVE StackSound
  OBVIOUS
<1>1. InitialCapacity \in Nat
  BY ContextStackAssumption
<1> QED
  BY <1>1, ContextStackAssumption DEF stack_init, StackSound

(* A push leaves the words in use where they are and adds its own, whether *)
(* or not the buffer was doubled.                                          *)
LEMMA PushEffect ==
  ASSUME StackSound, NEW c \in Ctx, push(c)
  PROVE  /\ top \in Nat /\ top' = top + 1
         /\ capacity' \in Capacities /\ top < capacity'
         /\ DOMAIN data' = 0 .. capacity' - 1
         /\ \A j \in 0 .. top - 1 : data'[j] = data[j]
         /\ data'[top] = c
         /\ ended = "no" /\ UNCHANGED <<popped, ended>>
<1> DEFINE cap == IF full THEN 2 * capacity ELSE capacity
           buf == IF full THEN Realloc(2 * capacity) ELSE data
<1>1. /\ ended = "no" /\ top \in Nat /\ capacity \in Nat \ {0}
      /\ top <= capacity /\ DOMAIN data = 0 .. capacity - 1
  BY ContextStackAssumption DEF StackSound, push
<1>2. capacity' = cap /\ cap \in Capacities /\ Store(buf, c) /\ popped' = popped
  BY DEF push, StackSound
<1>3. /\ DOMAIN buf = 0 .. cap - 1 /\ top < cap
      /\ \A j \in 0 .. top - 1 : buf[j] = data[j]
  BY <1>1 DEF full, Realloc
<1>4. cap \in Nat
  BY <1>1
<1> HIDE DEF cap, buf
<1>5. data' = [buf EXCEPT ![top] = c] /\ top' = top + 1 /\ ended' = ended
  BY <1>1, <1>2, <1>3, <1>4 DEF Store
<1>6. DOMAIN data' = 0 .. cap - 1 /\ data'[top] = c
  BY <1>1, <1>3, <1>4, <1>5
<1>7. \A j \in 0 .. top - 1 : data'[j] = data[j]
  BY <1>1, <1>3, <1>4, <1>5
<1> QED
  BY <1>1, <1>2, <1>3, <1>5, <1>6, <1>7

LEMMA StepSound ==
  ASSUME StackSound, [StackNext]_stackVars
  PROVE  StackSound'
<1>1. ASSUME NEW c \in Ctx, push(c) PROVE StackSound'
  <2>1. \A j \in 0 .. top - 1 : data[j] \in Ctx
    BY DEF StackSound
  <2>2. \A j \in 0 .. top' - 1 : data'[j] \in Ctx
    BY <1>1, <2>1, PushEffect
  <2>3. capacity' \in Nat
    BY <1>1, PushEffect, ContextStackAssumption
  <2> QED
    BY <1>1, <2>2, <2>3, PushEffect DEF StackSound
<1>2. CASE PushWithoutMemory
  BY <1>2 DEF PushWithoutMemory, StackSound
<1>3. CASE pop
  <2>1. top \in Nat \ {0} /\ ended = "no" /\ top <= capacity /\ capacity \in Nat
    BY <1>3, ContextStackAssumption DEF pop, StackSound
  <2>2. top' = top - 1 /\ popped' = data[top - 1] /\ UNCHANGED <<capacity, data, ended>>
    BY <1>3 DEF pop, popped_word
  <2>3. data[top - 1] \in Ctx
    BY <2>1 DEF StackSound
  <2> QED
    BY <2>1, <2>2, <2>3 DEF StackSound
<1>4. CASE PopError
  BY <1>4 DEF PopError, StackSound
<1>5. CASE UNCHANGED stackVars
  BY <1>5 DEF stackVars, StackSound
<1> QED
  BY <1>1, <1>2, <1>3, <1>4, <1>5 DEF StackNext

(* For every capacity and every order of calls and returns, stack.c stays  *)
(* within its buffer and every context in use is one that was pushed.      *)
THEOREM ContextStackSafe == ContextStackSpec => []StackSound
BY InitSound, StepSound, PTL DEF ContextStackSpec

-----------------------------------------------------------------------------
(* The refinement.  view is the sequence ContextLifo speaks of.            *)
view == [j \in 1 .. top |-> data[j - 1]]

LEMMA ViewIsSeq ==
  ASSUME StackSound, top \in Nat
  PROVE  view \in Seq(Ctx) /\ Len(view) = top
<1>1. \A j \in 1 .. top : j - 1 \in 0 .. top - 1
  OBVIOUS
<1>2. view \in [1 .. top -> Ctx]
  BY <1>1 DEF view, StackSound
<1> QED
  BY <1>2

LEMMA AppendIs ==
  ASSUME NEW S, NEW s \in Seq(S), NEW c \in S
  PROVE  Append(s, c) = [j \in 1 .. Len(s) + 1 |-> IF j <= Len(s) THEN s[j] ELSE c]
<1> DEFINE t == [j \in 1 .. Len(s) + 1 |-> IF j <= Len(s) THEN s[j] ELSE c]
<1>1. Append(s, c) \in Seq(S) /\ Len(Append(s, c)) = Len(s) + 1 /\ Len(s) \in Nat
  BY AppendProperties, LenProperties
<1>2. t \in Seq(S) /\ Len(t) = Len(s) + 1
  <2>1. \A j \in 1 .. Len(s) : s[j] \in S
    BY ElementOfSeq
  <2>2. t \in [1 .. Len(s) + 1 -> S]
    BY <1>1, <2>1
  <2> QED
    BY <1>1, <2>2
<1>3. \A j \in 1 .. Len(s) + 1 : Append(s, c)[j] = t[j]
  BY <1>1, AppendProperties
<1> HIDE DEF t
<1>4. Append(s, c) = t
  BY <1>1, <1>2, <1>3, SeqEqual
<1> QED
  BY <1>4 DEF t

LEMMA PushImplements ==
  ASSUME StackSound, NEW c \in Ctx, push(c)
  PROVE  Lifo!LifoPush(c)
<1>1. /\ top \in Nat /\ top' = top + 1 /\ data'[top] = c
      /\ \A j \in 0 .. top - 1 : data'[j] = data[j]
      /\ ended = "no" /\ UNCHANGED <<popped, ended>>
  BY PushEffect
<1>2. view \in Seq(Ctx) /\ Len(view) = top
  BY <1>1, ViewIsSeq
<1>3. view' = [j \in 1 .. top + 1 |-> IF j <= top THEN view[j] ELSE c]
  <2>1. view' = [j \in 1 .. top + 1 |-> data'[j - 1]]
    BY <1>1 DEF view
  <2>2. \A j \in 1 .. top + 1 : data'[j - 1] = IF j <= top THEN view[j] ELSE c
    BY <1>1 DEF view
  <2> QED
    BY <2>1, <2>2
<1>4. view' = Append(view, c)
  BY <1>2, <1>3, AppendIs
<1> QED
  BY <1>1, <1>4 DEF Lifo!LifoPush, view

LEMMA PopImplements ==
  ASSUME StackSound, pop
  PROVE  Lifo!LifoPop
<1>1. /\ ended = "no" /\ top \in Nat \ {0} /\ top' = top - 1
      /\ popped' = data[top - 1] /\ UNCHANGED <<data, ended>>
  BY DEF pop, popped_word, StackSound
<1>2. view \in Seq(Ctx) /\ Len(view) = top
  BY <1>1, ViewIsSeq
<1>3. view # <<>> /\ Lifo!Last(view) = view[top]
  BY <1>1, <1>2 DEF Lifo!Last
<1>4. view[top] = data[top - 1]
  BY <1>1 DEF view
<1>5. view' = [j \in 1 .. top - 1 |-> view[j]]
  <2>1. view' = [j \in 1 .. top - 1 |-> data[j - 1]]
    BY <1>1 DEF view
  <2>2. \A j \in 1 .. top - 1 : data[j - 1] = view[j]
    BY <1>1 DEF view
  <2> QED
    BY <2>1, <2>2
<1>6. Lifo!Front(view) = [j \in 1 .. top - 1 |-> view[j]]
  BY <1>1, <1>2 DEF Lifo!Front
<1> QED
  BY <1>1, <1>3, <1>4, <1>5, <1>6 DEF Lifo!LifoPop, view

LEMMA ErrorImplements ==
  ASSUME StackSound, PopError
  PROVE  Lifo!LifoError
<1>1. ended = "no" /\ ended' = "stack_error" /\ popped' = popped /\ top = 0 /\ top' = -1
  BY ContextStackAssumption DEF PopError, StackSound
<1>2. view = <<>> /\ view' = <<>>
  BY <1>1 DEF view
<1> QED
  BY <1>1, <1>2 DEF Lifo!LifoError, view

LEMMA StepImplements ==
  ASSUME StackSound, [StackNext]_stackVars
  PROVE  [Lifo!LifoNext]_(Lifo!lifoVars)
<1>1. ASSUME NEW c \in Ctx, push(c) PROVE Lifo!LifoNext
  BY <1>1, PushImplements DEF Lifo!LifoNext
<1>2. CASE PushWithoutMemory
  BY <1>2 DEF PushWithoutMemory, Lifo!LifoNext, Lifo!NoMemory
<1>3. CASE pop
  BY <1>3, PopImplements DEF Lifo!LifoNext
<1>4. CASE PopError
  BY <1>4, ErrorImplements DEF Lifo!LifoNext
<1>5. CASE UNCHANGED stackVars
  BY <1>5 DEF stackVars, Lifo!lifoVars
<1> QED
  BY <1>1, <1>2, <1>3, <1>4, <1>5 DEF StackNext

(* stack.c is a stack of contexts for every capacity: a pop returns the    *)
(* context of the matching push, across every doubling of the buffer.      *)
THEOREM ContextStackImplements == ContextStackSpec => ImplementsLifo
<1>1. stack_init => Lifo!LifoInit
  <2> SUFFICES ASSUME stack_init PROVE Lifo!LifoInit
    OBVIOUS
  <2>1. view = <<>>
    BY DEF stack_init, view
  <2> QED
    BY <2>1 DEF stack_init, Lifo!LifoInit, view
<1>2. StackSound /\ [StackNext]_stackVars => [Lifo!LifoNext]_(Lifo!lifoVars)
  BY StepImplements
<1> QED
  BY <1>1, <1>2, ContextStackSafe, PTL
  DEF ContextStackSpec, ImplementsLifo, Lifo!LifoSpec

=============================================================================
