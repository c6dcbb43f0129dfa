----------------------------- MODULE CallsProofs -----------------------------
(***************************************************************************)
(* Proofs about the calling convention, for every compliant program, and   *)
(* calls nested to any depth; and about what the programs of module        *)
(* Fixtures compute, for every constant in the place of theirs.            *)
(***************************************************************************)
EXTENDS Fixtures, ExecuteProofs, WellFoundedInduction

-----------------------------------------------------------------------------
(* Induction over the natural numbers, as the existence of a least         *)
(* counterexample.                                                         *)

Less == {p \in Nat \X Nat : p[1] < p[2]}

LEMMA LessWellFounded == IsWellFoundedOn(Less, Nat)
<1>1. Less = OpToRel(<, Nat)
  BY Zenon DEF Less, OpToRel
<1> QED
  BY <1>1, NatLessThanWellFounded, Zenon

LEMMA LeastElement ==
  ASSUME NEW T, T \subseteq Nat, T # {}
  PROVE  \E x \in T : \A y \in T : x <= y
<1>1. PICK x \in T : \A y \in T : ~ (<<y, x>> \in Less)
  BY LessWellFounded, WFMin
<1>2. \A y \in T : ~ (y < x)
  BY <1>1 DEF Less
<1> QED
  BY <1>1, <1>2

-----------------------------------------------------------------------------
(* Frames.                                                                 *)

LEMMA FrameBaseType ==
  ASSUME TypeOK, NEW k \in 1 .. Len(stack) + 1
  PROVE  FrameBase(k) \in Nat
<1>1. CASE k <= Len(stack)
  <2>1. stack[k] \in Context
    BY <1>1 DEF TypeOK
  <2> QED
    BY <1>1, <2>1 DEF FrameBase, Context
<1>2. CASE ~(k <= Len(stack))
  BY <1>2 DEF TypeOK, FrameBase
<1> QED
  BY <1>1, <1>2

(* The bases are ordered, not only those of neighbours.                    *)
LEMMA BasesBelow ==
  ASSUME ExecuteInv, NEW i \in 1 .. Len(stack) + 1, NEW k \in 1 .. Len(stack) + 1, i <= k
  PROVE  FrameBase(i) <= FrameBase(k)
<1>1. Len(stack) \in Nat
  BY DEF ExecuteInv, TypeOK
<1>2. PICK m : m = Len(stack)
  OBVIOUS
<1> DEFINE T == {n \in Nat : i + n <= m + 1 /\ ~(FrameBase(i) <= FrameBase(i + n))}
<1>3. T = {}
  <2> SUFFICES ASSUME T # {} PROVE FALSE
    OBVIOUS
  <2>1. PICK n \in T : \A y \in T : n <= y
    <3>1. T \subseteq Nat
      OBVIOUS
    <3> HIDE DEF T
    <3> QED
      BY <3>1, LeastElement
  <2>2. n \in Nat /\ i + n <= m + 1 /\ ~(FrameBase(i) <= FrameBase(i + n))
    BY <2>1
  <2>3. n # 0
    BY <1>1, <1>2, <2>2, FrameBaseType DEF ExecuteInv
  <2>4. n - 1 \in Nat /\ i + (n - 1) \in 1 .. m /\ i + n = (i + (n - 1)) + 1
    BY <1>1, <1>2, <2>2, <2>3
  <2>5. FrameBase(i) <= FrameBase(i + (n - 1))
    <3>1. n - 1 \notin T
      <4> HIDE DEF T
      <4> QED
        BY <2>1, <2>2
    <3>2. i + (n - 1) <= m + 1
      BY <1>1, <1>2, <2>4
    <3> QED
      BY <2>4, <3>1, <3>2
  <2>6. FrameBase(i + (n - 1)) <= FrameBase(i + n)
    BY <1>2, <2>4 DEF ExecuteInv, BasesOrdered
  <2>7. /\ FrameBase(i) \in Nat /\ FrameBase(i + (n - 1)) \in Nat
        /\ FrameBase(i + n) \in Nat
    BY <1>1, <1>2, <2>2, <2>4, FrameBaseType DEF ExecuteInv
  <2> QED
    BY <2>2, <2>5, <2>6, <2>7
<1>4. k - i \in Nat /\ i + (k - i) = k /\ k <= m + 1
  BY <1>1, <1>2
<1> QED
  BY <1>3, <1>4

LEMMA BasesBelowBase ==
  ASSUME ExecuteInv, NEW k \in 1 .. Len(stack) + 1
  PROVE  FrameBase(k) \in Nat /\ FrameBase(k) <= base
<1>1. Len(stack) \in Nat
  BY DEF ExecuteInv, TypeOK
<1>2. FrameBase(Len(stack) + 1) = base
  BY <1>1 DEF FrameBase
<1> QED
  BY <1>1, <1>2, BasesBelow, FrameBaseType DEF ExecuteInv

-----------------------------------------------------------------------------
(* Code.                                                                   *)

LEMMA FunctionPcsInCode ==
  ASSUME NEW code PROVE FunctionPcs(code) \subseteq DOMAIN code
BY DEF FunctionPcs

LEMMA NextPc ==
  ASSUME TypeOK, pc \in DOMAIN prog.code
  PROVE  pc \in 0 .. IntHalf - 1 /\ ToPc(pc) = pc /\ ToPc(pc + 1) = pc + 1 /\ ToInt(pc) = pc
<1>1. pc \in 0 .. IntHalf - 1
  BY DEF TypeOK, IsProgram
<1> QED
  BY <1>1, Widths DEF ToPc, ToInt

LEMMA OperandOf ==
  ASSUME TypeOK, NEW i \in DOMAIN prog.code
  PROVE  prog.code[i].a \in Nat
<1>1. prog.code[i] \in Instr
  BY DEF TypeOK, IsProgram
<1>2. prog.code[i].a \in Operand
  BY <1>1 DEF Instr
<1> QED
  BY <1>2 DEF Operand

(* In a compliant program, from one address of a function's body control   *)
(* goes to another, and slot 0 stays.                                      *)
LEMMA Convention ==
  ASSUME Compliant(prog), NEW i \in DOMAIN prog.code
  PROVE  /\ \A n \in Successors(prog.code, i) :
              n \in FunctionPcs(prog.code) <=> i \in FunctionPcs(prog.code)
         /\ i \in FunctionPcs(prog.code) => KeepsSlot0(prog.code[i])
         /\ prog.code[i].op = "FNEW" => prog.code[i].d \in FunctionPcs(prog.code)
BY DEF Compliant

LEMMA PlainSuccessors ==
  ASSUME NEW code, NEW p,
         code[p].op \notin {"JUMP", "JUMPF", "JUMPT", "LOOP", "RET", "EXIT"}
  PROVE  Successors(code, p) = {p + 1}
BY DEF Successors

LEMMA MadeFunctions ==
  ASSUME Compliant(prog)
  PROVE  FnewOperands(prog) \subseteq FunctionPcs(prog.code)
BY Convention DEF FnewOperands

-----------------------------------------------------------------------------
(* The invariant.  It adds to ReturnAddresses what the words hold, since   *)
(* only that says that CALL enters a function at its address.              *)

Linked(k) ==
  LET c == Link(k).val
  IN  /\ LinkSlot(k) < slots.size
      /\ c \in DOMAIN prog.code /\ Link(k) = to_small_int(c)
      /\ prog.code[c].op = "CALL"
      /\ LinkSlot(k) = stack[k].base_slot + prog.code[c].a
      /\ c \in FunctionPcs(prog.code) <=> k > 1

AllLinked == \A k \in 1 .. Len(stack) : Linked(k)

InFunction ==
  status = "running" => (pc \in FunctionPcs(prog.code) <=> stack # <<>>)

CallsInv == SealedInv /\ (Compliant(prog) => AllLinked /\ InFunction)

LEMMA CallsInvReturns == CallsInv => ReturnAddresses
BY DEF CallsInv, AllLinked, Linked, InFunction, ReturnAddresses

LEMMA LinkBelow ==
  ASSUME ExecuteInv, NEW k \in 1 .. Len(stack)
  PROVE  /\ k \in Nat \ {0} /\ k + 1 \in 1 .. Len(stack) + 1
         /\ LinkSlot(k) \in Nat /\ LinkSlot(k) <= base
<1>1. Len(stack) \in Nat
  BY DEF ExecuteInv, TypeOK
<1>2. k + 1 \in 1 .. Len(stack) + 1 /\ k \in Nat \ {0}
  BY <1>1
<1> QED
  BY <1>2, BasesBelowBase DEF LinkSlot

(* While a call is active, the running function's slot 0 exists.           *)
LEMMA BaseLive ==
  ASSUME ExecuteInv, AllLinked, stack # <<>>
  PROVE  base < slots.size /\ base + 1 \in Nat /\ base + 1 <= slots.size
<1>1. /\ Len(stack) \in Nat \ {0} /\ Len(stack) \in 1 .. Len(stack)
      /\ slots.size \in Nat /\ base \in Nat
  <2>1. stack \in Seq(Context) /\ slots.size \in Nat /\ base \in Nat
    BY DEF ExecuteInv, TypeOK, IsSlots
  <2>2. Len(stack) \in Nat \ {0}
    BY <2>1
  <2> QED
    BY <2>1, <2>2
<1>2. LinkSlot(Len(stack)) = base
  BY <1>1 DEF LinkSlot, FrameBase
<1>3. LinkSlot(Len(stack)) < slots.size
  BY <1>1 DEF AllLinked, Linked
<1> QED
  BY <1>1, <1>2, <1>3

-----------------------------------------------------------------------------
(* Steps that stay in their frame: the base and the callers are the same,  *)
(* and so is slot 0 if a call is active.                                   *)

Stays ==
  /\ UNCHANGED <<prog, base, stack>>
  /\ stack # <<>> => Keeps(slots, slots', base + 1)
  /\ status' = "running" =>
       status = "running" /\ pc \in DOMAIN prog.code /\ pc' \in Successors(prog.code, pc)

(* Slots below index b are kept by writes from b on, whatever is written.  *)
LEMMA SlotSetKeeps ==
  ASSUME NEW s, IsSlots(s), NEW i \in Nat, NEW w, NEW b \in Nat, b <= i, b <= s.size
  PROVE  Keeps(s, SlotSet(s, i, w), b)
<1> DEFINE n == LongerOf(s.size, i + 1)
           f == [j \in 0 .. n - 1 |-> IF j = i THEN w
                                      ELSE IF j < s.size THEN s.data[j] ELSE get_nil]
<1>1. s.size \in Nat /\ n \in Nat /\ n >= s.size
  BY DEF IsSlots, LongerOf
<1>2. SlotSet(s, i, w) = [size |-> n, data |-> f]
  BY DEF SlotSet
<1> HIDE DEF n
<1>3. \A j \in 0 .. b - 1 : f[j] = s.data[j]
  BY <1>1
<1> HIDE DEF f
<1> QED
  BY <1>1, <1>2, <1>3 DEF Keeps

LEMMA ProduceStays ==
  ASSUME ExecuteInv, AllLinked, InFunction, Compliant(prog),
         status = "running", pc \in DOMAIN prog.code, inst.op \in Writers,
         NEW w, Produce(w)
  PROVE  Stays
<1>1. /\ slots' = SlotSet(slots, base + inst.a, w) /\ pc' = ToPc(pc + 1)
      /\ UNCHANGED <<prog, base, stack, status>>
  BY DEF Produce, RunsOn, set, Advance, Goto, SameFrame
<1>2. pc' \in Successors(prog.code, pc)
  <2>1. inst.op \notin {"JUMP", "JUMPF", "JUMPT", "LOOP", "RET", "EXIT"}
    BY DEF Writers
  <2> QED
    BY <1>1, <2>1, PlainSuccessors, NextPc DEF inst, ExecuteInv
<1>3. ASSUME stack # <<>> PROVE Keeps(slots, slots', base + 1)
  <2>1. KeepsSlot0(inst)
    BY <1>3, Convention DEF InFunction, inst
  <2>2. /\ inst.a > 0 /\ inst.a \in Nat /\ base \in Nat /\ IsSlots(slots)
        /\ base + 1 \in Nat /\ base + 1 <= slots.size
    BY <1>3, <2>1, InstrType, BaseLive DEF KeepsSlot0, ExecuteInv, TypeOK
  <2>3. base + inst.a \in Nat /\ base + 1 <= base + inst.a
    BY <2>2
  <2> QED
    BY <1>1, <2>2, <2>3, SlotSetKeeps
<1> QED
  BY <1>1, <1>2, <1>3 DEF Stays

(* A step that leaves the slots alone.                                     *)
LEMMA QuietStays ==
  ASSUME ExecuteInv, AllLinked, UNCHANGED <<prog, base, stack, slots>>,
         status' = "running" =>
           status = "running" /\ pc \in DOMAIN prog.code /\ pc' \in Successors(prog.code, pc)
  PROVE  Stays
<1>1. ASSUME stack # <<>> PROVE Keeps(slots, slots', base + 1)
  BY <1>1, BaseLive DEF Keeps, ExecuteInv, TypeOK, IsSlots
<1> QED
  BY <1>1 DEF Stays

LEMMA StopStays ==
  ASSUME ExecuteInv, AllLinked, NEW how \in SUBSET Stops, Stop(how)
  PROVE  Stays
<1>1. status' # "running" /\ UNCHANGED <<prog, base, stack, slots>>
  BY DEF Stop, Stops
<1> QED
  BY <1>1, QuietStays

LEMMA ProceedStays ==
  ASSUME ExecuteInv, AllLinked, status = "running", pc \in DOMAIN prog.code,
         NEW n, Proceed(n), ToPc(n) \in Successors(prog.code, pc)
  PROVE  Stays
BY QuietStays DEF Proceed, Goto, SameFrame, RunsOn

LEMMA ProceedNextStays ==
  ASSUME ExecuteInv, AllLinked, status = "running", pc \in DOMAIN prog.code, Proceed(pc + 1),
         inst.op \notin {"JUMP", "JUMPF", "JUMPT", "LOOP", "RET", "EXIT"}
  PROVE  Stays
<1>1. ToPc(pc + 1) \in Successors(prog.code, pc)
  BY PlainSuccessors, NextPc DEF inst, ExecuteInv
<1> QED
  BY <1>1, ProceedStays

LEMMA JumpStays ==
  ASSUME ExecuteInv, AllLinked, Jump \/ Jumpf \/ Jumpt \/ Loop \/ Skip \/ Exit
  PROVE  Stays
<1>1. status = "running" /\ pc \in DOMAIN prog.code
  BY DEF Jump, Jumpf, Jumpt, Loop, Skip, Exit, Fetch
<1>2. CASE Jump
  <2>1. inst.op = "JUMP" /\ Proceed(pc + ToShort(inst.d))
    BY <1>2 DEF Jump, Fetch
  <2>2. ToPc(pc + ToShort(inst.d)) \in Successors(prog.code, pc)
    BY <2>1 DEF Successors, inst
  <2> QED
    BY <1>1, <2>1, <2>2, ProceedStays
<1>3. CASE Jumpf \/ Jumpt
  <2>1. /\ inst.op \in {"JUMPF", "JUMPT"}
        /\ Proceed(pc + 1) \/ Proceed(pc + ToShort(inst.d))
    <3>1. inst.op \in {"JUMPF", "JUMPT"} /\ \E taken : Branch(taken)
      BY <1>3 DEF Jumpf, Jumpt, Fetch
    <3> QED
      BY <3>1 DEF Branch
  <2>2. Successors(prog.code, pc) = {pc + 1, ToPc(pc + ToShort(inst.d))}
    BY <2>1 DEF Successors, inst
  <2>3. ToPc(pc + 1) = pc + 1
    BY <1>1, NextPc DEF ExecuteInv
  <2> QED
    BY <1>1, <2>1, <2>2, <2>3, ProceedStays
<1>4. CASE Loop
  <2>1. inst.op = "LOOP" /\ Proceed(pc)
    BY <1>4 DEF Loop, Fetch
  <2>2. ToPc(pc) \in Successors(prog.code, pc)
    BY <1>1, <2>1, NextPc DEF Successors, inst, ExecuteInv
  <2> QED
    BY <1>1, <2>1, <2>2, ProceedStays
<1>5. CASE Skip
  <2>1. inst.op \in Skipped /\ Proceed(pc + 1)
    BY <1>5 DEF Skip, Fetch
  <2>2. inst.op \notin {"JUMP", "JUMPF", "JUMPT", "LOOP", "RET", "EXIT"}
    BY <2>1 DEF Skipped
  <2> QED
    BY <1>1, <2>1, <2>2, ProceedNextStays
<1>6. CASE Exit
  <2>1. status' # "running" /\ UNCHANGED <<prog, base, stack, slots>>
    BY <1>6 DEF Exit, SameFrame
  <2> QED
    BY <2>1, QuietStays
<1> QED
  BY <1>2, <1>3, <1>4, <1>5, <1>6

(* No move leaves the slots as they are.                                   *)
LEMMA SlotMoveNone ==
  ASSUME NEW s, IsSlots(s), NEW to \in Nat, NEW from \in Nat, NEW b \in Nat, b <= s.size
  PROVE  Keeps(s, SlotMove(s, to, from, 0), b)
<1> DEFINE src(k) == IF to > from THEN from + (k % (to - from)) ELSE from + k
           old(j) == IF j >= to /\ j < to + 0 THEN src(j - to) ELSE j
           f      == [j \in 0 .. s.size - 1 |-> IF old(j) < s.size THEN s.data[old(j)]
                                                                 ELSE get_nil]
<1>1. s.size \in Nat
  BY DEF IsSlots
<1>2. SlotMove(s, to, from, 0) = [size |-> s.size, data |-> f]
  BY DEF SlotMove
<1>3. \A j \in 0 .. b - 1 : old(j) = j /\ j \in 0 .. s.size - 1
  BY <1>1
<1> HIDE DEF old
<1>4. \A j \in 0 .. b - 1 : f[j] = s.data[j]
  BY <1>1, <1>3
<1> HIDE DEF f
<1> QED
  BY <1>1, <1>2, <1>4 DEF Keeps

LEMMA BulkmovStays ==
  ASSUME ExecuteInv, AllLinked, InFunction, Compliant(prog), Bulkmov
  PROVE  Stays
<1> DEFINE to   == base + inst.a
           from == base + inst.b
<1>1. /\ status = "running" /\ pc \in DOMAIN prog.code /\ inst.op = "BULKMOV"
      /\ slots' = SlotMove(slots, to, from, inst.c) /\ pc' = ToPc(pc + 1)
      /\ UNCHANGED <<prog, base, stack, status>>
  BY DEF Bulkmov, Fetch, Advance, Goto, SameFrame, RunsOn
<1>2. pc' \in Successors(prog.code, pc)
  BY <1>1, PlainSuccessors, NextPc DEF inst, ExecuteInv
<1>3. ASSUME stack # <<>> PROVE Keeps(slots, slots', base + 1)
  <2>1. inst.a > 0 \/ inst.c = 0
    BY <1>1, <1>3, Convention DEF InFunction, inst, KeepsSlot0
  <2>2. /\ inst.a \in Nat /\ inst.b \in Nat /\ inst.c \in Nat /\ base \in Nat
        /\ IsSlots(slots) /\ slots.size \in Nat
        /\ base + 1 \in Nat /\ base + 1 <= slots.size
    BY <1>1, <1>3, InstrType, BaseLive DEF ExecuteInv, TypeOK, IsSlots
  <2>3. to \in Nat /\ from \in Nat /\ (inst.a > 0 => base + 1 <= to)
    BY <2>2
  <2> HIDE DEF to, from
  <2>4. CASE inst.a > 0
    BY <1>1, <2>2, <2>3, <2>4, SlotMoveFacts
  <2>5. CASE inst.c = 0
    <3> QED
      BY <1>1, <2>2, <2>3, <2>5, SlotMoveNone
  <2> QED
    BY <2>1, <2>4, <2>5
<1> QED
  BY <1>1, <1>2, <1>3 DEF Stays

(* What CALL stores is above slot 0 of a calling function.                 *)
LEMMA CalledKeeps ==
  ASSUME ExecuteInv, AllLinked, InFunction, Compliant(prog),
         status = "running", pc \in DOMAIN prog.code, inst.op = "CALL", stack # <<>>
  PROVE  inst.a > 0 /\ base + 1 <= newbase /\ Keeps(slots, called, base + 1)
<1>1. inst.a > 0
  BY Convention DEF InFunction, inst, KeepsSlot0, Writers
<1>2. /\ inst.a \in Nat /\ base \in Nat /\ IsSlots(slots)
      /\ base + 1 \in Nat /\ base + 1 <= slots.size
  BY InstrType, BaseLive DEF ExecuteInv, TypeOK
<1>3. newbase \in Nat /\ base + 1 <= newbase
  BY <1>1, <1>2 DEF newbase
<1> QED
  BY <1>1, <1>2, <1>3, SlotSetKeeps DEF called

LEMMA CallBuiltinStays ==
  ASSUME ExecuteInv, AllLinked, InFunction, Compliant(prog), CallBuiltin
  PROVE  Stays
<1> DEFINE lo == newbase + 2
           hi == newbase + inst.a + 10
<1>1. /\ status = "running" /\ pc \in DOMAIN prog.code /\ inst.op = "CALL"
      /\ \/ Stop({"slot_error"}) \/ Stop({"crash"})
         \/ /\ slots' = SlotClear(builtin_println, lo, hi) /\ pc' = ToPc(pc + 1)
            /\ UNCHANGED <<prog, base, stack, status>>
  BY DEF CallBuiltin, cleared, Fetch, Advance, Goto, SameFrame, RunsOn
<1>2. CASE Stop({"slot_error"}) \/ Stop({"crash"})
  BY <1>2, StopStays DEF Stops
<1>3. CASE /\ slots' = SlotClear(builtin_println, lo, hi) /\ pc' = ToPc(pc + 1)
           /\ UNCHANGED <<prog, base, stack, status>>
  <2>1. pc' \in Successors(prog.code, pc)
    BY <1>1, <1>3, PlainSuccessors, NextPc DEF inst, ExecuteInv
  <2>2. ASSUME stack # <<>> PROVE Keeps(slots, slots', base + 1)
    <3>1. /\ IsSlots(called) /\ called.size \in Nat /\ newbase \in Nat /\ inst.a \in Nat
          /\ base \in Nat /\ base + 1 <= newbase /\ Keeps(slots, called, base + 1)
          /\ newbase < called.size
      BY <1>1, <2>2, CalledFacts, CalledKeeps, InstrType DEF ExecuteInv, IsSlots
    <3>2. /\ lo \in Nat /\ hi \in Nat /\ base + 1 <= lo
          /\ base + 1 \in Nat /\ base + 1 <= called.size
      BY <3>1
    <3> HIDE DEF lo, hi
    <3>3. /\ IsSlots(builtin_println) /\ Keeps(called, builtin_println, base + 1)
          /\ builtin_println.size = LongerOf(called.size, newbase + 1)
      <4>1. get_nil \in Word /\ newbase \in Nat /\ base + 1 <= newbase
        BY <3>1, FixedWords
      <4> QED
        BY <3>1, <3>2, <4>1, SlotSetFacts DEF builtin_println
    <3>4. base + 1 <= builtin_println.size
      BY <3>1, <3>2, <3>3 DEF LongerOf
    <3>5. Keeps(builtin_println, slots', base + 1)
      BY <1>3, <3>2, <3>3, <3>4, SlotClearFacts
    <3> QED
      BY <3>1, <3>3, <3>5, KeepsTransitive
  <2> QED
    BY <1>1, <1>3, <2>1, <2>2 DEF Stays
<1> QED
  BY <1>1, <1>2, <1>3

LEMMA WriterStays ==
  ASSUME ExecuteInv, AllLinked, InFunction, Compliant(prog),
         \/ Cstr \/ Ctype \/ Cbool \/ Cnil \/ Cshort \/ Fnew \/ Nsget
         \/ Arith \/ Modvv \/ Iseq \/ Mov
  PROVE  Stays
<1>1. /\ status = "running" /\ pc \in DOMAIN prog.code /\ inst.op \in Writers \ {"CALL"}
      /\ \/ \E w : Produce(w)
         \/ \E how \in SUBSET Stops : Stop(how)
         \/ Proceed(pc + 1)
  <2>1. /\ {"crash"} \in SUBSET Stops /\ {"type_error"} \in SUBSET Stops
        /\ {"crash", "wild"} \in SUBSET Stops
    BY DEF Stops
  <2>2. CASE Cstr \/ Ctype \/ Cbool \/ Cnil \/ Cshort \/ Fnew \/ Nsget
    BY <2>1, <2>2
    DEF Cstr, Ctype, Cbool, Cnil, Cshort, Fnew, Nsget, Fetch, Writers
  <2>3. CASE Arith \/ Modvv \/ Iseq \/ Mov
    BY <2>1, <2>3 DEF Arith, Modvv, Iseq, Mov, Fetch, Writers
  <2> QED
    BY <2>2, <2>3
<1>2. inst.op \notin {"JUMP", "JUMPF", "JUMPT", "LOOP", "RET", "EXIT"}
  BY <1>1 DEF Writers
<1> QED
  BY <1>1, <1>2, ProduceStays, StopStays, ProceedNextStays

LEMMA OtherStays ==
  ASSUME ExecuteInv, AllLinked,
         \/ Nsset \/ Alloc \/ Setfield
         \/ SlotError \/ CallNowhere \/ CallError \/ FetchOutside \/ (Ret /\ stack = <<>>)
  PROVE  Stays
<1>1. CASE Nsset
  <2>1. /\ status = "running" /\ pc \in DOMAIN prog.code /\ inst.op = "NSSET"
        /\ \/ Stop({"crash", "wild"})
           \/ pc' = ToPc(pc + 1) /\ UNCHANGED <<prog, base, stack, slots, status>>
    BY <1>1 DEF Nsset, Fetch, Advance, Goto, SameFrame, RunsOn
  <2>2. ToPc(pc + 1) \in Successors(prog.code, pc)
    BY <2>1, PlainSuccessors, NextPc DEF inst, ExecuteInv
  <2> QED
    BY <2>1, <2>2, QuietStays, StopStays DEF Stops
<1>2. CASE Alloc
  <2>1. /\ status = "running" /\ pc \in DOMAIN prog.code /\ inst.op = "ALLOC"
        /\ Stop({"crash", "wild"}) \/ Proceed(pc + 1)
    BY <1>2 DEF Alloc, Fetch
  <2> QED
    BY <2>1, StopStays, ProceedNextStays DEF Stops
<1>3. CASE \/ Setfield \/ SlotError \/ CallNowhere \/ CallError \/ FetchOutside
           \/ (Ret /\ stack = <<>>)
  <2>1. PICK how \in SUBSET Stops : Stop(how)
    BY <1>3 DEF Setfield, SlotError, CallNowhere, CallError, FetchOutside, Ret, Stops
  <2> QED
    BY <2>1, StopStays
<1> QED
  BY <1>1, <1>2, <1>3

(* Every step of a compliant program stays in its frame, or calls, or      *)
(* returns.                                                                *)
LEMMA StepKinds ==
  ASSUME CallsInv, Compliant(prog), Next
  PROVE  Stays \/ CallFunction \/ (Ret /\ stack # <<>>)
<1>1. ExecuteInv /\ AllLinked /\ InFunction
  BY DEF CallsInv, SealedInv
<1>2. ~Ckey /\ ~Getfield
  BY DEF Compliant, Sealed, Ckey, Getfield, Fetch, inst
<1> QED
  BY <1>1, <1>2, BulkmovStays, CallBuiltinStays, WriterStays, OtherStays, JumpStays
  DEF Next

-----------------------------------------------------------------------------
(* What the kinds of step do to the invariant.                             *)

(* A slot below the base keeps its word, and the running function's slot 0 *)
(* too if it stays in its frame.                                           *)
LEMMA StaysLinks ==
  ASSUME CallsInv, Compliant(prog), Stays, NEW k \in 1 .. Len(stack)
  PROVE  LinkSlot(k)' = LinkSlot(k) /\ Link(k)' = Link(k) /\ LinkSlot(k) < slots'.size
<1>1. ExecuteInv /\ AllLinked /\ stack # <<>>
  BY DEF CallsInv, SealedInv
<1>2. base' = base /\ stack' = stack /\ Keeps(slots, slots', base + 1)
  BY <1>1 DEF Stays
<1>3. LinkSlot(k)' = LinkSlot(k)
  BY <1>2 DEF LinkSlot, FrameBase
<1>4. /\ LinkSlot(k) \in Nat /\ LinkSlot(k) <= base /\ base \in Nat
  BY <1>1, LinkBelow DEF ExecuteInv, TypeOK
<1>5. LinkSlot(k) \in 0 .. (base + 1) - 1
  BY <1>4
<1> QED
  BY <1>2, <1>3, <1>4, <1>5 DEF Keeps, Link

LEMMA StaysInv ==
  ASSUME CallsInv, Compliant(prog), Stays
  PROVE  (AllLinked /\ InFunction)'
<1>1. AllLinked /\ InFunction /\ prog' = prog /\ stack' = stack
  BY DEF CallsInv, Stays
<1>2. ASSUME NEW k \in 1 .. Len(stack) PROVE Linked(k)'
  <2>1. Linked(k)
    BY <1>1, <1>2 DEF AllLinked
  <2> QED
    BY <1>1, <2>1, StaysLinks DEF Linked
<1>3. InFunction'
  BY <1>1, Convention DEF InFunction, Stays
<1> QED
  BY <1>1, <1>2, <1>3 DEF AllLinked

(* A call adds a frame on top of the others.                               *)
LEMMA CallFrames ==
  ASSUME ExecuteInv, CallFunction, NEW m, m = Len(stack)
  PROVE  /\ m \in Nat /\ Len(stack') = m + 1
         /\ \A k \in 1 .. m : stack'[k] = stack[k]
         /\ stack'[m + 1].base_slot = base
         /\ \A k \in 1 .. m + 1 : FrameBase(k)' = FrameBase(k)
         /\ FrameBase(m + 2)' = newbase
<1>1. /\ stack' = Append(stack, context) /\ base' = newbase /\ stack \in Seq(Context)
  BY DEF CallFunction, ExecuteInv, TypeOK
<1>2. context \in Context /\ context.base_slot = base
  BY DEF context, Context, ExecuteInv, TypeOK
<1>3. /\ m \in Nat /\ Len(stack') = m + 1 /\ stack'[m + 1] = context
      /\ \A k \in 1 .. m : stack'[k] = stack[k]
  BY <1>1, <1>2
<1>4. FrameBase(m + 2)' = newbase
  BY <1>1, <1>3 DEF FrameBase
<1>5. ASSUME NEW k \in 1 .. m + 1 PROVE FrameBase(k)' = FrameBase(k)
  BY <1>2, <1>3 DEF FrameBase
<1> QED
  BY <1>2, <1>3, <1>4, <1>5

(* The links of the callers keep their place and their word.               *)
LEMMA CallKeepsLinks ==
  ASSUME CallsInv, Compliant(prog), CallFunction, NEW k \in 1 .. Len(stack)
  PROVE  LinkSlot(k)' = LinkSlot(k) /\ Link(k)' = Link(k) /\ LinkSlot(k) < slots'.size
<1>1. PICK m : m = Len(stack)
  OBVIOUS
<1>2. /\ ExecuteInv /\ AllLinked /\ InFunction /\ stack # <<>>
      /\ status = "running" /\ pc \in DOMAIN prog.code /\ inst.op = "CALL"
      /\ slots' = called
  BY DEF CallsInv, SealedInv, CallFunction, Fetch
<1>3. k + 1 \in 1 .. m + 1 /\ LinkSlot(k) \in Nat /\ LinkSlot(k) <= base /\ base \in Nat
  BY <1>1, <1>2, LinkBelow DEF ExecuteInv, TypeOK
<1>4. LinkSlot(k)' = LinkSlot(k)
  BY <1>1, <1>2, <1>3, CallFrames DEF LinkSlot
<1>5. Keeps(slots, called, base + 1)
  BY <1>2, CalledKeeps
<1>6. LinkSlot(k) \in 0 .. (base + 1) - 1
  BY <1>3
<1> QED
  BY <1>2, <1>4, <1>5, <1>6 DEF Keeps, Link

(* The new link: the address of the CALL.                                  *)
LEMMA CallLinks ==
  ASSUME ExecuteInv, CallFunction, NEW m, m = Len(stack)
  PROVE  /\ LinkSlot(m + 1)' = newbase /\ newbase < slots'.size
         /\ Link(m + 1)' = to_small_int(pc) /\ Link(m + 1)'.val = pc
<1>1. /\ pc \in DOMAIN prog.code /\ slots' = called
  BY DEF CallFunction, Fetch
<1>2. m \in Nat /\ FrameBase(m + 2)' = newbase
  BY CallFrames
<1>3. (m + 1) + 1 = m + 2
  BY <1>2
<1>4. LinkSlot(m + 1)' = newbase
  BY <1>2, <1>3 DEF LinkSlot
<1>5. newbase \in Nat /\ newbase < slots'.size
  BY <1>1, CalledFacts
<1>6. pc \in 0 .. IntHalf - 1 /\ ToInt(pc) = pc
  BY <1>1, NextPc DEF ExecuteInv
<1>7. to_small_int(pc) \in Word /\ to_small_int(pc).val = pc
  BY <1>6, Widths, SmallIntWord, SmallIntFacts DEF CInt
<1>8. called.data[newbase] = to_small_int(pc)
  <2>1. IsSlots(slots) /\ 0 <= newbase /\ 0 <= slots.size
    BY <1>5 DEF ExecuteInv, TypeOK, IsSlots
  <2> QED
    BY <1>5, <1>6, <1>7, <2>1, SlotSetFacts DEF called
<1> QED
  BY <1>1, <1>4, <1>5, <1>7, <1>8 DEF Link

(* A compliant program enters functions at their addresses only.           *)
LEMMA CallEnters ==
  ASSUME CallsInv, Compliant(prog), CallFunction
  PROVE  pc' \in FunctionPcs(prog.code)
<1>1. /\ ExecuteInv /\ TypeOK /\ WordsInv
      /\ readable /\ inst.op = "CALL" /\ is_fnew(callee) /\ pc' = func
      /\ pc \in DOMAIN prog.code
  BY DEF CallsInv, SealedInv, Compliant, ExecuteInv, CallFunction, Fetch
<1>2. live(inst.a + 1) /\ inst.a + 1 \in Nat
  BY <1>1, InstrType DEF readable, reads
<1>3. callee \in MadeWords(prog)
  BY <1>1, <1>2, ReadMade DEF callee
<1>4. get_fnew(callee) \in FnewOperands(prog)
  BY <1>1, <1>3, MadeFacts DEF TypeOK
<1> QED
  BY <1>1, <1>4, MadeFunctions DEF func

LEMMA CallInv ==
  ASSUME CallsInv, Compliant(prog), CallFunction
  PROVE  (AllLinked /\ InFunction)'
<1>1. PICK m : m = Len(stack)
  OBVIOUS
<1>2. /\ ExecuteInv /\ AllLinked /\ InFunction /\ prog' = prog
      /\ status = "running" /\ pc \in DOMAIN prog.code /\ inst.op = "CALL"
  BY DEF CallsInv, SealedInv, CallFunction, Fetch, RunsOn
<1>3. /\ m \in Nat /\ Len(stack') = m + 1
      /\ \A k \in 1 .. m : stack'[k] = stack[k]
      /\ stack'[m + 1].base_slot = base
  BY <1>1, <1>2, CallFrames
<1>4. ASSUME NEW k \in 1 .. m PROVE Linked(k)'
  <2>1. Linked(k)
    BY <1>1, <1>2, <1>4 DEF AllLinked
  <2> QED
    BY <1>1, <1>2, <1>3, <2>1, CallKeepsLinks DEF Linked
<1>5. Linked(m + 1)'
  <2>1. /\ LinkSlot(m + 1)' = newbase /\ newbase < slots'.size
        /\ Link(m + 1)' = to_small_int(pc) /\ Link(m + 1)'.val = pc
    BY <1>1, <1>2, CallLinks
  <2>2. pc \in FunctionPcs(prog.code) <=> m + 1 > 1
    BY <1>1, <1>2, <1>3 DEF InFunction, ExecuteInv, TypeOK
  <2> QED
    BY <1>2, <1>3, <2>1, <2>2 DEF Linked, inst, newbase
<1>6. AllLinked'
  BY <1>3, <1>4, <1>5 DEF AllLinked
<1>7. InFunction'
  <2>1. stack' # <<>>
    BY <1>3
  <2> QED
    BY <1>2, <2>1, CallEnters DEF InFunction
<1> QED
  BY <1>6, <1>7

(* A return takes the last frame off.                                      *)
LEMMA ReturnFrames ==
  ASSUME ExecuteInv, Ret, stack # <<>>, NEW m, m = Len(stack)
  PROVE  /\ m \in Nat \ {0} /\ Len(stack') = m - 1 /\ base' = stack[m].base_slot
         /\ \A k \in 1 .. m - 1 : stack'[k] = stack[k]
         /\ \A k \in 1 .. m : FrameBase(k)' = FrameBase(k)
<1>1. /\ stack' = Front(stack) /\ base' = Last(stack).base_slot
      /\ stack \in Seq(Context)
  BY DEF Ret, ExecuteInv, TypeOK
<1>2. /\ m \in Nat \ {0} /\ Len(stack') = m - 1 /\ Last(stack) = stack[m]
      /\ \A k \in 1 .. m - 1 : stack'[k] = stack[k]
  BY <1>1, FrontFacts
<1>3. ASSUME NEW k \in 1 .. m PROVE FrameBase(k)' = FrameBase(k)
  BY <1>1, <1>2 DEF FrameBase
<1> QED
  BY <1>1, <1>2, <1>3

(* RET finds the last link, and follows it.                                *)
LEMMA ReturnFollows ==
  ASSUME CallsInv, Compliant(prog), Ret, stack # <<>>, NEW m, m = Len(stack)
  PROVE  pc' = Link(m).val + 1 /\ Link(m).val \in Nat
<1>1. /\ ExecuteInv /\ AllLinked /\ pc' = ToPc(resume)
  BY DEF CallsInv, SealedInv, Ret, Goto
<1>2. m \in 1 .. m /\ m = Len(stack) /\ base \in Nat
  BY <1>1, ReturnFrames DEF ExecuteInv, TypeOK
<1>3. LinkSlot(m) = base
  BY <1>2 DEF LinkSlot, FrameBase
<1>4. get(0) = Link(m)
  <2>1. base + 0 = base
    BY <1>2
  <2> QED
    BY <1>3, <2>1 DEF get, Link
<1>5. PICK c : c = Link(m).val
  OBVIOUS
<1>6. c \in DOMAIN prog.code /\ Link(m) = to_small_int(c)
  BY <1>1, <1>2, <1>5 DEF AllLinked, Linked
<1>7. c \in 0 .. IntHalf - 1
  BY <1>1, <1>6 DEF ExecuteInv, TypeOK, IsProgram
<1>8. ToInt(c) = c /\ ToPc(c + 1) = c + 1
  BY <1>7, Widths DEF ToInt, ToPc
<1>9. resume = c + 1
  BY <1>4, <1>5, <1>8 DEF resume, get_small_int
<1> QED
  BY <1>1, <1>5, <1>7, <1>8, <1>9

(* The other links lie below the frame that ends: a function that calls    *)
(* gives the callee a base above its own.                                  *)
LEMMA ReturnKeepsLinks ==
  ASSUME CallsInv, Compliant(prog), Ret, stack # <<>>, NEW k \in 1 .. Len(stack) - 1
  PROVE  LinkSlot(k)' = LinkSlot(k) /\ Link(k)' = Link(k) /\ LinkSlot(k) < slots'.size
<1>1. PICK m : m = Len(stack)
  OBVIOUS
<1>2. /\ ExecuteInv /\ AllLinked /\ Isolated
  <2>1. ExecuteInv /\ AllLinked /\ Next
    BY DEF CallsInv, SealedInv, Next
  <2> QED
    BY <2>1, StepSafe
<1>3. /\ m \in Nat \ {0} /\ \A j \in 1 .. m : FrameBase(j)' = FrameBase(j)
  BY <1>1, <1>2, ReturnFrames
<1>4. /\ k + 1 \in 1 .. m /\ m > 1 /\ m \in 1 .. m /\ m + 1 \in 1 .. m + 1
      /\ k + 1 <= m /\ k \in 1 .. m /\ m \in 1 .. m + 1 /\ k + 1 \in 1 .. m + 1
  BY <1>1, <1>3
<1>5. LinkSlot(k)' = LinkSlot(k)
  BY <1>3, <1>4 DEF LinkSlot
<1>6. /\ LinkSlot(k) <= FrameBase(m) /\ LinkSlot(k) \in Nat /\ FrameBase(m) \in Nat
  BY <1>1, <1>2, <1>4, BasesBelow, FrameBaseType DEF LinkSlot, ExecuteInv
<1>7. FrameBase(m) < base
  <2>1. PICK c : c = Link(m).val
    OBVIOUS
  <2>2. /\ c \in DOMAIN prog.code /\ prog.code[c].op = "CALL"
        /\ LinkSlot(m) = stack[m].base_slot + prog.code[c].a
        /\ c \in FunctionPcs(prog.code)
    BY <1>1, <1>2, <1>4, <2>1 DEF AllLinked, Linked
  <2>3. prog.code[c].a > 0
    BY <2>2, Convention DEF KeepsSlot0, Writers
  <2>4. prog.code[c].a \in Nat
    BY <1>2, <2>2, OperandOf DEF ExecuteInv
  <2>5. LinkSlot(m) = base /\ FrameBase(m) = stack[m].base_slot
    <3>1. m <= Len(stack) /\ ~(m + 1 <= Len(stack))
      BY <1>1, <1>4
    <3> QED
      BY <3>1 DEF LinkSlot, FrameBase
  <2> QED
    BY <1>6, <2>2, <2>3, <2>4, <2>5
<1>8. LinkSlot(k) \in 0 .. base - 1
  BY <1>2, <1>6, <1>7 DEF ExecuteInv, TypeOK
<1> QED
  BY <1>2, <1>5, <1>8 DEF Isolated, Link

LEMMA ReturnInv ==
  ASSUME CallsInv, Compliant(prog), Ret, stack # <<>>
  PROVE  (AllLinked /\ InFunction)'
<1>1. PICK m : m = Len(stack)
  OBVIOUS
<1>2. ExecuteInv /\ AllLinked /\ prog' = prog
  BY DEF CallsInv, SealedInv, Ret, RunsOn
<1>3. /\ m \in Nat \ {0} /\ Len(stack') = m - 1
      /\ \A k \in 1 .. m - 1 : stack'[k] = stack[k]
  BY <1>1, <1>2, ReturnFrames
<1>4. ASSUME NEW k \in 1 .. m - 1 PROVE Linked(k)'
  <2>1. Linked(k)
    BY <1>1, <1>2, <1>3, <1>4 DEF AllLinked
  <2> QED
    BY <1>1, <1>2, <1>3, <2>1, ReturnKeepsLinks DEF Linked
<1>5. AllLinked'
  BY <1>3, <1>4 DEF AllLinked
<1>6. InFunction'
  <2>1. PICK c : c = Link(m).val
    OBVIOUS
  <2>2. /\ c \in DOMAIN prog.code /\ prog.code[c].op = "CALL"
        /\ c \in FunctionPcs(prog.code) <=> m > 1
    BY <1>1, <1>2, <1>3, <2>1 DEF AllLinked, Linked
  <2>3. pc' = c + 1
    BY <1>1, <2>1, ReturnFollows
  <2>4. c + 1 \in Successors(prog.code, c)
    BY <2>2, PlainSuccessors
  <2>5. c + 1 \in FunctionPcs(prog.code) <=> m > 1
    BY <2>2, <2>4, Convention
  <2>6. stack' # <<>> <=> m > 1
    <3>1. stack' \in Seq(Context)
      BY <1>2, FrontFacts DEF Ret, ExecuteInv, TypeOK
    <3> QED
      BY <1>3, <3>1
  <2> QED
    BY <1>2, <2>3, <2>5, <2>6 DEF InFunction
<1> QED
  BY <1>5, <1>6

-----------------------------------------------------------------------------
(* The theorems.                                                           *)

LEMMA CallsInit == Init => CallsInv
<1> SUFFICES ASSUME Init PROVE CallsInv
  OBVIOUS
<1>1. SealedInv
  BY InitSafe, WordsInit DEF SealedInv
<1>2. stack = <<>> /\ pc = 0 /\ Len(stack) = 0
  BY DEF Init
<1>3. AllLinked
  BY <1>2 DEF AllLinked
<1>4. Compliant(prog) => InFunction
  BY <1>2 DEF Compliant, InFunction
<1> QED
  BY <1>1, <1>3, <1>4 DEF CallsInv

LEMMA CallsStep == CallsInv /\ [Next]_vars => CallsInv'
<1> SUFFICES ASSUME CallsInv, [Next]_vars PROVE CallsInv'
  OBVIOUS
<1>1. SealedInv'
  BY SealedStep DEF CallsInv
<1>2. CASE Next
  <2>1. prog' = prog
    BY <1>2, ProgramConstant
  <2>2. ASSUME Compliant(prog) PROVE (AllLinked /\ InFunction)'
    BY <1>2, <2>2, StepKinds, StaysInv, CallInv, ReturnInv
  <2> QED
    BY <1>1, <2>1, <2>2 DEF CallsInv
<1>3. CASE UNCHANGED vars
  <2>1. AllLinked' = AllLinked /\ InFunction' = InFunction /\ prog' = prog
    BY <1>3 DEF vars, AllLinked, Linked, Link, LinkSlot, FrameBase, InFunction
  <2> QED
    BY <1>1, <2>1 DEF CallsInv
<1> QED
  BY <1>2, <1>3

LEMMA CallsInvHolds == Spec => []CallsInv
BY CallsInit, CallsStep, PTL DEF Spec

(* For every compliant program: the callee's slot 0 holds the address of   *)
(* the CALL, so that RET returns behind it.                                *)
THEOREM ReturnsMatchCalls == Spec => []ReturnAddresses
BY CallsInvHolds, CallsInvReturns, PTL

-----------------------------------------------------------------------------
(* The interpreter implements CallReturn.                                  *)

(* What the kinds of step do to the abstract stack.                        *)
LEMMA StaysAbstract ==
  ASSUME CallsInv, Compliant(prog), Stays, TypeOK'
  PROVE  Abstract!Step
<1>1. stack' = stack /\ base' = base /\ pc' \in Nat
  BY DEF Stays, TypeOK
<1>2. \A k \in 1 .. Len(stack) : Link(k)' = Link(k)
  BY StaysLinks
<1> QED
  BY <1>1, <1>2 DEF Abstract!Step

LEMMA CallAbstract ==
  ASSUME CallsInv, Compliant(prog), CallFunction, TypeOK'
  PROVE  Abstract!Call
<1>1. PICK m : m = Len(stack)
  OBVIOUS
<1>2. /\ ExecuteInv /\ TypeOK /\ pc' \in Nat /\ pc \in Nat
  BY DEF CallsInv, SealedInv, ExecuteInv, TypeOK
<1>3. /\ m \in Nat /\ Len(stack') = m + 1
      /\ \A k \in 1 .. m : stack'[k] = stack[k]
      /\ stack'[m + 1].base_slot = base
  BY <1>1, <1>2, CallFrames
<1>4. \A k \in 1 .. m : Link(k)' = Link(k)
  BY <1>1, CallKeepsLinks
<1>5. Link(m + 1)'.val = pc
  BY <1>1, <1>2, CallLinks
<1> DEFINE old == [k \in 1 .. m |-> [at |-> Link(k).val + 1, frame |-> stack[k].base_slot]]
           new == [k \in 1 .. m + 1 |->
                     [at |-> Link(k)'.val + 1, frame |-> stack'[k].base_slot]]
<1>6. new = Append(old, [at |-> pc + 1, frame |-> base])
  <2> DEFINE f(k) == [at |-> Link(k).val + 1, frame |-> stack[k].base_slot]
             g(k) == [at |-> Link(k)'.val + 1, frame |-> stack'[k].base_slot]
  <2>1. \A k \in 1 .. m : g(k) = f(k)
    BY <1>3, <1>4
  <2>2. g(m + 1) = [at |-> pc + 1, frame |-> base]
    BY <1>3, <1>5
  <2>3. old = [k \in 1 .. m |-> f(k)] /\ new = [k \in 1 .. m + 1 |-> g(k)]
    OBVIOUS
  <2> HIDE DEF f, g
  <2> QED
    BY <1>3, <2>1, <2>2, <2>3
<1>7. base' \in Nat /\ base' >= base
  BY <1>2, InstrType DEF CallFunction, Fetch, newbase, TypeOK
<1> QED
  BY <1>1, <1>2, <1>3, <1>6, <1>7 DEF Abstract!Call

LEMMA ReturnAbstract ==
  ASSUME CallsInv, Compliant(prog), Ret, stack # <<>>
  PROVE  Abstract!Return
<1>1. PICK m : m = Len(stack)
  OBVIOUS
<1>2. ExecuteInv
  BY DEF CallsInv, SealedInv
<1>3. /\ m \in Nat \ {0} /\ Len(stack') = m - 1 /\ base' = stack[m].base_slot
      /\ \A k \in 1 .. m - 1 : stack'[k] = stack[k]
  BY <1>1, <1>2, ReturnFrames
<1>4. \A k \in 1 .. m - 1 : Link(k)' = Link(k)
  BY <1>1, ReturnKeepsLinks
<1>5. pc' = Link(m).val + 1
  BY <1>1, ReturnFollows
<1> DEFINE old == [k \in 1 .. m |-> [at |-> Link(k).val + 1, frame |-> stack[k].base_slot]]
           new == [k \in 1 .. m - 1 |->
                     [at |-> Link(k)'.val + 1, frame |-> stack'[k].base_slot]]
<1>6. /\ Len(old) = m /\ old # <<>>
      /\ pc' = old[Len(old)].at /\ base' = old[Len(old)].frame
      /\ new = [k \in 1 .. Len(old) - 1 |-> old[k]]
  <2> DEFINE f(k) == [at |-> Link(k).val + 1, frame |-> stack[k].base_slot]
             g(k) == [at |-> Link(k)'.val + 1, frame |-> stack'[k].base_slot]
  <2>1. \A k \in 1 .. m - 1 : g(k) = f(k)
    BY <1>3, <1>4
  <2>2. f(m).at = pc' /\ f(m).frame = base'
    BY <1>3, <1>5
  <2>3. old = [k \in 1 .. m |-> f(k)] /\ new = [k \in 1 .. m - 1 |-> g(k)]
    OBVIOUS
  <2> HIDE DEF f, g
  <2>4. Len(old) = m /\ m \in 1 .. m /\ \A k \in 1 .. m : old[k] = f(k)
    BY <1>3, <2>3
  <2>5. old # <<>>
    BY <1>3, <2>4
  <2>6. new = [k \in 1 .. m - 1 |-> old[k]]
    BY <1>3, <2>1, <2>3, <2>4
  <2> QED
    BY <2>2, <2>4, <2>5, <2>6
<1>7. /\ pc' = Abstract!Last(old).at /\ base' = Abstract!Last(old).frame
      /\ new = Abstract!Front(old)
  <2> HIDE DEF old, new
  <2> QED
    BY <1>6 DEF Abstract!Last, Abstract!Front
<1> QED
  BY <1>1, <1>3, <1>6, <1>7 DEF Abstract!Return

(* For every compliant program: the return addresses in the slots and the  *)
(* bases behave as a stack which no instruction touches but CALL and RET.  *)
THEOREM CallReturnImplemented ==
  ASSUME \A p \in Programs : Compliant(p)
  PROVE  Spec => ImplementsCallReturn
<1>1. Init => Abstract!CRInit
  BY DEF Init, Abstract!CRInit
<1>2. Init => Compliant(prog)
  BY DEF Init
<1>3. Compliant(prog) /\ [Next]_vars => Compliant(prog)'
  <2>1. [Next]_vars => prog' = prog
    BY ProgramConstant DEF vars
  <2> QED
    BY <2>1
<1>4. Spec => []Compliant(prog)
  BY <1>2, <1>3, PTL DEF Spec
<1>5. CallsInv /\ CallsInv' /\ Compliant(prog) /\ [Next]_vars
        => [Abstract!CRNext]_(Abstract!crVars)
  <2> SUFFICES ASSUME CallsInv, TypeOK', Compliant(prog), [Next]_vars
               PROVE  [Abstract!CRNext]_(Abstract!crVars)
    BY DEF CallsInv, SealedInv, ExecuteInv
  <2>1. CASE Next
    BY <2>1, StepKinds, StaysAbstract, CallAbstract, ReturnAbstract DEF Abstract!CRNext
  <2>2. CASE UNCHANGED vars
    BY <2>2 DEF vars, Abstract!crVars, Link, LinkSlot, FrameBase
  <2> QED
    BY <2>1, <2>2
<1> QED
  BY <1>1, <1>4, <1>5, CallsInvHolds, PTL
  DEF Spec, ImplementsCallReturn, Abstract!CallReturnSpec

-----------------------------------------------------------------------------
(* Programs that never jump back.                                          *)

LEMMA PositionFacts ==
  ASSUME NEW m \in Nat, m = Len(stack)
  PROVE  /\ Len(Position) = m + 1 /\ Position[m + 1] = pc
         /\ \A k \in 1 .. m : Position[k] = Link(k).val
BY DEF Position

LEMMA NextPositionFacts ==
  ASSUME NEW m \in Nat, m = Len(stack')
  PROVE  /\ Len(Position') = m + 1 /\ Position'[m + 1] = pc'
         /\ \A k \in 1 .. m : Position'[k] = Link(k)'.val
BY DEF Position

(* In such a program control goes on within a frame.                       *)
LEMMA ForwardSuccessors ==
  ASSUME TypeOK, Forward(prog), pc \in DOMAIN prog.code,
         NEW n \in Successors(prog.code, pc)
  PROVE  n > pc
<1>1. pc \in 0 .. IntHalf - 1 /\ pc + 1 > pc
  BY NextPc
<1>2. CASE inst.op \in {"JUMP", "JUMPF", "JUMPT"}
  <2>1. inst.d \in 1 .. ShortHalf - 1
    BY <1>2 DEF Forward, inst
  <2>2. ToShort(inst.d) = inst.d /\ pc + inst.d \in 0 .. 2 * IntHalf - 1
    BY <1>1, <2>1, Widths DEF ToShort
  <2>3. ToPc(pc + ToShort(inst.d)) = pc + inst.d
    BY <2>2, Widths DEF ToPc
  <2>4. n = pc + 1 \/ n = ToPc(pc + ToShort(inst.d))
    BY <1>2 DEF Successors, inst
  <2> QED
    BY <1>1, <2>1, <2>3, <2>4
<1>3. CASE inst.op \notin {"JUMP", "JUMPF", "JUMPT"}
  <2>1. n = pc + 1
    BY <1>3 DEF Successors, Forward, inst
  <2> QED
    BY <1>1, <2>1
<1> QED
  BY <1>2, <1>3

LEMMA StaysMovesOn ==
  ASSUME CallsInv, Compliant(prog), Forward(prog), Stays, status' = "running"
  PROVE  Precedes(Position, Position')
<1>1. PICK m \in Nat : m = Len(stack)
  BY DEF CallsInv, SealedInv, ExecuteInv, TypeOK
<1>2. stack' = stack /\ pc' > pc /\ \A k \in 1 .. m : Link(k)' = Link(k)
  BY <1>1, ForwardSuccessors, StaysLinks DEF Stays, CallsInv, SealedInv, ExecuteInv
<1> DEFINE p == Position
           q == Position'
<1>3. /\ Len(p) = m + 1 /\ Len(q) = m + 1 /\ p[m + 1] < q[m + 1]
      /\ \A k \in 1 .. m : p[k] = q[k]
  BY <1>1, <1>2, PositionFacts, NextPositionFacts
<1> HIDE DEF p, q
<1>4. m + 1 \in 1 .. Len(q)
  BY <1>3
<1> QED
  BY <1>3, <1>4 DEF Precedes, p, q

LEMMA CallMovesOn ==
  ASSUME CallsInv, Compliant(prog), CallFunction
  PROVE  Precedes(Position, Position')
<1>1. ExecuteInv
  BY DEF CallsInv, SealedInv
<1>2. PICK m \in Nat : m = Len(stack)
  BY <1>1 DEF ExecuteInv, TypeOK
<1>3. /\ Len(stack') = m + 1 /\ Link(m + 1)'.val = pc
      /\ \A k \in 1 .. m : Link(k)' = Link(k)
  BY <1>1, <1>2, CallFrames, CallLinks, CallKeepsLinks
<1> DEFINE p == Position
           q == Position'
<1>4. /\ Len(p) = m + 1 /\ Len(q) = m + 2
      /\ \A k \in 1 .. m + 1 : p[k] = q[k]
  <2>1. PICK n \in Nat : n = m + 1
    OBVIOUS
  <2>2. /\ Len(p) = n /\ p[n] = pc
        /\ \A k \in 1 .. m : p[k] = Link(k).val
    BY <1>2, <2>1, PositionFacts
  <2>3. /\ Len(q) = n + 1
        /\ \A k \in 1 .. n : q[k] = Link(k)'.val
    BY <1>3, <2>1, NextPositionFacts
  <2>4. q[n] = pc
    BY <1>3, <2>1, <2>3
  <2>5. \A k \in 1 .. m : q[k] = p[k]
    BY <1>3, <2>1, <2>2, <2>3
  <2> HIDE DEF p, q
  <2> QED
    BY <2>1, <2>2, <2>3, <2>4, <2>5
<1> HIDE DEF p, q
<1>5. m + 2 \in 1 .. Len(q) /\ m + 2 = Len(p) + 1 /\ \A k \in 1 .. (m + 2) - 1 : k <= Len(p)
  BY <1>4
<1> QED
  BY <1>4, <1>5 DEF Precedes, p, q

LEMMA ReturnMovesOn ==
  ASSUME CallsInv, Compliant(prog), Ret, stack # <<>>
  PROVE  Precedes(Position, Position')
<1>1. ExecuteInv
  BY DEF CallsInv, SealedInv
<1>2. PICK m : m = Len(stack)
  OBVIOUS
<1>3. /\ m \in Nat \ {0} /\ Len(stack') = m - 1
      /\ pc' = Link(m).val + 1 /\ Link(m).val \in Nat
      /\ \A k \in 1 .. m - 1 : Link(k)' = Link(k)
  BY <1>1, <1>2, ReturnFrames, ReturnFollows, ReturnKeepsLinks
<1>4. m - 1 \in Nat /\ (m - 1) + 1 = m
  BY <1>3
<1> DEFINE p == Position
           q == Position'
<1>5. /\ Len(p) = m + 1 /\ Len(q) = m /\ p[m] < q[m]
      /\ \A k \in 1 .. m - 1 : p[k] = q[k]
  <2>1. PICK n \in Nat : n = m - 1
    BY <1>4
  <2>2. Len(p) = m + 1 /\ \A k \in 1 .. m : p[k] = Link(k).val
    BY <1>2, <1>3, PositionFacts
  <2>3. /\ Len(q) = n + 1 /\ q[n + 1] = pc'
        /\ \A k \in 1 .. n : q[k] = Link(k)'.val
    BY <1>3, <2>1, NextPositionFacts
  <2>4. p[m] = Link(m).val
    BY <1>3, <2>2
  <2>5. \A k \in 1 .. n : p[k] = q[k]
    BY <1>3, <2>1, <2>2, <2>3
  <2> HIDE DEF p, q
  <2> QED
    BY <1>3, <2>1, <2>2, <2>3, <2>4, <2>5
<1> HIDE DEF p, q
<1>6. m \in 1 .. Len(q) /\ m <= Len(p) /\ \A k \in 1 .. m - 1 : k <= Len(p)
  BY <1>3, <1>5
<1> QED
  BY <1>5, <1>6 DEF Precedes, p, q

(* For every compliant program that never jumps back: its position grows in*)
(* the lexicographic order with every step, so it never comes back to one. *)
THEOREM ForwardProgramsMoveOn == Spec => MovesOn
<1>1. CallsInv /\ [Next]_vars
        => [Compliant(prog) /\ Forward(prog) /\ status' = "running"
              => Precedes(Position, Position')]_vars
  <2> SUFFICES ASSUME CallsInv, Next, Compliant(prog), Forward(prog), status' = "running"
               PROVE  Precedes(Position, Position')
    OBVIOUS
  <2> QED
    BY StepKinds, StaysMovesOn, CallMovesOn, ReturnMovesOn
<1> QED
  BY <1>1, CallsInvHolds, PTL DEF Spec, MovesOn

-----------------------------------------------------------------------------
(* What single instructions compute.                                       *)

(* Slot j of array s exists and holds w.                                  *)
Holds(s, j, w) == j < s.size /\ s.data[j] = w

(* The step writes word w to slot i and goes on to the next instruction.   *)
Writes(i, w) ==
  /\ status' = "running" /\ pc' = pc + 1 /\ base' = base /\ stack' = stack
  /\ Holds(slots', i, w)
  /\ \A j \in Nat : \A v : j # i /\ Holds(slots, j, v) => Holds(slots', j, v)

LEMMA SlotSetHolds ==
  ASSUME NEW s, IsSlots(s), NEW i \in Nat, NEW w
  PROVE  /\ Holds(SlotSet(s, i, w), i, w)
         /\ \A j \in Nat : \A v : j # i /\ Holds(s, j, v) => Holds(SlotSet(s, i, w), j, v)
<1> DEFINE n == LongerOf(s.size, i + 1)
           f == [j \in 0 .. n - 1 |-> IF j = i THEN w
                                      ELSE IF j < s.size THEN s.data[j] ELSE get_nil]
<1>1. s.size \in Nat /\ n \in Nat /\ n >= s.size /\ n >= i + 1
  BY DEF IsSlots, LongerOf
<1>2. SlotSet(s, i, w) = [size |-> n, data |-> f]
  BY DEF SlotSet
<1> HIDE DEF n
<1>3. f[i] = w /\ \A j \in Nat : j # i /\ j < s.size => j < n /\ f[j] = s.data[j]
  BY <1>1
<1> HIDE DEF f
<1> QED
  BY <1>1, <1>2, <1>3 DEF Holds

LEMMA ProduceWrites ==
  ASSUME ExecuteInv, status = "running", pc \in DOMAIN prog.code, NEW w, Produce(w)
  PROVE  Writes(base + inst.a, w)
<1>1. /\ slots' = SlotSet(slots, base + inst.a, w) /\ pc' = ToPc(pc + 1)
      /\ UNCHANGED <<base, stack, status>>
  BY DEF Produce, RunsOn, set, Advance, Goto, SameFrame
<1>2. IsSlots(slots) /\ base + inst.a \in Nat
  BY InstrType DEF ExecuteInv, TypeOK
<1>3. pc' = pc + 1
  BY <1>1, NextPc DEF ExecuteInv
<1> QED
  BY <1>1, <1>2, <1>3, SlotSetHolds DEF Writes

(* An instruction that ends in none of the error stops.                    *)
Goes == Next /\ status' \in {"running", "end"}

LEMMA GoesFetches ==
  ASSUME Goes
  PROVE  /\ status = "running" /\ pc \in DOMAIN prog.code
         /\ inst.op \in {"CSTR", "CSHORT"} => Cstr \/ Cshort
         /\ inst.op = "FNEW" => Fnew
         /\ inst.op = "NSGET" => Nsget
         /\ inst.op \in {"ADDVV", "SUBVV"} => Arith
         /\ inst.op = "MOV" => Mov
         /\ inst.op = "CALL" => CallFunction \/ CallBuiltin
         /\ inst.op = "RET" => Ret
         /\ inst.op = "FUNCF" => Skip
         /\ inst.op = "EXIT" => Exit
<1>1. /\ SlotError => Stop({"slot_error"})
      /\ CallNowhere => Stop({"crash"}) \/ Stop({"crash", "wild"})
      /\ CallError => Stop({"call_error"}) \/ Stop({"crash"})
      /\ FetchOutside => Stop({"crash", "wild"})
  BY DEF SlotError, CallNowhere, CallError, FetchOutside
<1>2. ~SlotError /\ ~CallNowhere /\ ~CallError /\ ~FetchOutside
  BY <1>1 DEF Goes, Stop
<1>3. /\ Cstr => Fetch({"CSTR"})
      /\ Cshort => Fetch({"CSHORT"})
      /\ Ctype => Fetch({"CTYPE"})
      /\ Cbool => Fetch({"CBOOL"})
      /\ Cnil => Fetch({"CNIL"})
      /\ Fnew => Fetch({"FNEW"})
      /\ Ckey => Fetch({"CKEY"})
      /\ Nsset => Fetch({"NSSET"})
      /\ Nsget => Fetch({"NSGET"})
      /\ Arith => Fetch({"ADDVV", "SUBVV", "MULVV", "DIVVV"})
      /\ Modvv => Fetch({"MODVV"})
      /\ Iseq => Fetch({"ISEQ"})
      /\ Mov => Fetch({"MOV"})
  BY DEF Cstr, Cshort, Ctype, Cbool, Cnil, Fnew, Ckey, Nsset, Nsget, Iseq, Arith, Modvv, Mov
<1>4. /\ Bulkmov => Fetch({"BULKMOV"})
      /\ Jump => Fetch({"JUMP"})
      /\ Jumpf => Fetch({"JUMPF"})
      /\ Jumpt => Fetch({"JUMPT"})
      /\ Loop => Fetch({"LOOP"})
      /\ Skip => Fetch(Skipped)
      /\ Exit => Fetch({"EXIT"})
      /\ CallFunction \/ CallBuiltin => Fetch({"CALL"})
      /\ Ret => Fetch({"RET"})
      /\ Alloc => Fetch({"ALLOC"})
      /\ Setfield => Fetch({"SETFIELD"})
      /\ Getfield => Fetch({"GETFIELD"})
  BY DEF Bulkmov, Jump, Jumpf, Jumpt, Loop, Exit, Skip, Ret, CallFunction, CallBuiltin,
         Alloc, Setfield, Getfield
<1>5. inst.op \in Skipped => inst.op \notin {"CSTR", "CSHORT", "FNEW", "NSGET", "ADDVV",
                                            "SUBVV", "MOV", "CALL", "RET", "EXIT"}
  BY DEF Skipped
<1> QED
  BY <1>2, <1>3, <1>4, <1>5 DEF Goes, Next, Fetch

LEMMA ConstantWrites ==
  ASSUME ExecuteInv, Goes, inst.op \in {"CSHORT", "CSTR"}
  PROVE  Writes(base + inst.a, to_small_int(inst.d))
BY GoesFetches, ProduceWrites DEF Cshort, Cstr

LEMMA FunctionWrites ==
  ASSUME ExecuteInv, Goes, inst.op = "FNEW", inst.d < ShortHalf
  PROVE  Writes(base + inst.a, to_fnew(inst.d))
<1>1. ToShort(inst.d) = inst.d
  BY DEF ToShort
<1> QED
  BY <1>1, GoesFetches, ProduceWrites DEF Fnew

LEMMA GlobalWrites ==
  ASSUME ExecuteInv, Goes, inst.op = "NSGET"
  PROVE  \E n \in Names : Writes(base + inst.a, symtab[n])
<1>1. Nsget /\ status = "running" /\ pc \in DOMAIN prog.code
  BY GoesFetches
<1>2. inst.d \in DOMAIN prog.cstr
  BY <1>1 DEF Nsget, Stop, Goes
<1>3. prog.cstr[inst.d].name \in Names
  BY <1>2 DEF ExecuteInv, TypeOK, IsProgram
<1>4. Produce(symtab[prog.cstr[inst.d].name])
  BY <1>1, <1>2 DEF Nsget, get_symbol_table
<1> QED
  BY <1>1, <1>3, <1>4, ProduceWrites

LEMMA MoveWrites ==
  ASSUME ExecuteInv, Goes, inst.op = "MOV"
  PROVE  Writes(base + inst.a, get(inst.d))
BY GoesFetches, ProduceWrites DEF Mov

(* Sums and differences in the range of int32_t, of integers that have     *)
(* kept their tag.                                                         *)
LEMMA SumWrites ==
  ASSUME ExecuteInv, Goes, inst.op \in {"ADDVV", "SUBVV"},
         NEW x \in Nat, NEW y \in Nat, NEW z \in CInt, x < IntHalf, y < IntHalf,
         z = IF inst.op = "ADDVV" THEN x + y ELSE x - y,
         Holds(slots, base + inst.b, to_small_int(x)),
         Holds(slots, base + inst.c, to_small_int(y))
  PROVE  Writes(base + inst.a, to_small_int(z))
<1>1. Arith /\ status = "running" /\ pc \in DOMAIN prog.code
  BY GoesFetches
<1>2. get(inst.b) = to_small_int(x) /\ get(inst.c) = to_small_int(y)
  BY DEF get, Holds
<1>3. /\ to_small_int(x) = [tag |-> TAG_SMALL_INTEGER, val |-> x]
      /\ to_small_int(y) = [tag |-> TAG_SMALL_INTEGER, val |-> y]
  BY DEF to_small_int, SignExtendOr
<1>4. bothInts /\ get_small_int(get(inst.b)) = x /\ get_small_int(get(inst.c)) = y
  <2>1. ToInt(x) = x /\ ToInt(y) = y
    BY Widths DEF ToInt
  <2> QED
    BY <1>2, <1>3, <2>1 DEF bothInts, is_small_int, get_small_int
<1>5. Computed(x, y) = z
  BY DEF Computed
<1>6. result(z) = to_small_int(z)
  BY ToIntIdentity DEF result
<1>7. Produce(to_small_int(z))
  <2>1. \/ Produce(result(Computed(x, y)))
        \/ ~bothInts
        \/ ~bothNumbers
    BY <1>1, <1>4 DEF Arith
  <2>2. bothInts => bothNumbers
    BY DEF bothInts, bothNumbers, isNumber
  <2> QED
    BY <1>4, <1>5, <1>6, <2>1, <2>2
<1> QED
  BY <1>1, <1>7, ProduceWrites

(* Whatever they compute, these instructions change their target only.     *)
LEMMA TargetOnly ==
  ASSUME ExecuteInv, Goes, inst.op \in {"FUNCF", "CSHORT", "FNEW", "MOV", "ADDVV"}
  PROVE  /\ status' = "running" /\ pc' = pc + 1 /\ base' = base /\ stack' = stack
         /\ \A j \in Nat : \A v :
              (j # base + inst.a \/ inst.op = "FUNCF") /\ Holds(slots, j, v)
                => Holds(slots', j, v)
<1>1. /\ pc \in DOMAIN prog.code /\ status = "running"
      /\ pc \in 0 .. IntHalf - 1 /\ ToPc(pc + 1) = pc + 1
  BY GoesFetches, NextPc DEF ExecuteInv
<1>2. \/ \E w : Produce(w) /\ inst.op # "FUNCF"
      \/ Proceed(pc + 1)
  <2>1. inst.op = "ADDVV" => (\E w : Produce(w)) \/ Proceed(pc + 1) \/ Stop({"crash"})
    BY GoesFetches DEF Arith
  <2>2. ~Stop({"crash"})
    BY DEF Goes, Stop
  <2>3. inst.op \in {"CSHORT", "FNEW", "MOV"} => \E w : Produce(w)
    BY GoesFetches DEF Cshort, Cstr, Fnew, Mov
  <2> QED
    BY <2>1, <2>2, <2>3, GoesFetches DEF Skip
<1>3. CASE Proceed(pc + 1)
  BY <1>1, <1>3 DEF Proceed, Goto, SameFrame, RunsOn
<1>4. ASSUME NEW w, Produce(w), inst.op # "FUNCF" PROVE Writes(base + inst.a, w)
  BY <1>1, <1>4, ProduceWrites
<1> QED
  BY <1>2, <1>3, <1>4 DEF Writes

LEMMA ExitEnds ==
  ASSUME Goes, inst.op = "EXIT"
  PROVE  status' = "end" /\ base' = base /\ stack' = stack /\ slots' = slots
BY GoesFetches DEF Exit, SameFrame

(* The call of a function known to be in its slot.                         *)
LEMMA CallSteps ==
  ASSUME ExecuteInv, Goes, inst.op = "CALL",
         NEW f \in 1 .. ShortHalf - 1, Holds(slots, base + (inst.a + 1), to_fnew(f))
  PROVE  /\ status' = "running" /\ pc' = f /\ base' = base + inst.a
         /\ Len(stack') = Len(stack) + 1
         /\ \A k \in 1 .. Len(stack) : stack'[k] = stack[k]
         /\ stack'[Len(stack) + 1].base_slot = base
         /\ Holds(slots', base + inst.a, to_small_int(pc))
         /\ \A j \in Nat : \A v :
              j # base + inst.a /\ Holds(slots, j, v) => Holds(slots', j, v)
<1>1. pc \in DOMAIN prog.code /\ status = "running" /\ (CallFunction \/ CallBuiltin)
  BY GoesFetches
<1>2. callee = to_fnew(f)
  BY DEF callee, get, Holds
<1>3. to_fnew(f) = [tag |-> TAG_FNEW, val |-> f] /\ f % (2 * ShortHalf) = f
  BY Widths DEF to_fnew, SignExtendOr
<1>4. ~is_builtin(callee) /\ func = f
  BY <1>2, <1>3 DEF is_builtin, is_fnew, func, get_fnew, TAG_FNEW, TAG_BUILTIN
<1>5. CallFunction
  BY <1>1, <1>4 DEF CallBuiltin
<1>6. pc \in 0 .. IntHalf - 1 /\ ToInt(pc) = pc
  BY <1>1, NextPc DEF ExecuteInv
<1>7. slots' = SlotSet(slots, base + inst.a, to_small_int(pc))
  BY <1>5, <1>6 DEF CallFunction, called, newbase
<1>8. IsSlots(slots) /\ base + inst.a \in Nat
  BY <1>1, InstrType DEF ExecuteInv, TypeOK
<1>9. PICK m : m = Len(stack)
  OBVIOUS
<1>10. /\ Len(stack') = m + 1 /\ \A k \in 1 .. m : stack'[k] = stack[k]
       /\ stack'[m + 1].base_slot = base
  BY <1>5, <1>9, CallFrames
<1> QED
  BY <1>1, <1>4, <1>5, <1>7, <1>8, <1>9, <1>10, SlotSetHolds DEF CallFunction, RunsOn, newbase

(* The return to a known address.                                          *)
LEMMA ReturnSteps ==
  ASSUME ExecuteInv, Goes, inst.op = "RET", inst.a > 0,
         NEW c \in 0 .. IntHalf - 1, Holds(slots, base, to_small_int(c))
  PROVE  /\ status' = "running" /\ pc' = c + 1
         /\ Len(stack') = Len(stack) - 1 /\ base' = stack[Len(stack)].base_slot
         /\ \A k \in 1 .. Len(stack) - 1 : stack'[k] = stack[k]
         /\ Holds(slots', base, get(inst.a))
         /\ \A j \in Nat : \A v :
              j # base /\ j < base + inst.a /\ Holds(slots, j, v) => Holds(slots', j, v)
<1>1. pc \in DOMAIN prog.code /\ status = "running" /\ Ret
  BY GoesFetches
<1>2. stack # <<>>
  BY <1>1 DEF Ret, Stop, Goes
<1>3. PICK m : m = Len(stack)
  OBVIOUS
<1>4. /\ Len(stack') = m - 1 /\ base' = stack[m].base_slot
      /\ \A k \in 1 .. m - 1 : stack'[k] = stack[k]
  BY <1>1, <1>2, <1>3, ReturnFrames
<1> DEFINE w == get(inst.a)
           t == SlotSet(slots, base, w)
<1>5. /\ IsSlots(slots) /\ base \in Nat /\ base + 0 = base /\ base + inst.a \in Nat
      /\ base < base + inst.a
  BY <1>1, InstrType DEF ExecuteInv, TypeOK
<1>6. resume = c + 1
  <2>1. get(0) = to_small_int(c)
    BY <1>5 DEF get, Holds
  <2>2. to_small_int(c) = [tag |-> TAG_SMALL_INTEGER, val |-> c] /\ ToInt(c) = c
    BY Widths DEF to_small_int, SignExtendOr, ToInt
  <2> QED
    BY <2>1, <2>2 DEF resume, get_small_int
<1>7. ToPc(c + 1) = c + 1
  BY Widths DEF ToPc
<1>8. slots' = SlotTruncate(t, base + inst.a) /\ pc' = c + 1 /\ status' = "running"
  BY <1>1, <1>2, <1>6, <1>7 DEF Ret, Goto, RunsOn
<1>9. /\ Holds(t, base, w)
      /\ \A j \in Nat : \A v : j # base /\ Holds(slots, j, v) => Holds(t, j, v)
  BY <1>5, SlotSetHolds
<1> HIDE DEF t, w
<1>10. \A j \in Nat : \A v :
         j < base + inst.a /\ Holds(t, j, v) => Holds(SlotTruncate(t, base + inst.a), j, v)
  BY <1>5 DEF Holds, SlotTruncate
<1>11. /\ Holds(slots', base, w)
       /\ \A j \in Nat : \A v :
            j # base /\ j < base + inst.a /\ Holds(slots, j, v) => Holds(slots', j, v)
  BY <1>5, <1>8, <1>9, <1>10
<1> QED
  BY <1>3, <1>4, <1>8, <1>11 DEF w

(* A builtin leaves nil in its slot 0.                                     *)
LEMMA BuiltinSteps ==
  ASSUME ExecuteInv, Goes, inst.op = "CALL",
         NEW n \in Names, Holds(slots, base + (inst.a + 1), builtins[n])
  PROVE  /\ status' = "running" /\ pc' = pc + 1 /\ base' = base /\ stack' = stack
         /\ Holds(slots', base + inst.a, get_nil)
<1>1. pc \in DOMAIN prog.code /\ status = "running" /\ (CallFunction \/ CallBuiltin)
  BY GoesFetches
<1>2. callee = builtins[n]
  BY DEF callee, get, Holds
<1>3. ~is_fnew(callee)
  BY <1>2 DEF builtins, is_fnew, to_builtin, get_nil, TAG_FNEW, TAG_BUILTIN
<1>4. CallBuiltin
  BY <1>1, <1>3 DEF CallFunction
<1>5. /\ slots' = SlotClear(builtin_println, newbase + 2, newbase + inst.a + 10)
      /\ pc' = ToPc(pc + 1) /\ UNCHANGED <<base, stack, status>>
  BY <1>4 DEF CallBuiltin, cleared, Goes, Stop, Advance, Goto, SameFrame, RunsOn
<1>6. /\ IsSlots(called) /\ newbase \in Nat /\ newbase = base + inst.a /\ inst.a \in Nat
  BY <1>1, CalledFacts, InstrType DEF newbase, ExecuteInv
<1>7. Holds(builtin_println, newbase, get_nil) /\ IsSlots(builtin_println)
  <2>1. 0 <= newbase /\ 0 <= called.size
    BY <1>6 DEF IsSlots
  <2> QED
    BY <1>6, <2>1, SlotSetHolds, SlotSetFacts, FixedWords DEF builtin_println
<1>8. Holds(SlotClear(builtin_println, newbase + 2, newbase + inst.a + 10), newbase, get_nil)
  <2> DEFINE s == builtin_println
             lo == newbase + 2
             hi == newbase + inst.a + 10
  <2>1. lo \in Nat /\ hi \in Nat /\ newbase < lo /\ IsSlots(s) /\ newbase + 1 \in Nat
    BY <1>6, <1>7
  <2>2. newbase < s.size /\ s.data[newbase] = get_nil /\ s.size \in Nat
    BY <1>7 DEF Holds, IsSlots
  <2> HIDE DEF s, lo, hi
  <2>3. Keeps(s, SlotClear(s, lo, hi), newbase + 1)
    BY <1>6, <2>1, <2>2, SlotClearFacts
  <2>4. newbase \in 0 .. (newbase + 1) - 1
    BY <1>6
  <2>5. Holds(SlotClear(s, lo, hi), newbase, get_nil)
    BY <2>2, <2>3, <2>4 DEF Keeps, Holds
  <2> QED
    BY <2>5 DEF s, lo, hi
<1> QED
  BY <1>1, <1>5, <1>6, <1>8, NextPc DEF ExecuteInv

-----------------------------------------------------------------------------
(* The programs of module Fixtures.  Every instruction of them is executed *)
(* once, so there is one thing to say of the slots for each value of pc.   *)

Has(j, w) == Holds(slots, j, w)

(* The frames: of the program, which starts at slot 0, and of its calls.   *)
NoCall     == Len(stack) = 0 /\ base = 0
OneCall(b) == Len(stack) = 1 /\ stack[1].base_slot = 0 /\ base = b
TwoCalls(b, c) ==
  Len(stack) = 2 /\ stack[1].base_slot = 0 /\ stack[2].base_slot = b /\ base = c

(* The program stops at EXIT with word w in slot 0.                        *)
EndsWith(w) == status' = "end" /\ NoCall' /\ Has(0, w)'

LEMMA ExitStep ==
  ASSUME Goes, inst = AD("EXIT", 0, 0), NoCall, NEW w, Has(0, w)
  PROVE  EndsWith(w)
BY ExitEnds DEF AD, EndsWith, NoCall, Has

LEMMA FixtureOperands ==
  /\ ShortHalf \in Nat /\ IntHalf \in Nat
  /\ 26 < ShortHalf /\ UShort \subseteq Nat
  /\ \A n \in UShort : n + 18 < IntHalf
BY Widths, FixtureWidths DEF UShort

(* builtin1.cvmb and builtin_int.cvmb.                                     *)

BuiltinAt ==
  /\ pc \in 0 .. 3 /\ NoCall
  /\ pc = 0 => symtab = builtins
  /\ pc \in 1 .. 2 => \E n \in Names : Has(1, builtins[n])
  /\ pc = 3 => Has(0, get_nil)

LEMMA BuiltinCode ==
  ASSUME prog \in {builtin1, builtin_int}, pc \in DOMAIN prog.code
  PROVE  /\ pc = 0 => inst.op = "NSGET" /\ inst.a = 1
         /\ pc = 1 => inst.op \in {"CSTR", "CSHORT"} /\ inst.a = 2
         /\ pc = 2 => inst = AD("CALL", 0, 0)
         /\ pc = 3 => inst = AD("EXIT", 0, 0)
BY DEF builtin1, builtin_int, Returns, File, AD, inst

LEMMA BuiltinStep ==
  ASSUME ExecuteInv, Goes, prog \in {builtin1, builtin_int}, BuiltinAt
  PROVE  (status' = "running" /\ BuiltinAt') \/ EndsWith(get_nil)
<1>1. pc \in DOMAIN prog.code
  BY GoesFetches
<1>2. CASE pc = 0
  <2>1. inst.op = "NSGET" /\ inst.a = 1 /\ NoCall /\ symtab = builtins
    BY <1>1, <1>2, BuiltinCode DEF BuiltinAt
  <2>2. PICK n \in Names : Writes(1, builtins[n])
    BY <2>1, GlobalWrites DEF NoCall
  <2> QED
    BY <1>2, <2>1, <2>2 DEF Writes, BuiltinAt, NoCall, Has
<1>3. CASE pc = 1
  <2>1. inst.op \in {"CSTR", "CSHORT"} /\ inst.a = 2 /\ NoCall
    BY <1>1, <1>3, BuiltinCode DEF BuiltinAt
  <2>2. PICK n \in Names : Has(1, builtins[n])
    BY <1>3 DEF BuiltinAt
  <2>3. Writes(2, to_small_int(inst.d))
    BY <2>1, ConstantWrites DEF NoCall
  <2> QED
    BY <1>3, <2>1, <2>2, <2>3 DEF Writes, BuiltinAt, NoCall, Has
<1>4. CASE pc = 2
  <2>1. inst = AD("CALL", 0, 0) /\ NoCall
    BY <1>1, <1>4, BuiltinCode DEF BuiltinAt
  <2>2. PICK n \in Names : Has(1, builtins[n])
    BY <1>4 DEF BuiltinAt
  <2>3. inst.op = "CALL" /\ base + (inst.a + 1) = 1 /\ base + inst.a = 0
    BY <2>1 DEF AD, NoCall
  <2>4. /\ status' = "running" /\ pc' = pc + 1 /\ base' = base /\ stack' = stack
        /\ Holds(slots', 0, get_nil)
    BY <2>2, <2>3, BuiltinSteps DEF Has
  <2> QED
    BY <1>4, <2>1, <2>4 DEF BuiltinAt, NoCall, Has
<1>5. CASE pc = 3
  BY <1>1, <1>5, BuiltinCode, ExitStep DEF BuiltinAt
<1> QED
  BY <1>2, <1>3, <1>4, <1>5 DEF BuiltinAt


(* function-ret-trunc.cvmb and simple_fn_call_2.cvmb up to their second    *)
(* call: the first calls a function that adds k to n, kept in slot 2.      *)

FirstCallCode(n, k) ==
  /\ pc = 0 => inst = AD("FNEW", 1, 11)
  /\ pc = 1 => inst = AD("FNEW", 3, 6)
  /\ pc = 2 => inst = AD("CSHORT", 4, n)
  /\ pc = 3 => inst = AD("CALL", 2, 0)
  /\ pc = 4 => inst = AD("CALL", 0, 0)
  /\ pc = 6 => inst = AD("FUNCF", 0, 0)
  /\ pc = 7 => inst = AD("MOV", 3, 2)
  /\ pc = 8 => inst = AD("CSHORT", 4, k)
  /\ pc = 9 => inst = ABC("ADDVV", 3, 4, 3)
  /\ pc = 10 => inst = AD("RET", 3, 0)

FirstCallAt(n, k) ==
  \/ /\ pc \in 0 .. 3 /\ NoCall
     /\ pc >= 1 => Has(1, to_fnew(11))
     /\ pc >= 2 => Has(3, to_fnew(6))
     /\ pc = 3 => Has(4, to_small_int(n))
  \/ /\ pc \in 6 .. 10 /\ OneCall(2)
     /\ Has(1, to_fnew(11)) /\ Has(2, to_small_int(3))
     /\ pc \in 6 .. 7 => Has(4, to_small_int(n))
     /\ pc \in 8 .. 9 => Has(5, to_small_int(n))
     /\ pc = 9 => Has(6, to_small_int(k))
     /\ pc = 10 => Has(5, to_small_int(k + n))
  \/ pc = 4 /\ NoCall /\ Has(1, to_fnew(11)) /\ Has(2, to_small_int(k + n))

(* The second function is entered, with the sum in its slot 2.             *)
SecondCalled(sum) == pc = 11 /\ OneCall(0) /\ Has(0, to_small_int(4)) /\ Has(2, to_small_int(sum))

LEMMA FirstCallStep ==
  ASSUME ExecuteInv, Goes, NEW n \in UShort, NEW k \in 0 .. 10,
         FirstCallCode(n, k), FirstCallAt(n, k)
  PROVE  status' = "running" /\ (FirstCallAt(n, k)' \/ SecondCalled(k + n)')
<1>1. pc \in DOMAIN prog.code /\ n \in Nat /\ k \in Nat /\ n + 18 < IntHalf
  BY GoesFetches, FixtureOperands
<1>2. CASE pc = 0
  <2>1. inst = AD("FNEW", 1, 11) /\ NoCall
    BY <1>2 DEF FirstCallAt, FirstCallCode
  <2>2. Writes(1, to_fnew(11))
    BY <2>1, FunctionWrites, FixtureOperands DEF NoCall, AD
  <2> QED
    BY <1>2, <2>1, <2>2 DEF Writes, FirstCallAt, NoCall, Has
<1>3. CASE pc = 1
  <2>1. inst = AD("FNEW", 3, 6) /\ NoCall /\ Has(1, to_fnew(11))
    BY <1>3 DEF FirstCallAt, FirstCallCode
  <2>2. Writes(3, to_fnew(6))
    BY <2>1, FunctionWrites, FixtureOperands DEF NoCall, AD
  <2> QED
    BY <1>3, <2>1, <2>2 DEF Writes, FirstCallAt, NoCall, Has
<1>4. CASE pc = 2
  <2>1. /\ inst = AD("CSHORT", 4, n) /\ NoCall
        /\ Has(1, to_fnew(11)) /\ Has(3, to_fnew(6))
    BY <1>4 DEF FirstCallAt, FirstCallCode
  <2>2. Writes(4, to_small_int(n))
    BY <2>1, ConstantWrites DEF NoCall, AD
  <2> QED
    BY <1>4, <2>1, <2>2 DEF Writes, FirstCallAt, NoCall, Has
<1>5. CASE pc = 3
  <2>1. /\ inst = AD("CALL", 2, 0) /\ NoCall
        /\ Has(1, to_fnew(11)) /\ Has(3, to_fnew(6)) /\ Has(4, to_small_int(n))
    BY <1>5 DEF FirstCallAt, FirstCallCode
  <2>2. 6 \in 1 .. ShortHalf - 1
    BY FixtureOperands
  <2>3. inst.op = "CALL" /\ base + (inst.a + 1) = 3 /\ base + inst.a = 2
    BY <2>1 DEF AD, NoCall
  <2>4. /\ status' = "running" /\ pc' = 6 /\ base' = 2 /\ Len(stack') = 1
        /\ stack'[1].base_slot = 0
        /\ Holds(slots', 2, to_small_int(3))
        /\ \A j \in Nat : \A v : j # 2 /\ Holds(slots, j, v) => Holds(slots', j, v)
    BY <1>5, <2>1, <2>2, <2>3, CallSteps DEF NoCall, Has
  <2> QED
    BY <1>5, <2>1, <2>2, <2>3, <2>4 DEF FirstCallAt, OneCall, NoCall, Has
<1>6. CASE pc = 6
  <2>1. /\ inst = AD("FUNCF", 0, 0) /\ OneCall(2)
        /\ Has(1, to_fnew(11)) /\ Has(2, to_small_int(3)) /\ Has(4, to_small_int(n))
    BY <1>6 DEF FirstCallAt, FirstCallCode
  <2>2. /\ status' = "running" /\ pc' = 7 /\ base' = base /\ stack' = stack
        /\ \A j \in Nat : \A v : Holds(slots, j, v) => Holds(slots', j, v)
    BY <1>6, <2>1, TargetOnly DEF AD
  <2> QED
    BY <1>6, <2>1, <2>2 DEF FirstCallAt, OneCall, Has
<1>7. CASE pc = 7
  <2>1. /\ inst = AD("MOV", 3, 2) /\ OneCall(2)
        /\ Has(1, to_fnew(11)) /\ Has(2, to_small_int(3)) /\ Has(4, to_small_int(n))
    BY <1>7 DEF FirstCallAt, FirstCallCode
  <2>2. Writes(5, to_small_int(n))
    BY <2>1, MoveWrites DEF AD, OneCall, Has, Holds, get
  <2> QED
    BY <1>7, <2>1, <2>2 DEF Writes, FirstCallAt, OneCall, Has
<1>8. CASE pc = 8
  <2>1. /\ inst = AD("CSHORT", 4, k) /\ OneCall(2)
        /\ Has(1, to_fnew(11)) /\ Has(2, to_small_int(3)) /\ Has(5, to_small_int(n))
    BY <1>8 DEF FirstCallAt, FirstCallCode
  <2>2. Writes(6, to_small_int(k))
    BY <2>1, ConstantWrites DEF AD, OneCall
  <2> QED
    BY <1>8, <2>1, <2>2 DEF Writes, FirstCallAt, OneCall, Has
<1>9. CASE pc = 9
  <2>1. /\ inst = ABC("ADDVV", 3, 4, 3) /\ OneCall(2)
        /\ Has(1, to_fnew(11)) /\ Has(2, to_small_int(3))
        /\ Has(5, to_small_int(n)) /\ Has(6, to_small_int(k))
    BY <1>9 DEF FirstCallAt, FirstCallCode
  <2>2. k + n \in CInt /\ k < IntHalf /\ n < IntHalf
    BY <1>1, FixtureOperands DEF CInt
  <2>3. /\ inst.op = "ADDVV" /\ base + inst.b = 6 /\ base + inst.c = 5
        /\ base + inst.a = 5
    BY <2>1 DEF ABC, OneCall
  <2>4. Writes(5, to_small_int(k + n))
    BY <1>1, <2>1, <2>2, <2>3, SumWrites DEF Has
  <2> QED
    BY <1>9, <2>1, <2>2, <2>3, <2>4 DEF Writes, FirstCallAt, OneCall, Has
<1>10. CASE pc = 10
  <2>1. /\ inst = AD("RET", 3, 0) /\ OneCall(2)
        /\ Has(1, to_fnew(11)) /\ Has(2, to_small_int(3)) /\ Has(5, to_small_int(k + n))
    BY <1>10 DEF FirstCallAt, FirstCallCode
  <2>2. 3 \in 0 .. IntHalf - 1
    BY <1>1, FixtureOperands
  <2>3. /\ inst.op = "RET" /\ inst.a > 0 /\ base + inst.a = 5 /\ base = 2
        /\ get(inst.a) = to_small_int(k + n)
    BY <2>1 DEF AD, OneCall, get, Has, Holds
  <2>4. /\ status' = "running" /\ pc' = 4 /\ base' = 0 /\ Len(stack') = 0
        /\ Holds(slots', 2, to_small_int(k + n))
        /\ \A j \in Nat : \A v :
             j # 2 /\ j < 5 /\ Holds(slots, j, v) => Holds(slots', j, v)
    BY <2>1, <2>2, <2>3, ReturnSteps DEF OneCall, Has
  <2> QED
    BY <1>10, <2>1, <2>2, <2>3, <2>4 DEF FirstCallAt, NoCall, Has
<1>11. CASE pc = 4
  <2>1. /\ inst = AD("CALL", 0, 0) /\ NoCall
        /\ Has(1, to_fnew(11)) /\ Has(2, to_small_int(k + n))
    BY <1>11 DEF FirstCallAt, FirstCallCode
  <2>2. 11 \in 1 .. ShortHalf - 1
    BY FixtureOperands
  <2>3. inst.op = "CALL" /\ base + (inst.a + 1) = 1 /\ base + inst.a = 0
    BY <2>1 DEF AD, NoCall
  <2>4. /\ status' = "running" /\ pc' = 11 /\ base' = 0 /\ Len(stack') = 1
        /\ stack'[1].base_slot = 0
        /\ Holds(slots', 0, to_small_int(4))
        /\ \A j \in Nat : \A v : j # 0 /\ Holds(slots, j, v) => Holds(slots', j, v)
    BY <1>11, <2>1, <2>2, <2>3, CallSteps DEF NoCall, Has
  <2> QED
    BY <1>11, <2>1, <2>2, <2>3, <2>4 DEF SecondCalled, OneCall, NoCall, Has
<1> QED
  BY <1>2, <1>3, <1>4, <1>5, <1>6, <1>7, <1>8, <1>9, <1>10, <1>11 DEF FirstCallAt


(* function-ret-trunc.cvmb: the second function subtracts the sum from 2.  *)

TruncAt(n) ==
  \/ FirstCallAt(n, 5)
  \/ /\ pc \in 11 .. 15 /\ OneCall(0) /\ Has(0, to_small_int(4))
     /\ pc \in 11 .. 12 => Has(2, to_small_int(5 + n))
     /\ pc \in 13 .. 14 => Has(3, to_small_int(5 + n))
     /\ pc = 14 => Has(4, to_small_int(2))
     /\ pc = 15 => Has(3, to_small_int(2 - (5 + n)))
  \/ pc = 5 /\ NoCall /\ Has(0, to_small_int(2 - (5 + n)))

LEMMA TruncCode ==
  ASSUME NEW n, prog = function_ret_trunc(n), pc \in DOMAIN prog.code
  PROVE  /\ FirstCallCode(n, 5)
         /\ pc = 5 => inst = AD("EXIT", 0, 0)
         /\ pc = 11 => inst = AD("FUNCF", 0, 0)
         /\ pc = 12 => inst = AD("MOV", 3, 2)
         /\ pc = 13 => inst = AD("CSHORT", 4, 2)
         /\ pc = 14 => inst = ABC("SUBVV", 3, 4, 3)
         /\ pc = 15 => inst = AD("RET", 3, 0)
BY DEF function_ret_trunc, Returns, File, inst, FirstCallCode

LEMMA TruncStep ==
  ASSUME ExecuteInv, Goes, NEW n \in UShort, prog = function_ret_trunc(n), TruncAt(n)
  PROVE  (status' = "running" /\ TruncAt(n)') \/ EndsWith(to_small_int(2 - (5 + n)))
<1>1. /\ pc \in DOMAIN prog.code /\ n \in Nat /\ n + 18 < IntHalf /\ 5 + n \in Nat
      /\ IntHalf \in Nat
  BY GoesFetches, FixtureOperands
<1>2. CASE FirstCallAt(n, 5)
  <2>1. FirstCallCode(n, 5) /\ 5 \in 0 .. 10
    BY <1>1, TruncCode
  <2>2. status' = "running" /\ (FirstCallAt(n, 5)' \/ SecondCalled(5 + n)')
    BY <1>2, <2>1, FirstCallStep
  <2>3. SecondCalled(5 + n)' => TruncAt(n)'
    BY DEF SecondCalled, TruncAt
  <2>4. FirstCallAt(n, 5)' => TruncAt(n)'
    BY DEF TruncAt
  <2> QED
    BY <2>2, <2>3, <2>4
<1>3. CASE pc = 11
  <2>1. /\ inst = AD("FUNCF", 0, 0)
        /\ OneCall(0) /\ Has(0, to_small_int(4)) /\ Has(2, to_small_int(5 + n))
    BY <1>1, <1>3, TruncCode DEF TruncAt, FirstCallAt
  <2>2. /\ status' = "running" /\ pc' = 12 /\ base' = base /\ stack' = stack
        /\ \A j \in Nat : \A v : Holds(slots, j, v) => Holds(slots', j, v)
    BY <1>3, <2>1, TargetOnly DEF AD
  <2> QED
    BY <1>3, <2>1, <2>2 DEF TruncAt, OneCall, Has
<1>4. CASE pc = 12
  <2>1. /\ inst = AD("MOV", 3, 2)
        /\ OneCall(0) /\ Has(0, to_small_int(4)) /\ Has(2, to_small_int(5 + n))
    BY <1>1, <1>4, TruncCode DEF TruncAt, FirstCallAt
  <2>2. Writes(3, to_small_int(5 + n))
    BY <2>1, MoveWrites DEF AD, OneCall, Has, Holds, get
  <2> QED
    BY <1>4, <2>1, <2>2 DEF Writes, TruncAt, OneCall, Has
<1>5. CASE pc = 13
  <2>1. /\ inst = AD("CSHORT", 4, 2)
        /\ OneCall(0) /\ Has(0, to_small_int(4)) /\ Has(3, to_small_int(5 + n))
    BY <1>1, <1>5, TruncCode DEF TruncAt, FirstCallAt
  <2>2. Writes(4, to_small_int(2))
    BY <2>1, ConstantWrites DEF AD, OneCall
  <2> QED
    BY <1>5, <2>1, <2>2 DEF Writes, TruncAt, OneCall, Has
<1>6. CASE pc = 14
  <2>1. /\ inst = ABC("SUBVV", 3, 4, 3)
        /\ OneCall(0) /\ Has(0, to_small_int(4))
        /\ Has(3, to_small_int(5 + n)) /\ Has(4, to_small_int(2))
    BY <1>1, <1>6, TruncCode DEF TruncAt, FirstCallAt
  <2>2. 2 - (5 + n) \in CInt /\ 5 + n < IntHalf /\ 2 < IntHalf
    BY <1>1 DEF CInt
  <2>3. /\ inst.op = "SUBVV" /\ base + inst.b = 4 /\ base + inst.c = 3
        /\ base + inst.a = 3
    BY <2>1 DEF ABC, OneCall
  <2>4. Writes(3, to_small_int(2 - (5 + n)))
    BY <1>1, <2>1, <2>2, <2>3, SumWrites DEF Has
  <2> QED
    BY <1>6, <2>1, <2>2, <2>3, <2>4 DEF Writes, TruncAt, OneCall, Has
<1>7. CASE pc = 15
  <2>1. /\ inst = AD("RET", 3, 0)
        /\ OneCall(0) /\ Has(0, to_small_int(4))
        /\ Has(3, to_small_int(2 - (5 + n)))
    BY <1>1, <1>7, TruncCode DEF TruncAt, FirstCallAt
  <2>2. 4 \in 0 .. IntHalf - 1
    BY <1>1
  <2>3. /\ inst.op = "RET" /\ inst.a > 0 /\ base + inst.a = 3 /\ base = 0
        /\ get(inst.a) = to_small_int(2 - (5 + n))
    BY <2>1 DEF AD, OneCall, get, Has, Holds
  <2>4. /\ status' = "running" /\ pc' = 5 /\ base' = 0 /\ Len(stack') = 0
        /\ Holds(slots', 0, to_small_int(2 - (5 + n)))
    BY <2>1, <2>2, <2>3, ReturnSteps DEF OneCall, Has
  <2> QED
    BY <1>7, <2>1, <2>2, <2>3, <2>4 DEF TruncAt, NoCall, Has
<1>8. CASE pc = 5 /\ ~FirstCallAt(n, 5)
  <2>1. inst = AD("EXIT", 0, 0) /\ NoCall /\ Has(0, to_small_int(2 - (5 + n)))
    BY <1>1, <1>8, TruncCode DEF TruncAt
  <2> QED
    BY <2>1, ExitStep
<1> QED
  BY <1>2, <1>3, <1>4, <1>5, <1>6, <1>7, <1>8 DEF TruncAt

(* simple_fn_call_2.cvmb: the second function adds 8 to the sum.           *)

SimpleAt(n) ==
  \/ FirstCallAt(n, 10)
  \/ /\ pc \in 11 .. 15 /\ OneCall(0) /\ Has(0, to_small_int(4))
     /\ pc \in 11 .. 13 => Has(2, to_small_int(10 + n))
     /\ pc \in 13 .. 14 => Has(3, to_small_int(8))
     /\ pc = 14 => Has(4, to_small_int(10 + n))
     /\ pc = 15 => Has(3, to_small_int(n + 18))
  \/ pc = 5 /\ NoCall /\ Has(0, to_small_int(n + 18))

LEMMA SimpleCode ==
  ASSUME NEW n, prog = simple_fn_call_2(n), pc \in DOMAIN prog.code
  PROVE  /\ FirstCallCode(n, 10)
         /\ pc = 5 => inst = AD("EXIT", 0, 0)
         /\ pc = 11 => inst = AD("FUNCF", 0, 0)
         /\ pc = 12 => inst = AD("CSHORT", 3, 8)
         /\ pc = 13 => inst = AD("MOV", 4, 2)
         /\ pc = 14 => inst = ABC("ADDVV", 3, 4, 3)
         /\ pc = 15 => inst = AD("RET", 3, 0)
BY DEF simple_fn_call_2, Returns, File, inst, FirstCallCode

LEMMA SimpleStep ==
  ASSUME ExecuteInv, Goes, NEW n \in UShort, prog = simple_fn_call_2(n), SimpleAt(n)
  PROVE  (status' = "running" /\ SimpleAt(n)') \/ EndsWith(to_small_int(n + 18))
<1>1. /\ pc \in DOMAIN prog.code /\ n \in Nat /\ n + 18 < IntHalf /\ 10 + n \in Nat
      /\ IntHalf \in Nat
  BY GoesFetches, FixtureOperands
<1>2. CASE FirstCallAt(n, 10)
  <2>1. FirstCallCode(n, 10) /\ 10 \in 0 .. 10
    BY <1>1, SimpleCode
  <2>2. status' = "running" /\ (FirstCallAt(n, 10)' \/ SecondCalled(10 + n)')
    BY <1>2, <2>1, FirstCallStep
  <2>3. SecondCalled(10 + n)' => SimpleAt(n)'
    BY DEF SecondCalled, SimpleAt
  <2>4. FirstCallAt(n, 10)' => SimpleAt(n)'
    BY DEF SimpleAt
  <2> QED
    BY <2>2, <2>3, <2>4
<1>3. CASE pc = 11
  <2>1. /\ inst = AD("FUNCF", 0, 0)
        /\ OneCall(0) /\ Has(0, to_small_int(4)) /\ Has(2, to_small_int(10 + n))
    BY <1>1, <1>3, SimpleCode DEF SimpleAt, FirstCallAt
  <2>2. /\ status' = "running" /\ pc' = 12 /\ base' = base /\ stack' = stack
        /\ \A j \in Nat : \A v : Holds(slots, j, v) => Holds(slots', j, v)
    BY <1>3, <2>1, TargetOnly DEF AD
  <2> QED
    BY <1>3, <2>1, <2>2 DEF SimpleAt, OneCall, Has
<1>4. CASE pc = 12
  <2>1. /\ inst = AD("CSHORT", 3, 8)
        /\ OneCall(0) /\ Has(0, to_small_int(4)) /\ Has(2, to_small_int(10 + n))
    BY <1>1, <1>4, SimpleCode DEF SimpleAt, FirstCallAt
  <2>2. Writes(3, to_small_int(8))
    BY <2>1, ConstantWrites DEF AD, OneCall
  <2> QED
    BY <1>4, <2>1, <2>2 DEF Writes, SimpleAt, OneCall, Has
<1>5. CASE pc = 13
  <2>1. /\ inst = AD("MOV", 4, 2)
        /\ OneCall(0) /\ Has(0, to_small_int(4))
        /\ Has(2, to_small_int(10 + n)) /\ Has(3, to_small_int(8))
    BY <1>1, <1>5, SimpleCode DEF SimpleAt, FirstCallAt
  <2>2. Writes(4, to_small_int(10 + n))
    BY <2>1, MoveWrites DEF AD, OneCall, Has, Holds, get
  <2> QED
    BY <1>5, <2>1, <2>2 DEF Writes, SimpleAt, OneCall, Has
<1>6. CASE pc = 14
  <2>1. /\ inst = ABC("ADDVV", 3, 4, 3)
        /\ OneCall(0) /\ Has(0, to_small_int(4))
        /\ Has(3, to_small_int(8)) /\ Has(4, to_small_int(10 + n))
    BY <1>1, <1>6, SimpleCode DEF SimpleAt, FirstCallAt
  <2>2. n + 18 \in CInt /\ n + 18 = (10 + n) + 8 /\ 10 + n < IntHalf /\ 8 < IntHalf
    BY <1>1 DEF CInt
  <2>3. /\ inst.op = "ADDVV" /\ base + inst.b = 4 /\ base + inst.c = 3
        /\ base + inst.a = 3
    BY <2>1 DEF ABC, OneCall
  <2>4. Writes(3, to_small_int(n + 18))
    BY <1>1, <2>1, <2>2, <2>3, SumWrites DEF Has
  <2> QED
    BY <1>6, <2>1, <2>2, <2>3, <2>4 DEF Writes, SimpleAt, OneCall, Has
<1>7. CASE pc = 15
  <2>1. /\ inst = AD("RET", 3, 0)
        /\ OneCall(0) /\ Has(0, to_small_int(4))
        /\ Has(3, to_small_int(n + 18))
    BY <1>1, <1>7, SimpleCode DEF SimpleAt, FirstCallAt
  <2>2. 4 \in 0 .. IntHalf - 1
    BY <1>1
  <2>3. /\ inst.op = "RET" /\ inst.a > 0 /\ base + inst.a = 3 /\ base = 0
        /\ get(inst.a) = to_small_int(n + 18)
    BY <2>1 DEF AD, OneCall, get, Has, Holds
  <2>4. /\ status' = "running" /\ pc' = 5 /\ base' = 0 /\ Len(stack') = 0
        /\ Holds(slots', 0, to_small_int(n + 18))
    BY <2>1, <2>2, <2>3, ReturnSteps DEF OneCall, Has
  <2> QED
    BY <1>7, <2>1, <2>2, <2>3, <2>4 DEF SimpleAt, NoCall, Has
<1>8. CASE pc = 5 /\ ~FirstCallAt(n, 10)
  <2>1. inst = AD("EXIT", 0, 0) /\ NoCall /\ Has(0, to_small_int(n + 18))
    BY <1>1, <1>8, SimpleCode DEF SimpleAt
  <2> QED
    BY <2>1, ExitStep
<1> QED
  BY <1>2, <1>3, <1>4, <1>5, <1>6, <1>7, <1>8 DEF SimpleAt


(* stack-growing-test.cvmb.  The first function (26) calls another (15),   *)
(* whose sum it drops; the second (10) adds 1 to n.                        *)

GrowAt(n) ==
  \/ /\ pc \in 0 .. 4 /\ NoCall
     /\ pc >= 2 => Has(1, to_fnew(26))
     /\ pc >= 3 => Has(3, to_fnew(26))
  \/ /\ pc \in 26 .. 38 /\ OneCall(2) /\ Has(2, to_small_int(4))
     /\ pc >= 33 => Has(10, to_fnew(15))
  \/ pc \in 15 .. 25 /\ TwoCalls(2, 9) /\ Has(2, to_small_int(4)) /\ Has(9, to_small_int(38))
  \/ pc \in 39 .. 40 /\ OneCall(2) /\ Has(2, to_small_int(4))
  \/ /\ pc \in 5 .. 7 /\ NoCall
     /\ pc >= 6 => Has(3, to_fnew(10))
     /\ pc = 7 => Has(4, to_small_int(n))
  \/ /\ pc \in 10 .. 14 /\ OneCall(2) /\ Has(2, to_small_int(7))
     /\ pc \in 10 .. 11 => Has(4, to_small_int(n))
     /\ pc \in 12 .. 13 => Has(5, to_small_int(n))
     /\ pc = 13 => Has(6, to_small_int(1))
     /\ pc = 14 => Has(5, to_small_int(n + 1))
  \/ pc = 8 /\ NoCall /\ Has(2, to_small_int(n + 1))
  \/ pc = 9 /\ NoCall /\ Has(0, to_small_int(n + 1))

LEMMA GrowCode ==
  ASSUME NEW n, prog = stack_growing_test(n), pc \in DOMAIN prog.code
  PROVE  /\ pc = 0 => inst = AD("CSHORT", 0, 1)
         /\ pc = 1 => inst = AD("FNEW", 1, 26)
         /\ pc = 2 => inst = AD("MOV", 3, 1)
         /\ pc = 3 => inst = AD("CSHORT", 4, 81)
         /\ pc = 4 => inst = AD("CALL", 2, 0)
         /\ pc = 5 => inst = AD("FNEW", 3, 10)
         /\ pc = 6 => inst = AD("CSHORT", 4, n)
         /\ pc = 7 => inst = AD("CALL", 2, 0)
         /\ pc = 8 => inst = AD("MOV", 0, 2)
         /\ pc = 9 => inst = AD("EXIT", 0, 0)
         /\ pc = 10 => inst = AD("FUNCF", 0, 0)
         /\ pc = 11 => inst = AD("MOV", 3, 2)
         /\ pc = 12 => inst = AD("CSHORT", 4, 1)
         /\ pc = 13 => inst = ABC("ADDVV", 3, 4, 3)
         /\ pc = 14 => inst = AD("RET", 3, 0)
         /\ pc \in 15 .. 24 =>
              inst.op = "FUNCF" \/ (inst.op \in {"MOV", "ADDVV"} /\ inst.a \in 7 .. 11)
         /\ pc = 25 => inst = AD("RET", 7, 0)
         /\ pc \in 26 .. 31 =>
              inst.op = "FUNCF" \/ (inst.op = "CSHORT" /\ inst.a \in 2 .. 6)
         /\ pc = 32 => inst = AD("FNEW", 8, 15)
         /\ pc \in 33 .. 37 => inst.op = "MOV" /\ inst.a \in 9 .. 13
         /\ pc = 38 => inst = AD("CALL", 7, 0)
         /\ pc = 39 => inst = AD("MOV", 2, 7)
         /\ pc = 40 => inst = AD("RET", 2, 0)
<1>1. /\ pc = 0 => inst = AD("CSHORT", 0, 1)
      /\ pc = 1 => inst = AD("FNEW", 1, 26)
      /\ pc = 2 => inst = AD("MOV", 3, 1)
      /\ pc = 3 => inst = AD("CSHORT", 4, 81)
      /\ pc = 4 => inst = AD("CALL", 2, 0)
      /\ pc = 5 => inst = AD("FNEW", 3, 10)
      /\ pc = 6 => inst = AD("CSHORT", 4, n)
      /\ pc = 7 => inst = AD("CALL", 2, 0)
  BY DEF stack_growing_test, Returns, File, inst
<1>2. /\ pc = 8 => inst = AD("MOV", 0, 2)
      /\ pc = 9 => inst = AD("EXIT", 0, 0)
      /\ pc = 10 => inst = AD("FUNCF", 0, 0)
      /\ pc = 11 => inst = AD("MOV", 3, 2)
      /\ pc = 12 => inst = AD("CSHORT", 4, 1)
      /\ pc = 13 => inst = ABC("ADDVV", 3, 4, 3)
      /\ pc = 14 => inst = AD("RET", 3, 0)
  BY DEF stack_growing_test, Returns, File, inst
<1>3. /\ pc = 25 => inst = AD("RET", 7, 0)
      /\ pc = 32 => inst = AD("FNEW", 8, 15)
      /\ pc = 38 => inst = AD("CALL", 7, 0)
      /\ pc = 39 => inst = AD("MOV", 2, 7)
      /\ pc = 40 => inst = AD("RET", 2, 0)
  BY DEF stack_growing_test, Returns, File, inst
<1>4. pc \in 15 .. 24 =>
              inst.op = "FUNCF" \/ (inst.op \in {"MOV", "ADDVV"} /\ inst.a \in 7 .. 11)
  <2>1. /\ pc = 15 => inst = AD("FUNCF", 0, 0)
        /\ pc = 16 => inst = AD("MOV", 7, 2)
        /\ pc = 17 => inst = AD("MOV", 8, 3)
        /\ pc = 18 => inst = AD("MOV", 9, 4)
        /\ pc = 19 => inst = AD("MOV", 10, 5)
        /\ pc = 20 => inst = AD("MOV", 11, 6)
        /\ pc = 21 => inst = ABC("ADDVV", 10, 11, 10)
        /\ pc = 22 => inst = ABC("ADDVV", 9, 10, 9)
        /\ pc = 23 => inst = ABC("ADDVV", 8, 9, 8)
        /\ pc = 24 => inst = ABC("ADDVV", 7, 8, 7)
    BY DEF stack_growing_test, Returns, File, inst
  <2> QED
    BY <2>1 DEF AD, ABC
<1>5. pc \in 26 .. 31 =>
              inst.op = "FUNCF" \/ (inst.op = "CSHORT" /\ inst.a \in 2 .. 6)
  <2>1. /\ pc = 26 => inst = AD("FUNCF", 0, 0)
        /\ pc = 27 => inst = AD("CSHORT", 2, 1)
        /\ pc = 28 => inst = AD("CSHORT", 3, 2)
        /\ pc = 29 => inst = AD("CSHORT", 4, 3)
        /\ pc = 30 => inst = AD("CSHORT", 5, 4)
        /\ pc = 31 => inst = AD("CSHORT", 6, 5)
    BY DEF stack_growing_test, Returns, File, inst
  <2> QED
    BY <2>1 DEF AD, ABC
<1>6. pc \in 33 .. 37 => inst.op = "MOV" /\ inst.a \in 9 .. 13
  <2>1. /\ pc = 33 => inst = AD("MOV", 9, 2)
        /\ pc = 34 => inst = AD("MOV", 10, 3)
        /\ pc = 35 => inst = AD("MOV", 11, 4)
        /\ pc = 36 => inst = AD("MOV", 12, 5)
        /\ pc = 37 => inst = AD("MOV", 13, 6)
    BY DEF stack_growing_test, Returns, File, inst
  <2> QED
    BY <2>1 DEF AD, ABC
<1> QED
  BY <1>1, <1>2, <1>3, <1>4, <1>5, <1>6

LEMMA GrowStep ==
  ASSUME ExecuteInv, Goes, NEW n \in UShort, prog = stack_growing_test(n), GrowAt(n)
  PROVE  (status' = "running" /\ GrowAt(n)') \/ EndsWith(to_small_int(n + 1))
<1>1. /\ pc \in DOMAIN prog.code /\ n \in Nat /\ n + 18 < IntHalf /\ IntHalf \in Nat
  BY GoesFetches, FixtureOperands
<1>2. CASE pc = 0
  <2>1. inst = AD("CSHORT", 0, 1) /\ NoCall
    BY <1>1, <1>2, GrowCode DEF GrowAt
  <2>2. status' = "running" /\ pc' = pc + 1 /\ base' = base /\ stack' = stack
    BY <2>1, TargetOnly DEF AD
  <2> QED
    BY <1>2, <2>1, <2>2 DEF GrowAt, NoCall, Has
<1>3. CASE pc = 1
  <2>1. inst = AD("FNEW", 1, 26) /\ NoCall
    BY <1>1, <1>3, GrowCode DEF GrowAt
  <2>2. Writes(1, to_fnew(26))
    BY <2>1, FunctionWrites, FixtureOperands DEF NoCall, AD
  <2> QED
    BY <1>3, <2>1, <2>2 DEF Writes, GrowAt, NoCall, Has
<1>4. CASE pc = 2
  <2>1. inst = AD("MOV", 3, 1) /\ NoCall /\ Has(1, to_fnew(26))
    BY <1>1, <1>4, GrowCode DEF GrowAt
  <2>2. Writes(3, to_fnew(26))
    BY <2>1, MoveWrites DEF NoCall, AD, Has, Holds, get
  <2> QED
    BY <1>4, <2>1, <2>2 DEF Writes, GrowAt, NoCall, Has
<1>5. CASE pc = 3
  <2>1. /\ inst = AD("CSHORT", 4, 81) /\ NoCall
        /\ Has(1, to_fnew(26)) /\ Has(3, to_fnew(26))
    BY <1>1, <1>5, GrowCode DEF GrowAt
  <2>2. Writes(4, to_small_int(81))
    BY <2>1, ConstantWrites DEF NoCall, AD
  <2> QED
    BY <1>5, <2>1, <2>2 DEF Writes, GrowAt, NoCall, Has
<1>6. CASE pc = 4
  <2>1. inst = AD("CALL", 2, 0) /\ NoCall /\ Has(3, to_fnew(26))
    BY <1>1, <1>6, GrowCode DEF GrowAt
  <2>2. 26 \in 1 .. ShortHalf - 1
    BY FixtureOperands
  <2>3. inst.op = "CALL" /\ base + (inst.a + 1) = 3 /\ base + inst.a = 2
    BY <2>1 DEF AD, NoCall
  <2>4. /\ status' = "running" /\ pc' = 26 /\ base' = 2 /\ Len(stack') = 1
        /\ stack'[1].base_slot = 0
        /\ Holds(slots', 2, to_small_int(4))
        /\ \A j \in Nat : \A v : j # 2 /\ Holds(slots, j, v) => Holds(slots', j, v)
    BY <1>6, <2>1, <2>2, <2>3, CallSteps DEF NoCall, Has
  <2> QED
    BY <1>6, <2>1, <2>2, <2>3, <2>4 DEF GrowAt, OneCall, NoCall, Has
<1>7. CASE pc \in 26 .. 31
  <2>1. /\ inst.op = "FUNCF" \/ (inst.op = "CSHORT" /\ inst.a \in 2 .. 6)
        /\ OneCall(2) /\ Has(2, to_small_int(4))
    BY <1>1, <1>7, GrowCode DEF GrowAt
  <2>2. inst.op = "FUNCF" \/ 2 # base + inst.a
    BY <2>1 DEF OneCall
  <2>3. /\ status' = "running" /\ pc' = pc + 1 /\ base' = base /\ stack' = stack
        /\ Holds(slots', 2, to_small_int(4))
    BY <2>1, <2>2, TargetOnly DEF Has
  <2> QED
    BY <1>7, <2>1, <2>2, <2>3 DEF GrowAt, OneCall, Has
<1>8. CASE pc = 32
  <2>1. inst = AD("FNEW", 8, 15) /\ OneCall(2) /\ Has(2, to_small_int(4))
    BY <1>1, <1>8, GrowCode DEF GrowAt
  <2>2. Writes(10, to_fnew(15))
    BY <2>1, FunctionWrites, FixtureOperands DEF OneCall, AD
  <2> QED
    BY <1>8, <2>1, <2>2 DEF Writes, GrowAt, OneCall, Has
<1>9. CASE pc \in 33 .. 37
  <2>1. /\ inst.op = "MOV" /\ inst.a \in 9 .. 13
        /\ OneCall(2) /\ Has(2, to_small_int(4)) /\ Has(10, to_fnew(15))
    BY <1>1, <1>9, GrowCode DEF GrowAt
  <2>2. 2 # base + inst.a /\ 10 # base + inst.a
    BY <2>1 DEF OneCall
  <2>3. /\ status' = "running" /\ pc' = pc + 1 /\ base' = base /\ stack' = stack
        /\ Holds(slots', 2, to_small_int(4)) /\ Holds(slots', 10, to_fnew(15))
    BY <2>1, <2>2, TargetOnly DEF Has
  <2> QED
    BY <1>9, <2>1, <2>2, <2>3 DEF GrowAt, OneCall, Has
<1>10. CASE pc = 38
  <2>1. /\ inst = AD("CALL", 7, 0) /\ OneCall(2)
        /\ Has(2, to_small_int(4)) /\ Has(10, to_fnew(15))
    BY <1>1, <1>10, GrowCode DEF GrowAt
  <2>2. 15 \in 1 .. ShortHalf - 1
    BY FixtureOperands
  <2>3. inst.op = "CALL" /\ base + (inst.a + 1) = 10 /\ base + inst.a = 9 /\ base = 2
    BY <2>1 DEF AD, OneCall
  <2>4. /\ status' = "running" /\ pc' = 15 /\ base' = 9 /\ Len(stack') = 2
        /\ stack'[1].base_slot = 0 /\ stack'[2].base_slot = 2
        /\ Holds(slots', 9, to_small_int(38))
        /\ \A j \in Nat : \A v : j # 9 /\ Holds(slots, j, v) => Holds(slots', j, v)
    BY <1>10, <2>1, <2>2, <2>3, CallSteps DEF OneCall, Has
  <2> QED
    BY <1>10, <2>1, <2>2, <2>3, <2>4 DEF GrowAt, OneCall, TwoCalls, Has
<1>11. CASE pc \in 15 .. 24
  <2>1. /\ inst.op = "FUNCF" \/ (inst.op \in {"MOV", "ADDVV"} /\ inst.a \in 7 .. 11)
        /\ TwoCalls(2, 9) /\ Has(2, to_small_int(4)) /\ Has(9, to_small_int(38))
    BY <1>1, <1>11, GrowCode DEF GrowAt
  <2>2. inst.op = "FUNCF" \/ (2 # base + inst.a /\ 9 # base + inst.a)
    BY <2>1 DEF TwoCalls
  <2>3. /\ status' = "running" /\ pc' = pc + 1 /\ base' = base /\ stack' = stack
        /\ Holds(slots', 2, to_small_int(4)) /\ Holds(slots', 9, to_small_int(38))
    BY <2>1, <2>2, TargetOnly DEF Has
  <2> QED
    BY <1>11, <2>1, <2>2, <2>3 DEF GrowAt, TwoCalls, Has
<1>12. CASE pc = 25
  <2>1. /\ inst = AD("RET", 7, 0) /\ TwoCalls(2, 9)
        /\ Has(2, to_small_int(4)) /\ Has(9, to_small_int(38))
    BY <1>1, <1>12, GrowCode DEF GrowAt
  <2>2. 38 \in 0 .. IntHalf - 1
    BY FixtureOperands, Widths
  <2>3. inst.op = "RET" /\ inst.a > 0 /\ base + inst.a = 16 /\ base = 9
    BY <2>1 DEF AD, TwoCalls
  <2>4. /\ status' = "running" /\ pc' = 39 /\ base' = 2 /\ Len(stack') = 1
        /\ stack'[1].base_slot = 0 /\ Holds(slots', 2, to_small_int(4))
    BY <2>1, <2>2, <2>3, ReturnSteps DEF TwoCalls, Has
  <2> QED
    BY <1>12, <2>1, <2>2, <2>3, <2>4 DEF GrowAt, OneCall, Has
<1>13. CASE pc = 39
  <2>1. inst = AD("MOV", 2, 7) /\ OneCall(2) /\ Has(2, to_small_int(4))
    BY <1>1, <1>13, GrowCode DEF GrowAt
  <2>2. /\ status' = "running" /\ pc' = pc + 1 /\ base' = base /\ stack' = stack
        /\ Holds(slots', 2, to_small_int(4))
    BY <2>1, TargetOnly DEF AD, OneCall, Has
  <2> QED
    BY <1>13, <2>1, <2>2 DEF GrowAt, OneCall, Has
<1>14. CASE pc = 40
  <2>1. inst = AD("RET", 2, 0) /\ OneCall(2) /\ Has(2, to_small_int(4))
    BY <1>1, <1>14, GrowCode DEF GrowAt
  <2>2. 4 \in 0 .. IntHalf - 1
    BY FixtureOperands, Widths
  <2>3. inst.op = "RET" /\ inst.a > 0 /\ base + inst.a = 4 /\ base = 2
    BY <2>1 DEF AD, OneCall
  <2>4. status' = "running" /\ pc' = 5 /\ base' = 0 /\ Len(stack') = 0
    BY <2>1, <2>2, <2>3, ReturnSteps DEF OneCall, Has
  <2> QED
    BY <1>14, <2>1, <2>2, <2>3, <2>4 DEF GrowAt, NoCall, Has
<1>15. CASE pc = 5
  <2>1. inst = AD("FNEW", 3, 10) /\ NoCall
    BY <1>1, <1>15, GrowCode DEF GrowAt
  <2>2. Writes(3, to_fnew(10))
    BY <2>1, FunctionWrites, FixtureOperands DEF NoCall, AD
  <2> QED
    BY <1>15, <2>1, <2>2 DEF Writes, GrowAt, NoCall, Has
<1>16. CASE pc = 6
  <2>1. inst = AD("CSHORT", 4, n) /\ NoCall /\ Has(3, to_fnew(10))
    BY <1>1, <1>16, GrowCode DEF GrowAt
  <2>2. Writes(4, to_small_int(n))
    BY <2>1, ConstantWrites DEF NoCall, AD
  <2> QED
    BY <1>16, <2>1, <2>2 DEF Writes, GrowAt, NoCall, Has
<1>17. CASE pc = 7
  <2>1. /\ inst = AD("CALL", 2, 0) /\ NoCall
        /\ Has(3, to_fnew(10)) /\ Has(4, to_small_int(n))
    BY <1>1, <1>17, GrowCode DEF GrowAt
  <2>2. 10 \in 1 .. ShortHalf - 1
    BY FixtureOperands
  <2>3. inst.op = "CALL" /\ base + (inst.a + 1) = 3 /\ base + inst.a = 2
    BY <2>1 DEF AD, NoCall
  <2>4. /\ status' = "running" /\ pc' = 10 /\ base' = 2 /\ Len(stack') = 1
        /\ stack'[1].base_slot = 0
        /\ Holds(slots', 2, to_small_int(7))
        /\ \A j \in Nat : \A v : j # 2 /\ Holds(slots, j, v) => Holds(slots', j, v)
    BY <1>17, <2>1, <2>2, <2>3, CallSteps DEF NoCall, Has
  <2> QED
    BY <1>17, <2>1, <2>2, <2>3, <2>4 DEF GrowAt, OneCall, NoCall, Has
<1>18. CASE pc = 10
  <2>1. /\ inst = AD("FUNCF", 0, 0) /\ OneCall(2)
        /\ Has(2, to_small_int(7)) /\ Has(4, to_small_int(n))
    BY <1>1, <1>18, GrowCode DEF GrowAt
  <2>2. /\ status' = "running" /\ pc' = 11 /\ base' = base /\ stack' = stack
        /\ \A j \in Nat : \A v : Holds(slots, j, v) => Holds(slots', j, v)
    BY <1>18, <2>1, TargetOnly DEF AD
  <2> QED
    BY <1>18, <2>1, <2>2 DEF GrowAt, OneCall, Has
<1>19. CASE pc = 11
  <2>1. /\ inst = AD("MOV", 3, 2) /\ OneCall(2)
        /\ Has(2, to_small_int(7)) /\ Has(4, to_small_int(n))
    BY <1>1, <1>19, GrowCode DEF GrowAt
  <2>2. Writes(5, to_small_int(n))
    BY <2>1, MoveWrites DEF AD, OneCall, Has, Holds, get
  <2> QED
    BY <1>19, <2>1, <2>2 DEF Writes, GrowAt, OneCall, Has
<1>20. CASE pc = 12
  <2>1. /\ inst = AD("CSHORT", 4, 1) /\ OneCall(2)
        /\ Has(2, to_small_int(7)) /\ Has(5, to_small_int(n))
    BY <1>1, <1>20, GrowCode DEF GrowAt
  <2>2. Writes(6, to_small_int(1))
    BY <2>1, ConstantWrites DEF AD, OneCall
  <2> QED
    BY <1>20, <2>1, <2>2 DEF Writes, GrowAt, OneCall, Has
<1>21. CASE pc = 13
  <2>1. /\ inst = ABC("ADDVV", 3, 4, 3) /\ OneCall(2) /\ Has(2, to_small_int(7))
        /\ Has(5, to_small_int(n)) /\ Has(6, to_small_int(1))
    BY <1>1, <1>21, GrowCode DEF GrowAt
  <2>2. n + 1 \in CInt /\ n + 1 = 1 + n /\ 1 < IntHalf /\ n < IntHalf
    BY <1>1 DEF CInt
  <2>3. /\ inst.op = "ADDVV" /\ base + inst.b = 6 /\ base + inst.c = 5
        /\ base + inst.a = 5
    BY <2>1 DEF ABC, OneCall
  <2>4. Writes(5, to_small_int(n + 1))
    BY <1>1, <2>1, <2>2, <2>3, SumWrites DEF Has
  <2> QED
    BY <1>21, <2>1, <2>2, <2>3, <2>4 DEF Writes, GrowAt, OneCall, Has
<1>22. CASE pc = 14
  <2>1. /\ inst = AD("RET", 3, 0) /\ OneCall(2)
        /\ Has(2, to_small_int(7)) /\ Has(5, to_small_int(n + 1))
    BY <1>1, <1>22, GrowCode DEF GrowAt
  <2>2. 7 \in 0 .. IntHalf - 1
    BY <1>1
  <2>3. /\ inst.op = "RET" /\ inst.a > 0 /\ base + inst.a = 5 /\ base = 2
        /\ get(inst.a) = to_small_int(n + 1)
    BY <2>1 DEF AD, OneCall, get, Has, Holds
  <2>4. /\ status' = "running" /\ pc' = 8 /\ base' = 0 /\ Len(stack') = 0
        /\ Holds(slots', 2, to_small_int(n + 1))
    BY <2>1, <2>2, <2>3, ReturnSteps DEF OneCall, Has
  <2> QED
    BY <1>22, <2>1, <2>2, <2>3, <2>4 DEF GrowAt, NoCall, Has
<1>23. CASE pc = 8
  <2>1. inst = AD("MOV", 0, 2) /\ NoCall /\ Has(2, to_small_int(n + 1))
    BY <1>1, <1>23, GrowCode DEF GrowAt
  <2>2. Writes(0, to_small_int(n + 1))
    BY <2>1, MoveWrites DEF NoCall, AD, Has, Holds, get
  <2> QED
    BY <1>23, <2>1, <2>2 DEF Writes, GrowAt, NoCall, Has
<1>24. CASE pc = 9
  <2>1. inst = AD("EXIT", 0, 0) /\ NoCall /\ Has(0, to_small_int(n + 1))
    BY <1>1, <1>24, GrowCode DEF GrowAt
  <2> QED
    BY <2>1, ExitStep
<1>25. pc \in 0 .. 40
  BY DEF GrowAt
<1>26. pc \in 0 .. 14 => (status' = "running" /\ GrowAt(n)') \/ EndsWith(to_small_int(n + 1))
  <2>1. pc \in 0 .. 14 =>
          pc \in {0, 1, 2, 3, 4} \/ pc \in {5, 6, 7, 8, 9} \/ pc \in {10, 11, 12, 13, 14}
    OBVIOUS
  <2> QED
    BY <2>1, <1>2, <1>3, <1>4, <1>5, <1>6, <1>15, <1>16, <1>17, <1>18, <1>19,
       <1>20, <1>21, <1>22, <1>23, <1>24
<1>27. pc \in 15 .. 40 => (status' = "running" /\ GrowAt(n)') \/ EndsWith(to_small_int(n + 1))
  <2>1. pc \in 15 .. 40 =>
          \/ pc \in 15 .. 24 \/ pc \in 26 .. 31 \/ pc \in 33 .. 37
          \/ pc \in {25, 32, 38, 39, 40}
    OBVIOUS
  <2> QED
    BY <2>1, <1>7, <1>8, <1>9, <1>10, <1>11, <1>12, <1>13, <1>14
<1> QED
  <2>1. pc \in 0 .. 14 \/ pc \in 15 .. 40
    BY <1>25
  <2> QED
    BY <2>1, <1>26, <1>27

(* Together.                                                               *)

FixtureAt ==
  \/ prog \in {builtin1, builtin_int} /\ BuiltinAt
  \/ \E n \in UShort : \/ prog = function_ret_trunc(n) /\ TruncAt(n)
                       \/ prog = simple_fn_call_2(n) /\ SimpleAt(n)
                       \/ prog = stack_growing_test(n) /\ GrowAt(n)

FixtureInv ==
  /\ status = "running" => FixtureAt
  /\ status = "end" => NoCall /\ Has(0, prog.result)

LEMMA FixtureResults ==
  /\ builtin1.result = get_nil /\ builtin_int.result = get_nil
  /\ \A n \in UShort :
       /\ function_ret_trunc(n).result = to_small_int(2 - (5 + n))
       /\ simple_fn_call_2(n).result = to_small_int(n + 18)
       /\ stack_growing_test(n).result = to_small_int(n + 1)
<1>1. ASSUME NEW n \in UShort
      PROVE  function_ret_trunc(n).result = to_small_int(2 - (5 + n))
  <2>1. 2 - (5 + n) < 0 /\ ~(2 - (5 + n) >= 0) /\ PayMod + (2 - (5 + n)) = PayMod + 2 - (n + 5)
    BY FixtureOperands, Widths
  <2> QED
    BY <2>1 DEF function_ret_trunc, Returns, to_small_int, SignExtendOr
<1> QED
  BY <1>1 DEF builtin1, builtin_int, simple_fn_call_2, stack_growing_test, Returns

LEMMA FixtureStart ==
  ASSUME Programs \subseteq Fixtures, Init
  PROVE  FixtureInv
<1>1. /\ pc = 0 /\ base = 0 /\ Len(stack) = 0 /\ symtab = builtins /\ status = "running"
      /\ prog \in Fixtures
  BY DEF Init
<1>2. NoCall
  BY <1>1 DEF NoCall
<1>3. BuiltinAt
  BY <1>1, <1>2 DEF BuiltinAt
<1>4. \A n \in UShort : TruncAt(n) /\ SimpleAt(n) /\ GrowAt(n)
  BY <1>1, <1>2 DEF TruncAt, SimpleAt, FirstCallAt, GrowAt
<1>5. FixtureAt
  BY <1>1, <1>3, <1>4 DEF Fixtures, FixtureAt
<1> QED
  BY <1>1, <1>5 DEF FixtureInv

LEMMA FixtureStep ==
  ASSUME ExecuteInv, FixtureInv, Next
  PROVE  FixtureInv'
<1>1. prog' = prog
  BY ProgramConstant
<1>2. CASE status' \in {"running", "end"}
  <2>1. Goes
    BY <1>2 DEF Goes
  <2>2. FixtureAt
    BY <2>1, GoesFetches DEF FixtureInv
  <2>3. ASSUME prog \in {builtin1, builtin_int}, BuiltinAt
        PROVE  (status' = "running" /\ FixtureAt') \/ EndsWith(prog.result)
    BY <1>1, <2>1, <2>3, BuiltinStep, FixtureResults DEF FixtureAt
  <2>4. ASSUME NEW n \in UShort,
               \/ prog = function_ret_trunc(n) /\ TruncAt(n)
               \/ prog = simple_fn_call_2(n) /\ SimpleAt(n)
               \/ prog = stack_growing_test(n) /\ GrowAt(n)
        PROVE  (status' = "running" /\ FixtureAt') \/ EndsWith(prog.result)
    <3>1. CASE prog = function_ret_trunc(n) /\ TruncAt(n)
      BY <1>1, <2>1, <3>1, TruncStep, FixtureResults DEF FixtureAt
    <3>2. CASE prog = simple_fn_call_2(n) /\ SimpleAt(n)
      BY <1>1, <2>1, <3>2, SimpleStep, FixtureResults DEF FixtureAt
    <3>3. CASE prog = stack_growing_test(n) /\ GrowAt(n)
      BY <1>1, <2>1, <3>3, GrowStep, FixtureResults DEF FixtureAt
    <3> QED
      BY <2>4, <3>1, <3>2, <3>3
  <2>5. (status' = "running" /\ FixtureAt') \/ EndsWith(prog.result)
    BY <2>2, <2>3, <2>4 DEF FixtureAt
  <2> QED
    BY <1>1, <2>5 DEF FixtureInv, EndsWith
<1>3. CASE status' \notin {"running", "end"}
  BY <1>3 DEF FixtureInv
<1> QED
  BY <1>2, <1>3

(* For every uint16_t constant in the place of theirs: the programs of the *)
(* repository that reach EXIT have the right word in slot 0, no call left, *)
(* and the base they started with.                                         *)
THEOREM FixturesCompute ==
  ASSUME Programs \subseteq Fixtures
  PROVE  Spec => []ResultInSlot0
<1>1. Init => FixtureInv
  BY FixtureStart
<1>2. ExecuteInv /\ FixtureInv /\ [Next]_vars => FixtureInv'
  <2> SUFFICES ASSUME ExecuteInv, FixtureInv, [Next]_vars PROVE FixtureInv'
    OBVIOUS
  <2>1. CASE Next
    BY <2>1, FixtureStep
  <2>2. CASE UNCHANGED vars
    <3>1. FixtureInv' = FixtureInv
      BY <2>2 DEF vars, FixtureInv, FixtureAt, BuiltinAt, TruncAt, SimpleAt, GrowAt,
         FirstCallAt, NoCall, OneCall, TwoCalls, Has
    <3> QED
      BY <3>1
  <2> QED
    BY <2>1, <2>2
<1>3. ExecuteInv /\ FixtureInv => ResultInSlot0
  <2> SUFFICES ASSUME ExecuteInv, FixtureInv, status = "end"
               PROVE  slots.data[0] = prog.result /\ stack = <<>> /\ base = 0
    BY DEF ResultInSlot0
  <2>1. stack \in Seq(Context) /\ Len(stack) = 0
    BY DEF ExecuteInv, TypeOK, FixtureInv, NoCall
  <2> QED
    BY <2>1 DEF FixtureInv, NoCall, Has, Holds
<1> QED
  BY <1>1, <1>2, <1>3, InvariantHolds, PTL DEF Spec

=============================================================================
