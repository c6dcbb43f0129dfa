---------------------------- MODULE ExecuteProofs ----------------------------
(***************************************************************************)
(* Proofs about Execute for every set of programs, compliant or not.       *)
(***************************************************************************)
EXTENDS Execute, TLAPS

-----------------------------------------------------------------------------
(* Words and program counters.                                             *)

LEMMA Widths ==
  /\ ShortHalf \in Nat \ {0} /\ IntHalf \in Nat /\ PayMod \in Nat
  /\ 2 * ShortHalf <= IntHalf /\ 2 * IntHalf <= PayMod
BY WidthAssumption

LEMMA ToPcType == ASSUME NEW n \in Int PROVE ToPc(n) \in 0 .. 2 * IntHalf - 1
BY Widths DEF ToPc

LEMMA ToIntType == ASSUME NEW n \in Int PROVE ToInt(n) \in CInt
BY Widths DEF ToInt, CInt

LEMMA SmallIntWord == ASSUME NEW n \in CInt PROVE to_small_int(n) \in Word
BY Widths DEF CInt, to_small_int, SignExtendOr, Word, Tag, TAG_POINTER_LO, TAG_SMALL_INTEGER, TAG_POINTER_HI

LEMMA OperandWords ==
  ASSUME NEW d \in UShort
  PROVE  /\ to_small_int(d) \in Word
         /\ to_type(d) \in Word
         /\ to_fnew(ToShort(d)) \in Word
<1>1. d \in CInt
  BY Widths DEF UShort, CInt
<1>2. to_type(d) \in Word
  BY Widths DEF UShort, to_type, Word, Tag, TAG_POINTER_LO, TAG_POINTER_HI, TAG_TYPE
<1>3. ToShort(d) \in Short
  BY Widths DEF UShort, ToShort, Short
<1>4. to_fnew(ToShort(d)) \in Word
  BY Widths, <1>3 DEF Short, to_fnew, SignExtendOr, Word, Tag, TAG_POINTER_LO, TAG_FNEW, TAG_POINTER_HI
<1> QED
  BY <1>1, <1>2, <1>4, SmallIntWord

LEMMA FixedWords ==
  /\ get_nil \in Word
  /\ \A b \in BOOLEAN : to_bool(b) \in Word
  /\ to_builtin(PrintlnAddr) \in Word
<1>1. get_nil \in Word
  BY Widths DEF get_nil, Word, Tag, TAG_POINTER_LO, TAG_POINTER_HI
<1>2. ASSUME NEW b \in BOOLEAN PROVE to_bool(b) \in Word
  <2>1. (IF b THEN 1 ELSE 0) \in 0 .. PayMod - 1
    BY Widths
  <2> QED
    BY <2>1 DEF to_bool, Word, Tag, TAG_POINTER_LO, TAG_POINTER_HI, TAG_BOOL
<1>3. to_builtin(PrintlnAddr) \in Word
  <2>1. PrintlnAddr \in 0 .. PayMod - 1
    BY Widths, ProgramAssumption
  <2> QED
    BY <2>1 DEF to_builtin, Word, Tag, TAG_POINTER_LO, TAG_POINTER_HI, TAG_BUILTIN
<1> QED
  BY <1>1, <1>2, <1>3

LEMMA WordValue == ASSUME NEW w \in Word PROVE w.val \in Int
<1>1. w.val \in 0 .. PayMod - 1
  BY DEF Word
<1> QED
  BY <1>1

LEMMA FunctionAddress == ASSUME NEW w \in Word PROVE get_fnew(w) \in UShort
<1>1. w.val \in Int /\ 2 * ShortHalf \in Nat \ {0}
  BY Widths, WordValue
<1>2. w.val % (2 * ShortHalf) \in 0 .. 2 * ShortHalf - 1
  BY <1>1
<1> QED
  BY <1>2 DEF get_fnew, UShort

LEMMA SmallIntValue == ASSUME NEW w \in Word PROVE get_small_int(w) \in CInt
<1>1. w.val \in Int
  BY WordValue
<1> QED
  BY <1>1, ToIntType DEF get_small_int

-----------------------------------------------------------------------------
(* Slot arrays.  What each operation yields, and that it leaves the words  *)
(* below index b alone if it works from b on.                              *)

Keeps(s, t, b) == \A j \in 0 .. b - 1 : j < t.size /\ t.data[j] = s.data[j]

LEMMA SlotsOf ==
  ASSUME NEW n \in Nat, NEW f, \A j \in 0 .. n - 1 : f[j] \in Word
  PROVE  /\ IsSlots([size |-> n, data |-> [j \in 0 .. n - 1 |-> f[j]]])
BY DEF IsSlots

LEMMA NoSlotsType == IsSlots(NoSlots)
BY DEF IsSlots, NoSlots

LEMMA SlotSetFacts ==
  ASSUME NEW s, IsSlots(s), NEW i \in Nat, NEW w \in Word,
         NEW b \in Nat, b <= i, b <= s.size
  PROVE  /\ IsSlots(SlotSet(s, i, w))
         /\ SlotSet(s, i, w).size = LongerOf(s.size, i + 1)
         /\ SlotSet(s, i, w).data[i] = w
         /\ \A j \in 0 .. s.size - 1 : j # i => SlotSet(s, i, w).data[j] = s.data[j]
         /\ Keeps(s, SlotSet(s, i, w), b)
<1> DEFINE n == LongerOf(s.size, i + 1)
           f == [j \in 0 .. n - 1 |-> IF j = i THEN w
                                      ELSE IF j < s.size THEN s.data[j] ELSE get_nil]
<1>1. s.size \in Nat /\ s.data \in [0 .. s.size - 1 -> Word]
  BY DEF IsSlots
<1>2. n \in Nat /\ n >= s.size /\ n >= i + 1
  BY <1>1 DEF LongerOf
<1>3. SlotSet(s, i, w) = [size |-> n, data |-> f]
  BY DEF SlotSet
<1> HIDE DEF n
<1>4. f \in [0 .. n - 1 -> Word]
  BY <1>1, <1>2, FixedWords
<1>5. f[i] = w /\ \A j \in 0 .. s.size - 1 : j # i => f[j] = s.data[j]
  BY <1>1, <1>2
<1> HIDE DEF f
<1>6. IsSlots(SlotSet(s, i, w))
  BY <1>2, <1>3, <1>4 DEF IsSlots
<1>7. Keeps(s, SlotSet(s, i, w), b)
  BY <1>1, <1>2, <1>3, <1>5 DEF Keeps
<1> QED
  BY <1>3, <1>5, <1>6, <1>7 DEF n

LEMMA SlotClearFacts ==
  ASSUME NEW s, IsSlots(s), NEW lo \in Nat, NEW hi \in Nat,
         NEW b \in Nat, b <= lo, b <= s.size
  PROVE  IsSlots(SlotClear(s, lo, hi)) /\ Keeps(s, SlotClear(s, lo, hi), b)
<1> DEFINE n == IF hi <= lo THEN s.size ELSE LongerOf(s.size, hi)
           f == [j \in 0 .. n - 1 |-> IF j >= lo /\ j < hi THEN get_nil
                                      ELSE IF j < s.size THEN s.data[j] ELSE get_nil]
<1>1. s.size \in Nat /\ s.data \in [0 .. s.size - 1 -> Word]
  BY DEF IsSlots
<1>2. n \in Nat /\ n >= s.size
  BY <1>1 DEF LongerOf
<1>3. SlotClear(s, lo, hi) = [size |-> n, data |-> f]
  BY DEF SlotClear
<1> HIDE DEF n
<1>4. f \in [0 .. n - 1 -> Word]
  BY <1>1, <1>2, FixedWords
<1>5. \A j \in 0 .. b - 1 : f[j] = s.data[j]
  BY <1>1, <1>2
<1> HIDE DEF f
<1> QED
  BY <1>1, <1>2, <1>3, <1>4, <1>5 DEF IsSlots, Keeps

LEMMA SlotTruncateFacts ==
  ASSUME NEW s, IsSlots(s), NEW n \in Nat, n <= s.size, NEW b \in Nat, b <= n
  PROVE  /\ IsSlots(SlotTruncate(s, n)) /\ SlotTruncate(s, n).size = n
         /\ Keeps(s, SlotTruncate(s, n), b)
<1>1. s.size \in Nat /\ s.data \in [0 .. s.size - 1 -> Word]
  BY DEF IsSlots
<1>2. [j \in 0 .. n - 1 |-> s.data[j]] \in [0 .. n - 1 -> Word]
  BY <1>1
<1> QED
  BY <1>1, <1>2 DEF SlotTruncate, IsSlots, Keeps

LEMMA SlotMoveFacts ==
  ASSUME NEW s, IsSlots(s), NEW to \in Nat, NEW from \in Nat, NEW c \in Nat,
         NEW b \in Nat, b <= to, b <= s.size
  PROVE  IsSlots(SlotMove(s, to, from, c)) /\ Keeps(s, SlotMove(s, to, from, c), b)
<1> DEFINE n      == IF c = 0 THEN s.size ELSE LongerOf(s.size, to + c)
           src(k) == IF to > from THEN from + (k % (to - from)) ELSE from + k
           old(j) == IF j >= to /\ j < to + c THEN src(j - to) ELSE j
           f      == [j \in 0 .. n - 1 |-> IF old(j) < s.size THEN s.data[old(j)]
                                                            ELSE get_nil]
<1>1. s.size \in Nat /\ s.data \in [0 .. s.size - 1 -> Word]
  BY DEF IsSlots
<1>2. n \in Nat /\ n >= s.size
  BY <1>1 DEF LongerOf
<1>3. SlotMove(s, to, from, c) = [size |-> n, data |-> f]
  BY DEF SlotMove
<1>4. ASSUME NEW j \in 0 .. n - 1 PROVE old(j) \in Nat
  <2>1. CASE j >= to /\ j < to + c /\ to > from
    <3>1. (j - to) % (to - from) \in Nat
      BY <2>1, <1>2
    <3> QED
      BY <2>1, <3>1
  <2>2. CASE ~(j >= to /\ j < to + c /\ to > from)
    BY <2>2, <1>2
  <2> QED
    BY <2>1, <2>2
<1>5. \A j \in 0 .. b - 1 : old(j) = j /\ j \in 0 .. n - 1
  BY <1>1, <1>2
<1> HIDE DEF n, old
<1>6. f \in [0 .. n - 1 -> Word]
  BY <1>1, <1>4, FixedWords
<1>7. \A j \in 0 .. b - 1 : f[j] = s.data[j]
  BY <1>1, <1>5
<1> HIDE DEF f
<1> QED
  BY <1>1, <1>2, <1>3, <1>6, <1>7 DEF IsSlots, Keeps

-----------------------------------------------------------------------------
(* The invariant, and the effect of the parts actions are made of.         *)

ExecuteInv == TypeOK /\ BasesOrdered

(* The step leaves every slot below the running function's base alone.     *)
Isolated == \A i \in 0 .. base - 1 : i < slots'.size /\ slots'.data[i] = slots.data[i]

LEMMA InstrType ==
  ASSUME TypeOK, pc \in DOMAIN prog.code
  PROVE  /\ inst \in Instr
         /\ inst.a \in Nat /\ inst.b \in Nat /\ inst.c \in Nat /\ inst.d \in Nat
         /\ inst.d \in UShort
<1>1. inst \in Instr
  BY DEF TypeOK, IsProgram, inst
<1>2. inst.a \in Operand /\ inst.b \in Operand /\ inst.c \in Operand /\ inst.d \in UShort
  BY <1>1 DEF Instr
<1> QED
  BY <1>1, <1>2 DEF Operand, UShort

LEMMA GetType ==
  ASSUME TypeOK, NEW i \in Nat, live(i)
  PROVE  get(i) \in Word
<1>1. slots.size \in Nat /\ slots.data \in [0 .. slots.size - 1 -> Word]
  BY DEF TypeOK, IsSlots
<1>2. base + i \in 0 .. slots.size - 1
  BY <1>1 DEF TypeOK, live
<1> QED
  BY <1>1, <1>2 DEF get

LEMMA StopSafe ==
  ASSUME ExecuteInv, NEW how \in SUBSET Stops, Stop(how)
  PROVE  ExecuteInv' /\ Isolated
<1>1. /\ status' \in Stops
      /\ UNCHANGED <<prog, pc, ip, base, slots, stack, symtab>>
  BY DEF Stop
<1>2. TypeOK'
  BY <1>1 DEF ExecuteInv, TypeOK
<1>3. BasesOrdered'
  BY <1>1 DEF ExecuteInv, BasesOrdered, FrameBase
<1>4. Isolated
  BY <1>1 DEF ExecuteInv, TypeOK, BasesOrdered, IsSlots, Isolated
<1> QED
  BY <1>2, <1>3, <1>4 DEF ExecuteInv

(* A step that changes the slots from the base on and stays in its frame.  *)
LEMMA WriteSafe ==
  ASSUME ExecuteInv, NEW n \in Int, Goto(n), SameFrame, prog' = prog,
         IsSlots(slots'), Keeps(slots, slots', base), base <= slots'.size,
         symtab' \in [Names -> Word], status' \in Stops \cup {"running"}
  PROVE  ExecuteInv' /\ Isolated
<1>1. pc' \in 0 .. 2 * IntHalf - 1
  BY ToPcType DEF Goto
<1>2. UNCHANGED <<ip, base, stack, prog>>
  BY DEF SameFrame
<1>3. TypeOK'
  BY <1>1, <1>2 DEF ExecuteInv, TypeOK
<1>4. BasesOrdered'
  BY <1>2 DEF ExecuteInv, BasesOrdered, FrameBase
<1>5. Isolated
  BY DEF Isolated, Keeps
<1> QED
  BY <1>3, <1>4, <1>5 DEF ExecuteInv

LEMMA ProceedSafe ==
  ASSUME ExecuteInv, status = "running", NEW n \in Int, Proceed(n)
  PROVE  ExecuteInv' /\ Isolated
<1>1. /\ Goto(n) /\ SameFrame /\ prog' = prog
      /\ UNCHANGED <<slots, symtab, status>>
  BY DEF Proceed, RunsOn
<1>2. /\ IsSlots(slots') /\ base <= slots'.size
      /\ symtab' \in [Names -> Word] /\ status' \in Stops \cup {"running"}
  BY <1>1 DEF ExecuteInv, TypeOK, BasesOrdered
<1>3. Keeps(slots, slots', base)
  BY <1>1 DEF ExecuteInv, TypeOK, BasesOrdered, IsSlots, Keeps
<1> QED
  BY <1>1, <1>2, <1>3, WriteSafe

LEMMA ProduceSafe ==
  ASSUME ExecuteInv, status = "running", pc \in DOMAIN prog.code,
         NEW w \in Word, Produce(w)
  PROVE  ExecuteInv' /\ Isolated
<1>1. /\ slots' = SlotSet(slots, base + inst.a, w)
      /\ Goto(pc + 1) /\ SameFrame /\ prog' = prog
      /\ UNCHANGED <<symtab, status>>
  BY DEF Produce, RunsOn, set, Advance
<1>2. /\ IsSlots(slots) /\ slots.size \in Nat /\ base \in Nat /\ base <= slots.size
      /\ pc + 1 \in Int /\ inst.a \in Nat
  BY InstrType DEF ExecuteInv, TypeOK, BasesOrdered, IsSlots
<1> DEFINE i == base + inst.a
           t == SlotSet(slots, i, w)
<1>3. /\ IsSlots(slots') /\ Keeps(slots, slots', base)
      /\ slots'.size = LongerOf(slots.size, i + 1)
  <2>1. i \in Nat /\ base <= i
    BY <1>2
  <2>2. slots' = t
    BY <1>1
  <2> HIDE DEF i
  <2>3. IsSlots(t) /\ Keeps(slots, t, base) /\ t.size = LongerOf(slots.size, i + 1)
    BY <1>2, <2>1, SlotSetFacts
  <2> QED
    BY <2>2, <2>3
<1>4. base <= slots'.size
  BY <1>2, <1>3 DEF LongerOf
<1>5. symtab' \in [Names -> Word] /\ status' \in Stops \cup {"running"}
  BY <1>1 DEF ExecuteInv, TypeOK
<1> QED
  BY <1>1, <1>2, <1>3, <1>4, <1>5, WriteSafe

-----------------------------------------------------------------------------
(* The actions.                                                            *)

LEMMA ConstantSafe ==
  ASSUME ExecuteInv, Cstr \/ Ctype \/ Cbool \/ Cnil \/ Cshort \/ Fnew
  PROVE  ExecuteInv' /\ Isolated
<1>1. PICK w \in Word : /\ status = "running" /\ pc \in DOMAIN prog.code
                        /\ Produce(w)
  <2>1. CASE Cstr \/ Cshort \/ Ctype \/ Fnew
    <3>1. status = "running" /\ pc \in DOMAIN prog.code
      BY <2>1 DEF Cstr, Cshort, Ctype, Fnew, Fetch
    <3>2. inst.d \in UShort
      BY <3>1, InstrType DEF ExecuteInv
    <3>3. \/ Produce(to_small_int(inst.d)) \/ Produce(to_type(inst.d))
          \/ Produce(to_fnew(ToShort(inst.d)))
      BY <2>1 DEF Cstr, Cshort, Ctype, Fnew
    <3> QED
      BY <3>1, <3>2, <3>3, OperandWords
  <2>2. CASE Cbool \/ Cnil
    <3>1. /\ status = "running" /\ pc \in DOMAIN prog.code
          /\ Produce(to_bool(inst.d # 0)) \/ Produce(get_nil)
      BY <2>2 DEF Cbool, Cnil, Fetch
    <3>2. (inst.d # 0) \in BOOLEAN
      OBVIOUS
    <3> QED
      BY <3>1, <3>2, FixedWords
  <2> QED
    BY <2>1, <2>2
<1> QED
  BY <1>1, ProduceSafe

LEMMA KeySafe == ASSUME ExecuteInv, Ckey PROVE ExecuteInv' /\ Isolated
<1>1. status = "running" /\ pc \in DOMAIN prog.code
  BY DEF Ckey, Fetch
<1>2. CASE inst.d \in DOMAIN prog.cstr
  <2> DEFINE w == [tag |-> TAG_POINTER_LO, val |-> prog.cstr[inst.d].addr]
  <2>1. prog.cstr[inst.d].addr \in 0 .. PayMod - 1
    BY <1>2, Widths DEF ExecuteInv, TypeOK, IsProgram
  <2>2. w \in Word
    BY <2>1 DEF Word, Tag, TAG_POINTER_LO, TAG_POINTER_HI
  <2>3. Produce(w)
    BY <1>2 DEF Ckey
  <2> QED
    BY <1>1, <2>2, <2>3, ProduceSafe
<1>3. CASE inst.d \notin DOMAIN prog.cstr
  <2>1. (\E w \in RawWords : Produce(w)) \/ Stop({"crash"})
    BY <1>3 DEF Ckey
  <2>2. RawWords \subseteq Word
    BY ProgramAssumption
  <2> QED
    BY <1>1, <2>1, <2>2, ProduceSafe, StopSafe DEF Stops
<1> QED
  BY <1>2, <1>3

LEMMA GlobalSafe == ASSUME ExecuteInv, Nsset \/ Nsget PROVE ExecuteInv' /\ Isolated
<1>1. status = "running" /\ pc \in DOMAIN prog.code
  BY DEF Nsset, Nsget, Fetch, get_symbol_table, add_symbol_table_pair
<1>2. CASE inst.d \notin DOMAIN prog.cstr
  <2>1. Stop({"crash", "wild"})
    BY <1>2 DEF Nsset, Nsget, get_symbol_table
  <2> QED
    BY <2>1, StopSafe DEF Stops
<1> DEFINE name == prog.cstr[inst.d].name
<1>3. CASE inst.d \in DOMAIN prog.cstr /\ Nsget
  <2>1. name \in Names
    BY <1>3 DEF ExecuteInv, TypeOK, IsProgram
  <2>2. symtab[name] \in Word
    BY <2>1 DEF ExecuteInv, TypeOK
  <2>3. Produce(symtab[name])
    BY <1>3 DEF Nsget, get_symbol_table
  <2> QED
    BY <1>1, <2>2, <2>3, ProduceSafe
<1>4. CASE inst.d \in DOMAIN prog.cstr /\ Nsset
  <2>1. /\ symtab' = [symtab EXCEPT ![name] = get(inst.a)]
        /\ Goto(pc + 1) /\ SameFrame /\ UNCHANGED <<prog, status, slots>>
        /\ readable /\ inst.op = "NSSET"
    BY <1>4 DEF Nsset, Advance, RunsOn, Fetch, add_symbol_table_pair
  <2>2. live(inst.a)
    BY <2>1 DEF readable, reads
  <2>3. get(inst.a) \in Word
    BY <1>1, <2>2, GetType, InstrType DEF ExecuteInv
  <2>4. /\ symtab' \in [Names -> Word]
        /\ IsSlots(slots') /\ base <= slots'.size /\ pc + 1 \in Int
        /\ status' \in Stops \cup {"running"}
    <3>1. symtab \in [Names -> Word]
      BY DEF ExecuteInv, TypeOK
    <3>2. symtab' \in [Names -> Word]
      BY <2>1, <2>3, <3>1
    <3> QED
      BY <2>1, <3>2 DEF ExecuteInv, TypeOK, BasesOrdered
  <2>5. Keeps(slots, slots', base)
    BY <2>1 DEF ExecuteInv, TypeOK, BasesOrdered, IsSlots, Keeps
  <2> QED
    BY <2>1, <2>4, <2>5, WriteSafe
<1> QED
  BY <1>2, <1>3, <1>4

LEMMA ComputedType ==
  ASSUME NEW x \in Int, NEW y \in Int,
         inst.op \in {"DIVVV", "MODVV"} => y # 0,
         inst.op \in {"ADDVV", "SUBVV", "MULVV", "DIVVV", "MODVV"}
  PROVE  Computed(x, y) \in Int
<1>1. ASSUME y # 0 PROVE CDiv(x, y) \in Int /\ CMod(x, y) \in Int
  <2>1. Magnitude(x) \in Nat /\ Magnitude(y) \in Nat \ {0}
    BY <1>1 DEF Magnitude
  <2>2. Magnitude(x) \div Magnitude(y) \in Int
    BY <2>1
  <2>3. CDiv(x, y) \in Int
    BY <2>2 DEF CDiv
  <2> QED
    BY <2>3 DEF CMod
<1>2. CASE inst.op \in {"DIVVV", "MODVV"}
  BY <1>1, <1>2 DEF Computed
<1>3. CASE inst.op \in {"ADDVV", "SUBVV", "MULVV"}
  BY <1>3 DEF Computed
<1> QED
  BY <1>2, <1>3

LEMMA ArithSafe == ASSUME ExecuteInv, Arith \/ Modvv PROVE ExecuteInv' /\ Isolated
<1> DEFINE x == get_small_int(get(inst.b))
           y == get_small_int(get(inst.c))
<1>1. /\ status = "running" /\ pc \in DOMAIN prog.code /\ readable
      /\ inst.op \in {"ADDVV", "SUBVV", "MULVV", "DIVVV", "MODVV"}
  BY DEF Arith, Modvv, Fetch, result
<1>2. live(inst.b) /\ live(inst.c)
  BY <1>1 DEF readable, reads
<1>3. x \in Int /\ y \in Int
  <2>1. get(inst.b) \in Word /\ get(inst.c) \in Word
    BY <1>1, <1>2, InstrType, GetType DEF ExecuteInv
  <2>2. \A n \in CInt : n \in Int
    BY Widths DEF CInt
  <2> QED
    BY <2>1, <2>2, SmallIntValue
<1>4. \/ \E how \in SUBSET Stops : Stop(how)
      \/ Proceed(pc + 1)
      \/ /\ inst.op \in {"DIVVV", "MODVV"} => ~Traps(x, y)
         /\ Produce(to_small_int(ToInt(Computed(x, y))))
  <2>1. {"crash"} \in SUBSET Stops /\ {"type_error"} \in SUBSET Stops
    BY DEF Stops
  <2>2. CASE Modvv
    <3>1. inst.op = "MODVV"
      BY <2>2 DEF Modvv, result, Fetch
    <3> QED
      BY <2>1, <2>2, <3>1 DEF Modvv, result
  <2>3. CASE Arith
    <3>1. inst.op # "MODVV"
      BY <2>3 DEF Arith, result, Fetch
    <3>2. \/ Stop({"crash"}) \/ Proceed(pc + 1)
          \/ /\ inst.op = "DIVVV" => ~Traps(x, y)
             /\ Produce(to_small_int(ToInt(Computed(x, y))))
      BY <2>3 DEF Arith, result
    <3> QED
      BY <2>1, <3>1, <3>2
  <2> QED
    BY <2>2, <2>3
<1>5. CASE \E how \in SUBSET Stops : Stop(how)
  BY <1>5, StopSafe
<1>6. CASE Proceed(pc + 1)
  <2>1. pc + 1 \in Int
    BY DEF ExecuteInv, TypeOK
  <2> QED
    BY <1>1, <1>6, <2>1, ProceedSafe
<1>7. CASE /\ inst.op \in {"DIVVV", "MODVV"} => ~Traps(x, y)
           /\ Produce(to_small_int(ToInt(Computed(x, y))))
  <2>1. inst.op \in {"DIVVV", "MODVV"} => y # 0
    BY <1>7 DEF Traps
  <2>2. Computed(x, y) \in Int
    BY <1>1, <1>3, <2>1, ComputedType
  <2>3. to_small_int(ToInt(Computed(x, y))) \in Word
    BY <2>2, ToIntType, SmallIntWord
  <2> QED
    BY <1>1, <1>7, <2>3, ProduceSafe
<1> QED
  BY <1>4, <1>5, <1>6, <1>7

LEMMA EqualSafe == ASSUME ExecuteInv, Iseq PROVE ExecuteInv' /\ Isolated
<1> DEFINE equal == get_small_int(get(inst.b)) = get_small_int(get(inst.c))
<1>1. /\ status = "running" /\ pc \in DOMAIN prog.code
      /\ \/ Produce(to_bool(equal))
         \/ Stop({"crash"}) \/ Stop({"type_error"})
  BY DEF Iseq, Fetch
<1>2. equal \in BOOLEAN
  OBVIOUS
<1>3. to_bool(equal) \in Word
  BY <1>2, FixedWords
<1> QED
  BY <1>1, <1>3, ProduceSafe, StopSafe DEF Stops

LEMMA MoveSafe == ASSUME ExecuteInv, Mov PROVE ExecuteInv' /\ Isolated
<1>1. /\ status = "running" /\ pc \in DOMAIN prog.code /\ readable
      /\ inst.op = "MOV" /\ Produce(get(inst.d))
  BY DEF Mov, Fetch
<1>2. live(inst.d)
  BY <1>1 DEF readable, reads
<1>3. get(inst.d) \in Word
  BY <1>1, <1>2, InstrType, GetType DEF ExecuteInv
<1> QED
  BY <1>1, <1>3, ProduceSafe

LEMMA BulkmovSafe == ASSUME ExecuteInv, Bulkmov PROVE ExecuteInv' /\ Isolated
<1> DEFINE to   == base + inst.a
           from == base + inst.b
           t    == SlotMove(slots, to, from, inst.c)
<1>1. /\ slots' = t /\ Goto(pc + 1) /\ SameFrame
      /\ UNCHANGED <<prog, status, symtab>>
      /\ pc \in DOMAIN prog.code
  BY DEF Bulkmov, Fetch, Advance, RunsOn
<1>2. /\ IsSlots(slots) /\ base \in Nat /\ base <= slots.size
      /\ pc + 1 \in Int /\ to \in Nat /\ from \in Nat /\ inst.c \in Nat /\ base <= to
  BY <1>1, InstrType DEF ExecuteInv, TypeOK, BasesOrdered
<1> HIDE DEF to, from
<1>3. IsSlots(t) /\ Keeps(slots, t, base)
  BY <1>2, SlotMoveFacts
<1> HIDE DEF t
<1>4. base <= slots'.size
  BY <1>1, <1>2, <1>3 DEF Keeps, IsSlots
<1>5. symtab' \in [Names -> Word] /\ status' \in Stops \cup {"running"}
  BY <1>1 DEF ExecuteInv, TypeOK
<1> QED
  BY <1>1, <1>2, <1>3, <1>4, <1>5, WriteSafe

LEMMA JumpSafe ==
  ASSUME ExecuteInv, Jump \/ Jumpf \/ Jumpt \/ Loop \/ Skip
  PROVE  ExecuteInv' /\ Isolated
<1>1. /\ status = "running" /\ pc \in DOMAIN prog.code
      /\ \/ Proceed(pc + ToShort(inst.d))
         \/ \E taken \in BOOLEAN : Branch(taken)
         \/ Proceed(pc) \/ Proceed(pc + 1)
  <2>1. ASSUME NEW w PROVE is_falsy(w) \in BOOLEAN
    BY DEF is_falsy, is_bool, is_nil, get_bool
  <2> QED
    BY <2>1 DEF Jump, Jumpf, Jumpt, Loop, Skip, Fetch
<1>2. inst.d \in UShort /\ pc \in Int
  BY <1>1, InstrType DEF ExecuteInv, TypeOK
<1>3. ToShort(inst.d) \in Int
  BY <1>2, Widths DEF ToShort, UShort
<1>4. PICK n \in Int : Proceed(n)
  BY <1>1, <1>2, <1>3 DEF Branch
<1> QED
  BY <1>1, <1>4, ProceedSafe

LEMMA ExitSafe == ASSUME ExecuteInv, Exit PROVE ExecuteInv' /\ Isolated
<1>1. /\ Goto(pc + 1) /\ SameFrame /\ UNCHANGED <<prog, slots, symtab>>
      /\ status' = "end"
  BY DEF Exit, Advance
<1>2. /\ IsSlots(slots') /\ base <= slots'.size /\ pc + 1 \in Int
      /\ symtab' \in [Names -> Word] /\ status' \in Stops \cup {"running"}
  BY <1>1 DEF ExecuteInv, TypeOK, BasesOrdered, Stops
<1>3. Keeps(slots, slots', base)
  BY <1>1 DEF ExecuteInv, TypeOK, BasesOrdered, IsSlots, Keeps
<1> QED
  BY <1>1, <1>2, <1>3, WriteSafe

LEMMA ObjectSafe ==
  ASSUME ExecuteInv, Alloc \/ Setfield \/ Getfield
  PROVE  ExecuteInv' /\ Isolated
<1>1. /\ status = "running" /\ pc \in DOMAIN prog.code
      /\ \/ Proceed(pc + 1)
         \/ \E w \in RawWords : Produce(w)
         \/ Stop({"crash"}) \/ Stop({"crash", "wild"})
  BY DEF Alloc, Setfield, Getfield, Fetch
<1>2. pc + 1 \in Int /\ RawWords \subseteq Word
  BY ProgramAssumption DEF ExecuteInv, TypeOK
<1>3. {"crash"} \in SUBSET Stops /\ {"crash", "wild"} \in SUBSET Stops
  BY DEF Stops
<1> QED
  BY <1>1, <1>2, <1>3, ProceedSafe, ProduceSafe, StopSafe

-----------------------------------------------------------------------------
(* Calls and returns.                                                      *)

LEMMA KeepsTransitive ==
  ASSUME NEW s, NEW t, NEW u, NEW b, Keeps(s, t, b), Keeps(t, u, b)
  PROVE  Keeps(s, u, b)
BY DEF Keeps

(* The slot array CALL leaves to the callee.                               *)
LEMMA CalledFacts ==
  ASSUME ExecuteInv, pc \in DOMAIN prog.code
  PROVE  /\ IsSlots(called) /\ Keeps(slots, called, base)
         /\ newbase \in Nat /\ base <= newbase /\ newbase < called.size
         /\ base \in Nat /\ base <= called.size
<1> DEFINE i == newbase
           w == to_small_int(ToInt(pc))
<1>1. pc \in Int /\ IsSlots(slots) /\ slots.size \in Nat
      /\ base \in Nat /\ base <= slots.size
  BY DEF ExecuteInv, TypeOK, BasesOrdered, IsSlots
<1>2. w \in Word
  BY <1>1, ToIntType, SmallIntWord
<1>3. i \in Nat /\ base <= i
  BY <1>1, InstrType DEF newbase, ExecuteInv
<1>4. called = SlotSet(slots, i, w)
  BY DEF called
<1> HIDE DEF i, w
<1>5. /\ IsSlots(called) /\ Keeps(slots, called, base)
      /\ called.size = LongerOf(slots.size, i + 1)
  BY <1>1, <1>2, <1>3, <1>4, SlotSetFacts
<1>6. i < called.size /\ base <= called.size
  BY <1>1, <1>3, <1>5 DEF LongerOf
<1> QED
  BY <1>1, <1>3, <1>5, <1>6 DEF i

LEMMA CallFunctionSafe == ASSUME ExecuteInv, CallFunction PROVE ExecuteInv' /\ Isolated
<1> DEFINE ctx == [base_slot |-> base, ip |-> ip]
<1>1. /\ pc \in DOMAIN prog.code /\ readable /\ inst.op = "CALL" /\ is_fnew(callee)
      /\ stack' = Append(stack, ctx) /\ slots' = called
      /\ base' = newbase /\ ip' = func /\ pc' = func
      /\ UNCHANGED <<prog, status, symtab>>
  BY DEF CallFunction, Fetch, RunsOn, context
<1>2. /\ IsSlots(slots') /\ Keeps(slots, slots', base)
      /\ base \in Nat /\ newbase \in Nat /\ base <= newbase /\ newbase <= slots'.size
  <2>1. called.size \in Nat
    BY <1>1, CalledFacts DEF IsSlots
  <2> QED
    BY <1>1, <2>1, CalledFacts
<1>3. func \in UShort
  <2>1. live(inst.a + 1) /\ inst.a + 1 \in Nat
    BY <1>1, InstrType DEF readable, reads, ExecuteInv
  <2>2. callee \in Word
    BY <2>1, GetType DEF callee, ExecuteInv
  <2> QED
    BY <1>1, <2>2, FunctionAddress DEF func
<1>4. func \in 0 .. 2 * IntHalf - 1
  BY <1>3, Widths DEF UShort
<1>5. stack \in Seq(Context) /\ ctx \in Context
  BY DEF ExecuteInv, TypeOK, Context
<1>6. /\ stack' \in Seq(Context) /\ Len(stack') = Len(stack) + 1
      /\ \A k \in 1 .. Len(stack) : stack'[k] = stack[k]
      /\ stack'[Len(stack) + 1] = ctx
  BY <1>1, <1>5
<1>7. TypeOK'
  BY <1>1, <1>2, <1>3, <1>4, <1>6 DEF ExecuteInv, TypeOK
<1>8. BasesOrdered'
  <2>1. PICK m : m = Len(stack)        \* the same number in the next state
    OBVIOUS
  <2>2. m \in Nat /\ Len(stack') = m + 1 /\ stack'[m + 1] = ctx
    BY <1>5, <1>6, <2>1
  <2>3. \A k \in 1 .. m : FrameBase(k)' = FrameBase(k)
    BY <1>6, <2>1, <2>2 DEF FrameBase
  <2>4. FrameBase(m + 1)' = base /\ FrameBase(m + 1) = base
    BY <2>1, <2>2 DEF FrameBase
  <2>5. FrameBase(m + 2)' = newbase
    BY <1>1, <2>2 DEF FrameBase
  <2>6. /\ FrameBase(1) = 0
        /\ \A k \in 1 .. m : FrameBase(k) <= FrameBase(k + 1)
    BY <2>1 DEF ExecuteInv, BasesOrdered
  <2>7. FrameBase(1)' = 0
    <3>1. CASE m = 0
      BY <2>4, <2>6, <3>1
    <3>2. CASE m # 0
      <4>1. 1 \in 1 .. m
        BY <2>2, <3>2
      <4> QED
        BY <2>3, <2>6, <4>1
    <3> QED
      BY <3>1, <3>2
  <2>8. ASSUME NEW k \in 1 .. m + 1
        PROVE  FrameBase(k)' <= FrameBase(k + 1)'
    <3>1. CASE k \in 1 .. m - 1
      <4>1. k \in 1 .. m /\ k + 1 \in 1 .. m
        BY <2>2, <3>1
      <4>2. FrameBase(k)' = FrameBase(k) /\ FrameBase(k + 1)' = FrameBase(k + 1)
        BY <2>3, <4>1
      <4> QED
        BY <2>6, <4>1, <4>2
    <3>2. CASE k = m /\ m # 0
      <4>1. m \in 1 .. m
        BY <2>2, <3>2
      <4>2. FrameBase(m) <= FrameBase(m + 1) /\ FrameBase(m)' = FrameBase(m)
        BY <2>3, <2>6, <4>1
      <4> QED
        BY <2>4, <3>2, <4>2
    <3>3. CASE k = m + 1
      <4>1. k + 1 = m + 2
        BY <2>2, <3>3
      <4> QED
        BY <1>2, <2>4, <2>5, <3>3, <4>1
    <3> QED
      BY <2>2, <3>1, <3>2, <3>3
  <2>9. base' <= slots'.size
    BY <1>1, <1>2
  <2> QED
    BY <2>2, <2>7, <2>8, <2>9 DEF BasesOrdered
<1>9. Isolated
  BY <1>2 DEF Isolated, Keeps
<1> QED
  BY <1>7, <1>8, <1>9 DEF ExecuteInv

LEMMA CallBuiltinSafe == ASSUME ExecuteInv, CallBuiltin PROVE ExecuteInv' /\ Isolated
<1> DEFINE t  == SlotSet(called, newbase, get_nil)
           lo == newbase + 2
           hi == newbase + inst.a + 10
           u  == SlotClear(t, lo, hi)
<1>1. /\ status = "running" /\ pc \in DOMAIN prog.code
      /\ \/ Stop({"slot_error"}) \/ Stop({"crash"})
         \/ /\ slots' = u /\ Goto(pc + 1) /\ SameFrame
            /\ UNCHANGED <<prog, status, symtab>>
  BY DEF CallBuiltin, cleared, Fetch, Advance, RunsOn, builtin_println
<1>2. /\ IsSlots(called) /\ Keeps(slots, called, base) /\ called.size \in Nat
      /\ newbase \in Nat /\ base \in Nat /\ base <= newbase /\ base <= called.size
      /\ inst.a \in Nat
  BY <1>1, CalledFacts, InstrType DEF ExecuteInv, IsSlots
<1>3. CASE Stop({"slot_error"}) \/ Stop({"crash"})
  BY <1>3, StopSafe DEF Stops
<1>4. CASE /\ slots' = u /\ Goto(pc + 1) /\ SameFrame
           /\ UNCHANGED <<prog, status, symtab>>
  <2>1. /\ IsSlots(t) /\ Keeps(called, t, base)
        /\ t.size = LongerOf(called.size, newbase + 1)
    BY <1>2, SlotSetFacts, FixedWords
  <2>2. t.size \in Nat /\ base <= t.size /\ lo \in Nat /\ hi \in Nat /\ base <= lo
    BY <1>2, <2>1 DEF LongerOf
  <2> HIDE DEF t, lo, hi
  <2>3. IsSlots(u) /\ Keeps(t, u, base)
    BY <1>2, <2>1, <2>2, SlotClearFacts
  <2> HIDE DEF u
  <2>4. Keeps(slots, slots', base)
    BY <1>2, <1>4, <2>1, <2>3, KeepsTransitive
  <2>5. IsSlots(slots') /\ base <= slots'.size
    <3>1. u.size \in Nat
      BY <2>3 DEF IsSlots
    <3>2. base > 0 => base - 1 < u.size
      BY <1>2, <1>4, <2>4 DEF Keeps
    <3> QED
      BY <1>2, <1>4, <2>3, <3>1, <3>2
  <2>6. /\ symtab' \in [Names -> Word] /\ status' \in Stops \cup {"running"}
        /\ pc + 1 \in Int
    BY <1>4 DEF ExecuteInv, TypeOK
  <2> QED
    BY <1>4, <2>4, <2>5, <2>6, WriteSafe
<1> QED
  BY <1>1, <1>3, <1>4

LEMMA FrontFacts ==
  ASSUME NEW s \in Seq(Context), s # <<>>
  PROVE  /\ Front(s) \in Seq(Context) /\ Last(s) = s[Len(s)] /\ Last(s) \in Context
         /\ Len(s) \in Nat \ {0} /\ Len(Front(s)) = Len(s) - 1
         /\ \A k \in 1 .. Len(s) - 1 : Front(s)[k] = s[k]
<1>1. Len(s) \in Nat \ {0}
  OBVIOUS
<1>2. Front(s) = [k \in 1 .. Len(s) - 1 |-> s[k]]
  BY <1>1 DEF Front
<1> QED
  BY <1>1, <1>2 DEF Last

LEMMA ReturnSafe == ASSUME ExecuteInv, Ret PROVE ExecuteInv' /\ Isolated
<1>1. /\ status = "running" /\ pc \in DOMAIN prog.code /\ readable /\ inst.op = "RET"
  BY DEF Ret, resume, Fetch
<1>2. CASE stack = <<>>
  <2>1. Stop({"stack_error"})
    BY <1>2 DEF Ret, resume
  <2> QED
    BY <2>1, StopSafe DEF Stops
<1>3. CASE stack # <<>>
  <2> DEFINE w == get(inst.a)
             t == SlotSet(slots, base, w)
             n == base + inst.a
             u == SlotTruncate(t, n)
             target == get_small_int(get(0)) + 1
  <2>1. /\ slots' = u
        /\ base' = Last(stack).base_slot /\ ip' = Last(stack).ip
        /\ stack' = Front(stack) /\ pc' = ToPc(target)
        /\ UNCHANGED <<prog, status, symtab>>
    BY <1>3 DEF Ret, resume, Goto, RunsOn
  <2>2. /\ IsSlots(slots) /\ slots.size \in Nat /\ base \in Nat /\ base <= slots.size
        /\ inst.a \in Nat
    BY <1>1, InstrType DEF ExecuteInv, TypeOK, BasesOrdered, IsSlots
  <2>3. live(0) /\ live(inst.a)
    BY <1>1 DEF readable, reads
  <2>4. w \in Word /\ get(0) \in Word
    BY <2>2, <2>3, GetType DEF ExecuteInv
  <2>5. pc' \in 0 .. 2 * IntHalf - 1
    <3>1. get_small_int(get(0)) \in CInt
      BY <2>4, SmallIntValue
    <3>2. target \in Int
      BY <3>1, Widths DEF CInt
    <3> QED
      BY <2>1, <3>2, ToPcType
  <2>6. n \in Nat /\ base <= n /\ n < slots.size
    BY <2>2, <2>3 DEF live
  <2> HIDE DEF w, n
  <2>7. IsSlots(t) /\ Keeps(slots, t, base) /\ t.size = LongerOf(slots.size, base + 1)
    BY <2>2, <2>4, SlotSetFacts
  <2>8. t.size \in Nat /\ n <= t.size
    BY <2>2, <2>6, <2>7 DEF LongerOf
  <2> HIDE DEF t
  <2>9. IsSlots(u) /\ u.size = n /\ Keeps(t, u, base)
    BY <2>2, <2>6, <2>7, <2>8, SlotTruncateFacts
  <2> HIDE DEF u
  <2>10. Isolated
    <3>1. Keeps(slots, u, base)
      BY <2>7, <2>9, KeepsTransitive
    <3> QED
      BY <2>1, <3>1 DEF Isolated, Keeps
  <2>11. stack \in Seq(Context)
    BY DEF ExecuteInv, TypeOK
  <2>12. /\ stack' \in Seq(Context) /\ Len(stack) \in Nat \ {0}
         /\ Len(stack') = Len(stack) - 1
         /\ \A k \in 1 .. Len(stack) - 1 : stack'[k] = stack[k]
         /\ Last(stack) = stack[Len(stack)] /\ Last(stack) \in Context
    BY <1>3, <2>1, <2>11, FrontFacts
  <2>13. TypeOK'
    <3>1. base' \in Nat /\ ip' \in UShort
      BY <2>1, <2>12 DEF Context
    <3> QED
      BY <2>1, <2>5, <2>9, <2>12, <3>1 DEF ExecuteInv, TypeOK
  <2>14. BasesOrdered'
    <3>1. \A k \in 1 .. Len(stack) : FrameBase(k)' = FrameBase(k)
      BY <2>1, <2>12 DEF FrameBase
    <3>2. /\ FrameBase(1) = 0
          /\ \A k \in 1 .. Len(stack) : FrameBase(k) <= FrameBase(k + 1)
      BY DEF ExecuteInv, BasesOrdered
    <3>3. FrameBase(1)' = 0
      BY <2>12, <3>1, <3>2
    <3>4. ASSUME NEW k \in 1 .. Len(stack')
          PROVE  FrameBase(k)' <= FrameBase(k + 1)'
      <4>1. k \in 1 .. Len(stack) /\ k + 1 \in 1 .. Len(stack)
        BY <2>12
      <4> QED
        BY <3>1, <3>2, <4>1
    <3>5. base' <= slots'.size
      <4>1. base' = FrameBase(Len(stack)) /\ FrameBase(Len(stack) + 1) = base
        BY <2>1, <2>12 DEF FrameBase
      <4>2. base' <= base
        BY <2>12, <3>2, <4>1
      <4>3. base' \in Nat
        BY <2>13 DEF TypeOK
      <4> QED
        BY <2>1, <2>2, <2>6, <2>9, <4>2, <4>3
    <3> QED
      BY <3>3, <3>4, <3>5 DEF BasesOrdered
  <2> QED
    BY <2>10, <2>13, <2>14 DEF ExecuteInv
<1> QED
  BY <1>2, <1>3

-----------------------------------------------------------------------------
LEMMA InitSafe == Init => ExecuteInv
<1> SUFFICES ASSUME Init PROVE ExecuteInv
  OBVIOUS
<1>1. symtab \in [Names -> Word]
  BY FixedWords DEF Init, builtins
<1>2. <<>> \in Seq(Context) /\ Len(<<>>) = 0
  OBVIOUS
<1>3. TypeOK
  BY <1>1, <1>2, NoSlotsType, ProgramAssumption, Widths DEF Init, TypeOK, UShort
<1>4. BasesOrdered
  BY <1>2 DEF Init, BasesOrdered, FrameBase, NoSlots
<1> QED
  BY <1>3, <1>4 DEF ExecuteInv

LEMMA StopActionSafe ==
  ASSUME ExecuteInv, SlotError \/ CallNowhere \/ CallError \/ FetchOutside
  PROVE  ExecuteInv' /\ Isolated
<1>1. PICK how \in SUBSET Stops : Stop(how)
  BY DEF SlotError, CallNowhere, CallError, FetchOutside, Stops
<1> QED
  BY <1>1, StopSafe

LEMMA StepSafe == ASSUME ExecuteInv, Next PROVE ExecuteInv' /\ Isolated
BY ConstantSafe, KeySafe, GlobalSafe, ArithSafe, EqualSafe, MoveSafe, BulkmovSafe,
   JumpSafe, ExitSafe, CallFunctionSafe, CallBuiltinSafe, ReturnSafe, ObjectSafe,
   StopActionSafe
DEF Next

LEMMA StutterSafe == ASSUME ExecuteInv, UNCHANGED vars PROVE ExecuteInv' /\ Isolated
<1>1. TypeOK'
  BY DEF vars, ExecuteInv, TypeOK
<1>2. BasesOrdered'
  BY DEF vars, ExecuteInv, BasesOrdered, FrameBase
<1>3. Isolated
  BY DEF vars, ExecuteInv, TypeOK, BasesOrdered, IsSlots, Isolated
<1> QED
  BY <1>1, <1>2, <1>3 DEF ExecuteInv

LEMMA InvariantHolds == Spec => []ExecuteInv
<1>1. ExecuteInv /\ [Next]_vars => ExecuteInv'
  BY StepSafe, StutterSafe
<1> QED
  BY <1>1, InitSafe, PTL DEF Spec

(* The interpreter's state stays well formed: every slot it uses holds a   *)
(* 64-bit word, the program counter is 32 bits wide, function addresses 16.*)
THEOREM TypeCorrect == Spec => []TypeOK
<1>1. ExecuteInv => TypeOK
  BY DEF ExecuteInv
<1> QED
  BY <1>1, InvariantHolds, PTL

(* For every program: frames are ordered by the calls that made them, and  *)
(* none is cut off, wherever RET truncates the slots.                      *)
THEOREM FramesOrdered == Spec => []BasesOrdered
<1>1. ExecuteInv => BasesOrdered
  BY DEF ExecuteInv
<1> QED
  BY <1>1, InvariantHolds, PTL

(* For every program: no instruction changes a slot below the running      *)
(* function's base.                                                        *)
THEOREM FramesIsolated == Spec => FrameIsolation
<1>1. ExecuteInv /\ [Next]_vars => [Isolated]_vars
  BY StepSafe, StutterSafe
<1>2. Spec => [][Isolated]_vars
  BY <1>1, InvariantHolds, PTL DEF Spec
<1> QED
  BY <1>2 DEF FrameIsolation, Isolated

(* CALL and what lies below the frame it opens: the part of it that exists *)
(* before the call.                                                        *)
BelowKept ==
  \A i \in 0 .. base + inst.a - 1 :
    i < slots.size => i < slots'.size /\ slots'.data[i] = slots.data[i]

LEMMA CallKeepsBelow ==
  ASSUME ExecuteInv, Fetch({"CALL"}), CallFunction \/ CallBuiltin
  PROVE  BelowKept
<1>1. /\ pc \in DOMAIN prog.code /\ slots.size \in Nat /\ IsSlots(slots)
      /\ inst.a \in Nat /\ base \in Nat /\ newbase = base + inst.a
  BY InstrType DEF Fetch, ExecuteInv, TypeOK, IsSlots, newbase
<1>2. PICK b \in Nat : /\ b <= newbase /\ b <= slots.size
                      /\ \A i \in 0 .. newbase - 1 : i < slots.size => i \in 0 .. b - 1
  <2>1. CASE newbase <= slots.size
    BY <1>1, <2>1
  <2>2. CASE slots.size <= newbase
    BY <1>1, <2>2
  <2> QED
    BY <1>1, <2>1, <2>2
<1>3. /\ IsSlots(called) /\ Keeps(slots, called, b) /\ newbase \in Nat
      /\ called.size = LongerOf(slots.size, newbase + 1)
  <2>1. to_small_int(ToInt(pc)) \in Word /\ newbase \in Nat
    BY <1>1, ToIntType, SmallIntWord DEF ExecuteInv, TypeOK
  <2> QED
    BY <1>1, <1>2, <2>1, SlotSetFacts DEF called
<1>4. b <= called.size /\ called.size \in Nat
  BY <1>1, <1>2, <1>3 DEF LongerOf
<1>5. Keeps(slots, slots', b) \/ slots' = slots
  <2>1. CASE slots' = called
    BY <1>3, <2>1
  <2>2. CASE slots' = cleared
    <3> DEFINE lo == newbase + 2
               hi == newbase + inst.a + 10
    <3>1. /\ IsSlots(builtin_println) /\ Keeps(called, builtin_println, b)
          /\ builtin_println.size = LongerOf(called.size, newbase + 1)
      BY <1>2, <1>3, <1>4, SlotSetFacts, FixedWords DEF builtin_println
    <3>2. /\ b <= builtin_println.size /\ lo \in Nat /\ hi \in Nat /\ b <= lo
      BY <1>1, <1>2, <1>3, <1>4, <3>1 DEF LongerOf
    <3>3. cleared = SlotClear(builtin_println, lo, hi)
      BY DEF cleared
    <3> HIDE DEF lo, hi
    <3>4. Keeps(builtin_println, slots', b)
      BY <1>2, <2>2, <3>1, <3>2, <3>3, SlotClearFacts
    <3> QED
      BY <1>2, <1>3, <3>1, <3>4, KeepsTransitive
  <2>3. slots' = called \/ slots' = cleared \/ slots' = slots
    BY DEF CallFunction, CallBuiltin, Stop
  <2> QED
    BY <2>1, <2>2, <2>3
<1> QED
  BY <1>1, <1>2, <1>5 DEF BelowKept, Keeps

LEMMA StepKeepsBelow ==
  ASSUME ExecuteInv, Next, Fetch({"CALL"})
  PROVE  BelowKept
<1>1. CASE CallFunction \/ CallBuiltin
  BY <1>1, CallKeepsBelow
<1>2. CASE SlotError \/ CallNowhere \/ CallError \/ FetchOutside
  BY <1>2 DEF SlotError, CallNowhere, CallError, FetchOutside, Stop, BelowKept
<1>3. ~(\/ Cstr \/ Ctype \/ Cbool \/ Cnil \/ Cshort \/ Fnew \/ Ckey \/ Nsset
        \/ Nsget \/ Arith \/ Modvv \/ Iseq \/ Mov \/ Bulkmov \/ Jump \/ Jumpf
        \/ Jumpt \/ Loop \/ Skip \/ Exit \/ Ret \/ Alloc \/ Setfield \/ Getfield)
  BY DEF Cstr, Ctype, Cbool, Cnil, Cshort, Fnew, Ckey, Nsset, Nsget, Arith, Modvv,
     Iseq, Mov, Bulkmov, Jump, Jumpf, Jumpt, Loop, Skip, Skipped, Exit, Ret, Alloc,
     Setfield, Getfield, Fetch
<1> QED
  BY <1>1, <1>2, <1>3 DEF Next

(* For every program: no CALL, of a function or of println, changes a slot *)
(* below the frame it opens, the caller's own variables included.          *)
THEOREM CallersKept == Spec => CallerKept
<1>1. ExecuteInv /\ [Next]_vars => [Fetch({"CALL"}) => BelowKept]_vars
  BY StepKeepsBelow
<1>2. Spec => [][Fetch({"CALL"}) => BelowKept]_vars
  BY <1>1, InvariantHolds, PTL DEF Spec
<1> QED
  BY <1>2 DEF CallerKept, BelowKept

-----------------------------------------------------------------------------
(* Words: what the constructors return and what the tests say of it.       *)

LEMMA SmallIntFacts ==
  ASSUME NEW n \in CInt
  PROVE  /\ ~is_double(to_small_int(n)) /\ ~hazardous(to_small_int(n))
         /\ ~is_fnew(to_small_int(n)) /\ ~is_builtin(to_small_int(n))
         /\ n >= 0 => to_small_int(n) = [tag |-> TAG_SMALL_INTEGER, val |-> n]
         /\ n < 0 => to_small_int(n).tag = TAG_POINTER_HI
<1>1. CASE n >= 0
  <2>1. to_small_int(n) = [tag |-> TAG_SMALL_INTEGER, val |-> n] /\ ~(n < 0)
    BY <1>1, Widths DEF to_small_int, SignExtendOr, CInt
  <2> QED
    BY <1>1, <2>1 DEF is_double, hazardous, is_pointer, is_fnew, is_builtin,
       TAG_SMALL_INTEGER, TAG_DOUBLE_MAX, TAG_DOUBLE_MIN, TAG_POINTER_LO,
       TAG_POINTER_HI, TAG_FNEW, TAG_BUILTIN
<1>2. CASE n < 0
  <2>1. to_small_int(n) = [tag |-> TAG_POINTER_HI, val |-> PayMod + n] /\ ~(n >= 0)
    BY <1>2, Widths DEF to_small_int, SignExtendOr, CInt
  <2> QED
    BY <1>2, <2>1 DEF is_double, hazardous, is_pointer, is_fnew, is_builtin,
       TAG_SMALL_INTEGER, TAG_DOUBLE_MAX, TAG_DOUBLE_MIN, TAG_POINTER_LO,
       TAG_POINTER_HI, TAG_FNEW, TAG_BUILTIN
<1> QED
  BY <1>1, <1>2, Widths DEF CInt

LEMMA FunctionFacts ==
  ASSUME NEW d \in UShort
  PROVE  LET w == to_fnew(ToShort(d))
         IN  /\ ~is_double(w) /\ ~hazardous(w) /\ ~is_small_int(w) /\ ~is_builtin(w)
             /\ is_fnew(w) => w = to_fnew(d) /\ d < ShortHalf /\ get_fnew(w) = d
<1>1. CASE d < ShortHalf
  <2>1. ToShort(d) = d /\ d >= 0 /\ d % (2 * ShortHalf) = d
    BY <1>1, Widths DEF ToShort, UShort
  <2>2. to_fnew(d) = [tag |-> TAG_FNEW, val |-> d]
    BY <2>1 DEF to_fnew, SignExtendOr
  <2> QED
    BY <1>1, <2>1, <2>2 DEF is_double, hazardous, is_pointer, is_small_int, is_fnew,
       is_builtin, get_fnew, TAG_SMALL_INTEGER, TAG_DOUBLE_MAX, TAG_DOUBLE_MIN,
       TAG_POINTER_LO, TAG_POINTER_HI, TAG_FNEW, TAG_BUILTIN
<1>2. CASE ~(d < ShortHalf)
  <2>1. ToShort(d) \in Int /\ ToShort(d) < 0
    BY <1>2, Widths DEF ToShort, UShort
  <2>2. to_fnew(ToShort(d)) = [tag |-> TAG_POINTER_HI, val |-> PayMod + ToShort(d)]
    BY <2>1 DEF to_fnew, SignExtendOr
  <2> QED
    BY <2>2 DEF is_double, hazardous, is_pointer, is_small_int, is_fnew,
       is_builtin, get_fnew, TAG_SMALL_INTEGER, TAG_DOUBLE_MAX, TAG_DOUBLE_MIN,
       TAG_POINTER_LO, TAG_POINTER_HI, TAG_FNEW, TAG_BUILTIN
<1> QED
  BY <1>1, <1>2

LEMMA OtherFacts ==
  ASSUME NEW w, \/ w = get_nil
                \/ \E d \in UShort : w = to_type(d)
                \/ \E b \in BOOLEAN : w = to_bool(b)
  PROVE  /\ ~is_double(w) /\ ~hazardous(w)
         /\ ~is_small_int(w) /\ ~is_fnew(w) /\ ~is_builtin(w)
BY DEF get_nil, to_type, to_bool, is_double, hazardous, is_pointer, is_nil,
   is_small_int, is_fnew, is_builtin, TAG_SMALL_INTEGER, TAG_DOUBLE_MAX,
   TAG_DOUBLE_MIN, TAG_POINTER_LO, TAG_POINTER_HI, TAG_FNEW, TAG_BUILTIN,
   TAG_TYPE, TAG_BOOL

LEMMA BuiltinFacts ==
  LET w == to_builtin(PrintlnAddr)
  IN  /\ ~is_double(w) /\ ~hazardous(w)
      /\ ~is_small_int(w) /\ ~is_fnew(w) /\ get_builtin(w) = PrintlnAddr
<1>1. PrintlnAddr % (2 * IntHalf) = PrintlnAddr
  BY Widths, ProgramAssumption
<1> QED
  BY <1>1 DEF to_builtin, is_double, hazardous, is_pointer, is_small_int, is_fnew,
     get_builtin, TAG_SMALL_INTEGER, TAG_DOUBLE_MAX, TAG_DOUBLE_MIN,
     TAG_POINTER_LO, TAG_POINTER_HI, TAG_FNEW, TAG_BUILTIN

LEMMA MadeKinds ==
  ASSUME IsProgram(prog), NEW w \in MadeWords(prog)
  PROVE  \/ \E n \in CInt : w = to_small_int(n)
         \/ \E d \in UShort : d \in FnewOperands(prog) /\ w = to_fnew(ToShort(d))
         \/ \/ w = get_nil
            \/ \E d \in UShort : w = to_type(d)
            \/ \E b \in BOOLEAN : w = to_bool(b)
         \/ w = to_builtin(PrintlnAddr)
<1>1. \A d \in FnewOperands(prog) : d \in UShort
  BY DEF FnewOperands, IsProgram, Instr
<1> QED
  BY <1>1 DEF MadeWords

(* What FaultCauses needs to know of the words.                            *)
LEMMA MadeFacts ==
  ASSUME IsProgram(prog), NEW w \in MadeWords(prog)
  PROVE  /\ ~is_double(w) /\ ~hazardous(w)
         /\ is_small_int(w) => /\ w.val \in 0 .. IntHalf - 1
                               /\ w = to_small_int(w.val)
                               /\ get_small_int(w) = w.val
         /\ is_fnew(w) => get_fnew(w) \in FnewOperands(prog) /\ w = to_fnew(get_fnew(w))
         /\ is_builtin(w) => get_builtin(w) = PrintlnAddr
<1>1. CASE \E n \in CInt : w = to_small_int(n)
  <2>1. PICK n \in CInt : w = to_small_int(n)
    BY <1>1
  <2>2. is_small_int(w) => /\ w.val \in 0 .. IntHalf - 1 /\ w = to_small_int(w.val)
                           /\ get_small_int(w) = w.val
    <3> SUFFICES ASSUME is_small_int(w)
                 PROVE  /\ w.val \in 0 .. IntHalf - 1 /\ w = to_small_int(w.val)
                        /\ get_small_int(w) = w.val
      OBVIOUS
    <3>1. n >= 0
      BY <2>1, SmallIntFacts, Widths DEF is_small_int, TAG_SMALL_INTEGER, TAG_POINTER_HI, CInt
    <3>2. w.val = n /\ n \in 0 .. IntHalf - 1
      BY <2>1, <3>1, SmallIntFacts, Widths DEF CInt
    <3>3. ToInt(n) = n
      BY <3>2, Widths DEF ToInt
    <3> QED
      BY <2>1, <3>2, <3>3 DEF get_small_int
  <2> QED
    BY <2>1, <2>2, SmallIntFacts
<1>2. CASE \E d \in UShort : d \in FnewOperands(prog) /\ w = to_fnew(ToShort(d))
  BY <1>2, FunctionFacts
<1>3. CASE \/ w = get_nil
           \/ \E d \in UShort : w = to_type(d)
           \/ \E b \in BOOLEAN : w = to_bool(b)
  BY <1>3, OtherFacts
<1>4. CASE w = to_builtin(PrintlnAddr)
  BY <1>4, BuiltinFacts
<1> QED
  BY <1>1, <1>2, <1>3, <1>4, MadeKinds

(* A number is the remainder of a distant one if it differs by multiples.  *)
LEMMA RemainderOf ==
  ASSUME NEW m \in Nat \ {0}, NEW q \in Nat, NEW x \in Nat,
         NEW t \in 0 .. m - 1, x = m * q + t
  PROVE  x % m = t
OBVIOUS

LEMMA BelowMultiple ==
  ASSUME NEW h \in Nat \ {0}, NEW p \in Nat, 2 * h <= p, p % (2 * h) = 0,
         NEW n \in -h .. -1
  PROVE  (p + n) % (2 * h) = 2 * h + n
<1>1. PICK m \in Nat \ {0} : m = 2 * h
  OBVIOUS
<1>2. PICK q \in Nat : p = m * q
  <2>1. p % m = p - m * (p \div m) /\ p \div m \in Nat
    BY <1>1
  <2>2. p % m = 0
    BY <1>1
  <2> QED
    BY <2>1, <2>2
<1>3. q >= 1
  BY <1>1, <1>2
<1>4. PICK k \in Nat : q = k + 1
  BY <1>3
<1>5. p + n = m * k + (m + n)
  BY <1>2, <1>4
<1>6. m + n \in 0 .. m - 1 /\ p + n \in Nat
  BY <1>1
<1>7. (p + n) % m = m + n
  BY <1>5, <1>6, RemainderOf
<1> QED
  BY <1>1, <1>7

(* For every width and every int32_t: to_small_int (slots.c) loses the tag *)
(* of exactly the negative numbers, which are pointers from then on, and   *)
(* the value of none: get_small_int gives every number back.               *)
THEOREM IntegersReadBack ==
  \A n \in CInt :
    /\ get_small_int(to_small_int(n)) = n
    /\ is_small_int(to_small_int(n)) <=> n >= 0
    /\ is_pointer(to_small_int(n)) <=> n < 0
<1> SUFFICES ASSUME NEW n \in CInt
             PROVE  /\ get_small_int(to_small_int(n)) = n
                    /\ is_small_int(to_small_int(n)) <=> n >= 0
                    /\ is_pointer(to_small_int(n)) <=> n < 0
  OBVIOUS
<1>1. n \in Int /\ -IntHalf <= n /\ n < IntHalf /\ IntHalf \in Nat \ {0}
  BY Widths DEF CInt
<1>2. CASE n >= 0
  <2>1. to_small_int(n) = [tag |-> TAG_SMALL_INTEGER, val |-> n]
    BY <1>2 DEF to_small_int, SignExtendOr
  <2>2. ToInt(n) = n
    BY <1>1, <1>2 DEF ToInt
  <2> QED
    BY <1>1, <1>2, <2>1, <2>2 DEF get_small_int, is_small_int, is_pointer,
       TAG_SMALL_INTEGER, TAG_POINTER_LO, TAG_POINTER_HI
<1>3. CASE n < 0
  <2>1. to_small_int(n) = [tag |-> TAG_POINTER_HI, val |-> PayMod + n]
    BY <1>1, <1>3 DEF to_small_int, SignExtendOr
  <2>2. (PayMod + n) % (2 * IntHalf) = 2 * IntHalf + n
    <3>1. n \in -IntHalf .. -1
      BY <1>1, <1>3
    <3>2. PayMod \in Nat /\ 2 * IntHalf <= PayMod /\ PayMod % (2 * IntHalf) = 0
      BY WidthAssumption
    <3> QED
      BY <1>1, <3>1, <3>2, BelowMultiple
  <2>3. ToInt(PayMod + n) = n
    BY <1>1, <1>3, <2>2 DEF ToInt
  <2>4. get_small_int(to_small_int(n)) = n
    BY <2>1, <2>3 DEF get_small_int
  <2>5. ~is_small_int(to_small_int(n)) /\ is_pointer(to_small_int(n))
    BY <2>1 DEF is_small_int, is_pointer, is_nil, get_nil, TAG_SMALL_INTEGER,
       TAG_POINTER_LO, TAG_POINTER_HI
  <2> QED
    BY <1>1, <1>3, <2>4, <2>5
<1> QED
  BY <1>1, <1>2, <1>3

(* A signed integer of the operands' width is what its own bits read back. *)
LEMMA ToIntIdentity == ASSUME NEW z \in CInt PROVE ToInt(z) = z
<1>1. CASE z >= 0
  BY <1>1, Widths DEF ToInt, CInt
<1>2. CASE z < 0
  <2>1. z % (2 * IntHalf) = z + 2 * IntHalf
    BY <1>2, Widths DEF CInt
  <2> QED
    BY <1>2, <2>1, Widths DEF ToInt, CInt
<1> QED
  BY <1>1, <1>2 DEF CInt

(* Division of magnitudes: quotient and remainder recompose the dividend,  *)
(* and the quotient is smaller than it unless the divisor is one.          *)
LEMMA MagnitudesDivided ==
  ASSUME NEW m \in Nat, NEW k \in Nat \ {0}
  PROVE  /\ m \div k \in Nat /\ m % k \in 0 .. k - 1
         /\ m = k * (m \div k) + (m % k)
         /\ m \div k <= m /\ (k > 1 /\ m > 0 => m \div k < m)
<1> DEFINE q == m \div k
           r == m % k
<1>1. q \in Int /\ r \in 0 .. k - 1 /\ m = k * q + r
  OBVIOUS
<1> HIDE DEF q, r
<1>2. q >= 0
  <2>1. SUFFICES ASSUME q <= -1 PROVE FALSE
    BY <1>1
  <2>2. k * q <= k * (-1)
    BY <1>1, <2>1
  <2> QED
    BY <1>1, <2>2
<1>3. q <= m
  <2> DEFINE p == k * q
  <2>1. p \in Int /\ m = p + r /\ p >= q
    BY <1>1, <1>2
  <2> HIDE DEF p
  <2> QED
    BY <1>1, <2>1
<1>4. ASSUME k > 1, m > 0 PROVE q < m
  <2>1. PICK j \in Nat : k = j + 2
    <3>1. k - 2 \in Nat /\ k = (k - 2) + 2
      BY <1>4
    <3> QED
      BY <3>1
  <2>2. j * q \in Nat /\ k * q = j * q + 2 * q
    BY <1>1, <1>2, <2>1
  <2>3. k * q \in Nat /\ k * q <= m
    <3> DEFINE p == k * q
    <3>1. p \in Int /\ m = p + r /\ p >= 0
      BY <1>1, <1>2, <2>2
    <3> HIDE DEF p
    <3>2. p \in Nat /\ p <= m
      BY <1>1, <3>1
    <3> QED
      BY <3>2 DEF p
  <2>4. 2 * q <= m
    <3> DEFINE p == k * q
               t == j * q
    <3>1. p \in Nat /\ t \in Nat /\ p = t + 2 * q /\ p <= m
      BY <2>2, <2>3
    <3> HIDE DEF p, t
    <3> QED
      BY <1>1, <3>1
  <2> QED
    BY <1>2, <1>4, <2>4, <1>1
<1>5. /\ q \in Nat /\ r \in 0 .. k - 1 /\ m = k * q + r
      /\ q <= m /\ (k > 1 /\ m > 0 => q < m)
  <2>1. q \in Nat
    BY <1>1, <1>2
  <2> QED
    BY <1>1, <1>3, <1>4, <2>1, Zenon
<1> QED
  BY <1>5, Zenon DEF q, r

(* DIVVV and MODVV of execute.c, for every pair of operands on which the   *)
(* processor does not trap: the quotient and the remainder recompose the   *)
(* dividend, the remainder is smaller in magnitude than the divisor and,   *)
(* when it is not zero, has the dividend's sign, and both results fit the  *)
(* width of an int, so that boxing them loses nothing: the division is C's *)
(* truncating one and not the flooring division of TLA+'s \div and %.      *)
THEOREM DivisionTruncates ==
  ASSUME NEW x \in CInt, NEW y \in CInt, ~Traps(x, y)
  PROVE  /\ x = y * CDiv(x, y) + CMod(x, y)
         /\ Magnitude(CMod(x, y)) < Magnitude(y)
         /\ CMod(x, y) # 0 => (CMod(x, y) < 0 <=> x < 0)
         /\ result(CDiv(x, y)) = to_small_int(CDiv(x, y))
         /\ result(CMod(x, y)) = to_small_int(CMod(x, y))
<1> DEFINE m == Magnitude(x)
           k == Magnitude(y)
           q == m \div k
           r == m % k
<1>1. /\ x \in Int /\ y \in Int \ {0} /\ m \in Nat /\ k \in Nat \ {0}
      /\ IntHalf \in Nat /\ m <= IntHalf
      /\ (x < 0 /\ x = -m) \/ (x >= 0 /\ x = m /\ m < IntHalf)
      /\ (y < 0 /\ y = -k) \/ (y > 0 /\ y = k)
  BY Widths DEF CInt, Traps, Magnitude
<1>2. CDiv(x, y) = IF (x < 0) = (y < 0) THEN q ELSE -q
  BY DEF CDiv
<1>3. CMod(x, y) = x - y * CDiv(x, y)
  BY DEF CMod
<1>4. ~(m = IntHalf /\ k = 1 /\ x < 0 /\ y < 0)
  BY <1>1 DEF Traps
<1> HIDE DEF m, k
<1>5. /\ q \in Nat /\ r \in 0 .. k - 1 /\ m = k * q + r
      /\ q <= m /\ (k > 1 /\ m > 0 => q < m)
  BY <1>1, MagnitudesDivided
<1> HIDE DEF q, r
<1>6. CDiv(x, y) \in CInt
  BY <1>1, <1>2, <1>4, <1>5 DEF CInt
<1>7. CMod(x, y) = IF x < 0 THEN -r ELSE r
  <2>1. CASE y < 0
    <3>1. y = -k /\ (-k) * q = -(k * q) /\ (-k) * (-q) = k * q
      BY <1>1, <1>5, <2>1
    <3>2. y * CDiv(x, y) = IF x < 0 THEN -(k * q) ELSE k * q
      BY <1>1, <1>2, <2>1, <3>1
    <3> QED
      BY <1>1, <1>3, <1>5, <3>2
  <2>2. CASE y > 0
    <3>1. y = k /\ k * (-q) = -(k * q)
      BY <1>1, <1>5, <2>2
    <3>2. y * CDiv(x, y) = IF x < 0 THEN -(k * q) ELSE k * q
      BY <1>1, <1>2, <2>2, <3>1
    <3> QED
      BY <1>1, <1>3, <1>5, <3>2
  <2> QED
    BY <1>1, <2>1, <2>2
<1>8. CMod(x, y) \in CInt /\ r <= m
  <2>1. k * q >= 0
    BY <1>1, <1>5
  <2> QED
    BY <1>1, <1>5, <1>7, <2>1 DEF CInt
<1>9. ASSUME NEW z \in CInt PROVE result(z) = to_small_int(z)
  BY ToIntIdentity DEF result
<1> QED
  <2>1. x = y * CDiv(x, y) + CMod(x, y)
    <3>1. y * CDiv(x, y) \in Int
      BY <1>1, <1>6 DEF CInt
    <3> QED
      BY <1>1, <1>3, <3>1
  <2>2. Magnitude(CMod(x, y)) < k
    BY <1>1, <1>5, <1>7 DEF Magnitude
  <2>3. CMod(x, y) # 0 => (CMod(x, y) < 0 <=> x < 0)
    BY <1>1, <1>5, <1>7
  <2> QED
    BY <1>6, <1>8, <1>9, <2>1, <2>2, <2>3 DEF k

-----------------------------------------------------------------------------
(* Slot arrays whose words are all in W.                                   *)

Within(s, W) == \A j \in 0 .. s.size - 1 : s.data[j] \in W

LEMMA SlotSetWithin ==
  ASSUME NEW s, IsSlots(s), NEW W, get_nil \in W, Within(s, W),
         NEW i \in Nat, NEW w \in W
  PROVE  Within(SlotSet(s, i, w), W)
<1> DEFINE n == LongerOf(s.size, i + 1)
           f == [j \in 0 .. n - 1 |-> IF j = i THEN w
                                      ELSE IF j < s.size THEN s.data[j] ELSE get_nil]
<1>1. s.size \in Nat /\ n \in Nat
  BY DEF IsSlots, LongerOf
<1>2. SlotSet(s, i, w) = [size |-> n, data |-> f]
  BY DEF SlotSet
<1> HIDE DEF n
<1>3. \A j \in 0 .. n - 1 : f[j] \in W
  BY <1>1 DEF Within
<1> HIDE DEF f
<1> QED
  BY <1>2, <1>3 DEF Within

LEMMA SlotClearWithin ==
  ASSUME NEW s, IsSlots(s), NEW W, get_nil \in W, Within(s, W),
         NEW lo \in Nat, NEW hi \in Nat
  PROVE  Within(SlotClear(s, lo, hi), W)
<1> DEFINE n == IF hi <= lo THEN s.size ELSE LongerOf(s.size, hi)
           f == [j \in 0 .. n - 1 |-> IF j >= lo /\ j < hi THEN get_nil
                                      ELSE IF j < s.size THEN s.data[j] ELSE get_nil]
<1>1. s.size \in Nat /\ n \in Nat
  BY DEF IsSlots, LongerOf
<1>2. SlotClear(s, lo, hi) = [size |-> n, data |-> f]
  BY DEF SlotClear
<1> HIDE DEF n
<1>3. \A j \in 0 .. n - 1 : f[j] \in W
  BY <1>1 DEF Within
<1> HIDE DEF f
<1> QED
  BY <1>2, <1>3 DEF Within

LEMMA SlotTruncateWithin ==
  ASSUME NEW s, IsSlots(s), NEW W, Within(s, W), NEW n \in Nat, n <= s.size
  PROVE  Within(SlotTruncate(s, n), W)
<1>1. s.size \in Nat
  BY DEF IsSlots
<1> QED
  BY <1>1 DEF SlotTruncate, Within

LEMMA SlotMoveWithin ==
  ASSUME NEW s, IsSlots(s), NEW W, get_nil \in W, Within(s, W),
         NEW to \in Nat, NEW from \in Nat, NEW c \in Nat
  PROVE  Within(SlotMove(s, to, from, c), W)
<1> DEFINE n      == IF c = 0 THEN s.size ELSE LongerOf(s.size, to + c)
           src(k) == IF to > from THEN from + (k % (to - from)) ELSE from + k
           old(j) == IF j >= to /\ j < to + c THEN src(j - to) ELSE j
           f      == [j \in 0 .. n - 1 |-> IF old(j) < s.size THEN s.data[old(j)]
                                                            ELSE get_nil]
<1>1. s.size \in Nat /\ n \in Nat
  BY DEF IsSlots, LongerOf
<1>2. SlotMove(s, to, from, c) = [size |-> n, data |-> f]
  BY DEF SlotMove
<1>3. ASSUME NEW j \in 0 .. n - 1 PROVE old(j) \in Nat
  <2>1. CASE j >= to /\ j < to + c /\ to > from
    <3>1. (j - to) % (to - from) \in Nat
      BY <2>1, <1>1
    <3> QED
      BY <2>1, <3>1
  <2>2. CASE ~(j >= to /\ j < to + c /\ to > from)
    BY <2>2, <1>1
  <2> QED
    BY <2>1, <2>2
<1> HIDE DEF n, old
<1>4. \A j \in 0 .. n - 1 : f[j] \in W
  BY <1>1, <1>3 DEF Within
<1> HIDE DEF f
<1> QED
  BY <1>2, <1>4 DEF Within

-----------------------------------------------------------------------------
(* The words of a sealed program.                                          *)

WordsInv ==
  /\ Within(slots, MadeWords(prog))
  /\ \A n \in Names : symtab[n] \in MadeWords(prog)

LEMMA NilMade == get_nil \in MadeWords(prog)
BY DEF MadeWords

LEMMA ReadMade ==
  ASSUME TypeOK, WordsInv, NEW i \in Nat, live(i)
  PROVE  get(i) \in MadeWords(prog)
<1>1. base + i \in 0 .. slots.size - 1
  BY DEF TypeOK, IsSlots, live
<1> QED
  BY <1>1 DEF WordsInv, Within, get

LEMMA ProduceMade ==
  ASSUME TypeOK, WordsInv, pc \in DOMAIN prog.code,
         NEW w \in MadeWords(prog), Produce(w)
  PROVE  WordsInv'
<1>1. slots' = SlotSet(slots, base + inst.a, w) /\ UNCHANGED <<prog, symtab>>
  BY DEF Produce, RunsOn, set
<1>2. base + inst.a \in Nat /\ IsSlots(slots)
  BY InstrType DEF TypeOK
<1>3. Within(slots', MadeWords(prog))
  BY <1>1, <1>2, SlotSetWithin, NilMade DEF WordsInv
<1> QED
  BY <1>1, <1>3 DEF WordsInv

(* A step that leaves slots and globals as they are.                       *)
LEMMA KeptMade ==
  ASSUME WordsInv, UNCHANGED <<prog, slots, symtab>>
  PROVE  WordsInv'
BY DEF WordsInv

LEMMA ConstantMade ==
  ASSUME TypeOK, WordsInv, Cstr \/ Ctype \/ Cbool \/ Cnil \/ Cshort \/ Fnew
  PROVE  WordsInv'
<1>1. pc \in DOMAIN prog.code /\ (Fnew => inst.op = "FNEW")
  BY DEF Cstr, Ctype, Cbool, Cnil, Cshort, Fnew, Fetch
<1>2. inst.d \in UShort /\ inst.d \in CInt
  BY <1>1, InstrType, Widths DEF UShort, CInt
<1>3. Fnew => inst.d \in FnewOperands(prog)
  BY <1>1 DEF FnewOperands, inst
<1>4. \E w \in MadeWords(prog) : Produce(w)
  <2>1. CASE Cstr \/ Cshort
    BY <1>2, <2>1 DEF Cstr, Cshort, MadeWords
  <2>2. CASE Ctype
    BY <1>2, <2>2 DEF Ctype, MadeWords
  <2>3. CASE Cbool \/ Cnil
    BY <2>3, Zenon DEF Cbool, Cnil, MadeWords
  <2>4. CASE Fnew
    BY <1>3, <2>4 DEF Fnew, MadeWords
  <2> QED
    BY <2>1, <2>2, <2>3, <2>4
<1> QED
  BY <1>1, <1>4, ProduceMade

LEMMA GlobalMade ==
  ASSUME TypeOK, WordsInv, Nsset \/ Nsget
  PROVE  WordsInv'
<1>1. pc \in DOMAIN prog.code
  BY DEF Nsset, Nsget, Fetch
<1> DEFINE name == prog.cstr[inst.d].name
<1>2. CASE inst.d \notin DOMAIN prog.cstr
  BY <1>2, KeptMade DEF Nsset, Nsget, Stop
<1>3. CASE inst.d \in DOMAIN prog.cstr /\ Nsget
  <2>1. name \in Names
    BY <1>3 DEF TypeOK, IsProgram
  <2>2. Produce(symtab[name])
    BY <1>3 DEF Nsget, get_symbol_table
  <2>3. symtab[name] \in MadeWords(prog)
    BY <2>1 DEF WordsInv
  <2> QED
    BY <1>1, <2>2, <2>3, ProduceMade
<1>4. CASE inst.d \in DOMAIN prog.cstr /\ Nsset
  <2>1. /\ symtab' = [symtab EXCEPT ![name] = get(inst.a)]
        /\ UNCHANGED <<prog, slots>> /\ readable /\ inst.op = "NSSET"
    BY <1>4 DEF Nsset, RunsOn, Fetch, add_symbol_table_pair
  <2>2. live(inst.a) /\ inst.a \in Nat
    BY <1>1, <2>1, InstrType DEF readable, reads
  <2>3. get(inst.a) \in MadeWords(prog)
    BY <2>2, ReadMade
  <2>4. \A n \in Names : symtab'[n] \in MadeWords(prog)
    BY <2>1, <2>3 DEF TypeOK, WordsInv
  <2> QED
    BY <2>1, <2>4 DEF WordsInv
<1> QED
  BY <1>2, <1>3, <1>4

LEMMA ComputedMade ==
  ASSUME NEW n \in Int PROVE result(n) \in MadeWords(prog)
BY ToIntType DEF result, MadeWords

LEMMA ArithMade ==
  ASSUME TypeOK, WordsInv, Arith \/ Modvv \/ Iseq
  PROVE  WordsInv'
<1> DEFINE x == get_small_int(get(inst.b))
           y == get_small_int(get(inst.c))
<1>1. /\ pc \in DOMAIN prog.code /\ readable
      /\ inst.op \in {"ADDVV", "SUBVV", "MULVV", "DIVVV", "MODVV", "ISEQ"}
  BY DEF Arith, Modvv, Iseq, Fetch
<1>2. x \in Int /\ y \in Int
  <2>1. live(inst.b) /\ live(inst.c)
    BY <1>1 DEF readable, reads
  <2>2. get(inst.b) \in Word /\ get(inst.c) \in Word
    BY <1>1, <2>1, InstrType, GetType
  <2>3. \A n \in CInt : n \in Int
    BY Widths DEF CInt
  <2> QED
    BY <2>2, <2>3, SmallIntValue
<1>3. \/ \E how : Stop(how)
      \/ Proceed(pc + 1)
      \/ /\ inst.op \in {"ADDVV", "SUBVV", "MULVV", "DIVVV", "MODVV"}
         /\ inst.op \in {"DIVVV", "MODVV"} => ~Traps(x, y)
         /\ Produce(result(Computed(x, y)))
      \/ Produce(to_bool(x = y))
  <2>1. CASE Modvv
    <3>1. inst.op = "MODVV"
      BY <2>1 DEF Modvv, Fetch
    <3> QED
      BY <2>1, <3>1 DEF Modvv
  <2>2. CASE Arith
    <3>1. inst.op \in {"ADDVV", "SUBVV", "MULVV", "DIVVV"}
      BY <2>2 DEF Arith, Fetch
    <3> QED
      BY <2>2, <3>1 DEF Arith
  <2>3. CASE Iseq
    BY <2>3 DEF Iseq
  <2> QED
    BY <2>1, <2>2, <2>3
<1>4. CASE \E how : Stop(how)
  BY <1>4, KeptMade DEF Stop
<1>5. CASE Proceed(pc + 1)
  BY <1>5, KeptMade DEF Proceed, RunsOn
<1>6. CASE /\ inst.op \in {"ADDVV", "SUBVV", "MULVV", "DIVVV", "MODVV"}
           /\ inst.op \in {"DIVVV", "MODVV"} => ~Traps(x, y)
           /\ Produce(result(Computed(x, y)))
  <2>1. inst.op \in {"DIVVV", "MODVV"} => y # 0
    BY <1>6 DEF Traps
  <2>2. Computed(x, y) \in Int
    BY <1>2, <1>6, <2>1, ComputedType
  <2> QED
    BY <1>1, <1>6, <2>2, ComputedMade, ProduceMade
<1>7. CASE Produce(to_bool(x = y))
  <2>1. to_bool(x = y) \in MadeWords(prog)
    BY Zenon DEF MadeWords
  <2> QED
    BY <1>1, <1>7, <2>1, ProduceMade
<1> QED
  BY <1>3, <1>4, <1>5, <1>6, <1>7

LEMMA MoveMade ==
  ASSUME TypeOK, WordsInv, Mov \/ Bulkmov
  PROVE  WordsInv'
<1>1. CASE Mov
  <2>1. pc \in DOMAIN prog.code /\ readable /\ inst.op = "MOV" /\ Produce(get(inst.d))
    BY <1>1 DEF Mov, Fetch
  <2>2. live(inst.d) /\ inst.d \in Nat
    BY <2>1, InstrType DEF readable, reads
  <2> QED
    BY <2>1, <2>2, ReadMade, ProduceMade
<1>2. CASE Bulkmov
  <2> DEFINE to   == base + inst.a
             from == base + inst.b
  <2>1. /\ pc \in DOMAIN prog.code
        /\ slots' = SlotMove(slots, to, from, inst.c)
        /\ UNCHANGED <<prog, symtab>>
    BY <1>2 DEF Bulkmov, Fetch, RunsOn
  <2>2. to \in Nat /\ from \in Nat /\ inst.c \in Nat /\ IsSlots(slots)
    BY <2>1, InstrType DEF TypeOK
  <2> HIDE DEF to, from
  <2>3. Within(slots', MadeWords(prog))
    BY <2>1, <2>2, SlotMoveWithin, NilMade DEF WordsInv
  <2> QED
    BY <2>1, <2>3 DEF WordsInv
<1> QED
  BY <1>1, <1>2

LEMMA CalledMade ==
  ASSUME ExecuteInv, WordsInv, pc \in DOMAIN prog.code
  PROVE  Within(called, MadeWords(prog))
<1>1. to_small_int(ToInt(pc)) \in MadeWords(prog)
  BY ToIntType DEF ExecuteInv, TypeOK, MadeWords
<1>2. newbase \in Nat /\ IsSlots(slots)
  BY CalledFacts DEF ExecuteInv, TypeOK
<1> QED
  BY <1>1, <1>2, SlotSetWithin, NilMade DEF WordsInv, called

LEMMA CallMade ==
  ASSUME ExecuteInv, WordsInv, CallFunction \/ CallBuiltin
  PROVE  WordsInv'
<1>1. pc \in DOMAIN prog.code
  BY DEF CallFunction, CallBuiltin, Fetch
<1>2. CASE CallFunction
  BY <1>1, <1>2, CalledMade DEF CallFunction, RunsOn, WordsInv
<1>3. CASE CallBuiltin
  <2>1. \/ \E how : Stop(how)
        \/ /\ slots' = SlotClear(builtin_println, newbase + 2, newbase + inst.a + 10)
           /\ UNCHANGED <<prog, symtab>>
    BY <1>3 DEF CallBuiltin, cleared, RunsOn
  <2>2. CASE \E how : Stop(how)
    BY <2>2, KeptMade DEF Stop
  <2>3. CASE /\ slots' = SlotClear(builtin_println, newbase + 2, newbase + inst.a + 10)
             /\ UNCHANGED <<prog, symtab>>
    <3>1. /\ IsSlots(called) /\ newbase \in Nat
          /\ newbase + 2 \in Nat /\ newbase + inst.a + 10 \in Nat
      BY <1>1, CalledFacts, InstrType DEF ExecuteInv
    <3>2. IsSlots(builtin_println) /\ Within(builtin_println, MadeWords(prog))
      <4>1. IsSlots(builtin_println)
        <5>1. called.size \in Nat /\ 0 <= newbase /\ 0 <= called.size
          BY <3>1 DEF IsSlots
        <5> QED
          BY <3>1, <5>1, SlotSetFacts, FixedWords DEF builtin_println
      <4>2. Within(builtin_println, MadeWords(prog))
        BY <1>1, <3>1, CalledMade, SlotSetWithin, NilMade DEF builtin_println
      <4> QED
        BY <4>1, <4>2
    <3>3. Within(slots', MadeWords(prog))
      BY <2>3, <3>1, <3>2, SlotClearWithin, NilMade
    <3> QED
      BY <2>3, <3>3 DEF WordsInv
  <2> QED
    BY <2>1, <2>2, <2>3
<1> QED
  BY <1>2, <1>3

LEMMA ReturnMade == ASSUME ExecuteInv, WordsInv, Ret PROVE WordsInv'
<1>1. pc \in DOMAIN prog.code /\ readable /\ inst.op = "RET"
  BY DEF Ret, Fetch
<1>2. CASE stack = <<>>
  BY <1>2, KeptMade DEF Ret, Stop
<1>3. CASE stack # <<>>
  <2> DEFINE t == SlotSet(slots, base, get(inst.a))
             n == base + inst.a
  <2>1. slots' = SlotTruncate(t, n) /\ UNCHANGED <<prog, symtab>>
    BY <1>3 DEF Ret, RunsOn
  <2>2. /\ live(inst.a) /\ inst.a \in Nat /\ base \in Nat /\ IsSlots(slots)
        /\ slots.size \in Nat /\ base <= slots.size /\ n \in Nat /\ n < slots.size
    BY <1>1, InstrType DEF readable, reads, live, ExecuteInv, TypeOK, BasesOrdered, IsSlots
  <2>3. get(inst.a) \in MadeWords(prog) /\ get(inst.a) \in Word
    BY <2>2, ReadMade, GetType DEF ExecuteInv
  <2>4. IsSlots(t) /\ t.size = LongerOf(slots.size, base + 1)
    BY <2>2, <2>3, SlotSetFacts
  <2>5. Within(t, MadeWords(prog))
    BY <2>2, <2>3, SlotSetWithin, NilMade DEF WordsInv
  <2>6. n <= t.size
    BY <2>2, <2>4 DEF LongerOf
  <2> HIDE DEF t, n
  <2>7. n \in Nat
    BY <2>2
  <2>8. Within(slots', MadeWords(prog))
    BY <2>1, <2>4, <2>5, <2>6, <2>7, SlotTruncateWithin
  <2> QED
    BY <2>1, <2>8 DEF WordsInv
<1> QED
  BY <1>2, <1>3

LEMMA ControlMade ==
  ASSUME WordsInv,
         \/ Jump \/ Jumpf \/ Jumpt \/ Loop \/ Skip \/ Exit \/ Alloc \/ Setfield
         \/ SlotError \/ CallNowhere \/ CallError \/ FetchOutside
  PROVE  WordsInv'
<1>1. UNCHANGED <<prog, slots, symtab>>
  BY DEF Jump, Jumpf, Jumpt, Branch, Loop, Skip, Exit, Alloc, Setfield, SlotError,
     CallNowhere, CallError, FetchOutside, Proceed, RunsOn, Stop
<1> QED
  BY <1>1, KeptMade

LEMMA WordsStep ==
  ASSUME ExecuteInv, Sealed(prog), WordsInv, Next
  PROVE  WordsInv'
<1>1. TypeOK
  BY DEF ExecuteInv
<1>2. ~Ckey /\ ~Getfield
  BY DEF Sealed, Ckey, Getfield, Fetch, inst
<1> QED
  BY <1>1, <1>2, ConstantMade, GlobalMade, ArithMade, MoveMade, CallMade, ReturnMade,
     ControlMade
  DEF Next

LEMMA WordsInit == Init => WordsInv
<1> SUFFICES ASSUME Init PROVE WordsInv
  OBVIOUS
<1>1. Within(slots, MadeWords(prog))
  BY DEF Init, NoSlots, Within
<1>2. \A n \in Names : symtab[n] \in MadeWords(prog)
  BY DEF Init, builtins, MadeWords
<1> QED
  BY <1>1, <1>2 DEF WordsInv

LEMMA ProgramConstant == ASSUME Next PROVE prog' = prog
BY DEF Next, SlotError, Cstr, Ctype, Cbool, Cnil, Cshort, Fnew, Ckey, Nsset, Nsget,
   Arith, Modvv, Iseq, Mov, Bulkmov, Jump, Jumpf, Jumpt, Branch, Loop, Skip, Exit,
   CallFunction, CallBuiltin, CallNowhere, CallError, Ret, Alloc, Setfield, Getfield,
   FetchOutside, Produce, Proceed, RunsOn, Stop

SealedInv == ExecuteInv /\ (Sealed(prog) => WordsInv)

LEMMA SealedStep == SealedInv /\ [Next]_vars => SealedInv'
<1> SUFFICES ASSUME SealedInv, [Next]_vars PROVE SealedInv'
  OBVIOUS
<1>1. CASE Next
  <2>1. ExecuteInv' /\ prog' = prog
    BY <1>1, StepSafe, ProgramConstant DEF SealedInv
  <2>2. Sealed(prog) => WordsInv'
    BY <1>1, WordsStep DEF SealedInv
  <2> QED
    BY <2>1, <2>2 DEF SealedInv
<1>2. CASE UNCHANGED vars
  <2>1. ExecuteInv'
    BY <1>2, StutterSafe DEF SealedInv
  <2>2. UNCHANGED <<prog, slots, symtab>>
    BY <1>2 DEF vars
  <2> QED
    BY <2>1, <2>2, KeptMade DEF SealedInv
<1> QED
  BY <1>1, <1>2

LEMMA SealedHolds == Spec => []SealedInv
<1>1. Init => SealedInv
  BY InitSafe, WordsInit DEF SealedInv
<1> QED
  BY <1>1, SealedStep, PTL DEF Spec

(* For every program whose words come from instructions alone: all words   *)
(* it ever holds are nil, println, or what to_small_int of 32 bits, to_type*)
(* and to_bool return, or to_fnew for the operands of its FNEWs.           *)
THEOREM OnlyMadeWords == Spec => []WordsMade
<1>1. SealedInv => WordsMade
  BY DEF SealedInv, WordsInv, Within, WordsMade, LiveWords
<1> QED
  BY <1>1, SealedHolds, PTL

-----------------------------------------------------------------------------
(* Crashes of sealed programs.  Cause is what FaultCauses says of a crash; *)
(* it is about words the crashing instruction has left as they were.       *)

Cause ==
  \/ inst.op \in {"ALLOC", "SETFIELD", "NSSET", "NSGET"}
  \/ inst.op \in {"DIVVV", "MODVV"} /\ get(inst.c) = to_small_int(0)
  \/ /\ inst.op = "CALL"
     /\ \/ callee = to_fnew(0)
        \/ \E w \in LiveWords : w.tag = TAG_POINTER_HI

(* A trapping division of two small integers has the divisor zero: no word *)
(* holds INT_MIN as an integer.                                            *)
LEMMA TrapCause ==
  ASSUME TypeOK, WordsInv, pc \in DOMAIN prog.code, readable, bothInts,
         inst.op \in {"DIVVV", "MODVV"},
         Traps(get_small_int(get(inst.b)), get_small_int(get(inst.c)))
  PROVE  Cause
<1>1. get(inst.b) \in MadeWords(prog) /\ get(inst.c) \in MadeWords(prog)
  BY InstrType, ReadMade DEF readable, reads
<1>2. /\ get_small_int(get(inst.b)) \in 0 .. IntHalf - 1
      /\ get_small_int(get(inst.c)) \in 0 .. IntHalf - 1
      /\ get(inst.c) = to_small_int(get_small_int(get(inst.c)))
  BY <1>1, MadeFacts DEF bothInts, TypeOK
<1>3. get_small_int(get(inst.c)) = 0
  BY <1>2, Widths DEF Traps
<1> QED
  BY <1>2, <1>3 DEF Cause

LEMMA ArithCause ==
  ASSUME TypeOK, WordsInv, Arith \/ Modvv \/ Iseq, status' = "crash"
  PROVE  Cause /\ Stop({"crash"})
<1>1. /\ pc \in DOMAIN prog.code /\ readable /\ status = "running"
      /\ inst.op \in {"ADDVV", "SUBVV", "MULVV", "DIVVV", "MODVV", "ISEQ"}
  BY DEF Arith, Modvv, Iseq, Fetch
<1>2. get(inst.b) \in MadeWords(prog) /\ get(inst.c) \in MadeWords(prog)
  BY <1>1, InstrType, ReadMade DEF readable, reads
<1>3. ~is_double(get(inst.b)) /\ ~is_double(get(inst.c))
  BY <1>2, MadeFacts DEF TypeOK
<1>4. bothNumbers => bothInts
  BY <1>3 DEF bothNumbers, bothInts, isNumber
<1>5. \A w : ~Produce(w)
  BY <1>1 DEF Produce, RunsOn
<1>6. ~Proceed(pc + 1)
  BY <1>1 DEF Proceed, RunsOn
<1>7. CASE Iseq
  BY <1>3, <1>5, <1>7 DEF Iseq, Stop
<1>8. CASE Arith
  <2>1. inst.op = "DIVVV" /\ bothInts /\ Stop({"crash"})
        /\ Traps(get_small_int(get(inst.b)), get_small_int(get(inst.c)))
    BY <1>4, <1>5, <1>6, <1>8 DEF Arith
  <2> QED
    BY <1>1, <2>1, TrapCause
<1>9. CASE Modvv
  <2>1. inst.op = "MODVV" /\ bothInts /\ Stop({"crash"})
        /\ Traps(get_small_int(get(inst.b)), get_small_int(get(inst.c)))
    BY <1>5, <1>9 DEF Modvv, Stop, Fetch
  <2> QED
    BY <1>1, <2>1, TrapCause
<1> QED
  BY <1>7, <1>8, <1>9

LEMMA CallCause ==
  ASSUME ExecuteInv, WordsInv, CallFunction \/ CallBuiltin \/ CallNowhere \/ CallError,
         status' = "crash"
  PROVE  Cause /\ UNCHANGED <<prog, pc, base, slots>>
<1>1. /\ pc \in DOMAIN prog.code /\ readable /\ status = "running" /\ inst.op = "CALL"
      /\ inst.a \in Nat /\ base \in Nat /\ TypeOK
      /\ slots.size \in Nat
  BY InstrType DEF CallFunction, CallBuiltin, CallNowhere, CallError, Fetch,
     ExecuteInv, TypeOK, IsSlots
<1>2. \A i \in Nat : live(i) => get(i) \in LiveWords /\ get(i) \in MadeWords(prog)
  BY <1>1, ReadMade DEF LiveWords, live, get
<1>3. live(inst.a + 1) /\ callee \in MadeWords(prog)
  BY <1>1, <1>2 DEF readable, reads, callee
<1>4. \A w \in MadeWords(prog) : fatal(w) => w.tag = TAG_POINTER_HI
  BY <1>1, MadeFacts DEF fatal, TypeOK
<1>5. CASE CallFunction
  BY <1>1, <1>5 DEF CallFunction, RunsOn
<1>6. CASE CallBuiltin
  <2>1. /\ live(inst.a + 2) /\ UNCHANGED <<prog, pc, base, slots>>
        /\ fatal(get(inst.a + 2)) \/ hazardous(get(inst.a + 2))
    BY <1>1, <1>6 DEF CallBuiltin, Stop, RunsOn
  <2>2. ~hazardous(get(inst.a + 2))
    BY <1>1, <1>2, <2>1, MadeFacts DEF TypeOK
  <2>3. get(inst.a + 2) \in LiveWords /\ get(inst.a + 2).tag = TAG_POINTER_HI
    BY <1>1, <1>2, <1>4, <2>1, <2>2
  <2> QED
    BY <1>1, <2>1, <2>3 DEF Cause
<1>7. CASE CallNowhere
  <2>1. is_builtin(callee) => get_builtin(callee) = PrintlnAddr
    BY <1>1, <1>3, MadeFacts DEF TypeOK
  <2>2. is_fnew(callee) /\ get_fnew(callee) = 0
    BY <1>7, <2>1 DEF CallNowhere, func
  <2>3. callee = to_fnew(0)
    BY <1>1, <1>3, <2>2, MadeFacts DEF TypeOK
  <2> QED
    BY <1>1, <1>7, <2>3 DEF CallNowhere, Stop, Cause
<1>8. CASE CallError
  <2>1. /\ UNCHANGED <<prog, pc, base, slots>>
        /\ \E w \in print_slots : fatal(w) \/ hazardous(w)
    BY <1>1, <1>8 DEF CallError, Stop
  <2>2. PICK j \in 0 .. called.size - 1 : fatal(called.data[j]) \/ hazardous(called.data[j])
    BY <2>1 DEF print_slots
  <2> DEFINE link == to_small_int(ToInt(pc))
  <2>3. /\ called.size = slots.size
        /\ called.data[newbase] = link
        /\ \A i \in 0 .. slots.size - 1 : i # newbase => called.data[i] = slots.data[i]
    <3>1. newbase \in Nat /\ newbase + 1 < slots.size
      BY <1>1, <1>3 DEF newbase, live
    <3>2. link \in Word /\ IsSlots(slots)
      BY <1>1, ToIntType, SmallIntWord DEF TypeOK
    <3>3. called = SlotSet(slots, newbase, link)
      BY DEF called
    <3> HIDE DEF link
    <3>4. 0 <= newbase /\ 0 <= slots.size
      BY <1>1, <3>1
    <3>5. LongerOf(slots.size, newbase + 1) = slots.size
      BY <1>1, <3>1 DEF LongerOf
    <3> QED
      BY <3>1, <3>2, <3>3, <3>4, <3>5, SlotSetFacts
  <2>4. ~fatal(link) /\ ~hazardous(link)
    <3>1. pc \in 0 .. IntHalf - 1
      BY <1>1 DEF TypeOK, IsProgram
    <3>2. ToInt(pc) = pc /\ pc \in CInt /\ pc >= 0
      BY <3>1, Widths DEF ToInt, CInt
    <3>3. link.tag = TAG_SMALL_INTEGER
      BY <3>2, SmallIntFacts
    <3> QED
      BY <3>3 DEF fatal, hazardous, is_double, is_pointer, TAG_SMALL_INTEGER,
         TAG_DOUBLE_MAX, TAG_DOUBLE_MIN, TAG_POINTER_LO, TAG_POINTER_HI
  <2>5. called.data[j] = slots.data[j] /\ j \in 0 .. slots.size - 1
    BY <2>2, <2>3, <2>4
  <2>6. slots.data[j] \in LiveWords /\ slots.data[j] \in MadeWords(prog)
    BY <2>5 DEF LiveWords, WordsInv, Within
  <2>7. ~hazardous(slots.data[j])
    BY <1>1, <2>6, MadeFacts DEF TypeOK
  <2>8. slots.data[j].tag = TAG_POINTER_HI
    BY <1>4, <2>2, <2>5, <2>6, <2>7
  <2> QED
    BY <1>1, <2>1, <2>6, <2>8 DEF Cause
<1> QED
  BY <1>5, <1>6, <1>7, <1>8

(* A step of a sealed program's own code that ends in a crash has a cause, *)
(* and leaves it in place.                                                 *)
LEMMA CrashCause ==
  ASSUME ExecuteInv, WordsInv, Sealed(prog), Next, pc \in DOMAIN prog.code,
         status' = "crash"
  PROVE  Cause /\ UNCHANGED <<prog, pc, base, slots>>
<1>1. TypeOK /\ ~Ckey /\ ~Getfield /\ ~FetchOutside
  BY DEF ExecuteInv, Sealed, Ckey, Getfield, FetchOutside, Fetch, inst
<1>2. status = "running"
  BY DEF Next, SlotError, Cstr, Ctype, Cbool, Cnil, Cshort, Fnew, Ckey, Nsset, Nsget,
     Arith, Modvv, Iseq, Mov, Bulkmov, Jump, Jumpf, Jumpt, Loop, Skip, Exit,
     CallFunction, CallBuiltin, CallNowhere, CallError, Ret, Alloc, Setfield, Getfield,
     FetchOutside, Fetch
<1>3. ~(\/ SlotError \/ Cstr \/ Ctype \/ Cbool \/ Cnil \/ Cshort \/ Fnew
        \/ Mov \/ Bulkmov \/ Jump \/ Jumpf \/ Jumpt \/ Loop \/ Skip \/ Exit \/ Ret)
  BY <1>2 DEF SlotError, Cstr, Ctype, Cbool, Cnil, Cshort, Fnew, Mov, Bulkmov, Jump,
     Jumpf, Jumpt, Branch, Loop, Skip, Exit, Ret, Produce, Proceed, RunsOn, Stop
<1>4. CASE Arith \/ Modvv \/ Iseq
  BY <1>1, <1>4, ArithCause DEF Stop
<1>5. CASE CallFunction \/ CallBuiltin \/ CallNowhere \/ CallError
  BY <1>5, CallCause
<1>6. CASE Nsset \/ Nsget \/ Alloc \/ Setfield
  BY <1>2, <1>6 DEF Nsset, Nsget, Alloc, Setfield, Fetch, Produce, Proceed, RunsOn, Stop,
     Cause
<1> QED
  BY <1>1, <1>3, <1>4, <1>5, <1>6 DEF Next

LEMMA CauseKept ==
  ASSUME Cause, UNCHANGED <<prog, pc, base, slots>>
  PROVE  Cause'
BY DEF Cause, inst, get, callee, LiveWords

LEMMA FaultStep ==
  ASSUME SealedInv, FaultCauses, [Next]_vars
  PROVE  FaultCauses'
<1>1. FaultCauses <=> (status = "crash" /\ Sealed(prog) /\ pc \in DOMAIN prog.code => Cause)
  BY DEF FaultCauses, Cause
<1>2. FaultCauses' <=> (status' = "crash" /\ Sealed(prog') /\ pc' \in DOMAIN prog'.code => Cause')
  BY DEF FaultCauses, Cause
<1>3. CASE UNCHANGED vars
  BY <1>1, <1>2, <1>3, CauseKept DEF vars
<1>4. CASE Next /\ status' = "crash" /\ Sealed(prog) /\ pc \in DOMAIN prog.code
  BY <1>2, <1>4, CrashCause, CauseKept DEF SealedInv
<1>5. CASE Next /\ status' = "crash" /\ pc \notin DOMAIN prog.code
  <2>1. UNCHANGED <<prog, pc>>
    BY <1>5 DEF Next, SlotError, Cstr, Ctype, Cbool, Cnil, Cshort, Fnew, Ckey, Nsset,
       Nsget, Arith, Modvv, Iseq, Mov, Bulkmov, Jump, Jumpf, Jumpt, Loop, Skip, Exit,
       CallFunction, CallBuiltin, CallNowhere, CallError, Ret, Alloc, Setfield,
       Getfield, FetchOutside, Fetch, Stop
  <2> QED
    BY <1>2, <1>5, <2>1
<1>6. CASE Next /\ (status' # "crash" \/ ~Sealed(prog))
  BY <1>2, <1>6, ProgramConstant
<1> QED
  BY <1>3, <1>4, <1>5, <1>6

(* For every sealed program: only a division by zero, a number or type out *)
(* of range, a negative integer that is printed or the function at address *)
(* 0 end it with a signal inside its code.  No sequence of instructions    *)
(* makes a word that is_double or a pointer test accepts with memory below.*)
THEOREM FaultsHaveCauses == Spec => []FaultCauses
<1>1. Init => FaultCauses
  BY DEF Init, FaultCauses
<1> QED
  BY <1>1, FaultStep, SealedHolds, PTL DEF Spec
=============================================================================
