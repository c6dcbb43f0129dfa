------------------------------- MODULE Execute -------------------------------
(***************************************************************************)
(* The bytecode interpreter: start() of execute.c, with the operations of  *)
(* vm.c, stack.c and builtin.c its instructions call.  One action per      *)
(* instruction, each the whole case of the switch.                         *)
(*                                                                         *)
(* The slot array is taken as SlotMemory promises it (SlotArray has the    *)
(* buffers); the bytecode file as the loader delivers it.  The program is  *)
(* chosen at the start, out of Programs: nothing in the virtual machine    *)
(* verifies bytecode, so it may be any sequence of instructions.           *)
(***************************************************************************)
EXTENDS SlotWords, Sequences, SequencesExt

CONSTANTS
  Programs,      \* the bytecode files: records with code and cstr, see IsProgram
  Names,         \* the strings of the string tables
  Println,       \* the name of the one builtin function
  PrintlnAddr,   \* its address; the non-PIE build puts it below 2^32
  RawWords,      \* the words memory outside the program's control may hold
  MaxDepth       \* bound on nested calls; the program has none but memory

(* Opcodes the interpreter passes over: those whose case only advances the *)
(* pc, and those without a case of their own (default).                    *)
Skipped == {"NOT", "APPLY", "VFNEW", "GETFREEVAR", "UCLO", "NEWARRAY",
            "GETARRAY", "SETARRAY", "FUNCF", "FUNCV", "BREAK", "DROP", "TRANC",
            "CINT", "CFLOAT", "SETF", "POWVV", "ISLT", "ISGE", "ISLE", "ISGT",
            "ISNEQ", "NEG"}

Opcodes == Skipped \cup
           {"CSTR", "CKEY", "CTYPE", "CBOOL", "CNIL", "CSHORT", "NSSET",
            "NSGET", "ADDVV", "SUBVV", "MULVV", "DIVVV", "MODVV", "ISEQ", "MOV",
            "JUMP", "JUMPF", "JUMPT", "CALL", "RET", "FNEW", "LOOP", "BULKMOV",
            "ALLOC", "SETFIELD", "GETFIELD", "EXIT"}

(* struct OpABC and struct OpAD read the same four bytes: an instruction   *)
(* carries the operands of both views, and its opcode uses one of them.    *)
Operand == 0 .. 255
Instr == [op : Opcodes, a : Operand, b : Operand, c : Operand, d : UShort]

(* code is numbered from 0; cstr[d] is the d-th string, its name and the   *)
(* address where the loader keeps it.                                      *)
IsProgram(p) ==
  /\ DOMAIN p.code \subseteq 0 .. IntHalf - 1
  /\ \A i \in DOMAIN p.code : p.code[i] \in Instr
  /\ \A d \in DOMAIN p.cstr : /\ p.cstr[d].name \in Names
                              /\ p.cstr[d].addr \in 1 .. PayMod - 1

ASSUME ProgramAssumption ==
  /\ \A p \in Programs : IsProgram(p)
  /\ Println \in Names
  /\ PrintlnAddr \in 1 .. 2 * IntHalf - 1
  /\ RawWords \subseteq Word
  /\ MaxDepth \in Nat

VARIABLES
  prog,      \* sec: the sections of the file
  pc,        \* vm.pc, a uint32_t
  ip,        \* vm.ip: set and saved with the base, read by nothing
  base,      \* vm.base: the slot the current function's slot 0 is
  slots,     \* vm.slots
  stack,     \* vm.stack: the contexts of the callers, the last one on top
  symtab,    \* vm.symbol_table, a name without an entry reading as nil
  status     \* whether the program runs, or how it stopped

vars == <<prog, pc, ip, base, slots, stack, symtab, status>>

INSTANCE SlotOps WITH Cell <- Word, NilCell <- get_nil

Context == [base_slot : Nat, ip : UShort]

(* How the program stops: EXIT; an index out of the slots or of the        *)
(* context stack; a type error of MODVV or ISEQ; a call of what is no      *)
(* function; a signal.  wild: memory has been overwritten or code that is  *)
(* none executed, and the source says nothing of what follows.             *)
Stops == {"end", "slot_error", "stack_error", "type_error", "call_error",
          "crash", "wild"}

(* add_builtin_function registers println under its name.                  *)
builtins == [n \in Names |-> IF n = Println THEN to_builtin(PrintlnAddr)
                                            ELSE get_nil]

(* start: vm_init with the builtins registered, pc 0, and no slot yet.     *)
Init ==
  /\ prog \in Programs
  /\ pc = 0 /\ ip = 0 /\ base = 0
  /\ slots = NoSlots
  /\ stack = <<>>
  /\ symtab = builtins
  /\ status = "running"

-----------------------------------------------------------------------------
(* Parts of actions.                                                       *)

inst == prog.code[pc]

Fetch(ops) == status = "running" /\ pc \in DOMAIN prog.code /\ inst.op \in ops

ToPc(n) == n % (2 * IntHalf)                      \* uint32_t arithmetic

live(i) == base + i < slots.size                  \* get(vm, i) returns
get(i)  == slots.data[base + i]
set(i, w) == slots' = SlotSet(slots, base + i, w)

Goto(n) == pc' = ToPc(n)
Advance == Goto(pc + 1)
SameFrame == UNCHANGED <<ip, base, stack>>
RunsOn == UNCHANGED <<prog, status>>

Stop(how) ==
  /\ status' \in how
  /\ UNCHANGED <<prog, pc, ip, base, slots, stack, symtab>>

(* An instruction that only writes word w to its target slot.              *)
Produce(w) == set(inst.a, w) /\ Advance /\ SameFrame /\ RunsOn /\ UNCHANGED symtab

(* An instruction that only moves the pc.                                  *)
Proceed(n) == Goto(n) /\ SameFrame /\ RunsOn /\ UNCHANGED <<slots, symtab>>

(* The slots get() is called on.  (CALL's function slot lies above the one *)
(* it has written by then.)                                                *)
reads ==
  CASE inst.op \in {"ADDVV", "SUBVV", "MULVV", "DIVVV", "MODVV", "ISEQ"}
                                              -> {inst.b, inst.c}
    [] inst.op \in {"NSSET", "JUMPF", "JUMPT", "ALLOC"} -> {inst.a}
    [] inst.op = "MOV"                        -> {inst.d}
    [] inst.op = "CALL"                       -> {inst.a + 1}
    [] inst.op = "RET"                        -> {0, inst.a}
    [] inst.op = "BULKMOV"                    -> MoveReads(inst.a, inst.b, inst.c)
    [] inst.op = "SETFIELD"                   -> {inst.a, inst.c}
    [] inst.op = "GETFIELD"                   -> {inst.b}
    [] OTHER                                  -> {}

readable == \A i \in reads : live(i)

(* slots_get exits on an index at or past the size.  (ALLOC and NSSET may  *)
(* crash on their type or string before they read their slot.)             *)
SlotError == Fetch(Opcodes) /\ ~readable /\ Stop({"slot_error"})

-----------------------------------------------------------------------------
(* Constants.                                                              *)

(* CSTR stores the index of the string as an integer ("TODO REAL STRING    *)
(* HANDLING").                                                             *)
Cstr   == Fetch({"CSTR"})   /\ Produce(to_small_int(inst.d))
Ctype  == Fetch({"CTYPE"})  /\ Produce(to_type(inst.d))
Cbool  == Fetch({"CBOOL"})  /\ Produce(to_bool(inst.d # 0))
Cnil   == Fetch({"CNIL"})   /\ Produce(get_nil)
Cshort == Fetch({"CSHORT"}) /\ Produce(to_small_int(inst.d))
Fnew   == Fetch({"FNEW"})   /\ Produce(to_fnew(ToShort(inst.d)))

(* CKEY stores the address of the string; there is no check that the table *)
(* has such a string.                                                      *)
Ckey ==
  /\ Fetch({"CKEY"})
  /\ IF inst.d \in DOMAIN prog.cstr
       THEN Produce([tag |-> TAG_POINTER_LO, val |-> prog.cstr[inst.d].addr])
       ELSE (\E w \in RawWords : Produce(w)) \/ Stop({"crash"})

(* Globals, by the name the string table has at d.                         *)
get_symbol_table(d) == symtab[prog.cstr[d].name]
add_symbol_table_pair(d, w) == symtab' = [symtab EXCEPT ![prog.cstr[d].name] = w]

Nsset ==
  /\ Fetch({"NSSET"})
  /\ IF inst.d \in DOMAIN prog.cstr
       THEN /\ readable
            /\ add_symbol_table_pair(inst.d, get(inst.a))
            /\ Advance /\ SameFrame /\ RunsOn /\ UNCHANGED slots
       ELSE Stop({"crash", "wild"})

Nsget ==
  /\ Fetch({"NSGET"})
  /\ IF inst.d \in DOMAIN prog.cstr
       THEN Produce(get_symbol_table(inst.d))
       ELSE Stop({"crash", "wild"})

-----------------------------------------------------------------------------
(* Arithmetic.  get_double dereferences the double's own bits, which are   *)
(* no address a process can have: every use of a double is a crash.        *)

isNumber(w) == is_small_int(w) \/ is_double(w)
bothInts    == is_small_int(get(inst.b)) /\ is_small_int(get(inst.c))
bothNumbers == isNumber(get(inst.b)) /\ isNumber(get(inst.c))

Magnitude(n) == IF n < 0 THEN -n ELSE n

(* The result in the int32_t it is passed to to_small_int in.               *)
WideResult(n) == to_small_int(n)       \* mutant: passed as it is
result(n) == to_small_int(ToInt(n))

(* C's / truncates towards zero, and % has the sign of the dividend.       *)
CDiv(x, y) == LET q == Magnitude(x) \div Magnitude(y)
              IN  IF (x < 0) = (y < 0) THEN q ELSE -q
CMod(x, y) == x - y * CDiv(x, y)

(* Division by zero and INT_MIN / -1 raise SIGFPE.                         *)
Traps(x, y) == y = 0 \/ (x = -IntHalf /\ y = -1)

\* Mutant: the operands of SUBVV the wrong way round.
SubSwapped(x, y) ==
  CASE inst.op = "ADDVV" -> x + y
    [] inst.op = "SUBVV" -> y - x
    [] inst.op = "MULVV" -> x * y
    [] inst.op = "DIVVV" -> CDiv(x, y)
    [] inst.op = "MODVV" -> CMod(x, y)

Computed(x, y) ==
  CASE inst.op = "ADDVV" -> x + y
    [] inst.op = "SUBVV" -> x - y
    [] inst.op = "MULVV" -> x * y
    [] inst.op = "DIVVV" -> CDiv(x, y)
    [] inst.op = "MODVV" -> CMod(x, y)

(* Operands that are not both numbers leave the target as it was.          *)
Arith ==
  /\ Fetch({"ADDVV", "SUBVV", "MULVV", "DIVVV"}) /\ readable
  /\ LET x == get_small_int(get(inst.b))
         y == get_small_int(get(inst.c))
     IN  \/ /\ bothInts
            /\ IF inst.op = "DIVVV" /\ Traps(x, y)
                 THEN Stop({"crash"})
                 ELSE Produce(result(Computed(x, y)))
         \/ ~bothInts /\ bothNumbers /\ Stop({"crash"})
         \/ ~bothNumbers /\ Proceed(pc + 1)

Modvv ==
  /\ Fetch({"MODVV"}) /\ readable
  /\ LET x == get_small_int(get(inst.b))
         y == get_small_int(get(inst.c))
     IN  IF ~bothInts     THEN Stop({"type_error"})
         ELSE IF Traps(x, y) THEN Stop({"crash"})
         ELSE Produce(result(Computed(x, y)))

Iseq ==
  /\ Fetch({"ISEQ"}) /\ readable
  /\ LET x == get(inst.b)
         y == get(inst.c)
     IN  IF bothInts THEN Produce(to_bool(get_small_int(x) = get_small_int(y)))
         ELSE IF is_double(x) /\ is_double(y) THEN Stop({"crash"})
         ELSE Stop({"type_error"})

-----------------------------------------------------------------------------
(* Moves and jumps.                                                        *)

Mov == Fetch({"MOV"}) /\ readable /\ Produce(get(inst.d))

(* inst.c moves, each reading after the one before has written.            *)
Bulkmov ==
  /\ Fetch({"BULKMOV"}) /\ readable
  /\ slots' = SlotMove(slots, base + inst.a, base + inst.b, inst.c)
  /\ Advance /\ SameFrame /\ RunsOn /\ UNCHANGED symtab

Jump == Fetch({"JUMP"}) /\ Proceed(pc + ToShort(inst.d))

Branch(taken) == Proceed(pc + (IF taken THEN ToShort(inst.d) ELSE 1))

Jumpf == Fetch({"JUMPF"}) /\ readable /\ Branch(is_falsy(get(inst.a)))
Jumpt == Fetch({"JUMPT"}) /\ readable /\ Branch(~is_falsy(get(inst.a)))

(* The case of LOOP does not advance the pc: the instruction repeats.      *)
Loop == Fetch({"LOOP"}) /\ Proceed(pc)

Skip == Fetch(Skipped) /\ Proceed(pc + 1)

Exit ==
  /\ Fetch({"EXIT"})
  /\ Advance /\ status' = "end"
  /\ SameFrame /\ UNCHANGED <<prog, slots, symtab>>

-----------------------------------------------------------------------------
(* Calls.  Every case of CALL first stores the pc in the callee's slot 0.  *)

callee  == get(inst.a + 1)
\* Mutant: the callee's frame starts at an absolute slot.
AbsoluteNewbase == inst.a
newbase == base + inst.a

\* Mutant: ip is stored for the return, not pc.
IpAsLink == SlotSet(slots, newbase, to_small_int(ToInt(ip)))
called  == SlotSet(slots, newbase, to_small_int(ToInt(pc)))

(* What CALL pushes: get_context, before the base moves.                    *)
LateContext == [base_slot |-> newbase, ip |-> ip]      \* mutant: after it
context     == [base_slot |-> base, ip |-> ip]

(* The function's address, 0 standing for "a builtin".                     *)
func == IF is_fnew(callee) THEN get_fnew(callee) ELSE 0

(* Printing follows a pointer and interprets the memory there as an        *)
(* object.  No process has memory at a sign-extended integer or a double.  *)
fatal(w)   == is_double(w) \/ (is_pointer(w) /\ w.tag = TAG_POINTER_HI)
hazardous(w) == is_pointer(w) /\ w.tag = TAG_POINTER_LO

CallFunction ==
  /\ Fetch({"CALL"}) /\ readable
  /\ is_fnew(callee) /\ func # 0
  /\ Len(stack) < MaxDepth
  /\ stack' = Append(stack, context)
  /\ slots' = called
  /\ base' = newbase /\ ip' = func /\ pc' = func
  /\ RunsOn /\ UNCHANGED symtab

(* builtin_println prints the callee's slot 2 and stores nil in its slot 0;*)
(* CALL then clears the slots 2 to localbase + 9 of the callee, whose base *)
(* is still set, and restores the context it has pushed.                   *)
builtin_println == SlotSet(called, newbase, get_nil)

\* Mutant: cleared with the base of the caller, as if restored before.
ClearedInCaller == SlotClear(builtin_println, base + 2, base + inst.a + 10)
cleared == SlotClear(builtin_println, newbase + 2, newbase + inst.a + 10)

CallBuiltin ==
  /\ Fetch({"CALL"}) /\ readable
  /\ is_builtin(callee) /\ get_builtin(callee) = PrintlnAddr
  /\ IF ~live(inst.a + 2) THEN Stop({"slot_error"})
     ELSE LET argument == get(inst.a + 2)
          IN  \/ (fatal(argument) \/ hazardous(argument)) /\ Stop({"crash"})
              \/ /\ ~fatal(argument)
                 /\ slots' = cleared
                 /\ Advance /\ SameFrame /\ RunsOn /\ UNCHANGED symtab

(* Function 0, taken for a builtin, is called at address 0; other words    *)
(* with these tags come from wild memory only.                             *)
CallNowhere ==
  /\ Fetch({"CALL"}) /\ readable
  /\ \/ is_fnew(callee) /\ func = 0
     \/ is_builtin(callee) /\ get_builtin(callee) # PrintlnAddr
  /\ Stop(IF get_builtin(callee) = 0 THEN {"crash"} ELSE {"crash", "wild"})

(* Not a function: print_slots prints every slot before the program exits. *)
print_slots == {called.data[j] : j \in 0 .. called.size - 1}

CallError ==
  /\ Fetch({"CALL"}) /\ readable
  /\ ~is_fnew(callee) /\ ~is_builtin(callee)
  /\ \/ (\A w \in print_slots : ~fatal(w)) /\ Stop({"call_error"})
     \/ (\E w \in print_slots : fatal(w) \/ hazardous(w)) /\ Stop({"crash"})

(* Where RET resumes, read before the result replaces the word in slot 0.   *)
RepeatCall == get_small_int(get(0))               \* mutant: at the CALL again
ReadLate   == get_small_int(get(inst.a)) + 1      \* mutant: read after it
resume     == get_small_int(get(0)) + 1

(* RET a: the result moves to slot 0, where the caller finds it, the array *)
(* is cut to base + a words, and the pc follows the one slot 0 held.       *)
Ret ==
  /\ Fetch({"RET"}) /\ readable
  /\ IF stack = <<>> THEN Stop({"stack_error"})
     ELSE /\ slots' = SlotTruncate(SlotSet(slots, base, get(inst.a)), base + inst.a)
          /\ base' = Last(stack).base_slot /\ ip' = Last(stack).ip
          /\ stack' = Front(stack)
          /\ Goto(resume)
          /\ RunsOn /\ UNCHANGED symtab

-----------------------------------------------------------------------------
(* Objects.                                                                *)

(* ALLOC indexes the head of the hash list of types as an array, allocates *)
(* through a pool that lived in vm_init's frame, and drops the object it   *)
(* made: it leaves the slots as they were, if it survives.                 *)
Alloc ==
  /\ Fetch({"ALLOC"})
  /\ (readable /\ Proceed(pc + 1)) \/ Stop({"crash", "wild"})

(* SETFIELD writes through the word of slot a, whatever it is, GETFIELD    *)
(* reads through the word of slot b: only an address below 2^48 can be     *)
(* memory of the process, and nil never is.                                *)
Setfield ==
  /\ Fetch({"SETFIELD"}) /\ readable
  /\ Stop(IF hazardous(get(inst.a)) THEN {"crash", "wild"} ELSE {"crash"})

Getfield ==
  /\ Fetch({"GETFIELD"}) /\ readable
  /\ \/ hazardous(get(inst.b)) /\ \E w \in RawWords : Produce(w)
     \/ Stop({"crash"})

(* The pc is never checked: outside the code, whatever is mapped there is  *)
(* executed.                                                               *)
FetchOutside ==
  /\ status = "running" /\ pc \notin DOMAIN prog.code
  /\ Stop({"crash", "wild"})

Next ==
  \/ SlotError \/ Cstr \/ Ctype \/ Cbool \/ Cnil \/ Cshort \/ Fnew \/ Ckey
  \/ Nsset \/ Nsget \/ Arith \/ Modvv \/ Iseq \/ Mov \/ Bulkmov
  \/ Jump \/ Jumpf \/ Jumpt \/ Loop \/ Skip \/ Exit
  \/ CallFunction \/ CallBuiltin \/ CallNowhere \/ CallError \/ Ret
  \/ Alloc \/ Setfield \/ Getfield \/ FetchOutside

Spec == Init /\ [][Next]_vars

(* One thread runs while (1): it takes its next step as long as it has one.*)
FairSpec == Spec /\ WF_vars(Next)

-----------------------------------------------------------------------------
(* Properties of every program.                                            *)

TypeOK ==
  /\ IsProgram(prog)
  /\ pc \in 0 .. 2 * IntHalf - 1 /\ ip \in UShort /\ base \in Nat
  /\ IsSlots(slots)
  /\ stack \in Seq(Context)
  /\ symtab \in [Names -> Word]
  /\ status \in Stops \cup {"running"}

(* The base of the k-th active function, the first being the program, and  *)
(* the last the one that runs.                                             *)
FrameBase(k) == IF k <= Len(stack) THEN stack[k].base_slot ELSE base

(* The frames lie in the slot array in the order of the calls, from slot 0 *)
(* on, and the running function's base is never past the end: whatever is  *)
(* called, and wherever RET cuts the array, no caller's frame is cut off.  *)
(* (CALL's base + localbase; RET's slots.size = base + a.)                 *)
BasesOrdered ==
  /\ FrameBase(1) = 0
  /\ \A k \in 1 .. Len(stack) : FrameBase(k) <= FrameBase(k + 1)
  /\ base <= slots.size

(* No instruction, not even the ones that return or that run a builtin and *)
(* clear its slots, changes or cuts off a slot below the running function's*)
(* base: what the callers keep there is there when control returns.        *)
FrameIsolation ==
  [][\A i \in 0 .. base - 1 :
       i < slots'.size /\ slots'.data[i] = slots.data[i]]_vars

(* A CALL leaves alone whatever its caller keeps below the frame it opens, *)
(* the variables above the caller's base included: neither the stores into *)
(* the new frame nor the loop that clears a builtin's slots, which counts  *)
(* from the base still set at that moment, reach down to them.  (With      *)
(* FrameIsolation for the callee's own instructions: they outlive a call.) *)
CallerKept ==
  [][Fetch({"CALL"}) =>
       \A i \in 0 .. base + inst.a - 1 :
         i < slots.size => i < slots'.size /\ slots'.data[i] = slots.data[i]]_vars

(* A sealed program takes no words from string addresses or raw memory.    *)
Sealed(p) == \A i \in DOMAIN p.code : p.code[i].op \notin {"CKEY", "GETFIELD"}

LiveWords == {slots.data[j] : j \in 0 .. slots.size - 1}

(* The words the constructors of slots.c return to the instructions of p,  *)
(* addresses and raw memory aside; functions with the operands of FNEW.    *)
FnewOperands(p) == {p.code[i].d : i \in {j \in DOMAIN p.code : p.code[j].op = "FNEW"}}

MadeWords(p) ==
  {get_nil, to_builtin(PrintlnAddr)}
    \cup {to_small_int(n) : n \in CInt}
    \cup {to_type(d) : d \in UShort}
    \cup {to_bool(b) : b \in BOOLEAN}
    \cup {to_fnew(ToShort(d)) : d \in FnewOperands(p)}

(* However a sealed program computes, moves and overlaps words, every slot *)
(* and global holds a word a constructor has returned: growth, truncation  *)
(* and the overwritten slots of BULKMOV and CALL bring up no other, and no *)
(* result leaves the 32 bits to_small_int is given.                        *)
WordsMade ==
  Sealed(prog) =>
    LiveWords \cup {symtab[n] : n \in Names} \subseteq MadeWords(prog)

(* What can kill a sealed program with a signal, apart from bad string or  *)
(* type numbers and unchecked code addresses: a division by zero, never    *)
(* INT_MIN / -1; printing a negative integer, whose tag its sign has       *)
(* overwritten; and a call of the function at address 0.  Arithmetic never *)
(* does: no sequence of instructions makes a word is_double accepts.       *)
FaultCauses ==
  status = "crash" /\ Sealed(prog) /\ pc \in DOMAIN prog.code =>
    \/ inst.op \in {"ALLOC", "SETFIELD", "NSSET", "NSGET"}
    \/ inst.op \in {"DIVVV", "MODVV"} /\ get(inst.c) = to_small_int(0)
    \/ /\ inst.op = "CALL"
       /\ \/ callee = to_fnew(0)
          \/ \E w \in LiveWords : w.tag = TAG_POINTER_HI

=============================================================================
