-------------------------------- MODULE Calls --------------------------------
(***************************************************************************)
(* The calling convention.  CALL keeps the return address in the callee's  *)
(* slot 0, an ordinary slot, and nothing in the virtual machine protects   *)
(* it: RET jumps to whatever is there.  The compiler has to obey the       *)
(* convention stated here as Compliant; for programs that do, returns are  *)
(* shown to match calls.                                                   *)
(***************************************************************************)
EXTENDS Execute

(* The addresses of function bodies: from a FUNCF up to the next RET, the  *)
(* way the compiler lays out code.                                         *)
FunctionPcs(code) ==
  {p \in DOMAIN code :
     \E f \in DOMAIN code :
       /\ f <= p /\ code[f].op = "FUNCF"
       /\ \A q \in DOMAIN code : f <= q /\ q < p => code[q].op # "RET"}

Writers == {"CSTR", "CTYPE", "CBOOL", "CNIL", "CSHORT", "NSGET", "ADDVV",
            "SUBVV", "MULVV", "DIVVV", "MODVV", "ISEQ", "MOV", "FNEW", "CALL"}

(* Instruction i leaves slot 0 of its frame alone, and a function it calls *)
(* gets a frame of its own.                                                *)
KeepsSlot0(i) == /\ i.op \in Writers => i.a > 0
                 /\ i.op = "BULKMOV" => i.a > 0 \/ i.c = 0

(* Where control goes from address p, calls and returns aside.             *)
Successors(code, p) ==
  CASE code[p].op = "JUMP"               -> {ToPc(p + ToShort(code[p].d))}
    [] code[p].op \in {"JUMPF", "JUMPT"} -> {p + 1, ToPc(p + ToShort(code[p].d))}
    [] code[p].op = "LOOP"               -> {p}
    [] code[p].op \in {"RET", "EXIT"}    -> {}
    [] OTHER                             -> {p + 1}

(* The convention: words are made by instructions only, execution starts   *)
(* outside functions, functions are made of function addresses, control    *)
(* does not wander into or out of a function, and functions keep their     *)
(* slot 0.                                                                 *)
Compliant(p) ==
  LET F == FunctionPcs(p.code)
  IN  /\ Sealed(p)
      /\ 0 \notin F
      /\ \A i \in DOMAIN p.code :
           /\ p.code[i].op = "FNEW" => p.code[i].d \in F
           /\ \A n \in Successors(p.code, i) : n \in F <=> i \in F
           /\ i \in F => KeepsSlot0(p.code[i])

(* The slot that holds the return address of the k-th active call.         *)
LinkSlot(k) == FrameBase(k + 1)
Link(k)     == slots.data[LinkSlot(k)]

(* In a compliant program, at every moment and for every active call: the  *)
(* callee's slot 0 exists and holds, still tagged as an integer, the       *)
(* address of the CALL that made the frame, which is in the caller's code; *)
(* and the running code is a function's exactly if a call is active.  So   *)
(* RET returns behind the matching CALL, with the caller's base.           *)
ReturnAddresses ==
  Compliant(prog) =>
    /\ \A k \in 1 .. Len(stack) :
         LET c == Link(k).val
         IN  /\ LinkSlot(k) < slots.size
             /\ c \in DOMAIN prog.code /\ Link(k) = to_small_int(c)
             /\ prog.code[c].op = "CALL"
             /\ LinkSlot(k) = stack[k].base_slot + prog.code[c].a
             /\ c \in FunctionPcs(prog.code) <=> k > 1
    /\ status = "running" =>
         (pc \in FunctionPcs(prog.code) <=> stack # <<>>)

(* The interpreter implements CallReturn: its return addresses, one in the *)
(* slots of each active call, and the bases on its context stack behave as *)
(* one stack no program can touch.                                         *)
Abstract == INSTANCE CallReturn
              WITH at <- pc, frame <- base,
                   calls <- [k \in 1 .. Len(stack) |-> [at    |-> Link(k).val + 1,
                                                       frame |-> stack[k].base_slot]]

ImplementsCallReturn == Abstract!CallReturnSpec

-----------------------------------------------------------------------------
(* A program without backward jumps and without LOOP.                      *)
Forward(p) ==
  \A i \in DOMAIN p.code :
    /\ p.code[i].op # "LOOP"
    /\ p.code[i].op \in {"JUMP", "JUMPF", "JUMPT"} =>
         p.code[i].d \in 1 .. ShortHalf - 1

(* Where the program is: the CALLs that are active, and the pc.            *)
Position ==
  [k \in 1 .. Len(stack) + 1 |-> IF k <= Len(stack) THEN Link(k).val ELSE pc]

(* The lexicographic order, in which a prefix comes first.                 *)
Precedes(p, q) ==
  \E k \in 1 .. Len(q) :
    /\ \A j \in 1 .. k - 1 : j <= Len(p) /\ p[j] = q[j]
    /\ k = Len(p) + 1 \/ (k <= Len(p) /\ p[k] < q[k])

(* A compliant program that never jumps back is never where it has been    *)
(* before: every step takes it on in the code of the running function, into*)
(* a callee, or, whatever the callees did to their slots, behind a CALL    *)
(* that was active (RET's vm.pc = return address + 1).                     *)
MovesOn ==
  [][Compliant(prog) /\ Forward(prog) /\ status' = "running"
       => Precedes(Position, Position')]_vars

(* A compliant program that never jumps back stops, unless its calls nest  *)
(* without end (MaxDepth): RET always resumes behind the CALL, never at or *)
(* before it, whatever the callees did to their slots.                     *)
Terminates ==
  Compliant(prog) /\ Forward(prog) =>
    <>(status # "running" \/ Len(stack) = MaxDepth)

=============================================================================
