------------------------------ MODULE Fixtures -------------------------------
(***************************************************************************)
(* The compiled programs in the repository (files .cvmb), instruction by   *)
(* instruction, with the word their slot 0 holds at the end.  Where a file *)
(* has one constant argument n, every operand CSHORT can have stands in    *)
(* its place.                                                              *)
(***************************************************************************)
EXTENDS Bytecode

Returns(file, w) == [code |-> file.code, cstr |-> file.cstr, result |-> w]

(* The operands fit uint16_t, and the sums int32_t.                         *)
ASSUME FixtureWidths == 81 < 2 * ShortHalf /\ 2 * ShortHalf + 18 <= IntHalf

(* builtin1.cvmb, builtin_int.cvmb                                         *)
builtin1 == Returns(
  File(<<AD("NSGET", 1, 1), AD("CSTR", 2, 0), AD("CALL", 0, 0), AD("EXIT", 0, 0)>>,
       <<"test", "println">>), get_nil)

builtin_int == Returns(
  File(<<AD("NSGET", 1, 0), AD("CSHORT", 2, 1), AD("CALL", 0, 0), AD("EXIT", 0, 0)>>,
       <<"println">>), get_nil)

(* function-ret-trunc.cvmb (n = 10): 2 - (n + 5), which is no integer word *)
(* but the sign extension of one.                                          *)
function_ret_trunc(n) == Returns(
  File(<<AD("FNEW", 1, 11), AD("FNEW", 3, 6), AD("CSHORT", 4, n), AD("CALL", 2, 0),
         AD("CALL", 0, 0), AD("EXIT", 0, 0),
         AD("FUNCF", 0, 0), AD("MOV", 3, 2), AD("CSHORT", 4, 5),
         ABC("ADDVV", 3, 4, 3), AD("RET", 3, 0),
         AD("FUNCF", 0, 0), AD("MOV", 3, 2), AD("CSHORT", 4, 2),
         ABC("SUBVV", 3, 4, 3), AD("RET", 3, 0)>>, <<>>),
  [tag |-> TAG_POINTER_HI, val |-> PayMod + 2 - (n + 5)])

(* simple_fn_call_2.cvmb (n = 5): 8 + (n + 10).                             *)
simple_fn_call_2(n) == Returns(
  File(<<AD("FNEW", 1, 11), AD("FNEW", 3, 6), AD("CSHORT", 4, n), AD("CALL", 2, 0),
         AD("CALL", 0, 0), AD("EXIT", 0, 0),
         AD("FUNCF", 0, 0), AD("MOV", 3, 2), AD("CSHORT", 4, 10),
         ABC("ADDVV", 3, 4, 3), AD("RET", 3, 0),
         AD("FUNCF", 0, 0), AD("CSHORT", 3, 8), AD("MOV", 4, 2),
         ABC("ADDVV", 3, 4, 3), AD("RET", 3, 0)>>, <<>>),
  to_small_int(n + 18))

(* stack-growing-test.cvmb: a function that sums five arguments, called by *)
(* one that drops the sum, then a function that adds 1 to n (47).          *)
stack_growing_test(n) == Returns(
  File(<<AD("CSHORT", 0, 1), AD("FNEW", 1, 26), AD("MOV", 3, 1), AD("CSHORT", 4, 81),
         AD("CALL", 2, 0), AD("FNEW", 3, 10), AD("CSHORT", 4, n), AD("CALL", 2, 0),
         AD("MOV", 0, 2), AD("EXIT", 0, 0),
         AD("FUNCF", 0, 0), AD("MOV", 3, 2), AD("CSHORT", 4, 1),
         ABC("ADDVV", 3, 4, 3), AD("RET", 3, 0),
         AD("FUNCF", 0, 0), AD("MOV", 7, 2), AD("MOV", 8, 3), AD("MOV", 9, 4),
         AD("MOV", 10, 5), AD("MOV", 11, 6), ABC("ADDVV", 10, 11, 10),
         ABC("ADDVV", 9, 10, 9), ABC("ADDVV", 8, 9, 8), ABC("ADDVV", 7, 8, 7),
         AD("RET", 7, 0),
         AD("FUNCF", 0, 0), AD("CSHORT", 2, 1), AD("CSHORT", 3, 2), AD("CSHORT", 4, 3),
         AD("CSHORT", 5, 4), AD("CSHORT", 6, 5), AD("FNEW", 8, 15), AD("MOV", 9, 2),
         AD("MOV", 10, 3), AD("MOV", 11, 4), AD("MOV", 12, 5), AD("MOV", 13, 6),
         AD("CALL", 7, 0), AD("MOV", 2, 7), AD("RET", 2, 0)>>, <<>>),
  to_small_int(n + 1))

Fixtures == {builtin1, builtin_int} \cup
            UNION {{function_ret_trunc(n), simple_fn_call_2(n), stack_growing_test(n)} :
                     n \in UShort}

-----------------------------------------------------------------------------
(* Every one of these programs reaches its EXIT instruction: it is stopped *)
(* by no bounds check, finds the way back from every call, and does not    *)
(* repeat an instruction for ever.                                         *)
ReachesExit == <>(status = "end")

(* A program that has reached EXIT has its result in slot 0 and no call    *)
(* left: arguments reach the callee's slots 2 and up, and results the slot *)
(* the caller gave to CALL, through nested frames and RET's truncations.   *)
ResultInSlot0 ==
  status = "end" => slots.data[0] = prog.result /\ stack = <<>> /\ base = 0

=============================================================================
