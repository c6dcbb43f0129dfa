----------------------------- MODULE MCFixtures ------------------------------
(* The runs of the repository's programs.                                  *)
EXTENDS Fixtures

(* They follow the calling convention of module Calls.                     *)
ASSUME FixturesComply == \A p \in Fixtures : Compliant(p)

(* The head of what the repository's compiler makes of                     *)
(* tests/simple_loop.clj; the loop's body, from address 5 on, is not       *)
(* reached.                                                                *)
simple_loop == Returns(
  File(<<AD("NSGET", 1, 0), AD("CSHORT", 2, 0), AD("CSHORT", 3, 1), AD("CSHORT", 4, 2),
         AD("LOOP", 0, 0), AD("MOV", 5, 2), AD("CSHORT", 6, 10), ABC("ISEQ", 5, 5, 6),
         AD("JUMPF", 5, 3), AD("MOV", 5, 2), AD("JUMP", 0, 22)>>, <<"println">>),
  get_nil)

LoopTest == {simple_loop}

(* A program of integers only: (2 - 3) mod 2.                              *)
NegativeModulo ==
  {File(<<AD("CSHORT", 0, 2), AD("CSHORT", 1, 3), ABC("SUBVV", 2, 0, 1),
          ABC("MODVV", 3, 2, 0), AD("EXIT", 0, 0)>>, <<>>)}

(* What the type error of MODVV says ("Called Modulo with Float"): one of  *)
(* the operands is no word to_small_int makes.                             *)
ModuloRejectsOnlyNonIntegers ==
  status = "type_error" /\ inst.op = "MODVV" =>
    ~ \A operand \in {get(inst.b), get(inst.c)} :
        \E n \in CInt : operand = to_small_int(n)

=============================================================================
