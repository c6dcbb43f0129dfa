------------------------------ MODULE MCCalls --------------------------------
(* Programs that may follow the calling convention: a top level that calls *)
(* a function twice, and a function whose body is open.  It can call       *)
(* itself, through slot 2 if it was passed itself, or through slot 4.      *)
EXTENDS Bytecode

TopInstr  == { AD("CSHORT", 2, 5), AD("MOV", 2, 1), AD("NSGET", 2, 0),
               AD("CBOOL", 2, 0) }

BodyInstr == { AD("CSHORT", 3, 1), ABC("SUBVV", 3, 3, 2), AD("MOV", 2, 3),
               AD("FNEW", 4, 5), AD("FNEW", 2, 5), AD("CALL", 1, 1), AD("CALL", 3, 1),
               AD("JUMPF", 2, 2), AD("NSSET", 2, 1), AD("NSGET", 4, 1),
               AD("MOV", 4, 2), ABC("BULKMOV", 3, 2, 2), ABC("ISEQ", 2, 3, 3),
               AD("CALL", 0, 0) }

CallPrograms ==
  { File(<<AD("FNEW", 1, 5), t, AD("CALL", 0, 1), AD("CALL", 0, 1), AD("EXIT", 0, 0),
           AD("FUNCF", 0, 1), i, j, k, AD("RET", r, 0)>>,
         <<"println", "x">>) :
      t \in TopInstr, i, j, k \in BodyInstr, r \in {0, 2, 3} }

CompliantPrograms == { p \in CallPrograms : Compliant(p) }

=============================================================================
