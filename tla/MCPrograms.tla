----------------------------- MODULE MCPrograms ------------------------------
EXTENDS Bytecode

(* Programs no compiler would emit: four instructions are left open, two of*)
(* them in what may be a function at address 3, and TLC runs all choices.  *)
AnyInstr ==
  { AD("FNEW", 1, 3), AD("FNEW", 2, 3), AD("FNEW", 1, 0), AD("CALL", 0, 0),
    AD("CALL", 1, 1),
    AD("RET", 0, 0), AD("RET", 2, 0), AD("CSHORT", 2, 7), AD("CSHORT", 0, 4),
    AD("MOV", 1, 0), AD("MOV", 3, 2), AD("JUMP", 0, Offset(-2)),
    AD("NSGET", 1, 0), ABC("SUBVV", 2, 3, 2) }

AnyCode ==
  { <<i, j, AD("CALL", a, 0), AD("FUNCF", 0, 0), k, l, AD("EXIT", 0, 0)>> :
      i, j, k, l \in AnyInstr, a \in 0 .. 1 }

(* Every instruction the interpreter knows, twice in a row, in a frame that*)
(* does not start at slot 0 and whose slots hold words of every kind.      *)
EveryInstr ==
  { AD("CSTR", 1, 0), AD("CKEY", 2, 0), AD("CKEY", 2, 9), AD("CTYPE", 1, 1),
    AD("CBOOL", 2, 0), AD("CBOOL", 2, 1), AD("CNIL", 1, 0),
    AD("NSSET", 2, 1), AD("NSSET", 2, 9), AD("NSGET", 3, 1), AD("NSGET", 2, 9),
    ABC("ADDVV", 2, 2, 3), ABC("MULVV", 3, 3, 3), ABC("DIVVV", 3, 3, 2),
    ABC("MODVV", 2, 3, 2), ABC("SUBVV", 2, 2, 3), ABC("ISEQ", 2, 2, 3),
    AD("JUMPF", 2, 2), AD("JUMPT", 2, 2), AD("LOOP", 0, 0), AD("ISLT", 0, 0),
    ABC("BULKMOV", 3, 2, 3), ABC("BULKMOV", 1, 2, 2), ABC("BULKMOV", 5, 9, 1),
    AD("ALLOC", 2, 0), ABC("SETFIELD", 2, 0, 3), ABC("GETFIELD", 2, 2, 0),
    AD("CALL", 0, 1), AD("CALL", 1, 1), AD("FNEW", 2, 3), AD("EXIT", 0, 0) }

WordMakers == { AD("CSHORT", 2, 0), AD("CSHORT", 2, 6), AD("NSGET", 2, 0),
                AD("CKEY", 2, 0) }

EveryCode ==
  { <<AD("FNEW", 3, 3), AD("CALL", 2, 0), AD("EXIT", 0, 0),
      AD("CSHORT", 3, 5), w, i, j, AD("RET", 2, 0)>> :
      w \in WordMakers, i, j \in EveryInstr }

(* A function that keeps words of every kind in the slots 2 and 3, one of  *)
(* them below the frame of its call of println.                            *)
KeepingCode ==
  { <<AD("FNEW", 3, 3), AD("CALL", 2, 0), AD("EXIT", 0, 0),
      AD("CSHORT", 3, 5), w, AD("NSGET", 4, 0), AD("CSHORT", 5, 6), i,
      AD("CALL", 3, 1), AD("RET", 2, 0)>> :
      w \in WordMakers, i \in EveryInstr }

MCProgramSet ==
  { File(code, <<"println", "x">>) : code \in EveryCode \cup AnyCode \cup KeepingCode }

=============================================================================
