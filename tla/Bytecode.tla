------------------------------ MODULE Bytecode -------------------------------
(* Notation for the programs the runs of the interpreter execute.          *)
EXTENDS Calls

(* Instructions in the two operand formats, op a d and op a b c.           *)
AD(op, a, d)     == [op |-> op, a |-> a, b |-> 0, c |-> 0, d |-> d]
ABC(op, a, b, c) == [op |-> op, a |-> a, b |-> b, c |-> c, d |-> 0]

(* A file: code from address 0 on, strings from index 0 on.                *)
File(code, names) ==
  [code |-> [p \in 0 .. Len(code) - 1 |-> code[p + 1]],
   cstr |-> [d \in 0 .. Len(names) - 1 |-> [name |-> names[d + 1], addr |-> 8 + d]]]

(* A jump offset or function address as the uint16_t the file holds.       *)
Offset(n) == n % (2 * ShortHalf)

(* What memory nobody initialised for the program might hold.              *)
MCRawWords == { [tag |-> 7, val |-> 0],              \* a double
                [tag |-> TAG_POINTER_LO, val |-> 9],
                [tag |-> TAG_BUILTIN, val |-> 3],    \* a builtin that is none
                [tag |-> TAG_SMALL_INTEGER, val |-> 3] }

=============================================================================
