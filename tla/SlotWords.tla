------------------------------ MODULE SlotWords ------------------------------
(***************************************************************************)
(* The 64-bit words the virtual machine computes with (slots.c, from "SLOT *)
(* FUNCTION" on).  The top 16 bits of a word are its tag, the other 48 its *)
(* value; a word is written [tag |-> t, val |-> v].                        *)
(*                                                                         *)
(* The constructors OR a shifted tag with a C integer that is first sign   *)
(* extended to 64 bits, so a negative integer sets every tag bit: this is  *)
(* modelled as it happens (SignExtendOr), not as it was meant.             *)
(***************************************************************************)
EXTENDS Integers

CONSTANTS
  ShortHalf,   \* 2^15: int16_t holds -ShortHalf .. ShortHalf - 1
  IntHalf,     \* 2^31: int32_t holds -IntHalf .. IntHalf - 1
  PayMod       \* 2^48: number of values beside a tag

ASSUME WidthAssumption ==
  /\ ShortHalf \in Nat \ {0}
  /\ IntHalf \in Nat /\ 2 * ShortHalf <= IntHalf
  /\ PayMod \in Nat /\ 2 * IntHalf <= PayMod
  /\ PayMod % (2 * IntHalf) = 0

TAG_DOUBLE_MAX    == 65528
TAG_DOUBLE_MIN    == 7
TAG_POINTER_LO    == 0
TAG_POINTER_HI    == 65535
TAG_SMALL_INTEGER == 65534
TAG_BOOL          == 65533
TAG_TYPE          == 65532
TAG_FNEW          == 65531
FnewTagAgain      == TAG_FNEW     \* mutant: two kinds of word with one tag
TAG_BUILTIN       == 65530

Tag  == TAG_POINTER_LO .. TAG_POINTER_HI        \* uint16_t
Word == [tag : Tag, val : 0 .. PayMod - 1]

Short  == -ShortHalf .. ShortHalf - 1          \* int16_t
UShort == 0 .. 2 * ShortHalf - 1               \* uint16_t
CInt   == -IntHalf .. IntHalf - 1              \* int32_t

(* (int16_t) of a uint16_t operand: jump offsets and function addresses.   *)
ToShort(d) == IF d < ShortHalf THEN d ELSE d - 2 * ShortHalf

(* The int32_t made of the low 32 bits of n: C's conversion, and also what *)
(* an overflowing int32_t result becomes once it is passed, in a 32-bit    *)
(* register, to to_small_int in another translation unit.                  *)
ToInt(n) == LET low == n % (2 * IntHalf)
            IN  IF low < IntHalf THEN low ELSE low - 2 * IntHalf

(* ((uint64_t) tag << 48) | num, with num sign extended to 64 bits.        *)
SignExtendOr(tag, num) ==
  IF num >= 0 THEN [tag |-> tag, val |-> num]
              ELSE [tag |-> TAG_POINTER_HI, val |-> PayMod + num]

get_nil         == [tag |-> 0, val |-> 0]
to_small_int(n) == SignExtendOr(TAG_SMALL_INTEGER, n)
to_fnew(n)      == SignExtendOr(TAG_FNEW, n)
to_type(n)      == [tag |-> TAG_TYPE, val |-> n]
to_bool(b)      == [tag |-> TAG_BOOL, val |-> IF b THEN 1 ELSE 0]
to_builtin(f)   == [tag |-> TAG_BUILTIN, val |-> f]

is_nil(w)       == w = get_nil
is_small_int(w) == w.tag = TAG_SMALL_INTEGER
is_fnew(w)      == w.tag = TAG_FNEW
is_builtin(w)   == w.tag = TAG_BUILTIN
is_bool(w)      == w.tag = TAG_BOOL
is_double(w)    == w.tag >= TAG_DOUBLE_MIN /\ w.tag <= TAG_DOUBLE_MAX
is_pointer(w)   == ~is_nil(w) /\ w.tag \in {TAG_POINTER_LO, TAG_POINTER_HI}

get_small_int(w) == ToInt(w.val)
get_fnew(w)      == w.val % (2 * ShortHalf)    \* as CALL keeps it, in a uint16_t
get_builtin(w)   == w.val % (2 * IntHalf)
get_bool(w)      == w.val % 2 = 1

is_falsy(w) == IF is_bool(w) THEN ~get_bool(w) ELSE is_nil(w)

=============================================================================
