------------------------------ MODULE MCLoader -------------------------------
(* Loader on every file of at most three sections of any kinds, one kind   *)
(* the loader does not know among them, with up to two entries, and on     *)
(* files of the seven sections the compiler writes, in its order.          *)
EXTENDS Lifecycle, SequencesExt

EntryBytes == <<4, 8, 8, 0, 0, 12, 8, 4>>     \* of kinds 0, 1, 2, ...

Contents(id) ==
  IF id \in {SECTION_CSTR, SECTION_CKEY}
    THEN {[id |-> id, len |-> LastEnd(e), cnt |-> Len(e), ends |-> e]
            : e \in {<<>>, <<5>>, <<1, 3>>}}
    ELSE {[id |-> id, len |-> EntryBytes[id + 1] * n, cnt |-> n, ends |-> <<>>]
            : n \in {0, 2}}

AnyContents == UNION {Contents(id) : id \in 0 .. 7}

(* The file with these contents, one after the other.                      *)
LaidOut(c) ==
  FoldLeft(LAMBDA f, s :
             Append(f, [start |-> IF f = <<>> THEN HeaderEnd(Len(c))
                                  ELSE Last(f).start + Extent(Last(f)),
                        id |-> s.id, len |-> s.len, cnt |-> s.cnt, ends |-> s.ends]),
           <<>>, c)

Compiled == {<<a, b, c, d, e, f, g>> :
               a \in Contents(0), b \in Contents(1), c \in Contents(2),
               d \in Contents(3), e \in Contents(4), f \in Contents(5),
               g \in Contents(6)}

MCFiles  == {LaidOut(c) : c \in Compiled \cup SeqOf(AnyContents, 3)}
MCCounts == {0, 2}

BadFiles == {LaidOut(<<c>>) : c \in Contents(7)}

=============================================================================
