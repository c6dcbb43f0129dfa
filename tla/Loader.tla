------------------------------- MODULE Loader --------------------------------
(***************************************************************************)
(* start loads a file (loader.c): loadfile maps it, parse walks its        *)
(* sections.  A header gives the kind and length of each section; where a  *)
(* section starts, parse computes from what it has read of the ones        *)
(* before.  debug_level is 0, as in debug.c.                               *)
(***************************************************************************)
EXTENDS Integers, Sequences

CONSTANTS
  Files,             \* the files under consideration
  Counts             \* what a count or string end read at a wrong place can be

VARIABLES
  file,              \* the file: its sections in order
  phase,             \* "open", "parse", "run" (the interpreter), "killed"
  i, offset,         \* of parse: the section (from 1), its place in the file
  sec,               \* struct sections: for each kind its count and addresses
  errno,
  failed, reported   \* loading has failed; start has printed so

loadVars == <<file, phase, i, offset, sec, errno, failed, reported>>

SECTION_INSTRUCTIONS == 0
SECTION_CINT         == 1
SECTION_CFLOAT       == 2
SECTION_CSTR         == 3
SECTION_CKEY         == 4
SECTION_VTABLES      == 5
SECTION_TYPES        == 6
Kinds                == 0 .. 6

EINVAL  == 22
HeaderEnd(n) == 4 + 8 * n        \* HEADER_OFFSET and n structs parse_hdr

(* A section: its kind, its length as the header gives it, its count of    *)
(* entries, the ends of its strings (string sections only) and its place.  *)
(* The length of a string section is the number of characters, which its   *)
(* last end gives too; the kind may be one the loader does not know.       *)
Section == [id : Nat, len : Nat, cnt : Nat, ends : Seq(Nat), start : Nat]

HasStrings(s) == s.id \in {SECTION_CSTR, SECTION_CKEY}
LastEnd(ends) == IF ends = <<>> THEN 0 ELSE ends[Len(ends)]

(* The bytes of a section: its count, then its entries; or its index of    *)
(* string ends, the number of strings once more, and the characters.       *)
Extent(s) == IF HasStrings(s) THEN 8 + 4 * s.cnt + LastEnd(s.ends) ELSE 4 + s.len

IsFile(f) ==
  /\ f \in Seq(Section)
  /\ \A k \in 1 .. Len(f) :
       /\ HasStrings(f[k]) => Len(f[k].ends) = f[k].cnt
       /\ f[k].start = IF k = 1 THEN HeaderEnd(Len(f))
                                ELSE f[k - 1].start + Extent(f[k - 1])

ASSUME LoaderAssumption == Counts \subseteq Nat /\ \A f \in Files : IsFile(f)

Unset == [cnt |-> 0, data |-> <<>>]

LoadInit ==
  /\ file \in Files
  /\ phase = "open" /\ i = 1 /\ offset = 0
  /\ sec = [kind \in Kinds |-> Unset]
  /\ errno = 0 /\ failed = FALSE /\ reported = FALSE

(* What start does with the result of loadfile: a message if it is not 0,  *)
(* and it goes on in any case.                                             *)
ReturnSilently(fails, res) ==                         \* mutant: no message
  /\ phase' = "run" /\ failed' = fails /\ reported' = FALSE
Return(fails, res) ==
  /\ phase' = "run" /\ failed' = fails /\ reported' = (res # 0)

OpenFile ==
  /\ phase = "open" /\ phase' = "parse"
  /\ offset' = HeaderEnd(Len(file))
  /\ UNCHANGED <<file, i, sec, errno, failed, reported>>

(* open or fstat fails.                                                    *)
OpenFails ==
  /\ phase = "open"
  /\ errno' = 2 /\ Return(TRUE, errno')
  /\ UNCHANGED <<file, i, offset, sec>>

(* mmap fails: its MAP_FAILED is not the NULL loadfile tests for.          *)
MapFails ==
  /\ phase = "open" /\ phase' = "killed"
  /\ UNCHANGED <<file, i, offset, sec, errno, failed, reported>>

(* What parse reads at offset: the section, if it starts there, and        *)
(* anything if not.                                                        *)
InPlace == offset = file[i].start
Readings ==
  IF InPlace
    THEN {[cnt |-> file[i].cnt, ends |-> file[i].ends]}
    ELSE UNION {[cnt : {c}, ends : [1 .. c -> Counts]] : c \in Counts}

parsing(kinds) == phase = "parse" /\ i <= Len(file) /\ file[i].id \in kinds

EntriesAdvance == file[i].len + 4

(* A section of entries of one size: where they start.                     *)
Entries(r) == [cnt |-> r.cnt, data |-> <<offset + 4>>]

PairOfWords == i + 2            \* mutant: the headers counted as words
NextHeader  == i + 1

NextSection(bytes) ==
  /\ i' = NextHeader /\ offset' = offset + bytes
  /\ UNCHANGED <<file, phase, errno, failed, reported>>

(* With debug_level 0 neither the advance nor the break of this case is    *)
(* executed: it falls into the next one, which sets cint and advances.     *)
Instructions ==
  /\ parsing({SECTION_INSTRUCTIONS})
  /\ \E r \in Readings :
       sec' = [sec EXCEPT ![SECTION_INSTRUCTIONS] = Entries(r),
                          ![SECTION_CINT] = Entries(r)]
  /\ NextSection(EntriesAdvance)

Constants ==
  /\ parsing({SECTION_CINT, SECTION_CFLOAT, SECTION_VTABLES})
  /\ \E r \in Readings : sec' = [sec EXCEPT ![file[i].id] = Entries(r)]
  /\ NextSection(EntriesAdvance)

SkipOwnEnd(r, j)    == r.ends[j]                      \* mutant: index j
charskip(r, j)      == IF j = 1 THEN 0 ELSE r.ends[j - 1]
StringsOneCount(r)  == 4 + 4 * r.cnt + LastEnd(r.ends)  \* mutant: one count only
StringsAdvance(r)   == 8 + 4 * r.cnt + LastEnd(r.ends)

Strings ==
  /\ parsing({SECTION_CSTR, SECTION_CKEY})
  /\ \E r \in Readings :
       /\ sec' = [sec EXCEPT ![file[i].id] =
                    [cnt  |-> r.cnt,
                     data |-> [j \in 1 .. r.cnt |->
                                 offset + 8 + 4 * r.cnt + charskip(r, j)]]]
       /\ NextSection(StringsAdvance(r))

(* The only case that leaves the offset where it is.                       *)
Types ==
  /\ parsing({SECTION_TYPES})
  /\ \E r \in Readings : sec' = [sec EXCEPT ![SECTION_TYPES] = Entries(r)]
  /\ NextSection(0)

(* parse returns EINVAL, and loadfile errno, which no call has set.        *)
UnknownSection ==
  /\ parsing(Nat \ Kinds)
  /\ Return(TRUE, errno)
  /\ UNCHANGED <<file, i, offset, sec, errno>>

(* Reading at a wrong place may reach behind the mapped file.              *)
ReadOutside ==
  /\ parsing(Nat) /\ ~InPlace
  /\ phase' = "killed"
  /\ UNCHANGED <<file, i, offset, sec, errno, failed, reported>>

EndOfSections ==
  /\ phase = "parse" /\ i > Len(file)
  /\ Return(FALSE, 0)
  /\ UNCHANGED <<file, i, offset, sec, errno>>

LoadNext ==
  \/ OpenFile \/ OpenFails \/ MapFails
  \/ Instructions \/ Constants \/ Strings \/ Types
  \/ UnknownSection \/ ReadOutside \/ EndOfSections

LoaderSpec == LoadInit /\ [][LoadNext]_loadVars

-----------------------------------------------------------------------------
LoadTypeOK ==
  /\ IsFile(file) /\ phase \in {"open", "parse", "run", "killed"}
  /\ i \in 1 .. Len(file) + 1 /\ offset \in Nat
  /\ sec \in [Kinds -> [cnt : Nat, data : Seq(Nat)]]
  /\ errno \in {0, 2} /\ failed \in BOOLEAN /\ reported \in BOOLEAN

(* The types section, which parse does not advance over, is not before the *)
(* k-th one.                                                               *)
BeforeTypes(k) == \A l \in 1 .. k - 1 : file[l].id # SECTION_TYPES

(* parse (loader.c) looks for a section where it is, the first types       *)
(* section included: the instruction section that falls through and the    *)
(* string sections with their two counts leave it in step with the file.   *)
(* (Behind the types it reads at a wrong place.)                           *)
InStep == phase = "parse" /\ i <= Len(file) /\ BeforeTypes(i) => InPlace

(* Which later section writes the fields section k has set.                *)
Overwrites(l, k) ==
  \/ file[l].id = file[k].id
  \/ file[l].id = SECTION_INSTRUCTIONS /\ file[k].id = SECTION_CINT

(* Where the count and the entries of a section are in the file.           *)
Content(s) ==
  [cnt  |-> s.cnt,
   data |-> IF HasStrings(s)
              THEN [j \in 1 .. s.cnt |-> s.start + 8 + 4 * s.cnt
                                         + IF j = 1 THEN 0 ELSE s.ends[j - 1]]
              ELSE <<s.start + 4>>]

(* When loading has succeeded, the interpreter has the count and the      *)
(* addresses of every section up to the types, unless a later section of   *)
(* the same kind, or instructions behind the integers, replaced them.      *)
(* Sections behind the types, read at a wrong place, spoil only their own  *)
(* kinds; where types come last, as the compiler writes them, none does.   *)
SectionsFound ==
  phase = "run" /\ ~failed =>
    \A k \in 1 .. Len(file) :
      BeforeTypes(k) /\ (\A l \in k + 1 .. Len(file) : ~Overwrites(l, k))
        => sec[file[k].id] = Content(file[k])

(* "Couldn't load file" (execute.c) when loading has failed.               *)
FailureReported == phase = "run" /\ failed => reported

=============================================================================
