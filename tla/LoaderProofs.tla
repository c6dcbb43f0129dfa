---------------------------- MODULE LoaderProofs -----------------------------
(***************************************************************************)
(* Proofs about Loader and Lifecycle for every set of files: parse stays in*)
(* step with a file up to its types, and what it finds there is not spoilt;*)
(* vm_init leaves a heap behind, or a message.                             *)
(***************************************************************************)
EXTENDS Lifecycle, TLAPS

(* What parse has found of the sections before i.                          *)
FoundBefore ==
  \A k \in 1 .. i - 1 :
    BeforeTypes(k) /\ (\A l \in k + 1 .. i - 1 : ~Overwrites(l, k))
      => sec[file[k].id] = Content(file[k])

Parsed ==
  /\ i \in Nat \ {0} /\ i <= Len(file) + 1
  /\ \A k \in 1 .. i - 1 : file[k].id \in Kinds
  /\ i <= Len(file) /\ BeforeTypes(i) => InPlace
  /\ FoundBefore

LoaderInv ==
  /\ IsFile(file) /\ DOMAIN sec = Kinds
  /\ phase = "open" => i = 1
  /\ phase = "parse" => Parsed
  /\ SectionsFound

LEMMA FileFacts ==
  ASSUME IsFile(file)
  PROVE  /\ Len(file) \in Nat
         /\ \A k \in 1 .. Len(file) :
              /\ file[k] \in Section
              /\ HasStrings(file[k]) => Len(file[k].ends) = file[k].cnt
              /\ k > 1 => file[k].start = file[k - 1].start + Extent(file[k - 1])
         /\ Len(file) > 0 => file[1].start = HeaderEnd(Len(file))
BY DEF IsFile

LEMMA InitInv == LoadInit => LoaderInv
BY LoaderAssumption DEF LoadInit, LoaderInv, SectionsFound

(* A case of parse that in step stores the content of section i, and       *)
(* advances by its extent unless it is of types, keeps parse in step; in   *)
(* step or not it writes the fields of its own kind.                       *)
LEMMA SectionParsed ==
  ASSUME LoaderInv, phase = "parse", i <= Len(file),
         file[i].id \in Kinds, UNCHANGED <<file, phase>>, i' = i + 1,
         DOMAIN sec' = Kinds,
         \A kind \in Kinds \ {file[i].id} :
           \/ sec'[kind] = sec[kind]
           \/ file[i].id = SECTION_INSTRUCTIONS /\ kind = SECTION_CINT,
         InPlace => /\ sec'[file[i].id] = Content(file[i])
                    /\ offset' = offset + Extent(file[i])
                       \/ file[i].id = SECTION_TYPES
  PROVE  LoaderInv'
<1>1. /\ IsFile(file) /\ i \in Nat \ {0} /\ Len(file) \in Nat
      /\ \A k \in 1 .. i - 1 : file[k].id \in Kinds
  BY FileFacts DEF LoaderInv, Parsed
<1>2. \A k \in 1 .. i' - 1 : file'[k].id \in Kinds
  BY <1>1
<1>3. ASSUME i' <= Len(file), BeforeTypes(i')
      PROVE  offset' = file[i + 1].start
  <2>1. i \in 1 .. i' - 1 /\ \A l \in 1 .. i - 1 : l \in 1 .. i' - 1
    BY <1>1
  <2>2. file[i].id # SECTION_TYPES /\ BeforeTypes(i)
    BY <1>3, <2>1 DEF BeforeTypes
  <2>3. InPlace
    BY <2>2 DEF LoaderInv, Parsed
  <2>4. offset' = file[i].start + Extent(file[i])
    BY <2>2, <2>3 DEF InPlace
  <2>5. i + 1 \in 1 .. Len(file) /\ i + 1 > 1 /\ (i + 1) - 1 = i
    BY <1>1, <1>3
  <2>6. file[i + 1].start = file[i].start + Extent(file[i])
    BY <1>1, <2>5, FileFacts
  <2> QED
    BY <2>4, <2>6
<1>4. ASSUME NEW k \in 1 .. i, BeforeTypes(k), \A l \in k + 1 .. i : ~Overwrites(l, k)
      PROVE  sec'[file[k].id] = Content(file[k])
  <2>1. CASE k = i
    BY <1>4, <2>1 DEF LoaderInv, Parsed
  <2>2. CASE k # i
    <3>1. k \in 1 .. i - 1 /\ i \in k + 1 .. i
      BY <1>1, <2>2
    <3>2. \A l \in k + 1 .. i - 1 : ~Overwrites(l, k)
      BY <1>1, <1>4
    <3>3. sec[file[k].id] = Content(file[k])
      BY <1>4, <3>1, <3>2 DEF LoaderInv, Parsed, FoundBefore
    <3>4. ~Overwrites(i, k)
      BY <1>4, <3>1
    <3>5. file[k].id \in Kinds \ {file[i].id}
      BY <1>1, <3>1, <3>4 DEF Overwrites
    <3>6. sec'[file[k].id] = sec[file[k].id]
      BY <3>4, <3>5 DEF Overwrites
    <3> QED
      BY <3>3, <3>6
  <2> QED
    BY <2>1, <2>2
<1>5. FoundBefore'
  <2>1. i' - 1 = i /\ file' = file
    BY <1>1
  <2>2. FoundBefore' <=>
          \A k \in 1 .. i' - 1 :
            BeforeTypes(k)' /\ (\A l \in k + 1 .. i' - 1 : ~Overwrites(l, k)')
              => sec'[file'[k].id] = Content(file'[k])
    BY DEF FoundBefore, Content, HasStrings
  <2>3. \A k, l : BeforeTypes(k)' = BeforeTypes(k) /\ Overwrites(l, k)' = Overwrites(l, k)
    BY <2>1 DEF BeforeTypes, Overwrites
  <2> QED
    BY <1>4, <2>1, <2>2, <2>3
<1>6. i' <= Len(file') /\ BeforeTypes(i)' => InPlace'
  BY <1>3 DEF BeforeTypes, InPlace
<1>7. Parsed'
  BY <1>1, <1>2, <1>5, <1>6 DEF Parsed
<1> QED
  BY <1>1, <1>7 DEF LoaderInv, SectionsFound

(* The three kinds of cases, in step with the file.                        *)
LEMMA InPlaceReading ==
  ASSUME InPlace, NEW r \in Readings
  PROVE  r = [cnt |-> file[i].cnt, ends |-> file[i].ends]
BY DEF Readings

LEMMA EntriesParsed ==
  ASSUME LoaderInv, Instructions \/ Constants \/ Types
  PROVE  LoaderInv'
<1>1. /\ phase = "parse" /\ i <= Len(file) /\ UNCHANGED <<file, phase>>
      /\ i' = i + 1 /\ file[i].id \in Kinds \ {SECTION_CSTR, SECTION_CKEY}
  BY DEF Instructions, Constants, Types, parsing, NextSection, NextHeader, Kinds,
         SECTION_INSTRUCTIONS, SECTION_CINT, SECTION_CFLOAT, SECTION_CSTR,
         SECTION_CKEY, SECTION_VTABLES, SECTION_TYPES
<1>2. \/ offset' = offset + (file[i].len + 4)
      \/ file[i].id = SECTION_TYPES
  BY DEF Instructions, Constants, Types, parsing, NextSection, EntriesAdvance
<1>3. PICK r \in Readings :
        \/ sec' = [sec EXCEPT ![file[i].id] = Entries(r)]
        \/ /\ file[i].id = SECTION_INSTRUCTIONS
           /\ sec' = [sec EXCEPT ![file[i].id] = Entries(r), ![SECTION_CINT] = Entries(r)]
  BY DEF Instructions, Constants, Types, parsing
<1>4. i \in 1 .. Len(file) /\ file[i] \in Section
  BY <1>1, FileFacts DEF LoaderInv, Parsed
<1>5. ~HasStrings(file[i]) /\ Extent(file[i]) = file[i].len + 4
  BY <1>1, <1>4 DEF HasStrings, Extent, Section
<1>6. DOMAIN sec = Kinds /\ DOMAIN sec' = Kinds
  BY <1>3 DEF LoaderInv
<1>7. InPlace => Entries(r) = Content(file[i])
  BY <1>5, InPlaceReading DEF Entries, Content, InPlace
<1>8. /\ sec'[file[i].id] = Entries(r)
      /\ \A kind \in Kinds \ {file[i].id} :
           \/ sec'[kind] = sec[kind]
           \/ file[i].id = SECTION_INSTRUCTIONS /\ kind = SECTION_CINT
  BY <1>1, <1>3, <1>6 DEF SECTION_INSTRUCTIONS, SECTION_CINT
<1> QED
  BY <1>1, <1>2, <1>5, <1>6, <1>7, <1>8, SectionParsed

LEMMA StringsParsed ==
  ASSUME LoaderInv, Strings
  PROVE  LoaderInv'
<1>1. /\ phase = "parse" /\ i <= Len(file) /\ UNCHANGED <<file, phase>>
      /\ i' = i + 1 /\ file[i].id \in {SECTION_CSTR, SECTION_CKEY}
  BY DEF Strings, parsing, NextSection, NextHeader
<1>2. file[i].id \in Kinds /\ HasStrings(file[i])
  BY <1>1 DEF Kinds, SECTION_CSTR, SECTION_CKEY, HasStrings
<1>3. PICK r \in Readings :
        /\ sec' = [sec EXCEPT ![file[i].id] =
                     [cnt |-> r.cnt,
                      data |-> [j \in 1 .. r.cnt |->
                                  offset + 8 + 4 * r.cnt + charskip(r, j)]]]
        /\ offset' = offset + StringsAdvance(r)
  BY DEF Strings, NextSection
<1>4. DOMAIN sec = Kinds /\ DOMAIN sec' = Kinds
  BY <1>3 DEF LoaderInv
<1>5. ASSUME InPlace
      PROVE  /\ sec'[file[i].id] = Content(file[i])
             /\ offset' = offset + Extent(file[i])
  <2>1. r.cnt = file[i].cnt /\ r.ends = file[i].ends
    BY <1>5, InPlaceReading
  <2>2. offset = file[i].start
    BY <1>5 DEF InPlace
  <2> QED
    BY <1>2, <1>3, <1>4, <2>1, <2>2 DEF Content, Extent, charskip, StringsAdvance
<1>6. \A kind \in Kinds \ {file[i].id} : sec'[kind] = sec[kind]
  BY <1>3, <1>4
<1> QED
  BY <1>1, <1>2, <1>4, <1>5, <1>6, SectionParsed

LEMMA StepInv ==
  ASSUME LoaderInv, [LoadNext]_loadVars
  PROVE  LoaderInv'
<1>1. CASE OpenFile
  <2>1. /\ i = 1 /\ i' = 1 /\ UNCHANGED <<file, sec>> /\ phase' = "parse"
        /\ offset' = HeaderEnd(Len(file)) /\ IsFile(file) /\ Len(file) \in Nat
    BY <1>1, FileFacts DEF OpenFile, LoaderInv
  <2>2. Parsed'
    BY <2>1, FileFacts DEF Parsed, InPlace, FoundBefore, BeforeTypes
  <2> QED
    BY <2>1, <2>2 DEF LoaderInv, SectionsFound
<1>2. CASE OpenFails
  BY <1>2 DEF OpenFails, Return, LoaderInv, SectionsFound
<1>3. CASE MapFails \/ ReadOutside
  BY <1>3 DEF MapFails, ReadOutside, LoaderInv, SectionsFound
<1>4. CASE Instructions \/ Constants \/ Types
  BY <1>4, EntriesParsed
<1>5. CASE Strings
  BY <1>5, StringsParsed
<1>6. CASE UnknownSection
  BY <1>6 DEF UnknownSection, Return, LoaderInv, SectionsFound
<1>7. CASE EndOfSections
  <2>1. /\ phase = "parse" /\ i > Len(file) /\ phase' = "run"
        /\ UNCHANGED <<file, i, sec>> /\ Parsed /\ IsFile(file) /\ Len(file) \in Nat
    BY <1>7, FileFacts DEF EndOfSections, Return, LoaderInv
  <2>2. i - 1 = Len(file)
    BY <2>1 DEF Parsed
  <2>3. \A k \in 1 .. Len(file) :
          BeforeTypes(k) /\ (\A l \in k + 1 .. Len(file) : ~Overwrites(l, k))
            => sec[file[k].id] = Content(file[k])
    BY <2>1, <2>2 DEF Parsed, FoundBefore
  <2>4. SectionsFound'
    BY <2>1, <2>3 DEF SectionsFound, BeforeTypes, Overwrites
  <2> QED
    BY <2>1, <2>4 DEF LoaderInv
<1>8. CASE UNCHANGED loadVars
  BY <1>8 DEF loadVars, LoaderInv, Parsed, BeforeTypes, InPlace, FoundBefore,
              Overwrites, SectionsFound
<1> QED
  BY <1>1, <1>2, <1>3, <1>4, <1>5, <1>6, <1>7, <1>8 DEF LoadNext

(* For every set of files: parse (loader.c) reads the count of each section*)
(* with no types before it at the section's own place.                     *)
THEOREM LoaderInStep == LoaderSpec => []InStep
<1>1. LoaderInv => InStep
  BY DEF LoaderInv, Parsed, InStep
<1> QED
  BY <1>1, InitInv, StepInv, PTL DEF LoaderSpec

(* For every set of files: a load (loader.c) that succeeds gives the       *)
(* interpreter every section up to the types that no later one has         *)
(* replaced, whatever is read behind the types.                            *)
THEOREM LoaderFindsSections == LoaderSpec => []SectionsFound
<1>1. LoaderInv => SectionsFound
  BY DEF LoaderInv
<1> QED
  BY <1>1, InitInv, StepInv, PTL DEF LoaderSpec

-----------------------------------------------------------------------------
(* Types.                                                                  *)

(* What is read of a section, wherever it is read.                         *)
LEMMA ReadingType ==
  ASSUME LoadTypeOK, i <= Len(file), NEW r \in Readings
  PROVE  /\ r.cnt \in Nat
         /\ HasStrings(file[i]) => /\ \A j \in 1 .. r.cnt : r.ends[j] \in Nat
                                   /\ LastEnd(r.ends) \in Nat
<1>1. Len(file) \in Nat /\ i \in 1 .. Len(file) /\ IsFile(file)
  BY FileFacts DEF LoadTypeOK
<1>2. /\ file[i] \in Section
      /\ HasStrings(file[i]) => Len(file[i].ends) = file[i].cnt
  BY <1>1, FileFacts
<1>3. file[i].cnt \in Nat /\ file[i].ends \in Seq(Nat)
  BY <1>2 DEF Section
<1>4. ASSUME NEW ends \in Seq(Nat) PROVE LastEnd(ends) \in Nat
  BY <1>4 DEF LastEnd
<1>5. CASE InPlace
  <2>1. r.cnt = file[i].cnt /\ r.ends = file[i].ends
    BY <1>5, InPlaceReading
  <2>2. HasStrings(file[i]) => \A j \in 1 .. r.cnt : r.ends[j] \in Nat
    BY <1>2, <1>3, <2>1
  <2> QED
    BY <1>3, <1>4, <2>1, <2>2
<1>6. CASE ~InPlace
  <2>1. PICK c \in Counts : r \in [cnt : {c}, ends : [1 .. c -> Counts]]
    BY <1>6 DEF Readings
  <2>2. c \in Nat /\ r.cnt = c /\ r.ends \in [1 .. c -> Counts] /\ Counts \subseteq Nat
    BY <2>1, LoaderAssumption
  <2>3. r.ends \in [1 .. c -> Nat]
    BY <2>2, Zenon
  <2>4. r.ends \in Seq(Nat) /\ \A j \in 1 .. c : r.ends[j] \in Nat
    <3>1. PICK e \in [1 .. c -> Nat] : e = r.ends
      BY <2>3
    <3>2. e \in Seq(Nat) /\ \A j \in 1 .. c : e[j] \in Nat
      BY <2>2
    <3> QED
      BY <3>1, <3>2
  <2> QED
    BY <1>4, <2>2, <2>4
<1> QED
  BY <1>5, <1>6

LEMMA SectionTyped ==
  ASSUME LoadTypeOK, Instructions \/ Constants \/ Strings \/ Types
  PROVE  LoadTypeOK'
<1>1. /\ phase = "parse" /\ i <= Len(file) /\ i' = i + 1
      /\ UNCHANGED <<file, phase, errno, failed, reported>>
  BY DEF Instructions, Constants, Strings, Types, parsing, NextSection, NextHeader
<1>2. /\ Len(file) \in Nat /\ i \in 1 .. Len(file) /\ file[i] \in Section
      /\ offset \in Nat
  BY <1>1, FileFacts DEF LoadTypeOK
<1>3. i' \in 1 .. Len(file') + 1
  BY <1>1, <1>2
<1>4. ASSUME NEW r \in Readings
      PROVE  Entries(r) \in [cnt : Nat, data : Seq(Nat)]
  BY <1>1, <1>2, <1>4, ReadingType DEF Entries
<1>5. CASE Instructions \/ Constants \/ Types
  <2>1. PICK r \in Readings :
          \/ sec' = [sec EXCEPT ![file[i].id] = Entries(r)]
          \/ sec' = [sec EXCEPT ![file[i].id] = Entries(r), ![SECTION_CINT] = Entries(r)]
    BY <1>5 DEF Instructions, Constants, Types, parsing
  <2>2. sec' \in [Kinds -> [cnt : Nat, data : Seq(Nat)]]
    BY <1>4, <2>1 DEF LoadTypeOK
  <2>3. offset' = offset + (file[i].len + 4) \/ offset' = offset + 0
    BY <1>5 DEF Instructions, Constants, Types, NextSection, EntriesAdvance
  <2>4. file[i].len \in Nat
    BY <1>2 DEF Section
  <2> QED
    BY <1>1, <1>2, <1>3, <2>2, <2>3, <2>4 DEF LoadTypeOK
<1>6. CASE Strings
  <2>1. PICK r \in Readings :
          /\ sec' = [sec EXCEPT ![file[i].id] =
                       [cnt  |-> r.cnt,
                        data |-> [j \in 1 .. r.cnt |->
                                    offset + 8 + 4 * r.cnt + charskip(r, j)]]]
          /\ offset' = offset + StringsAdvance(r)
    BY <1>6 DEF Strings, NextSection
  <2>2. HasStrings(file[i])
    BY <1>6 DEF Strings, parsing, HasStrings
  <2>3. /\ r.cnt \in Nat /\ LastEnd(r.ends) \in Nat
        /\ \A j \in 1 .. r.cnt : r.ends[j] \in Nat
    BY <1>1, <2>2, ReadingType
  <2>4. ASSUME NEW j \in 1 .. r.cnt PROVE charskip(r, j) \in Nat
    BY <2>3, <2>4 DEF charskip
  <2>5. [j \in 1 .. r.cnt |-> offset + 8 + 4 * r.cnt + charskip(r, j)] \in Seq(Nat)
    <3>1. PICK c \in Nat : c = r.cnt
      BY <2>3
    <3>2. \A j \in 1 .. c : offset + 8 + 4 * c + charskip(r, j) \in Nat
      BY <1>2, <2>4, <3>1
    <3>3. [j \in 1 .. c |-> offset + 8 + 4 * c + charskip(r, j)] \in [1 .. c -> Nat]
      BY <3>2
    <3>4. [1 .. c -> Nat] \subseteq Seq(Nat)
      OBVIOUS
    <3> QED
      BY <3>1, <3>3, <3>4
  <2>6. sec' \in [Kinds -> [cnt : Nat, data : Seq(Nat)]]
    BY <2>1, <2>3, <2>5 DEF LoadTypeOK
  <2>7. offset' \in Nat
    BY <1>2, <2>1, <2>3 DEF StringsAdvance
  <2> QED
    BY <1>1, <1>3, <2>6, <2>7 DEF LoadTypeOK
<1> QED
  BY <1>5, <1>6

LEMMA TypeInit == LoadInit => LoadTypeOK
<1> SUFFICES ASSUME LoadInit PROVE LoadTypeOK
  OBVIOUS
<1>1. IsFile(file) /\ Len(file) \in Nat
  <2>1. IsFile(file)
    BY LoaderAssumption DEF LoadInit
  <2> QED
    BY <2>1, FileFacts
<1>2. sec \in [Kinds -> [cnt : Nat, data : Seq(Nat)]]
  <2>1. Unset \in [cnt : Nat, data : Seq(Nat)]
    BY DEF Unset
  <2> QED
    BY <2>1 DEF LoadInit
<1>3. i \in 1 .. Len(file) + 1
  BY <1>1 DEF LoadInit
<1> QED
  BY <1>1, <1>2, <1>3 DEF LoadInit, LoadTypeOK

LEMMA TypeStep == LoadTypeOK /\ [LoadNext]_loadVars => LoadTypeOK'
<1> SUFFICES ASSUME LoadTypeOK, [LoadNext]_loadVars PROVE LoadTypeOK'
  OBVIOUS
<1>1. CASE OpenFile
  BY <1>1, FileFacts DEF OpenFile, LoadTypeOK, HeaderEnd
<1>2. CASE OpenFails \/ UnknownSection \/ EndOfSections
  <2>1. /\ UNCHANGED <<file, i, offset, sec>> /\ errno' \in {0, 2} /\ phase' = "run"
        /\ failed' \in BOOLEAN /\ reported' \in BOOLEAN
    BY <1>2 DEF OpenFails, UnknownSection, EndOfSections, Return, LoadTypeOK
  <2> QED
    BY <2>1 DEF LoadTypeOK
<1>3. CASE MapFails \/ ReadOutside \/ UNCHANGED loadVars
  BY <1>3 DEF MapFails, ReadOutside, loadVars, LoadTypeOK
<1>4. CASE Instructions \/ Constants \/ Strings \/ Types
  BY <1>4, SectionTyped
<1> QED
  BY <1>1, <1>2, <1>3, <1>4 DEF LoadNext

(* For every set of files, and whatever parse reads at a wrong place: what *)
(* it stores are counts and addresses.                                     *)
THEOREM LoaderTyped == LoaderSpec => []LoadTypeOK
BY TypeInit, TypeStep, PTL DEF LoaderSpec

-----------------------------------------------------------------------------
(* vm_init.                                                                *)

Needed  == {"arena", "obj_chain", "thread", "obj_fmt", "amc", "amcz"}
Buffers == {"slots.data", "stack.data"}

(* What the steps done have left, and what later ones could count on.      *)
StepsDone ==
  /\ tried \in 0 .. Len(Steps)
  /\ have \cup printed \subseteq {Steps[k].makes : k \in 1 .. tried}
  /\ have \cap printed = {}
  /\ \A k \in 1 .. tried :
       /\ Steps[k].needs \subseteq have
       /\ Steps[k].tests => Steps[k].makes \in have \cup printed
  /\ status = "run" => tried = Len(Steps)

LoadDone ==
  /\ phase \in {"open", "parse"} => errno = 0 /\ ~failed /\ ~reported
  /\ phase = "open" \/ reported => sec = [kind \in Kinds |-> Unset]
  /\ phase \in {"open", "parse"} => i \in Nat \ {0}
  /\ reported => failed
  /\ failed /\ ~reported => \E k \in 1 .. Len(file) : file[k].id \notin Kinds

(* A step makes a resource of its own, and tests unless it is a buffer.    *)
LEMMA StepFacts ==
  /\ Len(Steps) = 12
  /\ \A k, l \in 1 .. 12 : Steps[k].makes = Steps[l].makes => k = l
  /\ \A k \in 1 .. 12 : Steps[k].tests \/ Steps[k].makes \in Buffers
BY DEF Steps, Step, Buffers

(* Every resource of Needed is needed by some step.                        *)
LEMMA NeededBySteps ==
  ASSUME NEW H, \A k \in 1 .. 12 : Steps[k].needs \subseteq H
  PROVE  Needed \subseteq H
<1>1. /\ Steps[4].needs = {"arena", "thread"} /\ Steps[6].needs = pool_needs
      /\ Steps[7].needs = {"amc"} /\ Steps[9].needs = {"amcz"}
  BY DEF Steps, Step
<1>2. Steps[4].needs \cup Steps[6].needs \cup Steps[7].needs \cup Steps[9].needs \subseteq H
  OBVIOUS
<1> QED BY <1>1, <1>2 DEF Needed, pool_needs

LEMMA StepsInit == StartInit => StepsDone
BY StepFacts DEF StartInit, LifeInit, StepsDone

LEMMA StepsNext == StepsDone /\ [StartNext]_startVars => StepsDone'
<1> SUFFICES ASSUME StepsDone, [StartNext]_startVars PROVE StepsDone' OBVIOUS
<1> USE StepFacts
<1>1. ASSUME starting, tried < Len(Steps), step.needs \subseteq have,
             tried' = tried + 1, status' = status,
             \/ have' = have \cup {step.makes} /\ printed' = printed
             \/ have' = have /\ printed' = printed \cup {step.makes} /\ step.tests
             \/ have' = have /\ printed' = printed /\ ~step.tests
      PROVE  StepsDone'
  <2>1. /\ tried + 1 \in 1 .. 12 /\ tried' \in 0 .. 12
        /\ \A k \in 1 .. tried' : k \in 1 .. tried \/ k = tried + 1
        /\ \A k \in 1 .. tried : k \in 1 .. tried' /\ k \in 1 .. 12 /\ k # tried + 1
        /\ tried + 1 \in 1 .. tried'
    BY <1>1 DEF StepsDone
  <2>2. step.makes \notin have \cup printed
    BY <2>1 DEF StepsDone, step
  <2>3. have' \cup printed' \subseteq {Steps[k].makes : k \in 1 .. tried'}
    <3>1. have' \cup printed' \subseteq have \cup printed \cup {step.makes}
      BY <1>1
    <3>2. step.makes \in {Steps[k].makes : k \in 1 .. tried'}
      BY <2>1 DEF step
    <3>3. have \cup printed \subseteq {Steps[k].makes : k \in 1 .. tried'}
      BY <2>1 DEF StepsDone
    <3> QED BY <3>1, <3>2, <3>3
  <2>4. have' \cap printed' = {}
    BY <1>1, <2>2 DEF StepsDone
  <2>5. have \subseteq have' /\ printed \subseteq printed'
    BY <1>1
  <2>6. ASSUME NEW k \in 1 .. tried'
        PROVE  /\ Steps[k].needs \subseteq have'
               /\ Steps[k].tests => Steps[k].makes \in have' \cup printed'
    <3>1. CASE k \in 1 .. tried
      BY <3>1, <2>5 DEF StepsDone
    <3>2. CASE k = tried + 1
      BY <3>2, <1>1 DEF step
    <3> QED BY <3>1, <3>2, <2>1
  <2>7. status' # "run"
    BY <1>1 DEF starting
  <2> QED BY <2>1, <2>3, <2>4, <2>6, <2>7 DEF StepsDone
<1>2. CASE Created
  BY <1>1, <1>2 DEF Created
<1>3. CASE Failed
  BY <1>1, <1>3 DEF Failed
<1>4. CASE UsesNull
  BY <1>4 DEF UsesNull, StepsDone
<1>5. CASE Started
  BY <1>5 DEF Started, StepsDone
<1>6. CASE DiesAtOnce
  BY <1>6 DEF DiesAtOnce, StepsDone
<1>7. CASE UNCHANGED lifeVars
  BY <1>7 DEF lifeVars, StepsDone
<1> QED
  BY <1>2, <1>3, <1>4, <1>5, <1>6, <1>7 DEF StartNext, LifeNext, startVars

LEMMA LoadDoneInit == StartInit => LoadDone
BY DEF StartInit, LoadInit, LoadDone

LEMMA LoadDoneNext == LoadDone /\ [StartNext]_startVars => LoadDone'
<1> SUFFICES ASSUME LoadDone, [StartNext]_startVars PROVE LoadDone' OBVIOUS
<1>1. CASE OpenFile
  BY <1>1 DEF OpenFile, LoadDone
<1>2. CASE OpenFails
  <2>1. /\ phase = "open" /\ phase' = "run" /\ failed' /\ reported'
        /\ sec' = sec
    <3>1. /\ phase = "open" /\ phase' = "run" /\ sec' = sec
          /\ errno' = 2 /\ failed' = TRUE /\ reported' = (errno' # 0)
      BY <1>2, Zenon DEF OpenFails, Return
    <3>2. (errno' # 0) = TRUE
      BY <3>1
    <3> QED BY <3>1, <3>2, Zenon
  <2> QED BY <2>1 DEF LoadDone
<1>3. CASE MapFails
  BY <1>3 DEF MapFails, LoadDone
<1>4. CASE Instructions \/ Constants \/ Strings \/ Types
  <2>1. /\ phase = "parse" /\ phase' = "parse" /\ i' = i + 1
        /\ UNCHANGED <<file, errno, failed, reported>>
    BY <1>4 DEF Instructions, Constants, Strings, Types, NextSection, NextHeader, parsing
  <2> QED BY <2>1 DEF LoadDone
<1>5. CASE UnknownSection
  <2>1. /\ phase = "parse" /\ i <= Len(file) /\ file[i].id \in Nat \ Kinds
        /\ phase' = "run" /\ failed' /\ reported' = FALSE
        /\ UNCHANGED <<file, sec, errno>>
    BY <1>5 DEF UnknownSection, Return, parsing, LoadDone
  <2>2. i \in Nat \ {0}
    BY <2>1 DEF LoadDone
  <2>3. Len(file) \in Nat => i \in 1 .. Len(file)
    BY <2>1, <2>2
  <2> QED BY <2>1, <2>3 DEF LoadDone
<1>6. CASE ReadOutside
  BY <1>6 DEF ReadOutside, parsing, LoadDone
<1>7. CASE EndOfSections
  BY <1>7 DEF EndOfSections, Return, LoadDone
<1>8. CASE UNCHANGED loadVars
  BY <1>8 DEF loadVars, LoadDone
<1> QED
  BY <1>1, <1>2, <1>3, <1>4, <1>5, <1>6, <1>7, <1>8 DEF StartNext, LoadNext, startVars

-----------------------------------------------------------------------------
(* The interpreter only starts with a heap (vm_init in vm.c), whatever     *)
(* has failed.                                                             *)
THEOREM HeapWhenStarted == StartSpec => []StartedComplete
<1>1. StepsDone => StartedComplete
  BY StepFacts, NeededBySteps DEF StepsDone, StartedComplete, Needed
<1> QED BY <1>1, StepsInit, StepsNext, PTL DEF StartSpec

(* Every failure before the first instruction is printed, but an unknown   *)
(* section (loader.c) and a buffer malloc refuses (slots.c, stack.c).      *)
THEOREM FewSilentFailures == StartSpec => []SilentFailures
<1>1. ASSUME StepsDone, LoadDone, status = "run" PROVE SilentFailures
  <2>1. tried = 12 /\ 1 .. tried = 1 .. Len(Steps)
    BY <1>1, StepFacts DEF StepsDone
  <2>2. ASSUME NEW k \in 1 .. Len(Steps), Steps[k].makes \notin have
        PROVE  Steps[k].makes \in printed \cup Buffers
    BY <1>1, <2>1, <2>2, StepFacts DEF StepsDone
  <2>3. {Steps[k].makes : k \in 1 .. Len(Steps)} \ have \subseteq printed \cup Buffers
    BY <2>2
  <2>4. printed \cap have = {}
    BY <1>1 DEF StepsDone
  <2>5. /\ failed /\ ~reported => \E k \in 1 .. Len(file) : file[k].id \notin Kinds
        /\ reported => failed /\ sec = [kind \in Kinds |-> Unset]
    BY <1>1 DEF LoadDone
  <2> QED BY <2>3, <2>4, <2>5 DEF SilentFailures, Buffers
<1>2. StepsDone /\ LoadDone => SilentFailures
  BY <1>1 DEF SilentFailures
<1> QED
  BY <1>2, StepsInit, StepsNext, LoadDoneInit, LoadDoneNext, PTL DEF StartSpec

(* With vm_init (vm.c) behind it the loader (loader.c) does what it does   *)
(* by itself: the interpreter gets its sections, and they are counts and   *)
(* addresses.                                                              *)
THEOREM StartFindsSections == StartSpec => [](LoadTypeOK /\ InStep /\ SectionsFound)
<1>1. StartInit => LoadInit
  BY DEF StartInit
<1>2. [StartNext]_startVars => [LoadNext]_loadVars
  BY DEF StartNext, startVars
<1> QED
  BY <1>1, <1>2, LoaderTyped, LoaderInStep, LoaderFindsSections, PTL
     DEF StartSpec, LoaderSpec

=============================================================================
