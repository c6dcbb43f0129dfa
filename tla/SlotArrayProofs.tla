--------------------------- MODULE SlotArrayProofs ---------------------------
(***************************************************************************)
(* Proofs about SlotArray for every choice of capacities, indices, words   *)
(* and addresses: the buffer invariant, the roots, and that the buffers    *)
(* implement SlotMemory.                                                   *)
(***************************************************************************)
EXTENDS SlotArray, TLAPS

SlotArrayInv == SlotsTypeOK /\ BufferSound /\ GrowthSound

LEMMA Sizes ==
  ASSUME SlotArrayInv
  PROVE  /\ size \in Nat /\ capacity \in Nat \ {0} /\ size <= capacity
         /\ todo.index \in Nat /\ todo.from \in Nat /\ todo.value \in Cell
BY SlotArrayAssumption DEF SlotArrayInv, SlotsTypeOK, BufferSound

(* Halving (slots_half_capacity): the half of a capacity other than the    *)
(* initial one is a capacity again, and the words in use fit in it.        *)
LEMMA HalvingFits ==
  ASSUME SlotArrayInv, Sparse
  PROVE  /\ capacity \div 2 \in Capacities
         /\ size <= capacity \div 2
<1>1. PICK h \in Capacities : capacity = 2 * h
  BY SlotArrayAssumption DEF SlotArrayInv, SlotsTypeOK, Sparse
<1>2. h \in Nat /\ capacity \div 2 = h
  BY <1>1, SlotArrayAssumption
<1>3. size \in Nat /\ 3 * h >= 5 * size
  BY <1>2 DEF SlotArrayInv, SlotsTypeOK, Sparse
<1> QED
  BY <1>1, <1>2, <1>3

(* A resized buffer holds the words in use; the rest is malloc's.          *)
LEMMA ResizedWords ==
  ASSUME SlotArrayInv, NEW c \in Capacities, size <= c
  PROVE  /\ Resized(c) \in [0 .. c - 1 -> Cell \cup {Garbage}]
         /\ \A j \in 0 .. size - 1 : Resized(c)[j] = data[j] /\ data[j] \in Cell
<1>1. c \in Nat /\ size \in Nat
  BY SlotArrayAssumption DEF SlotArrayInv, SlotsTypeOK
<1>2. \A j \in 0 .. size - 1 : data[j] \in Cell
  BY DEF SlotArrayInv, BufferSound
<1>3. \A j \in 0 .. c - 1 :
        Resized(c)[j] = IF j < size THEN data[j] ELSE Garbage
  BY DEF Resized, Malloc
<1>4. \A j \in 0 .. c - 1 : Resized(c)[j] \in Cell \cup {Garbage}
  BY <1>1, <1>2, <1>3
<1>5. Resized(c) \in [0 .. c - 1 -> Cell \cup {Garbage}]
  BY <1>4 DEF Resized
<1> QED
  BY <1>1, <1>2, <1>3, <1>5

LEMMA InitSound == SlotsInit => SlotArrayInv
<1> SUFFICES ASSUME SlotsInit PROVE SlotArrayInv
  OBVIOUS
<1>1. InitialCapacity \in Nat \ {0} /\ InitialCapacity \in Capacities
  BY SlotArrayAssumption
<1>2. data \in [0 .. InitialCapacity - 1 -> Cell \cup {Garbage}]
  BY DEF SlotsInit, Malloc
<1>3. roots \subseteq Root /\ root_o \in Root \cup {Garbage}
  BY <1>1 DEF SlotsInit, RootOf, covered, Root
<1>4. SlotsTypeOK
  BY <1>1, <1>2, <1>3, SlotArrayAssumption DEF SlotsInit, SlotsTypeOK, Idle, NoResize
<1>5. BufferSound /\ GrowthSound
  BY <1>1, <1>2 DEF SlotsInit, BufferSound, GrowthSound, Idle, NoResize
<1> QED
  BY <1>4, <1>5 DEF SlotArrayInv

(* The first step of a resize, whichever instruction asks for it.          *)
LEMMA ResizeSound ==
  ASSUME SlotArrayInv, NEW c \in Capacities, size <= c,
         ended = "no", Resize(c) \/ NoMemory,
         UNCHANGED <<size, addr, data, rootVars, got>>,
         todo'.op # "none" => todo'.index \in Index,
         todo' \in [op : {"none", "get", "set"}, index : Nat, value : Cell, from : Nat],
         todo'.op = "set" => todo' = todo
  PROVE  SlotArrayInv'
<1>1. /\ ended' # "bounds" /\ ended' \in {"no", "bounds", "killed", "wild"}
      /\ capacity' \in Capacities /\ size <= capacity'
      /\ resizing' \in [at : {"no", "register", "replace", "destroy"},
                       data : Addresses \cup {Garbage},
                       old : Root \cup {Garbage}, new : Root \cup {Garbage}]
      /\ resizing'.at # "no" => resizing'.data \in Addresses
      /\ resizing'.at \in {"no", "destroy"} =>
           resizing' = resizing /\ capacity' = capacity
  BY DEF SlotArrayInv, SlotsTypeOK, BufferSound, Resize, NoMemory
<1>2. SlotsTypeOK'
  BY <1>1 DEF SlotArrayInv, SlotsTypeOK, rootVars
<1>3. BufferSound'
  BY <1>1 DEF SlotArrayInv, BufferSound
<1>4. GrowthSound'
  BY <1>1 DEF SlotArrayInv, GrowthSound
<1> QED
  BY <1>2, <1>3, <1>4 DEF SlotArrayInv

(* A read returns a word that has been written, or ends the program.       *)
LEMMA ReadSound ==
  ASSUME SlotArrayInv, NEW i \in Nat, Read(i), ended = "no",
         UNCHANGED <<bufferVars, rootVars, resizing>>,
         todo' \in [op : {"none", "get", "set"}, index : Nat, value : Cell, from : Nat],
         todo'.op = "none"
  PROVE  SlotArrayInv'
<1>1. size \in Nat
  BY Sizes
<1>2. got' \in Cell \cup {Garbage} /\ ended' \in {"no", "bounds", "killed", "wild"}
  <2>1. CASE i >= size
    BY <2>1 DEF Read, SlotArrayInv, SlotsTypeOK
  <2>2. CASE ~(i >= size)
    <3>1. i \in 0 .. size - 1
      BY <1>1, <2>2
    <3> QED
      BY <2>2, <3>1 DEF Read, SlotArrayInv, BufferSound
  <2> QED
    BY <2>1, <2>2
<1>3. SlotsTypeOK'
  BY <1>2 DEF SlotArrayInv, SlotsTypeOK, bufferVars, rootVars
<1>4. BufferSound'
  BY DEF SlotArrayInv, BufferSound, bufferVars
<1>5. GrowthSound'
  BY DEF GrowthSound
<1> QED
  BY <1>3, <1>4, <1>5 DEF SlotArrayInv

LEMMA IdleTyped ==
  /\ Idle \in [op : {"none", "get", "set"}, index : Nat, value : Cell, from : Nat]
  /\ Idle.op = "none"
BY SlotArrayAssumption DEF Idle

LEMMA GetSound ==
  ASSUME SlotArrayInv, NEW i \in Index, slots_get(i)
  PROVE  SlotArrayInv'
<1>1. i \in Nat /\ ended = "no" /\ todo = Idle
  BY SlotArrayAssumption DEF slots_get, calm, running
<1>2. CASE Sparse
  <2>1. capacity \div 2 \in Capacities /\ size <= capacity \div 2
    BY <1>2, HalvingFits
  <2>2. /\ Resize(capacity \div 2) \/ NoMemory
        /\ UNCHANGED <<size, addr, data, rootVars, got>>
        /\ todo' = [Idle EXCEPT !.op = "get", !.index = i]
    BY <1>2 DEF slots_get
  <2>3. /\ todo' \in [op : {"none", "get", "set"}, index : Nat, value : Cell, from : Nat]
        /\ todo'.op = "get" /\ todo'.index = i
    BY <1>1, <2>2, SlotArrayAssumption DEF Idle
  <2> HIDE DEF Resize
  <2> QED
    BY <1>1, <2>1, <2>2, <2>3, ResizeSound
<1>3. CASE ~Sparse
  <2>1. Read(i) /\ todo' = todo /\ UNCHANGED <<bufferVars, rootVars, resizing>>
    BY <1>3 DEF slots_get, bufferVars
  <2> QED
    BY <1>1, <2>1, IdleTyped, ReadSound
<1> QED
  BY <1>2, <1>3

LEMMA GetReadsSound ==
  ASSUME SlotArrayInv, GetReads
  PROVE  SlotArrayInv'
BY Sizes, IdleTyped, ReadSound DEF GetReads, running

LEMMA AppendSound ==
  ASSUME SlotArrayInv, slots_append
  PROVE  SlotArrayInv'
<1>1. /\ size \in Nat /\ capacity \in Nat \ {0} /\ size <= capacity
      /\ todo.index \in Nat /\ todo.from \in Nat
  BY Sizes
<1>2. /\ running /\ todo.op = "set" /\ todo.index >= size
      /\ UNCHANGED <<addr, rootVars, todo, got>>
  BY DEF slots_append, growing
<1>3. CASE full
  <2>1. /\ (2 * capacity \in Capacities /\ Resize(2 * capacity)) \/ NoMemory
        /\ UNCHANGED <<size, addr, data, rootVars, got>> /\ todo' = todo
    BY <1>2, <1>3 DEF slots_append
  <2>2. PICK c \in Capacities : size <= c /\ (Resize(c) \/ NoMemory)
    <3>1. CASE 2 * capacity \in Capacities /\ Resize(2 * capacity)
      BY <1>1, <3>1
    <3>2. CASE NoMemory
      <4>1. capacity \in Capacities
        BY DEF SlotArrayInv, SlotsTypeOK
      <4> QED
        BY <1>1, <3>2, <4>1
    <3> QED
      BY <2>1, <3>1, <3>2
  <2>3. /\ todo' \in [op : {"none", "get", "set"}, index : Nat, value : Cell, from : Nat]
        /\ todo'.op # "none" => todo'.index \in Index
        /\ ended = "no"
    BY <1>2, <2>1 DEF SlotArrayInv, SlotsTypeOK, GrowthSound, running
  <2> QED
    BY <2>1, <2>2, <2>3, ResizeSound
<1>4. CASE ~full
  <2>1. /\ size < capacity /\ data' = [data EXCEPT ![size] = NilCell]
        /\ size' = size + 1 /\ UNCHANGED <<capacity, resizing, ended>>
    BY <1>1, <1>4 DEF slots_append, full, appended
  <2>2. DOMAIN data = 0 .. capacity - 1
    BY <1>2 DEF running, SlotArrayInv, BufferSound
  <2>3. data \in [0 .. capacity - 1 -> Cell \cup {Garbage}]
    BY <2>2 DEF SlotArrayInv, SlotsTypeOK
  <2>4. /\ data' \in [0 .. capacity - 1 -> Cell \cup {Garbage}]
        /\ \A j \in 0 .. size - 1 : data'[j] = data[j] /\ data'[j] \in Cell
        /\ data'[size] = NilCell
    BY <1>1, <2>1, <2>3, SlotArrayAssumption DEF SlotArrayInv, BufferSound
  <2>5. capacity \in Capacities /\ DOMAIN data' = 0 .. capacity - 1
    BY <2>4 DEF SlotArrayInv, SlotsTypeOK
  <2>6. SlotsTypeOK'
    BY <1>1, <1>2, <2>1, <2>4, <2>5 DEF SlotArrayInv, SlotsTypeOK, rootVars
  <2>7. BufferSound'
    <3>1. \A j \in 0 .. size : j \in 0 .. capacity - 1 /\ data'[j] \in Cell
      BY <1>1, <2>1, <2>4, SlotArrayAssumption
    <3> QED
      BY <1>1, <2>1, <2>5, <3>1 DEF BufferSound
  <2>8. GrowthSound'
    BY <1>1, <1>2, <2>1, <2>4 DEF SlotArrayInv, GrowthSound, LongerOf
  <2> QED
    BY <2>6, <2>7, <2>8 DEF SlotArrayInv
<1> QED
  BY <1>3, <1>4

LEMMA StoreSound ==
  ASSUME SlotArrayInv, SlotsStore
  PROVE  SlotArrayInv'
<1>1. /\ size \in Nat /\ todo.index \in Nat /\ todo.value \in Cell
      /\ todo.index < size
      /\ data' = [data EXCEPT ![todo.index] = todo.value]
      /\ todo' = Idle
      /\ UNCHANGED <<size, capacity, addr, rootVars, resizing, got, ended>>
  BY Sizes DEF SlotsStore, growing
<1>2. /\ DOMAIN data' = DOMAIN data
      /\ \A j \in DOMAIN data : data'[j] = IF j = todo.index THEN todo.value ELSE data[j]
  BY <1>1 DEF SlotArrayInv, SlotsTypeOK
<1>3. \E c \in Capacities : data' \in [0 .. c - 1 -> Cell \cup {Garbage}]
  BY <1>1 DEF SlotArrayInv, SlotsTypeOK
<1>4. SlotsTypeOK'
  BY <1>1, <1>3, IdleTyped DEF SlotArrayInv, SlotsTypeOK, rootVars
<1>5. BufferSound'
  BY <1>1, <1>2 DEF SlotArrayInv, BufferSound
<1>6. GrowthSound'
  BY <1>1, IdleTyped DEF GrowthSound
<1> QED
  BY <1>4, <1>5, <1>6 DEF SlotArrayInv

LEMMA SetSound ==
  ASSUME SlotArrayInv, NEW i \in Index, NEW v \in Cell, slots_set(i, v)
  PROVE  SlotArrayInv'
<1>1. /\ size \in Nat /\ i \in Nat /\ ended = "no"
      /\ todo' = [op |-> "set", index |-> i, value |-> v, from |-> size]
      /\ UNCHANGED <<bufferVars, rootVars, resizing, got, ended>>
  BY Sizes, SlotArrayAssumption DEF slots_set, calm, running
<1>2. SlotsTypeOK'
  BY <1>1 DEF SlotArrayInv, SlotsTypeOK, bufferVars, rootVars
<1>3. BufferSound'
  BY <1>1 DEF SlotArrayInv, BufferSound, bufferVars
<1>4. GrowthSound'
  BY <1>1 DEF GrowthSound, LongerOf, bufferVars
<1> QED
  BY <1>2, <1>3, <1>4 DEF SlotArrayInv

LEMMA TruncateSound ==
  ASSUME SlotArrayInv, NEW n \in Index, RetTruncate(n)
  PROVE  SlotArrayInv'
<1>1. /\ size \in Nat /\ capacity \in Nat /\ n \in Nat /\ n < size
      /\ todo = Idle /\ size' = n
      /\ UNCHANGED <<capacity, addr, data, rootVars, resizing, todo, got, ended>>
  BY Sizes, SlotArrayAssumption DEF RetTruncate, calm
<1>2. SlotsTypeOK'
  BY <1>1 DEF SlotArrayInv, SlotsTypeOK, rootVars
<1>3. BufferSound'
  BY <1>1 DEF SlotArrayInv, BufferSound
<1>4. GrowthSound'
  BY <1>1, IdleTyped DEF GrowthSound
<1> QED
  BY <1>2, <1>3, <1>4 DEF SlotArrayInv

LEMMA RegisterSound ==
  ASSUME SlotArrayInv, Register
  PROVE  SlotArrayInv'
<1>1. /\ UNCHANGED <<bufferVars, root_o, todo, got, ended>>
      /\ resizing.at = "register" /\ resizing.data \in Addresses
  BY DEF Register, SlotArrayInv, SlotsTypeOK
<1>2. RootOf(resizing.data, covered) \in Root
  BY <1>1, Sizes DEF covered, RootOf, Root
<1>3. /\ resizing'.at = "replace" /\ resizing'.data = resizing.data
      /\ resizing' \in [at : {"no", "register", "replace", "destroy"},
                       data : Addresses \cup {Garbage},
                       old : Root \cup {Garbage}, new : Root \cup {Garbage}]
      /\ printed' \in BOOLEAN /\ roots' \subseteq Root
  BY <1>1, <1>2 DEF Register, registered, SlotArrayInv, SlotsTypeOK
<1>4. SlotsTypeOK'
  BY <1>1, <1>3 DEF SlotArrayInv, SlotsTypeOK, bufferVars
<1>5. BufferSound' /\ GrowthSound'
  BY <1>1, <1>3 DEF SlotArrayInv, BufferSound, GrowthSound, bufferVars
<1> QED
  BY <1>4, <1>5 DEF SlotArrayInv

LEMMA ReplaceSound ==
  ASSUME SlotArrayInv, Replace
  PROVE  SlotArrayInv'
<1>1. capacity \in Capacities /\ size \in Nat /\ capacity \in Nat /\ size <= capacity
  BY Sizes DEF SlotArrayInv, SlotsTypeOK
<1>2. /\ Resized(capacity) \in [0 .. capacity - 1 -> Cell \cup {Garbage}]
      /\ \A j \in 0 .. size - 1 : Resized(capacity)[j] = data[j] /\ data[j] \in Cell
  BY <1>1, ResizedWords
<1>3. /\ data' \in [0 .. capacity - 1 -> Cell \cup {Garbage}]
      /\ \A j \in 0 .. size - 1 : /\ j \in DOMAIN data'
                                 /\ data'[j] = data[j] /\ data'[j] \in Cell
      /\ DOMAIN data' = 0 .. capacity - 1
  <2>1. data' = Resized(capacity)
    BY DEF Replace
  <2> QED
    BY <1>1, <1>2, <2>1
<1>4. /\ addr' \in Addresses /\ root_o' \in Root \cup {Garbage}
      /\ resizing'.at = "destroy" /\ resizing'.data \in Addresses
      /\ resizing' \in [at : {"no", "register", "replace", "destroy"},
                       data : Addresses \cup {Garbage},
                       old : Root \cup {Garbage}, new : Root \cup {Garbage}]
      /\ UNCHANGED <<size, capacity, roots, printed, todo, got, ended>>
  <2>1. /\ addr' = resizing.data /\ resizing.at = "replace" /\ root_o' = resizing.new
        /\ resizing' = [resizing EXCEPT !.at = "destroy"]
        /\ UNCHANGED <<size, capacity, roots, printed, todo, got, ended>>
    BY DEF Replace
  <2> QED
    BY <2>1 DEF SlotArrayInv, SlotsTypeOK
<1>5. SlotsTypeOK'
  BY <1>1, <1>3, <1>4 DEF SlotArrayInv, SlotsTypeOK
<1>6. BufferSound'
  BY <1>1, <1>3, <1>4 DEF BufferSound
<1>7. GrowthSound'
  <2>1. ASSUME todo.op = "set"
        PROVE  /\ \A j \in todo.from .. size - 1 : j \in 0 .. size - 1
               /\ \A j \in todo.from .. size - 1 : data[j] = NilCell
    BY <2>1, <1>1, Sizes DEF SlotArrayInv, GrowthSound
  <2> QED
    BY <1>3, <1>4, <2>1 DEF SlotArrayInv, GrowthSound
<1> QED
  BY <1>5, <1>6, <1>7 DEF SlotArrayInv

LEMMA DestroySound ==
  ASSUME SlotArrayInv, DestroyOld
  PROVE  SlotArrayInv'
<1>1. /\ UNCHANGED <<bufferVars, root_o, printed, todo, got>>
      /\ resizing.at = "destroy" /\ resizing'.at = "no"
      /\ resizing' \in [at : {"no", "register", "replace", "destroy"},
                       data : Addresses \cup {Garbage},
                       old : Root \cup {Garbage}, new : Root \cup {Garbage}]
      /\ roots' \subseteq roots
      /\ ended' \in {"no", "killed", "wild"}
  BY DEF DestroyOld, NoResize
<1>2. SlotsTypeOK'
  BY <1>1 DEF SlotArrayInv, SlotsTypeOK, bufferVars
<1>3. BufferSound' /\ GrowthSound'
  BY <1>1 DEF SlotArrayInv, BufferSound, GrowthSound, bufferVars
<1> QED
  BY <1>2, <1>3 DEF SlotArrayInv

LEMMA StepSound ==
  ASSUME SlotArrayInv, [SlotsNext]_slotVars
  PROVE  SlotArrayInv'
<1>1. CASE UNCHANGED slotVars
  BY <1>1 DEF slotVars, bufferVars, rootVars, SlotArrayInv, SlotsTypeOK,
              BufferSound, GrowthSound
<1>2. ASSUME NEW i \in Index, slots_get(i) PROVE SlotArrayInv'
  BY <1>2, GetSound
<1>3. ASSUME NEW i \in Index, RetTruncate(i) PROVE SlotArrayInv'
  BY <1>3, TruncateSound
<1>4. ASSUME NEW i \in Index, NEW v \in Cell, slots_set(i, v) PROVE SlotArrayInv'
  BY <1>4, SetSound
<1>5. CASE GetReads
  BY <1>5, GetReadsSound
<1>6. CASE slots_append
  BY <1>6, AppendSound
<1>7. CASE SlotsStore
  BY <1>7, StoreSound
<1>8. CASE Register
  BY <1>8, RegisterSound
<1>9. CASE Replace
  BY <1>9, ReplaceSound
<1>10. CASE DestroyOld
  BY <1>10, DestroySound
<1> QED
  BY <1>1, <1>2, <1>3, <1>4, <1>5, <1>6, <1>7, <1>8, <1>9, <1>10 DEF SlotsNext

(* Whatever the capacities, the order of reads, writes and truncations and *)
(* the roots refused: the words in use fit the buffer of slots.c, before,  *)
(* during and after every resize, and each of them has been written.       *)
THEOREM SlotArraySafe == SlotArraySpec => [](SlotsTypeOK /\ BufferSound /\ GrowthSound)
<1>1. SlotArraySpec => []SlotArrayInv
  BY InitSound, StepSound, PTL DEF SlotArraySpec
<1>2. SlotArrayInv => SlotsTypeOK /\ BufferSound /\ GrowthSound
  BY DEF SlotArrayInv
<1> QED
  BY <1>1, <1>2, PTL

(* Sizes, roots and words of slots.c are what their types say, and the     *)
(* buffer has as many words as a capacity that doubling can reach.         *)
THEOREM SlotsTyped == SlotArraySpec => []SlotsTypeOK
BY SlotArraySafe, PTL

(* The words slots_set appends (slots.c) are nil, and end at its index.    *)
THEOREM GrownWordsNil == SlotArraySpec => []GrowthSound
BY SlotArraySafe, PTL

-----------------------------------------------------------------------------
(* The roots.  What there is at each moment of a resize, which handle names*)
(* it, and that no refusal printed means none is missing.                  *)
NewRoot == RootOf(resizing.data, covered)

OldKept ==
  resizing.at \in {"register", "replace"} =>
    resizing.data # addr /\ resizing.old = root_o

FewRoots ==
  \A r \in roots :
    \/ r = LiveRoot
    \/ resizing.at = "replace" /\ r = NewRoot
    \/ resizing.at = "destroy" /\ r = resizing.old

HandlesRight ==
  /\ LiveRoot \in roots => root_o = LiveRoot
  /\ resizing.at = "replace" /\ NewRoot \in roots => resizing.new = NewRoot

NoneMissing ==
  ~printed =>
    /\ LiveRoot \in roots
    /\ resizing.at = "replace" => NewRoot \in roots
    /\ resizing.at = "destroy" => resizing.old \in roots /\ resizing.old # LiveRoot

RootsInv == OldKept /\ FewRoots /\ HandlesRight /\ NoneMissing

LEMMA InitRoots == SlotsInit => RootsInv
<1> SUFFICES ASSUME SlotsInit PROVE RootsInv
  OBVIOUS
<1>1. LiveRoot = RootOf(addr, covered)
  BY DEF SlotsInit, LiveRoot, covered, Malloc
<1> QED
  BY <1>1 DEF SlotsInit, NoResize, RootsInv, OldKept, FewRoots, HandlesRight, NoneMissing

(* Steps that neither touch the roots nor move the buffer.                 *)
LEMMA RootsUntouched ==
  ASSUME RootsInv, UNCHANGED <<addr, rootVars>>, DOMAIN data' = DOMAIN data,
         resizing' = resizing /\ (capacity' = capacity \/ resizing.at = "no")
  PROVE  RootsInv'
<1>1. LiveRoot' = LiveRoot
  BY DEF LiveRoot, RootOf
<1>2. resizing.at = "replace" => NewRoot' = NewRoot
  BY DEF NewRoot, RootOf, covered
<1> QED
  BY <1>1, <1>2
  DEF rootVars, RootsInv, OldKept, FewRoots, HandlesRight, NoneMissing

(* A resize starts when none is going on.                                  *)
LEMMA ResizeRoots ==
  ASSUME RootsInv, running, NEW c, Resize(c) \/ NoMemory,
         UNCHANGED <<addr, data, rootVars>>
  PROVE  RootsInv'
<1>1. CASE NoMemory
  BY <1>1, RootsUntouched DEF NoMemory
<1>2. CASE Resize(c)
  <2>1. PICK a \in Addresses \ {addr} :
          resizing' = [at |-> "register", data |-> a, old |-> root_o, new |-> Garbage]
    BY <1>2 DEF Resize
  <2>2. /\ resizing'.at = "register" /\ resizing'.data # addr /\ resizing'.old = root_o
        /\ resizing.at = "no" /\ UNCHANGED <<addr, root_o, roots, printed>>
    BY <2>1 DEF running, rootVars
  <2>3. LiveRoot' = LiveRoot
    BY DEF LiveRoot, RootOf
  <2> QED
    BY <2>2, <2>3 DEF RootsInv, OldKept, FewRoots, HandlesRight, NoneMissing
<1> QED
  BY <1>1, <1>2

LEMMA RegisterRoots ==
  ASSUME SlotArrayInv, RootsInv, Register
  PROVE  RootsInv'
<1>1. /\ resizing.at = "register" /\ UNCHANGED <<size, capacity, addr, data, root_o>>
      /\ LiveRoot' = LiveRoot
  BY DEF Register, bufferVars, LiveRoot, RootOf
<1>2. NewRoot # LiveRoot
  BY <1>1 DEF RootsInv, OldKept, NewRoot, LiveRoot, RootOf
<1>3. NewRoot \notin roots
  BY <1>1, <1>2 DEF RootsInv, FewRoots
<1>4. CASE /\ roots' = roots \cup {NewRoot} /\ UNCHANGED printed
           /\ resizing' = [resizing EXCEPT !.at = "replace", !.new = NewRoot]
  <2>1. /\ resizing'.at = "replace" /\ resizing'.new = NewRoot
        /\ resizing'.data = resizing.data /\ resizing'.old = resizing.old
    BY <1>4 DEF SlotArrayInv, SlotsTypeOK
  <2>2. NewRoot' = NewRoot
    BY <1>1, <2>1 DEF NewRoot, covered, RootOf
  <2> QED
    BY <1>1, <1>2, <1>4, <2>1, <2>2
    DEF RootsInv, OldKept, FewRoots, HandlesRight, NoneMissing
<1>5. CASE /\ printed' = TRUE /\ UNCHANGED roots
           /\ resizing' = [resizing EXCEPT !.at = "replace"]
  <2>1. /\ resizing'.at = "replace"
        /\ resizing'.data = resizing.data /\ resizing'.old = resizing.old
    BY <1>5 DEF SlotArrayInv, SlotsTypeOK
  <2>2. NewRoot' = NewRoot
    BY <1>1, <2>1 DEF NewRoot, covered, RootOf
  <2> QED
    BY <1>1, <1>2, <1>3, <1>5, <2>1, <2>2
    DEF RootsInv, OldKept, FewRoots, HandlesRight, NoneMissing
<1> QED
  BY <1>4, <1>5 DEF Register, registered, NewRoot

LEMMA ReplaceRoots ==
  ASSUME SlotArrayInv, RootsInv, Replace
  PROVE  RootsInv'
<1>1. /\ resizing.at = "replace" /\ UNCHANGED <<roots, printed, capacity>>
      /\ addr' = resizing.data /\ root_o' = resizing.new
      /\ resizing'.at = "destroy" /\ resizing'.old = resizing.old
      /\ DOMAIN data' = 0 .. capacity - 1
  BY DEF Replace, Resized, SlotArrayInv, SlotsTypeOK
<1>2. LiveRoot' = NewRoot
  BY <1>1 DEF LiveRoot, NewRoot, covered, RootOf
<1>3. NewRoot # LiveRoot /\ resizing.old = root_o
  BY <1>1 DEF RootsInv, OldKept, NewRoot, LiveRoot, RootOf
<1>4. \A r \in roots : r = NewRoot \/ r = root_o
  BY <1>1 DEF RootsInv, FewRoots, HandlesRight
<1>5. NewRoot \in roots => resizing.new = NewRoot
  BY <1>1 DEF RootsInv, HandlesRight
<1>6. ~printed => NewRoot \in roots /\ root_o \in roots /\ root_o # NewRoot
  BY <1>1, <1>3 DEF RootsInv, NoneMissing, HandlesRight
<1> QED
  BY <1>1, <1>2, <1>3, <1>4, <1>5, <1>6
  DEF RootsInv, OldKept, FewRoots, HandlesRight, NoneMissing

LEMMA DestroyRoots ==
  ASSUME RootsInv, DestroyOld
  PROVE  RootsInv'
<1>1. /\ resizing.at = "destroy" /\ resizing'.at = "no" /\ LiveRoot' = LiveRoot
      /\ UNCHANGED <<root_o, printed>>
      /\ roots' \subseteq roots
      /\ resizing.old \notin roots'
      /\ resizing.old \in roots => roots' = roots \ {resizing.old}
  BY DEF DestroyOld, doomed, NoResize, bufferVars, LiveRoot, RootOf
<1> QED
  BY <1>1 DEF RootsInv, OldKept, FewRoots, HandlesRight, NoneMissing

LEMMA StepRoots ==
  ASSUME SlotArrayInv, RootsInv, [SlotsNext]_slotVars
  PROVE  RootsInv'
<1>1. CASE UNCHANGED slotVars
  BY <1>1, RootsUntouched DEF slotVars, bufferVars
<1>2. ASSUME NEW i \in Index, slots_get(i) PROVE RootsInv'
  <2>1. CASE Sparse
    BY <1>2, <2>1, ResizeRoots DEF slots_get, calm
  <2>2. CASE ~Sparse
    BY <1>2, <2>2, RootsUntouched DEF slots_get
  <2> QED
    BY <2>1, <2>2
<1>3. ASSUME NEW i \in Index, RetTruncate(i) PROVE RootsInv'
  BY <1>3, RootsUntouched DEF RetTruncate
<1>4. ASSUME NEW i \in Index, NEW v \in Cell, slots_set(i, v) PROVE RootsInv'
  BY <1>4, RootsUntouched DEF slots_set, bufferVars
<1>5. CASE GetReads
  BY <1>5, RootsUntouched DEF GetReads, bufferVars
<1>6. CASE slots_append
  <2>1. CASE full
    BY <1>6, <2>1, ResizeRoots DEF slots_append
  <2>2. CASE ~full
    <3>1. DOMAIN data' = DOMAIN data
      BY <1>6, <2>2 DEF slots_append, appended
    <3> QED
      BY <1>6, <2>2, <3>1, RootsUntouched DEF slots_append
  <2> QED
    BY <2>1, <2>2
<1>7. CASE SlotsStore
  <2>1. DOMAIN data' = DOMAIN data
    BY <1>7 DEF SlotsStore
  <2> QED
    BY <1>7, <2>1, RootsUntouched DEF SlotsStore
<1>8. CASE Register
  BY <1>8, RegisterRoots
<1>9. CASE Replace
  BY <1>9, ReplaceRoots
<1>10. CASE DestroyOld
  BY <1>10, DestroyRoots
<1> QED
  BY <1>1, <1>2, <1>3, <1>4, <1>5, <1>6, <1>7, <1>8, <1>9, <1>10 DEF SlotsNext

LEMMA RootsKept == SlotArraySpec => []RootsInv
<1>1. SlotArraySpec => []SlotArrayInv
  BY InitSound, StepSound, PTL DEF SlotArraySpec
<1>2. SlotArrayInv /\ RootsInv /\ [SlotsNext]_slotVars => RootsInv'
  BY StepRoots
<1> QED
  BY <1>1, <1>2, InitRoots, PTL DEF SlotArraySpec

(* Until slots.c has printed that a root was refused, the collector has the*)
(* whole live buffer registered, whatever is being resized.                *)
THEOREM RootsFollowBuffer == SlotArraySpec => []LiveRegistered
<1>1. RootsInv => LiveRegistered
  BY DEF RootsInv, NoneMissing, LiveRegistered
<1> QED
  BY <1>1, RootsKept, PTL

(* Also after refusals, when handles nobody has set are destroyed, slots.c *)
(* leaves no root over a buffer it has freed once the resize is over.      *)
THEOREM RootsDieWithBuffer == SlotArraySpec => []NoStaleRoot
<1>1. RootsInv => NoStaleRoot
  BY DEF RootsInv, OldKept, FewRoots, NoStaleRoot, NewRoot, RootOf
<1> QED
  BY <1>1, RootsKept, PTL

-----------------------------------------------------------------------------
(* The refinement.  view is the array SlotMemory speaks of.                *)
view == [size |-> InUse, data |-> [j \in 0 .. InUse - 1 |-> data[j]]]

LEMMA ViewUnchanged ==
  ASSUME InUse' = InUse, \A j \in 0 .. InUse - 1 : data'[j] = data[j]
  PROVE  view' = view
<1>1. [j \in 0 .. InUse - 1 |-> data'[j]] = [j \in 0 .. InUse - 1 |-> data[j]]
  OBVIOUS
<1> QED
  BY <1>1 DEF view

LEMMA InitImplements == SlotsInit => Mem!MemInit
<1> SUFFICES ASSUME SlotsInit PROVE Mem!MemInit
  OBVIOUS
<1>1. InUse = 0
  BY DEF SlotsInit, InUse, Idle
<1>2. [j \in 0 .. InUse - 1 |-> data[j]] = [j \in 0 .. 0 - 1 |-> NilCell]
  BY <1>1
<1> QED
  BY <1>1, <1>2 DEF SlotsInit, Mem!MemInit, Mem!NoSlots

LEMMA ReadImplements ==
  ASSUME SlotArrayInv, NEW i \in Index, Read(i), ended = "no",
         todo.op # "set", todo'.op # "set", UNCHANGED <<size, data>>
  PROVE  Mem!MemGet(i)
<1>1. size \in Nat /\ i \in Nat
  BY Sizes, SlotArrayAssumption
<1>2. InUse = size /\ InUse' = size
  BY DEF InUse
<1>3. view' = view
  BY <1>2, ViewUnchanged
<1>4. CASE i < size
  <2>1. i \in 0 .. size - 1 /\ ~(i >= size)
    BY <1>1, <1>4
  <2>2. ended' = ended /\ got' = view.data[i]
    BY <2>1, <1>2 DEF view, Read
  <2> QED
    BY <2>2, <1>2, <1>3, <1>4 DEF Mem!MemGet, view
<1>5. CASE i >= size
  <2>1. ended' = "bounds" /\ got' = got /\ ~(i < size)
    BY <1>1, <1>5 DEF Read
  <2> QED
    BY <2>1, <1>2, <1>3 DEF Mem!MemGet, view
<1> QED
  BY <1>1, <1>4, <1>5

(* Steps that leave the words seen as they are are stutters.               *)
LEMMA Stutters ==
  ASSUME InUse' = InUse, \A j \in 0 .. InUse - 1 : data'[j] = data[j], got' = got,
         ended' = ended \/ (ended # "bounds" /\ ended' # "bounds")
  PROVE  UNCHANGED Mem!memVars
BY ViewUnchanged DEF Mem!memVars, view

LEMMA GetImplements ==
  ASSUME SlotArrayInv, NEW i \in Index, slots_get(i)
  PROVE  [Mem!MemNext]_(Mem!memVars)
<1>1. ended = "no" /\ todo.op = "none" /\ UNCHANGED <<size, data>>
  BY DEF slots_get, calm, running, Idle
<1>2. CASE Sparse
  <2>1. /\ todo'.op = "get" /\ got' = got
        /\ ended' = ended \/ ended' = "killed"
    BY <1>2 DEF slots_get, Resize, NoMemory, Idle
  <2>2. InUse' = InUse
    BY <1>1, <2>1 DEF InUse
  <2> QED
    BY <1>1, <2>1, <2>2, Stutters
<1>3. CASE ~Sparse
  <2>1. Read(i) /\ todo' = todo
    BY <1>3 DEF slots_get
  <2>2. Mem!MemGet(i)
    BY <1>1, <2>1, ReadImplements
  <2> QED
    BY <2>2 DEF Mem!MemNext
<1> QED
  BY <1>2, <1>3

LEMMA GetReadsImplements ==
  ASSUME SlotArrayInv, GetReads
  PROVE  Mem!MemNext
<1>1. /\ ended = "no" /\ todo.op = "get" /\ todo'.op = "none"
      /\ Read(todo.index) /\ UNCHANGED <<size, data>>
  BY IdleTyped DEF GetReads, running, bufferVars
<1>2. PICK i \in Index : i = todo.index
  BY <1>1 DEF SlotArrayInv, GrowthSound
<1>3. Mem!MemGet(i)
  BY <1>1, <1>2, ReadImplements
<1> QED
  BY <1>3 DEF Mem!MemNext

LEMMA TruncateImplements ==
  ASSUME SlotArrayInv, NEW n \in Index, RetTruncate(n)
  PROVE  Mem!MemTruncate(n)
<1>1. /\ size \in Nat /\ n \in Nat /\ n < size /\ todo.op # "set" /\ ended = "no"
      /\ size' = n /\ UNCHANGED <<data, todo, got, ended>>
  BY Sizes, SlotArrayAssumption DEF RetTruncate, calm, running, Idle
<1>2. InUse = size /\ InUse' = n
  BY <1>1 DEF InUse
<1>3. \A j \in 0 .. n - 1 : j \in 0 .. size - 1
  BY <1>1
<1>4. [j \in 0 .. n - 1 |-> data'[j]] = [j \in 0 .. n - 1 |-> view.data[j]]
  BY <1>1, <1>2, <1>3 DEF view
<1>5. view' = [size |-> n, data |-> [j \in 0 .. n - 1 |-> view.data[j]]]
  BY <1>2, <1>4 DEF view
<1> QED
  BY <1>1, <1>2, <1>5 DEF Mem!MemTruncate, Mem!SlotTruncate, view

(* Calling slots_set, and every word it appends, is a stutter.             *)
LEMMA CallStutters ==
  ASSUME SlotArrayInv, NEW i \in Index, NEW v \in Cell, slots_set(i, v)
  PROVE  UNCHANGED Mem!memVars
<1>1. InUse' = InUse /\ UNCHANGED <<data, got, ended>>
  BY DEF slots_set, calm, Idle, InUse, bufferVars
<1> QED
  BY <1>1, Stutters

LEMMA AppendStutters ==
  ASSUME SlotArrayInv, slots_append
  PROVE  UNCHANGED Mem!memVars
<1>1. /\ size \in Nat /\ todo.from \in Nat /\ todo.from <= size
      /\ todo.op = "set" /\ todo' = todo /\ got' = got /\ ended = "no"
  BY Sizes DEF SlotArrayInv, GrowthSound, slots_append, running
<1>2. InUse = todo.from /\ InUse' = InUse
  BY <1>1 DEF InUse
<1>3. ended' # "bounds"
  BY <1>1 DEF slots_append, Resize, NoMemory
<1>4. \A j \in 0 .. size - 1 : data'[j] = data[j]
  <2>1. CASE full
    BY <2>1 DEF slots_append
  <2>2. CASE ~full
    <3>1. data' = [data EXCEPT ![size] = NilCell]
      BY <2>2 DEF slots_append, appended
    <3>2. \A j \in 0 .. size - 1 : j # size /\ j \in DOMAIN data
      BY <1>1 DEF SlotArrayInv, BufferSound
    <3> QED
      BY <3>1, <3>2 DEF SlotArrayInv, SlotsTypeOK
  <2> QED
    BY <2>1, <2>2
<1>5. \A j \in 0 .. InUse - 1 : data'[j] = data[j]
  BY <1>1, <1>2, <1>4
<1> QED
  BY <1>1, <1>2, <1>3, <1>5, Stutters

(* The steps of a resize are stutters.                                     *)
LEMMA ResizeStutters ==
  ASSUME SlotArrayInv, Register \/ Replace \/ DestroyOld
  PROVE  UNCHANGED Mem!memVars
<1>1. /\ UNCHANGED <<size, todo, got>> /\ ended = "no" /\ ended' # "bounds"
  BY DEF Register, Replace, DestroyOld, bufferVars
<1>2. InUse' = InUse
  BY <1>1 DEF InUse
<1>3. \A j \in 0 .. size - 1 : data'[j] = data[j]
  <2>1. CASE Replace
    BY <2>1, ResizedWords DEF Replace, SlotArrayInv, SlotsTypeOK, BufferSound
  <2>2. CASE Register \/ DestroyOld
    BY <2>2 DEF Register, DestroyOld, bufferVars
  <2> QED
    BY <2>1, <2>2
<1>4. \A j \in 0 .. InUse - 1 : j \in 0 .. size - 1
  BY Sizes DEF InUse, SlotArrayInv, GrowthSound
<1> QED
  BY <1>1, <1>2, <1>3, <1>4, Stutters

LEMMA StoreImplements ==
  ASSUME SlotArrayInv, SlotsStore
  PROVE  Mem!MemNext
<1> DEFINE i == todo.index
           v == todo.value
<1>1. /\ size \in Nat /\ i \in Nat /\ v \in Cell /\ i \in Index
      /\ todo.from \in Nat /\ todo.op = "set" /\ i < size /\ ended = "no"
      /\ todo.from <= size /\ size <= LongerOf(todo.from, i + 1)
      /\ data' = [data EXCEPT ![i] = v]
      /\ todo' = Idle /\ UNCHANGED <<size, got, ended>>
  BY Sizes DEF SlotArrayInv, GrowthSound, SlotsStore, growing, running
<1>2. InUse = todo.from /\ InUse' = size
  BY <1>1 DEF InUse, Idle
<1>3. size = Mem!LongerOf(todo.from, i + 1)
  BY <1>1 DEF LongerOf, Mem!LongerOf
<1>4. ASSUME NEW j \in 0 .. size - 1
      PROVE  data'[j] = IF j = i THEN v
                        ELSE IF j < todo.from THEN view.data[j] ELSE NilCell
  <2>1. data'[j] = IF j = i THEN v ELSE data[j]
    BY <1>1 DEF SlotArrayInv, SlotsTypeOK, BufferSound
  <2>2. CASE j < todo.from
    <3>1. j \in 0 .. InUse - 1
      BY <1>1, <1>2, <2>2
    <3> QED
      BY <2>1, <2>2, <3>1 DEF view
  <2>3. CASE ~(j < todo.from)
    <3>1. j \in todo.from .. size - 1
      BY <1>1, <2>3
    <3>2. data[j] = NilCell
      BY <1>1, <3>1 DEF SlotArrayInv, GrowthSound
    <3> QED
      BY <2>1, <2>3, <3>2
  <2> QED
    BY <2>2, <2>3
<1>5. view' = Mem!SlotSet(view, i, v)
  <2>1. view.size = todo.from
    BY <1>2 DEF view
  <2>2. view' = [size |-> size, data |-> [j \in 0 .. size - 1 |-> data'[j]]]
    BY <1>2 DEF view
  <2>3. [j \in 0 .. size - 1 |-> data'[j]]
          = [j \in 0 .. size - 1 |->
               IF j = i THEN v
               ELSE IF j < todo.from THEN view.data[j] ELSE NilCell]
    BY <1>4
  <2> HIDE DEF i, v
  <2> QED
    BY <1>3, <2>1, <2>2, <2>3 DEF Mem!SlotSet
<1>6. /\ ended = "no" /\ view' = Mem!SlotSet(view, i, v)
      /\ UNCHANGED <<got, ended>>
      /\ i \in Index /\ v \in Cell
  BY <1>1, <1>5
<1> HIDE DEF i, v
<1>7. PICK index \in Index, value \in Cell :
        view' = Mem!SlotSet(view, index, value)
  BY <1>6
<1>8. Mem!MemSet(index, value)
  BY <1>6, <1>7 DEF Mem!MemSet, view
<1> QED
  BY <1>8 DEF Mem!MemNext

LEMMA StepImplements ==
  ASSUME SlotArrayInv, [SlotsNext]_slotVars
  PROVE  [Mem!MemNext]_(Mem!memVars)
<1>1. CASE UNCHANGED slotVars
  <2>1. InUse' = InUse /\ UNCHANGED <<data, got, ended>>
    BY <1>1 DEF slotVars, bufferVars, InUse
  <2> QED
    BY <2>1, Stutters
<1>2. ASSUME NEW i \in Index, slots_get(i) PROVE [Mem!MemNext]_(Mem!memVars)
  BY <1>2, GetImplements
<1>3. ASSUME NEW i \in Index, RetTruncate(i) PROVE Mem!MemNext
  BY <1>3, TruncateImplements DEF Mem!MemNext
<1>4. ASSUME NEW i \in Index, NEW v \in Cell, slots_set(i, v)
      PROVE  UNCHANGED Mem!memVars
  BY <1>4, CallStutters
<1>5. CASE GetReads
  BY <1>5, GetReadsImplements
<1>6. CASE slots_append
  BY <1>6, AppendStutters
<1>7. CASE SlotsStore
  BY <1>7, StoreImplements
<1>8. CASE Register \/ Replace \/ DestroyOld
  BY <1>8, ResizeStutters
<1>9. SlotsNext =>
        \/ \E i \in Index : slots_get(i)
        \/ \E i \in Index : RetTruncate(i)
        \/ \E i \in Index, v \in Cell : slots_set(i, v)
        \/ GetReads \/ slots_append \/ SlotsStore
        \/ Register \/ Replace \/ DestroyOld
  BY DEF SlotsNext
<1>10. CASE SlotsNext
  <2>1. CASE \E i \in Index : slots_get(i)
    BY <2>1, <1>2
  <2>2. CASE \E i \in Index : RetTruncate(i)
    BY <2>2, <1>3
  <2>3. CASE \E i \in Index, v \in Cell : slots_set(i, v)
    BY <2>3, <1>4
  <2> QED
    BY <1>5, <1>6, <1>7, <1>8, <1>9, <1>10, <2>1, <2>2, <2>3
<1> QED
  BY <1>1, <1>10

(* slots.c implements the growing array of slots.h for every choice of     *)
(* capacities: through growth, halving and truncation a read returns the   *)
(* word written last and only a read past the end stops the program.       *)
THEOREM SlotArrayImplements == SlotArraySpec => ImplementsSlotMemory
<1>1. SlotArraySpec => []SlotArrayInv
  BY InitSound, StepSound, PTL DEF SlotArraySpec
<1>2. SlotArrayInv /\ [SlotsNext]_slotVars => [Mem!MemNext]_(Mem!memVars)
  BY StepImplements
<1> QED
  BY <1>1, <1>2, InitImplements, PTL
  DEF SlotArraySpec, ImplementsSlotMemory, Mem!SlotMemorySpec

=============================================================================
