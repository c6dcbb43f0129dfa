------------------------------ MODULE SlotArray ------------------------------
(***************************************************************************)
(* The slot array as slots.c implements it: a malloc'd buffer of capacity  *)
(* words, of which the first size are in use.  slots_set appends nil words *)
(* one at a time, doubling the buffer when it is full; slots_get halves it *)
(* when few words are left; RET (execute.c) assigns the size directly.     *)
(* Every resize allocates a new buffer, registers it with the collector as *)
(* a root, copies size words, frees the old buffer and destroys the root   *)
(* the old handle names.  A root the collector refuses is printed, and the *)
(* resize goes on with a handle nobody has set.                            *)
(***************************************************************************)
EXTENDS SlotOps

CONSTANTS
  Index,             \* the indices an instruction can reach
  Addresses,         \* where malloc can place a buffer
  InitialCapacity,   \* SLOTS_INITIAL_CAPACITY, 10
  Capacities,        \* InitialCapacity doubled any number of times, up to the
                     \* largest buffer malloc grants (the bound on growth)
  Garbage            \* the word, or the handle, of an unset variable

ASSUME SlotArrayAssumption ==
  /\ NilCell \in Cell /\ Garbage \notin Cell
  /\ Index \subseteq Nat
  /\ InitialCapacity \in Capacities
  /\ Capacities \subseteq Nat \ {0}
  /\ \A c \in Capacities \ {InitialCapacity} : \E h \in Capacities : c = 2 * h

VARIABLES
  size, capacity,    \* the fields of Slots
  addr, data,        \* the buffer: where it is, and its words
  root_o,            \* the handle of its root
  roots,             \* the roots the collector has registered for slots
  resizing,          \* how far a resize is, and its variables
  todo,              \* the slots_get or slots_set being executed, or Idle
  got, ended,        \* the word last read; how the process ended, or "no"
  printed            \* a refused root has been printed

bufferVars == <<size, capacity, addr, data>>
rootVars   == <<root_o, roots, printed>>
slotVars   == <<bufferVars, rootVars, resizing, todo, got, ended>>

Idle == [op |-> "none", index |-> 0, value |-> NilCell, from |-> 0]

NoResize == [at |-> "no", data |-> Garbage, old |-> Garbage, new |-> Garbage]

(* No call and no resize is going on.                                      *)
running == ended = "no" /\ resizing.at = "no"
calm    == running /\ todo = Idle

(* malloc: nothing of the new buffer is known.                             *)
Malloc(c) == [j \in 0 .. c - 1 |-> Garbage]

(* What the copy loop of a resize moves, and what malloc left in the other *)
(* words.                                                                  *)
Resized(c) == [j \in 0 .. c - 1 |-> IF j < size THEN data[j] ELSE Malloc(c)[j]]

(* The root mps_root_create_table_masked makes for a buffer.                *)
covered == 0 .. capacity - 1
RootOf(a, words) == [base |-> a, covers |-> words]

(* slots_init.  The root is registered over the buffer as malloc left it,  *)
(* or refused and printed.                                                 *)
SlotsInit ==
  /\ size = 0 /\ capacity = InitialCapacity
  /\ addr \in Addresses /\ data = Malloc(InitialCapacity)
  /\ \/ root_o = RootOf(addr, covered) /\ roots = {root_o} /\ printed = FALSE
     \/ root_o = Garbage /\ roots = {} /\ printed = TRUE
  /\ resizing = NoResize /\ todo = Idle /\ got = NilCell /\ ended = "no"

-----------------------------------------------------------------------------
(* Resizing: slots_half_capacity and slots_double_capacity_if_full differ  *)
(* in the new capacity only.  It is assigned and malloc called; the handle *)
(* of the old root is kept in root_o_old ...                               *)
Resize(c) ==
  /\ capacity' = c
  /\ \E a \in Addresses \ {addr} :
       resizing' = [at |-> "register", data |-> a, old |-> root_o, new |-> Garbage]
  /\ UNCHANGED ended

(* ... unless malloc returns NULL, which the collector's assertions or the *)
(* copy loop do not survive ...                                            *)
NoMemory == ended' = "killed" /\ UNCHANGED <<capacity, resizing>>

OldBuffer  == addr                 \* mutant: the one data still points to
registered == resizing.data

(* ... the new buffer is registered, or its root refused ...               *)
Register ==
  /\ ended = "no" /\ resizing.at = "register"
  /\ LET r == RootOf(registered, covered)
     IN  \/ /\ roots' = roots \cup {r} /\ UNCHANGED printed
            /\ resizing' = [resizing EXCEPT !.at = "replace", !.new = r]
         \/ /\ printed' = TRUE /\ UNCHANGED roots
            /\ resizing' = [resizing EXCEPT !.at = "replace"]
  /\ UNCHANGED <<bufferVars, root_o, todo, got, ended>>

(* ... the words in use are copied, the old buffer is freed, and data and  *)
(* root_o are assigned ...                                                 *)
Replace ==
  /\ ended = "no" /\ resizing.at = "replace"
  /\ data' = Resized(capacity) /\ addr' = resizing.data /\ root_o' = resizing.new
  /\ resizing' = [resizing EXCEPT !.at = "destroy"]
  /\ UNCHANGED <<size, capacity, roots, printed, todo, got, ended>>

CurrentRoot == root_o              \* mutant: the handle as just assigned
doomed      == resizing.old

(* ... and the root with the old handle is destroyed.  A handle nobody has *)
(* set, or of a root that is gone, may be that of any root of the process; *)
(* otherwise mps_root_destroy kills it or damages its memory.              *)
DestroyOld ==
  /\ ended = "no" /\ resizing.at = "destroy"
  /\ \/ \E r \in IF doomed \in roots THEN {doomed} ELSE roots \cup {doomed} :
          roots' = roots \ {r} /\ UNCHANGED ended
     \/ doomed \notin roots /\ ended' \in {"killed", "wild"} /\ UNCHANGED roots
  /\ resizing' = NoResize
  /\ UNCHANGED <<bufferVars, root_o, printed, todo, got>>

-----------------------------------------------------------------------------
\* Mutants: no test for the initial capacity; the factor 0.6 on the other side.
SparseBelowInitial == 3 * (capacity \div 2) >= 5 * size
SparseInverted     == capacity # InitialCapacity /\ 5 * (capacity \div 2) >= 3 * size

(* The test of slots_get, (capacity / 2) * 0.6 >= size, in exact           *)
(* arithmetic: on the capacities 10 * 2^k the product of doubles is exact. *)
Sparse == capacity # InitialCapacity /\ 3 * (capacity \div 2) >= 5 * size

Read(i) ==
  IF i >= size THEN ended' = "bounds" /\ UNCHANGED got
               ELSE got' = data[i] /\ UNCHANGED ended

(* slots_get halves a buffer with few words in use first ...               *)
slots_get(i) ==
  /\ calm
  /\ \/ /\ Sparse
        /\ Resize(capacity \div 2) \/ NoMemory
        /\ todo' = [Idle EXCEPT !.op = "get", !.index = i] /\ UNCHANGED got
     \/ ~Sparse /\ Read(i) /\ UNCHANGED <<capacity, resizing, todo>>
  /\ UNCHANGED <<size, addr, data, rootVars>>

(* ... and reads.                                                          *)
GetReads ==
  /\ running /\ todo.op = "get"
  /\ Read(todo.index) /\ todo' = Idle
  /\ UNCHANGED <<bufferVars, rootVars, resizing>>

(* The loop condition of slots_set, and the word slots_append stores.       *)
GrowingPast    == todo.index + 1 >= size              \* mutant: off by one
growing        == todo.index >= size
Untouched(buf) == buf                                 \* mutant: nothing stored
appended(buf)  == [buf EXCEPT ![size] = NilCell]

(* slots_set is called ...                                                 *)
slots_set(i, v) ==
  /\ calm
  /\ todo' = [op |-> "set", index |-> i, value |-> v, from |-> size]
  /\ UNCHANGED <<bufferVars, rootVars, resizing, got, ended>>

(* ... appends nil while its index does not exist (slots_append, with      *)
(* slots_double_capacity_if_full) ...                                      *)
full == size >= capacity

slots_append ==
  /\ running /\ todo.op = "set" /\ growing
  /\ \/ /\ full
        /\ (2 * capacity \in Capacities /\ Resize(2 * capacity)) \/ NoMemory
        /\ UNCHANGED <<size, data>>
     \/ /\ ~full /\ data' = appended(data) /\ size' = size + 1
        /\ UNCHANGED <<capacity, resizing, ended>>
  /\ UNCHANGED <<addr, rootVars, todo, got>>

(* ... and stores the word.                                                *)
SlotsStore ==
  /\ running /\ todo.op = "set" /\ ~growing
  /\ data' = [data EXCEPT ![todo.index] = todo.value]
  /\ todo' = Idle
  /\ UNCHANGED <<size, capacity, addr, rootVars, resizing, got, ended>>

(* RET: slots.size = base + a.  The move RET does first has read the slot  *)
(* base + a, so the new size is below the old one.                         *)
RetTruncate(n) ==
  /\ calm /\ n < size
  /\ size' = n
  /\ UNCHANGED <<capacity, addr, data, rootVars, resizing, todo, got, ended>>

SlotsNext ==
  \/ \E i \in Index : \/ slots_get(i)
                      \/ RetTruncate(i)
                      \/ \E v \in Cell : slots_set(i, v)
  \/ GetReads \/ slots_append \/ SlotsStore
  \/ Register \/ Replace \/ DestroyOld

SlotArraySpec == SlotsInit /\ [][SlotsNext]_slotVars

-----------------------------------------------------------------------------
Root == [base : Addresses, covers : SUBSET Nat]

SlotsTypeOK ==
  /\ size \in Nat /\ capacity \in Capacities /\ addr \in Addresses
  /\ \E c \in Capacities : data \in [0 .. c - 1 -> Cell \cup {Garbage}]
  /\ roots \subseteq Root /\ root_o \in Root \cup {Garbage}
  /\ resizing \in [at : {"no", "register", "replace", "destroy"},
                  data : Addresses \cup {Garbage},
                  old : Root \cup {Garbage}, new : Root \cup {Garbage}]
  /\ resizing.at # "no" => resizing.data \in Addresses
  /\ todo \in [op : {"none", "get", "set"}, index : Nat, value : Cell, from : Nat]
  /\ got \in Cell \cup {Garbage} /\ ended \in {"no", "bounds", "killed", "wild"}
  /\ printed \in BOOLEAN

(* However reads, writes and truncations alternate, the words in use fit   *)
(* the buffer, the old one as well as the one a resize makes, and every    *)
(* word in use has been written: neither doubling nor halving nor regrowth *)
(* after a truncation exposes what malloc left.                            *)
BufferSound ==
  /\ size <= capacity
  /\ resizing.at \in {"no", "destroy"} => DOMAIN data = 0 .. capacity - 1
  /\ \A j \in 0 .. size - 1 : j \in DOMAIN data /\ data[j] \in Cell

(* While slots_set grows the array, the words it has appended are nil and  *)
(* it has not gone past its index.  (Needed for the refinement.)           *)
GrowthSound ==
  /\ todo.op # "none" => todo.index \in Index /\ ended # "bounds"
  /\ todo.op = "set" =>
       /\ todo.from <= size
       /\ size <= LongerOf(todo.from, todo.index + 1)
       /\ \A j \in todo.from .. size - 1 : data[j] = NilCell

-----------------------------------------------------------------------------
LiveRoot == RootOf(addr, DOMAIN data)

(* As long as no refused root has been printed the collector knows the     *)
(* buffer data points to, all of it and nothing behind it, at every moment *)
(* of a resize as well (slots.c 92-113): the new root is there before data *)
(* moves, and what is destroyed afterwards is the other one.               *)
LiveRegistered == ~printed => LiveRoot \in roots

(* Whatever has been refused, no root outlives its buffer: there is one    *)
(* over the live buffer at most, one over the buffer being filled, and     *)
(* between free and mps_root_destroy, where nothing allocates, the one     *)
(* about to go.  An unset handle does not change that.                     *)
NoStaleRoot ==
  \A r \in roots :
    \/ r = LiveRoot
    \/ resizing.at = "replace" /\ r.base = resizing.data /\ r.base # addr
    \/ resizing.at = "destroy" /\ r = resizing.old

-----------------------------------------------------------------------------
(* The array the users see: the words in use, and while slots_set grows    *)
(* the array still those that were in use when it was called.              *)
InUse == IF todo.op = "set" THEN todo.from ELSE size

Mem == INSTANCE SlotMemory
         WITH mem    <- [size |-> InUse, data |-> [j \in 0 .. InUse - 1 |-> data[j]]],
              failed <- ended = "bounds"

(* The buffers implement the array of SlotMemory: through every sequence   *)
(* of growth, halving and truncation a read returns the word written last, *)
(* nil where none was, and only a read past the end makes the program exit.*)
(* (malloc's refusal and the destruction of an unset handle end it too.)   *)
ImplementsSlotMemory == Mem!SlotMemorySpec

=============================================================================
