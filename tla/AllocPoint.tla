----------------------------- MODULE AllocPoint ------------------------------
(***************************************************************************)
(* mps_alloc_obj (alloc.c) allocates an object at an allocation point of   *)
(* the collector: reserve, initialise, commit, all over again when commit  *)
(* reports that a collection came in between.  The collector pads what is  *)
(* left of a buffer, moves objects and walks the heap by the functions of  *)
(* the object format (vm.c).  Addresses and sizes count words of 8 bytes;  *)
(* a header is one word.                                                   *)
(***************************************************************************)
EXTENDS Integers

CONSTANTS
  Sizes,             \* type_size of the types: 1 + number of fields
  BufferWords,       \* what the collector hands out at a time
  HeapWords          \* bound on the words it hands out

ASSUME AllocAssumption ==
  /\ Sizes \subseteq 1 .. BufferWords
  /\ BufferWords \in Nat \ {0} /\ HeapWords \in Nat

VARIABLES
  mem,               \* the words of the heap
  init, limit,       \* of the allocation point: the free words of its buffer
  size,              \* the object being allocated, 0 if none
  addr_o, obj,       \* the address reserved; the local variable of the loop
  step,              \* the next statement of mps_alloc_obj, or "idle", "aborted"
  blocks,            \* what lies below init: objects committed, and padding
  moved              \* where the collector has moved an object to

allocVars == <<mem, init, limit, size, addr_o, obj, step, blocks, moved>>

OBJ_MPS_TYPE_PADDING == 0
OBJ_MPS_TYPE_FORWARD == 1
OBJ_MPS_TYPE_OBJECT  == 2

(* A word: a header, a field, or what was in memory before.                *)
NULL    == -1
Header(type, n) == [what |-> "header", type |-> type, val |-> n]
Field(v)        == [what |-> "field", type |-> OBJ_MPS_TYPE_OBJECT, val |-> v]
Junk            == [what |-> "junk", type |-> OBJ_MPS_TYPE_PADDING, val |-> 0]

AllocInit ==
  /\ mem = [a \in 0 .. HeapWords - 1 |-> Junk]
  /\ init = 0 /\ limit = 0
  /\ size = 0 /\ addr_o = NULL /\ obj = NULL /\ step = "idle"
  /\ blocks = {} /\ moved = <<>>

HeaderAllowed(n) == n >= 1           \* mutant: assert(size >= HEADER_SIZE)
size_assert(n)   == n > 1

(* ALLOC calls mps_alloc_obj.                                              *)
Call(n) ==
  /\ step = "idle"
  /\ size' = n /\ addr_o' = NULL /\ obj' = NULL
  /\ step' = IF size_assert(n) THEN "reserve" ELSE "aborted"
  /\ UNCHANGED <<mem, init, limit, blocks, moved>>

(* mps_reserve, in the buffer there is ...                                 *)
Reserve ==
  /\ step = "reserve" /\ init + size <= limit
  /\ addr_o' = init /\ step' = "initialise"
  /\ UNCHANGED <<mem, init, limit, size, obj, blocks, moved>>

obj_pad(m, a, n) == [m EXCEPT ![a] = Header(OBJ_MPS_TYPE_PADDING, n)]

(* ... or in a new one, when the old one is too small or has been taken    *)
(* away; the rest of it is padded ...                                      *)
ReserveInNewBuffer ==
  /\ step = "reserve" /\ limit + BufferWords <= HeapWords
  /\ IF init < limit
       THEN /\ mem' = obj_pad(mem, init, limit - init)
            /\ blocks' = blocks \cup {[at |-> init, size |-> limit - init, object |-> FALSE]}
       ELSE UNCHANGED <<mem, blocks>>
  /\ init' = limit /\ limit' = limit + BufferWords
  /\ addr_o' = limit /\ step' = "initialise"
  /\ UNCHANGED <<size, obj, moved>>

(* ... or not at all: the result is returned, and ALLOC prints a message.  *)
ReserveFails ==
  /\ step = "reserve" /\ step' = "idle"
  /\ UNCHANGED <<mem, init, limit, size, addr_o, obj, blocks, moved>>

ObjHoisted == IF obj = NULL THEN addr_o ELSE obj   \* mutant: set before the loop
stub       == addr_o

(* The header, and zeroes in all fields.                                   *)
Initialised(m, a, n) ==
  [b \in DOMAIN m |-> IF b = a THEN Header(OBJ_MPS_TYPE_OBJECT, n)
                      ELSE IF b \in a + 1 .. a + n - 1 THEN Field(0) ELSE m[b]]

Initialise ==
  /\ step = "initialise"
  /\ obj' = stub
  /\ mem' = Initialised(mem, obj', size)
  /\ step' = "commit"
  /\ UNCHANGED <<init, limit, size, addr_o, blocks, moved>>

Commit ==
  /\ step = "commit"
  /\ blocks' = blocks \cup {[at |-> addr_o, size |-> size, object |-> TRUE]}
  /\ init' = addr_o + size /\ step' = "idle"
  /\ UNCHANGED <<mem, limit, size, addr_o, obj, moved>>

(* A collection has begun since the reservation.                           *)
CommitFails ==
  /\ step = "commit" /\ step' = "reserve"
  /\ UNCHANGED <<mem, init, limit, size, addr_o, obj, blocks, moved>>

obj_skip(a)  == a + mem[a].val
obj_isfwd(a) ==
  IF mem[a].what = "header" /\ mem[a].type = OBJ_MPS_TYPE_FORWARD
    THEN mem[a + 1].val ELSE NULL

ForwardInHeader(old, new) ==                       \* mutant: the size is lost
  [mem EXCEPT ![old] = Header(OBJ_MPS_TYPE_FORWARD, new), ![old + 1] = Field(new)]
obj_fwd(old, new) ==
  [b \in DOMAIN mem |->
     IF b = old THEN Header(OBJ_MPS_TYPE_FORWARD, obj_skip(old) - old)
     ELSE IF b = old + 1 THEN Field(new) ELSE mem[b]]

(* The collector has copied a committed object, and leaves its new address *)
(* in the old one.                                                         *)
Move(b) ==
  /\ b.object /\ b.at \notin DOMAIN moved
  /\ LET new == HeapWords + b.at
     IN  /\ mem' = obj_fwd(b.at, new)
         /\ moved' = [a \in DOMAIN moved \cup {b.at} |-> IF a = b.at THEN new ELSE moved[a]]
  /\ UNCHANGED <<init, limit, size, addr_o, obj, step, blocks>>

AllocNext ==
  \/ \E n \in Sizes : Call(n)
  \/ Reserve \/ ReserveInNewBuffer \/ ReserveFails
  \/ Initialise \/ Commit \/ CommitFails
  \/ \E b \in blocks : Move(b)

AllocSpec == AllocInit /\ [][AllocNext]_allocVars

-----------------------------------------------------------------------------
(* The words of a block.                                                   *)
Words(b) == b.at .. b.at + b.size - 1

(* The collector walks the heap by obj_skip (vm.c): whatever was committed, *)
(* given up after a failed commit, padded or moved, the walk goes from one *)
(* block to the next, and meets no word that is not of a block.            *)
WalkInStep ==
  /\ \A a \in 0 .. init - 1 : \E b \in blocks : a \in Words(b)
  /\ \A b \in blocks : /\ b.at + b.size <= init
                       /\ \A c \in blocks \ {b} : Words(b) \cap Words(c) = {}
  /\ \A b \in blocks : mem[b.at].what = "header" /\ obj_skip(b.at) = b.at + b.size

(* However often mps_alloc_obj (alloc.c) had to begin again: a committed   *)
(* object has the header of an object and all its fields are initialised,  *)
(* until the collector moves it.                                           *)
ObjectsComplete ==
  \A b \in blocks : b.object /\ b.at \notin DOMAIN moved =>
    /\ mem[b.at] = Header(OBJ_MPS_TYPE_OBJECT, b.size)
    /\ \A a \in Words(b) \ {b.at} : mem[a].what = "field"

(* obj_isfwd (vm.c) tells the new address of every block that was moved    *)
(* and of no other: the forwarding address fits into every object, because *)
(* mps_alloc_obj asserts that it has a field.                              *)
ForwardingFound ==
  \A b \in blocks :
    obj_isfwd(b.at) = IF b.at \in DOMAIN moved THEN moved[b.at] ELSE NULL

=============================================================================
