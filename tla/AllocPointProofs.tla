-------------------------- MODULE AllocPointProofs ---------------------------
(* Proofs about AllocPoint, for all sizes of objects, buffers and heap.    *)
EXTENDS AllocPoint, TLAPS

Block == [at : Nat, size : Nat \ {0}, object : BOOLEAN]

(* The blocks of B fill the words below e, without overlap.                *)
Tiled(B, e) ==
  /\ B \subseteq Block
  /\ \A a \in 0 .. e - 1 : \E b \in B : a \in Words(b)
  /\ \A b \in B : /\ b.at + b.size <= e
                  /\ \A c \in B \ {b} : Words(b) \cap Words(c) = {}

(* What the words of a block are, before and after it has been moved.      *)
Complete(m, a, n) ==
  /\ m[a] = Header(OBJ_MPS_TYPE_OBJECT, n)
  /\ \A w \in a + 1 .. a + n - 1 : m[w].what = "field"

Holds(m, mv, b) ==
  IF b.at \in DOMAIN mv
    THEN /\ b.object
         /\ m[b.at] = Header(OBJ_MPS_TYPE_FORWARD, b.size)
         /\ m[b.at + 1].val = mv[b.at]
    ELSE IF b.object THEN Complete(m, b.at, b.size)
                     ELSE m[b.at] = Header(OBJ_MPS_TYPE_PADDING, b.size)

BufferInv ==
  /\ init \in Nat /\ limit \in Nat /\ init <= limit /\ limit <= HeapWords
  /\ DOMAIN mem = 0 .. HeapWords - 1

StepInv ==
  /\ step \in {"idle", "aborted", "reserve", "initialise", "commit"}
  /\ step \in {"reserve", "initialise", "commit"} => size \in 2 .. BufferWords
  /\ step \in {"initialise", "commit"} => addr_o = init /\ init + size <= limit
  /\ step = "commit" => Complete(mem, init, size)

BlockInv ==
  /\ Tiled(blocks, init)
  /\ \A b \in blocks : (b.object => b.size > 1) /\ Holds(mem, moved, b)
  /\ DOMAIN moved \subseteq 0 .. init - 1

AllocInv == BufferInv /\ StepInv /\ BlockInv

-----------------------------------------------------------------------------
(* A block behind the last one keeps the tiling.                           *)
LEMMA TiledAppend ==
  ASSUME NEW B, NEW e \in Nat, Tiled(B, e), NEW n \in Nat \ {0}, NEW o \in BOOLEAN
  PROVE  Tiled(B \cup {[at |-> e, size |-> n, object |-> o]}, e + n)
<1> DEFINE new == [at |-> e, size |-> n, object |-> o]
           C == B \cup {new}
<1>1. C \subseteq Block
  BY DEF Tiled, Block
<1>2. ASSUME NEW a \in 0 .. e + n - 1 PROVE \E b \in C : a \in Words(b)
  <2>1. CASE a < e
    BY <2>1 DEF Tiled
  <2>2. CASE a >= e
    <3>1. a \in Words(new)
      BY <2>2 DEF Words
    <3> QED BY <3>1
  <2> QED BY <2>1, <2>2
<1>3. ASSUME NEW b \in C PROVE b.at + b.size <= e + n
  BY DEF Tiled, Block
<1>4. ASSUME NEW b \in B PROVE Words(b) \cap Words(new) = {}
  BY DEF Tiled, Block, Words
<1>5. ASSUME NEW b \in C, NEW c \in C \ {b} PROVE Words(b) \cap Words(c) = {}
  BY <1>4 DEF Tiled
<1> QED BY <1>1, <1>2, <1>3, <1>5 DEF Tiled

(* Two blocks are disjoint; a block starts below the end.                  *)
LEMMA TiledApart ==
  ASSUME NEW B, NEW e \in Nat, Tiled(B, e), NEW b \in B, NEW c \in B, b # c
  PROVE  /\ b.at # c.at
         /\ Words(b) \cap Words(c) = {}
<1>1. b \in Block /\ c \in Block /\ Words(b) \cap Words(c) = {}
  BY DEF Tiled
<1>2. b.at \in Words(b) /\ c.at \in Words(c)
  BY <1>1 DEF Block, Words
<1> QED BY <1>1, <1>2

(* What a block holds depends on its own words and on its own move.        *)
LEMMA HoldsKept ==
  ASSUME NEW m, NEW m2, NEW mv, NEW mv2, NEW b \in Block,
         b.object => b.size > 1,
         Holds(m, mv, b),
         \A a \in Words(b) : m2[a] = m[a],
         b.at \in DOMAIN mv2 <=> b.at \in DOMAIN mv,
         b.at \in DOMAIN mv => mv2[b.at] = mv[b.at]
  PROVE  Holds(m2, mv2, b)
<1>1. b.at \in Words(b) /\ (b.object => b.at + 1 \in Words(b))
  BY DEF Block, Words
<1>2. \A w \in b.at + 1 .. b.at + b.size - 1 : w \in Words(b)
  BY DEF Block, Words
<1>3. CASE b.at \in DOMAIN mv
  BY <1>1, <1>3 DEF Holds
<1>4. CASE b.at \notin DOMAIN mv
  BY <1>1, <1>2, <1>4 DEF Holds, Complete
<1> QED BY <1>3, <1>4

-----------------------------------------------------------------------------
LEMMA AllocInitInv == AllocInit => AllocInv
<1> SUFFICES ASSUME AllocInit PROVE AllocInv OBVIOUS
<1> USE AllocAssumption DEF AllocInit
<1>1. BufferInv
  BY DEF BufferInv
<1>2. StepInv
  BY DEF StepInv
<1>3. BlockInv
  BY DEF BlockInv, Tiled
<1> QED BY <1>1, <1>2, <1>3 DEF AllocInv

LEMMA CallInv ==
  ASSUME AllocInv, NEW n \in Sizes, Call(n)
  PROVE  AllocInv'
<1> USE AllocAssumption DEF Call, size_assert, AllocInv
<1>1. BufferInv'
  BY DEF BufferInv
<1>2. StepInv'
  BY DEF StepInv
<1>3. BlockInv'
  BY DEF BlockInv
<1> QED BY <1>1, <1>2, <1>3

LEMMA ReserveInv ==
  ASSUME AllocInv, Reserve
  PROVE  AllocInv'
<1> USE AllocAssumption DEF Reserve, AllocInv
<1>1. BufferInv'
  BY DEF BufferInv
<1>2. StepInv'
  BY DEF StepInv, BufferInv
<1>3. BlockInv'
  BY DEF BlockInv
<1> QED BY <1>1, <1>2, <1>3

LEMMA NewBufferInv ==
  ASSUME AllocInv, ReserveInNewBuffer
  PROVE  AllocInv'
<1> USE AllocAssumption DEF AllocInv
<1>1. BufferInv'
  BY DEF BufferInv, ReserveInNewBuffer, obj_pad
<1>2. StepInv'
  BY DEF StepInv, BufferInv, ReserveInNewBuffer
<1>3. BlockInv'
  <2>1. CASE init >= limit
    <3>1. init = limit /\ UNCHANGED <<mem, blocks, init, moved>>
      BY <2>1 DEF BufferInv, ReserveInNewBuffer
    <3> QED BY <3>1 DEF BlockInv
  <2>2. CASE init < limit
    <3> DEFINE n   == limit - init
               pad == [at |-> init, size |-> n, object |-> FALSE]
    <3>1. /\ n \in Nat \ {0} /\ init + n = limit
          /\ mem' = obj_pad(mem, init, n)
          /\ blocks' = blocks \cup {pad}
          /\ init' = limit /\ moved' = moved
      BY <2>2 DEF BufferInv, ReserveInNewBuffer
    <3>2. Tiled(blocks', init')
      BY <3>1, TiledAppend DEF BlockInv, BufferInv
    <3>3. DOMAIN moved' \subseteq 0 .. init' - 1
      BY <3>1, <2>2 DEF BlockInv, BufferInv
    <3>4. Holds(mem', moved', pad)
      <4>1. init \notin DOMAIN moved
        BY DEF BlockInv, BufferInv
      <4>2. mem'[init] = Header(OBJ_MPS_TYPE_PADDING, n)
        BY <3>1, <2>2 DEF obj_pad, BufferInv
      <4> QED BY <4>1, <4>2, <3>1 DEF Holds
    <3>5. ASSUME NEW b \in blocks
          PROVE  (b.object => b.size > 1) /\ Holds(mem', moved', b)
      <4>1. b \in Block /\ b.at + b.size <= init
        BY DEF BlockInv, Tiled
      <4>2. \A a \in Words(b) : a # init
        BY <4>1 DEF Words, Block, BufferInv
      <4>3. \A a \in Words(b) : mem'[a] = mem[a]
        BY <4>2, <3>1 DEF obj_pad
      <4> QED BY <4>1, <4>3, <3>1, HoldsKept DEF BlockInv
    <3>6. ASSUME NEW b \in blocks'
          PROVE  (b.object => b.size > 1) /\ Holds(mem', moved', b)
      <4>1. CASE b = pad
        BY <4>1, <3>4
      <4> QED BY <4>1, <3>5, <3>1
    <3> QED BY <3>2, <3>3, <3>6 DEF BlockInv
  <2> QED BY <2>1, <2>2 DEF BufferInv
<1> QED BY <1>1, <1>2, <1>3

LEMMA InitialiseInv ==
  ASSUME AllocInv, Initialise
  PROVE  AllocInv'
<1> USE AllocAssumption DEF AllocInv
<1>1. /\ step = "initialise" /\ addr_o = init /\ init + size <= limit
      /\ size \in 2 .. BufferWords
      /\ mem' = Initialised(mem, init, size) /\ step' = "commit"
      /\ UNCHANGED <<init, limit, size, addr_o, blocks, moved>>
  BY DEF Initialise, stub, StepInv
<1>2. BufferInv'
  BY <1>1 DEF BufferInv, Initialised
<1>3. Complete(mem', init, size)
  BY <1>1 DEF Complete, Initialised, BufferInv, Header, Field
<1>4. StepInv'
  BY <1>1, <1>3 DEF StepInv
<1>5. ASSUME NEW b \in blocks
      PROVE  (b.object => b.size > 1) /\ Holds(mem', moved', b)
  <2>1. b \in Block /\ b.at + b.size <= init
    BY DEF BlockInv, Tiled
  <2>2. \A a \in Words(b) : a \in DOMAIN mem /\ a < init
    BY <2>1 DEF Words, Block, BufferInv
  <2>3. \A a \in Words(b) : mem'[a] = mem[a]
    BY <2>1, <2>2, <1>1 DEF Initialised, Words, Block, BufferInv
  <2> QED BY <2>1, <2>3, <1>1, HoldsKept DEF BlockInv
<1>6. BlockInv'
  BY <1>1, <1>5 DEF BlockInv
<1> QED BY <1>2, <1>4, <1>6

LEMMA CommitInv ==
  ASSUME AllocInv, Commit
  PROVE  AllocInv'
<1> USE AllocAssumption DEF AllocInv
<1> DEFINE new == [at |-> init, size |-> size, object |-> TRUE]
<1>1. /\ step = "commit" /\ addr_o = init /\ init + size <= limit
      /\ size \in 2 .. BufferWords /\ Complete(mem, init, size)
      /\ blocks' = blocks \cup {new} /\ init' = init + size /\ step' = "idle"
      /\ UNCHANGED <<mem, limit, size, addr_o, obj, moved>>
  BY DEF Commit, StepInv
<1>2. BufferInv'
  BY <1>1 DEF BufferInv
<1>3. StepInv'
  BY <1>1 DEF StepInv
<1>4. Tiled(blocks', init')
  <2>1. init \in Nat /\ size \in Nat \ {0} /\ Tiled(blocks, init)
    BY <1>1 DEF BlockInv, BufferInv
  <2>2. Tiled(blocks \cup {new}, init + size)
    BY <2>1, TiledAppend
  <2> QED BY <2>2, <1>1
<1>5. DOMAIN moved' \subseteq 0 .. init' - 1
  BY <1>1 DEF BlockInv, BufferInv, Tiled
<1>6. Holds(mem', moved', new)
  BY <1>1 DEF Holds, BlockInv, BufferInv
<1>7. ASSUME NEW b \in blocks'
      PROVE  (b.object => b.size > 1) /\ Holds(mem', moved', b)
  <2>1. CASE b \in blocks
    BY <2>1, <1>1 DEF BlockInv
  <2>2. CASE b = new
    BY <2>2, <1>1, <1>6
  <2> QED BY <2>1, <2>2, <1>1
<1>8. BlockInv'
  BY <1>4, <1>5, <1>7 DEF BlockInv
<1> QED BY <1>2, <1>3, <1>8

LEMMA MoveInv ==
  ASSUME AllocInv, NEW d \in blocks, Move(d)
  PROVE  AllocInv'
<1> USE AllocAssumption DEF AllocInv
<1> DEFINE new == HeapWords + d.at
<1>1. /\ d.object /\ d.at \notin DOMAIN moved
      /\ mem' = obj_fwd(d.at, new)
      /\ moved' = [a \in DOMAIN moved \cup {d.at} |-> IF a = d.at THEN new ELSE moved[a]]
      /\ UNCHANGED <<init, limit, size, addr_o, obj, step, blocks>>
  BY DEF Move
<1>2. /\ d \in Block /\ d.at + d.size <= init /\ d.size > 1
      /\ Complete(mem, d.at, d.size)
  BY <1>1 DEF BlockInv, Tiled, Holds
<1>3. obj_skip(d.at) - d.at = d.size
  BY <1>2 DEF obj_skip, Complete, Header, Block
<1>4. /\ DOMAIN mem' = DOMAIN mem
      /\ mem'[d.at] = Header(OBJ_MPS_TYPE_FORWARD, d.size)
      /\ mem'[d.at + 1] = Field(new)
      /\ \A a \in DOMAIN mem : a \notin {d.at, d.at + 1} => mem'[a] = mem[a]
  BY <1>1, <1>2, <1>3 DEF obj_fwd, BufferInv, Block
<1>5. BufferInv'
  BY <1>1, <1>4 DEF BufferInv
<1>6. StepInv'
  <2>1. ASSUME step = "commit" PROVE Complete(mem', init, size)
    <3>1. /\ Complete(mem, init, size) /\ size \in 2 .. BufferWords
          /\ init + size <= limit
      BY <2>1 DEF StepInv
    <3>2. \A a \in init .. init + size - 1 :
            a \in DOMAIN mem /\ a \notin {d.at, d.at + 1}
      BY <3>1, <1>2 DEF BufferInv, Block
    <3>3. \A a \in init .. init + size - 1 : mem'[a] = mem[a]
      BY <3>2, <1>4
    <3> QED BY <3>1, <3>3 DEF Complete, BufferInv
  <2> QED BY <2>1, <1>1 DEF StepInv
<1>7. Holds(mem', moved', d)
  BY <1>1, <1>2, <1>4 DEF Holds, Field
<1>8. ASSUME NEW b \in blocks, b # d
      PROVE  (b.object => b.size > 1) /\ Holds(mem', moved', b)
  <2>1. b \in Block /\ b.at + b.size <= init
    BY DEF BlockInv, Tiled
  <2>2. b.at # d.at /\ Words(b) \cap Words(d) = {}
    BY <1>8, TiledApart DEF BlockInv, BufferInv
  <2>3. d.at \in Words(d) /\ d.at + 1 \in Words(d)
    BY <1>2 DEF Words, Block
  <2>4. \A a \in Words(b) : a \in DOMAIN mem
    BY <2>1 DEF Words, Block, BufferInv
  <2>5. \A a \in Words(b) : mem'[a] = mem[a]
    BY <2>2, <2>3, <2>4, <1>4
  <2>6. /\ b.at \in DOMAIN moved' <=> b.at \in DOMAIN moved
        /\ b.at \in DOMAIN moved => moved'[b.at] = moved[b.at]
    BY <2>2, <1>1
  <2> QED BY <2>1, <2>5, <2>6, HoldsKept DEF BlockInv
<1>9. DOMAIN moved' \subseteq 0 .. init' - 1
  BY <1>1, <1>2 DEF BlockInv, BufferInv, Block
<1>10. BlockInv'
  BY <1>1, <1>2, <1>7, <1>8, <1>9 DEF BlockInv
<1> QED BY <1>5, <1>6, <1>10

LEMMA AllocNextInv == AllocInv /\ [AllocNext]_allocVars => AllocInv'
<1> SUFFICES ASSUME AllocInv, [AllocNext]_allocVars PROVE AllocInv' OBVIOUS
<1>1. CASE \E n \in Sizes : Call(n)
  BY <1>1, CallInv
<1>2. CASE Reserve
  BY <1>2, ReserveInv
<1>3. CASE ReserveInNewBuffer
  BY <1>3, NewBufferInv
<1>4. CASE ReserveFails
  BY <1>4 DEF ReserveFails, AllocInv, BufferInv, StepInv, BlockInv
<1>5. CASE Initialise
  BY <1>5, InitialiseInv
<1>6. CASE Commit
  BY <1>6, CommitInv
<1>7. CASE CommitFails
  BY <1>7 DEF CommitFails, AllocInv, BufferInv, StepInv, BlockInv
<1>8. CASE \E b \in blocks : Move(b)
  BY <1>8, MoveInv
<1>9. CASE UNCHANGED allocVars
  BY <1>9 DEF allocVars, AllocInv, BufferInv, StepInv, BlockInv
<1> QED BY <1>1, <1>2, <1>3, <1>4, <1>5, <1>6, <1>7, <1>8, <1>9 DEF AllocNext

LEMMA AllocAlways == AllocSpec => []AllocInv
BY AllocInitInv, AllocNextInv, PTL DEF AllocSpec

-----------------------------------------------------------------------------
(* What the blocks hold gives the three properties.                        *)
LEMMA AllocInvImplies == AllocInv => WalkInStep /\ ObjectsComplete /\ ForwardingFound
<1> SUFFICES ASSUME AllocInv PROVE WalkInStep /\ ObjectsComplete /\ ForwardingFound
  OBVIOUS
<1>1. ASSUME NEW b \in blocks
      PROVE  /\ b \in Block /\ Holds(mem, moved, b)
             /\ mem[b.at].what = "header" /\ mem[b.at].val = b.size
  BY DEF AllocInv, BlockInv, Tiled, Holds, Complete, Header
<1>2. WalkInStep
  BY <1>1 DEF WalkInStep, AllocInv, BlockInv, Tiled, obj_skip
<1>3. ObjectsComplete
  <2>1. \A b \in blocks : \A a \in Words(b) \ {b.at} : a \in b.at + 1 .. b.at + b.size - 1
    BY <1>1 DEF Words, Block
  <2> QED BY <1>1, <2>1 DEF ObjectsComplete, Holds, Complete
<1>4. ASSUME NEW b \in blocks
      PROVE  obj_isfwd(b.at) = IF b.at \in DOMAIN moved THEN moved[b.at] ELSE NULL
  <2>1. Holds(mem, moved, b)
    BY <1>1
  <2>2. CASE b.at \in DOMAIN moved
    <3>1. /\ mem[b.at] = Header(OBJ_MPS_TYPE_FORWARD, b.size)
          /\ mem[b.at + 1].val = moved[b.at]
      BY <2>1, <2>2 DEF Holds
    <3>2. mem[b.at].what = "header" /\ mem[b.at].type = OBJ_MPS_TYPE_FORWARD
      BY <3>1 DEF Header
    <3> QED BY <2>2, <3>1, <3>2 DEF obj_isfwd
  <2>3. CASE b.at \notin DOMAIN moved
    <3>1. \/ mem[b.at] = Header(OBJ_MPS_TYPE_OBJECT, b.size)
          \/ mem[b.at] = Header(OBJ_MPS_TYPE_PADDING, b.size)
      BY <2>1, <2>3 DEF Holds, Complete
    <3>2. mem[b.at].type \in {OBJ_MPS_TYPE_OBJECT, OBJ_MPS_TYPE_PADDING}
      BY <3>1 DEF Header
    <3>3. mem[b.at].type # OBJ_MPS_TYPE_FORWARD
      BY <3>2 DEF OBJ_MPS_TYPE_OBJECT, OBJ_MPS_TYPE_PADDING, OBJ_MPS_TYPE_FORWARD
    <3> QED BY <2>3, <3>3 DEF obj_isfwd
  <2> QED BY <2>2, <2>3
<1>5. ForwardingFound
  BY <1>4 DEF ForwardingFound
<1> QED BY <1>2, <1>3, <1>5

(* The collector's walk by obj_skip (vm.c) meets exactly the blocks, for   *)
(* every size of objects, of buffers and of the heap.                      *)
THEOREM WalksInStep == AllocSpec => []WalkInStep
BY AllocAlways, AllocInvImplies, PTL

(* A committed object is complete, however often its allocation was begun  *)
(* again (mps_alloc_obj in alloc.c).                                       *)
THEOREM CommittedComplete == AllocSpec => []ObjectsComplete
BY AllocAlways, AllocInvImplies, PTL

(* obj_isfwd (vm.c) finds the new address of the moved objects, and of no  *)
(* other block.                                                            *)
THEOREM ForwardingExact == AllocSpec => []ForwardingFound
BY AllocAlways, AllocInvImplies, PTL

=============================================================================
