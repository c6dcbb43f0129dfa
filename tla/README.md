# Verification of clojit-cvm

clojit-cvm is a bytecode virtual machine in C for a Clojure compiler. It maps a
compiled file into memory, then one thread interprets its instructions on an
array of tagged 64-bit slots, with the Memory Pool System (MPS) as collector.
This directory holds TLA+ models of it, the TLC configurations that check them
and the TLAPS proofs about them. Paths are relative to `src/`.

## Inventory

| Component | State | Operations | Used by | What must hold |
|---|---|---|---|---|
| Slot words (`slots.c` from line 158) | none | constructors, predicates, accessors of tagged words | interpreter, builtins, printing | kinds of words are told apart; an integer stays one |
| Slot array (`slots.c` to line 155) | `size`, `capacity`, `data`, `root_o` | init, append, get (which may halve), set (which may double), and the assignment of `size` in RET | `vm.c` get/set/move | reads return what was written, growth yields nil, the words fit the buffer, the collector has the live buffer registered and no freed one |
| Interpreter (`execute.c`, `vm.c` 138-171) | `pc`, `ip`, `base`, the slots, the context stack, the symbol table | one case per instruction | `main.c` | a function touches only its own frame and those it opens; calls and returns match; known causes of death only |
| Context stack (`stack.c`) | `top`, `capacity`, `data` | init, push (realloc when full), pop (exit below 0) | CALL, RET | last in, first out |
| Symbol table (`vm.c` 165-171, glib) | names to words | insert, lookup | NSSET, NSGET, builtins | a lookup gives the last insertion, or nil |
| Builtins (`builtin.c`) | none | println | CALL | leaves nil in the caller's result slot |
| Printing (`print.c`) | none | print_slot, println_slot, print_slots | println, CALL's error, debug output | terminates; follows only real pointers |
| Loader (`loader.c`) | `struct sections` | loadfile, parse (one case per section) | start | each section is found at its offset; an error is reported as one |
| Vtables and types (`loader.c`) | two hash tables | add, get | loader, ALLOC | an entry is found under its own key |
| Hash library (`uthash.h`) | buckets, chains, the counters that steer expansion | add, find, expand | vtables and types | no record is lost or doubled; chains stay bounded |
| Object format (`vm.c` 29-84) | headers of objects | scan, skip, fwd, isfwd, pad | the collector | every field is fixed, walks stay in step with the objects |
| Allocation point (`alloc.c`) | the reserved object | reserve, initialise, commit, repeat | ALLOC | a committed object is initialised |
| Life cycle (`vm.c` 176-256) | arena, chain, pools, roots | vm_init, free_vm | start | what runs has what it needs; pointers do not outlive what they point to |
| Entry, debug level, build, test runner | - | - | - | - |

Everything runs in one thread. There is no persistence and no message. What is
hard here is: the return address of a call lives in an ordinary slot, and the
frame of a caller is protected by nothing but arithmetic on `base`; truncation,
growth and halving of the slot array are spread over three files; the tags of
words are damaged by sign extension; nothing verifies the bytecode; the
collector can run inside an allocation; the loader computes where a section is
from everything it has read before; and failures are printed, not handled.

## Modules

| Module | Models |
|---|---|
| `SlotWords` | words as `[tag, val]`, the constructors with their sign extension, the predicates and accessors. `ShortHalf`, `IntHalf`, `PayMod` are 2^15, 2^31 and 2^48 in the code, any values in these proportions in the model |
| `SlotOps` | slot arrays as their users see them: set, clear, truncate, move |
| `SlotLoops` | the loops of BULKMOV and of CALL's clearing, one word per step |
| `SlotLoopsProofs` | proofs about `SlotLoops` |
| `SlotMemory` | the promise of the slot array, as a specification |
| `SlotArray` | `slots.c`: buffers and roots, one step per appended word and four per resize |
| `SlotArrayProofs` | proofs about `SlotArray` |
| `Execute` | `start()`: one action per instruction, with the parts of `vm.c`, `stack.c`, `builtin.c` and `print.c` it calls |
| `ExecuteProofs` | proofs about `Execute` |
| `CallReturn` | what CALL and RET promise, as a stack of return addresses and frames out of the program's reach |
| `Calls` | the calling convention (`Compliant`), and what it guarantees |
| `Bytecode` | notation for programs |
| `Fixtures` | the compiled programs of the repository, with any argument, and what they compute |
| `CallsProofs` | proofs about `Calls` and `Fixtures` |
| `ContextLifo` | the promise of the context stack |
| `ContextStack` | `stack.c`: buffer, capacity, realloc |
| `ContextStackProofs` | proofs about `ContextStack` |
| `Loader` | `loadfile`, `parse` and what `start` does with their result; one action per kind of section |
| `LoaderProofs` | proofs about `Loader` and `Lifecycle` |
| `KeyedTable` | the promise of the tables of vtables and types |
| `HashTable` | those tables as `uthash.h` builds them: chains, expansion, lookup |
| `HashTableProofs` | proofs about `HashTable` |
| `AllocPoint` | `mps_alloc_obj`, one step per call, with the object format (`obj_skip`, `obj_fwd`, `obj_isfwd`, `obj_pad`) and the collector's side |
| `AllocPointProofs` | proofs about `AllocPoint` |
| `Lifecycle` | `start`: the loader, then `vm_init`, with every failure |
| `MC*` | the instances TLC checks |

Composition: `SlotArray` implements `SlotMemory` (refinement mapping in
`SlotArray`), whose operators, those of `SlotOps`, are what `Execute` computes
with; `SlotLoops` shows that two of these operators are what the code's loops
do; `Calls` extends `Execute` and shows that it implements `CallReturn`.
`ContextStack` implements `ContextLifo`, whose pushes and pops are those
`Execute` makes on its sequence `stack`. `HashTable` implements `KeyedTable`.
`Loader` ends with the sections `Execute` starts from (`IsProgram`).
`Lifecycle` extends `Loader` and runs `vm_init` behind it, as `start` does.
`AllocPoint` is what ALLOC calls; `Execute` only takes its outcome (`Alloc`).

### How the models correspond to the code

*State.* `Execute` has `vm.pc`, `vm.ip`, `vm.base`, `vm.slots`, `vm.stack`,
`vm.symbol_table` as variables of the same names; `prog` is `struct sections`
and never changes; `status` tells how the process ended, if it has. `SlotArray`
has the fields of `Slots` (`data` as an address and the words there), the set of
roots the collector has for slots, each with the buffer and the words it covers,
`resizing` for the local variables of a resize, and `todo` for the pending call
of slots_set or slots_get.

*Resizing.* slots_half_capacity and slots_double_capacity_if_full differ in the
new capacity only. A resize takes four steps: `Resize` (the new capacity, malloc
and `root_o_old`), `Register` (the root is made, or refused and printed),
`Replace` (copy, free, the assignments) and `DestroyOld`. A refused root leaves
its handle unset (`Garbage`), and the resize goes on; the next one destroys what
that handle names: no root, in which case MPS kills the process or damages its
memory, or any root of the process, the one of the live buffer included.
slots_init may be refused its root as well. malloc's NULL ends the process
(`NoMemory`): `mps_root_create_table_masked` asserts that its base is not NULL.

*Actions.* Each action of `Execute` is a whole case of the switch. An
instruction without code of its own (NOT, NEG, POWVV, the comparisons other
than ISEQ, APPLY, the closures, the arrays, FUNCF, ...) is `Skip`. Every read
goes through `slots_get`, which exits past the end: `SlotError` is that exit,
for the slots `reads` names, and the other actions have `readable` as guard.
When the process stops in the middle of an instruction, what it had already
written is dropped from the final state, which nobody can read any more.

*Words.* Operations that OR a sign-extended integer over a tag do so in the
model, so negative integers become words with tag 0xFFFF. `get_double`
dereferences the bits of the double as an address; no process has memory there,
so every use of a double is a crash. No instruction produces a double: only raw
memory read by GETFIELD can (`RawWords`).

*Undefined behaviour.* `wild` stands for a process that has overwritten memory
or executes what is not code. ALLOC works through a pointer into the frame of
`vm_init` and reads the types as an array though they are a linked list: it may
leave the slots alone, crash, or go wild. An overflow of `int32_t` arithmetic
is taken to wrap: the compiler passes the 32-bit result to `to_small_int`, in
another translation unit, in a register.

*Bytecode.* The compiler is not in the repository (its jar is, as a test
tool). `Programs` is therefore a constant, and theorems about `Execute` hold
for every set of programs. `Calls!Compliant` is the convention the compiler
has to follow for returns to match calls; it is an assumption on programs, not
a claim about the compiler. The programs the compiler has made of the
repository's tests do follow it (`FixturesComply`, which the runs on `MCFixtures`
evaluate). That execution starts outside functions is part of it, since a function
entered at the start has no call to return to.

*The loader.* A file is a sequence of sections, each with its place; `Extent`
and `start` say what the file format is, as the string and the integer cases
agree on it. `offset` is computed as the code computes it, from what it has
read. At a wrong place a reading is anything (`Readings`). A table of vtables or
types is represented by the place its entries were read from; what the tables
then do is `HashTable`. debug_level is the constant 0 of `debug.c`, which is why
`Instructions` is the body of two cases: without their debug output, two `if`s
take the advance and the `break`.

*The hash tables.* A record is known by its position in the order of additions,
a chain is a sequence of them from `hh_head` on. The hash function (Jenkins')
is any of a set of functions. Expansion is one action: nothing else runs then.

*The collector.* MPS is not in the repository. `AllocPoint` assumes of it what
its interface says: `mps_reserve` gives the free words of a buffer, pads what
is left of a buffer before it takes another, `mps_commit` fails at any time,
and a committed object may be moved at any time, even while another is
reserved; `SlotArray` assumes that a root it refuses is not there, and that it
gives each root a handle of its own; `Lifecycle` assumes that it does not survive a NULL for a handle
(`start` clears the `VM`).

*Bounds in the models.* `MaxItems` bounds the records of a table, `HeapWords`
the heap; `Capacities` of `SlotArray` and of `ContextStack` ends at the largest
buffer `malloc` and `realloc` grant. `MaxDepth` bounds nested calls in
`Execute` (the code has no limit but memory).
Slot indices are not reduced modulo 2^32: with at most 255 slots per frame an
index gets there only after some 16 million nested calls, past any memory.

## Runs

| Run | Question | Instance |
|---|---|---|
| `slot_array` | Do the buffers implement the array, and do the roots follow them, however reads, writes, truncations, doubling and halving alternate, and whatever root is refused? | capacities 2, 4, 8 with initial 2, indices 0..5, two words and the garbage of malloc; two addresses, enough since there are at most two buffers at a time, and malloc may return the one just freed. Two halvings in a row, growth through two doublings, regrowth over stale words, and roots refused at the start and in any resize all happen |
| `slot_loops` | Is a move or clear of n words in one step what n iterations do? | arrays of 0..4 distinct words, operands 0..5, up to 5 iterations: all overlaps, both directions, every position of the end |
| `programs` | What can bytecode no compiler emits do to the slots of a caller, with any instruction of the interpreter? | 14 instructions in each of four places and two places to call from, 76832 programs; 31 x 31 pairs of instructions after each of 4 ways to make a word, in a frame at base 2; in such a frame, a call of println from above two of its variables, after each instruction; two nested calls; integers of 6 bits |
| `calls` | Do returns match calls in compliant programs, and do those without backward jumps stop? | a function of three open instructions that can call itself and println, called twice; only the compliant ones of these programs; three nested calls |
| `fixtures` | Do the compiled programs of the repository give their results? | the five `.cvmb` files with their one constant argument replaced by 0..127, all that CSHORT can carry at these widths; integers of 11 bits |
| `context_stack` | Do contexts come back in the order of the calls, through every realloc? | capacities 2, 4, 8 and two contexts: two doublings, pushes over popped words, underflow, realloc without memory |
| `loader` | Does `parse` find every section? What can fail before the interpreter starts all the same, and is it reported? | all files of at most three sections of eight kinds, one of them unknown, with 0 to 2 entries; all files of the compiler's seven sections in its order, with 0 to 2 entries each; for each every combination of failures in loading and in `vm_init` |
| `bad_file` (violation) | Is a failed load reported? | a file with one section of an unknown kind |
| `hash_table` | Does the table keep every record, find by key, and bound its chains? | three keys, two hash functions, 2 buckets at first, a threshold of 3, nine additions: expansions, one delayed by `expand_mult`, two ineffective ones that stop expansion, with chains that outgrow the bound only then |
| `alloc_point` | Are objects complete, and does the collector's walk stay in step? | objects of 1 (refused), 2 and 3 words, buffers of 4 words, 3 buffers: objects that fill a buffer, remainders of 1 to 3 words, any number of failed commits, moves at any time |
| `loop_test` (violation) | Does tests/simple_loop.clj end? | the compiled program up to its loop |
| `negative_modulo` (violation) | Does the modulo of integers fail only on floats? | (2 - 3) mod 2 |

The widths are small on purpose: with 6-bit integers sums and products
overflow, and with 5-bit operands addresses wrap, within a few instructions.
Deadlock is not checked, because the program really stops: at EXIT, on an
error, or at a bound (nested calls, records, heap). The small thresholds of the
tables make nine records do what takes hundreds at 32 buckets and a threshold
of 10; nothing in the code depends on their size.

### Properties

* `TypeOK`, `SlotsTypeOK`: one type invariant each.
* `BufferSound`: the words in use fit the buffer, the one a resize makes
  included, and have been written.
* `LiveRegistered`: until a refused root has been printed, the collector has
  exactly the live buffer's words registered, at every step of a resize: the new
  root before `data` moves, and the old one is the one destroyed.
* `NoStaleRoot`: whatever has been refused, a root is over the live buffer, over
  the one being filled, or about to be destroyed. Between `free` and
  `mps_root_destroy` there is a root over freed memory, but nothing allocates
  there, so no collection starts. That the destruction of an unset handle does
  not violate this is what the branch of `DestroyOld` for it shows. After a
  refusal the live buffer may be unregistered: no property claims otherwise.
* `GrowthSound`: what slots_set appends is nil and ends at its index (needed to
  see the array of `SlotMemory` while slots_set grows it).
* `ImplementsSlotMemory`: the refinement.
* `LoopsAsOneStep`: BULKMOV and CALL's clearing end with `SlotMove` and
  `SlotClear`, and BULKMOV exits exactly when a slot of `MoveReads` is missing.
* `BasesOrdered`: the frames lie in the order of the calls, and RET never cuts
  the array below the frame it returns to.
* `FrameIsolation`: no step changes or cuts off a slot below the running
  function's base.
* `CallerKept`: no CALL changes or cuts off a slot below the frame it opens, the
  caller's own variables included; in particular the loop that clears a
  builtin's slots does not. With `FrameIsolation` for the callee's instructions,
  what a caller keeps below the frame of a call outlives the call.
* `WordsMade`: in a program that takes no addresses (no CKEY, no GETFIELD) every
  slot and global holds a word that a constructor of `slots.c` has returned to
  an instruction; growth, truncation, the overwritten slots of BULKMOV and
  results that overflow bring up no other.
* `FaultCauses`: a program that takes no addresses (no CKEY, no GETFIELD) is
  killed by a signal only by a bad type or string number, SETFIELD, a
  division by zero (of which nothing in the repository says what it should do),
  printing a negative integer or calling the function at address 0. In particular never by INT_MIN / -1 (-1 is no integer word) and
  never by `get_double`.
* `ReturnAddresses`, `ImplementsCallReturn`: in compliant programs the word in
  the slot 0 of every active call is the address of the CALL that made it, and
  a return goes behind that CALL and to the frame it was made in.
* `MovesOn`, `Terminates`: a compliant program without backward jumps is never
  where it has been before, "where" being the CALLs that are active and the pc,
  so every return resumes behind its call; and it stops.
* `ReachesExit`, `ResultInSlot0`: the fixtures end, with their result in slot 0,
  no call left and the outermost frame running.
* `StackSound`: the contexts in use fit the buffer and have been pushed.
* `ImplementsLifo`: a pop gives the context of the matching push.
* `LoadTypeOK`: the type invariant of the loader. `InStep`: `parse` looks for
  every section up to the first types section where it is, in spite of the
  fallthrough and the two counts of the string sections. Sections behind the types,
  which do not advance the offset, are read at a wrong place, as anything.
  `SectionsFound`: whatever is read there, after a successful load the count and
  addresses of each section up to the types are the file's, unless a later
  section wrote over them: one of the same kind, or instructions behind the
  integers. The files of the run have types at every place.
* `ChainsSound`: what `HASH_FSCK` tests: no chain has a record twice, and the
  records of chain b are exactly those whose hash gives b. `ChainBound`: the bound the comments of `uthash.h`
  speak of. It has to be stated with the larger of the threshold and
  `ideal_chain_maxlen + 1`: a chain left by an expansion may be longer than the
  next multiple of the threshold when the ideal length is.
* `ImplementsKeyed`: a lookup finds a record of its key exactly if one was added.
* `WalkInStep`: the blocks below `init` fill the heap without overlap and
  `obj_skip` leads from each to the next. `ObjectsComplete`: a committed object
  is initialised to its end. `ForwardingFound`: `obj_isfwd` knows the moved
  objects and no other block.
* `StartedComplete`: if the interpreter starts after failures in `vm_init`, it
  has the arena, the chain, the thread, the format and both pools, since each
  is handed to a later call that does not survive its absence.
* `SilentFailures`: of all failures before the first instruction, only an
  unknown section and a buffer malloc refuses leave no message; and a message
  of the loader means that no section was set.

Each property of a passing run has a mutant of the code model, defined beside
the definition it replaces and marked as such, that breaks it.

### Fairness

`FairSpec` is weak fairness of `Next` as a whole: one thread runs `while (1)`
and takes its next step as long as it has one. No fairness is assumed of single
instructions or of a choice among outcomes. At `MaxDepth` the model stops where
the program would go on, so `Terminates` allows for it.

### Findings

* `loop_test`: the case of LOOP (`execute.c` 455-459) does not advance the pc,
  so it repeats; tests/simple_loop.clj:7 says `;; Result 10`.
* `negative_modulo`: a negative integer loses its tag in `to_small_int`
  (`slots.c` 239), and MODVV rejects it with "Called Modulo with Float"
  (`execute.c` 225).
* `bad_file`: `loadfile` (`loader.c` 315-318) returns `errno` when `parse` has
  failed, and no call has set it; `start` takes 0 for success, so "Couldn't load
  file" (`execute.c` 20) is not printed and the interpreter runs.

Two disagreements have no run, since no behaviour depends on them.
`HASH_ADD_INT` (`loader.c` 26) takes the first four bytes of the 64-bit pair of
protocol and type as the key, which are the type number, so the records of all
protocols of a type have one key; nothing calls `get_vtable_record`. And
`alloc.c` 3 wants the caller to root `addr_o`: ALLOC passes a local variable of
`start`, while the stack is scanned only from `marker` in the frame of `vm_init`
on; but ALLOC drops the address.

## Proofs

All theorems hold for every value of the constants that meets the named
assumptions: `WidthAssumption` (the three widths are in proportion),
`SlotArrayAssumption` (capacities are the initial one doubled),
`SlotLoopsAssumption` (a loop starts on a slot array), `ContextStackAssumption`
(the initial capacity is one), `FixtureWidths` (the constants of the fixtures fit their operands),
`LoaderAssumption` (files are as the format has
them), `HashTableAssumption` (records have keys, hash functions give naturals, the first
table has a bucket), `AllocAssumption` (a type's objects fit a buffer), and
`ProgramAssumption` (a file is a sequence of instructions with a string table;
its constants are words).

* `SlotArraySafe`: `SlotArraySpec => [](SlotsTypeOK /\ BufferSound /\ GrowthSound)`.
  The conjunction is inductive, through every step of a resize. The interesting step is halving: `Sparse`
  implies that half the capacity is at least the size, because
  `3 * (capacity \div 2) >= 5 * size`, and that the capacity is not the initial
  one, so half of it is again a capacity. `GrowthSound` is needed because
  slots_set takes many steps and only its pending call says why the words it
  has appended are nil. `GrownWordsNil` states that part by itself.
* `SlotArrayImplements`: `SlotArraySpec => ImplementsSlotMemory`. slots_set maps
  to a stutter until `SlotsStore`, which is `MemSet`, and the steps of a resize
  to stutters.
* `RootsFollowBuffer`, `RootsDieWithBuffer`: `SlotArraySpec => []LiveRegistered`
  and `SlotArraySpec => []NoStaleRoot`. Neither is inductive: which root is
  destroyed depends on a handle read before the new one was made. `RootsInv`
  says what roots there can be at each step of a resize (`FewRoots`), which
  handle names which of them (`HandlesRight`), that the new buffer is not the old
  one (`OldKept`), and that without a refusal all of them are there
  (`NoneMissing`).
* `LoopsCorrect`: `SlotLoopsSpec => []LoopsAsOneStep`. The invariant `LoopInv`
  says that after i iterations the array is the closed form for i words. Its
  step (`MoveStep`) is where overlapping ranges matter: moving up by d, word k
  comes from `from + k % d`, and the slot it is read from has been written
  d iterations before, from the same place (`RemainderShifts`).
* `TypeCorrect`, `FramesOrdered`, `FramesIsolated`, `CallersKept`: `Spec => []TypeOK`,
  `Spec => []BasesOrdered`, `Spec => FrameIsolation`, `Spec => CallerKept`. The invariant is
  `ExecuteInv == TypeOK /\ BasesOrdered`; frame isolation needs it because the
  truncation in RET keeps the callers' slots only if `base <= base + a` and the
  array is at least that long. Lemmas give, for each operation of `SlotOps`,
  the type of its result and the range it keeps (`Keeps`); each action has a
  lemma, and the proof of the step combines them.
* `OnlyMadeWords`, `FaultsHaveCauses`: `Spec => []WordsMade` and
  `Spec => []FaultCauses`. `FaultCauses` is not inductive: that arithmetic does
  not crash depends on what all earlier instructions have left in the slots. The
  invariant `SealedInv` adds to `ExecuteInv` that all words are of `MadeWords`;
  `MadeFacts` says what the predicates of `slots.c` make of these words (none
  passes `is_double`; one that passes `is_small_int` is not negative, so -1 is
  no divisor; one that passes `is_builtin` is println). Then an instruction that
  can crash does so for one of the causes listed.
* `IntegersReadBack`: `to_small_int` loses the tag of exactly the negative
  numbers and the value of none. It needs the third part of `WidthAssumption`,
  that the values beside a tag are a multiple of the 32 bits.
* `ReturnsMatchCalls`: `Spec => []ReturnAddresses`. `CallsInv` is `SealedInv` and,
  if the program is compliant, the property. `SealedInv` is what connects
  `Compliant`, which speaks of the code, with execution: a function word in a
  slot comes from some FNEW, so CALL enters a function, and only there. Every
  other instruction keeps the slots up to and including `base` (`Stays`); RET
  cuts and writes at the callee's base, which is above the slot of every call
  that remains active because `BasesOrdered` holds.
* `CallReturnImplemented`: if all programs are compliant,
  `Spec => ImplementsCallReturn`. Every instruction but CALL and RET is a step
  within a frame; CALL pushes its own address and its base, and that RET takes
  the same address from slot 0 and the same base from the context stack is
  `ReturnAddresses`.
* `ForwardProgramsMoveOn`: `Spec => MovesOn`, the safety half of `Terminates`. In
  the lexicographic order of `Position` an instruction raises the last component, CALL
  appends one, and RET drops the last and raises the one before, since the word
  in slot 0 is the address of the CALL there (`ReturnAddresses`). The order is
  not well founded for calls that nest without end, and that the next step is
  taken at all is fairness: termination itself is left to the run.
* `FixturesCompute`: if all programs are those of `Fixtures`,
  `Spec => []ResultInSlot0`, for every argument. The invariant `FixtureInv` has
  an assertion for each address of each program: what the stack is, which slots
  hold what, and what the slots of the callers still hold. The step goes by
  program and address; what one instruction does to the slots is stated once for
  all programs (`ConstantWrites`, `SumWrites`, `CallSteps`, `ReturnSteps`,
  `BuiltinSteps`, ...), and the words a callee leaves alone survive because
  nothing but its target is written (`Writes`). `FixtureWidths` says that the
  constants of the files fit the operands, and the sums 32 bits. The theorem is
  about what EXIT finds; that EXIT is reached is `ReachesExit`.
* `DivisionTruncates`: DIVVV and MODVV are C's division on every pair of operands
  on which the processor does not trap: quotient and remainder recompose the
  dividend, the remainder is smaller than the divisor and has the dividend's
  sign, and both results fit 32 bits. `\div` and `%` of TLA+ round down instead,
  so `CDiv` divides magnitudes.

* `ContextStackSafe`, `ContextStackImplements`: `StackSound` is inductive, and
  every push and pop of the buffer is one of the sequence of its first `top`
  contexts; an abstract push is `Append`, for which the buffer after realloc
  must agree with the old one below `top`.
* `LoaderInStep`, `LoaderFindsSections`: the invariant says where `parse` is
  (`offset` is the start of section `i`, as long as no types section has been
  passed) and what each kind's fields hold: the content of the last section
  that wrote them, if it came before the types were passed. A section read at a
  wrong place still writes the fields of its own kind only. It needs `LastEnd` for the advance over strings and, for the
  instruction section, that its second writer is the case of the integers.
  `LoaderTyped` covers the readings at wrong places as well.
* `ChainsAlwaysSound`, `ChainsBounded`: the invariant `HashInv` has for every
  bucket what `ChainsSound` says and `ChainBound`. A chain is taken apart record
  by record (`Moved`, a recursive function); `MovedFacts` says that the new chain
  of bucket b has exactly the records of the old chain that hash to b, and none
  twice. It is proved for all chains by a least counterexample: the library's
  principle that every nonempty set of naturals has a least element
  (`LeastElement`) takes a set where induction would take an operator. That a
  bucket b of the doubled table is fed by bucket b modulo n only is `HalfBucket`.
  For the bound, an addition below the threshold of expansion leaves the chain
  below it, and expansion gives each bucket the quotient of its length and the
  ideal length as its multiplier.
* `HashTableImplements`: `HashTableSpec => ImplementsKeyed`. The abstract table
  is the order of additions; the first record of the chain with the key exists
  if any record has the key, because that record is in the chain of its hash.
* `WalksInStep`, `CommittedComplete`, `ForwardingExact`: the invariant
  `AllocInv` has three parts: the buffer, the pending allocation (the object is
  reserved at `init`, fits the buffer, and is complete when it is to be
  committed) and the blocks (`Tiled`, and `Holds` for each). The interesting step is
  `Move` during a pending allocation: it writes the first two words of a block,
  which lie in that block because a committed object has a field, and below
  `init`, so neither the object reserved nor another block is touched.

* `HeapWhenStarted`, `FewSilentFailures`: `StepsDone` keeps, for each step of
  `vm_init` done, that its handles were there and that it succeeded, was printed
  or is a buffer; as each resource is made by one step only, nothing is both
  there and reported. `StartFindsSections`: `StartSpec` implements `LoaderSpec`,
  so the theorems about the loader hold of `start`.

Only model-checked:

* `Terminates`, `ReachesExit`: liveness under fairness, which is out of the
  prover's reach, as is anything about ENABLED.

All other properties of the passing runs are theorems.

## Not modelled

`Execute` keeps the contexts in a sequence, `stack`, instead of the buffer of
`ContextStack`. That it uses them as `ContextLifo` has it is not a theorem: its
`Append`, `Last` and `Front` are those of `LifoPush` and `LifoPop` by definition,
and what `ContextLifo` calls `popped` is in `Execute` the base and ip that the next
CALL overwrites.

Left out, with the reason:

* `obj_scan` (`vm.c` 30-47). It fixes the address of its loop variable instead
  of the fields. For that to matter an object with a field would have to live
  through a collection, and none does: ALLOC drops the address it is given, so
  no instruction can name an object.
* `free_vm` (`vm.c` 241-256), which nothing reaches: EXIT returns from `start`.
  It would destroy the arena before the allocation points and pools in it.
* `slots_free` and `stack_free`, which nothing calls.
* `print_slots` on an empty array, where it would count past the end: its only
  caller is the error path of CALL, which has read a slot, and debug output.
* Of `uthash.h`, deletion, sorting, selection, the Bloom filter and the hash
  functions other than the default, which nothing calls.
* `main.c`, `debug.c` (a constant), the empty `heap.*` and `namespace.*`, the
  build, and the Java test runner. Debug output is left out except where it
  changes control (the loader).
