------------------------------ MODULE HashTable ------------------------------
(***************************************************************************)
(* The tables the loader builds with uthash.h: HASH_ADD_INT puts a record  *)
(* at the head of the chain of its bucket and doubles the buckets when the *)
(* chain has grown to a multiple of the threshold; HASH_FIND_INT walks the *)
(* chain.  A record is known by its position in the order of additions.    *)
(***************************************************************************)
EXTENDS Integers, Sequences, SequencesExt, FiniteSetsExt

CONSTANTS
  Records,           \* what add_vtable_record and add_type_record are given
  Keys, KeyOf,       \* the four bytes HASH_ADD_INT takes as their key
  HashFunctions,     \* what HASH_FCN (Jenkins' hash) may be on these keys
  InitialBuckets,    \* HASH_INITIAL_NUM_BUCKETS, 32
  Threshold,         \* HASH_BKT_CAPACITY_THRESH, 10
  MaxItems           \* bound on the records added

ASSUME HashTableAssumption ==
  /\ KeyOf \in [Records -> Keys]
  /\ HashFunctions \subseteq [Keys -> Nat]
  /\ InitialBuckets \in Nat \ {0} /\ Threshold \in Nat \ {0}

VARIABLES
  hash,              \* the hash function; does not change
  order,             \* the records in app order (the next and prev links)
  buckets,           \* for each bucket its chain, from hh_head on
  expand_mult,       \* for each bucket
  ideal_chain_maxlen, ineff_expands, noexpand,
  asked, got,        \* the key of the last lookup, and the record it found,
                     \* 0 for NULL
  ended              \* uthash_fatal

growthVars == <<expand_mult, ideal_chain_maxlen, ineff_expands, noexpand>>
tableVars  == <<hash, order, buckets, growthVars, asked, got, ended>>

num_buckets == Cardinality(DOMAIN buckets)

(* HASH_TO_BKT; the number of buckets is a power of two.                   *)
bkt(items, e, n) == hash[KeyOf[items[e]]] % n

(* HASH_MAKE_TABLE, which the first addition calls.                        *)
TableInit ==
  /\ hash \in HashFunctions
  /\ order = <<>>
  /\ buckets = [b \in 0 .. InitialBuckets - 1 |-> <<>>]
  /\ expand_mult = [b \in 0 .. InitialBuckets - 1 |-> 0]
  /\ ideal_chain_maxlen = 0 /\ ineff_expands = 0 /\ noexpand = FALSE
  /\ asked \in Keys /\ got = 0 /\ ended = FALSE

(* The inner loop of HASH_EXPAND_BUCKETS walks a chain from its head and   *)
(* puts each record at the head of its new chain: what comes to bucket b.  *)
Moved(chain, items, n, b) ==
  LET new[p \in 0 .. Len(chain)] ==
        IF p = 0 THEN <<>>
        ELSE IF bkt(items, chain[p], n) = b THEN <<chain[p]>> \o new[p - 1]
        ELSE new[p - 1]
  IN  new[Len(chain)]

\* Mutant: the records of the upper half of the buckets are not moved.
MovedToLowHalf(old, items, n) ==
  [b \in 0 .. 2 * n - 1 |-> IF b < n THEN Moved(old[b], items, 2 * n, b) ELSE <<>>]

(* Its outer loop: the records of bucket b of n go to the buckets b, b + n.*)
Expanded(old, items, n) ==
  [b \in 0 .. 2 * n - 1 |-> Moved(old[b % n], items, 2 * n, b)]

(* ceil(num_items / (2 * num_buckets)); and how far behind it a chain goes. *)
IdealLength(items, n) == (Len(items) + 2 * n - 1) \div (2 * n)
Excess(chain, ideal) == IF Len(chain) > ideal THEN Len(chain) - ideal ELSE 0

Expand(old, items) ==
  LET n        == num_buckets
      new      == Expanded(old, items, n)
      ideal    == IdealLength(items, n)
      nonideal == FoldSet(LAMBDA b, sum : sum + Excess(new[b], ideal), 0, DOMAIN new)
      ineff    == IF nonideal > Len(items) \div 2 THEN ineff_expands + 1 ELSE 0
  IN  /\ buckets' = new
      /\ ideal_chain_maxlen' = ideal
      /\ expand_mult' = [b \in DOMAIN new |->
                           IF Len(new[b]) > ideal THEN Len(new[b]) \div ideal ELSE 0]
      /\ ineff_expands' = ineff
      /\ noexpand' = (noexpand \/ ineff > 1)

ExpandLate(chain, b) == Len(chain) > (expand_mult[b] + 1) * Threshold /\ ~noexpand
MustExpand(chain, b) == Len(chain) >= (expand_mult[b] + 1) * Threshold /\ ~noexpand

(* HASH_ADD_INT: the record is linked at the end of the app order and put  *)
(* at the head of its chain (HASH_ADD_TO_BKT).                             *)
Add(r) ==
  /\ ~ended /\ Len(order) < MaxItems
  /\ LET items == Append(order, r)
         e     == Len(items)
         b     == bkt(items, e, num_buckets)
         added == [buckets EXCEPT ![b] = <<e>> \o @]
     IN  /\ order' = items
         /\ IF MustExpand(added[b], b)
              THEN Expand(added, items)
              ELSE /\ buckets' = added
                   /\ UNCHANGED growthVars
  /\ UNCHANGED <<hash, asked, got, ended>>

(* HASH_FIND_IN_BKT: the first record of the chain with this key.          *)
HeadOnly(chain, k) == IF chain # <<>> THEN chain[1] ELSE 0  \* mutant: no key compared
FirstWith(chain, k) ==
  LET hits == {p \in DOMAIN chain : KeyOf[order[chain[p]]] = k}
  IN  IF hits = {} THEN 0 ELSE chain[Min(hits)]

Lookup(k) == FirstWith(buckets[hash[k] % num_buckets], k)

Find(k) ==
  /\ ~ended
  /\ asked' = k /\ got' = Lookup(k)
  /\ UNCHANGED <<hash, order, buckets, growthVars, ended>>

(* malloc fails for the table, its buckets or the doubled buckets.         *)
uthash_fatal ==
  /\ ~ended /\ ended' = TRUE
  /\ UNCHANGED <<hash, order, buckets, growthVars, asked, got>>

TableNext ==
  \/ \E r \in Records : Add(r)
  \/ \E k \in Keys : Find(k)
  \/ uthash_fatal

HashTableSpec == TableInit /\ [][TableNext]_tableVars

-----------------------------------------------------------------------------
(* What HASH_FSCK (uthash.h) tests: every record added is in one chain and *)
(* once, across all expansions, and that chain is where its hash says.     *)
ChainsSound ==
  /\ DOMAIN expand_mult = DOMAIN buckets
  /\ \A b \in DOMAIN buckets :
       /\ IsInjective(buckets[b])
       /\ Range(buckets[b]) = {e \in 1 .. Len(order) : bkt(order, e, num_buckets) = b}

(* "By expanding buckets the hash keeps a bound on the chain length", "a  *)
(* longer-yet-still-bounded value" (uthash.h): unless expansion has been   *)
(* given up, no chain exceeds the next multiple of the threshold, or of    *)
(* the ideal length if the last expansion left that one above it.          *)
ChainBound ==
  ~noexpand =>
    \A b \in DOMAIN buckets :
      Len(buckets[b]) < (expand_mult[b] + 1) * Max({Threshold, ideal_chain_maxlen + 1})

Keyed == INSTANCE KeyedTable

(* The table is one by keys: through every expansion, and after expansion  *)
(* has been given up, a lookup finds a record of its key exactly if one    *)
(* has been added.                                                         *)
ImplementsKeyed == Keyed!KeyedSpec

=============================================================================
