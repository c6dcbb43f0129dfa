--------------------------- MODULE HashTableProofs ---------------------------
(***************************************************************************)
(* Proofs about HashTable, for all hash functions, thresholds, numbers of  *)
(* buckets and records.                                                    *)
(***************************************************************************)
EXTENDS HashTable, FiniteSetTheorems, WellFoundedInduction, TLAPS

-----------------------------------------------------------------------------
(* Induction over the natural numbers, as the existence of a least         *)
(* counterexample.                                                         *)

Less == {p \in Nat \X Nat : p[1] < p[2]}

LEMMA LessWellFounded == IsWellFoundedOn(Less, Nat)
<1>1. Less = OpToRel(<, Nat)
  BY Zenon DEF Less, OpToRel
<1> QED
  BY <1>1, NatLessThanWellFounded, Zenon

LEMMA LeastElement ==
  ASSUME NEW T, T \subseteq Nat, T # {}
  PROVE  \E x \in T : \A y \in T : x <= y
<1>1. PICK x \in T : \A y \in T : ~ (<<y, x>> \in Less)
  BY LessWellFounded, WFMin
<1>2. \A y \in T : ~ (y < x)
  BY <1>1 DEF Less
<1> QED
  BY <1>1, <1>2

-----------------------------------------------------------------------------
(* Arithmetic of buckets.                                                  *)

LEMMA Division ==
  ASSUME NEW x \in Nat, NEW n \in Nat \ {0}
  PROVE  \E q \in Nat, t \in 0 .. n - 1 : x = n * q + t
<1>1. x % n = x - n * (x \div n)
  OBVIOUS
<1>2. x \div n \in Nat /\ x % n \in 0 .. n - 1
  OBVIOUS
<1>3. PICK q \in Nat, t \in 0 .. n - 1 : t = x - n * q
  BY <1>1, <1>2
<1>4. n * q \in Int
  OBVIOUS
<1> QED
  BY <1>3, <1>4

LEMMA Remainder ==
  ASSUME NEW n \in Nat \ {0}, NEW q \in Nat, NEW t \in 0 .. n - 1,
         NEW x \in Nat, x = n * q + t
  PROVE  x % n = t
OBVIOUS

(* A record of bucket b of 2n was in bucket b % n of n.                    *)
LEMMA HalfBucket ==
  ASSUME NEW x \in Nat, NEW n \in Nat \ {0}
  PROVE  (x % (2 * n)) % n = x % n
<1>1. 2 * n \in Nat \ {0}
  OBVIOUS
<1>2. PICK q \in Nat, r \in 0 .. 2 * n - 1 : x = (2 * n) * q + r
  BY <1>1, Division
<1>3. x % (2 * n) = r
  BY <1>1, <1>2, Remainder
<1>4. PICK s \in Nat, t \in 0 .. n - 1 : r = n * s + t
  BY Division
<1>5. r % n = t
  BY <1>4, Remainder
<1>6. 2 * q + s \in Nat /\ x = n * (2 * q + s) + t
  BY <1>2, <1>4
<1>7. x % n = t
  BY <1>6, Remainder
<1> QED
  BY <1>3, <1>5, <1>7

LEMMA BelowNextMultiple ==
  ASSUME NEW x \in Nat, NEW n \in Nat \ {0}
  PROVE  x \div n \in Nat /\ x < (x \div n + 1) * n
OBVIOUS

-----------------------------------------------------------------------------
(* Chains.                                                                 *)

(* The recursion of Moved, on the first L records of the chain.            *)
MovedStep(new, chain, items, n, b, p) ==
  IF p = 0 THEN <<>>
  ELSE IF bkt(items, chain[p], n) = b THEN <<chain[p]>> \o new[p - 1]
  ELSE new[p - 1]

IsMoving(new, chain, items, n, b, L) ==
  new = [p \in 0 .. L |-> MovedStep(new, chain, items, n, b, p)]

LEMMA MovedExists ==
  ASSUME NEW chain, NEW items, NEW n, NEW b, NEW L \in Nat
  PROVE  \E new : IsMoving(new, chain, items, n, b, L)
<1> DEFINE step(new, p) == MovedStep(new, chain, items, n, b, p)
           T == {m \in Nat : ~ \E new : IsMoving(new, chain, items, n, b, m)}
<1>1. T = {}
  <2> SUFFICES ASSUME T # {} PROVE FALSE
    OBVIOUS
  <2>1. PICK m \in T : \A y \in T : m <= y
    <3>1. T \subseteq Nat
      OBVIOUS
    <3> HIDE DEF T
    <3> QED
      BY <3>1, LeastElement
  <2>2. m \in Nat /\ ~ \E new : IsMoving(new, chain, items, n, b, m)
    BY <2>1
  <2>3. CASE m = 0
    <3> DEFINE new == [p \in 0 .. 0 |-> <<>>]
    <3>1. IsMoving(new, chain, items, n, b, 0)
      BY DEF IsMoving, MovedStep
    <3> QED
      BY <2>2, <2>3, <3>1
  <2>4. CASE m # 0
    <3>1. m - 1 \in Nat /\ m - 1 \notin T
      <4> HIDE DEF T
      <4> QED
        BY <2>1, <2>2, <2>4
    <3>2. PICK old : IsMoving(old, chain, items, n, b, m - 1)
      BY <3>1
    <3> DEFINE new == [p \in 0 .. m |-> IF p = m THEN step(old, m) ELSE old[p]]
    <3>3. ASSUME NEW p \in 0 .. m PROVE new[p] = step(new, p)
      <4>1. new[p] = step(old, p)
        <5>1. CASE p = m
          BY <5>1
        <5>2. CASE p # m
          <6>1. p \in 0 .. m - 1
            BY <2>2, <5>2
          <6>2. old[p] = step(old, p)
            BY <3>2, <6>1 DEF IsMoving
          <6> QED
            BY <5>2, <6>2
        <5> QED
          BY <5>1, <5>2
      <4>2. CASE p = 0
        BY <4>1, <4>2 DEF MovedStep
      <4>3. CASE p # 0
        <5>1. p - 1 \in 0 .. m /\ p - 1 # m /\ new[p - 1] = old[p - 1]
          BY <2>2, <4>3
        <5>2. step(new, p) = step(old, p)
          BY <4>3, <5>1 DEF MovedStep
        <5> QED
          BY <4>1, <5>2
      <4> QED
        BY <4>2, <4>3
    <3>4. IsMoving(new, chain, items, n, b, m)
      <4>1. new = [p \in 0 .. m |-> new[p]]
        OBVIOUS
      <4> HIDE DEF new
      <4> QED
        BY <3>3, <4>1 DEF IsMoving
    <3> QED
      BY <2>2, <3>4
  <2> QED
    BY <2>3, <2>4
<1> QED
  BY <1>1

LEMMA MovedUnfolds ==
  ASSUME NEW chain, Len(chain) \in Nat, NEW items, NEW n, NEW b
  PROVE  \E new : /\ Moved(chain, items, n, b) = new[Len(chain)]
                 /\ \A p \in 0 .. Len(chain) :
                      new[p] = MovedStep(new, chain, items, n, b, p)
<1>1. PICK new : /\ new = CHOOSE g : IsMoving(g, chain, items, n, b, Len(chain))
                 /\ IsMoving(new, chain, items, n, b, Len(chain))
  BY MovedExists
<1>2. Moved(chain, items, n, b) = new[Len(chain)]
  BY <1>1, Zenon DEF Moved, IsMoving, MovedStep
<1>3. \A p \in 0 .. Len(chain) : new[p] = MovedStep(new, chain, items, n, b, p)
  BY <1>1 DEF IsMoving
<1> QED
  BY <1>2, <1>3

(* A record put at the head of a chain that does not have it.              *)
LEMMA HeadPut ==
  ASSUME NEW S, NEW s \in Seq(S), NEW e \in S, IsInjective(s), e \notin Range(s)
  PROVE  /\ <<e>> \o s \in Seq(S) /\ IsInjective(<<e>> \o s)
         /\ Range(<<e>> \o s) = {e} \cup Range(s)
         /\ Len(<<e>> \o s) = Len(s) + 1
<1>1. PICK m \in Nat : m = Len(s) /\ DOMAIN s = 1 .. m
  OBVIOUS
<1>2. PICK t : t = <<e>> \o s
  OBVIOUS
<1>3. /\ t \in Seq(S) /\ Len(t) = m + 1 /\ DOMAIN t = 1 .. m + 1
      /\ t[1] = e /\ \A q \in 2 .. m + 1 : t[q] = s[q - 1]
  BY <1>1, <1>2
<1>4. \A q \in 1 .. m : s[q] # e /\ t[q + 1] = s[q]
  BY <1>1, <1>3 DEF Range
<1>5. ASSUME NEW p \in 1 .. m + 1, NEW q \in 1 .. m + 1, t[p] = t[q]
      PROVE  p = q
  <2>1. CASE p = 1 /\ q = 1
    BY <2>1
  <2>2. CASE p = 1 /\ q # 1
    <3>1. q - 1 \in 1 .. m /\ q \in 2 .. m + 1
      BY <2>2
    <3> QED
      BY <1>3, <1>4, <1>5, <2>2, <3>1
  <2>3. CASE p # 1 /\ q = 1
    <3>1. p - 1 \in 1 .. m /\ p \in 2 .. m + 1
      BY <2>3
    <3> QED
      BY <1>3, <1>4, <1>5, <2>3, <3>1
  <2>4. CASE p # 1 /\ q # 1
    <3>1. p \in 2 .. m + 1 /\ q \in 2 .. m + 1 /\ p - 1 \in 1 .. m /\ q - 1 \in 1 .. m
      BY <2>4
    <3>2. s[p - 1] = s[q - 1]
      BY <1>3, <1>5, <3>1
    <3>3. p - 1 = q - 1
      BY <1>1, <3>1, <3>2 DEF IsInjective
    <3> QED
      BY <3>1, <3>3
  <2> QED
    BY <2>1, <2>2, <2>3, <2>4
<1>6. IsInjective(t)
  BY <1>3, <1>5 DEF IsInjective
<1>7. Range(t) = {e} \cup Range(s)
  <2>1. ASSUME NEW x \in Range(t) PROVE x \in {e} \cup Range(s)
    <3>1. PICK q \in 1 .. m + 1 : x = t[q]
      BY <1>3, <2>1 DEF Range
    <3>2. CASE q = 1
      BY <1>3, <3>1, <3>2
    <3>3. CASE q # 1
      <4>1. q \in 2 .. m + 1 /\ q - 1 \in 1 .. m
        BY <3>3
      <4> QED
        BY <1>1, <1>3, <3>1, <4>1 DEF Range
    <3> QED
      BY <3>2, <3>3
  <2>2. ASSUME NEW x \in {e} \cup Range(s) PROVE x \in Range(t)
    <3>1. CASE x = e
      <4>1. 1 \in 1 .. m + 1
        OBVIOUS
      <4> QED
        BY <1>3, <3>1, <4>1 DEF Range
    <3>2. CASE x \in Range(s)
      <4>1. PICK q \in 1 .. m : x = s[q]
        BY <1>1, <3>2 DEF Range
      <4>2. q + 1 \in 1 .. m + 1
        OBVIOUS
      <4> QED
        BY <1>3, <1>4, <4>1, <4>2 DEF Range
    <3> QED
      BY <2>2, <3>1, <3>2
  <2> QED
    BY <2>1, <2>2
<1> QED
  BY <1>1, <1>2, <1>3, <1>6, <1>7

(* A bucket gets the records of the old chain that hash to it, each once.  *)
LEMMA MovedFacts ==
  ASSUME NEW S, NEW chain \in Seq(S), IsInjective(chain), NEW items, NEW n, NEW b
  PROVE  /\ Moved(chain, items, n, b) \in Seq(S) /\ IsInjective(Moved(chain, items, n, b))
         /\ Range(Moved(chain, items, n, b)) = {e \in Range(chain) : bkt(items, e, n) = b}
<1>1. PICK L \in Nat : L = Len(chain) /\ DOMAIN chain = 1 .. L
  OBVIOUS
<1>2. PICK new : /\ Moved(chain, items, n, b) = new[L]
                 /\ \A p \in 0 .. L : new[p] = MovedStep(new, chain, items, n, b, p)
  BY <1>1, MovedUnfolds
<1> DEFINE came(p) == {e \in S : /\ \E q \in 1 .. p : e = chain[q]
                                /\ bkt(items, e, n) = b}
           good(p) == /\ new[p] \in Seq(S) /\ IsInjective(new[p])
                      /\ Range(new[p]) = came(p)
           T == {p \in Nat : p <= L /\ ~good(p)}
<1>3. good(0)
  <2>1. new[0] = <<>>
    <3>1. 0 \in 0 .. L
      OBVIOUS
    <3>2. new[0] = MovedStep(new, chain, items, n, b, 0)
      BY <1>2, <3>1
    <3> QED
      BY <3>2 DEF MovedStep
  <2>2. <<>> \in Seq(S)
    OBVIOUS
  <2>3. IsInjective(<<>>)
    BY DEF IsInjective
  <2>4. Range(<<>>) = {}
    BY DEF Range
  <2>5. came(0) = {}
    OBVIOUS
  <2> QED
    BY <2>1, <2>2, <2>3, <2>4, <2>5
<1>4. ASSUME NEW p \in 1 .. L, good(p - 1) PROVE good(p)
  <2>1. /\ p - 1 \in 0 .. L /\ p \in 0 .. L /\ p # 0 /\ chain[p] \in S
    BY <1>1
  <2>2. new[p] = IF bkt(items, chain[p], n) = b THEN <<chain[p]>> \o new[p - 1]
                                                ELSE new[p - 1]
    BY <1>2, <2>1 DEF MovedStep
  <2>3. \A q \in 1 .. p : q = p \/ q \in 1 .. p - 1
    OBVIOUS
  <2>4. CASE bkt(items, chain[p], n) = b
    <3>1. chain[p] \notin came(p - 1)
      BY <1>1, <2>1 DEF IsInjective
    <3>2. came(p) = {chain[p]} \cup came(p - 1)
      BY <2>1, <2>3, <2>4
    <3>3. /\ new[p - 1] \in Seq(S) /\ IsInjective(new[p - 1])
          /\ Range(new[p - 1]) = came(p - 1)
      BY <1>4
    <3> HIDE DEF came
    <3> QED
      BY <2>1, <2>2, <2>4, <3>1, <3>2, <3>3, HeadPut
  <2>5. CASE bkt(items, chain[p], n) # b
    <3>1. came(p) = came(p - 1)
      BY <2>1, <2>3, <2>5
    <3> HIDE DEF came
    <3> QED
      BY <1>4, <2>2, <2>5, <3>1
  <2> QED
    BY <2>4, <2>5
<1> HIDE DEF good
<1>5. T = {}
  <2> SUFFICES ASSUME T # {} PROVE FALSE
    OBVIOUS
  <2>1. PICK p \in T : \A y \in T : p <= y
    <3>1. T \subseteq Nat
      OBVIOUS
    <3> HIDE DEF T
    <3> QED
      BY <3>1, LeastElement
  <2>2. p \in Nat /\ p <= L /\ ~good(p)
    BY <2>1
  <2>3. p \in 1 .. L /\ p - 1 \in Nat /\ p - 1 <= L
    BY <1>3, <2>2
  <2>4. p - 1 \notin T
    <3> HIDE DEF T
    <3> QED
      BY <2>1, <2>2
  <2> QED
    BY <1>4, <2>2, <2>3, <2>4
<1>6. good(L)
  BY <1>5
<1>7. came(L) = {e \in Range(chain) : bkt(items, e, n) = b}
  BY <1>1 DEF Range
<1> QED
  BY <1>2, <1>6, <1>7 DEF good

-----------------------------------------------------------------------------
(* The invariant.                                                          *)

(* chains are n buckets that hold the records items, each where it hashes. *)
Holds(chains, items, n) ==
  /\ chains \in [0 .. n - 1 -> Seq(Nat)]
  /\ \A b \in 0 .. n - 1 :
       /\ IsInjective(chains[b])
       /\ Range(chains[b]) = {e \in 1 .. Len(items) : bkt(items, e, n) = b}

HashInv ==
  /\ hash \in [Keys -> Nat] /\ order \in Seq(Records) /\ asked \in Keys
  /\ num_buckets \in Nat \ {0}
  /\ Holds(buckets, order, num_buckets)
  /\ expand_mult \in [0 .. num_buckets - 1 -> Nat] /\ ideal_chain_maxlen \in Nat
  /\ ChainBound

LEMMA HashInvChains == HashInv => ChainsSound /\ ChainBound
<1> SUFFICES ASSUME HashInv PROVE ChainsSound
  BY DEF HashInv
<1> QED
  BY DEF HashInv, Holds, ChainsSound

LEMMA BucketCount ==
  ASSUME NEW n \in Nat PROVE Cardinality(0 .. n - 1) = n
<1>1. Cardinality(0 .. n - 1) = IF 0 > n - 1 THEN 0 ELSE (n - 1) - 0 + 1
  BY FS_Interval
<1> QED
  BY <1>1

LEMMA BucketFacts ==
  ASSUME hash \in [Keys -> Nat], NEW items \in Seq(Records), NEW e \in 1 .. Len(items),
         NEW n \in Nat \ {0}
  PROVE  /\ bkt(items, e, n) \in 0 .. n - 1
         /\ bkt(items, e, 2 * n) % n = bkt(items, e, n)
<1>1. PICK x \in Nat : x = hash[KeyOf[items[e]]]
  BY HashTableAssumption
<1>2. bkt(items, e, n) = x % n /\ bkt(items, e, 2 * n) = x % (2 * n)
  BY <1>1 DEF bkt
<1>3. (x % (2 * n)) % n = x % n
  BY HalfBucket
<1>4. x % n \in 0 .. n - 1
  OBVIOUS
<1> QED
  BY <1>2, <1>3, <1>4

(* An addition, before the buckets are doubled: the items, the bucket of   *)
(* the new one, and the chains.                                            *)
IsAdded(r, items, e, b, added) ==
  /\ items = Append(order, r) /\ e = Len(items)
  /\ b = bkt(items, e, num_buckets)
  /\ added = [buckets EXCEPT ![b] = <<e>> \o buckets[b]]

LEMMA AddedHolds ==
  ASSUME HashInv, NEW r \in Records, NEW items, NEW e, NEW b, NEW added,
         IsAdded(r, items, e, b, added)
  PROVE  /\ items \in Seq(Records) /\ e \in Nat \ {0} /\ b \in 0 .. num_buckets - 1
         /\ Holds(added, items, num_buckets)
         /\ \A c \in 0 .. num_buckets - 1 : c # b => added[c] = buckets[c]
<1>1. PICK n \in Nat \ {0} : n = num_buckets
  BY DEF HashInv
<1>2. /\ hash \in [Keys -> Nat] /\ order \in Seq(Records)
      /\ Holds(buckets, order, n)
  BY <1>1 DEF HashInv
<1>3. PICK m \in Nat : m = Len(order)
  BY <1>2
<1>4. /\ items \in Seq(Records) /\ Len(items) = m + 1 /\ e = m + 1
      /\ \A x \in 1 .. m : items[x] = order[x]
  BY <1>2, <1>3 DEF IsAdded
<1>5. b \in 0 .. n - 1
  <2>1. e \in 1 .. Len(items)
    BY <1>4
  <2> QED
    BY <1>1, <1>2, <1>4, <2>1, BucketFacts DEF IsAdded
<1>6. \A x \in 1 .. m : bkt(items, x, n) = bkt(order, x, n)
  BY <1>4 DEF bkt
<1>7. /\ added = [c \in 0 .. n - 1 |-> IF c = b THEN <<e>> \o buckets[b] ELSE buckets[c]]
  BY <1>2, <1>5 DEF Holds, IsAdded
<1>8. ASSUME NEW c \in 0 .. n - 1
      PROVE  /\ added[c] \in Seq(Nat) /\ IsInjective(added[c])
             /\ Range(added[c]) = {x \in 1 .. m + 1 : bkt(items, x, n) = c}
  <2>1. /\ buckets[c] \in Seq(Nat) /\ IsInjective(buckets[c])
        /\ Range(buckets[c]) = {x \in 1 .. m : bkt(order, x, n) = c}
    BY <1>2, <1>3 DEF Holds
  <2>2. \A x \in 1 .. m + 1 : x \in 1 .. m \/ x = m + 1
    OBVIOUS
  <2>3. CASE c = b
    <3>1. e \notin Range(buckets[c]) /\ e \in Nat
      BY <1>4, <2>1
    <3>2. /\ <<e>> \o buckets[c] \in Seq(Nat) /\ IsInjective(<<e>> \o buckets[c])
          /\ Range(<<e>> \o buckets[c]) = {e} \cup Range(buckets[c])
      BY <2>1, <3>1, HeadPut
    <3>3. {x \in 1 .. m + 1 : bkt(items, x, n) = c} = {e} \cup Range(buckets[c])
      BY <1>1, <1>4, <1>6, <2>1, <2>2, <2>3 DEF IsAdded
    <3>4. added[c] = <<e>> \o buckets[c]
      BY <1>7, <2>3
    <3> QED
      BY <3>2, <3>3, <3>4
  <2>4. CASE c # b
    <3>1. {x \in 1 .. m + 1 : bkt(items, x, n) = c} = Range(buckets[c])
      BY <1>1, <1>4, <1>6, <2>1, <2>2, <2>4 DEF IsAdded
    <3>2. added[c] = buckets[c]
      BY <1>7, <2>4
    <3> QED
      BY <2>1, <3>1, <3>2
  <2> QED
    BY <2>3, <2>4
<1>9. Holds(added, items, n)
  BY <1>4, <1>7, <1>8 DEF Holds
<1> QED
  BY <1>1, <1>4, <1>5, <1>7, <1>9

LEMMA ExpandedHolds ==
  ASSUME hash \in [Keys -> Nat], NEW items \in Seq(Records), NEW n \in Nat \ {0},
         NEW old, Holds(old, items, n)
  PROVE  Holds(Expanded(old, items, n), items, 2 * n)
<1> DEFINE new == Expanded(old, items, n)
<1>1. new = [b \in 0 .. 2 * n - 1 |-> Moved(old[b % n], items, 2 * n, b)]
  BY DEF Expanded
<1> HIDE DEF new
<1>2. ASSUME NEW b \in 0 .. 2 * n - 1
      PROVE  /\ new[b] \in Seq(Nat) /\ IsInjective(new[b])
             /\ Range(new[b]) = {e \in 1 .. Len(items) : bkt(items, e, 2 * n) = b}
  <2>1. b % n \in 0 .. n - 1
    OBVIOUS
  <2>2. /\ old[b % n] \in Seq(Nat) /\ IsInjective(old[b % n])
        /\ Range(old[b % n]) = {e \in 1 .. Len(items) : bkt(items, e, n) = b % n}
    BY <2>1 DEF Holds
  <2>3. /\ new[b] \in Seq(Nat) /\ IsInjective(new[b])
        /\ Range(new[b]) = {e \in Range(old[b % n]) : bkt(items, e, 2 * n) = b}
    <3>1. new[b] = Moved(old[b % n], items, 2 * n, b)
      BY <1>1
    <3>2. PICK chain \in Seq(Nat) : chain = old[b % n] /\ IsInjective(chain)
      BY <2>2
    <3>3. PICK m : m = 2 * n
      OBVIOUS
    <3>4. /\ Moved(chain, items, m, b) \in Seq(Nat)
          /\ IsInjective(Moved(chain, items, m, b))
          /\ Range(Moved(chain, items, m, b)) = {e \in Range(chain) : bkt(items, e, m) = b}
      BY <3>2, MovedFacts
    <3> QED
      BY <3>1, <3>2, <3>3, <3>4
  <2>4. \A e \in 1 .. Len(items) : bkt(items, e, 2 * n) = b => bkt(items, e, n) = b % n
    BY BucketFacts
  <2> QED
    BY <2>2, <2>3, <2>4
<1>3. new \in [0 .. 2 * n - 1 -> Seq(Nat)]
  BY <1>1, <1>2
<1> QED
  BY <1>2, <1>3 DEF Holds, new

-----------------------------------------------------------------------------
(* The bound on the chains.                                                *)

LEMMA LargerOf ==
  ASSUME NEW a \in Nat, NEW c \in Nat
  PROVE  Max({a, c}) \in Nat /\ a <= Max({a, c}) /\ c <= Max({a, c})
<1>1. \E x \in {a, c} : \A y \in {a, c} : x >= y
  OBVIOUS
<1>2. Max({a, c}) \in {a, c} /\ \A y \in {a, c} : Max({a, c}) >= y
  BY <1>1 DEF Max
<1> QED
  BY <1>2

LEMMA ScaledBound ==
  ASSUME NEW x \in Nat, NEW k \in Nat, NEW i \in Nat, NEW j \in Nat, i <= j,
         x < (k + 1) * i
  PROVE  x < (k + 1) * j
<1>1. (k + 1) * i <= (k + 1) * j
  OBVIOUS
<1>2. (k + 1) * i \in Nat /\ (k + 1) * j \in Nat
  OBVIOUS
<1> QED
  BY <1>1, <1>2

LEMMA IdealPositive ==
  ASSUME NEW items \in Seq(Records), Len(items) \in Nat \ {0}, NEW n \in Nat \ {0}
  PROVE  IdealLength(items, n) \in Nat \ {0}
<1>1. PICK m \in Nat \ {0} : m = 2 * n
  OBVIOUS
<1>2. PICK x \in Nat : x = Len(items) + m - 1 /\ x >= m
  <2>1. PICK L \in Nat \ {0} : L = Len(items)
    OBVIOUS
  <2>2. L + m - 1 \in Nat /\ L + m - 1 >= m
    OBVIOUS
  <2> QED
    BY <2>1, <2>2
<1>3. PICK q \in Nat : q = x \div m /\ x < (q + 1) * m
  BY BelowNextMultiple
<1>4. q # 0
  BY <1>2, <1>3
<1> QED
  BY <1>1, <1>2, <1>3, <1>4 DEF IdealLength

(* The multiplier an expansion gives a chain allows for its length.        *)
LEMMA MultiplierBound ==
  ASSUME NEW x \in Nat, NEW ideal \in Nat \ {0},
         NEW k, k = IF x > ideal THEN x \div ideal ELSE 0
  PROVE  k \in Nat /\ x < (k + 1) * (ideal + 1)
<1>1. CASE x > ideal
  <2>1. k \in Nat /\ x < (k + 1) * ideal
    BY <1>1, BelowNextMultiple
  <2> QED
    BY <2>1, ScaledBound
<1>2. CASE ~(x > ideal)
  BY <1>2
<1> QED
  BY <1>1, <1>2

-----------------------------------------------------------------------------
(* The steps.                                                              *)

LEMMA ExpandInv ==
  ASSUME hash \in [Keys -> Nat], asked \in Keys, num_buckets \in Nat \ {0},
         NEW items \in Seq(Records), Len(items) \in Nat \ {0},
         NEW old, Holds(old, items, num_buckets),
         Expand(old, items), order' = items, UNCHANGED <<hash, asked>>
  PROVE  HashInv'
<1>1. PICK n \in Nat \ {0} : n = num_buckets
  OBVIOUS
<1> DEFINE new == Expanded(old, items, n)
<1>2. PICK ideal \in Nat \ {0} : ideal = IdealLength(items, n)
  BY IdealPositive
<1>3. /\ buckets' = new /\ ideal_chain_maxlen' = ideal
      /\ expand_mult' = [b \in DOMAIN new |->
                           IF Len(new[b]) > ideal THEN Len(new[b]) \div ideal ELSE 0]
  BY <1>1, <1>2 DEF Expand
<1>4. Holds(new, items, 2 * n)
  BY <1>1, ExpandedHolds
<1> HIDE DEF new
<1>5. new \in [0 .. 2 * n - 1 -> Seq(Nat)]
  BY <1>4 DEF Holds
<1>6. PICK m \in Nat \ {0} : m = 2 * n
  BY <1>1
<1>7. num_buckets' = m
  BY <1>3, <1>5, <1>6, BucketCount DEF num_buckets
<1>8. Holds(buckets, order, num_buckets)'
  <2>1. \A e \in 1 .. Len(items) : bkt(items, e, m)' = bkt(items, e, m)
    BY DEF bkt
  <2>2. Holds(new, items, m)
    BY <1>4, <1>6
  <2> QED
    BY <1>3, <1>7, <2>1, <2>2 DEF Holds
<1>9. ASSUME NEW b \in 0 .. m - 1
      PROVE  /\ expand_mult'[b] \in Nat
             /\ Len(buckets'[b]) < (expand_mult'[b] + 1) * (ideal + 1)
             /\ Len(buckets'[b]) \in Nat
  <2>1. PICK x \in Nat : x = Len(new[b])
    BY <1>5, <1>6, <1>9
  <2>2. expand_mult'[b] = IF x > ideal THEN x \div ideal ELSE 0
    BY <1>3, <1>5, <1>6, <1>9, <2>1
  <2> QED
    BY <1>3, <2>1, <2>2, MultiplierBound
<1>10. expand_mult' \in [0 .. m - 1 -> Nat]
  <2>1. expand_mult' = [b \in 0 .. m - 1 |-> expand_mult'[b]]
    BY <1>3, <1>5, <1>6
  <2> QED
    BY <1>9, <2>1
<1>11. ChainBound'
  <2>1. PICK M \in Nat : M = Max({Threshold, ideal + 1}) /\ ideal + 1 <= M
    <3>1. Threshold \in Nat /\ ideal + 1 \in Nat
      BY HashTableAssumption
    <3> QED
      BY <3>1, LargerOf
  <2>2. DOMAIN buckets' = 0 .. m - 1
    BY <1>3, <1>5, <1>6
  <2>3. ASSUME NEW b \in 0 .. m - 1
        PROVE  Len(buckets'[b]) < (expand_mult'[b] + 1) * M
    <3>1. PICK x \in Nat, k \in Nat :
            x = Len(buckets'[b]) /\ k = expand_mult'[b] /\ x < (k + 1) * (ideal + 1)
      BY <1>9, <2>3
    <3>2. x < (k + 1) * M
      <4>1. ideal + 1 \in Nat /\ ideal + 1 <= M
        BY <2>1
      <4> QED
        BY <3>1, <4>1, ScaledBound
    <3> QED
      BY <3>1, <3>2
  <2> QED
    BY <1>3, <2>1, <2>2, <2>3 DEF ChainBound
<1> QED
  BY <1>3, <1>6, <1>7, <1>8, <1>10, <1>11 DEF HashInv

LEMMA AddInv == ASSUME HashInv, NEW r \in Records, Add(r) PROVE HashInv'
<1>1. PICK items, e, b, added : IsAdded(r, items, e, b, added)
  BY DEF IsAdded
<1>2. /\ order' = items /\ UNCHANGED <<hash, asked>>
      /\ IF MustExpand(added[b], b) THEN Expand(added, items)
         ELSE buckets' = added /\ UNCHANGED growthVars
  BY <1>1 DEF Add, IsAdded
<1>3. /\ hash \in [Keys -> Nat] /\ asked \in Keys /\ num_buckets \in Nat \ {0}
      /\ expand_mult \in [0 .. num_buckets - 1 -> Nat] /\ ideal_chain_maxlen \in Nat
      /\ DOMAIN buckets = 0 .. num_buckets - 1 /\ ChainBound
  BY DEF HashInv, Holds
<1>4. /\ items \in Seq(Records) /\ e \in Nat \ {0} /\ b \in 0 .. num_buckets - 1
      /\ Holds(added, items, num_buckets)
      /\ \A c \in 0 .. num_buckets - 1 : c # b => added[c] = buckets[c]
  BY <1>1, AddedHolds
<1>5. CASE MustExpand(added[b], b)
  BY <1>1, <1>2, <1>3, <1>4, <1>5, ExpandInv DEF IsAdded
<1>6. CASE ~MustExpand(added[b], b)
  <2>1. PICK n \in Nat \ {0} : n = num_buckets
    BY <1>3
  <2>2. /\ buckets' = added /\ expand_mult' = expand_mult
        /\ ideal_chain_maxlen' = ideal_chain_maxlen /\ noexpand' = noexpand
    BY <1>2, <1>6 DEF growthVars
  <2>3. added \in [0 .. n - 1 -> Seq(Nat)]
    BY <1>4, <2>1 DEF Holds
  <2>4. num_buckets' = n
    BY <2>1, <2>2, <2>3, BucketCount DEF num_buckets
  <2>5. Holds(buckets, order, num_buckets)'
    <3>1. \A x \in 1 .. Len(items) : bkt(items, x, n)' = bkt(items, x, n)
      BY <1>2 DEF bkt
    <3>2. Holds(added, items, n)
      BY <1>4, <2>1
    <3> QED
      BY <1>2, <2>2, <2>4, <3>1, <3>2 DEF Holds
  <2>6. ChainBound'
    <3> SUFFICES ASSUME ~noexpand, NEW c \in 0 .. n - 1
                 PROVE  Len(added[c]) < (expand_mult[c] + 1)
                                           * Max({Threshold, ideal_chain_maxlen + 1})
      BY <2>2, <2>3 DEF ChainBound
    <3>1. PICK M \in Nat : /\ M = Max({Threshold, ideal_chain_maxlen + 1})
                           /\ Threshold <= M /\ Threshold \in Nat
      <4>1. Threshold \in Nat /\ ideal_chain_maxlen + 1 \in Nat
        BY <1>3, HashTableAssumption
      <4> QED
        BY <4>1, LargerOf
    <3>2. CASE c = b
      <4>1. PICK x \in Nat, k \in Nat : x = Len(added[b]) /\ k = expand_mult[b]
        BY <1>3, <1>4, <2>1, <2>3
      <4>2. ~(x >= (k + 1) * Threshold)
        BY <1>6, <4>1 DEF MustExpand
      <4>3. (k + 1) * Threshold \in Nat
        BY <3>1
      <4>4. x < (k + 1) * Threshold
        BY <4>2, <4>3
      <4>5. x < (k + 1) * M
        BY <3>1, <4>4, ScaledBound
      <4> QED
        BY <3>1, <3>2, <4>1, <4>5
    <3>3. CASE c # b
      BY <1>3, <1>4, <2>1, <3>3 DEF ChainBound
    <3> QED
      BY <3>2, <3>3
  <2> QED
    BY <1>2, <1>3, <1>4, <2>1, <2>2, <2>4, <2>5, <2>6 DEF HashInv
<1> QED
  BY <1>5, <1>6

LEMMA QuietInv ==
  ASSUME HashInv, UNCHANGED <<hash, order, buckets, growthVars>>, asked' \in Keys
  PROVE  HashInv'
BY DEF HashInv, growthVars, Holds, bkt, ChainBound, num_buckets

LEMMA InitHashInv == TableInit => HashInv
<1> SUFFICES ASSUME TableInit PROVE HashInv
  OBVIOUS
<1>1. PICK n \in Nat \ {0} : n = InitialBuckets
  BY HashTableAssumption
<1>2. /\ hash \in [Keys -> Nat] /\ order = <<>> /\ asked \in Keys
      /\ buckets = [b \in 0 .. n - 1 |-> <<>>] /\ expand_mult = [b \in 0 .. n - 1 |-> 0]
      /\ ideal_chain_maxlen = 0
  BY <1>1, HashTableAssumption DEF TableInit
<1>3. num_buckets = n
  BY <1>2, BucketCount DEF num_buckets
<1>4. Holds(buckets, order, n)
  <2>1. IsInjective(<<>>) /\ Range(<<>>) = {}
    BY DEF IsInjective, Range
  <2>2. Len(order) = 0 /\ <<>> \in Seq(Nat)
    BY <1>2
  <2> QED
    BY <1>2, <2>1, <2>2 DEF Holds
<1>5. ChainBound
  <2>1. PICK M \in Nat : M = Max({Threshold, 0 + 1}) /\ 1 <= M
    <3>1. Threshold \in Nat /\ 0 + 1 \in Nat /\ 0 + 1 = 1
      BY HashTableAssumption
    <3> QED
      BY <3>1, LargerOf
  <2> QED
    BY <1>2, <2>1 DEF ChainBound
<1> QED
  BY <1>2, <1>3, <1>4, <1>5 DEF HashInv

LEMMA HashInvStep == HashInv /\ [TableNext]_tableVars => HashInv'
<1> SUFFICES ASSUME HashInv, [TableNext]_tableVars PROVE HashInv'
  OBVIOUS
<1>1. asked \in Keys
  BY DEF HashInv
<1>2. CASE \E r \in Records : Add(r)
  BY <1>2, AddInv
<1>3. CASE (\E k \in Keys : Find(k)) \/ uthash_fatal \/ UNCHANGED tableVars
  BY <1>1, <1>3, QuietInv DEF Find, uthash_fatal, tableVars
<1> QED
  BY <1>2, <1>3 DEF TableNext

LEMMA HashInvHolds == HashTableSpec => []HashInv
BY InitHashInv, HashInvStep, PTL DEF HashTableSpec

(* For every hash function and every sequence of additions: each record is *)
(* in the chain its hash says, once, and in no other (HASH_FSCK).          *)
THEOREM ChainsAlwaysSound == HashTableSpec => []ChainsSound
BY HashInvHolds, HashInvChains, PTL

(* The bound uthash.h claims for the chains, while expansion is not off.   *)
THEOREM ChainsBounded == HashTableSpec => []ChainBound
BY HashInvHolds, HashInvChains, PTL

-----------------------------------------------------------------------------
(* The table implements KeyedTable.                                        *)

(* The least element of a set of numbers is one of them.                   *)
LEMMA MinElement ==
  ASSUME NEW T, T \subseteq Nat, T # {} PROVE Min(T) \in T
<1>1. \E x \in T : \A y \in T : x <= y
  BY LeastElement
<1> QED
  BY <1>1 DEF Min

(* A chain has every record of a key of its bucket: the walk finds one if  *)
(* there is one.                                                           *)
LEMMA LookupFinds ==
  ASSUME HashInv, NEW k \in Keys
  PROVE  IF Keyed!With(k) = {} THEN Lookup(k) = 0 ELSE Lookup(k) \in Keyed!With(k)
<1>1. PICK n \in Nat \ {0} : n = num_buckets
  BY DEF HashInv
<1>2. PICK b : b = hash[k] % n
  OBVIOUS
<1>3. b \in 0 .. n - 1
  <2>1. PICK x \in Nat : x = hash[k]
    BY DEF HashInv
  <2> QED
    BY <1>2, <2>1
<1>4. PICK chain \in Seq(Nat) :
        /\ chain = buckets[b]
        /\ Range(chain) = {e \in 1 .. Len(order) : bkt(order, e, n) = b}
  BY <1>1, <1>3 DEF HashInv, Holds
<1>5. Lookup(k) = FirstWith(chain, k)
  BY <1>1, <1>2, <1>4 DEF Lookup
<1>6. Keyed!With(k) = {e \in Range(chain) : KeyOf[order[e]] = k}
  <2>1. \A e \in 1 .. Len(order) : KeyOf[order[e]] = k => bkt(order, e, n) = b
    BY <1>2 DEF bkt
  <2> QED
    BY <1>4, <2>1 DEF Keyed!With
<1> DEFINE hits == {p \in DOMAIN chain : KeyOf[order[chain[p]]] = k}
<1>7. CASE hits = {}
  <2>1. Keyed!With(k) = {}
    BY <1>6, <1>7 DEF Range
  <2>2. Lookup(k) = 0
    BY <1>5, <1>7 DEF FirstWith
  <2> QED
    BY <2>1, <2>2
<1>8. CASE hits # {}
  <2>1. hits \subseteq Nat
    OBVIOUS
  <2>2. Lookup(k) = chain[Min(hits)]
    BY <1>5, <1>8 DEF FirstWith
  <2>3. Min(hits) \in hits
    <3> HIDE DEF hits
    <3> QED
      BY <1>8, <2>1, MinElement
  <2>4. chain[Min(hits)] \in Keyed!With(k)
    BY <1>6, <2>3 DEF Range
  <2> QED
    BY <2>2, <2>4
<1> QED
  BY <1>7, <1>8

(* For every hash function: through every expansion, and with expansion    *)
(* off, a lookup finds a record of its key exactly if one has been added.  *)
THEOREM HashTableImplements == HashTableSpec => ImplementsKeyed
<1>1. TableInit => Keyed!KeyedInit
  BY DEF TableInit, Keyed!KeyedInit
<1>2. HashInv /\ [TableNext]_tableVars => [Keyed!KeyedNext]_(Keyed!keyedVars)
  <2> SUFFICES ASSUME HashInv, [TableNext]_tableVars
               PROVE  [Keyed!KeyedNext]_(Keyed!keyedVars)
    OBVIOUS
  <2>1. ASSUME NEW r \in Records, Add(r) PROVE Keyed!KeyedAdd(r)
    BY <2>1 DEF Add, Keyed!KeyedAdd
  <2>2. ASSUME NEW k \in Keys, Find(k) PROVE Keyed!KeyedFind(k)
    BY <2>2, LookupFinds DEF Find, Keyed!KeyedFind
  <2>3. CASE uthash_fatal
    BY <2>3 DEF uthash_fatal, Keyed!KeyedNext, Keyed!KeyedFatal
  <2>4. CASE UNCHANGED tableVars
    BY <2>4 DEF tableVars, Keyed!keyedVars
  <2> QED
    BY <2>1, <2>2, <2>3, <2>4 DEF TableNext, Keyed!KeyedNext
<1> QED
  BY <1>1, <1>2, HashInvHolds, PTL
  DEF HashTableSpec, ImplementsKeyed, Keyed!KeyedSpec

=============================================================================
