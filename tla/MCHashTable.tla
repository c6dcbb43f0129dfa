---------------------------- MODULE MCHashTable ------------------------------
(* HashTable with two buckets at first and a threshold of 3, so that nine  *)
(* records expand it, delay expansions and give expansion up.              *)
EXTENDS HashTable

(* Three keys, and hashes of which two collide in two buckets, one pair of *)
(* them in four as well.                                                   *)
MCKeys == 1 .. 3
MCHashFunctions == {<<0, 4, 1>>, <<0, 1, 6>>}
MCKeyOf == [r \in MCKeys |-> r]

=============================================================================
