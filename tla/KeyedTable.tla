----------------------------- MODULE KeyedTable ------------------------------
(* What the loader counts on for its tables of vtable and type records: a  *)
(* lookup finds a record that has been added under the key, if there is    *)
(* one, and none of another key.                                           *)
EXTENDS Naturals, Sequences

CONSTANTS
  Records,           \* what add_vtable_record and add_type_record are given
  Keys, KeyOf        \* the key of each

VARIABLES
  order,             \* the records added, in this order; a record is known
                     \* by its position
  asked, got,        \* the key of the last lookup, and the record it found,
                     \* 0 for none (NULL)
  ended              \* malloc has failed, and uthash_fatal ended the process

keyedVars == <<order, asked, got, ended>>

KeyedInit == order = <<>> /\ asked \in Keys /\ got = 0 /\ ended = FALSE

With(k) == {e \in 1 .. Len(order) : KeyOf[order[e]] = k}

KeyedAdd(r) == ~ended /\ order' = Append(order, r) /\ UNCHANGED <<asked, got, ended>>

KeyedFind(k) ==
  /\ ~ended /\ asked' = k
  /\ IF With(k) = {} THEN got' = 0 ELSE got' \in With(k)
  /\ UNCHANGED <<order, ended>>

KeyedFatal == ~ended /\ ended' = TRUE /\ UNCHANGED <<order, asked, got>>

KeyedNext ==
  \/ \E r \in Records : KeyedAdd(r)
  \/ \E k \in Keys : KeyedFind(k)
  \/ KeyedFatal

KeyedSpec == KeyedInit /\ [][KeyedNext]_keyedVars

=============================================================================
