----------------------------- MODULE MCHashTable -----------------------------
(***************************************************************************)
(* A table small enough for TLC: three keys whose hashes 1, 4 and 5 share  *)
(* a chain or not depending on the number of buckets (all three at one     *)
(* bucket, 1 and 5 at two, 1 and 4 at three).                              *)
(***************************************************************************)
EXTENDS HashTable, TLC

CONSTANTS k1, k2, k3

MCKey == {k1, k2, k3}
MCHash == (k1 :> 1) @@ (k2 :> 4) @@ (k3 :> 5)
==============================================================================
