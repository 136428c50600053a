---------------------------- MODULE MCDictionary ----------------------------
(***************************************************************************)
(* Two keys whose hashes 1 and 3 share the chain at one and at two         *)
(* buckets and not at three.                                               *)
(***************************************************************************)
EXTENDS Dictionary, TLC

CONSTANTS k1, k2

MCKey == {k1, k2}
MCHash == (k1 :> 1) @@ (k2 :> 3)
=============================================================================
