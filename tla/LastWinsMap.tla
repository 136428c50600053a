---------------------------- MODULE LastWinsMap ----------------------------
(***************************************************************************)
(* What a dictionary_t promises: a map that keeps the latest value stored  *)
(* under each key and knows how many keys it holds.  Storing NULL under a  *)
(* key is not the same as removing it.  Dictionary implements this module. *)
(***************************************************************************)
EXTENDS Naturals, FiniteSets

CONSTANTS Key, Value, NULL

VARIABLES
  map,   \* the value of each key that is present
  size,  \* how many keys are present
  arg,   \* the key of the last call, NULL for a call without one
  ret    \* what it returned

vars == <<map, size, arg, ret>>

Content == Value \cup {NULL}

Holds(m) ==
  /\ map' = m
  /\ size' = Cardinality(DOMAIN m)

With(k, v) ==
  [q \in DOMAIN map \cup {k} |-> IF q = k THEN v ELSE map[q]]

Init ==
  /\ map = [k \in {} |-> NULL]
  /\ size = 0
  /\ arg = NULL
  /\ ret = NULL

Get(k) ==
  /\ arg' = k
  /\ ret' = IF k \in DOMAIN map THEN map[k] ELSE NULL
  /\ UNCHANGED <<map, size>>

Set(k, v) ==
  /\ Holds(With(k, v))
  /\ arg' = k
  /\ ret' = v

\* Only a key that is present can have its value replaced.
Replace(k, v) ==
  /\ k \in DOMAIN map
  /\ Holds(With(k, v))
  /\ arg' = k
  /\ ret' = v

Remove(k) ==
  /\ Holds([q \in DOMAIN map \ {k} |-> map[q]])
  /\ arg' = k
  /\ ret' = NULL

Clear ==
  /\ Holds([q \in {} |-> NULL])
  /\ arg' = NULL
  /\ ret' = NULL

Next ==
  \/ Clear
  \/ \E k \in Key : Get(k) \/ Remove(k)
  \/ \E k \in Key, v \in Content : Set(k, v) \/ Replace(k, v)

Spec == Init /\ [][Next]_vars
============================================================================
