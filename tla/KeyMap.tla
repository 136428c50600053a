------------------------------- MODULE KeyMap -------------------------------
(***************************************************************************)
(* What a hashtable_t promises to the rest of JSCON: a map from keys to    *)
(* items in which the first value stored under a key stays until the key   *)
(* is removed.  No buckets, no chains, no hash.  HashTable implements this *)
(* module, and the composites of JsconTree use the same first-wins map.    *)
(*                                                                         *)
(* The map is total: NULL stands for "no entry", as it does in the answer  *)
(* of hashtable_get().                                                     *)
(***************************************************************************)
CONSTANTS Key, Value, NULL

VARIABLES
  built,  \* hashtable_build() has given the table its buckets
  map,    \* the value stored under each key, or NULL
  arg,    \* the key of the last call, NULL for a call without one
  ret     \* what it returned, NULL for a void call

vars == <<built, map, arg, ret>>

Empty == [k \in Key |-> NULL]

Init ==
  /\ built = FALSE
  /\ map = Empty
  /\ arg = NULL
  /\ ret = NULL

\* The table gets its buckets, all of them empty.
Build ==
  /\ ~built
  /\ built' = TRUE
  /\ arg' = NULL
  /\ ret' = NULL
  /\ UNCHANGED map

\* A lookup answers the stored value and changes nothing.
Get(k) ==
  /\ arg' = k
  /\ ret' = map[k]
  /\ UNCHANGED <<built, map>>

\* Insert if absent: a key that is present keeps its value, and the caller
\* is told which value the key has now.
Set(k, v) ==
  /\ built
  /\ map' = IF map[k] = NULL THEN [map EXCEPT ![k] = v] ELSE map
  /\ arg' = k
  /\ ret' = map'[k]
  /\ UNCHANGED built

\* Removing an absent key is no error.
Remove(k) ==
  /\ map' = [map EXCEPT ![k] = NULL]
  /\ arg' = k
  /\ ret' = NULL
  /\ UNCHANGED built

\* The table is thrown away and a fresh one, not built yet, takes its place.
Reset ==
  /\ built' = FALSE
  /\ map' = Empty
  /\ arg' = NULL
  /\ ret' = NULL

Next ==
  \/ Build
  \/ Reset
  \/ \E k \in Key : Get(k)
  \/ \E k \in Key : Remove(k)
  \/ \E k \in Key, v \in Value : Set(k, v)

Spec == Init /\ [][Next]_vars
=============================================================================
