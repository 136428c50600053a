------------------------------ MODULE HashTable ------------------------------
(***************************************************************************)
(* hashtable_t of src/src/hashtable.c: an array of num_bucket chains, the  *)
(* chain of a key chosen by its hash, new entries linked at the end.       *)
(* strcmp() on keys is equality of members of Key, and the hash of a key   *)
(* before the final modulus is any function, the constant Hash.            *)
(*                                                                         *)
(* The caller builds a table once after hashtable_init() and before it     *)
(* calls hashtable_set(), as Jscon_composite_build() does.                 *)
(***************************************************************************)
EXTENDS Naturals, SequencesExt

CONSTANTS
  Key,        \* the key strings
  Value,      \* the pointers that are stored
  NULL,
  Hash,       \* slot before "slot %= num_bucket"
  MaxBucket   \* bound: the largest num_index a run passes to hashtable_build

ASSUME HashAssumption == Hash \in [Key -> Nat]
ASSUME NullAssumption == NULL \notin Value
ASSUME BucketAssumption == MaxBucket \in Nat

VARIABLES
  num_bucket,  \* 0 until the table is built
  bucket,      \* chain of entries at each slot
  arg,         \* the key of the last call, NULL for a call without one
  ret          \* what it returned, NULL for a void call

vars == <<num_bucket, bucket, arg, ret>>

Entry == [key : Key, value : Value]

Pair(k, v) == [key |-> k, value |-> v]

Slot(k) == Hash[k] % num_bucket

\* Positions of the entries of a chain whose key matches.
Matches(chain, k) == {i \in DOMAIN chain : chain[i].key = k}

\* The chain is walked from its head: the first match is the one found.
FirstMatch(chain, k) ==
  CHOOSE i \in Matches(chain, k) : \A j \in Matches(chain, k) : i <= j

\* What walking a chain for a key yields: the value of its entry, or NULL.
ChainGet(chain, k) ==
  IF Matches(chain, k) = {} THEN NULL ELSE chain[FirstMatch(chain, k)].value

\* Mutant: the head of the chain is unlinked in place of the match.
ChainRemoveHead(chain, k) ==
  IF Matches(chain, k) = {} THEN chain ELSE RemoveAt(chain, 1)

\* What walking a chain to unlink a key leaves of it.
ChainRemove(chain, k) ==
  IF Matches(chain, k) = {} THEN chain ELSE RemoveAt(chain, FirstMatch(chain, k))

\* The answer of hashtable_get(): a table without buckets has no entry.
Lookup(k) ==
  IF num_bucket = 0 THEN NULL ELSE ChainGet(bucket[Slot(k)], k)

Init ==
  /\ num_bucket = 0
  /\ bucket = <<>>
  /\ arg = NULL
  /\ ret = NULL

hashtable_build(num_index) ==
  /\ num_bucket = 0
  /\ num_bucket' = num_index
  /\ bucket' = [s \in 0 .. num_index - 1 |-> <<>>]
  /\ arg' = NULL
  /\ ret' = NULL

hashtable_get(k) ==
  /\ arg' = k
  /\ ret' = Lookup(k)
  /\ UNCHANGED <<num_bucket, bucket>>

\* Mutant: the keys of the chain are not compared.
SetUncompared(k, v) ==
  /\ num_bucket > 0
  /\ bucket' = [bucket EXCEPT ![Slot(k)] = Append(@, Pair(k, v))]
  /\ arg' = k
  /\ ret' = v
  /\ UNCHANGED num_bucket

\* Mutant: the entry is linked to the first chain, not to that of its hash.
SetInFirst(k, v) ==
  /\ num_bucket > 0
  /\ IF Matches(bucket[Slot(k)], k) = {}
       THEN /\ bucket' = [bucket EXCEPT ![0] = Append(@, Pair(k, v))]
            /\ ret' = v
       ELSE /\ ret' = Lookup(k)
            /\ UNCHANGED bucket
  /\ arg' = k
  /\ UNCHANGED num_bucket

\* An occupied key keeps its value and the caller gets that value back.
hashtable_set(k, v) ==
  /\ num_bucket > 0
  /\ IF Matches(bucket[Slot(k)], k) = {}
       THEN /\ bucket' = [bucket EXCEPT ![Slot(k)] = Append(@, Pair(k, v))]
            /\ ret' = v
       ELSE /\ ret' = Lookup(k)
            /\ UNCHANGED bucket
  /\ arg' = k
  /\ UNCHANGED num_bucket

hashtable_remove(k) ==
  /\ bucket' = IF num_bucket = 0
                 THEN bucket
                 ELSE [bucket EXCEPT ![Slot(k)] = ChainRemove(@, k)]
  /\ arg' = k
  /\ ret' = NULL
  /\ UNCHANGED num_bucket

\* Mutant: the number of buckets outlives the buckets.
ResetKeepsSize ==
  /\ bucket' = <<>>
  /\ arg' = NULL
  /\ ret' = NULL
  /\ UNCHANGED num_bucket

\* hashtable_destroy() and the hashtable_init() that follows it in
\* Jscon_composite_remake().
hashtable_reset ==
  /\ num_bucket' = 0
  /\ bucket' = <<>>
  /\ arg' = NULL
  /\ ret' = NULL

Next ==
  \/ \E n \in 1 .. MaxBucket : hashtable_build(n)
  \/ hashtable_reset
  \/ \E k \in Key : hashtable_get(k)
  \/ \E k \in Key : hashtable_remove(k)
  \/ \E k \in Key, v \in Value : hashtable_set(k, v)

Spec == Init /\ [][Next]_vars

------------------------------------------------------------------------------

TypeOK ==
  /\ num_bucket \in Nat
  /\ bucket \in [0 .. num_bucket - 1 -> Seq(Entry)]
  /\ arg \in Key \cup {NULL}
  /\ ret \in Value \cup {NULL}

(***************************************************************************)
(* A key has at most one entry in a chain.  hashtable_remove() unlinks the *)
(* first match only, so a second entry would bring a removed key back.     *)
(***************************************************************************)
NoShadowedEntry ==
  \A s \in DOMAIN bucket : \A i, j \in DOMAIN bucket[s] :
    bucket[s][i].key = bucket[s][j].key => i = j

(***************************************************************************)
(* An entry sits in the chain its key hashes to: an entry in any other     *)
(* chain would be counted, kept and freed, and never found.                *)
(***************************************************************************)
EntryInItsSlot ==
  \A s \in DOMAIN bucket : \A i \in DOMAIN bucket[s] :
    Slot(bucket[s][i].key) = s

(***************************************************************************)
(* The chains implement the first-wins map, return values included.        *)
(***************************************************************************)
Abstract == INSTANCE KeyMap WITH
  built <- num_bucket > 0,
  map <- [k \in Key |-> Lookup(k)]

ImplementsKeyMap == Abstract!Spec
==============================================================================
