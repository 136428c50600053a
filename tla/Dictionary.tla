----------------------------- MODULE Dictionary -----------------------------
(***************************************************************************)
(* dictionary_t of src/src/hashtable.c: the buckets and chains of a        *)
(* hashtable_t, with entries that own their value when they carry a        *)
(* free_cb.  A later store frees the earlier value, removal and            *)
(* destruction free what is stored, and len counts the entries.  Building  *)
(* and reading go through the hashtable_t functions by a cast, so they are *)
(* the operators of HashTable on the same variables.                       *)
(*                                                                         *)
(* heap says of each pointer whether it is the caller's or free for malloc *)
(* to hand out ("out"), the dictionary's to free ("stored"), or was freed  *)
(* by the dictionary when it was not its own ("faulty").                   *)
(***************************************************************************)
EXTENDS Naturals, FiniteSets, SequencesExt

CONSTANTS Key, Value, NULL, Hash, MaxBucket

\* What HashTable assumes.
ASSUME HashAssumption == Hash \in [Key -> Nat]
ASSUME NullAssumption == NULL \notin Value
ASSUME BucketAssumption == MaxBucket \in Nat

VARIABLES num_bucket, bucket, len, heap, arg, ret

vars == <<num_bucket, bucket, len, heap, arg, ret>>

Table == INSTANCE HashTable

Content == Value \cup {NULL}

Entry == [key : Key, value : Content, free_cb : BOOLEAN]

Pair(k, v, tagged) == [key |-> k, value |-> v, free_cb |-> tagged]

Chain(k) == bucket[Table!Slot(k)]

Present(k) == num_bucket > 0 /\ Table!Matches(Chain(k), k) # {}

\* The entry that a walk of k's chain stops at.
EntryOf(k) == Chain(k)[Table!FirstMatch(Chain(k), k)]

\* The entries, by position, that will free v.
Owners(v) ==
  UNION {{<<s, i>> : i \in {j \in DOMAIN bucket[s] :
                              bucket[s][j].free_cb /\ bucket[s][j].value = v}} :
           s \in DOMAIN bucket}

\* The pointers that an entry holds, lent or given away.
Stored == UNION {{bucket[s][i].value : i \in DOMAIN bucket[s]} : s \in DOMAIN bucket}

\* What calling free_cb on the value of entry e makes of h.
Freed(h, e) ==
  IF e.free_cb /\ e.value # NULL
    THEN [h EXCEPT ![e.value] = IF @ = "stored" THEN "out" ELSE "faulty"]
    ELSE h

\* The caller gives v away for good when it tags it.
Given(h, v, tagged) ==
  IF tagged /\ v # NULL THEN [h EXCEPT ![v] = "stored"] ELSE h

\* A caller may lend the same pointer to many entries, and gives away one
\* that no entry holds.
MayPass(v, tagged) ==
  v # NULL => heap[v] = "out" /\ (tagged => v \notin Stored)

Init ==
  /\ Table!Init
  /\ len = 0
  /\ heap = [v \in Value |-> "out"]

dictionary_build(num_index) ==
  /\ Table!hashtable_build(num_index)
  /\ UNCHANGED <<len, heap>>

dictionary_get(k) ==
  /\ Table!hashtable_get(k)
  /\ UNCHANGED <<len, heap>>

\* Mutant: a store over a present key is counted again.
SetCountsTwice(k, v, tagged) ==
  /\ num_bucket > 0
  /\ MayPass(v, tagged)
  /\ bucket' =
       IF Present(k)
         THEN [bucket EXCEPT ![Table!Slot(k)]
                 [Table!FirstMatch(Chain(k), k)] = Pair(k, v, tagged)]
         ELSE [bucket EXCEPT ![Table!Slot(k)] = Append(@, Pair(k, v, tagged))]
  /\ heap' = Given(IF Present(k) THEN Freed(heap, EntryOf(k)) ELSE heap, v, tagged)
  /\ len' = len + 1
  /\ arg' = k
  /\ ret' = v
  /\ UNCHANGED num_bucket

dictionary_set(k, v, tagged) ==
  /\ num_bucket > 0
  /\ MayPass(v, tagged)
  /\ IF Present(k)
       THEN /\ bucket' = [bucket EXCEPT ![Table!Slot(k)]
                            [Table!FirstMatch(Chain(k), k)] = Pair(k, v, tagged)]
            /\ heap' = Given(Freed(heap, EntryOf(k)), v, tagged)
            /\ UNCHANGED len
       ELSE /\ bucket' = [bucket EXCEPT ![Table!Slot(k)] =
                            Append(@, Pair(k, v, tagged))]
            /\ heap' = Given(heap, v, tagged)
            /\ len' = len + 1
  /\ arg' = k
  /\ ret' = v
  /\ UNCHANGED num_bucket

\* Mutant: the value that is replaced is not freed.
ReplaceLeaks(k, v) ==
  /\ Present(k)
  /\ MayPass(v, EntryOf(k).free_cb)
  /\ bucket' = [bucket EXCEPT ![Table!Slot(k)]
                  [Table!FirstMatch(Chain(k), k)].value = v]
  /\ heap' = Given(heap, v, EntryOf(k).free_cb)
  /\ arg' = k
  /\ ret' = v
  /\ UNCHANGED <<num_bucket, len>>

\* The entry keeps its free_cb, whatever the new value is.  An absent key
\* is a NULL dereference: the caller knows the key is there.
dictionary_replace(k, v) ==
  /\ Present(k)
  /\ MayPass(v, EntryOf(k).free_cb)
  /\ bucket' = [bucket EXCEPT ![Table!Slot(k)]
                  [Table!FirstMatch(Chain(k), k)].value = v]
  /\ heap' = Given(Freed(heap, EntryOf(k)), v, EntryOf(k).free_cb)
  /\ arg' = k
  /\ ret' = v
  /\ UNCHANGED <<num_bucket, len>>

\* Mutant: the size goes down whether or not the key is found.
RemoveAlwaysCounts(k) ==
  /\ IF Present(k)
       THEN /\ bucket' = [bucket EXCEPT ![Table!Slot(k)] = Table!ChainRemove(@, k)]
            /\ heap' = Freed(heap, EntryOf(k))
       ELSE UNCHANGED <<bucket, heap>>
  /\ len' = len - 1
  /\ arg' = k
  /\ ret' = NULL
  /\ UNCHANGED num_bucket

dictionary_remove(k) ==
  /\ IF Present(k)
       THEN /\ bucket' = [bucket EXCEPT ![Table!Slot(k)] = Table!ChainRemove(@, k)]
            /\ heap' = Freed(heap, EntryOf(k))
            /\ len' = len - 1
       ELSE UNCHANGED <<bucket, heap, len>>
  /\ arg' = k
  /\ ret' = NULL
  /\ UNCHANGED num_bucket

\* Every entry is freed with what it owns; the caller starts a new one.
dictionary_destroy ==
  /\ Table!hashtable_reset
  /\ len' = 0
  /\ heap' = [v \in Value |->
                CASE Owners(v) = {} -> heap[v]
                  [] Cardinality(Owners(v)) = 1 /\ heap[v] = "stored" -> "out"
                  [] OTHER -> "faulty"]

Next ==
  \/ \E n \in 1 .. MaxBucket : dictionary_build(n)
  \/ dictionary_destroy
  \/ \E k \in Key : dictionary_get(k)
  \/ \E k \in Key : dictionary_remove(k)
  \/ \E k \in Key, v \in Content : dictionary_replace(k, v)
  \/ \E k \in Key, v \in Content, tagged \in BOOLEAN : dictionary_set(k, v, tagged)

Spec == Init /\ [][Next]_vars

-----------------------------------------------------------------------------

TypeOK ==
  /\ num_bucket \in Nat
  /\ bucket \in [0 .. num_bucket - 1 -> Seq(Entry)]
  /\ len \in Nat
  /\ heap \in [Value -> {"out", "stored", "faulty"}]
  /\ arg \in Key \cup {NULL}
  /\ ret \in Content

(***************************************************************************)
(* A pointer given away is held by exactly one entry that will free it     *)
(* (none: a leak; two: a double free to come), no other pointer would be   *)
(* freed, and nothing was freed that was not the dictionary's.             *)
(***************************************************************************)
OwnedOnce ==
  \A v \in Value :
    /\ heap[v] # "faulty"
    /\ Cardinality(Owners(v)) = IF heap[v] = "stored" THEN 1 ELSE 0

(***************************************************************************)
(* The chains and len implement a last-wins map that knows its size: a     *)
(* store over a present key adds no entry, a removal brings no older value *)
(* back, and a NULL value still counts.                                    *)
(***************************************************************************)
Abstract == INSTANCE LastWinsMap WITH
  map <- [k \in {q \in Key : Present(q)} |-> EntryOf(k).value],
  size <- len

ImplementsLastWins == Abstract!Spec
=============================================================================
