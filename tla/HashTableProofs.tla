--------------------------- MODULE HashTableProofs ---------------------------
(***************************************************************************)
(* For every set of keys, every hash and every number of buckets: the      *)
(* chains of HashTable are well formed and implement KeyMap.               *)
(***************************************************************************)
EXTENDS HashTable, SeqLemmas

Distinct(chain) ==
  \A i, j \in DOMAIN chain : chain[i].key = chain[j].key => i = j

IInv == TypeOK /\ NoShadowedEntry /\ EntryInItsSlot

------------------------------------------------------------------------------
(* What walking one chain returns, and what a call leaves of it.           *)

\* A hash modulo the number of buckets is an index of a bucket.
LEMMA SlotInRange ==
  ASSUME NEW n \in Nat, n > 0, NEW k \in Key
  PROVE  Hash[k] % n \in 0 .. n - 1
BY HashAssumption

\* Without a second entry for the key, the walk finds the entry itself.
LEMMA ChainGetFound ==
  ASSUME NEW chain \in Seq(Entry), Distinct(chain),
         NEW i \in DOMAIN chain
  PROVE  /\ FirstMatch(chain, chain[i].key) = i
         /\ ChainGet(chain, chain[i].key) = chain[i].value
<1> DEFINE k == chain[i].key
<1>1. Matches(chain, k) = {i}
  BY DEF Matches, Distinct
<1>2. i \in Nat
  BY LenProperties
<1>3. FirstMatch(chain, k) = i
  BY <1>1, <1>2 DEF FirstMatch
<1> QED
  BY <1>1, <1>3 DEF ChainGet

\* A new entry at the end of a chain is found, and hides no other.
LEMMA ChainAppend ==
  ASSUME NEW chain \in Seq(Entry), Distinct(chain),
         NEW k \in Key, NEW v \in Value, Matches(chain, k) = {}
  PROVE  /\ Append(chain, Pair(k, v)) \in Seq(Entry)
         /\ Distinct(Append(chain, Pair(k, v)))
         /\ \A q \in Key : ChainGet(Append(chain, Pair(k, v)), q) =
              IF q = k THEN v ELSE ChainGet(chain, q)
<1> DEFINE e == Pair(k, v)
           c == Append(chain, e)
<1>1. /\ e \in Entry
      /\ e.key = k
      /\ e.value = v
  BY DEF Pair, Entry
<1>2. /\ c \in Seq(Entry)
      /\ DOMAIN c = 1 .. Len(chain) + 1
      /\ DOMAIN chain = 1 .. Len(chain)
      /\ Len(chain) \in Nat
      /\ \A i \in DOMAIN chain : c[i] = chain[i]
      /\ c[Len(chain) + 1] = e
  BY <1>1
<1>3. \A i \in DOMAIN chain : chain[i].key # k
  BY DEF Matches
<1>4. Distinct(c)
  BY <1>1, <1>2, <1>3 DEF Distinct
<1>5. ChainGet(c, k) = v
  <2> DEFINE n == Len(chain) + 1
  <2>1. n \in DOMAIN c /\ c[n].key = k /\ c[n].value = v
    BY <1>1, <1>2
  <2>2. ChainGet(c, c[n].key) = c[n].value
    BY <1>2, <1>4, <2>1, ChainGetFound
  <2> QED
    BY <2>1, <2>2
<1>6. ASSUME NEW q \in Key, q # k
      PROVE  ChainGet(c, q) = ChainGet(chain, q)
  <2>1. Matches(c, q) = Matches(chain, q)
    BY <1>1, <1>2, <1>6 DEF Matches
  <2>2. CASE Matches(chain, q) = {}
    BY <2>1, <2>2 DEF ChainGet
  <2>3. CASE Matches(chain, q) # {}
    <3>1. PICK i \in DOMAIN chain : chain[i].key = q
      BY <2>3 DEF Matches
    <3>2. i \in DOMAIN c /\ c[i] = chain[i]
      BY <1>2
    <3> QED
      BY <1>2, <1>4, <3>1, <3>2, ChainGetFound
  <2> QED
    BY <2>2, <2>3
<1> QED
  BY <1>2, <1>4, <1>5, <1>6

\* Unlinking a key leaves every other entry of the chain, and only those.
LEMMA ChainRemoveOne ==
  ASSUME NEW chain \in Seq(Entry), Distinct(chain), NEW k \in Key
  PROVE  /\ ChainRemove(chain, k) \in Seq(Entry)
         /\ Distinct(ChainRemove(chain, k))
         /\ \A i \in DOMAIN ChainRemove(chain, k) :
              \E j \in DOMAIN chain : ChainRemove(chain, k)[i] = chain[j]
         /\ \A q \in Key : ChainGet(ChainRemove(chain, k), q) =
              IF q = k THEN NULL ELSE ChainGet(chain, q)
<1>1. CASE Matches(chain, k) = {}
  BY <1>1 DEF ChainRemove, ChainGet
<1>2. CASE Matches(chain, k) # {}
  <2>1. PICK n \in DOMAIN chain : chain[n].key = k
    BY <1>2 DEF Matches
  <2> DEFINE r == RemoveAt(chain, n)
  <2>2. ChainRemove(chain, k) = r
    BY <1>2, <2>1, ChainGetFound DEF ChainRemove
  <2>3. /\ DOMAIN chain = 1 .. Len(chain)
        /\ Len(chain) \in Nat
    BY LenProperties
  <2>4. /\ r \in Seq(Entry)
        /\ Len(r) = Len(chain) - 1
        /\ DOMAIN r = 1 .. Len(chain) - 1
        /\ \A i \in 1 .. Len(chain) - 1 :
             r[i] = IF i < n THEN chain[i] ELSE chain[i + 1]
    BY <2>3, RemoveAtProperties, LenProperties
  <2>5. /\ \A i \in DOMAIN r : \E j \in DOMAIN chain : j # n /\ r[i] = chain[j]
        /\ \A j \in DOMAIN chain : j # n => \E i \in DOMAIN r : r[i] = chain[j]
    BY RemoveAtElements
  <2> HIDE DEF r
  <2>6. Distinct(r)
    <3>1. SUFFICES ASSUME NEW i \in DOMAIN r, NEW j \in DOMAIN r,
                          r[i].key = r[j].key
                   PROVE  i = j
      BY DEF Distinct
    <3> DEFINE Old(m) == IF m < n THEN m ELSE m + 1
    <3>2. /\ Old(i) \in DOMAIN chain /\ r[i] = chain[Old(i)]
          /\ Old(j) \in DOMAIN chain /\ r[j] = chain[Old(j)]
      BY <2>3, <2>4
    <3>3. Old(i) = Old(j)
      BY <3>1, <3>2 DEF Distinct
    <3> QED
      BY <2>3, <2>4, <3>3
  <2>7. ASSUME NEW i \in DOMAIN r
        PROVE  r[i].key # k
    BY <2>1, <2>5 DEF Distinct
  <2>8. ChainGet(r, k) = NULL
    BY <2>7 DEF ChainGet, Matches
  <2>9. ASSUME NEW q \in Key, q # k
        PROVE  ChainGet(r, q) = ChainGet(chain, q)
    <3>1. CASE Matches(chain, q) = {}
      <4>1. Matches(r, q) = {}
        BY <2>5, <3>1 DEF Matches
      <4> QED
        BY <3>1, <4>1 DEF ChainGet
    <3>2. CASE Matches(chain, q) # {}
      <4>1. PICK j \in DOMAIN chain : chain[j].key = q
        BY <3>2 DEF Matches
      <4>2. j # n
        BY <2>1, <2>9, <4>1
      <4>3. PICK i \in DOMAIN r : r[i] = chain[j]
        BY <2>5, <4>2
      <4>4. ChainGet(r, r[i].key) = r[i].value
        BY <2>4, <2>6, ChainGetFound
      <4>5. ChainGet(chain, chain[j].key) = chain[j].value
        BY ChainGetFound
      <4> QED
        BY <4>1, <4>3, <4>4, <4>5
    <3> QED
      BY <3>1, <3>2
  <2> QED
    BY <2>2, <2>4, <2>5, <2>6, <2>8, <2>9
<1> QED
  BY <1>1, <1>2

------------------------------------------------------------------------------
(* The chains stay well formed, each action on its own.                    *)

(***************************************************************************)
(* The chain of a slot under the invariant, in the form the lemmas above   *)
(* want it.                                                                *)
(***************************************************************************)
LEMMA ChainOK ==
  ASSUME IInv, NEW s \in DOMAIN bucket
  PROVE  /\ bucket[s] \in Seq(Entry)
         /\ Distinct(bucket[s])
         /\ \A i \in DOMAIN bucket[s] : Slot(bucket[s][i].key) = s
BY DEF IInv, TypeOK, NoShadowedEntry, EntryInItsSlot, Distinct

(***************************************************************************)
(* Replacing the chain of one slot of a built table by a well-formed chain *)
(* of entries that belong there.                                           *)
(***************************************************************************)
LEMMA ReplaceChain ==
  ASSUME IInv, NEW s \in DOMAIN bucket, NEW chain \in Seq(Entry),
         Distinct(chain), \A i \in DOMAIN chain : Slot(chain[i].key) = s,
         num_bucket' = num_bucket, bucket' = [bucket EXCEPT ![s] = chain],
         arg' \in Key \cup {NULL}, ret' \in Value \cup {NULL}
  PROVE  IInv'
<1>1. /\ DOMAIN bucket' = DOMAIN bucket
      /\ \A t \in DOMAIN bucket : bucket'[t] = IF t = s THEN chain ELSE bucket[t]
  BY DEF IInv, TypeOK
<1>2. TypeOK'
  BY <1>1 DEF IInv, TypeOK
<1>3. NoShadowedEntry'
  BY <1>1 DEF IInv, NoShadowedEntry, Distinct
<1>4. EntryInItsSlot'
  BY <1>1 DEF IInv, EntryInItsSlot, Slot
<1> QED
  BY <1>2, <1>3, <1>4 DEF IInv

(***************************************************************************)
(* What a table of well-formed chains answers is a value or NULL, and it   *)
(* is looked up in a chain that exists.                                    *)
(***************************************************************************)
LEMMA LookupOK ==
  ASSUME IInv, NEW k \in Key
  PROVE  /\ Lookup(k) \in Value \cup {NULL}
         /\ num_bucket > 0 => Slot(k) \in DOMAIN bucket
<1>1. num_bucket > 0 => Slot(k) \in DOMAIN bucket
  BY SlotInRange DEF IInv, TypeOK, Slot
<1>2. CASE num_bucket = 0
  BY <1>1, <1>2 DEF Lookup
<1>3. CASE num_bucket # 0
  <2> DEFINE chain == bucket[Slot(k)]
  <2>1. num_bucket > 0
    BY <1>3 DEF IInv, TypeOK
  <2>2. chain \in Seq(Entry) /\ Distinct(chain)
    BY <1>1, <2>1, ChainOK
  <2>3. ChainGet(chain, k) \in Value \cup {NULL}
    <3>1. CASE Matches(chain, k) = {}
      BY <3>1 DEF ChainGet
    <3>2. CASE Matches(chain, k) # {}
      <4>1. PICK i \in DOMAIN chain : chain[i].key = k
        BY <3>2 DEF Matches
      <4>2. chain[i] \in Entry
        BY <2>2
      <4> QED
        BY <2>2, <4>1, <4>2, ChainGetFound DEF Entry
    <3> QED
      BY <3>1, <3>2
  <2> QED
    BY <1>1, <1>3, <2>3 DEF Lookup
<1> QED
  BY <1>2, <1>3

\* A table without buckets holds no entry.
LEMMA InitIInv == Init => IInv
BY DEF Init, IInv, TypeOK, NoShadowedEntry, EntryInItsSlot

\* Neither does one that was just built or reset.
LEMMA EmptyTable ==
  ASSUME NEW n \in Nat, num_bucket' = n,
         bucket' = [s \in 0 .. n - 1 |-> <<>>], arg' = NULL, ret' = NULL
  PROVE  IInv'
BY DEF IInv, TypeOK, NoShadowedEntry, EntryInItsSlot

\* A key is appended to its own chain, and only when it is not there.
LEMMA SetIInv ==
  ASSUME IInv, NEW k \in Key, NEW v \in Value, hashtable_set(k, v)
  PROVE  IInv'
<1> DEFINE s == Slot(k)
           chain == bucket[s]
<1>1. s \in DOMAIN bucket
  BY LookupOK DEF hashtable_set
<1>2. CASE Matches(chain, k) = {}
  <2> DEFINE new == Append(chain, Pair(k, v))
  <2>1. chain \in Seq(Entry) /\ Distinct(chain)
    BY <1>1, ChainOK
  <2>2. new \in Seq(Entry) /\ Distinct(new)
    BY <1>2, <2>1, ChainAppend
  <2>3. \A i \in DOMAIN new : Slot(new[i].key) = s
    BY <1>1, <2>1, ChainOK DEF Pair, Entry
  <2>4. /\ bucket' = [bucket EXCEPT ![s] = new]
        /\ num_bucket' = num_bucket
        /\ arg' \in Key \cup {NULL} /\ ret' \in Value \cup {NULL}
    BY <1>2 DEF hashtable_set
  <2> HIDE DEF new, s
  <2> QED
    BY <1>1, <2>2, <2>3, <2>4, ReplaceChain
<1>3. CASE Matches(chain, k) # {}
  <2>1. /\ UNCHANGED <<num_bucket, bucket>>
        /\ arg' \in Key \cup {NULL} /\ ret' \in Value \cup {NULL}
    BY <1>3, LookupOK DEF hashtable_set
  <2> QED
    BY <2>1 DEF IInv, TypeOK, NoShadowedEntry, EntryInItsSlot, Slot
<1> QED
  BY <1>2, <1>3

\* Unlinking an entry keeps the others where they are.
LEMMA RemoveIInv ==
  ASSUME IInv, NEW k \in Key, hashtable_remove(k)
  PROVE  IInv'
<1>1. CASE num_bucket = 0
  BY <1>1 DEF hashtable_remove, IInv, TypeOK, NoShadowedEntry, EntryInItsSlot, Slot
<1>2. CASE num_bucket # 0
  <2> DEFINE s == Slot(k)
             chain == bucket[s]
             new == ChainRemove(chain, k)
  <2>1. s \in DOMAIN bucket
    BY <1>2, LookupOK DEF IInv, TypeOK
  <2>2. /\ chain \in Seq(Entry) /\ Distinct(chain)
        /\ \A i \in DOMAIN chain : Slot(chain[i].key) = s
    BY <2>1, ChainOK
  <2>3. /\ new \in Seq(Entry) /\ Distinct(new)
        /\ \A i \in DOMAIN new : \E j \in DOMAIN chain : new[i] = chain[j]
    BY <2>2, ChainRemoveOne
  <2>4. \A i \in DOMAIN new : Slot(new[i].key) = s
    BY <2>2, <2>3
  <2>5. /\ bucket' = [bucket EXCEPT ![s] = new]
        /\ num_bucket' = num_bucket
        /\ arg' \in Key \cup {NULL} /\ ret' \in Value \cup {NULL}
    BY <1>2 DEF hashtable_remove
  <2> HIDE DEF new, s
  <2> QED
    BY <2>1, <2>3, <2>4, <2>5, ReplaceChain
<1> QED
  BY <1>1, <1>2

\* Every call preserves the invariant.
LEMMA NextIInv ==
  ASSUME IInv, [Next]_vars
  PROVE  IInv'
<1>1. ASSUME NEW n \in 1 .. MaxBucket, hashtable_build(n)
      PROVE  IInv'
  BY <1>1, EmptyTable, BucketAssumption DEF hashtable_build
<1>2. CASE hashtable_reset
  <2>1. bucket' = [s \in 0 .. 0 - 1 |-> <<>>]
    BY <1>2 DEF hashtable_reset
  <2> QED
    BY <1>2, <2>1, EmptyTable DEF hashtable_reset
<1>3. ASSUME NEW k \in Key, hashtable_get(k)
      PROVE  IInv'
  BY <1>3, LookupOK
     DEF hashtable_get, IInv, TypeOK, NoShadowedEntry, EntryInItsSlot, Slot
<1>4. ASSUME NEW k \in Key, hashtable_remove(k)
      PROVE  IInv'
  BY <1>4, RemoveIInv
<1>5. ASSUME NEW k \in Key, NEW v \in Value, hashtable_set(k, v)
      PROVE  IInv'
  BY <1>5, SetIInv
<1>6. CASE UNCHANGED vars
  BY <1>6 DEF vars, IInv, TypeOK, NoShadowedEntry, EntryInItsSlot, Slot
<1> QED
  BY <1>1, <1>2, <1>3, <1>4, <1>5, <1>6 DEF Next

(***************************************************************************)
(* Whatever is stored, removed and reset, every bucket up to num_bucket is *)
(* a chain of entries, and a call answers with a pointer that was stored   *)
(* or NULL.                                                                *)
(***************************************************************************)
THEOREM TableIsTyped == Spec => []TypeOK
<1>1. IInv => TypeOK
  BY DEF IInv
<1> QED
  BY <1>1, InitIInv, NextIInv, PTL DEF Spec

(***************************************************************************)
(* No hash and no number of buckets brings a key twice into a chain, so a  *)
(* removed key is gone after one unlinking.                                *)
(***************************************************************************)
THEOREM NoKeyTwice == Spec => []NoShadowedEntry
<1>1. IInv => NoShadowedEntry
  BY DEF IInv
<1> QED
  BY <1>1, InitIInv, NextIInv, PTL DEF Spec

(***************************************************************************)
(* An entry is always where the walk for its key begins, also when a table *)
(* was reset and built with another number of buckets.                     *)
(***************************************************************************)
THEOREM EntriesAreFound == Spec => []EntryInItsSlot
<1>1. IInv => EntryInItsSlot
  BY DEF IInv
<1> QED
  BY <1>1, InitIInv, NextIInv, PTL DEF Spec

------------------------------------------------------------------------------
(* Every step of the chains is a step of the map.                          *)

(***************************************************************************)
(* What every key looks up to after the chain of one slot is replaced.     *)
(***************************************************************************)
LEMMA LookupAfter ==
  ASSUME IInv, num_bucket > 0, NEW s \in DOMAIN bucket, NEW chain,
         num_bucket' = num_bucket, bucket' = [bucket EXCEPT ![s] = chain],
         NEW q \in Key
  PROVE  Lookup(q)' = IF Slot(q) = s THEN ChainGet(chain, q) ELSE Lookup(q)
<1>1. Slot(q) \in DOMAIN bucket
  BY LookupOK
<1>2. Slot(q)' = Slot(q)
  BY DEF Slot
<1>3. num_bucket # 0 /\ num_bucket' # 0
  BY DEF IInv, TypeOK
<1>4. Lookup(q)' = ChainGet(bucket'[Slot(q)], q)
  BY <1>2, <1>3 DEF Lookup
<1>5. Lookup(q) = ChainGet(bucket[Slot(q)], q)
  BY <1>3 DEF Lookup
<1>6. bucket'[Slot(q)] = IF Slot(q) = s THEN chain ELSE bucket[Slot(q)]
  BY <1>1 DEF IInv, TypeOK
<1> QED
  BY <1>4, <1>5, <1>6

\* hashtable_set() is the store of a first-wins map.
LEMMA SetRefines ==
  ASSUME IInv, NEW k \in Key, NEW v \in Value, hashtable_set(k, v)
  PROVE  Abstract!Set(k, v)
<1> DEFINE s == Slot(k)
           chain == bucket[s]
<1>1. num_bucket > 0 /\ num_bucket' = num_bucket /\ num_bucket # 0
  BY DEF hashtable_set, IInv, TypeOK
<1>2. s \in DOMAIN bucket
  BY <1>1, LookupOK
<1>3. chain \in Seq(Entry) /\ Distinct(chain)
  BY <1>2, ChainOK
<1>4. Lookup(k) = ChainGet(chain, k)
  BY <1>1 DEF Lookup
<1>5. CASE Matches(chain, k) = {}
  <2> DEFINE new == Append(chain, Pair(k, v))
  <2>1. \A q \in Key : ChainGet(new, q) = IF q = k THEN v ELSE ChainGet(chain, q)
    BY <1>3, <1>5, ChainAppend
  <2>2. bucket' = [bucket EXCEPT ![s] = new] /\ arg' = k /\ ret' = v
    BY <1>5 DEF hashtable_set
  <2>3. Lookup(k) = NULL
    BY <1>4, <1>5 DEF ChainGet
  <2>4. ASSUME NEW q \in Key
        PROVE  Lookup(q)' = IF q = k THEN v ELSE Lookup(q)
    <3>1. Lookup(q)' = IF Slot(q) = s THEN ChainGet(new, q) ELSE Lookup(q)
      <4> HIDE DEF s, new
      <4> QED
        BY <1>1, <1>2, <2>2, LookupAfter
    <3>2. Slot(q) = s => Lookup(q) = ChainGet(chain, q)
      BY <1>1 DEF Lookup
    <3> HIDE DEF new, chain
    <3> QED
      BY <2>1, <3>1, <3>2
  <2>5. [q \in Key |-> Lookup(q)]' = [[q \in Key |-> Lookup(q)] EXCEPT ![k] = v]
    BY <2>4
  <2> QED
    BY <1>1, <2>2, <2>3, <2>5 DEF Abstract!Set
<1>6. CASE Matches(chain, k) # {}
  <2>1. UNCHANGED <<num_bucket, bucket>> /\ arg' = k /\ ret' = Lookup(k)
    BY <1>6 DEF hashtable_set
  <2>2. \A q \in Key : Lookup(q)' = Lookup(q)
    BY <2>1 DEF Lookup, Slot
  <2>3. Lookup(k) # NULL
    <3>1. PICK i \in DOMAIN chain : chain[i].key = k
      BY <1>6 DEF Matches
    <3>2. chain[i] \in Entry
      BY <1>3
    <3>3. ChainGet(chain, k) = chain[i].value
      BY <1>3, <3>1, ChainGetFound
    <3>4. chain[i].value \in Value
      BY <3>2 DEF Entry
    <3> QED
      BY <1>4, <3>3, <3>4, NullAssumption
  <2>4. [q \in Key |-> Lookup(q)]' = [q \in Key |-> Lookup(q)]
    BY <2>2
  <2> QED
    BY <1>1, <2>1, <2>2, <2>3, <2>4 DEF Abstract!Set
<1> QED
  BY <1>5, <1>6

\* hashtable_remove() leaves no entry of the key behind.
LEMMA RemoveRefines ==
  ASSUME IInv, NEW k \in Key, hashtable_remove(k)
  PROVE  Abstract!Remove(k)
<1>1. ASSUME NEW q \in Key
      PROVE  Lookup(q)' = IF q = k THEN NULL ELSE Lookup(q)
  <2>1. CASE num_bucket = 0
    BY <2>1 DEF hashtable_remove, Lookup
  <2>2. CASE num_bucket # 0
    <3> DEFINE s == Slot(k)
               chain == bucket[s]
               new == ChainRemove(chain, k)
    <3>1. num_bucket > 0 /\ num_bucket' = num_bucket
      BY <2>2 DEF hashtable_remove, IInv, TypeOK
    <3>2. s \in DOMAIN bucket
      BY <3>1, LookupOK
    <3>3. ChainGet(new, q) = IF q = k THEN NULL ELSE ChainGet(chain, q)
      BY <3>2, ChainOK, ChainRemoveOne
    <3>4. bucket' = [bucket EXCEPT ![s] = new]
      BY <2>2 DEF hashtable_remove
    <3>5. Lookup(q)' = IF Slot(q) = s THEN ChainGet(new, q) ELSE Lookup(q)
      <4> HIDE DEF s, new
      <4> QED
        BY <3>1, <3>2, <3>4, LookupAfter
    <3>6. Slot(q) = s => Lookup(q) = ChainGet(chain, q)
      BY <2>2 DEF Lookup
    <3> HIDE DEF new, chain
    <3> QED
      BY <3>3, <3>5, <3>6
  <2> QED
    BY <2>1, <2>2
<1>2. [q \in Key |-> Lookup(q)]' = [[q \in Key |-> Lookup(q)] EXCEPT ![k] = NULL]
  BY <1>1
<1> QED
  BY <1>2 DEF hashtable_remove, Abstract!Remove

\* A table without buckets is the map that is not built.
LEMMA InitRefines == Init => Abstract!Init
BY DEF Init, Lookup, Abstract!Init, Abstract!Empty

\* Every call is one of the map, or changes nothing a caller can see.
LEMMA NextRefines ==
  ASSUME IInv, IInv', [Next]_vars
  PROVE  [Abstract!Next]_(Abstract!vars)
<1> DEFINE M == [q \in Key |-> Lookup(q)]
<1>1. ASSUME NEW n \in 1 .. MaxBucket, hashtable_build(n)
      PROVE  Abstract!Build
  <2>1. \A q \in Key : Lookup(q) = NULL
    BY <1>1 DEF hashtable_build, Lookup
  <2>2. num_bucket = 0 /\ num_bucket' > 0 /\ arg' = NULL /\ ret' = NULL
    BY <1>1 DEF hashtable_build
  <2>3. \A q \in Key : Lookup(q)' = NULL
    <3> SUFFICES ASSUME NEW q \in Key PROVE Lookup(q)' = NULL
      OBVIOUS
    <3>1. Hash[q] % n \in 0 .. n - 1
      BY SlotInRange
    <3>2. bucket'[Slot(q)'] = <<>>
      BY <1>1, <3>1 DEF hashtable_build, Slot
    <3> QED
      BY <2>2, <3>2 DEF Lookup, ChainGet, Matches
  <2>4. M' = M
    BY <2>1, <2>3
  <2> QED
    BY <2>2, <2>4 DEF Abstract!Build
<1>2. ASSUME hashtable_reset
      PROVE  Abstract!Reset
  <2>1. \A q \in Key : Lookup(q)' = NULL
    BY <1>2 DEF hashtable_reset, Lookup
  <2>2. M' = [q \in Key |-> NULL]
    BY <2>1
  <2>3. (num_bucket > 0)' = FALSE /\ arg' = NULL /\ ret' = NULL
    BY <1>2 DEF hashtable_reset
  <2> QED
    BY <2>2, <2>3 DEF Abstract!Reset, Abstract!Empty
<1>3. ASSUME NEW k \in Key, hashtable_get(k)
      PROVE  Abstract!Get(k)
  <2>1. UNCHANGED <<num_bucket, bucket>> /\ arg' = k /\ ret' = M[k]
    BY <1>3 DEF hashtable_get
  <2>2. M' = M
    BY <2>1 DEF Lookup, Slot
  <2> QED
    BY <2>1, <2>2 DEF Abstract!Get
<1>4. ASSUME NEW k \in Key, hashtable_remove(k)
      PROVE  Abstract!Remove(k)
  BY <1>4, RemoveRefines
<1>5. ASSUME NEW k \in Key, NEW v \in Value, hashtable_set(k, v)
      PROVE  Abstract!Set(k, v)
  BY <1>5, SetRefines
<1>6. CASE UNCHANGED vars
  <2>1. M' = M
    BY <1>6 DEF vars, Lookup, Slot
  <2> QED
    BY <1>6, <2>1 DEF vars, Abstract!vars
<1> QED
  BY <1>1, <1>2, <1>3, <1>4, <1>5, <1>6 DEF Next, Abstract!Next

(***************************************************************************)
(* The table with its chains is a first-wins map: every behaviour of       *)
(* HashTable, with the answers it gives, is a behaviour of KeyMap.         *)
(***************************************************************************)
THEOREM TableImplementsMap == Spec => ImplementsKeyMap
<1>1. Init /\ [][Next]_vars => []IInv
  BY InitIInv, NextIInv, PTL
<1> QED
  BY <1>1, InitRefines, NextRefines, PTL
     DEF Spec, ImplementsKeyMap, Abstract!Spec

==============================================================================
