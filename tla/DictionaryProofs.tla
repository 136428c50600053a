-------------------------- MODULE DictionaryProofs --------------------------
(***************************************************************************)
(* For every set of keys and of values, every hash and every number of     *)
(* buckets: a dictionary frees each pointer it was given once, and its     *)
(* chains and its size implement LastWinsMap.                              *)
(*                                                                         *)
(* The argument forgets the chains soon.  Chains that are well formed are  *)
(* determined by the set of their entries, of which no two have the same   *)
(* key: a call takes the entry of its key out of the set, or puts one in,  *)
(* and what is owned, counted and looked up is said of that set.           *)
(***************************************************************************)
EXTENDS Dictionary, SeqLemmas, FiniteSetTheorems

Distinct(chain) ==
  \A i, j \in DOMAIN chain : chain[i].key = chain[j].key => i = j

\* Entries are in the chain of their hash, one for a key.
Shape(n, b) ==
  /\ n \in Nat
  /\ b \in [0 .. n - 1 -> Seq(Entry)]
  /\ \A s \in DOMAIN b : /\ Distinct(b[s])
                         /\ \A i \in DOMAIN b[s] : Hash[b[s][i].key] % n = s

Entries(b) == UNION {ToSet(b[s]) : s \in DOMAIN b}

Keys(E) == {e.key : e \in E}

\* The entries that will free v.
Tagged(E, v) == {e \in E : e.free_cb /\ e.value = v}

Owned(E, h) ==
  \A v \in Value :
    /\ h[v] # "faulty"
    /\ h[v] = "stored" <=> Tagged(E, v) # {}
    /\ \A e, f \in Tagged(E, v) : e = f

Counted(E, n) == IsFiniteSet(Keys(E)) /\ n = Cardinality(Keys(E))

Typed ==
  /\ heap \in [Value -> {"out", "stored", "faulty"}]
  /\ arg \in Key \cup {NULL}
  /\ ret \in Content

IInv ==
  /\ Typed
  /\ Shape(num_bucket, bucket)
  /\ Owned(Entries(bucket), heap)
  /\ Counted(Entries(bucket), len)

------------------------------------------------------------------------------
(* Chains and the set of their entries.                                    *)

\* A hash modulo the number of buckets is an index of a bucket.
LEMMA SlotInRange ==
  ASSUME NEW n \in Nat, n > 0, NEW k \in Key
  PROVE  Hash[k] % n \in 0 .. n - 1
BY HashAssumption

\* Without a second entry for the key, the walk finds the entry itself.
LEMMA MatchIsEntry ==
  ASSUME NEW chain \in Seq(Entry), Distinct(chain), NEW i \in DOMAIN chain
  PROVE  /\ Table!Matches(chain, chain[i].key) = {i}
         /\ Table!FirstMatch(chain, chain[i].key) = i
<1>1. Table!Matches(chain, chain[i].key) = {i}
  BY DEF Table!Matches, Distinct
<1>2. i \in Nat
  BY LenProperties
<1> QED
  BY <1>1, <1>2 DEF Table!FirstMatch

\* The entries are those of the chains.
LEMMA EntryPlace ==
  ASSUME NEW n, NEW b, Shape(n, b)
  PROVE  /\ Entries(b) \subseteq Entry
         /\ \A e \in Entries(b) :
              /\ Hash[e.key] % n \in DOMAIN b
              /\ \E i \in DOMAIN b[Hash[e.key] % n] : b[Hash[e.key] % n][i] = e
         /\ \A s \in DOMAIN b : \A i \in DOMAIN b[s] : b[s][i] \in Entries(b)
<1>1. ASSUME NEW s \in DOMAIN b, NEW i \in DOMAIN b[s]
      PROVE  b[s][i] \in Entries(b) /\ b[s][i] \in Entry
  <2>1. b[s] \in Seq(Entry)
    BY DEF Shape
  <2>2. b[s][i] \in ToSet(b[s])
    BY DEF ToSet
  <2> QED
    BY <2>1, <2>2 DEF Entries
<1>2. ASSUME NEW e \in Entries(b)
      PROVE  /\ e \in Entry
             /\ Hash[e.key] % n \in DOMAIN b
             /\ \E i \in DOMAIN b[Hash[e.key] % n] : b[Hash[e.key] % n][i] = e
  <2>1. PICK s \in DOMAIN b : e \in ToSet(b[s])
    BY DEF Entries
  <2>2. PICK i \in DOMAIN b[s] : b[s][i] = e
    BY <2>1 DEF ToSet
  <2>3. Hash[e.key] % n = s
    BY <2>2 DEF Shape
  <2> QED
    BY <1>1, <2>2, <2>3
<1> QED
  BY <1>1, <1>2

\* No two entries have the same key.
LEMMA OneEntry ==
  ASSUME NEW n, NEW b, Shape(n, b),
         NEW e \in Entries(b), NEW f \in Entries(b), e.key = f.key
  PROVE  e = f
<1> DEFINE s == Hash[e.key] % n
<1>1. s \in DOMAIN b
  BY EntryPlace
<1>2. PICK i \in DOMAIN b[s] : b[s][i] = e
  BY EntryPlace
<1>3. PICK j \in DOMAIN b[s] : b[s][j] = f
  BY EntryPlace
<1>4. i = j
  BY <1>1, <1>2, <1>3 DEF Shape, Distinct
<1> QED
  BY <1>2, <1>3, <1>4

\* What a walk for k finds.
LEMMA EntryFound ==
  ASSUME IInv, NEW k \in Key
  PROVE  /\ num_bucket > 0 => Table!Slot(k) \in DOMAIN bucket /\ Chain(k) \in Seq(Entry)
         /\ Present(k) <=> k \in Keys(Entries(bucket))
         /\ Present(k) =>
              /\ EntryOf(k) \in Entries(bucket) /\ EntryOf(k).key = k
              /\ Table!FirstMatch(Chain(k), k) \in DOMAIN Chain(k)
              /\ Table!Matches(Chain(k), k) = {Table!FirstMatch(Chain(k), k)}
<1> DEFINE s == Hash[k] % num_bucket
<1>1. Shape(num_bucket, bucket) /\ num_bucket \in Nat
  BY DEF IInv, Shape
<1>2. Table!Slot(k) = s /\ Chain(k) = bucket[s]
  BY DEF Table!Slot, Chain
<1>3. num_bucket > 0 => s \in DOMAIN bucket /\ bucket[s] \in Seq(Entry) /\ Distinct(bucket[s])
  <2>1. num_bucket > 0 => s \in 0 .. num_bucket - 1
    BY <1>1, SlotInRange
  <2> QED
    BY <2>1 DEF IInv, Shape
<1>4. ASSUME Present(k)
      PROVE  /\ k \in Keys(Entries(bucket))
             /\ EntryOf(k) \in Entries(bucket) /\ EntryOf(k).key = k
             /\ Table!FirstMatch(Chain(k), k) \in DOMAIN Chain(k)
             /\ Table!Matches(Chain(k), k) = {Table!FirstMatch(Chain(k), k)}
  <2>1. num_bucket > 0
    BY <1>4 DEF Present
  <2>2. PICK i \in DOMAIN bucket[s] : bucket[s][i].key = k
    BY <1>2, <1>4 DEF Present, Table!Matches
  <2>3. Table!Matches(bucket[s], k) = {i} /\ Table!FirstMatch(bucket[s], k) = i
    BY <1>3, <2>1, <2>2, MatchIsEntry
  <2>4. bucket[s][i] \in Entries(bucket)
    BY <1>1, <1>3, <2>1, EntryPlace
  <2>5. EntryOf(k) = bucket[s][i]
    BY <1>2, <2>3 DEF EntryOf
  <2> QED
    BY <1>2, <2>2, <2>3, <2>4, <2>5 DEF Keys
<1>5. ASSUME k \in Keys(Entries(bucket))
      PROVE  Present(k)
  <2>1. PICK e \in Entries(bucket) : e.key = k
    BY <1>5 DEF Keys
  <2>2. s \in DOMAIN bucket /\ \E i \in DOMAIN bucket[s] : bucket[s][i] = e
    BY <1>1, <2>1, EntryPlace
  <2>3. num_bucket > 0
    BY <1>1, <2>2 DEF Shape
  <2> QED
    BY <1>2, <2>1, <2>2, <2>3 DEF Present, Table!Matches
<1> QED
  BY <1>2, <1>3, <1>4, <1>5

\* Another chain in one slot changes the entries of that slot only.
LEMMA ReplaceChain ==
  ASSUME NEW n, NEW b, Shape(n, b), NEW s \in DOMAIN b, NEW chain \in Seq(Entry),
         Distinct(chain), \A i \in DOMAIN chain : Hash[chain[i].key] % n = s,
         NEW c, c = [b EXCEPT ![s] = chain]
  PROVE  /\ Shape(n, c)
         /\ \A e : e \in Entries(c) <=>
              e \in ToSet(chain) \/ (e \in Entries(b) /\ e \notin ToSet(b[s]))
<1>1. /\ DOMAIN c = DOMAIN b /\ c[s] = chain
      /\ \A t \in DOMAIN b : t # s => c[t] = b[t]
      /\ n \in Nat /\ b \in [0 .. n - 1 -> Seq(Entry)]
  BY DEF Shape
<1>2. c \in [0 .. n - 1 -> Seq(Entry)]
  BY <1>1
<1>3. ASSUME NEW t \in DOMAIN c
      PROVE  Distinct(c[t]) /\ \A i \in DOMAIN c[t] : Hash[c[t][i].key] % n = t
  BY <1>1 DEF Shape
<1>4. Shape(n, c)
  BY <1>1, <1>2, <1>3 DEF Shape
<1>5. ASSUME NEW e, NEW t \in DOMAIN b, t # s, e \in ToSet(b[t])
      PROVE  e \notin ToSet(b[s])
  <2>1. \A u \in DOMAIN b : e \in ToSet(b[u]) => Hash[e.key] % n = u
    BY DEF Shape, ToSet
  <2> QED
    BY <1>5, <2>1
<1>6. ASSUME NEW e
      PROVE  e \in Entries(c) <=>
               e \in ToSet(chain) \/ (e \in Entries(b) /\ e \notin ToSet(b[s]))
  <2>1. e \in Entries(c) <=> \E t \in DOMAIN c : e \in ToSet(c[t])
    BY DEF Entries
  <2>2. e \in Entries(b) <=> \E t \in DOMAIN b : e \in ToSet(b[t])
    BY DEF Entries
  <2> QED
    BY <1>1, <1>5, <2>1, <2>2
<1> QED
  BY <1>4, <1>6

------------------------------------------------------------------------------
(* What a call makes of the set of entries.                                *)

Rest(E, k) == {e \in E : e.key # k}

\* A new key goes to the end of its chain.
LEMMA AppendEntry ==
  ASSUME IInv, NEW k \in Key, num_bucket > 0, ~Present(k), NEW e \in Entry, e.key = k,
         NEW c, c = [bucket EXCEPT ![Table!Slot(k)] = Append(@, e)]
  PROVE  Shape(num_bucket, c) /\ Entries(c) = Rest(Entries(bucket), k) \cup {e}
<1> DEFINE s == Table!Slot(k)
           chain == Append(bucket[s], e)
<1>1. Shape(num_bucket, bucket) /\ s \in DOMAIN bucket /\ bucket[s] \in Seq(Entry)
  BY EntryFound DEF IInv, Chain
<1>2. Distinct(bucket[s]) /\ \A i \in DOMAIN bucket[s] : Hash[bucket[s][i].key] % num_bucket = s
  BY <1>1 DEF Shape
<1>3. \A i \in DOMAIN bucket[s] : bucket[s][i].key # k
  BY DEF Present, Chain, Table!Matches
<1>4. /\ chain \in Seq(Entry)
      /\ DOMAIN chain = 1 .. Len(bucket[s]) + 1
      /\ DOMAIN bucket[s] = 1 .. Len(bucket[s])
      /\ Len(bucket[s]) \in Nat
      /\ \A i \in DOMAIN bucket[s] : chain[i] = bucket[s][i]
      /\ chain[Len(bucket[s]) + 1] = e
  BY <1>1
<1>5. c = [bucket EXCEPT ![s] = chain] /\ Hash[e.key] % num_bucket = s
  BY <1>1 DEF Table!Slot
<1> HIDE DEF s, chain
<1>6. Distinct(chain) /\ \A i \in DOMAIN chain : Hash[chain[i].key] % num_bucket = s
  <2>1. \A i \in DOMAIN chain :
          \/ i \in DOMAIN bucket[s] /\ chain[i] = bucket[s][i] /\ chain[i].key # k
          \/ i = Len(bucket[s]) + 1 /\ chain[i] = e
    BY <1>3, <1>4
  <2>2. Distinct(chain)
    BY <1>2, <2>1 DEF Distinct
  <2>3. \A i \in DOMAIN chain : Hash[chain[i].key] % num_bucket = s
    BY <1>2, <1>5, <2>1
  <2> QED
    BY <2>2, <2>3
<1>7. ToSet(chain) = ToSet(bucket[s]) \cup {e}
  BY <1>4 DEF ToSet
<1>8. /\ Shape(num_bucket, c)
      /\ \A f : f \in Entries(c) <=>
           f \in ToSet(chain) \/ (f \in Entries(bucket) /\ f \notin ToSet(bucket[s]))
  BY <1>1, <1>4, <1>5, <1>6, ReplaceChain
<1>9. ToSet(bucket[s]) \subseteq Entries(bucket)
  BY <1>1 DEF Entries
<1>10. \A f \in Entries(bucket) : f.key # k
  BY EntryFound DEF Keys
<1> QED
  BY <1>7, <1>8, <1>9, <1>10 DEF Rest

\* A key that is there keeps its place.
LEMMA SwapEntry ==
  ASSUME IInv, NEW k \in Key, Present(k), NEW e \in Entry, e.key = k,
         NEW c, c = [bucket EXCEPT ![Table!Slot(k)] =
                       [@ EXCEPT ![Table!FirstMatch(Chain(k), k)] = e]]
  PROVE  Shape(num_bucket, c) /\ Entries(c) = Rest(Entries(bucket), k) \cup {e}
<1> DEFINE s == Table!Slot(k)
           n == Table!FirstMatch(Chain(k), k)
           chain == [bucket[s] EXCEPT ![n] = e]
<1>1. Shape(num_bucket, bucket) /\ s \in DOMAIN bucket /\ bucket[s] \in Seq(Entry)
  BY EntryFound DEF IInv, Chain, Present
<1>2. Distinct(bucket[s]) /\ \A i \in DOMAIN bucket[s] : Hash[bucket[s][i].key] % num_bucket = s
  BY <1>1 DEF Shape
<1>3. n \in DOMAIN bucket[s] /\ Table!Matches(bucket[s], k) = {n}
  BY EntryFound DEF Chain
<1>4. \A i \in DOMAIN bucket[s] : bucket[s][i].key = k <=> i = n
  BY <1>3 DEF Table!Matches
<1>5. c = [bucket EXCEPT ![s] = chain] /\ Hash[e.key] % num_bucket = s
  BY <1>1 DEF Table!Slot
<1>6. /\ chain \in Seq(Entry)
      /\ DOMAIN chain = DOMAIN bucket[s]
      /\ \A i \in DOMAIN bucket[s] : chain[i] = IF i = n THEN e ELSE bucket[s][i]
  BY <1>1, <1>3
<1> HIDE DEF s, n, chain
<1>7. Distinct(chain) /\ \A i \in DOMAIN chain : Hash[chain[i].key] % num_bucket = s
  BY <1>2, <1>4, <1>5, <1>6 DEF Distinct
<1>8. \A f : f \in ToSet(chain) <=> f = e \/ (f \in ToSet(bucket[s]) /\ f.key # k)
  BY <1>3, <1>4, <1>6 DEF ToSet
<1>9. /\ Shape(num_bucket, c)
      /\ \A f : f \in Entries(c) <=>
           f \in ToSet(chain) \/ (f \in Entries(bucket) /\ f \notin ToSet(bucket[s]))
  <2>1. chain \in Seq(Entry) /\ c = [bucket EXCEPT ![s] = chain]
    BY <1>5, <1>6
  <2> QED
    BY <1>1, <1>7, <2>1, ReplaceChain
<1>10. ToSet(bucket[s]) \subseteq Entries(bucket)
  BY <1>1 DEF Entries
<1>11. \A f \in Entries(bucket) : f.key = k => f \in ToSet(bucket[s])
  <2>1. bucket[s][n] \in ToSet(bucket[s]) /\ bucket[s][n] \in Entries(bucket)
    BY <1>1, <1>3, EntryPlace DEF ToSet
  <2> QED
    BY <1>1, <1>3, <1>4, <2>1, OneEntry
<1> QED
  BY <1>8, <1>9, <1>10, <1>11 DEF Rest

\* Nothing is left of a key that is removed.
LEMMA DropEntry ==
  ASSUME IInv, NEW k \in Key, Present(k),
         NEW c, c = [bucket EXCEPT ![Table!Slot(k)] = Table!ChainRemove(@, k)]
  PROVE  Shape(num_bucket, c) /\ Entries(c) = Rest(Entries(bucket), k)
<1> DEFINE s == Table!Slot(k)
           n == Table!FirstMatch(Chain(k), k)
           chain == RemoveAt(bucket[s], n)
<1>1. Shape(num_bucket, bucket) /\ s \in DOMAIN bucket /\ bucket[s] \in Seq(Entry)
  BY EntryFound DEF IInv, Chain, Present
<1>2. Distinct(bucket[s]) /\ \A i \in DOMAIN bucket[s] : Hash[bucket[s][i].key] % num_bucket = s
  BY <1>1 DEF Shape
<1>3. n \in DOMAIN bucket[s] /\ Table!Matches(bucket[s], k) = {n}
  BY EntryFound DEF Chain
<1>4. \A i \in DOMAIN bucket[s] : bucket[s][i].key = k <=> i = n
  BY <1>3 DEF Table!Matches
<1>5. c = [bucket EXCEPT ![s] = chain]
  <2>1. Chain(k) = bucket[s] /\ Table!Matches(bucket[s], k) # {}
    BY <1>3 DEF Chain
  <2>2. Table!ChainRemove(bucket[s], k) = chain
    BY <2>1 DEF Table!ChainRemove, Table!RemoveAt, RemoveAt
  <2> QED
    BY <2>2
<1>6. /\ chain \in Seq(Entry)
      /\ DOMAIN bucket[s] = 1 .. Len(bucket[s]) /\ Len(bucket[s]) \in Nat
      /\ DOMAIN chain = 1 .. Len(bucket[s]) - 1
      /\ \A i \in 1 .. Len(bucket[s]) - 1 :
           chain[i] = IF i < n THEN bucket[s][i] ELSE bucket[s][i + 1]
  BY <1>1, <1>3, RemoveAtDomain
<1>7. /\ \A i \in DOMAIN chain : \E j \in DOMAIN bucket[s] : j # n /\ chain[i] = bucket[s][j]
      /\ \A j \in DOMAIN bucket[s] : j # n => \E i \in DOMAIN chain : chain[i] = bucket[s][j]
  BY <1>1, <1>3, RemoveAtElements
<1> HIDE DEF s, n, chain
<1>8. Distinct(chain)
  <2>1. SUFFICES ASSUME NEW i \in DOMAIN chain, NEW j \in DOMAIN chain, chain[i].key = chain[j].key
                 PROVE  i = j
    BY DEF Distinct
  <2> DEFINE Old(m) == IF m < n THEN m ELSE m + 1
  <2>2. /\ Old(i) \in DOMAIN bucket[s] /\ chain[i] = bucket[s][Old(i)]
        /\ Old(j) \in DOMAIN bucket[s] /\ chain[j] = bucket[s][Old(j)]
    BY <1>3, <1>6
  <2>3. Old(i) = Old(j)
    BY <1>2, <2>1, <2>2 DEF Distinct
  <2> QED
    BY <1>3, <1>6, <2>3
<1>9. \A i \in DOMAIN chain : Hash[chain[i].key] % num_bucket = s
  BY <1>2, <1>7
<1>10. \A f : f \in ToSet(chain) <=> f \in ToSet(bucket[s]) /\ f.key # k
  BY <1>4, <1>7 DEF ToSet
<1>11. /\ Shape(num_bucket, c)
       /\ \A f : f \in Entries(c) <=>
            f \in ToSet(chain) \/ (f \in Entries(bucket) /\ f \notin ToSet(bucket[s]))
  BY <1>1, <1>5, <1>6, <1>8, <1>9, ReplaceChain
<1>12. ToSet(bucket[s]) \subseteq Entries(bucket)
  BY <1>1 DEF Entries
<1>13. \A f \in Entries(bucket) : f.key = k => f \in ToSet(bucket[s])
  <2>1. bucket[s][n] \in ToSet(bucket[s]) /\ bucket[s][n] \in Entries(bucket)
    BY <1>1, <1>3, EntryPlace DEF ToSet
  <2> QED
    BY <1>1, <1>3, <1>4, <2>1, OneEntry
<1> QED
  BY <1>10, <1>11, <1>12, <1>13 DEF Rest

\* An entry that leaves is freed, and leaves what the others own.
LEMMA FreedOwned ==
  ASSUME NEW E \in SUBSET Entry, NEW h \in [Value -> {"out", "stored", "faulty"}],
         Owned(E, h), NEW e \in E
  PROVE  /\ Freed(h, e) \in [Value -> {"out", "stored", "faulty"}]
         /\ Owned(E \ {e}, Freed(h, e))
         /\ \A v \in Value : h[v] = "out" => Freed(h, e)[v] = "out"
<1>1. /\ e.value \in Content
      /\ \A v \in Value : Freed(h, e)[v] =
           IF e.free_cb /\ e.value = v THEN (IF h[v] = "stored" THEN "out" ELSE "faulty") ELSE h[v]
      /\ Freed(h, e) \in [Value -> {"out", "stored", "faulty"}]
  BY NullAssumption DEF Freed, Entry, Content
<1>2. ASSUME NEW v \in Value
      PROVE  /\ Freed(h, e)[v] # "faulty"
             /\ Freed(h, e)[v] = "stored" <=> Tagged(E \ {e}, v) # {}
             /\ \A f, g \in Tagged(E \ {e}, v) : f = g
             /\ h[v] = "out" => Freed(h, e)[v] = "out"
  <2>1. /\ h[v] # "faulty"
        /\ h[v] = "stored" <=> Tagged(E, v) # {}
        /\ \A f, g \in Tagged(E, v) : f = g
    BY DEF Owned
  <2>2. \A f : f \in Tagged(E \ {e}, v) <=> f \in Tagged(E, v) /\ f # e
    BY DEF Tagged
  <2>3. e \in Tagged(E, v) <=> e.free_cb /\ e.value = v
    BY DEF Tagged
  <2> QED
    BY <1>1, <2>1, <2>2, <2>3
<1> QED
  BY <1>1, <1>2 DEF Owned

\* An entry that comes owns what was the caller's.
LEMMA GivenOwned ==
  ASSUME NEW E \in SUBSET Entry, NEW h \in [Value -> {"out", "stored", "faulty"}],
         Owned(E, h), NEW k \in Key, NEW v \in Content, NEW tagged \in BOOLEAN,
         v # NULL => h[v] = "out", NEW D, D = E \cup {Pair(k, v, tagged)}
  PROVE  /\ Given(h, v, tagged) \in [Value -> {"out", "stored", "faulty"}]
         /\ Owned(D, Given(h, v, tagged))
<1> DEFINE e == Pair(k, v, tagged)
<1>1. e.key = k /\ e.value = v /\ e.free_cb = tagged
  BY DEF Pair
<1>2. /\ \A w \in Value : Given(h, v, tagged)[w] =
           IF tagged /\ v = w THEN "stored" ELSE h[w]
      /\ Given(h, v, tagged) \in [Value -> {"out", "stored", "faulty"}]
  BY NullAssumption DEF Given, Content
<1> HIDE DEF e
<1>3. ASSUME NEW w \in Value
      PROVE  /\ Given(h, v, tagged)[w] # "faulty"
             /\ Given(h, v, tagged)[w] = "stored" <=> Tagged(D, w) # {}
             /\ \A f, g \in Tagged(D, w) : f = g
  <2>1. /\ h[w] # "faulty"
        /\ h[w] = "stored" <=> Tagged(E, w) # {}
        /\ \A f, g \in Tagged(E, w) : f = g
    BY DEF Owned
  <2>2. \A f : f \in Tagged(D, w) <=> f \in Tagged(E, w) \/ (f = e /\ tagged /\ v = w)
    BY <1>1 DEF Tagged, e
  <2>3. v = w => h[w] = "out"
    BY NullAssumption
  <2> QED
    BY <1>2, <2>1, <2>2, <2>3
<1> QED
  BY <1>2, <1>3 DEF Owned

\* The keys of what is left, and of what is put in.
LEMMA RestFacts ==
  ASSUME IInv, NEW k \in Key
  PROVE  /\ Keys(Rest(Entries(bucket), k)) = Keys(Entries(bucket)) \ {k}
         /\ ~Present(k) => Rest(Entries(bucket), k) = Entries(bucket)
         /\ Present(k) => Rest(Entries(bucket), k) = Entries(bucket) \ {EntryOf(k)}
<1>1. Keys(Rest(Entries(bucket), k)) = Keys(Entries(bucket)) \ {k}
  BY DEF Keys, Rest
<1>2. ~Present(k) => Rest(Entries(bucket), k) = Entries(bucket)
  BY EntryFound DEF Keys, Rest
<1>3. ASSUME Present(k), NEW f
      PROVE  f \in Rest(Entries(bucket), k) <=> f \in Entries(bucket) /\ f # EntryOf(k)
  <2>1. EntryOf(k) \in Entries(bucket) /\ EntryOf(k).key = k
    BY <1>3, EntryFound
  <2>2. f \in Entries(bucket) /\ f.key = k => f = EntryOf(k)
    BY <2>1, OneEntry DEF IInv
  <2> QED
    BY <2>1, <2>2 DEF Rest
<1> QED
  BY <1>1, <1>2, <1>3

\* What a store and a replacement have in common.
Stores(k, v, tagged) ==
  /\ v # NULL => heap[v] = "out"
  /\ Shape(num_bucket', bucket')
  /\ Entries(bucket') = Rest(Entries(bucket), k) \cup {Pair(k, v, tagged)}
  /\ heap' = Given(IF Present(k) THEN Freed(heap, EntryOf(k)) ELSE heap, v, tagged)
  /\ len' = IF Present(k) THEN len ELSE len + 1
  /\ arg' = k
  /\ ret' = v

LEMMA StoresIInv ==
  ASSUME IInv, NEW k \in Key, NEW v \in Content, NEW tagged \in BOOLEAN, Stores(k, v, tagged)
  PROVE  IInv'
<1> DEFINE E == Entries(bucket)
           R == Rest(E, k)
           h == IF Present(k) THEN Freed(heap, EntryOf(k)) ELSE heap
<1>1. /\ E \in SUBSET Entry /\ R \in SUBSET Entry
      /\ Owned(E, heap) /\ heap \in [Value -> {"out", "stored", "faulty"}]
      /\ Counted(E, len)
  BY EntryPlace DEF IInv, Typed, Rest
<1>2. /\ h \in [Value -> {"out", "stored", "faulty"}]
      /\ Owned(R, h)
      /\ v # NULL => h[v] = "out"
  <2>1. CASE Present(k)
    <3>1. EntryOf(k) \in E /\ R = E \ {EntryOf(k)}
      BY <2>1, EntryFound, RestFacts
    <3> DEFINE e == EntryOf(k)
    <3> HIDE DEF E, R, e
    <3>2. /\ E \in SUBSET Entry /\ Owned(E, heap)
          /\ heap \in [Value -> {"out", "stored", "faulty"}]
          /\ e \in E /\ R = E \ {e}
      BY <1>1, <3>1 DEF e
    <3>3. Freed(heap, e) \in [Value -> {"out", "stored", "faulty"}]
      BY <3>2, FreedOwned
    <3>4. Owned(E \ {e}, Freed(heap, e))
      BY <3>2, FreedOwned
    <3>5. \A w \in Value : heap[w] = "out" => Freed(heap, e)[w] = "out"
      BY <3>2, FreedOwned
    <3> QED
      BY <2>1, <3>2, <3>3, <3>4, <3>5 DEF Stores, Content, e
  <2>2. CASE ~Present(k)
    BY <1>1, <2>2, RestFacts DEF Stores
  <2> QED
    BY <2>1, <2>2
<1>3. Entries(bucket') = R \cup {Pair(k, v, tagged)} /\ heap' = Given(h, v, tagged)
  BY DEF Stores
<1>4. heap' \in [Value -> {"out", "stored", "faulty"}] /\ Owned(Entries(bucket'), heap')
  <2> HIDE DEF R, h
  <2> QED
    BY <1>1, <1>2, <1>3, GivenOwned
<1>5. Keys(Entries(bucket')) = Keys(E) \cup {k}
  <2>1. Keys(R) = Keys(E) \ {k}
    BY RestFacts
  <2>2. Keys(R \cup {Pair(k, v, tagged)}) = Keys(R) \cup {k}
    <3>1. Pair(k, v, tagged).key = k
      BY DEF Pair
    <3> HIDE DEF R
    <3> QED
      BY <3>1 DEF Keys
  <2> QED
    BY <1>3, <2>1, <2>2
<1>6. Counted(Entries(bucket'), len')
  <2>1. Present(k) <=> k \in Keys(E)
    BY EntryFound
  <2>2. len' = IF k \in Keys(E) THEN len ELSE len + 1
    BY <2>1 DEF Stores
  <2> HIDE DEF E
  <2>3. IsFiniteSet(Keys(E)) /\ len = Cardinality(Keys(E))
    BY <1>1 DEF Counted
  <2>4. /\ IsFiniteSet(Keys(E) \cup {k})
        /\ Cardinality(Keys(E) \cup {k}) =
             IF k \in Keys(E) THEN Cardinality(Keys(E)) ELSE Cardinality(Keys(E)) + 1
    BY <2>3, FS_AddElement
  <2> QED
    BY <1>5, <2>2, <2>3, <2>4 DEF Counted
<1> QED
  BY <1>4, <1>6 DEF IInv, Typed, Stores

LEMMA SetStores ==
  ASSUME IInv, NEW k \in Key, NEW v \in Content, NEW tagged \in BOOLEAN,
         dictionary_set(k, v, tagged)
  PROVE  Stores(k, v, tagged)
<1> DEFINE e == Pair(k, v, tagged)
<1>1. e \in Entry /\ e.key = k
  BY DEF Pair, Entry
<1>2. /\ num_bucket > 0 /\ num_bucket' = num_bucket /\ arg' = k /\ ret' = v
      /\ v # NULL => heap[v] = "out"
  BY DEF dictionary_set, MayPass
<1>3. CASE Present(k)
  <2>1. /\ bucket' = [bucket EXCEPT ![Table!Slot(k)] =
                        [@ EXCEPT ![Table!FirstMatch(Chain(k), k)] = e]]
        /\ heap' = Given(Freed(heap, EntryOf(k)), v, tagged)
        /\ len' = len
    BY <1>3 DEF dictionary_set
  <2> HIDE DEF e
  <2>2. Shape(num_bucket, bucket') /\ Entries(bucket') = Rest(Entries(bucket), k) \cup {e}
    BY <1>1, <1>3, <2>1, SwapEntry
  <2> QED
    BY <1>2, <1>3, <2>1, <2>2 DEF Stores, e
<1>4. CASE ~Present(k)
  <2>1. /\ bucket' = [bucket EXCEPT ![Table!Slot(k)] = Append(@, e)]
        /\ heap' = Given(heap, v, tagged)
        /\ len' = len + 1
    BY <1>4 DEF dictionary_set
  <2> HIDE DEF e
  <2>2. Shape(num_bucket, bucket') /\ Entries(bucket') = Rest(Entries(bucket), k) \cup {e}
    BY <1>1, <1>2, <1>4, <2>1, AppendEntry
  <2> QED
    BY <1>2, <1>4, <2>1, <2>2 DEF Stores, e
<1> QED
  BY <1>3, <1>4

LEMMA ReplaceStores ==
  ASSUME IInv, NEW k \in Key, NEW v \in Content, dictionary_replace(k, v)
  PROVE  /\ Present(k)
         /\ EntryOf(k).free_cb \in BOOLEAN
         /\ Stores(k, v, EntryOf(k).free_cb)
<1> DEFINE tagged == EntryOf(k).free_cb
           e == Pair(k, v, tagged)
           n == Table!FirstMatch(Chain(k), k)
<1>1. /\ Present(k)
      /\ v # NULL => heap[v] = "out"
      /\ bucket' = [bucket EXCEPT ![Table!Slot(k)] =
                      [@ EXCEPT ![n] = [EntryOf(k) EXCEPT !.value = v]]]
      /\ heap' = Given(Freed(heap, EntryOf(k)), v, tagged)
      /\ arg' = k /\ ret' = v /\ num_bucket' = num_bucket /\ len' = len
  BY DEF dictionary_replace, MayPass, EntryOf, Chain
<1>2. EntryOf(k) \in Entry /\ EntryOf(k).key = k
  BY <1>1, EntryFound, EntryPlace DEF IInv
<1>3. e \in Entry /\ e.key = k /\ tagged \in BOOLEAN /\ [EntryOf(k) EXCEPT !.value = v] = e
  BY <1>2 DEF Pair, Entry
<1>4. bucket' = [bucket EXCEPT ![Table!Slot(k)] = [@ EXCEPT ![n] = e]]
  BY <1>1, <1>3
<1> HIDE DEF e
<1>5. Shape(num_bucket, bucket') /\ Entries(bucket') = Rest(Entries(bucket), k) \cup {e}
  BY <1>1, <1>3, <1>4, SwapEntry
<1> QED
  BY <1>1, <1>3, <1>5 DEF Stores, e

\* What a removal does, whether or not the key is there.
LEMMA RemoveLeaves ==
  ASSUME IInv, NEW k \in Key, dictionary_remove(k)
  PROVE  /\ Shape(num_bucket', bucket')
         /\ Entries(bucket') = Rest(Entries(bucket), k)
         /\ heap' = IF Present(k) THEN Freed(heap, EntryOf(k)) ELSE heap
         /\ len' = IF Present(k) THEN len - 1 ELSE len
         /\ arg' = k /\ ret' = NULL
<1>1. CASE Present(k)
  <2>1. /\ bucket' = [bucket EXCEPT ![Table!Slot(k)] = Table!ChainRemove(@, k)]
        /\ heap' = Freed(heap, EntryOf(k)) /\ len' = len - 1
        /\ arg' = k /\ ret' = NULL /\ num_bucket' = num_bucket
    BY <1>1 DEF dictionary_remove
  <2>2. Shape(num_bucket, bucket') /\ Entries(bucket') = Rest(Entries(bucket), k)
    BY <1>1, <2>1, DropEntry
  <2> QED
    BY <1>1, <2>1, <2>2
<1>2. CASE ~Present(k)
  <2>1. UNCHANGED <<bucket, heap, len, num_bucket>> /\ arg' = k /\ ret' = NULL
    BY <1>2 DEF dictionary_remove
  <2>2. Shape(num_bucket', bucket')
    BY <2>1 DEF IInv
  <2> QED
    BY <1>2, <2>1, <2>2, RestFacts
<1> QED
  BY <1>1, <1>2

LEMMA RemoveIInv ==
  ASSUME IInv, NEW k \in Key, dictionary_remove(k)
  PROVE  IInv'
<1> DEFINE E == Entries(bucket)
           R == Rest(E, k)
<1>1. E \in SUBSET Entry /\ Owned(E, heap) /\ heap \in [Value -> {"out", "stored", "faulty"}]
  BY EntryPlace DEF IInv, Typed
<1>2. heap' \in [Value -> {"out", "stored", "faulty"}] /\ Owned(R, heap')
  <2>1. CASE Present(k)
    <3> DEFINE e == EntryOf(k)
    <3>1. heap' = Freed(heap, e) /\ e \in E /\ R = E \ {e}
      BY <2>1, RemoveLeaves, EntryFound, RestFacts
    <3> HIDE DEF E, R, e
    <3>2. Freed(heap, e) \in [Value -> {"out", "stored", "faulty"}]
      BY <1>1, <3>1, FreedOwned
    <3>3. Owned(E \ {e}, Freed(heap, e))
      BY <1>1, <3>1, FreedOwned
    <3> QED
      BY <3>1, <3>2, <3>3
  <2>2. CASE ~Present(k)
    <3>1. heap' = heap /\ R = E
      BY <2>2, RemoveLeaves, RestFacts
    <3> HIDE DEF E, R
    <3> QED
      BY <1>1, <3>1
  <2> QED
    BY <2>1, <2>2
<1>3. Counted(R, len')
  <2>1. Present(k) <=> k \in Keys(E)
    BY EntryFound
  <2>2. len' = IF k \in Keys(E) THEN len - 1 ELSE len
    BY <2>1, RemoveLeaves
  <2>3. Keys(R) = Keys(E) \ {k}
    BY RestFacts
  <2>4. IsFiniteSet(Keys(E)) /\ len = Cardinality(Keys(E))
    BY DEF IInv, Counted
  <2> HIDE DEF E, R
  <2>5. /\ IsFiniteSet(Keys(E) \ {k})
        /\ Cardinality(Keys(E) \ {k}) =
             IF k \in Keys(E) THEN Cardinality(Keys(E)) - 1 ELSE Cardinality(Keys(E))
    BY <2>4, FS_RemoveElement
  <2> QED
    BY <2>2, <2>3, <2>4, <2>5 DEF Counted
<1>4. /\ Shape(num_bucket', bucket') /\ Entries(bucket') = R
      /\ arg' \in Key \cup {NULL} /\ ret' \in Content
  BY RemoveLeaves DEF Content
<1> QED
  BY <1>2, <1>3, <1>4 DEF IInv, Typed

\* A table without entries, whatever its number of buckets.
LEMMA EmptyShape ==
  ASSUME NEW n \in Nat, NEW b, b = [s \in 0 .. n - 1 |-> <<>>]
  PROVE  Shape(n, b) /\ Entries(b) = {} /\ Keys(Entries(b)) = {}
<1>1. Shape(n, b)
  BY DEF Shape, Distinct
<1>2. ToSet(<<>>) = {}
  BY DEF ToSet
<1>3. Entries(b) = {}
  BY <1>2 DEF Entries
<1> QED
  BY <1>1, <1>3 DEF Keys

\* What owns v, by place, is what owns v in the set of entries.
LEMMA OwnersOfTagged ==
  ASSUME IInv, NEW v \in Value
  PROVE  /\ heap[v] \in {"out", "stored"}
         /\ heap[v] = "out" => Owners(v) = {}
         /\ heap[v] = "stored" => \E p : Owners(v) = {p}
<1> DEFINE E == Entries(bucket)
           At(s) == {j \in DOMAIN bucket[s] : bucket[s][j].free_cb /\ bucket[s][j].value = v}
<1>1. /\ heap[v] \in {"out", "stored"}
      /\ heap[v] = "stored" <=> Tagged(E, v) # {}
      /\ \A e, f \in Tagged(E, v) : e = f
  BY DEF IInv, Typed, Owned
<1>2. Shape(num_bucket, bucket)
  BY DEF IInv
<1>3. \A p : p \in Owners(v) <=> \E s \in DOMAIN bucket : \E i \in At(s) : p = <<s, i>>
  BY DEF Owners
<1>4. \A s \in DOMAIN bucket : \A i \in At(s) : bucket[s][i] \in Tagged(E, v)
  BY <1>2, EntryPlace DEF Tagged
<1>5. ASSUME heap[v] = "out"
      PROVE  Owners(v) = {}
  BY <1>1, <1>3, <1>4, <1>5
<1>6. ASSUME heap[v] = "stored"
      PROVE  \E p : Owners(v) = {p}
  <2>1. PICK e \in Tagged(E, v) : TRUE
    BY <1>1, <1>6
  <2>2. e \in E /\ e.free_cb /\ e.value = v
    BY DEF Tagged
  <2> DEFINE s == Hash[e.key] % num_bucket
  <2>3. s \in DOMAIN bucket /\ \E i \in DOMAIN bucket[s] : bucket[s][i] = e
    BY <1>2, <2>2, EntryPlace
  <2>4. PICK i \in DOMAIN bucket[s] : bucket[s][i] = e
    BY <2>3
  <2>5. i \in At(s)
    BY <2>2, <2>4
  <2>6. ASSUME NEW t \in DOMAIN bucket, NEW j \in At(t)
        PROVE  t = s /\ j = i
    <3>1. bucket[t][j] = e
      BY <1>1, <1>4
    <3>2. t = s
      BY <1>2, <3>1 DEF Shape
    <3>3. Distinct(bucket[s])
      BY <1>2, <2>3 DEF Shape
    <3> QED
      BY <2>4, <3>1, <3>2, <3>3 DEF Distinct
  <2> HIDE DEF s, At
  <2>7. Owners(v) = {<<s, i>>}
    BY <1>3, <2>3, <2>5, <2>6
  <2> QED
    BY <2>7
<1> QED
  BY <1>1, <1>5, <1>6

\* dictionary_destroy() frees everything that it owns, and only that.
LEMMA DestroyFrees ==
  ASSUME IInv, dictionary_destroy
  PROVE  \A v \in Value : heap'[v] = "out"
<1> SUFFICES ASSUME NEW v \in Value PROVE heap'[v] = "out"
  OBVIOUS
<1>1. CASE heap[v] = "out"
  BY <1>1, OwnersOfTagged DEF dictionary_destroy
<1>2. CASE heap[v] = "stored"
  <2>1. PICK p : Owners(v) = {p}
    BY <1>2, OwnersOfTagged
  <2>2. Owners(v) # {} /\ Cardinality(Owners(v)) = 1
    BY <2>1, FS_Singleton
  <2> QED
    BY <1>2, <2>2 DEF dictionary_destroy
<1> QED
  BY <1>1, <1>2, OwnersOfTagged

------------------------------------------------------------------------------
(* Every call preserves the invariant.                                     *)

LEMMA InitIInv == Init => IInv
<1> SUFFICES ASSUME Init PROVE IInv
  OBVIOUS
<1>1. /\ num_bucket = 0 /\ bucket = <<>> /\ arg = NULL /\ ret = NULL
      /\ len = 0 /\ heap = [v \in Value |-> "out"]
  BY DEF Init, Table!Init
<1>2. bucket = [s \in 0 .. 0 - 1 |-> <<>>]
  BY <1>1
<1>3. Shape(num_bucket, bucket) /\ Entries(bucket) = {} /\ Keys(Entries(bucket)) = {}
  BY <1>1, <1>2, EmptyShape
<1>4. Owned({}, heap)
  BY <1>1 DEF Owned, Tagged
<1>5. Counted(Entries(bucket), len)
  BY <1>1, <1>3, FS_EmptySet DEF Counted
<1> QED
  BY <1>1, <1>3, <1>4, <1>5 DEF IInv, Typed, Content

\* A table that was reset has no bucket, hence no entry, and one that is
\* built has none either.
LEMMA BuildIInv ==
  ASSUME IInv, NEW n \in 1 .. MaxBucket, dictionary_build(n)
  PROVE  IInv' /\ Entries(bucket) = {} /\ Entries(bucket') = {}
<1>1. /\ num_bucket = 0 /\ num_bucket' = n /\ bucket' = [s \in 0 .. n - 1 |-> <<>>]
      /\ arg' = NULL /\ ret' = NULL /\ len' = len /\ heap' = heap /\ n \in Nat
  BY BucketAssumption DEF dictionary_build, Table!hashtable_build
<1>2. Entries(bucket) = {}
  BY <1>1 DEF IInv, Shape, Entries
<1>3. Shape(n, bucket') /\ Entries(bucket') = {}
  BY <1>1, EmptyShape
<1> QED
  BY <1>1, <1>2, <1>3 DEF IInv, Typed, Content

LEMMA DestroyIInv ==
  ASSUME IInv, dictionary_destroy
  PROVE  IInv' /\ Entries(bucket') = {}
<1>1. /\ num_bucket' = 0 /\ bucket' = <<>> /\ arg' = NULL /\ ret' = NULL /\ len' = 0
      /\ DOMAIN heap' = Value /\ heap' = [v \in Value |-> heap'[v]]
  BY DEF dictionary_destroy, Table!hashtable_reset
<1>2. bucket' = [s \in 0 .. 0 - 1 |-> <<>>]
  BY <1>1
<1>3. Shape(num_bucket', bucket') /\ Entries(bucket') = {} /\ Keys(Entries(bucket')) = {}
  BY <1>1, <1>2, EmptyShape
<1>4. \A v \in Value : heap'[v] = "out"
  BY DestroyFrees
<1>5. Owned({}, heap')
  BY <1>4 DEF Owned, Tagged
<1>6. heap' \in [Value -> {"out", "stored", "faulty"}]
  BY <1>1, <1>4
<1>7. Counted(Entries(bucket'), len')
  BY <1>1, <1>3, FS_EmptySet DEF Counted
<1> QED
  BY <1>1, <1>3, <1>5, <1>6, <1>7 DEF IInv, Typed, Content

\* What a get returns.
LEMMA LookupFound ==
  ASSUME IInv, NEW k \in Key
  PROVE  /\ Table!Lookup(k) = IF Present(k) THEN EntryOf(k).value ELSE NULL
         /\ Table!Lookup(k) \in Content
<1>1. num_bucket \in Nat
  BY DEF IInv, Shape
<1>2. Present(k) => EntryOf(k) \in Entry
  BY EntryFound, EntryPlace DEF IInv
<1>3. Table!Lookup(k) = IF Present(k) THEN EntryOf(k).value ELSE NULL
  BY <1>1 DEF Table!Lookup, Table!ChainGet, Present, EntryOf, Chain
<1> QED
  BY <1>2, <1>3 DEF Entry, Content

LEMMA NextIInv ==
  ASSUME IInv, [Next]_vars
  PROVE  IInv'
<1>1. ASSUME NEW n \in 1 .. MaxBucket, dictionary_build(n)
      PROVE  IInv'
  BY <1>1, BuildIInv
<1>2. CASE dictionary_destroy
  BY <1>2, DestroyIInv
<1>3. ASSUME NEW k \in Key, dictionary_get(k)
      PROVE  IInv'
  <2>1. UNCHANGED <<num_bucket, bucket, len, heap>> /\ arg' = k /\ ret' = Table!Lookup(k)
    BY <1>3 DEF dictionary_get, Table!hashtable_get
  <2> QED
    BY <2>1, LookupFound DEF IInv, Typed
<1>4. ASSUME NEW k \in Key, dictionary_remove(k)
      PROVE  IInv'
  BY <1>4, RemoveIInv
<1>5. ASSUME NEW k \in Key, NEW v \in Content, dictionary_replace(k, v)
      PROVE  IInv'
  BY <1>5, ReplaceStores, StoresIInv
<1>6. ASSUME NEW k \in Key, NEW v \in Content, NEW tagged \in BOOLEAN,
             dictionary_set(k, v, tagged)
      PROVE  IInv'
  BY <1>6, SetStores, StoresIInv
<1>7. CASE UNCHANGED vars
  BY <1>7 DEF vars, IInv, Typed
<1> QED
  BY <1>1, <1>2, <1>3, <1>4, <1>5, <1>6, <1>7 DEF Next

(***************************************************************************)
(* Whatever is stored, replaced, removed and destroyed, a chain holds      *)
(* entries, len is a number that no removal takes below 0, and a call      *)
(* answers with a pointer that was stored or NULL.                         *)
(***************************************************************************)
THEOREM DictionaryIsTyped == Spec => []TypeOK
<1>1. ASSUME IInv
      PROVE  TypeOK
  <2>1. len \in Nat
    BY <1>1, FS_CardinalityType DEF IInv, Counted
  <2> QED
    BY <1>1, <2>1 DEF IInv, Typed, Shape, TypeOK
<1> QED
  BY InitIInv, NextIInv, <1>1, PTL DEF Spec

(***************************************************************************)
(* Every pointer that the caller gives away with a free_cb is the          *)
(* responsibility of exactly one entry until it is freed, and is freed     *)
(* once: by the store or the replacement that puts another in its place,   *)
(* by the removal of its key, or by dictionary_destroy().                  *)
(***************************************************************************)
THEOREM PointersOwnedOnce == Spec => []OwnedOnce
<1>1. ASSUME IInv
      PROVE  OwnedOnce
  <2>1. SUFFICES ASSUME NEW v \in Value
                 PROVE  /\ heap[v] # "faulty"
                        /\ Cardinality(Owners(v)) = IF heap[v] = "stored" THEN 1 ELSE 0
    BY DEF OwnedOnce
  <2>2. CASE heap[v] = "out"
    BY <1>1, <2>2, OwnersOfTagged, FS_EmptySet
  <2>3. CASE heap[v] = "stored"
    <3>1. PICK p : Owners(v) = {p}
      BY <1>1, <2>3, OwnersOfTagged
    <3> QED
      BY <2>3, <3>1, FS_Singleton
  <2> QED
    BY <1>1, <2>2, <2>3, OwnersOfTagged
<1> QED
  BY InitIInv, NextIInv, <1>1, PTL DEF Spec

------------------------------------------------------------------------------
(* Every step of the chains is a step of the map that counts its keys.     *)

Map == [k \in {q \in Key : Present(q)} |-> EntryOf(k).value]

\* The map that a set of entries stands for.
Maps(E, m) ==
  /\ m = [k \in DOMAIN m |-> m[k]]
  /\ DOMAIN m = Keys(E)
  /\ \A e \in E : m[e.key] = e.value

LEMMA MapsBucket == IInv => Maps(Entries(bucket), Map)
<1> SUFFICES ASSUME IInv PROVE Maps(Entries(bucket), Map)
  OBVIOUS
<1> DEFINE E == Entries(bucket)
<1>1. E \subseteq Entry /\ Shape(num_bucket, bucket)
  BY EntryPlace DEF IInv
<1>2. Keys(E) \subseteq Key
  BY <1>1 DEF Keys, Entry
<1>3. {q \in Key : Present(q)} = Keys(E)
  BY <1>2, EntryFound
<1>4. DOMAIN Map = Keys(E) /\ Map = [k \in DOMAIN Map |-> Map[k]]
  BY <1>3 DEF Map
<1>5. ASSUME NEW e \in E
      PROVE  Map[e.key] = e.value
  <2>1. e.key \in Key /\ Present(e.key)
    BY <1>2, <1>3 DEF Keys
  <2>2. EntryOf(e.key) \in E /\ EntryOf(e.key).key = e.key
    BY <2>1, EntryFound
  <2>3. EntryOf(e.key) = e
    BY <1>1, <2>2, OneEntry
  <2> QED
    BY <2>1, <2>3 DEF Map
<1> QED
  BY <1>4, <1>5 DEF Maps

\* A set of entries stands for one map.
LEMMA MapsOnce ==
  ASSUME NEW E, NEW m, NEW n, Maps(E, m), Maps(E, n)
  PROVE  m = n
<1>1. \A k \in DOMAIN m : m[k] = n[k]
  BY DEF Maps, Keys
<1> QED
  BY <1>1 DEF Maps

LEMMA MapsAfter == IInv' => Maps(Entries(bucket'), Map')
<1>1. (IInv => Maps(Entries(bucket), Map))'
  BY MapsBucket, PTL
<1> QED
  BY <1>1 DEF Maps, Entries, Keys

\* The abstract map counts its keys with an instance of the same operator.
LEMMA SameCardinality ==
  ASSUME NEW S
  PROVE  Abstract!Cardinality(S) = Cardinality(S)
BY DEF Abstract!Cardinality, Cardinality

\* The map after a call, known by what its entries stand for.
LEMMA HoldsAfter ==
  ASSUME IInv', NEW m, Maps(Entries(bucket'), m)
  PROVE  Abstract!Holds(m)
<1>1. Map' = m
  BY MapsAfter, MapsOnce
<1>2. len' = Cardinality(Keys(Entries(bucket')))
  BY DEF IInv, Counted, Keys, Entries
<1>3. DOMAIN m = Keys(Entries(bucket'))
  BY DEF Maps
<1> QED
  BY <1>1, <1>2, <1>3, SameCardinality DEF Abstract!Holds, Map

LEMMA StoresRefine ==
  ASSUME IInv, IInv', NEW k \in Key, NEW v \in Content, NEW tagged \in BOOLEAN,
         Stores(k, v, tagged)
  PROVE  Abstract!Holds(Abstract!With(k, v)) /\ arg' = k /\ ret' = v
<1> DEFINE E == Entries(bucket)
           F == Entries(bucket')
           e == Pair(k, v, tagged)
           m == [q \in DOMAIN Map \cup {k} |-> IF q = k THEN v ELSE Map[q]]
<1>1. Abstract!With(k, v) = m
  BY DEF Abstract!With, Map
<1>2. Maps(E, Map)
  BY MapsBucket
<1>3. F = Rest(E, k) \cup {e} /\ e.key = k /\ e.value = v
  BY DEF Stores, Pair
<1>4. Keys(Rest(E, k)) = Keys(E) \ {k}
  BY RestFacts
<1> HIDE DEF E, F, e
<1>5. DOMAIN m = Keys(F)
  <2>1. Keys(F) = Keys(Rest(E, k)) \cup {k}
    BY <1>3 DEF Keys
  <2> QED
    BY <1>2, <1>4, <2>1 DEF Maps
<1>6. \A f \in F : m[f.key] = f.value
  <2>1. \A f \in F : f = e \/ (f \in E /\ f.key # k /\ f.key \in DOMAIN Map)
    BY <1>2, <1>3 DEF Rest, Maps, Keys
  <2> QED
    BY <1>2, <1>3, <2>1 DEF Maps
<1>7. Maps(F, m)
  BY <1>5, <1>6 DEF Maps
<1> HIDE DEF m
<1>8. Abstract!Holds(m)
  BY <1>7, HoldsAfter DEF F
<1> QED
  BY <1>1, <1>8 DEF Stores

LEMMA RemoveRefines ==
  ASSUME IInv, IInv', NEW k \in Key, dictionary_remove(k)
  PROVE  Abstract!Remove(k)
<1> DEFINE E == Entries(bucket)
           F == Entries(bucket')
           m == [q \in DOMAIN Map \ {k} |-> Map[q]]
<1>1. Maps(E, Map)
  BY MapsBucket
<1>2. F = Rest(E, k) /\ arg' = k /\ ret' = NULL
  BY RemoveLeaves
<1>3. Keys(Rest(E, k)) = Keys(E) \ {k}
  BY RestFacts
<1> HIDE DEF E, F
<1>4. \A f \in F : m[f.key] = f.value
  <2>1. \A f \in F : f \in E /\ f.key # k /\ f.key \in DOMAIN Map
    BY <1>1, <1>2 DEF Rest, Maps, Keys
  <2> QED
    BY <1>1, <2>1 DEF Maps
<1>5. Maps(F, m)
  BY <1>1, <1>2, <1>3, <1>4 DEF Maps
<1> HIDE DEF m
<1>6. Abstract!Holds(m)
  BY <1>5, HoldsAfter DEF F
<1> QED
  BY <1>2, <1>6 DEF Abstract!Remove, m, Map

\* A table without entries is the empty map.
LEMMA ClearRefines ==
  ASSUME IInv', Entries(bucket') = {}, arg' = NULL, ret' = NULL
  PROVE  Abstract!Clear
<1> DEFINE m == [q \in {} |-> NULL]
<1>1. Maps({}, m)
  BY DEF Maps, Keys
<1> HIDE DEF m
<1>2. Abstract!Holds(m)
  BY <1>1, HoldsAfter
<1> QED
  BY <1>2 DEF Abstract!Clear, m

LEMMA GetRefines ==
  ASSUME IInv, NEW k \in Key, dictionary_get(k)
  PROVE  Abstract!Get(k)
<1>1. UNCHANGED <<num_bucket, bucket, len, heap>> /\ arg' = k /\ ret' = Table!Lookup(k)
  BY DEF dictionary_get, Table!hashtable_get
<1>2. ret' = IF k \in DOMAIN Map THEN Map[k] ELSE NULL
  BY <1>1, LookupFound DEF Map
<1>3. Map' = Map
  BY <1>1 DEF Map, Present, EntryOf, Chain, Table!Slot
<1> QED
  BY <1>1, <1>2, <1>3 DEF Abstract!Get, Map

LEMMA InitRefines == Init => Abstract!Init
<1> SUFFICES ASSUME Init PROVE Abstract!Init
  OBVIOUS
<1>1. num_bucket = 0 /\ bucket = <<>> /\ arg = NULL /\ ret = NULL /\ len = 0
  BY DEF Init, Table!Init
<1>2. Map = [k \in {} |-> NULL]
  BY <1>1 DEF Map, Present
<1> QED
  BY <1>1, <1>2 DEF Abstract!Init, Map

LEMMA NextRefines ==
  ASSUME IInv, IInv', [Next]_vars
  PROVE  [Abstract!Next]_(Abstract!vars)
<1>1. ASSUME NEW n \in 1 .. MaxBucket, dictionary_build(n)
      PROVE  Abstract!Clear
  <2>1. Entries(bucket') = {} /\ arg' = NULL /\ ret' = NULL
    BY <1>1, BuildIInv DEF dictionary_build, Table!hashtable_build
  <2> QED
    BY <2>1, ClearRefines
<1>2. ASSUME dictionary_destroy
      PROVE  Abstract!Clear
  <2>1. Entries(bucket') = {} /\ arg' = NULL /\ ret' = NULL
    BY <1>2, DestroyIInv DEF dictionary_destroy, Table!hashtable_reset
  <2> QED
    BY <2>1, ClearRefines
<1>3. ASSUME NEW k \in Key, dictionary_get(k)
      PROVE  Abstract!Get(k)
  BY <1>3, GetRefines
<1>4. ASSUME NEW k \in Key, dictionary_remove(k)
      PROVE  Abstract!Remove(k)
  BY <1>4, RemoveRefines
<1>5. ASSUME NEW k \in Key, NEW v \in Content, dictionary_replace(k, v)
      PROVE  Abstract!Replace(k, v)
  <2>1. Present(k) /\ Abstract!Holds(Abstract!With(k, v)) /\ arg' = k /\ ret' = v
    BY <1>5, ReplaceStores, StoresRefine
  <2> QED
    BY <2>1 DEF Abstract!Replace
<1>6. ASSUME NEW k \in Key, NEW v \in Content, NEW tagged \in BOOLEAN,
             dictionary_set(k, v, tagged)
      PROVE  Abstract!Set(k, v)
  <2>1. Abstract!Holds(Abstract!With(k, v)) /\ arg' = k /\ ret' = v
    BY <1>6, SetStores, StoresRefine
  <2> QED
    BY <2>1 DEF Abstract!Set
<1>7. CASE UNCHANGED vars
  <2>1. Map' = Map
    BY <1>7 DEF vars, Map, Present, EntryOf, Chain, Table!Slot
  <2> QED
    BY <1>7, <2>1 DEF vars, Abstract!vars, Map
<1>8. Content = Abstract!Content
  BY DEF Content, Abstract!Content
<1> QED
  BY <1>1, <1>2, <1>3, <1>4, <1>5, <1>6, <1>7, <1>8 DEF Next, Abstract!Next

(***************************************************************************)
(* The chains with len are a map that keeps the last value of each key and *)
(* counts its keys: every behaviour of Dictionary, with the answers it     *)
(* gives, is a behaviour of LastWinsMap.                                   *)
(***************************************************************************)
THEOREM DictionaryImplementsMap == Spec => ImplementsLastWins
<1>1. Init /\ [][Next]_vars => []IInv
  BY InitIInv, NextIInv, PTL
<1> QED
  BY <1>1, InitRefines, NextRefines, PTL
     DEF Spec, ImplementsLastWins, Abstract!Spec
=============================================================================
