--------------------------- MODULE JsconTreeProofs ---------------------------
(***************************************************************************)
(* For any items, any names and any client that gives siblings different   *)
(* keys: the tree and its hashtables stay what they should be, whatever    *)
(* happens to the list of composites and whichever realloc() fails.        *)
(***************************************************************************)
EXTENDS JsconTree, SeqLemmas

(***************************************************************************)
(* The invariant, as a predicate on the fields so that it can be stated of *)
(* the tree between the two halves of jscon_delete().  Its last conjunct   *)
(* says what malloc() hands out: nothing refers to it, it refers to        *)
(* nothing.                                                                *)
(***************************************************************************)
ArraysAgree(ty, pa, br) ==
  /\ \A p \in Item : ty[p] \in Living =>
       \A c \in ToSet(br[p]) : ty[c] \in Living /\ pa[c] = p
  /\ \A c \in Item : ty[c] \in Living /\ pa[c] # NULL =>
       ty[pa[c]] \in Composite /\ c \in ToSet(br[pa[c]])
  /\ \A p \in Item : \A i, j \in DOMAIN br[p] : br[p][i] = br[p][j] => i = j

TablesAgree(ty, ky, br, tb) ==
  \A p \in Item : ty[p] \in Composite =>
    /\ DOMAIN tb[p] = {ky[c] : c \in ToSet(br[p])}
    /\ \A c \in ToSet(br[p]) : tb[p][ky[c]] = c

UnbornEmpty(ty, pa, br, tb) ==
  \A i \in Item : ty[i] = "unborn" =>
    pa[i] = NULL /\ br[i] = <<>> /\ tb[i] = <<>>

\* g is f but at one place.
SetAt(f, g, i, v) == g[i] = v /\ \A j \in Item : j # i => g[j] = f[j]

IInv ==
  /\ TypeOK
  /\ ArraysAgree(type, parent, branch)
  /\ TablesAgree(type, key, branch, table)
  /\ UnbornEmpty(type, parent, branch, table)

------------------------------------------------------------------------------
(* What the helpers return.                                                *)

\* The members of an array are the items at its positions.
LEMMA ToSetMembers ==
  ASSUME NEW s \in Seq(Item)
  PROVE  ToSet(s) \subseteq Item /\ \A c \in Item : c \in ToSet(s) <=> \E i \in DOMAIN s : s[i] = c
BY DEF ToSet

\* Appending an item that is not there adds it once.
LEMMA ToSetAppend ==
  ASSUME NEW s \in Seq(Item), NEW c \in Item
  PROVE  /\ Append(s, c) \in Seq(Item)
         /\ ToSet(Append(s, c)) = ToSet(s) \cup {c}
         /\ (\A i, j \in DOMAIN s : s[i] = s[j] => i = j) /\ c \notin ToSet(s) =>
              \A i, j \in DOMAIN Append(s, c) :
                Append(s, c)[i] = Append(s, c)[j] => i = j
<1> DEFINE t == Append(s, c)
<1>1. /\ t \in Seq(Item)
      /\ DOMAIN t = 1 .. Len(s) + 1
      /\ DOMAIN s = 1 .. Len(s)
      /\ Len(s) \in Nat
      /\ \A i \in DOMAIN s : t[i] = s[i]
      /\ t[Len(s) + 1] = c
  OBVIOUS
<1> HIDE DEF t
<1>2. ToSet(t) = ToSet(s) \cup {c}
  BY <1>1 DEF ToSet
<1>3. (\A i, j \in DOMAIN s : s[i] = s[j] => i = j) /\ c \notin ToSet(s) =>
        \A i, j \in DOMAIN t : t[i] = t[j] => i = j
  BY <1>1 DEF ToSet
<1> QED
  BY <1>1, <1>2, <1>3 DEF t

\* Without its position, an item that is there once is not there.
LEMMA ToSetRemoveAt ==
  ASSUME NEW s \in Seq(Item), \A i, j \in DOMAIN s : s[i] = s[j] => i = j,
         NEW n \in DOMAIN s
  PROVE  /\ RemoveAt(s, n) \in Seq(Item)
         /\ ToSet(RemoveAt(s, n)) = ToSet(s) \ {s[n]}
         /\ \A i, j \in DOMAIN RemoveAt(s, n) :
              RemoveAt(s, n)[i] = RemoveAt(s, n)[j] => i = j
<1> DEFINE r == RemoveAt(s, n)
<1>1. /\ r \in Seq(Item)
      /\ DOMAIN s = 1 .. Len(s)
      /\ Len(s) \in Nat
      /\ DOMAIN r = 1 .. Len(s) - 1
      /\ \A i \in 1 .. Len(s) - 1 : r[i] = IF i < n THEN s[i] ELSE s[i + 1]
  BY RemoveAtDomain
<1>2. /\ \A i \in DOMAIN r : \E j \in DOMAIN s : j # n /\ r[i] = s[j]
      /\ \A j \in DOMAIN s : j # n => \E i \in DOMAIN r : r[i] = s[j]
  BY RemoveAtElements
<1> HIDE DEF r
<1>3. ToSet(r) = ToSet(s) \ {s[n]}
  BY <1>2 DEF ToSet
<1>4. ASSUME NEW i \in DOMAIN r, NEW j \in DOMAIN r, r[i] = r[j]
      PROVE  i = j
  <2> DEFINE Old(m) == IF m < n THEN m ELSE m + 1
  <2>1. /\ Old(i) \in DOMAIN s /\ r[i] = s[Old(i)]
        /\ Old(j) \in DOMAIN s /\ r[j] = s[Old(j)]
    BY <1>1
  <2>2. Old(i) = Old(j)
    BY <1>4, <2>1
  <2> QED
    BY <1>1, <2>2
<1> QED
  BY <1>1, <1>3, <1>4 DEF r

\* When no two elements share a key, each is found under its own.
LEMMA FirstWinsExact ==
  ASSUME NEW b \in Seq(Item), NEW ks,
         \A i, j \in DOMAIN b : ks[b[i]] = ks[b[j]] => i = j
  PROVE  /\ DOMAIN FirstWins(b, ks) = {ks[c] : c \in ToSet(b)}
         /\ \A c \in ToSet(b) : FirstWins(b, ks)[ks[c]] = c
<1>1. DOMAIN FirstWins(b, ks) = {ks[c] : c \in ToSet(b)}
  BY DEF FirstWins, ToSet
<1>2. ASSUME NEW n \in DOMAIN b
      PROVE  FirstWins(b, ks)[ks[b[n]]] = b[n]
  <2> DEFINE At(k) == {i \in DOMAIN b : ks[b[i]] = k}
  <2>1. At(ks[b[n]]) = {n}
    OBVIOUS
  <2>2. n \in Nat
    BY LenProperties
  <2>3. (CHOOSE i \in At(ks[b[n]]) : \A j \in At(ks[b[n]]) : i <= j) = n
    BY <2>1, <2>2
  <2> QED
    BY <2>3 DEF FirstWins
<1> QED
  BY <1>1, <1>2 DEF ToSet

\* A number of buckets is a natural number.
LEMMA BucketsNat == \A n \in Nat : Buckets(n) \in Nat
BY DEF Buckets

\* A walk of the list that ends, ends on an item.
LEMMA DeepestInItem ==
  ASSUME NEW x, NEW up, Deepest(x, up).outcome = "ok"
  PROVE  Deepest(x, up).comp_last \in Item
BY DEF Deepest, Reach

------------------------------------------------------------------------------
(* Freeing a tree.                                                         *)

\* What is below r: r itself, with every item its branches, and of every
\* other item an array that holds it.
LEMMA BelowProperties ==
  ASSUME NEW br \in [Item -> Seq(Item)], NEW r \in Item
  PROVE  /\ r \in Below(r, br)
         /\ Below(r, br) \subseteq Item
         /\ \A i \in Below(r, br) : ToSet(br[i]) \subseteq Below(r, br)
         /\ \A i \in Below(r, br) : i # r =>
              \E z \in Below(r, br) : i \in ToSet(br[z])
         /\ \A S \in SUBSET Item :
              r \in S /\ (\A i \in S : ToSet(br[i]) \subseteq S) => Below(r, br) \subseteq S
<1> DEFINE G == Below(r, br)
           Closed(S) == r \in S /\ \A i \in S : ToSet(br[i]) \subseteq S
<1>1. G = {i \in Item : \A S \in SUBSET Item : Closed(S) => i \in S}
  BY DEF Below, Reach
<1>2. \A i \in Item : ToSet(br[i]) \subseteq Item
  BY ToSetMembers
<1> HIDE DEF G
<1>3. r \in G
  BY <1>1
<1>4. \A i \in G : ToSet(br[i]) \subseteq G
  BY <1>1, <1>2
<1>5. ASSUME NEW i \in G, i # r, \A z \in G : i \notin ToSet(br[z])
      PROVE  FALSE
  <2>1. \A j \in G \ {i} : ToSet(br[j]) \subseteq G \ {i}
    BY <1>4, <1>5
  <2>2. G \ {i} \in SUBSET Item /\ Closed(G \ {i})
    BY <1>1, <1>3, <1>5, <2>1
  <2> QED
    BY <1>1, <2>2
<1> QED
  BY <1>1, <1>3, <1>4, <1>5 DEF G

\* Freeing a root and all below it leaves no pointer to freed memory.
LEMMA FreeKeepsArrays ==
  ASSUME NEW ty \in [Item -> Living \cup {"unborn", "freed"}],
         NEW pa \in [Item -> Item \cup {NULL}], NEW br \in [Item -> Seq(Item)],
         ArraysAgree(ty, pa, br), NEW r \in Item, pa[r] = NULL, ty[r] \in Living
  PROVE  ArraysAgree([i \in Item |-> IF i \in Below(r, br) THEN "freed" ELSE ty[i]],
                     pa, br)
<1> DEFINE G == Below(r, br)
           ty2 == [i \in Item |-> IF i \in G THEN "freed" ELSE ty[i]]
           live == {i \in Item : ty[i] \in Living}
<1>1. /\ r \in G
      /\ G \subseteq Item
      /\ \A i \in G : ToSet(br[i]) \subseteq G
      /\ \A i \in G : i # r => \E z \in G : i \in ToSet(br[z])
  BY BelowProperties
<1>2. \A i \in Item : ToSet(br[i]) \subseteq Item
  BY ToSetMembers
<1>3. G \subseteq live
  <2>1. live \in SUBSET Item /\ r \in live /\ \A i \in live : ToSet(br[i]) \subseteq live
    BY <1>2 DEF ArraysAgree
  <2> QED
    BY <2>1, BelowProperties
<1>4. \A i \in Item : ty2[i] \in Living <=> ty[i] \in Living /\ i \notin G
  BY <1>1 DEF Living, Composite
<1>5. \A i \in Item : i \notin G => ty2[i] = ty[i]
  OBVIOUS
<1> HIDE DEF G, ty2
<1>6. ASSUME NEW p \in Item, ty2[p] \in Living, NEW c \in ToSet(br[p])
      PROVE  ty2[c] \in Living /\ pa[c] = p
  <2>1. ty[p] \in Living /\ p \notin G /\ c \in Item
    BY <1>2, <1>4, <1>6
  <2>2. ty[c] \in Living /\ pa[c] = p
    BY <2>1 DEF ArraysAgree
  <2>3. c \notin G
    <3>1. SUFFICES ASSUME c \in G PROVE FALSE
      OBVIOUS
    <3>2. c # r
      BY <2>2, ItemAssumption
    <3>3. PICK z \in G : c \in ToSet(br[z])
      BY <1>1, <3>1, <3>2
    <3>4. pa[c] = z
      BY <1>3, <3>3 DEF ArraysAgree
    <3> QED
      BY <2>1, <2>2, <3>3, <3>4
  <2> QED
    BY <1>4, <2>1, <2>2, <2>3
<1>7. ASSUME NEW c \in Item, ty2[c] \in Living, pa[c] # NULL
      PROVE  ty2[pa[c]] \in Composite /\ c \in ToSet(br[pa[c]])
  <2>1. ty[c] \in Living /\ c \notin G
    BY <1>4, <1>7
  <2>2. ty[pa[c]] \in Composite /\ c \in ToSet(br[pa[c]]) /\ pa[c] \in Item
    BY <1>7, <2>1 DEF ArraysAgree
  <2>3. pa[c] \notin G
    BY <1>1, <2>1, <2>2
  <2> QED
    BY <1>5, <2>2, <2>3
<1>8. \A p \in Item : \A i, j \in DOMAIN br[p] : br[p][i] = br[p][j] => i = j
  BY DEF ArraysAgree
<1> QED
  BY <1>6, <1>7, <1>8 DEF ArraysAgree, ty2, G

\* Freeing whatever set of items disturbs no hashtable.
LEMMA FreeKeepsRest ==
  ASSUME NEW ty \in [Item -> Living \cup {"unborn", "freed"}],
         NEW ky, NEW pa, NEW br, NEW tb, NEW gone, NEW ty2,
         ty2 = [i \in Item |-> IF i \in gone THEN "freed" ELSE ty[i]],
         TablesAgree(ty, ky, br, tb), UnbornEmpty(ty, pa, br, tb)
  PROVE  /\ TablesAgree(ty2, ky, br, tb)
         /\ UnbornEmpty(ty2, pa, br, tb)
         /\ ty2 \in [Item -> Living \cup {"unborn", "freed"}]
BY DEF TablesAgree, UnbornEmpty, Living, Composite

\* A fault changes nothing but status.
LEMMA FaultIInv ==
  ASSUME IInv, NEW how \in {"abort", "crash", "hang"}, Fault(how)
  PROVE  IInv'
BY DEF Fault, IInv, TypeOK, nodes, links, ArraysAgree, TablesAgree, UnbornEmpty

\* jscon_destroy() frees whole trees.
LEMMA DestroyIInv ==
  ASSUME IInv, NEW x \in Item, jscon_destroy(x)
  PROVE  IInv'
<1> DEFINE r == Root(x)
           gone == Below(r, branch)
<1>1. CASE Fault("crash") \/ Fault("hang")
  BY <1>1, FaultIInv
<1>2. CASE /\ \A a \in Upward(x, parent) : Alive(a)
           /\ \E a \in Upward(x, parent) : IsRoot(a)
           /\ FreeAll(gone)
           /\ UNCHANGED <<key, nodes, links, status>>
  <2>1. r \in Upward(x, parent) /\ IsRoot(r)
    BY <1>2 DEF Root
  <2>2. r \in Item
    BY <2>1 DEF Upward, Along, Reach
  <2>3. type[r] \in Living /\ parent[r] = NULL
    BY <1>2, <2>1 DEF Alive, IsRoot
  <2> HIDE DEF r
  <2>4. type' = [i \in Item |-> IF i \in gone THEN "freed" ELSE type[i]]
    BY <1>2 DEF FreeAll
  <2>5. /\ type \in [Item -> Living \cup {"unborn", "freed"}]
        /\ parent \in [Item -> Item \cup {NULL}]
        /\ branch \in [Item -> Seq(Item)]
        /\ ArraysAgree(type, parent, branch)
        /\ TablesAgree(type, key, branch, table)
        /\ UnbornEmpty(type, parent, branch, table)
    BY DEF IInv, TypeOK
  <2>6. ArraysAgree(type', parent, branch)
    BY <2>2, <2>3, <2>4, <2>5, FreeKeepsArrays
  <2> HIDE DEF gone
  <2>7. /\ TablesAgree(type', key, branch, table)
        /\ UnbornEmpty(type', parent, branch, table)
        /\ type' \in [Item -> Living \cup {"unborn", "freed"}]
    BY <2>4, <2>5, FreeKeepsRest
  <2> QED
    BY <1>2, <2>6, <2>7 DEF IInv, TypeOK, nodes, links
<1> QED
  BY <1>1, <1>2 DEF jscon_destroy

------------------------------------------------------------------------------
(* New items and appended ones.                                            *)

\* Before the first call there is no item.
LEMMA InitIInv == Init => IInv
<1> SUFFICES ASSUME Init PROVE IInv
  OBVIOUS
<1>1. ToSet(<<>>) = {} /\ DOMAIN <<>> = {}
  BY DEF ToSet
<1>2. TypeOK
  BY <1>1 DEF Init, TypeOK
<1>3. ArraysAgree(type, parent, branch)
  BY <1>1 DEF Init, ArraysAgree, Living, Composite
<1> QED
  BY <1>2, <1>3 DEF Init, IInv, TablesAgree, UnbornEmpty, Composite

\* No live array holds a root.
LEMMA RootInNoArray ==
  ASSUME NEW ty, NEW pa, NEW br, ArraysAgree(ty, pa, br), NEW c \in Item, pa[c] = NULL
  PROVE  \A p \in Item : ty[p] \in Living => c \notin ToSet(br[p])
BY ItemAssumption DEF ArraysAgree

\* An item that is born as a root without branches is in no array.
LEMMA BirthKeepsArrays ==
  ASSUME NEW ty, NEW pa \in [Item -> Item \cup {NULL}], NEW br \in [Item -> Seq(Item)],
         ArraysAgree(ty, pa, br),
         NEW i \in Item, ty[i] \notin Living, pa[i] = NULL, br[i] = <<>>,
         NEW tz, tz[i] \in Living, \A j \in Item : j # i => tz[j] = ty[j]
  PROVE  ArraysAgree(tz, pa, br)
<1>1. \A p \in Item : ToSet(br[p]) \subseteq Item
  BY ToSetMembers
<1>2. ToSet(br[i]) = {}
  BY DEF ToSet
<1>3. \A p \in Item : ty[p] \in Living => i \notin ToSet(br[p])
  BY RootInNoArray
<1>4. ASSUME NEW p \in Item, tz[p] \in Living, NEW c \in ToSet(br[p])
      PROVE  tz[c] \in Living /\ pa[c] = p
  <2>1. p # i /\ ty[p] \in Living /\ c \in Item
    BY <1>1, <1>2, <1>4
  <2>2. ty[c] \in Living /\ pa[c] = p
    BY <2>1 DEF ArraysAgree
  <2> QED
    BY <1>3, <2>1, <2>2
<1>5. ASSUME NEW c \in Item, tz[c] \in Living, pa[c] # NULL
      PROVE  tz[pa[c]] \in Composite /\ c \in ToSet(br[pa[c]])
  <2>1. ty[c] \in Living
    BY <1>5
  <2>2. ty[pa[c]] \in Composite /\ c \in ToSet(br[pa[c]]) /\ pa[c] \in Item
    BY <1>5, <2>1 DEF ArraysAgree
  <2> QED
    BY <1>2, <2>2
<1> QED
  BY <1>4, <1>5 DEF ArraysAgree

\* A new item is a root without branches.
LEMMA NewIInv ==
  ASSUME IInv, NEW i \in Item, NEW t \in Kind, NEW k \in Name \cup {NULL},
         jscon_new(i, t, k)
  PROVE  IInv'
<1>1. ToSet(<<>>) = {} /\ DOMAIN <<>> = {}
  BY DEF ToSet
<1>2. /\ type \in [Item -> Living \cup {"unborn", "freed"}]
      /\ parent \in [Item -> Item \cup {NULL}]
      /\ branch \in [Item -> Seq(Item)]
      /\ type[i] = "unborn" /\ parent[i] = NULL /\ branch[i] = <<>> /\ table[i] = <<>>
      /\ t \in Living
  BY KindAssumption DEF IInv, TypeOK, UnbornEmpty, jscon_new
<1>3. /\ \A j \in Item : j # i => type'[j] = type[j] /\ key'[j] = key[j]
      /\ type'[i] = t
      /\ type' \in [Item -> Living \cup {"unborn", "freed"}]
      /\ UNCHANGED <<parent, branch, table, links, status>>
  BY <1>2 DEF jscon_new
<1>4. \A p \in Item : ToSet(branch[p]) \subseteq Item
  BY <1>2, ToSetMembers
<1>5. /\ ArraysAgree(type, parent, branch)
      /\ TablesAgree(type, key, branch, table)
      /\ ~(type[i] \in Living)
  BY <1>2 DEF IInv, Living, Composite
<1>6. TypeOK'
  <2>1. key' \in [Item -> Key \cup {NULL}]
    BY DEF IInv, TypeOK, jscon_new, Key
  <2>2. num_bucket' \in [Item -> Nat]
    BY BucketsNat DEF IInv, TypeOK, jscon_new
  <2> QED
    BY <1>3, <2>1, <2>2 DEF IInv, TypeOK, links
<1>7. /\ ArraysAgree(type', parent, branch)
      /\ \A p \in Item : type[p] \in Living => i \notin ToSet(branch[p])
  BY <1>2, <1>3, <1>5, BirthKeepsArrays, RootInNoArray
<1>8. TablesAgree(type', key', branch, table)
  <2> SUFFICES ASSUME NEW p \in Item, type'[p] \in Composite
               PROVE  /\ DOMAIN table[p] = {key'[c] : c \in ToSet(branch[p])}
                      /\ \A c \in ToSet(branch[p]) : table[p][key'[c]] = c
    BY DEF TablesAgree
  <2>1. CASE p = i
    BY <1>1, <1>2, <2>1
  <2>2. CASE p # i
    <3>1. type[p] \in Composite /\ type[p] \in Living
      BY <1>3, <2>2 DEF Living
    <3>2. \A c \in ToSet(branch[p]) : key'[c] = key[c]
      BY <1>3, <1>4, <1>7, <3>1
    <3> QED
      BY <1>5, <3>1, <3>2 DEF TablesAgree
  <2> QED
    BY <2>1, <2>2
<1>9. UnbornEmpty(type', parent, branch, table)
  BY <1>2, <1>3 DEF IInv, UnbornEmpty, Living, Composite
<1> QED
  BY <1>3, <1>6, <1>7, <1>8, <1>9 DEF IInv

\* A root that is appended is then in one array, that of its parent.
LEMMA GraftKeepsArrays ==
  ASSUME NEW ty, NEW pa \in [Item -> Item \cup {NULL}], NEW br \in [Item -> Seq(Item)],
         ArraysAgree(ty, pa, br), NEW p \in Item, NEW c \in Item,
         ty[p] \in Composite, ty[c] \in Living, pa[c] = NULL,
         NEW pb, SetAt(pa, pb, c, p), NEW bs, SetAt(br, bs, p, Append(br[p], c))
  PROVE  ArraysAgree(ty, pb, bs)
<1>0. /\ bs[p] = Append(br[p], c) /\ \A q \in Item : q # p => bs[q] = br[q]
      /\ pb[c] = p /\ \A q \in Item : q # c => pb[q] = pa[q]
  BY DEF SetAt
<1>1. Composite \subseteq Living
  BY DEF Living
<1>2. c \notin ToSet(br[p])
  BY <1>1, RootInNoArray
<1>3. /\ ToSet(bs[p]) = ToSet(br[p]) \cup {c}
      /\ \A i, j \in DOMAIN bs[p] : bs[p][i] = bs[p][j] => i = j
  <2>1. br[p] \in Seq(Item) /\ \A i, j \in DOMAIN br[p] : br[p][i] = br[p][j] => i = j
    BY DEF ArraysAgree
  <2> DEFINE s == br[p]
  <2> HIDE DEF s
  <2>2. /\ ToSet(Append(s, c)) = ToSet(s) \cup {c}
        /\ \A i, j \in DOMAIN Append(s, c) : Append(s, c)[i] = Append(s, c)[j] => i = j
    BY <1>2, <2>1, ToSetAppend DEF s
  <2> QED
    BY <1>0, <2>2 DEF s
<1>4. \A q \in Item : ty[q] \in Living => \A d \in ToSet(br[q]) : d # c
  BY RootInNoArray
<1>5. \A q \in Item : ToSet(br[q]) \subseteq Item
  BY ToSetMembers
<1>6. ASSUME NEW q \in Item, ty[q] \in Living, NEW d \in ToSet(bs[q])
      PROVE  ty[d] \in Living /\ pb[d] = q
  <2>1. CASE d = c
    <3>1. q = p
      BY <1>0, <1>4, <1>6, <2>1
    <3> QED
      BY <1>0, <2>1, <3>1
  <2>2. CASE d # c
    <3>1. d \in ToSet(br[q])
      BY <1>0, <1>3, <1>6, <2>2
    <3> QED
      BY <1>0, <1>5, <1>6, <2>2, <3>1 DEF ArraysAgree
  <2> QED
    BY <2>1, <2>2
<1>7. ASSUME NEW d \in Item, ty[d] \in Living, pb[d] # NULL
      PROVE  ty[pb[d]] \in Composite /\ d \in ToSet(bs[pb[d]])
  <2>1. CASE d = c
    BY <1>0, <1>3, <2>1
  <2>2. CASE d # c
    <3>1. ty[pa[d]] \in Composite /\ d \in ToSet(br[pa[d]]) /\ pa[d] \in Item
      BY <1>0, <1>7, <2>2 DEF ArraysAgree
    <3> QED
      BY <1>0, <1>3, <2>2, <3>1
  <2> QED
    BY <2>1, <2>2
<1>8. \A q \in Item : \A i, j \in DOMAIN bs[q] : bs[q][i] = bs[q][j] => i = j
  BY <1>0, <1>3 DEF ArraysAgree
<1> QED
  BY <1>6, <1>7, <1>8 DEF ArraysAgree

LEMMA AppendKeepsArrays ==
  ASSUME parent \in [Item -> Item \cup {NULL}], branch \in [Item -> Seq(Item)],
         ArraysAgree(type, parent, branch), NEW p \in Item, NEW c \in Item, p # c,
         type[p] \in Composite, type[c] \in Living, parent[c] = NULL,
         parent' = [parent EXCEPT ![c] = p],
         branch' = [branch EXCEPT ![p] = Append(@, c)]
  PROVE  /\ ArraysAgree(type, parent', branch')
         /\ branch' \in [Item -> Seq(Item)]
         /\ ToSet(branch'[p]) = ToSet(branch[p]) \cup {c}
         /\ \A q \in Item : q # p => branch'[q] = branch[q]
<1> DEFINE pb == parent'
           bs == branch'
<1>1. /\ SetAt(parent, pb, c, p)
      /\ SetAt(branch, bs, p, Append(branch[p], c))
      /\ bs \in [Item -> Seq(Item)]
  BY DEF SetAt
<1> HIDE DEF pb, bs
<1>2. ArraysAgree(type, pb, bs)
  BY <1>1, GraftKeepsArrays
<1>3. ToSet(bs[p]) = ToSet(branch[p]) \cup {c}
  <2>1. bs[p] = Append(branch[p], c) /\ branch[p] \in Seq(Item)
    BY <1>1 DEF SetAt
  <2> QED
    BY <2>1, ToSetAppend
<1> QED
  BY <1>1, <1>2, <1>3 DEF pb, bs, SetAt

\* The key of a root is in no table.
LEMMA RootKeyIsFree ==
  ASSUME branch \in [Item -> Seq(Item)],
         ArraysAgree(type, parent, branch), TablesAgree(type, key, branch, table),
         NEW c \in Item, parent[c] = NULL, \A d \in Item : d # c => key'[d] = key[d]
  PROVE  /\ TablesAgree(type, key', branch, table)
         /\ \A p \in Item : type[p] \in Living =>
              \A d \in ToSet(branch[p]) : d # c /\ key'[d] = key[d]
<1>1. \A p \in Item : ToSet(branch[p]) \subseteq Item
  BY ToSetMembers
<1>2. \A p \in Item : type[p] \in Living => \A d \in ToSet(branch[p]) : d # c /\ key'[d] = key[d]
  BY <1>1, RootInNoArray
<1>3. ASSUME NEW p \in Item, type[p] \in Composite
      PROVE  /\ DOMAIN table[p] = {key'[d] : d \in ToSet(branch[p])}
             /\ \A d \in ToSet(branch[p]) : table[p][key'[d]] = d
  <2>1. \A d \in ToSet(branch[p]) : key'[d] = key[d]
    BY <1>2, <1>3 DEF Living
  <2>2. /\ DOMAIN table[p] = {key[d] : d \in ToSet(branch[p])}
        /\ \A d \in ToSet(branch[p]) : table[p][key[d]] = d
    BY <1>3 DEF TablesAgree
  <2> QED
    BY <2>1, <2>2
<1> QED
  BY <1>2, <1>3 DEF TablesAgree

\* Both ways of entering the new branch, alone or with all the others.
LEMMA AppendKeepsTables ==
  ASSUME TablesAgree(type, key', branch, table),
         NEW p \in Item, NEW c \in Item, type[p] \in Composite,
         key'[c] \notin {key'[d] : d \in ToSet(branch[p])},
         branch' \in [Item -> Seq(Item)],
         ToSet(branch'[p]) = ToSet(branch[p]) \cup {c},
         \A q \in Item : q # p => branch'[q] = branch[q],
         \A i, j \in DOMAIN branch'[p] : branch'[p][i] = branch'[p][j] => i = j,
         \A q \in Item : q # p => table'[q] = table[q],
         table'[p] = Put(table[p], key'[c], c) \/ table'[p] = FirstWins(branch'[p], key')
  PROVE  TablesAgree(type, key', branch', table')
<1>1. /\ DOMAIN table[p] = {key'[d] : d \in ToSet(branch[p])}
      /\ \A d \in ToSet(branch[p]) : table[p][key'[d]] = d
  BY DEF TablesAgree
<1>2. CASE table'[p] = Put(table[p], key'[c], c)
  <2>1. /\ DOMAIN table'[p] = {key'[d] : d \in ToSet(branch'[p])}
        /\ \A d \in ToSet(branch'[p]) : table'[p][key'[d]] = d
    BY <1>1, <1>2 DEF Put
  <2> QED
    BY <2>1 DEF TablesAgree
<1>3. CASE table'[p] = FirstWins(branch'[p], key')
  <2>1. \A d, e \in ToSet(branch'[p]) : key'[d] = key'[e] => d = e
    BY <1>1
  <2>2. \A i \in DOMAIN branch'[p] : branch'[p][i] \in ToSet(branch'[p])
    BY DEF ToSet
  <2>3. \A i, j \in DOMAIN branch'[p] : key'[branch'[p][i]] = key'[branch'[p][j]] => i = j
    BY <2>1, <2>2
  <2>4. branch'[p] \in Seq(Item)
    OBVIOUS
  <2> DEFINE b == branch'[p]
             t == FirstWins(b, key')
  <2>5. DOMAIN t = {key'[d] : d \in ToSet(b)} /\ \A d \in ToSet(b) : t[key'[d]] = d
    <3>1. b \in Seq(Item) /\ \A i, j \in DOMAIN b : key'[b[i]] = key'[b[j]] => i = j
      BY <2>3, <2>4
    <3> HIDE DEF b
    <3> QED
      BY <3>1, FirstWinsExact
  <2>6. /\ DOMAIN table'[p] = {key'[d] : d \in ToSet(branch'[p])}
        /\ \A d \in ToSet(branch'[p]) : table'[p][key'[d]] = d
    BY <1>3, <2>5
  <2> QED
    BY <2>6 DEF TablesAgree
<1> QED
  BY <1>2, <1>3

\* When the tables agree, their entries are items under keys.
LEMMA TablesTyped ==
  ASSUME branch' \in [Item -> Seq(Item)], TablesAgree(type, key', branch', table'),
         NEW p \in Item, type[p] \in Composite, \A c \in ToSet(branch'[p]) : key'[c] \in Key
  PROVE  DOMAIN table'[p] \subseteq Key /\ \A k \in DOMAIN table'[p] : table'[p][k] \in Item
<1>1. branch'[p] \in Seq(Item)
  OBVIOUS
<1>2. ToSet(branch'[p]) \subseteq Item
  BY <1>1, ToSetMembers
<1>3. /\ DOMAIN table'[p] = {key'[c] : c \in ToSet(branch'[p])}
      /\ \A c \in ToSet(branch'[p]) : table'[p][key'[c]] = c
  BY DEF TablesAgree
<1> QED
  BY <1>2, <1>3

\* jscon_append(), whether it enters one branch or remakes the table.
LEMMA AppendIInv ==
  ASSUME "duplicate_keys" \notin Client, IInv, NEW p \in Item, NEW c \in Item,
         jscon_append(p, c)
  PROVE  IInv'
<1> DEFINE k == NewKey(p, c)
           up == [parent EXCEPT ![c] = p]
           deepest == IF IsComposite(c)
                        THEN Deepest(p, up)
                        ELSE [outcome |-> "ok", comp_last |-> NULL]
           comp_last == Deepest(p, up).comp_last
<1>1. /\ type[p] \in Composite /\ type[c] \in Living /\ parent[c] = NULL
      /\ k # NULL
      /\ k \notin {key[d] : d \in ToSet(branch[p])}
      /\ p # c
  <2>1. p \in Upward(p, parent)
    BY DEF Upward, Along, Reach
  <2> QED
    BY <2>1 DEF jscon_append, CanAppend, IsComposite, Alive, IsRoot, Members
<1>2. /\ type \in [Item -> Living \cup {"unborn", "freed"}]
      /\ key \in [Item -> Key \cup {NULL}]
      /\ parent \in [Item -> Item \cup {NULL}]
      /\ branch \in [Item -> Seq(Item)]
      /\ DOMAIN table = Item
      /\ \A i \in Item : /\ DOMAIN table[i] \subseteq Key
                         /\ \A n \in DOMAIN table[i] : table[i][n] \in Item
      /\ num_bucket \in [Item -> Nat]
      /\ next \in [Item -> Item \cup {NULL}]
      /\ prev \in [Item -> Item \cup {NULL}]
      /\ ArraysAgree(type, parent, branch)
      /\ TablesAgree(type, key, branch, table)
      /\ UnbornEmpty(type, parent, branch, table)
  BY DEF IInv, TypeOK
<1>3. k \in Key
  <2>1. Len(branch[p]) \in Nat
    BY <1>2
  <2>2. key[c] \in Key \cup {NULL}
    BY <1>2
  <2> QED
    BY <1>1, <2>1, <2>2 DEF NewKey, Key
<1>4. CASE deepest.outcome # "ok"
  <2>1. Fault(deepest.outcome)
    BY <1>4 DEF jscon_append
  <2>2. deepest.outcome \in {"crash", "hang"}
    BY <1>4 DEF Deepest
  <2> HIDE DEF deepest
  <2> QED
    BY <2>1, <2>2, FaultIInv
<1>5. CASE deepest.outcome = "ok"
  <2>1. /\ parent' = up
        /\ key' = [key EXCEPT ![c] = k]
        /\ branch' = [branch EXCEPT ![p] = Append(@, c)]
        /\ \/ /\ table' = [table EXCEPT ![p] = Put(@, k, c)]
              /\ UNCHANGED num_bucket
           \/ /\ table' = [table EXCEPT ![p] = FirstWins(branch'[p], key')]
              /\ num_bucket' = [num_bucket EXCEPT ![p] = Buckets(Len(branch[p]) + 1)]
        /\ \/ /\ IsComposite(c)
              /\ next' = [next EXCEPT ![comp_last] = c]
              /\ prev' = [prev EXCEPT ![c] = comp_last]
           \/ UNCHANGED links
        /\ UNCHANGED <<type, status>>
    BY <1>5 DEF jscon_append
  <2>2. next' \in [Item -> Item \cup {NULL}] /\ prev' \in [Item -> Item \cup {NULL}]
    <3>1. CASE /\ IsComposite(c)
               /\ next' = [next EXCEPT ![comp_last] = c]
               /\ prev' = [prev EXCEPT ![c] = comp_last]
      <4>1. comp_last \in Item
        BY <1>5, <3>1, DeepestInItem
      <4> HIDE DEF comp_last
      <4> QED
        BY <1>2, <3>1, <4>1
    <3>2. CASE UNCHANGED links
      BY <1>2, <3>2 DEF links
    <3> QED
      BY <2>1, <3>1, <3>2
  <2> HIDE DEF k, deepest, comp_last
  <2>3. num_bucket' \in [Item -> Nat]
    <3>1. branch[p] \in Seq(Item)
      BY <1>2
    <3>2. Len(branch[p]) \in Nat
      BY <3>1
    <3>3. Buckets(Len(branch[p]) + 1) \in Nat
      BY <3>2, BucketsNat
    <3>4. \/ num_bucket' = num_bucket
          \/ num_bucket' = [num_bucket EXCEPT ![p] = Buckets(Len(branch[p]) + 1)]
      BY <2>1
    <3>5. num_bucket \in [Item -> Nat]
      BY <1>2
    <3> QED
      BY <3>3, <3>4, <3>5
  <2>4. /\ parent' \in [Item -> Item \cup {NULL}]
        /\ key' \in [Item -> Key \cup {NULL}]
        /\ key'[c] = k
        /\ \A d \in Item : d # c => key'[d] = key[d]
        /\ type' = type /\ status' = status
        /\ DOMAIN table' = Item
        /\ \A q \in Item : q # p => table'[q] = table[q]
    BY <1>2, <1>3, <2>1
  <2>5. /\ ArraysAgree(type, parent', branch')
        /\ branch' \in [Item -> Seq(Item)]
        /\ ToSet(branch'[p]) = ToSet(branch[p]) \cup {c}
        /\ \A q \in Item : q # p => branch'[q] = branch[q]
    BY <1>1, <1>2, <2>1, AppendKeepsArrays
  <2>6. /\ TablesAgree(type, key', branch, table)
        /\ \A d \in ToSet(branch[p]) : key'[d] = key[d]
    <3>1. type[p] \in Living
      BY <1>1 DEF Living
    <3> QED
      BY <1>1, <1>2, <2>4, <3>1, RootKeyIsFree
  <2>7. table'[p] = Put(table[p], key'[c], c) \/ table'[p] = FirstWins(branch'[p], key')
    BY <1>2, <2>1, <2>4
  <2>8. \A i, j \in DOMAIN branch'[p] : branch'[p][i] = branch'[p][j] => i = j
    BY <2>5 DEF ArraysAgree
  <2>9. key'[c] \notin {key'[d] : d \in ToSet(branch[p])}
    BY <1>1, <2>4, <2>6
  <2>10. TablesAgree(type, key', branch', table')
    BY <1>1, <2>4, <2>5, <2>6, <2>7, <2>8, <2>9, AppendKeepsTables
  <2>11. DOMAIN table'[p] \subseteq Key /\ \A n \in DOMAIN table'[p] : table'[p][n] \in Item
    <3>1. \A d \in ToSet(branch[p]) : key[d] \in Key
      BY <1>1, <1>2 DEF TablesAgree
    <3>2. \A d \in ToSet(branch'[p]) : key'[d] \in Key
      BY <1>3, <2>4, <2>5, <2>6, <3>1
    <3> QED
      BY <1>1, <2>5, <2>10, <3>2, TablesTyped
  <2>12. UnbornEmpty(type, parent', branch', table')
    <3>1. \A i \in Item : type[i] = "unborn" => i # p /\ i # c
      BY <1>1 DEF Living, Composite
    <3>2. \A i \in Item : i # c => parent'[i] = parent[i]
      BY <1>2, <2>1
    <3> QED
      BY <1>2, <2>4, <2>5, <3>1, <3>2 DEF UnbornEmpty
  <2> QED
    BY <1>2, <2>2, <2>3, <2>4, <2>5, <2>10, <2>11, <2>12 DEF IInv, TypeOK
<1> QED
  BY <1>4, <1>5

\* A realloc() that fails changes the key of a root, which no table holds.
LEMMA AppendOomIInv ==
  ASSUME IInv, NEW p \in Item, NEW c \in Item, jscon_append_oom(p, c)
  PROVE  IInv'
<1>1. /\ key \in [Item -> Key \cup {NULL}]
      /\ branch \in [Item -> Seq(Item)]
      /\ parent[c] = NULL
      /\ ArraysAgree(type, parent, branch)
      /\ TablesAgree(type, key, branch, table)
  BY DEF IInv, TypeOK, jscon_append_oom, CanAppend, IsRoot
<1>2. /\ key' \in [Item -> Key \cup {NULL}]
      /\ \A d \in Item : d # c => key'[d] = key[d]
      /\ UNCHANGED <<type, nodes, links, status>>
  BY <1>1 DEF jscon_append_oom
<1>3. TablesAgree(type, key', branch, table)
  BY <1>1, <1>2, RootKeyIsFree
<1> QED
  BY <1>2, <1>3 DEF IInv, TypeOK, nodes, links

------------------------------------------------------------------------------
(* Dettached items and deleted ones.                                       *)

\* The index that jscon_dettach() removes is that of the item.
LEMMA RemovedIsItem ==
  ASSUME IInv, NEW x \in Item, type[x] \in Living, parent[x] # NULL
  PROVE  /\ parent[x] \in Item
         /\ type[parent[x]] \in Composite
         /\ Removed(x) \in DOMAIN branch[parent[x]]
         /\ branch[parent[x]][Removed(x)] = x
<1> DEFINE p == parent[x]
<1>1. /\ parent \in [Item -> Item \cup {NULL}]
      /\ branch \in [Item -> Seq(Item)]
      /\ ArraysAgree(type, parent, branch)
      /\ TablesAgree(type, key, branch, table)
  BY DEF IInv, TypeOK
<1>2. p \in Item /\ type[p] \in Composite /\ x \in ToSet(branch[p])
  BY <1>1 DEF ArraysAgree
<1>3. key[x] \in DOMAIN table[p] /\ table[p][key[x]] = x
  BY <1>1, <1>2 DEF TablesAgree
<1>4. PICK n \in DOMAIN branch[p] : branch[p][n] = x
  BY <1>2 DEF ToSet
<1>5. n \in Nat
  <2>1. branch[p] \in Seq(Item)
    BY <1>1, <1>2
  <2> QED
    BY <1>4, <2>1, LenProperties
<1>6. \A i \in DOMAIN branch[p] : branch[p][i] = x => i = n
  BY <1>1, <1>2, <1>4 DEF ArraysAgree
<1> DEFINE At == {i \in DOMAIN branch[p] : branch[p][i] = table[p][key[x]]}
<1>7. At = {n}
  BY <1>3, <1>4, <1>6
<1>8. jscon_get_index(p, key[x]) = n
  <2>1. jscon_get_index(p, key[x]) = CHOOSE i \in At : \A j \in At : i <= j
    BY DEF jscon_get_index
  <2> HIDE DEF At
  <2> QED
    BY <1>5, <1>7, <2>1
<1>9. Removed(x) = n
  BY <1>3, <1>8 DEF Removed
<1> QED
  BY <1>2, <1>4, <1>9

\* Cut from its array and from its parent, an item is in no array.
LEMMA WithoutKeepsArrays ==
  ASSUME IInv, NEW x \in Item, type[x] \in Living, parent[x] # NULL,
         NEW pb, pb = [parent EXCEPT ![x] = NULL], NEW bs, bs = Without(x)
  PROVE  /\ ArraysAgree(type, pb, bs)
         /\ bs \in [Item -> Seq(Item)]
         /\ pb \in [Item -> Item \cup {NULL}]
         /\ pb[x] = NULL
         /\ \A y \in Item : y # x => pb[y] = parent[y]
         /\ ToSet(bs[parent[x]]) = ToSet(branch[parent[x]]) \ {x}
         /\ \A q \in Item : q # parent[x] => bs[q] = branch[q]
<1> DEFINE p == parent[x]
           n == Removed(x)
<1>1. /\ parent \in [Item -> Item \cup {NULL}]
      /\ branch \in [Item -> Seq(Item)]
      /\ ArraysAgree(type, parent, branch)
  BY DEF IInv, TypeOK
<1>2. p \in Item /\ type[p] \in Composite /\ n \in DOMAIN branch[p] /\ branch[p][n] = x
  BY RemovedIsItem
<1> HIDE DEF n
<1>3. /\ bs = [branch EXCEPT ![p] = RemoveAt(@, n)]
      /\ pb = [parent EXCEPT ![x] = NULL]
  BY DEF Without, n
<1>4. /\ bs[p] = RemoveAt(branch[p], n)
      /\ \A q \in Item : q # p => bs[q] = branch[q]
      /\ pb[x] = NULL
      /\ \A y \in Item : y # x => pb[y] = parent[y]
      /\ pb \in [Item -> Item \cup {NULL}]
  BY <1>1, <1>2, <1>3
<1>5. branch[p] \in Seq(Item) /\ \A i, j \in DOMAIN branch[p] : branch[p][i] = branch[p][j] => i = j
  BY <1>1, <1>2 DEF ArraysAgree
<1>6. /\ bs[p] \in Seq(Item)
      /\ ToSet(bs[p]) = ToSet(branch[p]) \ {x}
      /\ \A i, j \in DOMAIN bs[p] : bs[p][i] = bs[p][j] => i = j
  BY <1>2, <1>4, <1>5, ToSetRemoveAt
<1>7. bs \in [Item -> Seq(Item)]
  BY <1>1, <1>2, <1>3, <1>4, <1>6
<1>8. \A q \in Item : ToSet(branch[q]) \subseteq Item
  BY <1>1, ToSetMembers
<1> HIDE DEF p
<1>9. ASSUME NEW q \in Item, type[q] \in Living, NEW c \in ToSet(bs[q])
      PROVE  type[c] \in Living /\ pb[c] = q
  <2>1. c \in ToSet(branch[q]) /\ c \in Item
    BY <1>4, <1>6, <1>8, <1>9
  <2>2. type[c] \in Living /\ parent[c] = q
    BY <1>1, <1>9, <2>1 DEF ArraysAgree
  <2>3. c # x
    BY <1>6, <1>9, <2>2 DEF p
  <2> QED
    BY <1>4, <2>1, <2>2, <2>3
<1>10. ASSUME NEW c \in Item, type[c] \in Living, pb[c] # NULL
       PROVE  type[pb[c]] \in Composite /\ c \in ToSet(bs[pb[c]])
  <2>1. c # x /\ pb[c] = parent[c]
    BY <1>4, <1>10
  <2>2. type[parent[c]] \in Composite /\ c \in ToSet(branch[parent[c]]) /\ parent[c] \in Item
    BY <1>1, <1>10, <2>1 DEF ArraysAgree
  <2> QED
    BY <1>4, <1>6, <2>1, <2>2
<1>11. \A q \in Item : \A i, j \in DOMAIN bs[q] : bs[q][i] = bs[q][j] => i = j
  <2>1. \A q \in Item : q # p =>
          \A i, j \in DOMAIN bs[q] : bs[q][i] = bs[q][j] => i = j
    BY <1>1, <1>4 DEF ArraysAgree
  <2> QED
    BY <1>6, <2>1
<1>12. ArraysAgree(type, pb, bs)
  BY <1>9, <1>10, <1>11 DEF ArraysAgree
<1> QED
  BY <1>4, <1>6, <1>7, <1>12 DEF p

\* That is what jscon_dettach() leaves.
LEMMA UnlinkKeepsArrays ==
  ASSUME IInv, NEW x \in Item, type[x] \in Living, parent[x] # NULL, Unlink(x)
  PROVE  /\ ArraysAgree(type, parent', branch')
         /\ branch' \in [Item -> Seq(Item)]
         /\ parent' \in [Item -> Item \cup {NULL}]
         /\ parent'[x] = NULL
         /\ \A y \in Item : y # x => parent'[y] = parent[y]
         /\ ToSet(branch'[parent[x]]) = ToSet(branch[parent[x]]) \ {x}
         /\ \A q \in Item : q # parent[x] => branch'[q] = branch[q]
<1> DEFINE pb == [parent EXCEPT ![x] = NULL]
           bs == Without(x)
<1>1. parent' = pb /\ branch' = bs
  BY DEF Unlink
<1>2. pb = [parent EXCEPT ![x] = NULL] /\ bs = Without(x)
  OBVIOUS
<1> HIDE DEF pb, bs
<1>3. /\ ArraysAgree(type, pb, bs)
      /\ bs \in [Item -> Seq(Item)]
      /\ pb \in [Item -> Item \cup {NULL}]
      /\ pb[x] = NULL
  BY <1>2, WithoutKeepsArrays
<1>4. \A y \in Item : y # x => pb[y] = parent[y]
  BY <1>2, WithoutKeepsArrays
<1>5. ToSet(bs[parent[x]]) = ToSet(branch[parent[x]]) \ {x}
  BY <1>2, WithoutKeepsArrays
<1>6. \A q \in Item : q # parent[x] => bs[q] = branch[q]
  BY <1>2, WithoutKeepsArrays
<1> QED
  BY <1>1, <1>3, <1>4, <1>5, <1>6

\* The table that is remade holds the branches that are left.
LEMMA UnlinkKeepsTables ==
  ASSUME IInv, NEW x \in Item, type[x] \in Living, parent[x] # NULL, Unlink(x)
  PROVE  /\ TablesAgree(type, key, branch', table')
         /\ DOMAIN table' = Item
         /\ \A i \in Item : /\ DOMAIN table'[i] \subseteq Key
                            /\ \A k \in DOMAIN table'[i] : table'[i][k] \in Item
         /\ \A q \in Item : q # parent[x] => table'[q] = table[q]
<1> DEFINE p == parent[x]
           b == branch'[p]
           t == FirstWins(b, key)
<1>1. /\ branch \in [Item -> Seq(Item)]
      /\ DOMAIN table = Item
      /\ \A i \in Item : /\ DOMAIN table[i] \subseteq Key
                         /\ \A k \in DOMAIN table[i] : table[i][k] \in Item
      /\ TablesAgree(type, key, branch, table)
  BY DEF IInv, TypeOK
<1>2. p \in Item /\ type[p] \in Composite
  BY RemovedIsItem
<1>3. /\ ArraysAgree(type, parent', branch')
      /\ branch' \in [Item -> Seq(Item)]
      /\ ToSet(b) = ToSet(branch[p]) \ {x}
      /\ \A q \in Item : q # p => branch'[q] = branch[q]
  BY UnlinkKeepsArrays
<1>4. b \in Seq(Item) /\ \A i, j \in DOMAIN b : b[i] = b[j] => i = j
  BY <1>2, <1>3 DEF ArraysAgree
<1>5. table' = [table EXCEPT ![p] = t]
  BY DEF Unlink
<1>6. /\ table'[p] = t
      /\ \A q \in Item : q # p => table'[q] = table[q]
      /\ DOMAIN table' = Item
  BY <1>1, <1>2, <1>5
<1> HIDE DEF p, b
<1>7. /\ DOMAIN table[p] = {key[c] : c \in ToSet(branch[p])}
      /\ \A c \in ToSet(branch[p]) : table[p][key[c]] = c
  BY <1>1, <1>2 DEF TablesAgree
<1>8. \A i \in DOMAIN b : b[i] \in ToSet(b) /\ b[i] \in ToSet(branch[p])
  BY <1>3 DEF ToSet
<1>9. \A i, j \in DOMAIN b : key[b[i]] = key[b[j]] => i = j
  BY <1>4, <1>7, <1>8
<1>10. DOMAIN t = {key[c] : c \in ToSet(b)} /\ \A c \in ToSet(b) : t[key[c]] = c
  BY <1>4, <1>9, FirstWinsExact
<1> HIDE DEF t
<1>11. ToSet(b) \subseteq Item
  BY <1>4, ToSetMembers
<1>12. DOMAIN t \subseteq DOMAIN table[p] /\ \A k \in DOMAIN t : t[k] \in Item
  BY <1>3, <1>7, <1>10, <1>11
<1>13. \A i \in Item : /\ DOMAIN table'[i] \subseteq Key
                       /\ \A k \in DOMAIN table'[i] : table'[i][k] \in Item
  BY <1>1, <1>2, <1>6, <1>12
<1>14. TablesAgree(type, key, branch', table')
  <2> SUFFICES ASSUME NEW q \in Item, type[q] \in Composite
               PROVE  /\ DOMAIN table'[q] = {key[c] : c \in ToSet(branch'[q])}
                      /\ \A c \in ToSet(branch'[q]) : table'[q][key[c]] = c
    BY DEF TablesAgree
  <2>1. CASE q = p
    BY <1>6, <1>10, <2>1 DEF b
  <2>2. CASE q # p
    BY <1>1, <1>3, <1>6, <2>2 DEF TablesAgree
  <2> QED
    BY <2>1, <2>2
<1> QED
  BY <1>6, <1>13, <1>14 DEF p

\* The list keeps pointing to items, and unborn items stay untouched.
LEMMA UnlinkKeepsRest ==
  ASSUME IInv, NEW x \in Item, type[x] \in Living, parent[x] # NULL, Unlink(x),
         Deepest(x, parent).outcome = "ok"
  PROVE  /\ num_bucket' \in [Item -> Nat]
         /\ next' \in [Item -> Item \cup {NULL}]
         /\ prev' \in [Item -> Item \cup {NULL}]
         /\ UnbornEmpty(type, parent', branch', table')
<1> DEFINE p == parent[x]
           comp_last == Deepest(x, parent).comp_last
           spliced == [next EXCEPT ![prev[x]] = next[comp_last]]
<1>1. /\ branch \in [Item -> Seq(Item)]
      /\ num_bucket \in [Item -> Nat]
      /\ next \in [Item -> Item \cup {NULL}]
      /\ prev \in [Item -> Item \cup {NULL}]
      /\ UnbornEmpty(type, parent, branch, table)
  BY DEF IInv, TypeOK
<1>2. p \in Item /\ type[p] \in Composite /\ Removed(x) \in DOMAIN branch[p]
  BY RemovedIsItem
<1>3. num_bucket' \in [Item -> Nat]
  <2>1. branch[p] \in Seq(Item)
    BY <1>1, <1>2
  <2>2. Len(branch[p]) - 1 \in Nat
    BY <1>2, <2>1, LenProperties
  <2>3. Buckets(Len(branch[p]) - 1) \in Nat
    BY <2>2, BucketsNat
  <2>4. num_bucket' = [num_bucket EXCEPT ![p] = Buckets(Len(branch[p]) - 1)]
    BY DEF Unlink
  <2> QED
    BY <1>1, <2>3, <2>4
<1>4. comp_last \in Item
  BY DeepestInItem
<1>5. /\ next' = [spliced EXCEPT ![comp_last] = NULL]
      /\ prev' = [prev EXCEPT ![x] = NULL]
  BY DEF Unlink, Splice
<1> HIDE DEF comp_last
<1>6. spliced \in [Item -> Item \cup {NULL}]
  BY <1>1, <1>4
<1>7. next' \in [Item -> Item \cup {NULL}] /\ prev' \in [Item -> Item \cup {NULL}]
  BY <1>1, <1>5, <1>6
<1>8. UnbornEmpty(type, parent', branch', table')
  <2>1. \A i \in Item : type[i] = "unborn" => i # p /\ i # x
    BY <1>2 DEF Living, Composite
  <2>2. /\ \A y \in Item : y # x => parent'[y] = parent[y]
        /\ \A q \in Item : q # p => branch'[q] = branch[q]
    BY UnlinkKeepsArrays
  <2>3. \A q \in Item : q # p => table'[q] = table[q]
    BY UnlinkKeepsTables
  <2> QED
    BY <1>1, <2>1, <2>2, <2>3 DEF UnbornEmpty
<1> QED
  BY <1>3, <1>7, <1>8

\* The outcomes other than "ok" are faults, and "ok" is only for a branch
\* whose list can be walked.
LEMMA OutcomesOfDettach ==
  ASSUME NEW x \in Item, CanDettach(x), NEW outcome \in DettachOutcomes(x)
  PROVE  /\ type[x] \in Living /\ parent[x] # NULL
         /\ outcome # "ok" => outcome \in {"abort", "crash", "hang"}
         /\ outcome = "ok" => Deepest(x, parent).outcome = "ok"
<1>1. type[x] \in Living /\ parent[x] # NULL
  BY DEF CanDettach, Alive, IsRoot
<1>2. Deepest(x, parent).outcome \in {"ok", "crash", "hang"}
  BY DEF Deepest
<1> QED
  BY <1>1, <1>2 DEF DettachOutcomes

\* jscon_dettach(), whatever becomes of the list.
LEMMA DettachIInv ==
  ASSUME IInv, NEW x \in Item, jscon_dettach(x)
  PROVE  IInv'
<1>1. PICK outcome \in DettachOutcomes(x) :
        IF outcome # "ok" THEN Fault(outcome) ELSE Unlink(x) /\ UNCHANGED <<type, key, status>>
  BY DEF jscon_dettach
<1>2. /\ type[x] \in Living /\ parent[x] # NULL
      /\ outcome # "ok" => outcome \in {"abort", "crash", "hang"}
      /\ outcome = "ok" => Deepest(x, parent).outcome = "ok"
  BY OutcomesOfDettach DEF jscon_dettach
<1>3. CASE outcome # "ok"
  BY <1>1, <1>2, <1>3, FaultIInv
<1>4. CASE outcome = "ok"
  <2>1. Unlink(x) /\ UNCHANGED <<type, key, status>> /\ Deepest(x, parent).outcome = "ok"
    BY <1>1, <1>2, <1>4
  <2>2. /\ ArraysAgree(type, parent', branch')
        /\ branch' \in [Item -> Seq(Item)]
        /\ parent' \in [Item -> Item \cup {NULL}]
    BY <1>2, <2>1, UnlinkKeepsArrays
  <2>3. /\ TablesAgree(type, key, branch', table')
        /\ DOMAIN table' = Item
        /\ \A i \in Item : /\ DOMAIN table'[i] \subseteq Key
                           /\ \A k \in DOMAIN table'[i] : table'[i][k] \in Item
    BY <1>2, <2>1, UnlinkKeepsTables
  <2>4. /\ num_bucket' \in [Item -> Nat]
        /\ next' \in [Item -> Item \cup {NULL}]
        /\ prev' \in [Item -> Item \cup {NULL}]
        /\ UnbornEmpty(type, parent', branch', table')
    BY <1>2, <2>1, UnlinkKeepsRest
  <2> QED
    BY <2>1, <2>2, <2>3, <2>4 DEF IInv, TypeOK
<1> QED
  BY <1>3, <1>4

\* Between its two halves jscon_delete() is where jscon_dettach() ends.
LEMMA DeleteIInv ==
  ASSUME IInv, NEW p \in Item, NEW k \in DOMAIN table[p], jscon_delete(p, k)
  PROVE  IInv'
<1> DEFINE x == table[p][k]
<1>1. x \in Item /\ CanDettach(x)
  BY DEF IInv, TypeOK, jscon_delete
<1>2. PICK outcome \in DettachOutcomes(x) :
        IF outcome # "ok" THEN Fault(outcome)
        ELSE IF ~FreesOnce(x, Without(x)) THEN Fault("crash")
        ELSE /\ Unlink(x)
             /\ FreeAll(Below(x, branch'))
             /\ UNCHANGED <<key, status>>
  BY DEF jscon_delete
<1> HIDE DEF x
<1>3. /\ type[x] \in Living /\ parent[x] # NULL
      /\ outcome # "ok" => outcome \in {"abort", "crash", "hang"}
      /\ outcome = "ok" => Deepest(x, parent).outcome = "ok"
  BY <1>1, OutcomesOfDettach
<1>4. CASE Fault(outcome) /\ outcome # "ok"
  BY <1>3, <1>4, FaultIInv
<1>5. CASE Fault("crash")
  BY <1>5, FaultIInv
<1>6. CASE /\ outcome = "ok"
           /\ Unlink(x)
           /\ FreeAll(Below(x, branch'))
           /\ UNCHANGED <<key, status>>
  <2> DEFINE gone == Below(x, branch')
  <2>1. /\ ArraysAgree(type, parent', branch')
        /\ branch' \in [Item -> Seq(Item)]
        /\ parent' \in [Item -> Item \cup {NULL}]
        /\ parent'[x] = NULL
    BY <1>1, <1>3, <1>6, UnlinkKeepsArrays
  <2>2. /\ TablesAgree(type, key, branch', table')
        /\ DOMAIN table' = Item
        /\ \A i \in Item : /\ DOMAIN table'[i] \subseteq Key
                           /\ \A n \in DOMAIN table'[i] : table'[i][n] \in Item
    BY <1>1, <1>3, <1>6, UnlinkKeepsTables
  <2>3. /\ num_bucket' \in [Item -> Nat]
        /\ next' \in [Item -> Item \cup {NULL}]
        /\ prev' \in [Item -> Item \cup {NULL}]
        /\ UnbornEmpty(type, parent', branch', table')
    BY <1>1, <1>3, <1>6, UnlinkKeepsRest
  <2>4. /\ type' = [i \in Item |-> IF i \in gone THEN "freed" ELSE type[i]]
        /\ type \in [Item -> Living \cup {"unborn", "freed"}]
    BY <1>6 DEF FreeAll, IInv, TypeOK
  <2>5. ArraysAgree(type', parent', branch')
    BY <1>1, <1>3, <2>1, <2>4, FreeKeepsArrays
  <2> HIDE DEF gone
  <2>6. /\ TablesAgree(type', key, branch', table')
        /\ UnbornEmpty(type', parent', branch', table')
        /\ type' \in [Item -> Living \cup {"unborn", "freed"}]
    BY <2>2, <2>3, <2>4 DEF TablesAgree, UnbornEmpty, Living, Composite
  <2> QED
    BY <1>6, <2>1, <2>2, <2>3, <2>5, <2>6 DEF IInv, TypeOK
<1> QED
  BY <1>2, <1>4, <1>5, <1>6

\* jscon_delete() without memory destroys a whole tree.
LEMMA DeleteOomIInv ==
  ASSUME IInv, NEW p \in Item, NEW k \in DOMAIN table[p], jscon_delete_oom(p, k)
  PROVE  IInv'
<1>1. table[p][k] \in Item
  BY DEF IInv, TypeOK
<1> QED
  BY <1>1, DestroyIInv DEF jscon_delete_oom

------------------------------------------------------------------------------
\* Every call preserves the invariant.
LEMMA NextIInv ==
  ASSUME "duplicate_keys" \notin Client, IInv, [Next]_vars
  PROVE  IInv'
<1>1. ASSUME NEW i \in Item, NEW t \in Kind, NEW k \in Name \cup {NULL}, jscon_new(i, t, k)
      PROVE  IInv'
  BY <1>1, NewIInv
<1>2. ASSUME NEW p \in Item, NEW c \in Item, jscon_append(p, c)
      PROVE  IInv'
  BY <1>2, AppendIInv
<1>3. ASSUME NEW p \in Item, NEW c \in Item, jscon_append_oom(p, c)
      PROVE  IInv'
  BY <1>3, AppendOomIInv
<1>4. ASSUME NEW x \in Item, jscon_dettach(x)
      PROVE  IInv'
  BY <1>4, DettachIInv
<1>5. ASSUME NEW x \in Item, jscon_destroy(x)
      PROVE  IInv'
  BY <1>5, DestroyIInv
<1>6. ASSUME NEW p \in Item, NEW k \in DOMAIN table[p], jscon_delete(p, k)
      PROVE  IInv'
  BY <1>6, DeleteIInv
<1>7. ASSUME NEW p \in Item, NEW k \in DOMAIN table[p], jscon_delete_oom(p, k)
      PROVE  IInv'
  BY <1>7, DeleteOomIInv
<1>8. CASE UNCHANGED vars
  BY <1>8 DEF vars, nodes, links, IInv, TypeOK, ArraysAgree, TablesAgree, UnbornEmpty
<1> QED
  BY <1>1, <1>2, <1>3, <1>4, <1>5, <1>6, <1>7, <1>8 DEF Next

(***************************************************************************)
(* A client that gives siblings different keys may dettach leaves, append  *)
(* and dettach composites in any order and run out of memory at any        *)
(* realloc(): as long as the program runs, every field holds what its type *)
(* in the code says, and an array holds items only.                        *)
(***************************************************************************)
THEOREM TreeIsTyped ==
  ASSUME "duplicate_keys" \notin Client
  PROVE  Spec => []TypeOK
<1>1. IInv => TypeOK
  BY DEF IInv
<1> QED
  BY InitIInv, NextIInv, <1>1, PTL DEF Spec

\* Arrays and parents that agree are a forest.
LEMMA ForestOfArrays == ArraysAgree(type, parent, branch) => Forest
<1> SUFFICES ASSUME ArraysAgree(type, parent, branch)
             PROVE  BranchesHaveParent /\ ParentsHaveBranch /\ NoItemTwice
  BY DEF Forest
<1> QED
  BY DEF ArraysAgree, BranchesHaveParent, ParentsHaveBranch, NoItemTwice,
         Alive, IsRoot, IsComposite, Members

(***************************************************************************)
(* With the same client an item is in one place of one array, that of its  *)
(* parent, and no live item points to a freed one, nor a parent to an item *)
(* that has left it.                                                       *)
(***************************************************************************)
THEOREM ArraysAndParents ==
  ASSUME "duplicate_keys" \notin Client
  PROVE  Spec => []Forest
<1>1. IInv => Forest
  BY ForestOfArrays DEF IInv
<1> QED
  BY InitIInv, NextIInv, <1>1, PTL DEF Spec

(***************************************************************************)
(* With the same client every hashtable holds each branch under the key it *)
(* has now: the key of an array's branch is the index it had when it was   *)
(* appended, and no later one takes the same.                              *)
(***************************************************************************)
THEOREM TablesAreExact ==
  ASSUME "duplicate_keys" \notin Client
  PROVE  Spec => []TableExact
<1>1. IInv => TableExact
  BY DEF IInv, TablesAgree, TableExact, IsComposite, Members
<1> QED
  BY InitIInv, NextIInv, <1>1, PTL DEF Spec

\* An item that leaves its array is the one that loses its parent.
LEMMA UnlinkTakesOut ==
  ASSUME IInv, NEW x \in Item, type[x] \in Living, parent[x] # NULL, Unlink(x)
  PROVE  \A p \in Item : branch'[p] = branch[p] \/ TakenOut(p)
<1>1. /\ parent[x] \in Item
      /\ Removed(x) \in DOMAIN branch[parent[x]]
      /\ branch[parent[x]][Removed(x)] = x
  BY RemovedIsItem
<1>2. /\ parent'[x] = NULL
      /\ \A q \in Item : q # parent[x] => branch'[q] = branch[q]
  BY UnlinkKeepsArrays
<1>3. branch'[parent[x]] = RemoveAt(branch[parent[x]], Removed(x))
  BY <1>1 DEF Unlink, Without, IInv, TypeOK
<1> QED
  BY <1>1, <1>2, <1>3 DEF TakenOut

(***************************************************************************)
(* With the same client, whatever a call does to an array leaves the rest  *)
(* of the array as it was, and the item that comes or goes is the one      *)
(* whose parent changes.                                                   *)
(***************************************************************************)
THEOREM ArraysKeepOrder ==
  ASSUME "duplicate_keys" \notin Client
  PROVE  Spec => OrderKept
<1> DEFINE Kept == \A p \in Item : branch'[p] = branch[p] \/ Appended(p) \/ TakenOut(p)
<1>1. ASSUME IInv, Next
      PROVE  Kept
  <2>1. ASSUME NEW i \in Item, NEW t \in Kind, NEW k \in Name \cup {NULL}, jscon_new(i, t, k)
        PROVE  Kept
    BY <2>1 DEF jscon_new
  <2>2. ASSUME NEW p \in Item, NEW c \in Item, jscon_append(p, c)
        PROVE  Kept
    <3>1. \/ branch' = branch
          \/ /\ IsRoot(c)
             /\ parent' = [parent EXCEPT ![c] = p]
             /\ branch' = [branch EXCEPT ![p] = Append(@, c)]
      BY <2>2 DEF jscon_append, CanAppend, Fault, nodes
    <3>2. DOMAIN parent = Item /\ DOMAIN branch = Item
      BY <1>1 DEF IInv, TypeOK
    <3> QED
      BY <3>1, <3>2 DEF Appended
  <2>3. ASSUME NEW p \in Item, NEW c \in Item, jscon_append_oom(p, c)
        PROVE  Kept
    BY <2>3 DEF jscon_append_oom, nodes
  <2>4. ASSUME NEW x \in Item, jscon_dettach(x)
        PROVE  Kept
    <3>1. (Unlink(x) \/ branch' = branch) /\ type[x] \in Living /\ parent[x] # NULL
      BY <2>4 DEF jscon_dettach, CanDettach, Alive, IsRoot, Fault, nodes
    <3> QED
      BY <1>1, <3>1, UnlinkTakesOut
  <2>5. ASSUME NEW x \in Item, jscon_destroy(x)
        PROVE  Kept
    BY <2>5 DEF jscon_destroy, Fault, nodes
  <2>6. ASSUME NEW p \in Item, NEW k \in DOMAIN table[p], jscon_delete(p, k)
        PROVE  Kept
    <3> DEFINE x == table[p][k]
    <3>1. x \in Item
      BY <1>1, <2>6 DEF IInv, TypeOK
    <3>2. (Unlink(x) \/ branch' = branch) /\ type[x] \in Living /\ parent[x] # NULL
      BY <2>6 DEF jscon_delete, CanDettach, Alive, IsRoot, Fault, nodes
    <3> HIDE DEF x
    <3> QED
      BY <1>1, <3>1, <3>2, UnlinkTakesOut
  <2>7. ASSUME NEW p \in Item, NEW k \in DOMAIN table[p], jscon_delete_oom(p, k)
        PROVE  Kept
    BY <2>7 DEF jscon_delete_oom, jscon_destroy, Fault, nodes
  <2> QED
    BY <1>1, <2>1, <2>2, <2>3, <2>4, <2>5, <2>6, <2>7 DEF Next
<1>2. IInv /\ [Next]_vars => [Kept]_vars
  BY <1>1
<1> QED
  BY InitIInv, NextIInv, <1>2, PTL DEF Spec, OrderKept
==============================================================================
