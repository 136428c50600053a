--------------------------- MODULE JsconListProofs ---------------------------
(***************************************************************************)
(* For any finite set of items and any names: as long as the client keeps  *)
(* to what the library asks of it without saying so, the list of           *)
(* composites of every tree is the tree read in order, and no call faults. *)
(***************************************************************************)
EXTENDS JsconForestProofs

(***************************************************************************)
(* The invariant, as predicates on the fields.  Upward(r, nx) is here what *)
(* is met from r along the list.                                           *)
(***************************************************************************)
Composites(ty, pa, r) == {c \in Item : ty[c] \in Composite /\ r \in Upward(c, pa)}

\* Before(), by the array of a live item.
Precedes(ty, pa, br, a, b) ==
  \/ a # b /\ a \in Upward(b, pa)
  \/ \E p \in Item : \E i, j \in DOMAIN br[p] :
       /\ ty[p] \in Living
       /\ i < j
       /\ br[p][i] \in Upward(a, pa)
       /\ br[p][j] \in Upward(b, pa)

\* a is read when b is with all its branches: it is among them, or before b.
InOrBefore(ty, pa, br, a, b) == b \in Upward(a, pa) \/ Precedes(ty, pa, br, a, b)

\* The list that begins at r is that of its tree, in order, and it ends.
ListOf(ty, pa, br, nx, pv, r) ==
  /\ Upward(r, nx) = Composites(ty, pa, r)
  /\ pv[r] = NULL
  /\ \E e \in Upward(r, nx) : nx[e] = NULL
  /\ \A c \in Upward(r, nx) : nx[c] # NULL =>
       pv[nx[c]] = c /\ Precedes(ty, pa, br, c, nx[c])

Lists(ty, pa, br, nx, pv) ==
  \A r \in Item : ty[r] \in Composite /\ pa[r] = NULL => ListOf(ty, pa, br, nx, pv, r)

UnbornUnlisted(ty, nx, pv) ==
  \A i \in Item : ty[i] = "unborn" => nx[i] = NULL /\ pv[i] = NULL

ListInv ==
  /\ ForestInv
  /\ Lists(type, parent, branch, next, prev)
  /\ UnbornUnlisted(type, next, prev)
  /\ NoFault

------------------------------------------------------------------------------
(* Chains of pointers.                                                     *)

\* What is above another item is the parent of one that is.
LEMMA UpwardLast ==
  ASSUME NEW pa \in [Item -> Item \cup {NULL}], NEW x \in Item,
         NEW r \in Upward(x, pa), r # x
  PROVE  \E q \in Upward(x, pa) : pa[q] = r
<1> SUFFICES ASSUME \A q \in Upward(x, pa) : pa[q] # r PROVE FALSE
  OBVIOUS
<1> DEFINE S == Upward(x, pa) \ {r}
<1>1. /\ x \in Upward(x, pa) /\ Upward(x, pa) \in SUBSET Item
      /\ \A i \in Upward(x, pa) : pa[i] # NULL => pa[i] \in Upward(x, pa)
  BY UpwardProperties
<1>2. S \in SUBSET Item /\ x \in S /\ \A i \in S : pa[i] # NULL => pa[i] \in S
  BY <1>1
<1>3. \A T \in SUBSET Item :
        x \in T /\ (\A i \in T : pa[i] # NULL => pa[i] \in T) => Upward(x, pa) \subseteq T
  BY UpwardProperties
<1>4. r \notin S /\ r \in Upward(x, pa)
  OBVIOUS
<1> HIDE DEF S
<1>5. Upward(x, pa) \subseteq S
  BY <1>2, <1>3
<1> QED
  BY <1>4, <1>5

\* Of two items only one is above the other.
LEMMA UpwardOneWay ==
  ASSUME NEW pa \in [Item -> Item \cup {NULL}], NEW a \in Item, NEW b \in Item,
         a \in Upward(b, pa), b \in Upward(a, pa), \E r \in Upward(a, pa) : pa[r] = NULL
  PROVE  a = b
<1>1. CASE pa[a] = NULL
  BY <1>1, UpwardStep
<1>2. CASE pa[a] # NULL
  <2>1. SUFFICES ASSUME a # b PROVE FALSE
    OBVIOUS
  <2>2. pa[a] \in Item /\ b \in Upward(pa[a], pa)
    BY <1>2, <2>1, UpwardStep
  <2>3. a \in Upward(pa[a], pa)
    BY <2>2, UpwardTransitive
  <2> QED
    BY <1>2, <2>3, NoItemAboveParent
<1> QED
  BY <1>1, <1>2

\* Two siblings are not above the same item.
LEMMA SiblingsApart ==
  ASSUME NEW pa \in [Item -> Item \cup {NULL}], NEW d \in Item,
         NEW u \in Upward(d, pa), NEW w \in Upward(d, pa), pa[u] = pa[w], pa[u] # NULL,
         \E r \in Upward(d, pa) : pa[r] = NULL
  PROVE  u = w
<1>1. u \in Item /\ w \in Item
  BY UpwardTransitive
<1>2. PICK r \in Upward(d, pa) : pa[r] = NULL
  OBVIOUS
<1>3. r \in Item
  BY UpwardTransitive
<1>4. ASSUME NEW v \in Item, v \in Upward(d, pa), pa[v] # NULL
      PROVE  v \notin Upward(pa[v], pa)
  <2>1. r \in Upward(v, pa)
    <3>1. v \in Upward(r, pa) => v = r
      BY <1>2, <1>3, UpwardStep
    <3> QED
      BY <1>2, <1>4, <3>1, UpwardLinear
  <2> QED
    BY <1>2, <1>4, <2>1, NoItemAboveParent
<1>5. u \in Upward(w, pa) => u = w \/ u \in Upward(pa[w], pa)
  BY <1>1, UpwardStep
<1>6. w \in Upward(u, pa) => u = w \/ w \in Upward(pa[u], pa)
  BY <1>1, UpwardStep
<1> QED
  BY <1>1, <1>4, <1>5, <1>6, UpwardLinear

(***************************************************************************)
(* Two chains, where g ends at l, and f goes on from l with x.  This is a  *)
(* root that gets a parent, a list that is put after another, and, read    *)
(* backwards, both of them cut.                                            *)
(***************************************************************************)
LEMMA JoinChains ==
  ASSUME NEW f \in [Item -> Item \cup {NULL}], NEW g \in [Item -> Item \cup {NULL}],
         NEW l \in Item, NEW x \in Item, SetAt(g, f, l, x), g[l] = NULL,
         l \notin Upward(x, f) \/ l \notin Upward(x, g), NEW y \in Item
  PROVE  /\ Upward(x, f) = Upward(x, g)
         /\ l \notin Upward(x, f)
         /\ l \in Upward(y, f) <=> l \in Upward(y, g)
         /\ l \notin Upward(y, g) => Upward(y, f) = Upward(y, g)
         /\ l \in Upward(y, g) => /\ Upward(y, f) = Upward(y, g) \cup Upward(x, g)
                                  /\ Upward(y, g) \cap Upward(x, g) = {}
<1>1. x # NULL /\ l # NULL /\ f[l] = x /\ \A i \in Item : i # l => f[i] = g[i]
  BY ItemAssumption DEF SetAt
<1>2. ASSUME NEW z \in Item, l \notin Upward(z, f) \/ l \notin Upward(z, g)
      PROVE  Upward(z, f) = Upward(z, g)
  <2>1. Upward(z, f) \subseteq Item /\ Upward(z, g) \subseteq Item
    BY UpwardProperties
  <2>2. CASE l \notin Upward(z, f)
    <3>1. \A i \in Upward(z, f) : g[i] = f[i]
      BY <1>1, <2>1, <2>2
    <3> QED
      BY <3>1, UpwardSame
  <2>3. CASE l \notin Upward(z, g)
    <3>1. \A i \in Upward(z, g) : f[i] = g[i]
      BY <1>1, <2>1, <2>3
    <3> QED
      BY <3>1, UpwardSame
  <2> QED
    BY <1>2, <2>2, <2>3
<1>3. Upward(x, f) = Upward(x, g) /\ l \notin Upward(x, f)
  BY <1>2
<1>4. l \in Upward(y, f) <=> l \in Upward(y, g)
  BY <1>2
<1>5. ASSUME l \in Upward(y, g)
      PROVE  /\ Upward(y, f) = Upward(y, g) \cup Upward(x, g)
             /\ Upward(y, g) \cap Upward(x, g) = {}
  <2> DEFINE F == Upward(y, f)
             G == Upward(y, g)
             X == Upward(x, f)
  <2>1. /\ y \in F /\ F \in SUBSET Item
        /\ \A i \in F : f[i] # NULL => f[i] \in F
        /\ y \in G /\ G \in SUBSET Item
        /\ \A i \in G : g[i] # NULL => g[i] \in G
        /\ X \in SUBSET Item /\ x \in X
        /\ \A i \in X : f[i] # NULL => f[i] \in X
    BY UpwardProperties
  <2>2. l \in F /\ x \in F
    BY <1>1, <1>4, <1>5, <2>1
  <2>3. X \subseteq F
    BY <2>2, UpwardTransitive
  <2>4. G \subseteq F
    <3>1. \A i \in F : g[i] # NULL => g[i] \in F
      BY <1>1, <2>1
    <3> HIDE DEF F, G
    <3> QED
      BY <2>1, <3>1, UpwardProperties DEF G
  <2>5. F \subseteq G \cup X
    <3> DEFINE S == G \cup X
    <3>1. S \in SUBSET Item /\ y \in S /\ \A i \in S : f[i] # NULL => f[i] \in S
      BY <1>1, <2>1
    <3> HIDE DEF S, F
    <3>2. F \subseteq S
      BY <3>1, UpwardProperties DEF F
    <3> QED
      BY <3>2 DEF S
  <2>6. G \subseteq F \ X
    <3> DEFINE S == F \ X
    <3>1. y \in S
      <4>1. y \in X => l \in X
        BY <1>4, <1>5, UpwardTransitive
      <4> QED
        BY <1>3, <2>1, <4>1
    <3>2. ASSUME NEW i \in S, g[i] # NULL
          PROVE  g[i] \in S
      <4>1. i \in Item /\ i # l /\ f[i] = g[i] /\ f[i] \in F /\ f[i] \in Item
        BY <1>1, <2>1, <3>2
      <4>2. l \in Upward(i, f)
        <5>1. Upward(l, f) = {l} \cup X
          BY <1>1, UpwardStep
        <5>2. i \notin Upward(l, f)
          BY <3>2, <4>1, <5>1
        <5> QED
          BY <2>2, <3>2, <5>2, UpwardLinear
      <4>3. l \in Upward(f[i], f)
        BY <3>2, <4>1, <4>2, UpwardStep
      <4>4. f[i] \in X => l \in X
        BY <4>3, UpwardTransitive
      <4> QED
        BY <1>3, <4>1, <4>4
    <3>3. S \in SUBSET Item
      BY <2>1
    <3> HIDE DEF S
    <3>4. G \subseteq S
      BY <3>1, <3>2, <3>3, UpwardProperties
    <3> QED
      BY <3>4 DEF S
  <2> QED
    BY <1>3, <2>3, <2>4, <2>5, <2>6
<1> QED
  BY <1>2, <1>3, <1>4, <1>5

------------------------------------------------------------------------------
(* Creating and freeing.                                                   *)

\* Above a composite are composites only.
LEMMA UpwardComposite ==
  ASSUME NEW ty, NEW pa \in [Item -> Item \cup {NULL}], NEW br,
         ArraysAgree(ty, pa, br), NEW c \in Item, ty[c] \in Composite
  PROVE  \A a \in Upward(c, pa) : a \in Item /\ ty[a] \in Composite
<1> DEFINE S == {i \in Item : ty[i] \in Composite}
<1>1. S \in SUBSET Item /\ c \in S
  OBVIOUS
<1>2. \A i \in S : pa[i] # NULL => pa[i] \in S
  BY DEF ArraysAgree, Living
<1>3. Upward(c, pa) \subseteq S
  <2> HIDE DEF S
  <2> QED
    BY <1>1, <1>2, UpwardProperties
<1> QED
  BY <1>3

LEMMA InitListInv == Init => ListInv
<1> SUFFICES ASSUME Init PROVE ListInv
  OBVIOUS
<1>1. Lists(type, parent, branch, next, prev)
  BY DEF Init, Lists, Composite
<1>2. UnbornUnlisted(type, next, prev) /\ NoFault
  BY DEF Init, UnbornUnlisted, NoFault
<1> QED
  BY <1>1, <1>2, InitForestInv DEF ListInv

\* An item that comes to life as a root is alone in its list, if it has one.
LEMMA BirthLists ==
  ASSUME NEW ty, NEW pa \in [Item -> Item \cup {NULL}], NEW br \in [Item -> Seq(Item)],
         NEW nx \in [Item -> Item \cup {NULL}], NEW pv,
         ArraysAgree(ty, pa, br), Lists(ty, pa, br, nx, pv),
         NEW i \in Item, ty[i] \notin Living, pa[i] = NULL, nx[i] = NULL, pv[i] = NULL,
         NEW tz, tz[i] \in Living, \A j \in Item : j # i => tz[j] = ty[j]
  PROVE  Lists(tz, pa, br, nx, pv)
<1>1. ASSUME NEW y \in Item, ty[y] \in Living
      PROVE  i \notin Upward(y, pa)
  BY <1>1, AllAlive
<1>2. Upward(i, pa) = {i} /\ Upward(i, nx) = {i}
  BY UpwardStep
<1>3. ASSUME NEW r \in Item, tz[r] \in Composite, pa[r] = NULL
      PROVE  ListOf(tz, pa, br, nx, pv, r)
  <2>1. CASE r = i
    <3>1. Composites(tz, pa, i) = {i}
      <4>1. \A c \in Item : c # i /\ tz[c] \in Composite => i \notin Upward(c, pa)
        BY <1>1 DEF Living
      <4> QED
        BY <1>2, <1>3, <2>1, <4>1 DEF Composites
    <3> QED
      BY <1>2, <2>1, <3>1 DEF ListOf
  <2>2. CASE r # i
    <3>1. ListOf(ty, pa, br, nx, pv, r)
      BY <1>3, <2>2 DEF Lists
    <3>2. Composites(tz, pa, r) = Composites(ty, pa, r)
      BY <1>2, <2>2 DEF Composites, Living
    <3>3. ASSUME NEW a, NEW b, Precedes(ty, pa, br, a, b)
          PROVE  Precedes(tz, pa, br, a, b)
      BY <3>3 DEF Precedes
    <3> QED
      BY <3>1, <3>2, <3>3 DEF ListOf
  <2> QED
    BY <2>1, <2>2
<1> QED
  BY <1>3 DEF Lists

\* So is a new one.
LEMMA NewLists ==
  ASSUME ListInv, NEW i \in Item, NEW t \in Kind, NEW k \in Name \cup {NULL}, jscon_new(i, t, k)
  PROVE  Lists(type', parent', branch', next', prev') /\ UnbornUnlisted(type', next', prev')
<1>1. /\ parent \in [Item -> Item \cup {NULL}]
      /\ branch \in [Item -> Seq(Item)]
      /\ next \in [Item -> Item \cup {NULL}]
      /\ type \in [Item -> Living \cup {"unborn", "freed"}]
      /\ ArraysAgree(type, parent, branch)
      /\ UnbornEmpty(type, parent, branch, table)
      /\ Lists(type, parent, branch, next, prev)
      /\ UnbornUnlisted(type, next, prev)
  BY DEF ListInv, ForestInv, IInv, TypeOK
<1>2. /\ type[i] = "unborn" /\ parent[i] = NULL /\ next[i] = NULL /\ prev[i] = NULL
      /\ t \in Living
      /\ UNCHANGED <<parent, branch, next, prev>>
      /\ type'[i] = t
      /\ \A j \in Item : j # i => type'[j] = type[j]
  BY <1>1, KindAssumption DEF jscon_new, UnbornEmpty, UnbornUnlisted, links
<1>3. UnbornUnlisted(type', next', prev')
  BY <1>1, <1>2 DEF UnbornUnlisted, Living, Composite
<1>4. Lists(type', parent, branch, next, prev)
  <2>1. type[i] \notin Living /\ type'[i] \in Living
    BY <1>2 DEF Living, Composite
  <2> QED
    BY <1>1, <1>2, <2>1, BirthLists
<1> QED
  BY <1>2, <1>3, <1>4

\* The trees that are not freed keep their lists.
LEMMA FreeLists ==
  ASSUME NEW ty, NEW pa \in [Item -> Item \cup {NULL}], NEW br \in [Item -> Seq(Item)],
         NEW nx, NEW pv, ArraysAgree(ty, pa, br), Lists(ty, pa, br, nx, pv),
         NEW x \in Item, ty[x] \in Living, pa[x] = NULL,
         NEW tz, tz = [i \in Item |-> IF i \in Below(x, br) THEN "freed" ELSE ty[i]]
  PROVE  Lists(tz, pa, br, nx, pv)
<1> DEFINE gone == Below(x, br)
<1>1. /\ \A i \in Item : tz[i] \in Living <=> ty[i] \in Living /\ i \notin gone
      /\ \A i \in Item : tz[i] \in Composite <=> ty[i] \in Composite /\ i \notin gone
  BY DEF Living, Composite
<1>2. \A i \in Item : ty[i] \in Living => (i \in gone <=> x \in Upward(i, pa))
  BY BelowIsUpward
<1> HIDE DEF gone
<1>3. SUFFICES ASSUME NEW r \in Item, tz[r] \in Composite, pa[r] = NULL
               PROVE  ListOf(tz, pa, br, nx, pv, r)
  BY DEF Lists
<1>4. ListOf(ty, pa, br, nx, pv, r) /\ r # x
  <2>1. x \in Upward(x, pa)
    BY UpwardProperties
  <2> QED
    BY <1>1, <1>2, <1>3, <2>1 DEF Lists
\* What hangs from r hangs from no other root.
<1>5. ASSUME NEW y \in Item, ty[y] \in Living, r \in Upward(y, pa)
      PROVE  tz[y] \in Living
  <2>1. x \notin Upward(y, pa)
    BY <1>3, <1>4, <1>5, RootUnique
  <2> QED
    BY <1>1, <1>2, <1>5, <2>1
<1>6. Composites(tz, pa, r) = Composites(ty, pa, r)
  BY <1>1, <1>5 DEF Composites, Living
<1>7. ASSUME NEW a \in Composites(ty, pa, r), NEW b, Precedes(ty, pa, br, a, b)
      PROVE  Precedes(tz, pa, br, a, b)
  <2>1. CASE a # b /\ a \in Upward(b, pa)
    BY <2>1 DEF Precedes
  <2>2. CASE ~(a # b /\ a \in Upward(b, pa))
    <3>0. PICK p \in Item : \E i, j \in DOMAIN br[p] :
            /\ ty[p] \in Living /\ i < j
            /\ br[p][i] \in Upward(a, pa) /\ br[p][j] \in Upward(b, pa)
      BY <1>7, <2>2 DEF Precedes
    <3>1. PICK i \in DOMAIN br[p], j \in DOMAIN br[p] :
            /\ ty[p] \in Living /\ i < j
            /\ br[p][i] \in Upward(a, pa) /\ br[p][j] \in Upward(b, pa)
      BY <3>0
    <3>2. a \in Item /\ r \in Upward(a, pa)
      BY DEF Composites
    <3>3. br[p][i] \in ToSet(br[p])
      BY DEF ToSet
    <3>4. br[p][i] \in Item /\ pa[br[p][i]] = p
      BY <3>1, <3>2, <3>3, UpwardTransitive DEF ArraysAgree
    <3>5. p \in Upward(a, pa)
      <4>1. \A q \in Upward(a, pa) : pa[q] # NULL => pa[q] \in Upward(a, pa)
        BY <3>2, UpwardProperties
      <4> QED
        BY <3>1, <3>4, <4>1, ItemAssumption
    <3>6. r \in Upward(p, pa)
      <4>1. p \in Upward(r, pa) => p = r
        <5>1. Upward(r, pa) = {r}
          BY <1>3, UpwardStep
        <5> QED
          BY <5>1
      <4>2. p \in Upward(p, pa)
        BY UpwardProperties
      <4> QED
        BY <3>2, <3>5, <4>1, <4>2, UpwardLinear
    <3>7. tz[p] \in Living
      BY <1>5, <3>1, <3>6
    <3> QED
      BY <3>1, <3>7 DEF Precedes
  <2> QED
    BY <2>1, <2>2
<1> QED
  BY <1>4, <1>6, <1>7 DEF ListOf

------------------------------------------------------------------------------
(* The walk to the deepest composite.                                      *)

\* What is above a live item that hangs from x is not less deep than x.
LEMMA NotShallower ==
  ASSUME IsFiniteSet(Item), NEW up \in [Item -> Item \cup {NULL}],
         NEW y \in Item, NEW x \in Upward(y, up)
  PROVE  Depth(y, up) >= Depth(x, up)
<1>1. x \in Item /\ Upward(x, up) \subseteq Upward(y, up) /\ Upward(y, up) \subseteq Item
  BY UpwardTransitive, UpwardProperties
<1>2. IsFiniteSet(Upward(y, up)) /\ IsFiniteSet(Upward(x, up))
  BY <1>1, FS_Subset
<1>3. Cardinality(Upward(x, up)) <= Cardinality(Upward(y, up))
  BY <1>1, <1>2, FS_Subset
<1>4. Cardinality(Upward(x, up)) \in Nat /\ Cardinality(Upward(y, up)) \in Nat
  BY <1>2, FS_CardinalityType
<1> QED
  BY <1>3, <1>4 DEF Depth

\* The walk along a list that ends, whose composites all hang from x and are
\* alive with all that is above them, comes to the end of the list.
LEMMA DeepestOfList ==
  ASSUME IsFiniteSet(Item), next \in [Item -> Item \cup {NULL}],
         NEW up \in [Item -> Item \cup {NULL}], NEW x \in Item,
         \A y \in Upward(x, next) : x \in Upward(y, up) /\ \A a \in Upward(y, up) : Alive(a),
         \E e \in Upward(x, next) : next[e] = NULL
  PROVE  /\ Deepest(x, up).outcome = "ok"
         /\ Deepest(x, up).comp_last \in Upward(x, next)
         /\ next[Deepest(x, up).comp_last] = NULL
<1> DEFINE depth == [i \in Item |-> Depth(i, up)]
           goes_on == {i \in Item : next[i] # NULL /\ depth[next[i]] >= depth[x]}
           h == [i \in Item |-> IF i \in goes_on THEN next[i] ELSE NULL]
           walk == Reach(x, [i \in Item |-> IF i \in goes_on THEN {next[i]} ELSE {}])
           read == (walk \cup {next[i] : i \in walk}) \ {NULL}
           W == Upward(x, next)
<1>1. /\ x \in W /\ W \in SUBSET Item
      /\ \A i \in W : next[i] # NULL => next[i] \in W
  BY UpwardProperties
<1>2. \A i \in W : next[i] # NULL => depth[next[i]] >= depth[x]
  BY <1>1, NotShallower
<1>3. \A i \in W : i \in goes_on <=> next[i] # NULL
  BY <1>1, <1>2
<1>4. h \in [Item -> Item \cup {NULL}] /\ \A i \in W : h[i] = next[i]
  BY <1>1, <1>3
<1>5. walk = W
  <2>1. walk = Upward(x, h)
    <3>1. [i \in Item |-> {h[i]} \ {NULL}] =
            [i \in Item |-> IF i \in goes_on THEN {next[i]} ELSE {}]
      OBVIOUS
    <3> QED
      BY <3>1 DEF Upward, Along
  <2> HIDE DEF h, walk
  <2> QED
    BY <1>4, <2>1, UpwardSame
<1> HIDE DEF depth, goes_on, walk, W
<1>6. \A i \in read : i \in W
  BY <1>1, <1>5
<1>7. ~ \E i \in read : \E a \in Upward(i, up) : ~Alive(a)
  BY <1>6 DEF W
<1>8. PICK e \in W : next[e] = NULL
  BY DEF W
<1>9. ~(walk \subseteq goes_on)
  BY <1>3, <1>5, <1>8
<1>10. Deepest(x, up) = [outcome |-> "ok", comp_last |-> CHOOSE i \in walk : i \notin goes_on]
  <2>1. Deepest(x, up) =
          IF \E i \in read : \E a \in Upward(i, up) : ~Alive(a)
            THEN [outcome |-> "crash", comp_last |-> NULL]
          ELSE IF walk \subseteq goes_on
            THEN [outcome |-> "hang", comp_last |-> NULL]
          ELSE [outcome |-> "ok", comp_last |-> CHOOSE i \in walk : i \notin goes_on]
    BY DEF Deepest, depth, goes_on, walk
  <2> HIDE DEF read
  <2> QED
    BY <1>7, <1>9, <2>1
<1>11. \E i \in walk : i \notin goes_on
  BY <1>9
<1> DEFINE l == CHOOSE i \in walk : i \notin goes_on
<1>12. l \in walk /\ l \notin goes_on
  BY <1>11
<1> HIDE DEF l
<1>13. l \in W /\ next[l] = NULL
  BY <1>3, <1>5, <1>12
<1> QED
  BY <1>10, <1>13 DEF l, W

------------------------------------------------------------------------------
(* Appending.                                                              *)

\* What comes before another item goes on doing so.
LEMMA AppendPrecedes ==
  ASSUME NEW ty, NEW pa \in [Item -> Item \cup {NULL}], NEW br \in [Item -> Seq(Item)],
         NEW pb \in [Item -> Item \cup {NULL}], NEW bs, NEW p \in Item, NEW c \in Item,
         pa[c] = NULL, SetAt(pa, pb, c, p), SetAt(br, bs, p, Append(br[p], c)),
         NEW a \in Item, NEW b \in Item, Precedes(ty, pa, br, a, b)
  PROVE  Precedes(ty, pb, bs, a, b)
<1>1. \A y \in Item : Upward(y, pa) \subseteq Upward(y, pb)
  <2>1. SUFFICES ASSUME NEW y \in Item PROVE Upward(y, pa) \subseteq Upward(y, pb)
    OBVIOUS
  <2>2. /\ y \in Upward(y, pb) /\ Upward(y, pb) \in SUBSET Item
        /\ \A i \in Upward(y, pb) : pb[i] # NULL => pb[i] \in Upward(y, pb)
    BY UpwardProperties
  <2>3. \A i \in Upward(y, pb) : pa[i] # NULL => pa[i] \in Upward(y, pb)
    BY <2>2 DEF SetAt
  <2> QED
    BY <2>2, <2>3, UpwardProperties
<1>2. \A q \in Item : \A i \in DOMAIN br[q] : i \in DOMAIN bs[q] /\ bs[q][i] = br[q][i]
  <2>1. \A i \in DOMAIN br[p] : i \in DOMAIN bs[p] /\ bs[p][i] = br[p][i]
    BY AppendProperties DEF SetAt
  <2> QED
    BY <2>1 DEF SetAt
<1>3. CASE a # b /\ a \in Upward(b, pa)
  BY <1>1, <1>3 DEF Precedes
<1>4. CASE ~(a # b /\ a \in Upward(b, pa))
  <2>1. PICK q \in Item : \E i, j \in DOMAIN br[q] :
          /\ ty[q] \in Living /\ i < j
          /\ br[q][i] \in Upward(a, pa) /\ br[q][j] \in Upward(b, pa)
    BY <1>4 DEF Precedes
  <2>2. \E i, j \in DOMAIN bs[q] :
          /\ ty[q] \in Living /\ i < j
          /\ bs[q][i] \in Upward(a, pb) /\ bs[q][j] \in Upward(b, pb)
    BY <1>1, <1>2, <2>1
  <2> QED
    BY <2>2 DEF Precedes
<1> QED
  BY <1>3, <1>4

\* What the proofs about lists start from.
LEMMA ListInvFacts ==
  ASSUME ListInv
  PROVE  /\ type \in [Item -> Living \cup {"unborn", "freed"}]
         /\ parent \in [Item -> Item \cup {NULL}]
         /\ branch \in [Item -> Seq(Item)]
         /\ next \in [Item -> Item \cup {NULL}]
         /\ prev \in [Item -> Item \cup {NULL}]
         /\ ArraysAgree(type, parent, branch)
         /\ Climbs(type, parent)
         /\ Lists(type, parent, branch, next, prev)
BY DEF ListInv, ForestInv, IInv, TypeOK

\* A primitive is in no list.
LEMMA AppendLeafLists ==
  ASSUME NEW ty, NEW pa \in [Item -> Item \cup {NULL}], NEW br \in [Item -> Seq(Item)],
         NEW nx \in [Item -> Item \cup {NULL}], NEW pv,
         ArraysAgree(ty, pa, br), Lists(ty, pa, br, nx, pv),
         NEW p \in Item, NEW c \in Item, ty[c] \notin Composite, pa[c] = NULL,
         NEW pb \in [Item -> Item \cup {NULL}], SetAt(pa, pb, c, p),
         NEW bs, SetAt(br, bs, p, Append(br[p], c))
  PROVE  Lists(ty, pb, bs, nx, pv)
<1>a. \A a, b \in Item : Precedes(ty, pa, br, a, b) => Precedes(ty, pb, bs, a, b)
  BY AppendPrecedes
<1>1. SUFFICES ASSUME NEW r \in Item, ty[r] \in Composite, pb[r] = NULL
               PROVE  ListOf(ty, pb, bs, nx, pv, r)
  BY DEF Lists
<1>2. ListOf(ty, pa, br, nx, pv, r) /\ r # c
  BY <1>1, ItemAssumption DEF Lists, SetAt
<1>3. ASSUME NEW y \in Item, ty[y] \in Composite
      PROVE  Upward(y, pb) = Upward(y, pa)
  <2>1. c \notin Upward(y, pa)
    BY <1>3, UpwardComposite
  <2>2. \A i \in Upward(y, pa) : pb[i] = pa[i]
    BY <2>1, UpwardProperties DEF SetAt
  <2> QED
    BY <2>2, UpwardSame
<1>4. Composites(ty, pb, r) = Composites(ty, pa, r)
  BY <1>3 DEF Composites
<1>5. ASSUME NEW a \in Upward(r, nx), nx[a] # NULL
      PROVE  Precedes(ty, pb, bs, a, nx[a])
  <2>1. a \in Item /\ nx[a] \in Item
    BY <1>5, UpwardTransitive
  <2>2. Precedes(ty, pa, br, a, nx[a])
    BY <1>2, <1>5 DEF ListOf
  <2> QED
    BY <1>a, <2>1, <2>2
<1> QED
  BY <1>2, <1>4, <1>5 DEF ListOf

\* The trees of two roots share no item.
LEMMA RootsApart ==
  ASSUME NEW ty, NEW pa \in [Item -> Item \cup {NULL}], NEW r \in Item, NEW q \in Item,
         pa[r] = NULL, pa[q] = NULL, r # q, NEW c \in Composites(ty, pa, r)
  PROVE  c \notin Composites(ty, pa, q)
BY RootUnique DEF Composites

\* What is above each item once the pointer of c, which was the last one, leads
\* to x.
Joined(g, f, c, x) ==
  \A y \in Item : Upward(y, f) =
    IF c \in Upward(y, g) THEN Upward(y, g) \cup Upward(x, g) ELSE Upward(y, g)

LEMMA JoinedUpward ==
  ASSUME NEW g \in [Item -> Item \cup {NULL}], NEW f \in [Item -> Item \cup {NULL}],
         NEW x \in Item, NEW c \in Item, SetAt(g, f, c, x), g[c] = NULL, c \notin Upward(x, g)
  PROVE  Joined(g, f, c, x)
<1> SUFFICES ASSUME NEW y \in Item
             PROVE  Upward(y, f) =
                      IF c \in Upward(y, g) THEN Upward(y, g) \cup Upward(x, g) ELSE Upward(y, g)
  BY DEF Joined
<1>1. /\ c \notin Upward(y, g) => Upward(y, f) = Upward(y, g)
      /\ c \in Upward(y, g) => Upward(y, f) = Upward(y, g) \cup Upward(x, g)
  BY JoinChains
<1> QED
  BY <1>1

\* The list of a root that is appended to a tree comes after that of the tree,
\* when in the order of the tree it does.
LEMMA JoinLists ==
  ASSUME NEW ty, NEW pa \in [Item -> Item \cup {NULL}], NEW br \in [Item -> Seq(Item)],
         NEW nx0 \in [Item -> Item \cup {NULL}], NEW pv0,
         ArraysAgree(ty, pa, br), Lists(ty, pa, br, nx0, pv0),
         NEW p \in Item, NEW c \in Item, ty[p] \in Composite, ty[c] \in Composite,
         pa[c] = NULL, c \notin Upward(p, pa),
         NEW r \in Upward(p, pa), pa[r] = NULL,
         NEW pb \in [Item -> Item \cup {NULL}], SetAt(pa, pb, c, p),
         NEW bs, SetAt(br, bs, p, Append(br[p], c)),
         NEW l \in Upward(r, nx0), nx0[l] = NULL, Precedes(ty, pb, bs, l, c),
         NEW nx \in [Item -> Item \cup {NULL}], SetAt(nx0, nx, l, c),
         NEW pv, SetAt(pv0, pv, c, l)
  PROVE  Lists(ty, pb, bs, nx, pv)
<1>a. \A a, b \in Item : Precedes(ty, pa, br, a, b) => Precedes(ty, pb, bs, a, b)
  BY AppendPrecedes
<1>b. /\ pb[c] = p /\ nx[l] = c /\ pv[c] = l
      /\ \A i \in Item : i # c => pb[i] = pa[i] /\ pv[i] = pv0[i]
      /\ \A i \in Item : i # l => nx[i] = nx0[i]
  BY DEF SetAt
<1>c. r \in Item /\ ty[r] \in Composite
  BY UpwardComposite
<1>1. /\ ListOf(ty, pa, br, nx0, pv0, r)
      /\ ListOf(ty, pa, br, nx0, pv0, c)
      /\ r # c /\ l \in Item
  <2>1. ListOf(ty, pa, br, nx0, pv0, r) /\ ListOf(ty, pa, br, nx0, pv0, c)
    BY <1>c DEF Lists
  <2> QED
    BY <1>c, <2>1, UpwardProperties
<1>2. /\ Upward(r, nx0) = Composites(ty, pa, r)
      /\ Upward(c, nx0) = Composites(ty, pa, c)
  BY <1>1 DEF ListOf
<1>3. l \notin Upward(c, nx0)
  BY <1>c, <1>1, <1>2, RootsApart
\* Which composites hang from which root now.
<1>4. Joined(pa, pb, c, p)
  BY JoinedUpward
<1>5. \A y \in Item : Upward(y, pb) =
        IF c \in Upward(y, pa) THEN Upward(y, pa) \cup Upward(p, pa) ELSE Upward(y, pa)
  BY <1>4 DEF Joined
<1>6. Composites(ty, pb, r) = Composites(ty, pa, r) \cup Composites(ty, pa, c)
  BY <1>5 DEF Composites
<1>7. ASSUME NEW q \in Item, pa[q] = NULL, q # r
      PROVE  Composites(ty, pb, q) = Composites(ty, pa, q)
  <2>1. q \notin Upward(p, pa)
    BY <1>7, RootUnique
  <2> QED
    BY <1>5, <2>1 DEF Composites
\* Which lists there are.
<1>8. Upward(r, nx) = Upward(r, nx0) \cup Upward(c, nx0)
  <2>1. Joined(nx0, nx, l, c)
    BY <1>1, <1>3, JoinedUpward
  <2> QED
    BY <1>c, <1>1, <2>1 DEF Joined
<1>9. ASSUME NEW q \in Item, ty[q] \in Composite, pa[q] = NULL, q # r
      PROVE  Upward(q, nx) = Upward(q, nx0)
  <2>1. ListOf(ty, pa, br, nx0, pv0, q)
    BY <1>9 DEF Lists
  <2>2. l \notin Upward(q, nx0)
    BY <1>c, <1>2, <1>9, <2>1, RootsApart DEF ListOf
  <2>3. \A i \in Upward(q, nx0) : nx[i] = nx0[i]
    BY <1>b, <1>9, <2>2, UpwardProperties
  <2> QED
    BY <1>9, <2>3, UpwardSame
\* No list led to the item that is appended.
<1>10. ASSUME NEW q \in Item, ty[q] \in Composite, pa[q] = NULL,
              NEW a \in Upward(q, nx0), nx0[a] # NULL
       PROVE  /\ nx[a] = nx0[a] /\ pv[nx[a]] = a
              /\ Precedes(ty, pb, bs, a, nx[a])
  <2>1. a \in Item /\ nx0[a] \in Item /\ nx[a] = nx0[a]
    <3>1. a \in Item /\ nx0[a] \in Item
      BY <1>10, UpwardTransitive
    <3> QED
      BY <1>10, <1>b, <3>1
  <2>2. pv0[nx0[a]] = a /\ Precedes(ty, pa, br, a, nx0[a])
    BY <1>10 DEF Lists, ListOf
  <2>3. nx0[a] # c
    BY <1>1, <2>1, <2>2, ItemAssumption DEF ListOf
  <2>4. Precedes(ty, pb, bs, a, nx0[a])
    BY <1>a, <2>1, <2>2
  <2> QED
    BY <1>b, <2>1, <2>2, <2>3, <2>4
<1>12. ListOf(ty, pb, bs, nx, pv, r)
  <2>1. Upward(r, nx) = Composites(ty, pb, r)
    BY <1>2, <1>6, <1>8
  <2>2. pv[r] = NULL
    BY <1>b, <1>c, <1>1 DEF ListOf
  <2>3. \E e \in Upward(r, nx) : nx[e] = NULL
    <3>1. PICK e \in Upward(c, nx0) : nx0[e] = NULL
      BY <1>1 DEF ListOf
    <3>2. e \in Item /\ e # l
      BY <1>2, <1>3 DEF Composites
    <3> QED
      BY <1>b, <1>8, <3>1, <3>2
  <2>4. ASSUME NEW a \in Upward(r, nx), nx[a] # NULL
        PROVE  pv[nx[a]] = a /\ Precedes(ty, pb, bs, a, nx[a])
    <3>1. CASE a = l
      BY <1>b, <3>1
    <3>2. CASE a # l
      <4>1. a \in Item /\ nx0[a] # NULL
        BY <1>b, <1>2, <1>8, <2>4, <3>2 DEF Composites
      <4> QED
        BY <1>c, <1>8, <1>10, <2>4, <4>1
    <3> QED
      BY <3>1, <3>2
  <2> QED
    BY <2>1, <2>2, <2>3, <2>4 DEF ListOf
<1>13. ASSUME NEW q \in Item, ty[q] \in Composite, pb[q] = NULL, q # r
       PROVE  ListOf(ty, pb, bs, nx, pv, q)
  <2>1. q # c /\ pa[q] = NULL
    BY <1>b, <1>13, ItemAssumption
  <2>2. ListOf(ty, pa, br, nx0, pv0, q)
    BY <1>13, <2>1 DEF Lists
  <2>3. Upward(q, nx) = Upward(q, nx0)
    BY <1>9, <1>13, <2>1
  <2>4. l \notin Upward(q, nx0)
    BY <1>c, <1>2, <1>13, <2>1, <2>2, RootsApart DEF ListOf
  <2>5. \A a \in Upward(q, nx0) : nx[a] = nx0[a]
    BY <1>b, <2>4, UpwardProperties
  <2>6. ASSUME NEW a \in Upward(q, nx), nx[a] # NULL
        PROVE  pv[nx[a]] = a /\ Precedes(ty, pb, bs, a, nx[a])
    BY <1>10, <1>13, <2>1, <2>3, <2>5, <2>6
  <2>7. Upward(q, nx) = Composites(ty, pb, q)
    BY <1>7, <1>13, <2>1, <2>2, <2>3 DEF ListOf
  <2>8. pv[q] = NULL /\ \E e \in Upward(q, nx) : nx[e] = NULL
    BY <1>b, <2>1, <2>2, <2>3, <2>5 DEF ListOf
  <2> QED
    BY <2>6, <2>7, <2>8 DEF ListOf
<1> QED
  BY <1>12, <1>13 DEF Lists

\* It does when the last composite of the tree is passed once p is read.
LEMMA AppendedIsLast ==
  ASSUME NEW ty, NEW pa \in [Item -> Item \cup {NULL}], NEW br \in [Item -> Seq(Item)],
         ArraysAgree(ty, pa, br),
         NEW p \in Item, NEW c \in Item, ty[p] \in Composite, pa[c] = NULL,
         c \notin Upward(p, pa),
         NEW pb \in [Item -> Item \cup {NULL}], SetAt(pa, pb, c, p),
         NEW bs, SetAt(br, bs, p, Append(br[p], c)),
         NEW l \in Item, ty[l] \in Composite, l # c,
         InOrBefore(ty, pa, br, l, p)
  PROVE  Precedes(ty, pb, bs, l, c)
<1>0. Joined(pa, pb, c, p)
  BY JoinedUpward
<1>1. c \in Upward(c, pb) /\ pb[c] = p /\ Upward(c, pb) = {c} \cup Upward(p, pb)
  BY ItemAssumption, UpwardProperties, UpwardStep DEF SetAt
<1>2. p \in Upward(p, pb)
  BY UpwardProperties
<1>3. CASE l = p
  BY <1>1, <1>2, <1>3 DEF Precedes
<1>4. CASE l # p /\ p \in Upward(l, pa)
  <2>1. PICK q \in Upward(l, pa) : pa[q] = p
    BY <1>4, UpwardLast
  <2>2. q \in Item /\ ty[q] \in Living /\ q \in ToSet(br[p])
    <3>1. q \in Item /\ ty[q] \in Composite
      BY <2>1, UpwardComposite
    <3> QED
      BY <2>1, <3>1, ItemAssumption DEF ArraysAgree, Living
  <2>3. PICK i \in DOMAIN br[p] : br[p][i] = q
    BY <2>2 DEF ToSet
  <2>4. /\ i \in DOMAIN bs[p] /\ Len(br[p]) + 1 \in DOMAIN bs[p]
        /\ i < Len(br[p]) + 1 /\ bs[p][i] = q /\ bs[p][Len(br[p]) + 1] = c
    <3>1. br[p] \in Seq(Item)
      OBVIOUS
    <3> QED
      BY <2>3, <3>1, AppendProperties, LenProperties DEF SetAt
  <2>5. q \in Upward(l, pb)
    BY <1>0, <2>1 DEF Joined
  <2> DEFINE At(k, m) == /\ ty[p] \in Living /\ k < m
                         /\ bs[p][k] \in Upward(l, pb) /\ bs[p][m] \in Upward(c, pb)
  <2>6. At(i, Len(br[p]) + 1)
    BY <1>1, <2>4, <2>5 DEF Living
  <2>7. \E k, m \in DOMAIN bs[p] : At(k, m)
    BY <2>4, <2>6
  <2> QED
    BY <2>7 DEF Precedes
<1>5. CASE Precedes(ty, pa, br, l, p)
  <2>1. Precedes(ty, pb, bs, l, p)
    BY <1>5, AppendPrecedes
  <2>2. \A a : a \in Upward(p, pb) => a \in Upward(c, pb)
    BY <1>1
  <2> QED
    BY <2>1, <2>2 DEF Precedes
<1> QED
  BY <1>3, <1>4, <1>5 DEF InOrBefore

\* The composites of a root come before a branch that is appended to it.
LEMMA AppendCompositeLists ==
  ASSUME ListInv, NEW p \in Item, NEW c \in Item,
         type[p] \in Composite, type[c] \in Composite,
         parent[p] = NULL, parent[c] = NULL, c \notin Upward(p, parent),
         NEW pb \in [Item -> Item \cup {NULL}], SetAt(parent, pb, c, p),
         NEW bs, SetAt(branch, bs, p, Append(branch[p], c)),
         NEW l \in Upward(p, next), next[l] = NULL,
         NEW nx \in [Item -> Item \cup {NULL}], SetAt(next, nx, l, c),
         NEW pv, SetAt(prev, pv, c, l)
  PROVE  Lists(type, pb, bs, nx, pv)
<1>1. /\ parent \in [Item -> Item \cup {NULL}]
      /\ branch \in [Item -> Seq(Item)]
      /\ next \in [Item -> Item \cup {NULL}]
      /\ ArraysAgree(type, parent, branch)
      /\ Lists(type, parent, branch, next, prev)
      /\ p \in Upward(p, parent)
  BY ListInvFacts, UpwardProperties
<1>2. l \in Composites(type, parent, p)
  BY <1>1 DEF Lists, ListOf
<1>3. l \in Item /\ type[l] \in Composite /\ p \in Upward(l, parent) /\ l # c
  <2>1. Upward(c, parent) = {c} /\ p # c
    BY <1>1, UpwardStep
  <2> QED
    BY <1>2, <2>1 DEF Composites
<1>4. Precedes(type, pb, bs, l, c)
  BY <1>1, <1>3, AppendedIsLast DEF InOrBefore
<1> QED
  BY <1>1, <1>4, JoinLists

------------------------------------------------------------------------------
(* Dettaching.                                                             *)

\* The root that x hangs from.
LEMMA RootOf ==
  ASSUME ListInv, NEW x \in Item, type[x] \in Composite
  PROVE  \E r \in Item : /\ r \in Upward(x, parent) /\ parent[r] = NULL
                         /\ type[r] \in Composite
                         /\ ListOf(type, parent, branch, next, prev, r)
                         /\ x \in Upward(r, next)
<1>1. PICK r \in Upward(x, parent) : parent[r] = NULL
  BY ListInvFacts DEF Climbs, Living
<1>2. r \in Item /\ type[r] \in Composite
  BY ListInvFacts, UpwardComposite
<1>3. ListOf(type, parent, branch, next, prev, r)
  BY <1>1, <1>2, ListInvFacts DEF Lists
<1>4. x \in Composites(type, parent, r)
  BY DEF Composites
<1> QED
  BY <1>1, <1>2, <1>3, <1>4 DEF ListOf

\* When no composite follows x in its tree, the list does not leave what is
\* below x, and does not come to x from there.
LEMMA TailStays ==
  ASSUME ListInv, NEW x \in Item, type[x] \in Composite, NoneFollows(x),
         NEW r \in Item, ListOf(type, parent, branch, next, prev, r),
         NEW c \in Upward(r, next), next[c] # NULL, x \in Upward(c, parent)
  PROVE  /\ next[c] \in Upward(r, next)
         /\ x \in Upward(next[c], parent)
         /\ next[c] # x
<1> DEFINE d == next[c]
<1>0. /\ parent \in [Item -> Item \cup {NULL}]
      /\ branch \in [Item -> Seq(Item)]
      /\ next \in [Item -> Item \cup {NULL}]
      /\ ArraysAgree(type, parent, branch)
      /\ Climbs(type, parent)
  BY ListInvFacts
<1>1. c \in Item /\ d \in Item /\ d \in Upward(r, next)
  BY <1>0, UpwardProperties
<1>2. /\ Precedes(type, parent, branch, c, d)
      /\ type[c] \in Composite /\ type[d] \in Composite
  BY <1>1 DEF ListOf, Composites
<1>3. \E s \in Upward(c, parent) : parent[s] = NULL
  BY <1>0, <1>1, <1>2 DEF Climbs, Living
<1>4. \A a \in Upward(d, parent) : a \in Item /\ type[a] \in Composite /\ Upward(a, parent) \subseteq Upward(d, parent)
  BY <1>0, <1>1, <1>2, UpwardComposite, UpwardTransitive
<1> HIDE DEF d
<1>5. CASE c # d /\ c \in Upward(d, parent)
  <2>1. x \in Upward(d, parent)
    BY <1>4, <1>5
  <2>2. d = x => c = x
    BY <1>0, <1>1, <1>3, <1>5, UpwardOneWay
  <2> QED
    BY <1>1, <1>5, <2>1, <2>2 DEF d
<1>6. CASE ~(c # d /\ c \in Upward(d, parent))
  <2>1. PICK p \in Item : \E i, j \in DOMAIN branch[p] :
          /\ type[p] \in Living /\ i < j
          /\ branch[p][i] \in Upward(c, parent) /\ branch[p][j] \in Upward(d, parent)
    BY <1>2, <1>6 DEF Precedes
  <2>2. PICK i \in DOMAIN branch[p], j \in DOMAIN branch[p] :
          /\ type[p] \in Living /\ i < j
          /\ branch[p][i] \in Upward(c, parent) /\ branch[p][j] \in Upward(d, parent)
    BY <2>1
  <2> DEFINE u == branch[p][i]
             w == branch[p][j]
  <2>3. u \in Upward(c, parent) /\ w \in Upward(d, parent) /\ u \in Item /\ w \in Item
    BY <1>0, <1>1, <2>2, UpwardTransitive
  <2>4. u \in ToSet(branch[p]) /\ w \in ToSet(branch[p])
    BY DEF ToSet
  <2>5. parent[u] = p /\ parent[w] = p /\ p # NULL
    BY <1>0, <2>2, <2>4, ItemAssumption DEF ArraysAgree
  <2>6. u # w
    <3>1. i # j
      <4>1. branch[p] \in Seq(Item)
        BY <1>0
      <4>2. i \in Nat /\ j \in Nat
        BY <4>1, LenProperties
      <4> QED
        BY <2>2, <4>2
    <3> QED
      BY <1>0, <3>1 DEF ArraysAgree
  <2>7. u \notin Upward(x, parent)
    <3>1. IsComposite(w)
      BY <1>4, <2>3 DEF IsComposite
    <3> QED
      BY <2>2, <2>5, <3>1 DEF NoneFollows, IsRoot
  <2> HIDE DEF u, w
  <2>8. x \in Upward(u, parent) /\ x # u
    <3>1. u \in Upward(u, parent)
      BY <1>0, <2>3, UpwardProperties
    <3> QED
      BY <1>0, <1>1, <2>3, <2>7, <3>1, UpwardLinear
  <2>9. x \in Upward(p, parent)
    BY <1>0, <2>3, <2>5, <2>8, UpwardStep
  <2>10. x \in Upward(d, parent)
    <3>1. x \in Upward(w, parent)
      BY <1>0, <2>3, <2>5, <2>9, UpwardStep
    <3> QED
      BY <1>4, <2>3, <3>1
  <2>11. d # x
    <3>1. SUFFICES ASSUME d = x PROVE FALSE
      OBVIOUS
    <3>2. w \in Upward(c, parent)
      BY <1>0, <1>1, <2>3, <3>1, UpwardTransitive
    <3> QED
      BY <1>0, <1>1, <1>3, <2>3, <2>5, <2>6, <3>2, SiblingsApart
  <2> QED
    BY <1>1, <2>10, <2>11 DEF d
<1> QED
  BY <1>5, <1>6

\* Then the rest of the list, from x on, is what is below x.
LEMMA TailIsTree ==
  ASSUME ListInv, NEW x \in Item, type[x] \in Composite, NoneFollows(x)
  PROVE  Upward(x, next) = Composites(type, parent, x)
<1>0. /\ parent \in [Item -> Item \cup {NULL}]
      /\ next \in [Item -> Item \cup {NULL}]
  BY ListInvFacts
<1>1. PICK r \in Item :
        /\ r \in Upward(x, parent) /\ parent[r] = NULL
        /\ type[r] \in Composite
        /\ ListOf(type, parent, branch, next, prev, r)
        /\ x \in Upward(r, next)
  BY RootOf
<1>2. Upward(r, next) = Composites(type, parent, r)
  BY <1>1 DEF ListOf
<1> DEFINE S == {c \in Upward(r, next) : x \in Upward(c, parent)}
<1>3. Composites(type, parent, x) = S
  <2>1. ASSUME NEW c \in Composites(type, parent, x)
        PROVE  c \in Composites(type, parent, r)
    BY <1>0, <1>1, <2>1, UpwardTransitive DEF Composites
  <2> QED
    BY <1>2, <2>1 DEF Composites
<1>4. \A c \in S : next[c] # NULL => next[c] \in S /\ next[c] # x
  BY <1>1, TailStays
<1>5. S \in SUBSET Item /\ x \in S
  BY <1>0, <1>1, UpwardProperties
<1>6. Upward(x, next) \subseteq S
  <2> HIDE DEF S
  <2> QED
    BY <1>0, <1>4, <1>5, UpwardProperties
<1>7. ASSUME NEW y \in S
      PROVE  y \in Upward(x, next)
  <2>1. CASE y = x
    BY <1>0, <2>1, UpwardProperties
  <2>2. CASE y # x
    <3> DEFINE T == S \ {x}
    <3>1. T \in SUBSET Item /\ y \in T /\ \A c \in T : next[c] # NULL => next[c] \in T
      BY <1>4, <1>5, <2>2
    <3>2. y \in Item
      BY <1>5
    <3> HIDE DEF T
    <3>3. Upward(y, next) \subseteq T
      BY <1>0, <3>1, <3>2, UpwardProperties
    <3>4. x \notin Upward(y, next)
      BY <3>3 DEF T
    <3> QED
      BY <1>0, <1>1, <3>4, UpwardLinear
  <2> QED
    BY <2>1, <2>2
<1> QED
  BY <1>3, <1>6, <1>7

\* What is above an item when x has left its parent.
LEMMA CutUpward ==
  ASSUME NEW pa \in [Item -> Item \cup {NULL}], NEW x \in Item, pa[x] # NULL,
         \E r \in Upward(x, pa) : pa[r] = NULL,
         NEW pb \in [Item -> Item \cup {NULL}], SetAt(pa, pb, x, NULL), NEW y \in Item
  PROVE  /\ x \in Upward(y, pb) <=> x \in Upward(y, pa)
         /\ x \notin Upward(y, pa) => Upward(y, pb) = Upward(y, pa)
         /\ x \in Upward(y, pa) =>
              \A a : a \in Upward(y, pb) <=> a \in Upward(y, pa) /\ a \notin Upward(pa[x], pa)
<1>1. pb[x] = NULL /\ pa[x] \in Item /\ SetAt(pb, pa, x, pa[x])
  BY DEF SetAt
<1>2. x \notin Upward(pa[x], pa)
  BY NoItemAboveParent
<1>3. /\ Upward(pa[x], pa) = Upward(pa[x], pb)
      /\ x \in Upward(y, pa) <=> x \in Upward(y, pb)
      /\ x \notin Upward(y, pb) => Upward(y, pa) = Upward(y, pb)
      /\ x \in Upward(y, pb) =>
           /\ Upward(y, pa) = Upward(y, pb) \cup Upward(pa[x], pb)
           /\ Upward(y, pb) \cap Upward(pa[x], pb) = {}
  BY <1>1, <1>2, JoinChains
<1> QED
  BY <1>3

\* The order of two items that are not below the one that leaves.
LEMMA CutKeepsOutside ==
  ASSUME NEW ty, NEW pa \in [Item -> Item \cup {NULL}], NEW br \in [Item -> Seq(Item)],
         NEW x \in Item, pa[x] # NULL, \E r \in Upward(x, pa) : pa[r] = NULL,
         NEW pb \in [Item -> Item \cup {NULL}], SetAt(pa, pb, x, NULL),
         NEW n \in DOMAIN br[pa[x]], br[pa[x]][n] = x,
         NEW bs, SetAt(br, bs, pa[x], RemoveAt(br[pa[x]], n)),
         NEW a \in Item, NEW b \in Item, x \notin Upward(a, pa), x \notin Upward(b, pa),
         Precedes(ty, pa, br, a, b)
  PROVE  Precedes(ty, pb, bs, a, b)
<1>1. Upward(a, pb) = Upward(a, pa) /\ Upward(b, pb) = Upward(b, pa)
  BY CutUpward
<1>2. CASE a # b /\ a \in Upward(b, pa)
  BY <1>1, <1>2 DEF Precedes
<1>3. CASE ~(a # b /\ a \in Upward(b, pa))
  <2> DEFINE At(s, p, i, j) == /\ ty[p] \in Living /\ i < j
                               /\ s[p][i] \in Upward(a, pa) /\ s[p][j] \in Upward(b, pa)
  <2>1. PICK p \in Item : \E i, j \in DOMAIN br[p] : At(br, p, i, j)
    BY <1>3 DEF Precedes
  <2>2. PICK i \in DOMAIN br[p], j \in DOMAIN br[p] : At(br, p, i, j)
    BY <2>1
  <2>3. \E k, m \in DOMAIN bs[p] : At(bs, p, k, m)
    <3>1. CASE p = pa[x]
      <4>1. br[p] \in Seq(Item) /\ n \in DOMAIN br[p] /\ i # n /\ j # n
        BY <2>2, <3>1
      <4>2. bs[p] = RemoveAt(br[p], n)
        BY <3>1 DEF SetAt
      <4>3. \E k, m \in DOMAIN bs[p] : k < m /\ bs[p][k] = br[p][i] /\ bs[p][m] = br[p][j]
        BY <2>2, <4>1, <4>2, RemoveAtOrder
      <4> QED
        BY <2>2, <4>3
    <3>2. CASE p # pa[x]
      <4>1. bs[p] = br[p]
        BY <3>2 DEF SetAt
      <4> QED
        BY <2>1, <4>1
    <3> QED
      BY <3>1, <3>2
  <2> QED
    BY <1>1, <2>3 DEF Precedes
<1> QED
  BY <1>2, <1>3

\* The order of two items below the one that leaves.
LEMMA CutKeepsInside ==
  ASSUME NEW ty, NEW pa \in [Item -> Item \cup {NULL}], NEW br \in [Item -> Seq(Item)],
         ArraysAgree(ty, pa, br), Climbs(ty, pa),
         NEW x \in Item, ty[x] \in Living, pa[x] # NULL,
         NEW pb \in [Item -> Item \cup {NULL}], SetAt(pa, pb, x, NULL),
         NEW bs, NEW new, SetAt(br, bs, pa[x], new),
         NEW a \in Item, NEW b \in Item, ty[b] \in Living,
         x \in Upward(a, pa), x \in Upward(b, pa),
         Precedes(ty, pa, br, a, b)
  PROVE  Precedes(ty, pb, bs, a, b)
<1> DEFINE p == pa[x]
<1>1. (\E r \in Upward(x, pa) : pa[r] = NULL) /\ (\E r \in Upward(b, pa) : pa[r] = NULL)
  BY DEF Climbs
<1>2. /\ \A u \in Upward(a, pa) : u \notin Upward(p, pa) => u \in Upward(a, pb)
      /\ \A u \in Upward(b, pa) : u \notin Upward(p, pa) => u \in Upward(b, pb)
  <2>1. \E r \in Upward(x, pa) : pa[r] = NULL
    BY <1>1
  <2>2. ASSUME NEW y \in Item, x \in Upward(y, pa), NEW u \in Upward(y, pa), u \notin Upward(pa[x], pa)
        PROVE  u \in Upward(y, pb)
    BY <2>1, <2>2, CutUpward
  <2> QED
    BY <2>2
<1>3. p \in Item /\ x \notin Upward(p, pa)
  BY <1>1, NoItemAboveParent
<1>4. ASSUME NEW u \in Item, x \in Upward(u, pa)
      PROVE  u \notin Upward(p, pa)
  BY <1>3, <1>4, UpwardTransitive
<1>5. CASE a # b /\ a \in Upward(b, pa)
  BY <1>2, <1>4, <1>5 DEF Precedes
<1>6. CASE ~(a # b /\ a \in Upward(b, pa))
  <2> DEFINE At(s, q, i, j) == /\ ty[q] \in Living /\ i < j
                               /\ s[q][i] \in Upward(a, pa) /\ s[q][j] \in Upward(b, pa)
  <2>1. PICK q \in Item : \E i, j \in DOMAIN br[q] : At(br, q, i, j)
    BY <1>6 DEF Precedes
  <2>2. PICK i \in DOMAIN br[q], j \in DOMAIN br[q] : At(br, q, i, j)
    BY <2>1
  <2> DEFINE u == br[q][i]
             w == br[q][j]
  <2>3. u \in Upward(a, pa) /\ w \in Upward(b, pa) /\ u \in Item /\ w \in Item
    BY <2>2, UpwardTransitive
  <2>4. u \in ToSet(br[q]) /\ w \in ToSet(br[q])
    BY DEF ToSet
  <2>5. pa[u] = q /\ pa[w] = q /\ q # NULL
    BY <2>2, <2>4, ItemAssumption DEF ArraysAgree
  <2>6. u # w
    <3>1. i # j
      <4>1. i \in Nat /\ j \in Nat
        <5>1. br[q] \in Seq(Item)
          OBVIOUS
        <5> QED
          BY <5>1, LenProperties
      <4> QED
        BY <2>2, <4>1
    <3> QED
      BY <3>1 DEF ArraysAgree
  <2> HIDE DEF u, w
\* Were the first above x, both would be above b.
  <2>7. u \notin Upward(x, pa)
    <3>1. SUFFICES ASSUME u \in Upward(x, pa) PROVE FALSE
      OBVIOUS
    <3>2. u \in Upward(b, pa)
      BY <3>1, UpwardTransitive
    <3> QED
      BY <1>1, <2>3, <2>5, <2>6, <3>2, SiblingsApart
  <2>8. x \in Upward(u, pa) /\ x # u
    <3>1. u \in Upward(u, pa)
      BY <2>3, UpwardProperties
    <3> QED
      BY <2>3, <2>7, <3>1, UpwardLinear
  <2>9. x \in Upward(q, pa)
    <3>1. Upward(u, pa) = {u} \cup Upward(q, pa)
      BY <2>3, <2>5, UpwardStep
    <3> QED
      BY <2>8, <3>1
  <2>10. x \in Upward(w, pa)
    BY <2>3, <2>5, <2>9, UpwardStep
  <2>11. u \in Upward(a, pb) /\ w \in Upward(b, pb)
    BY <1>2, <1>4, <2>3, <2>8, <2>10
  <2>12. bs[q] = br[q]
    BY <1>3, <2>9 DEF SetAt
  <2> DEFINE In(k, m) == /\ ty[q] \in Living /\ k < m
                         /\ bs[q][k] \in Upward(a, pb) /\ bs[q][m] \in Upward(b, pb)
  <2>13. In(i, j) /\ i \in DOMAIN bs[q] /\ j \in DOMAIN bs[q]
    BY <2>2, <2>11, <2>12 DEF u, w
  <2>14. \E k, m \in DOMAIN bs[q] : In(k, m)
    BY <2>13
  <2> QED
    BY <2>14 DEF Precedes
<1> QED
  BY <1>5, <1>6

\* What the backward pointer of a branch leads to.
LEMMA PrevOfBranch ==
  ASSUME ListInv, NEW x \in Item, type[x] \in Composite, parent[x] # NULL,
         NEW r \in Item, parent[r] = NULL, ListOf(type, parent, branch, next, prev, r),
         x \in Upward(r, next)
  PROVE  prev[x] \in Upward(r, next) /\ prev[x] \in Item /\ next[prev[x]] = x
<1>1. PICK q \in Upward(r, next) : next[q] = x
  BY UpwardLast, ListInvFacts
<1>2. q \in Item
  BY UpwardTransitive, ListInvFacts
<1>3. prev[x] = q
  BY <1>1, ItemAssumption DEF ListOf
<1> QED
  BY <1>1, <1>2, <1>3

\* Cut in two before x, the list of a tree is those of two trees.
LEMMA CutLists ==
  ASSUME ListInv, NEW x \in Item, type[x] \in Composite, parent[x] # NULL, NoneFollows(x),
         NEW pb \in [Item -> Item \cup {NULL}], SetAt(parent, pb, x, NULL),
         NEW n \in DOMAIN branch[parent[x]], branch[parent[x]][n] = x,
         NEW bs, SetAt(branch, bs, parent[x], RemoveAt(branch[parent[x]], n)),
         NEW nx \in [Item -> Item \cup {NULL}], SetAt(next, nx, prev[x], NULL),
         NEW pv, SetAt(prev, pv, x, NULL)
  PROVE  Lists(type, pb, bs, nx, pv)
<1>0. /\ parent \in [Item -> Item \cup {NULL}]
      /\ branch \in [Item -> Seq(Item)]
      /\ next \in [Item -> Item \cup {NULL}]
      /\ ArraysAgree(type, parent, branch)
      /\ Climbs(type, parent)
      /\ Lists(type, parent, branch, next, prev)
  BY ListInvFacts
<1>1. PICK r \in Item :
        /\ r \in Upward(x, parent) /\ parent[r] = NULL
        /\ type[r] \in Composite
        /\ ListOf(type, parent, branch, next, prev, r)
        /\ x \in Upward(r, next)
  BY RootOf
<1> DEFINE q == prev[x]
<1>2. q \in Upward(r, next) /\ q \in Item /\ next[q] = x
  BY <1>1, PrevOfBranch
<1>3. Upward(x, next) = Composites(type, parent, x)
  BY TailIsTree
<1>4. Upward(r, next) = Composites(type, parent, r)
  BY <1>1 DEF ListOf
<1> HIDE DEF q
<1>5. /\ pb[x] = NULL /\ nx[q] = NULL /\ pv[x] = NULL
      /\ \A i \in Item : i # x => pb[i] = parent[i] /\ pv[i] = prev[i]
      /\ \A i \in Item : i # q => nx[i] = next[i]
  BY DEF SetAt, q
\* Which trees there are.
<1>6. \E s \in Upward(x, parent) : parent[s] = NULL
  BY <1>1
<1>7. ASSUME NEW y \in Item
      PROVE  /\ x \in Upward(y, pb) <=> x \in Upward(y, parent)
             /\ x \notin Upward(y, parent) => Upward(y, pb) = Upward(y, parent)
             /\ x \in Upward(y, parent) =>
                  \A a : a \in Upward(y, pb) <=> a \in Upward(y, parent) /\ a \notin Upward(parent[x], parent)
  <2>1. parent \in [Item -> Item \cup {NULL}]
    BY <1>0
  <2> QED
    BY <1>6, <2>1, CutUpward
<1>8. Composites(type, pb, x) = Composites(type, parent, x)
  BY <1>7 DEF Composites
<1>9. r # x /\ r \in Upward(parent[x], parent)
  <2>1. r # x
    BY <1>1
  <2>2. Upward(x, parent) = {x} \cup Upward(parent[x], parent)
    BY <1>0, UpwardStep
  <2> QED
    BY <1>1, <2>1, <2>2
<1>10. Composites(type, pb, r) = Composites(type, parent, r) \ Composites(type, parent, x)
  BY <1>7, <1>9 DEF Composites
<1>11. ASSUME NEW s \in Item, parent[s] = NULL, s # r, NEW y \in Item, s \in Upward(y, parent)
       PROVE  x \notin Upward(y, parent)
  <2>1. x \in Upward(y, parent) => r \in Upward(y, parent)
    BY <1>0, <1>1, UpwardTransitive
  <2> QED
    BY <1>0, <1>1, <1>11, <2>1, RootUnique
<1>12. ASSUME NEW s \in Item, parent[s] = NULL, s # r, s # x
       PROVE  Composites(type, pb, s) = Composites(type, parent, s)
  <2>1. \A y \in Item : s \in Upward(y, parent) => s \in Upward(y, pb)
    BY <1>7, <1>11, <1>12
  <2>2. \A y \in Item : s \in Upward(y, pb) => s \in Upward(y, parent)
    BY <1>7
  <2> QED
    BY <2>1, <2>2 DEF Composites
\* Which lists there are.
<1>13. q \notin Upward(x, next)
  <2>1. x \in Upward(q, parent) => next[q] # x
    BY <1>1, <1>2, TailStays, ItemAssumption
  <2> QED
    BY <1>2, <1>3, <2>1 DEF Composites
<1>14. /\ Upward(x, nx) = Upward(x, next)
       /\ \A y \in Item : q \notin Upward(y, next) => Upward(y, nx) = Upward(y, next)
       /\ q \in Upward(r, nx)
       /\ Upward(r, next) = Upward(r, nx) \cup Upward(x, next)
       /\ Upward(r, nx) \cap Upward(x, next) = {}
  <2>1. next \in [Item -> Item \cup {NULL}] /\ SetAt(nx, next, q, x) /\ nx[q] = NULL /\ q \in Item
    BY <1>0, <1>2, <1>5 DEF SetAt
  <2>2. \A y \in Item :
          /\ Upward(x, next) = Upward(x, nx)
          /\ q \in Upward(y, next) <=> q \in Upward(y, nx)
          /\ q \notin Upward(y, nx) => Upward(y, next) = Upward(y, nx)
          /\ q \in Upward(y, nx) => /\ Upward(y, next) = Upward(y, nx) \cup Upward(x, nx)
                                    /\ Upward(y, nx) \cap Upward(x, nx) = {}
    BY <1>13, <2>1, JoinChains
  <2> QED
    BY <1>2, <2>2
\* Which links are left.
<1>15. ASSUME NEW s \in Item, ListOf(type, parent, branch, next, prev, s), 
              NEW a \in Upward(s, next), nx[a] # NULL
       PROVE  /\ nx[a] = next[a] /\ pv[nx[a]] = a /\ a \in Item /\ next[a] \in Item
              /\ next[a] # NULL /\ Precedes(type, parent, branch, a, next[a])
  <2>1. a \in Item
    BY <1>0, UpwardTransitive
  <2>2. a # q /\ nx[a] = next[a] /\ next[a] # NULL /\ next[a] \in Item
    BY <1>0, <1>5, <1>15, <2>1
  <2>3. prev[next[a]] = a /\ Precedes(type, parent, branch, a, next[a])
    BY <1>15, <2>2 DEF ListOf
  <2>4. next[a] # x
    BY <2>2, <2>3 DEF q
  <2> QED
    BY <1>5, <2>1, <2>2, <2>3, <2>4
<1>16. ASSUME NEW a \in Item, NEW b \in Item, Precedes(type, parent, branch, a, b),
              x \notin Upward(a, parent), x \notin Upward(b, parent)
       PROVE  Precedes(type, pb, bs, a, b)
  <2>1. parent \in [Item -> Item \cup {NULL}] /\ branch \in [Item -> Seq(Item)]
    BY <1>0
  <2> QED
    BY <1>6, <1>16, <2>1, CutKeepsOutside
<1>17. ASSUME NEW a \in Item, NEW b \in Item, Precedes(type, parent, branch, a, b),
              type[b] \in Living, x \in Upward(a, parent), x \in Upward(b, parent)
       PROVE  Precedes(type, pb, bs, a, b)
  <2>1. /\ parent \in [Item -> Item \cup {NULL}] /\ branch \in [Item -> Seq(Item)]
        /\ ArraysAgree(type, parent, branch) /\ Climbs(type, parent)
    BY <1>0
  <2>2. type[x] \in Living
    BY DEF Living
  <2> QED
    BY <1>17, <2>1, <2>2, CutKeepsInside
<1>18. ListOf(type, pb, bs, nx, pv, x)
  <2>1. \E e \in Upward(x, nx) : nx[e] = NULL
    <3>1. PICK e \in Upward(r, next) : next[e] = NULL
      BY <1>1 DEF ListOf
    <3>2. e \in Upward(x, next) /\ e \in Item
      <4>1. e \in Item
        BY <1>0, <3>1, UpwardTransitive
      <4>2. x \in Upward(e, next) => x = e
        <5>1. next \in [Item -> Item \cup {NULL}]
          BY <1>0
        <5>2. Upward(e, next) = {e}
          BY <3>1, <4>1, <5>1, UpwardStep
        <5> QED
          BY <5>2
      <4>3. e \in Upward(e, next)
        BY <1>0, <4>1, UpwardProperties
      <4> QED
        BY <1>0, <1>1, <3>1, <4>1, <4>2, <4>3, UpwardLinear
    <3>3. nx[e] = NULL
      BY <1>5, <3>1, <3>2
    <3> QED
      BY <1>14, <3>2, <3>3
  <2>2. ASSUME NEW a \in Upward(x, nx), nx[a] # NULL
        PROVE  pv[nx[a]] = a /\ Precedes(type, pb, bs, a, nx[a])
    <3>1. a \in Upward(x, next) /\ a \in Upward(r, next)
      BY <1>14
    <3>2. /\ nx[a] = next[a] /\ pv[nx[a]] = a /\ a \in Item /\ next[a] \in Item
          /\ next[a] # NULL /\ Precedes(type, parent, branch, a, next[a])
      BY <1>1, <1>15, <2>2, <3>1
    <3>3. x \in Upward(a, parent)
      BY <1>3, <3>1 DEF Composites
    <3>4. x \in Upward(next[a], parent) /\ next[a] \in Upward(r, next)
      BY <1>1, <3>1, <3>2, <3>3, TailStays
    <3>5. type[next[a]] \in Living
      BY <1>4, <3>4 DEF Composites, Living
    <3> QED
      BY <1>17, <3>2, <3>3, <3>4, <3>5
  <2> QED
    BY <1>3, <1>5, <1>8, <1>14, <2>1, <2>2 DEF ListOf
<1>19. ListOf(type, pb, bs, nx, pv, r)
  <2>1. Upward(r, nx) = Composites(type, pb, r)
    BY <1>3, <1>4, <1>10, <1>14
  <2>2. pv[r] = NULL /\ \E e \in Upward(r, nx) : nx[e] = NULL
    BY <1>1, <1>5, <1>9, <1>14 DEF ListOf
  <2>3. \A a \in Upward(r, nx) : a \in Upward(r, next) /\ a \in Item /\ x \notin Upward(a, parent)
    BY <1>3, <1>4, <1>14 DEF Composites
  <2>4. ASSUME NEW a \in Upward(r, nx), nx[a] # NULL
        PROVE  pv[nx[a]] = a /\ Precedes(type, pb, bs, a, nx[a])
    <3>1. /\ nx[a] = next[a] /\ pv[nx[a]] = a /\ a \in Item /\ next[a] \in Item
          /\ Precedes(type, parent, branch, a, next[a])
      BY <1>1, <1>15, <2>3, <2>4
    <3>2. nx[a] \in Upward(r, nx)
      BY <2>4, UpwardProperties
    <3> QED
      BY <1>16, <2>3, <3>1, <3>2
  <2> QED
    BY <2>1, <2>2, <2>4 DEF ListOf
<1>20. ASSUME NEW s \in Item, type[s] \in Composite, pb[s] = NULL, s # x, s # r
       PROVE  ListOf(type, pb, bs, nx, pv, s)
  <2>1. parent[s] = NULL
    BY <1>5, <1>20
  <2>2. ListOf(type, parent, branch, next, prev, s)
    BY <1>0, <1>20, <2>1 DEF Lists
  <2>3. Upward(s, next) = Composites(type, parent, s)
    BY <2>2 DEF ListOf
  <2>4. q \notin Upward(s, next)
    BY <1>0, <1>1, <1>2, <1>4, <1>20, <2>1, <2>3, RootsApart
  <2>5. Upward(s, nx) = Upward(s, next)
    BY <1>14, <2>4
  <2>6. pv[s] = NULL
    BY <1>5, <1>20, <2>2 DEF ListOf
  <2>7. \A a \in Upward(s, next) : a \in Item /\ a # q /\ x \notin Upward(a, parent)
    BY <1>11, <1>20, <2>1, <2>3, <2>4 DEF Composites
  <2>8. \E e \in Upward(s, nx) : nx[e] = NULL
    BY <1>5, <2>2, <2>5, <2>7 DEF ListOf
  <2>9. ASSUME NEW a \in Upward(s, nx), nx[a] # NULL
        PROVE  pv[nx[a]] = a /\ Precedes(type, pb, bs, a, nx[a])
    <3>1. /\ nx[a] = next[a] /\ pv[nx[a]] = a /\ a \in Item /\ next[a] \in Item
          /\ Precedes(type, parent, branch, a, next[a])
      BY <1>15, <2>2, <2>5, <2>9
    <3>2. nx[a] \in Upward(s, nx)
      BY <2>9, UpwardProperties
    <3> QED
      BY <1>16, <2>5, <2>7, <3>1, <3>2
  <2>10. Upward(s, nx) = Composites(type, pb, s)
    BY <1>12, <1>20, <2>1, <2>3, <2>5
  <2> QED
    BY <2>6, <2>8, <2>9, <2>10 DEF ListOf
<1> QED
  BY <1>18, <1>19, <1>20 DEF Lists

------------------------------------------------------------------------------
(* The calls.                                                              *)

\* The walk of jscon_append() comes to the end of the list of item.
LEMMA AppendWalk ==
  ASSUME IsFiniteSet(Item), ListInv, NEW p \in Item, NEW c \in Item,
         type[p] \in Composite, parent[p] = NULL, parent[c] = NULL, c \notin Upward(p, parent),
         NEW up \in [Item -> Item \cup {NULL}], SetAt(parent, up, c, p)
  PROVE  /\ Deepest(p, up).outcome = "ok"
         /\ Deepest(p, up).comp_last \in Upward(p, next)
         /\ next[Deepest(p, up).comp_last] = NULL
<1>0. /\ parent \in [Item -> Item \cup {NULL}]
      /\ branch \in [Item -> Seq(Item)]
      /\ next \in [Item -> Item \cup {NULL}]
      /\ ArraysAgree(type, parent, branch)
  BY ListInvFacts
<1>1. ListOf(type, parent, branch, next, prev, p)
  BY ListInvFacts DEF Lists
<1>2. c # p
  BY <1>0, UpwardProperties
<1>3. ASSUME NEW y \in Upward(p, next)
      PROVE  p \in Upward(y, up) /\ \A a \in Upward(y, up) : Alive(a)
  <2>1. y \in Item /\ type[y] \in Composite /\ p \in Upward(y, parent)
    BY <1>1 DEF ListOf, Composites
  <2>2. c \notin Upward(y, parent)
    BY <1>0, <1>2, <2>1, RootUnique
  <2>3. \A i \in Upward(y, parent) : up[i] = parent[i]
    BY <1>0, <2>1, <2>2, UpwardProperties DEF SetAt
  <2>4. Upward(y, up) = Upward(y, parent)
    BY <1>0, <2>1, <2>3, UpwardSame
  <2>5. \A a \in Upward(y, parent) : type[a] \in Living
    BY <1>0, <2>1, AllAlive DEF Living
  <2> QED
    BY <2>1, <2>4, <2>5 DEF Alive
<1>4. \E e \in Upward(p, next) : next[e] = NULL
  BY <1>1 DEF ListOf
<1> QED
  BY <1>0, <1>3, <1>4, DeepestOfList

\* jscon_append() with a client that appends composites to roots.
LEMMA AppendListInv ==
  ASSUME IsFiniteSet(Item), Client \subseteq {"oom"}, ListInv, NEW p \in Item, NEW c \in Item,
         jscon_append(p, c)
  PROVE  /\ Lists(type', parent', branch', next', prev')
         /\ UnbornUnlisted(type', next', prev')
         /\ status' = status
<1> DEFINE up == [parent EXCEPT ![c] = p]
           l == Deepest(p, up).comp_last
<1>0. /\ parent \in [Item -> Item \cup {NULL}]
      /\ branch \in [Item -> Seq(Item)]
      /\ next \in [Item -> Item \cup {NULL}]
      /\ prev \in [Item -> Item \cup {NULL}]
      /\ ArraysAgree(type, parent, branch)
      /\ Lists(type, parent, branch, next, prev)
      /\ UnbornUnlisted(type, next, prev)
  BY ListInvFacts DEF ListInv
<1>1. /\ type[p] \in Composite /\ type[c] \in Living
      /\ parent[c] = NULL /\ c \notin Upward(p, parent)
      /\ type[c] \in Composite => parent[p] = NULL
  BY DEF jscon_append, CanAppend, IsComposite, Alive, IsRoot
<1>2. up \in [Item -> Item \cup {NULL}] /\ SetAt(parent, up, c, p)
  BY <1>0 DEF SetAt
<1>3. CASE type[c] \notin Composite
  <2>1. /\ parent' = up
        /\ branch' = [branch EXCEPT ![p] = Append(@, c)]
        /\ UNCHANGED <<type, next, prev, status>>
    BY <1>3 DEF jscon_append, IsComposite, links
  <2>2. SetAt(branch, branch', p, Append(branch[p], c))
    BY <1>0, <2>1 DEF SetAt
  <2> HIDE DEF up
  <2>3. Lists(type, up, branch', next, prev)
    BY <1>0, <1>1, <1>2, <1>3, <2>2, AppendLeafLists
  <2> QED
    BY <1>0, <2>1, <2>3
<1>4. CASE type[c] \in Composite
  <2>1. /\ Deepest(p, up).outcome = "ok"
        /\ l \in Upward(p, next)
        /\ next[l] = NULL
    <3> HIDE DEF up
    <3> QED
      BY <1>1, <1>2, <1>4, AppendWalk
  <2>2. /\ parent' = up
        /\ branch' = [branch EXCEPT ![p] = Append(@, c)]
        /\ next' = [next EXCEPT ![l] = c]
        /\ prev' = [prev EXCEPT ![c] = l]
        /\ UNCHANGED <<type, status>>
    BY <1>4, <2>1 DEF jscon_append, IsComposite
  <2> HIDE DEF up, l
  <2>3. l \in Item
    BY <1>0, <2>1, UpwardTransitive
  <2>4. /\ SetAt(branch, branch', p, Append(branch[p], c))
        /\ SetAt(next, next', l, c)
        /\ SetAt(prev, prev', c, l)
        /\ next' \in [Item -> Item \cup {NULL}]
    BY <1>0, <2>2, <2>3 DEF SetAt
  <2>5. Lists(type, up, branch', next', prev')
    BY <1>1, <1>2, <1>4, <2>1, <2>4, AppendCompositeLists
  <2>6. type[l] \in Composite
    <3>1. ListOf(type, parent, branch, next, prev, p)
      BY <1>0, <1>1, <1>4 DEF Lists
    <3> QED
      BY <2>1, <3>1 DEF ListOf, Composites
  <2>7. UnbornUnlisted(type, next', prev')
    BY <1>0, <1>4, <2>4, <2>6 DEF UnbornUnlisted, SetAt, Composite
  <2> QED
    BY <2>2, <2>5, <2>7
<1> QED
  BY <1>3, <1>4

\* jscon_dettach() and the first half of jscon_delete(), with a client that
\* dettaches composites that none follows.
LEMMA UnlinkLists ==
  ASSUME IsFiniteSet(Item), Client \subseteq {"oom"}, ListInv, NEW x \in Item, CanDettach(x)
  PROVE  /\ DettachOutcomes(x) = {"ok"}
         /\ Unlink(x) => /\ Lists(type, parent', branch', next', prev')
                         /\ UnbornUnlisted(type, next', prev')
<1> DEFINE l == Deepest(x, parent).comp_last
           n == Removed(x)
           q == prev[x]
<1>0. /\ parent \in [Item -> Item \cup {NULL}]
      /\ branch \in [Item -> Seq(Item)]
      /\ next \in [Item -> Item \cup {NULL}]
      /\ prev \in [Item -> Item \cup {NULL}]
      /\ ArraysAgree(type, parent, branch)
      /\ IInv
      /\ UnbornUnlisted(type, next, prev)
  BY ListInvFacts DEF ListInv, ForestInv
<1>1. type[x] \in Composite /\ type[x] \in Living /\ parent[x] # NULL /\ NoneFollows(x)
  BY DEF CanDettach, IsComposite, Living, IsRoot
<1>2. PICK r \in Item :
        /\ r \in Upward(x, parent) /\ parent[r] = NULL
        /\ type[r] \in Composite
        /\ ListOf(type, parent, branch, next, prev, r)
        /\ x \in Upward(r, next)
  BY <1>1, RootOf
<1>3. q \in Upward(r, next) /\ q \in Item /\ next[q] = x
  BY <1>1, <1>2, PrevOfBranch
<1>4. type[q] \in Composite
  BY <1>2, <1>3 DEF ListOf, Composites
<1>5. Upward(x, next) = Composites(type, parent, x)
  BY <1>1, TailIsTree
<1>6. ASSUME NEW y \in Upward(x, next)
      PROVE  x \in Upward(y, parent) /\ \A a \in Upward(y, parent) : Alive(a)
  <2>1. y \in Item /\ type[y] \in Living /\ x \in Upward(y, parent)
    BY <1>5 DEF Composites, Living
  <2>2. \A a \in Upward(y, parent) : type[a] \in Living
    BY <1>0, <2>1, AllAlive
  <2> QED
    BY <2>1, <2>2 DEF Alive
<1>7. \E e \in Upward(x, next) : next[e] = NULL
  <2>1. PICK e \in Upward(r, next) : next[e] = NULL
    BY <1>2 DEF ListOf
  <2>2. e \in Item
    BY <1>0, <1>2, UpwardTransitive
  <2>3. Upward(e, next) = {e}
    BY <1>0, <2>1, <2>2, UpwardStep
  <2>4. x \in Upward(x, next)
    BY <1>0, UpwardProperties
  <2>5. e \in Upward(x, next) \/ x \in Upward(e, next)
    BY <1>0, <1>2, <2>1, UpwardLinear
  <2> QED
    BY <2>1, <2>3, <2>4, <2>5
<1>8. /\ Deepest(x, parent).outcome = "ok"
      /\ l \in Upward(x, next)
      /\ next[l] = NULL
  BY <1>0, <1>6, <1>7, DeepestOfList
<1>9. DettachOutcomes(x) = {"ok"}
  BY <1>1, <1>3, <1>4, <1>8, ItemAssumption DEF DettachOutcomes, IsComposite, Alive, Living
<1>10. ASSUME Unlink(x)
       PROVE  /\ Lists(type, parent', branch', next', prev')
              /\ UnbornUnlisted(type, next', prev')
  <2>1. parent[x] \in Item /\ n \in DOMAIN branch[parent[x]] /\ branch[parent[x]][n] = x
    BY <1>0, <1>1, RemovedIsItem
  <2>2. l \in Item
    BY <1>0, <1>8, UpwardTransitive
  <2>3. /\ branch' = [branch EXCEPT ![parent[x]] = RemoveAt(@, n)]
        /\ parent' = [parent EXCEPT ![x] = NULL]
        /\ next' = [[next EXCEPT ![q] = next[l]] EXCEPT ![l] = NULL]
        /\ prev' = [prev EXCEPT ![x] = NULL]
    BY <1>10 DEF Unlink, Without, Splice
  <2> HIDE DEF n, l, q
  <2>4. /\ SetAt(branch, branch', parent[x], RemoveAt(branch[parent[x]], n))
        /\ SetAt(parent, parent', x, NULL)
        /\ SetAt(prev, prev', x, NULL)
        /\ parent' \in [Item -> Item \cup {NULL}]
    BY <1>0, <2>1, <2>3 DEF SetAt
  <2>5. SetAt(next, next', q, NULL) /\ next' \in [Item -> Item \cup {NULL}]
    BY <1>0, <1>3, <1>8, <2>2, <2>3 DEF SetAt
  <2>6. Lists(type, parent', branch', next', prev')
    <3>1. SetAt(next, next', prev[x], NULL)
      BY <2>5 DEF q
    <3> QED
      BY <1>1, <2>1, <2>4, <2>5, <3>1, CutLists
  <2>7. UnbornUnlisted(type, next', prev')
    BY <1>0, <1>1, <1>3, <1>4, <2>4, <2>5 DEF UnbornUnlisted, SetAt, Composite
  <2> QED
    BY <2>6, <2>7
<1> QED
  BY <1>9, <1>10

\* A tree whose branches know their parent is freed item by item, each once.
LEMMA TreeFreesOnce ==
  ASSUME NEW pa \in [Item -> Item \cup {NULL}], NEW br \in [Item -> Seq(Item)],
         ArraysAgree(type, pa, br), NEW r \in Item, type[r] \in Living, pa[r] = NULL
  PROVE  FreesOnce(r, br)
<1> DEFINE slots == UNION {{<<i, n>> : n \in DOMAIN br[i]} : i \in Below(r, br)}
<1>1. \A i \in Below(r, br) : i \in Item /\ type[i] \in Living
  BY AllAlive, BelowProperties
<1>2. ASSUME NEW s \in slots
      PROVE  /\ s[1] \in Item /\ type[s[1]] \in Living /\ s[2] \in DOMAIN br[s[1]]
             /\ s = <<s[1], s[2]>>
             /\ pa[br[s[1]][s[2]]] = s[1]
  <2>1. PICK i \in Below(r, br) : \E n \in DOMAIN br[i] : s = <<i, n>>
    BY <1>2
  <2>2. PICK n \in DOMAIN br[i] : s = <<i, n>>
    BY <2>1
  <2>3. br[i][n] \in ToSet(br[i])
    BY DEF ToSet
  <2>4. i \in Item /\ type[i] \in Living /\ pa[br[i][n]] = i
    BY <1>1, <2>3 DEF ArraysAgree
  <2> QED
    BY <2>2, <2>4
<1> HIDE DEF slots
<1>3. \A s \in slots : br[s[1]][s[2]] # r
  BY <1>2, ItemAssumption
<1>4. ASSUME NEW s \in slots, NEW t \in slots, br[s[1]][s[2]] = br[t[1]][t[2]]
      PROVE  s = t
  <2>1. s[1] = t[1]
    BY <1>2, <1>4
  <2>2. s[2] = t[2]
    BY <1>2, <1>4, <2>1 DEF ArraysAgree
  <2> QED
    BY <1>2, <2>1, <2>2
<1>5. \A i \in Below(r, br) : Alive(i)
  BY <1>1 DEF Alive
<1> QED
  BY <1>3, <1>4, <1>5 DEF FreesOnce, slots

\* What is freed is unlisted no more than it was unborn.
LEMMA FreeUnborn ==
  ASSUME NEW ty, NEW nx, NEW pv, UnbornUnlisted(ty, nx, pv), NEW gone
  PROVE  UnbornUnlisted([i \in Item |-> IF i \in gone THEN "freed" ELSE ty[i]], nx, pv)
BY DEF UnbornUnlisted

\* jscon_destroy() comes to the root and frees its tree.
LEMMA DestroyListInv ==
  ASSUME ListInv, NEW x \in Item, jscon_destroy(x)
  PROVE  /\ Lists(type', parent', branch', next', prev')
         /\ UnbornUnlisted(type', next', prev')
         /\ status' = status
<1> DEFINE r == Root(x)
           gone == Below(r, branch)
<1>0. /\ parent \in [Item -> Item \cup {NULL}]
      /\ branch \in [Item -> Seq(Item)]
      /\ ArraysAgree(type, parent, branch)
      /\ Climbs(type, parent)
      /\ Lists(type, parent, branch, next, prev)
      /\ UnbornUnlisted(type, next, prev)
  BY ListInvFacts DEF ListInv
<1>1. type[x] \in Living
  BY DEF jscon_destroy, Alive
<1>2. \A a \in Upward(x, parent) : type[a] \in Living
  BY <1>0, <1>1, AllAlive
<1>3. \E a \in Upward(x, parent) : IsRoot(a)
  BY <1>0, <1>1 DEF Climbs, IsRoot
<1>4. r \in Upward(x, parent) /\ parent[r] = NULL
  BY <1>3 DEF Root, IsRoot
<1>5. r \in Item /\ type[r] \in Living
  BY <1>0, <1>2, <1>4, UpwardTransitive
<1> HIDE DEF r
<1>6. FreesOnce(r, branch)
  BY <1>0, <1>4, <1>5, TreeFreesOnce
<1>7. FreeAll(gone) /\ UNCHANGED <<parent, branch, next, prev, status>>
  BY <1>2, <1>3, <1>6 DEF jscon_destroy, Alive, r, nodes, links
<1>8. type' = [i \in Item |-> IF i \in gone THEN "freed" ELSE type[i]]
  BY <1>7 DEF FreeAll
<1>9. Lists(type', parent, branch, next, prev)
  BY <1>0, <1>4, <1>5, <1>8, FreeLists
<1> HIDE DEF gone
<1>10. UnbornUnlisted(type', next, prev)
  BY <1>0, <1>8, FreeUnborn
<1> QED
  BY <1>7, <1>9, <1>10

\* jscon_delete() cuts the item out and frees what it then is the root of.
LEMMA DeleteListInv ==
  ASSUME IsFiniteSet(Item), Client \subseteq {"oom"}, ListInv,
         NEW p \in Item, NEW k \in DOMAIN table[p], jscon_delete(p, k)
  PROVE  /\ Lists(type', parent', branch', next', prev')
         /\ UnbornUnlisted(type', next', prev')
         /\ status' = status
<1> DEFINE x == table[p][k]
           gone == Below(x, branch')
<1>1. x \in Item /\ CanDettach(x) /\ IInv
  BY DEF ListInv, ForestInv, IInv, TypeOK, jscon_delete
<1>2. \/ Fault("crash") /\ ~FreesOnce(x, Without(x))
      \/ Unlink(x) /\ FreeAll(gone) /\ UNCHANGED <<key, status>>
  <2>1. DettachOutcomes(x) = {"ok"}
    BY <1>1, UnlinkLists
  <2> QED
    BY <2>1 DEF jscon_delete
<1> HIDE DEF x
<1>3. type[x] \in Living /\ parent[x] # NULL
  BY <1>1 DEF CanDettach, Alive, IsRoot
<1>4. FreesOnce(x, Without(x))
  <2>1. /\ parent[x] \in Item
        /\ Removed(x) \in DOMAIN branch[parent[x]]
        /\ branch[parent[x]][Removed(x)] = x
    BY <1>1, <1>3, RemovedIsItem
  <2> DEFINE pb == [parent EXCEPT ![x] = NULL]
             bs == Without(x)
  <2>2. /\ pb \in [Item -> Item \cup {NULL}] /\ pb[x] = NULL
        /\ bs \in [Item -> Seq(Item)]
        /\ ArraysAgree(type, pb, bs)
    BY <1>1, <1>3, WithoutKeepsArrays
  <2> HIDE DEF pb, bs
  <2>3. FreesOnce(x, bs)
    BY <1>1, <1>3, <2>2, TreeFreesOnce
  <2> QED
    BY <2>3 DEF bs
<1>5. Unlink(x) /\ FreeAll(gone) /\ status' = status
  BY <1>2, <1>4
<1>6. /\ Lists(type, parent', branch', next', prev')
      /\ UnbornUnlisted(type, next', prev')
  BY <1>1, <1>5, UnlinkLists
<1>7. /\ ArraysAgree(type, parent', branch')
      /\ branch' \in [Item -> Seq(Item)]
      /\ parent' \in [Item -> Item \cup {NULL}]
      /\ parent'[x] = NULL
  BY <1>1, <1>3, <1>5, UnlinkKeepsArrays
<1>8. type' = [i \in Item |-> IF i \in gone THEN "freed" ELSE type[i]]
  BY <1>5 DEF FreeAll
<1>9. Lists(type', parent', branch', next', prev')
  BY <1>1, <1>3, <1>6, <1>7, <1>8, FreeLists
<1> HIDE DEF gone
<1>10. UnbornUnlisted(type', next', prev')
  BY <1>6, <1>8, FreeUnborn
<1> QED
  BY <1>5, <1>9, <1>10

\* Every call preserves the invariant.
LEMMA NextListInv ==
  ASSUME IsFiniteSet(Item), Client \subseteq {"oom"}, ListInv, [Next]_vars
  PROVE  ListInv'
<1> DEFINE Kept == /\ Lists(type', parent', branch', next', prev')
                   /\ UnbornUnlisted(type', next', prev')
                   /\ status' = status
<1>0. /\ Lists(type, parent, branch, next, prev)
      /\ UnbornUnlisted(type, next, prev)
      /\ DOMAIN type = Item
      /\ \A p \in Item : \A k \in DOMAIN table[p] : table[p][k] \in Item
  BY DEF ListInv, ForestInv, IInv, TypeOK
<1>1. ForestInv'
  <2>1. "duplicate_keys" \notin Client /\ ForestInv
    BY DEF ListInv
  <2> QED
    BY <2>1, NextForestInv
<1>2. ASSUME NEW i \in Item, NEW t \in Kind, NEW k \in Name \cup {NULL}, jscon_new(i, t, k)
      PROVE  Kept
  BY <1>2, NewLists DEF jscon_new
<1>3. ASSUME NEW p \in Item, NEW c \in Item, jscon_append(p, c)
      PROVE  Kept
  BY <1>3, AppendListInv
<1>4. ASSUME NEW p \in Item, NEW c \in Item, jscon_append_oom(p, c)
      PROVE  Kept
  BY <1>0, <1>4 DEF jscon_append_oom, nodes, links
<1>5. ASSUME NEW x \in Item, jscon_dettach(x)
      PROVE  Kept
  <2>1. CanDettach(x) /\ DettachOutcomes(x) = {"ok"}
    BY <1>5, UnlinkLists DEF jscon_dettach
  <2>2. Unlink(x) /\ UNCHANGED <<type, key, status>>
    BY <1>5, <2>1 DEF jscon_dettach
  <2>3. /\ Lists(type, parent', branch', next', prev')
        /\ UnbornUnlisted(type, next', prev')
    BY <2>1, <2>2, UnlinkLists
  <2> QED
    BY <2>2, <2>3
<1>6. ASSUME NEW x \in Item, jscon_destroy(x)
      PROVE  Kept
  BY <1>6, DestroyListInv
<1>7. ASSUME NEW p \in Item, NEW k \in DOMAIN table[p], jscon_delete(p, k)
      PROVE  Kept
  BY <1>7, DeleteListInv
<1>8. ASSUME NEW p \in Item, NEW k \in DOMAIN table[p], jscon_delete_oom(p, k)
      PROVE  Kept
  BY <1>0, <1>8, DestroyListInv DEF jscon_delete_oom
<1>9. ASSUME UNCHANGED vars
      PROVE  Kept
  BY <1>0, <1>9 DEF vars, nodes, links
<1>10. Kept
  BY <1>2, <1>3, <1>4, <1>5, <1>6, <1>7, <1>8, <1>9 DEF Next
<1>11. NoFault'
  BY <1>10 DEF NoFault, ListInv
<1> QED
  BY <1>1, <1>10, <1>11 DEF ListInv

\* The lists of a forest are its composites as ListIsPreorder has them.
LEMMA ListsInOrder ==
  ASSUME parent \in [Item -> Item \cup {NULL}], branch \in [Item -> Seq(Item)],
         ArraysAgree(type, parent, branch), Lists(type, parent, branch, next, prev)
  PROVE  ListIsPreorder
<1> SUFFICES ASSUME NEW r \in Item, type[r] \in Composite, parent[r] = NULL
             PROVE  /\ Listed(r) = {c \in Below(r, branch) : IsComposite(c)}
                    /\ prev[r] = NULL
                    /\ \A c \in Listed(r) : next[c] # NULL =>
                         Before(c, next[c]) /\ prev[next[c]] = c
  BY DEF ListIsPreorder, IsComposite, IsRoot
<1>1. ListOf(type, parent, branch, next, prev, r)
  BY DEF Lists
<1>2. Listed(r) = Upward(r, next)
  BY DEF Listed, Upward
<1>3. \A c \in Item : type[c] \in Composite =>
        (c \in Below(r, branch) <=> r \in Upward(c, parent))
  BY BelowIsUpward DEF Living
<1>4. Below(r, branch) \subseteq Item
  BY BelowProperties
<1>5. Composites(type, parent, r) = {c \in Below(r, branch) : IsComposite(c)}
  BY <1>3, <1>4 DEF Composites, IsComposite
<1>6. \A a, b : Precedes(type, parent, branch, a, b) => Before(a, b)
  BY DEF Precedes, Before
<1> QED
  BY <1>1, <1>2, <1>5, <1>6 DEF ListOf

(***************************************************************************)
(* A client that gives siblings different keys, appends composites to      *)
(* roots only, and dettaches a composite only while no other follows it,   *)
(* whatever else it does and whichever realloc() fails: the list that      *)
(* jscon_iter_composite_r() walks from a root is the tree's composites, in *)
(* the order of the text, and its pointers back mirror those forth.        *)
(***************************************************************************)
THEOREM ListIsInOrder ==
  ASSUME IsFiniteSet(Item), Client \subseteq {"oom"}
  PROVE  Spec => []ListIsPreorder
<1>1. ListInv => ListIsPreorder
  BY ListsInOrder, ListInvFacts
<1> QED
  BY InitListInv, NextListInv, <1>1, PTL DEF Spec

(***************************************************************************)
(* With the same client no call faults: jscon_append() and jscon_dettach() *)
(* meet no freed memory on the list and come to its end, and what          *)
(* jscon_destroy() and jscon_delete() free, they free once.                *)
(***************************************************************************)
THEOREM NoCallFaults ==
  ASSUME IsFiniteSet(Item), Client \subseteq {"oom"}
  PROVE  Spec => []NoFault
<1>1. ListInv => NoFault
  BY DEF ListInv
<1> QED
  BY InitListInv, NextListInv, <1>1, PTL DEF Spec
==============================================================================
