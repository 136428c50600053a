-------------------------- MODULE JsconForestProofs --------------------------
(***************************************************************************)
(* For any items, any names and any client that gives siblings different   *)
(* keys: every item hangs from one root, jscon_destroy() frees each item   *)
(* once, the tree implements OrderedForest, and jscon_get_sibling() counts *)
(* places of an array right.                                               *)
(***************************************************************************)
EXTENDS JsconGet, JsconTreeProofs, FiniteSetTheorems

------------------------------------------------------------------------------
(* What is above an item, for any parent pointers.                         *)

\* What is above x: x itself, with every item its parent, and nothing that a
\* set with these two properties lacks.
LEMMA UpwardProperties ==
  ASSUME NEW pa \in [Item -> Item \cup {NULL}], NEW x \in Item
  PROVE  /\ x \in Upward(x, pa)
         /\ Upward(x, pa) \subseteq Item
         /\ \A i \in Upward(x, pa) : pa[i] # NULL => pa[i] \in Upward(x, pa)
         /\ \A S \in SUBSET Item :
              x \in S /\ (\A i \in S : pa[i] # NULL => pa[i] \in S) => Upward(x, pa) \subseteq S
<1> DEFINE U == Upward(x, pa)
           succ == [i \in Item |-> {pa[i]} \ {NULL}]
           Closed(S) == x \in S /\ \A i \in S : succ[i] \subseteq S
<1>1. U = {i \in Item : \A S \in SUBSET Item : Closed(S) => i \in S}
  BY DEF Upward, Along, Reach
<1>2. \A S \in SUBSET Item : Closed(S) <=> x \in S /\ \A i \in S : pa[i] # NULL => pa[i] \in S
  OBVIOUS
<1> HIDE DEF U, Closed
<1>3. x \in U /\ U \subseteq Item
  BY <1>1, <1>2
<1>4. ASSUME NEW i \in U, pa[i] # NULL
      PROVE  pa[i] \in U
  BY <1>1, <1>2, <1>4
<1>5. \A S \in SUBSET Item : Closed(S) => U \subseteq S
  BY <1>1
<1> QED
  BY <1>2, <1>3, <1>4, <1>5 DEF U

\* Above an item are the item and what is above its parent.
LEMMA UpwardStep ==
  ASSUME NEW pa \in [Item -> Item \cup {NULL}], NEW x \in Item
  PROVE  /\ pa[x] = NULL => Upward(x, pa) = {x}
         /\ pa[x] # NULL => Upward(x, pa) = {x} \cup Upward(pa[x], pa)
<1>1. CASE pa[x] = NULL
  <2>1. {x} \in SUBSET Item /\ \A i \in {x} : pa[i] # NULL => pa[i] \in {x}
    BY <1>1
  <2>2. Upward(x, pa) \subseteq {x}
    BY <2>1, UpwardProperties
  <2> QED
    BY <1>1, <2>2, UpwardProperties
<1>2. CASE pa[x] # NULL
  <2> DEFINE p == pa[x]
             S == {x} \cup Upward(p, pa)
  <2>1. p \in Item
    BY <1>2
  <2>2. /\ p \in Upward(p, pa)
        /\ Upward(p, pa) \subseteq Item
        /\ \A i \in Upward(p, pa) : pa[i] # NULL => pa[i] \in Upward(p, pa)
    BY <2>1, UpwardProperties
  <2>3. S \in SUBSET Item /\ x \in S /\ \A i \in S : pa[i] # NULL => pa[i] \in S
    BY <2>2
  <2>4. Upward(x, pa) \subseteq S
    BY <2>3, UpwardProperties
  <2>5. /\ Upward(x, pa) \in SUBSET Item
        /\ x \in Upward(x, pa)
        /\ \A i \in Upward(x, pa) : pa[i] # NULL => pa[i] \in Upward(x, pa)
    BY UpwardProperties
  <2>6. Upward(p, pa) \subseteq Upward(x, pa)
    BY <1>2, <2>1, <2>5, UpwardProperties
  <2> QED
    BY <1>2, <2>4, <2>5, <2>6
<1> QED
  BY <1>1, <1>2

\* What is above something above x is above x.
LEMMA UpwardTransitive ==
  ASSUME NEW pa \in [Item -> Item \cup {NULL}], NEW x \in Item, NEW y \in Upward(x, pa)
  PROVE  y \in Item /\ Upward(y, pa) \subseteq Upward(x, pa)
<1>1. /\ Upward(x, pa) \in SUBSET Item
      /\ \A i \in Upward(x, pa) : pa[i] # NULL => pa[i] \in Upward(x, pa)
  BY UpwardProperties
<1> QED
  BY <1>1, UpwardProperties

\* Of two items above a third, one is above the other.
LEMMA UpwardLinear ==
  ASSUME NEW pa \in [Item -> Item \cup {NULL}], NEW x \in Item,
         NEW a \in Upward(x, pa), NEW b \in Upward(x, pa)
  PROVE  a \in Upward(b, pa) \/ b \in Upward(a, pa)
<1> DEFINE S == {i \in Item : a \in Upward(i, pa) \/ i \in Upward(a, pa)}
<1>1. a \in Item
  BY UpwardTransitive
<1>2. ASSUME NEW i \in S, pa[i] # NULL
      PROVE  pa[i] \in S
  <2>1. pa[i] \in Item
    BY <1>2
  <2>2. CASE a \in Upward(i, pa)
    <3>1. Upward(i, pa) = {i} \cup Upward(pa[i], pa)
      BY <1>2, UpwardStep
    <3>2. a = i => pa[i] \in Upward(a, pa)
      BY <1>1, <1>2, UpwardProperties
    <3> QED
      BY <2>1, <2>2, <3>1, <3>2
  <2>3. CASE i \in Upward(a, pa)
    BY <1>1, <1>2, <2>1, <2>3, UpwardProperties
  <2> QED
    BY <2>2, <2>3
<1>3. Upward(x, pa) \subseteq S
  <2>1. S \in SUBSET Item /\ x \in S
    OBVIOUS
  <2> HIDE DEF S
  <2> QED
    BY <1>2, <2>1, UpwardProperties
<1> QED
  BY <1>3

\* There is at most one root above an item.
LEMMA RootUnique ==
  ASSUME NEW pa \in [Item -> Item \cup {NULL}], NEW x \in Item,
         NEW r \in Upward(x, pa), NEW s \in Upward(x, pa), pa[r] = NULL, pa[s] = NULL
  PROVE  r = s
<1>1. r \in Item /\ s \in Item
  BY UpwardTransitive
<1>2. Upward(r, pa) = {r} /\ Upward(s, pa) = {s}
  BY <1>1, UpwardStep
<1> QED
  BY <1>2, UpwardLinear

\* What is above x depends on the pointers that are met only.
LEMMA UpwardSame ==
  ASSUME NEW pa \in [Item -> Item \cup {NULL}], NEW pb \in [Item -> Item \cup {NULL}],
         NEW x \in Item, \A i \in Upward(x, pa) : pb[i] = pa[i]
  PROVE  Upward(x, pb) = Upward(x, pa)
<1>1. /\ x \in Upward(x, pa)
      /\ Upward(x, pa) \in SUBSET Item
      /\ \A i \in Upward(x, pa) : pa[i] # NULL => pa[i] \in Upward(x, pa)
  BY UpwardProperties
<1>2. Upward(x, pb) \subseteq Upward(x, pa)
  BY <1>1, UpwardProperties
<1>3. /\ x \in Upward(x, pb)
      /\ Upward(x, pb) \in SUBSET Item
      /\ \A i \in Upward(x, pb) : pa[i] # NULL => pa[i] \in Upward(x, pb)
  BY <1>2, UpwardProperties
<1>4. Upward(x, pa) \subseteq Upward(x, pb)
  BY <1>3, UpwardProperties
<1> QED
  BY <1>2, <1>4

\* Where a root is above an item, nothing is above its own parent.
LEMMA NoItemAboveParent ==
  ASSUME NEW pa \in [Item -> Item \cup {NULL}], NEW x \in Item, pa[x] # NULL,
         \E r \in Upward(x, pa) : pa[r] = NULL
  PROVE  x \notin Upward(pa[x], pa)
<1> SUFFICES ASSUME x \in Upward(pa[x], pa) PROVE FALSE
  OBVIOUS
<1> DEFINE S == {i \in Item : pa[i] # NULL /\ x \in Upward(pa[i], pa)}
<1>1. ASSUME NEW i \in S
      PROVE  pa[i] \in S
  <2>1. pa[i] \in Item /\ x \in Upward(pa[i], pa)
    OBVIOUS
  <2>2. CASE pa[i] = x
    BY <2>2
  <2>3. CASE pa[i] # x
    <3>1. pa[pa[i]] # NULL
      BY <2>1, <2>3, UpwardStep
    <3>2. Upward(pa[i], pa) = {pa[i]} \cup Upward(pa[pa[i]], pa)
      BY <2>1, <3>1, UpwardStep
    <3> QED
      BY <2>1, <2>3, <3>1, <3>2
  <2> QED
    BY <2>2, <2>3
<1>2. Upward(x, pa) \subseteq S
  <2>1. S \in SUBSET Item /\ x \in S
    OBVIOUS
  <2> HIDE DEF S
  <2> QED
    BY <1>1, <2>1, UpwardProperties
<1> QED
  BY <1>2
------------------------------------------------------------------------------
(* Branch arrays and parent pointers lead the same ways.                   *)

\* All items above and below a live one are alive.
LEMMA AllAlive ==
  ASSUME NEW ty, NEW pa \in [Item -> Item \cup {NULL}], NEW br \in [Item -> Seq(Item)],
         ArraysAgree(ty, pa, br), NEW x \in Item, ty[x] \in Living
  PROVE  /\ \A a \in Upward(x, pa) : ty[a] \in Living
         /\ \A c \in Below(x, br) : ty[c] \in Living
<1> DEFINE live == {i \in Item : ty[i] \in Living}
<1>1. live \in SUBSET Item /\ x \in live
  OBVIOUS
<1>2. \A i \in Item : ToSet(br[i]) \subseteq Item
  BY ToSetMembers
<1>3. \A i \in live : pa[i] # NULL => pa[i] \in live
  BY DEF ArraysAgree, Living
<1>4. \A i \in live : ToSet(br[i]) \subseteq live
  BY <1>2 DEF ArraysAgree
<1>5. Upward(x, pa) \subseteq live
  <2> HIDE DEF live
  <2> QED
    BY <1>1, <1>3, UpwardProperties
<1>6. Below(x, br) \subseteq live
  <2> HIDE DEF live
  <2> QED
    BY <1>1, <1>4, BelowProperties
<1> QED
  BY <1>5, <1>6

\* An item is below those that are above it.
LEMMA BelowIsUpward ==
  ASSUME NEW ty, NEW pa \in [Item -> Item \cup {NULL}], NEW br \in [Item -> Seq(Item)],
         ArraysAgree(ty, pa, br), NEW x \in Item, ty[x] \in Living,
         NEW r \in Item, ty[r] \in Living
  PROVE  x \in Below(r, br) <=> r \in Upward(x, pa)
<1>1. ASSUME x \in Below(r, br)
      PROVE  r \in Upward(x, pa)
  <2> DEFINE S == {y \in Item : ty[y] \in Living /\ r \in Upward(y, pa)}
  <2>1. S \in SUBSET Item /\ r \in S
    BY UpwardProperties
  <2>2. ASSUME NEW y \in S
        PROVE  ToSet(br[y]) \subseteq S
    <3>1. SUFFICES ASSUME NEW c \in ToSet(br[y]) PROVE c \in S
      OBVIOUS
    <3>2. c \in Item /\ ty[c] \in Living /\ pa[c] = y
      BY <3>1, ToSetMembers DEF ArraysAgree
    <3>3. pa[c] # NULL
      BY <3>2, ItemAssumption
    <3>4. Upward(c, pa) = {c} \cup Upward(y, pa)
      BY <3>2, <3>3, UpwardStep
    <3> QED
      BY <3>2, <3>4
  <2>3. Below(r, br) \subseteq S
    <3> HIDE DEF S
    <3> QED
      BY <2>1, <2>2, BelowProperties
  <2> QED
    BY <1>1, <2>3
<1>2. ASSUME r \in Upward(x, pa)
      PROVE  x \in Below(r, br)
  <2> DEFINE S == {a \in Item : ty[a] \in Living /\ x \in Below(a, br)}
  <2>1. S \in SUBSET Item /\ x \in S
    BY BelowProperties
  <2>2. ASSUME NEW a \in S, pa[a] # NULL
        PROVE  pa[a] \in S
    <3> DEFINE p == pa[a]
    <3>1. p \in Item /\ ty[p] \in Living /\ a \in ToSet(br[p])
      BY <2>2 DEF ArraysAgree, Living
    <3> HIDE DEF p
    <3>2. /\ Below(p, br) \in SUBSET Item /\ a \in Below(p, br)
          /\ \A i \in Below(p, br) : ToSet(br[i]) \subseteq Below(p, br)
      BY <3>1, BelowProperties
    <3>3. Below(a, br) \subseteq Below(p, br)
      BY <3>2, BelowProperties
    <3> QED
      BY <3>1, <3>3 DEF p
  <2>3. Upward(x, pa) \subseteq S
    <3> HIDE DEF S
    <3> QED
      BY <2>1, <2>2, UpwardProperties
  <2> QED
    BY <1>2, <2>3
<1> QED
  BY <1>1, <1>2

------------------------------------------------------------------------------
(* Every item hangs from a root.                                           *)

Climbs(ty, pa) ==
  \A x \in Item : ty[x] \in Living => \E r \in Upward(x, pa) : pa[r] = NULL

\* A root that is appended to an item of another tree puts no item above
\* itself.
LEMMA AppendClimbs ==
  ASSUME NEW ty, NEW pa \in [Item -> Item \cup {NULL}], Climbs(ty, pa),
         NEW p \in Item, NEW c \in Item, ty[p] \in Living, pa[c] = NULL,
         c \notin Upward(p, pa),
         NEW pb \in [Item -> Item \cup {NULL}], pb[c] = p,
         \A i \in Item : i # c => pb[i] = pa[i]
  PROVE  Climbs(ty, pb)
<1>1. p # NULL
  BY ItemAssumption
<1>2. Upward(p, pb) = Upward(p, pa)
  <2>1. \A i \in Upward(p, pa) : pb[i] = pa[i]
    BY <1>1, UpwardProperties
  <2> QED
    BY <1>1, <2>1, UpwardSame
<1>3. PICK s \in Upward(p, pa) : pa[s] = NULL
  BY DEF Climbs
<1>4. s \in Item /\ s # c /\ pb[s] = NULL /\ s \in Upward(p, pb)
  BY <1>1, <1>2, <1>3, UpwardTransitive
<1>5. ASSUME NEW x \in Item, ty[x] \in Living
      PROVE  \E r \in Upward(x, pb) : pb[r] = NULL
  <2>1. PICK r \in Upward(x, pa) : pa[r] = NULL
    BY <1>5 DEF Climbs
  <2>2. /\ x \in Upward(x, pb)
        /\ Upward(x, pb) \in SUBSET Item
        /\ \A i \in Upward(x, pb) : pb[i] # NULL => pb[i] \in Upward(x, pb)
    BY <1>1, UpwardProperties
  <2>3. \A i \in Upward(x, pb) : pa[i] # NULL => pa[i] \in Upward(x, pb)
    BY <1>1, <2>2
  <2>4. Upward(x, pa) \subseteq Upward(x, pb)
    BY <2>2, <2>3, UpwardProperties
  <2>5. CASE r # c
    BY <1>1, <2>1, <2>2, <2>4, <2>5
  <2>6. CASE r = c
    <3>1. p \in Upward(x, pb)
      BY <1>1, <2>1, <2>2, <2>4, <2>6
    <3>2. Upward(p, pb) \subseteq Upward(x, pb)
      BY <1>1, <3>1, UpwardTransitive
    <3> QED
      BY <1>4, <3>2
  <2> QED
    BY <2>5, <2>6
<1> QED
  BY <1>5 DEF Climbs

\* An item that is taken out is the root of those below it.
LEMMA CutClimbs ==
  ASSUME NEW ty, NEW pa \in [Item -> Item \cup {NULL}], Climbs(ty, pa),
         NEW x \in Item, NEW pb \in [Item -> Item \cup {NULL}], pb[x] = NULL,
         \A i \in Item : i # x => pb[i] = pa[i]
  PROVE  Climbs(ty, pb)
<1>1. ASSUME NEW y \in Item, ty[y] \in Living
      PROVE  \E r \in Upward(y, pb) : pb[r] = NULL
  <2>1. CASE x \in Upward(y, pb)
    BY <2>1
  <2>2. CASE x \notin Upward(y, pb)
    <3>1. \A i \in Upward(y, pb) : pa[i] = pb[i]
      BY <2>2, UpwardProperties
    <3>2. Upward(y, pa) = Upward(y, pb)
      BY <3>1, UpwardSame
    <3> QED
      BY <1>1, <3>1, <3>2 DEF Climbs
  <2> QED
    BY <2>1, <2>2
<1> QED
  BY <1>1 DEF Climbs

\* Items that are freed hang from nothing, and no item hangs from them.
LEMMA FreeClimbs ==
  ASSUME NEW ty, NEW pa, Climbs(ty, pa), NEW gone
  PROVE  Climbs([i \in Item |-> IF i \in gone THEN "freed" ELSE ty[i]], pa)
BY DEF Climbs, Living, Composite

ForestInv == IInv /\ Climbs(type, parent)

LEMMA InitForestInv == Init => ForestInv
<1>1. Init => Climbs(type, parent)
  BY DEF Init, Climbs, Living, Composite
<1> QED
  BY <1>1, InitIInv DEF ForestInv

\* No call leaves an item without a root above it.
LEMMA NextClimbs ==
  ASSUME ForestInv, [Next]_vars
  PROVE  Climbs(type, parent)'
<1> DEFINE Kept == UNCHANGED parent /\ \A i \in Item : type'[i] \in Living => type[i] \in Living
<1>1. /\ IInv /\ Climbs(type, parent)
      /\ parent \in [Item -> Item \cup {NULL}]
      /\ type \in [Item -> Living \cup {"unborn", "freed"}]
  BY DEF ForestInv, IInv, TypeOK
<1>2. CASE Kept
  BY <1>1, <1>2 DEF Climbs
<1>3. ASSUME NEW i \in Item, NEW t \in Kind, NEW k \in Name \cup {NULL}, jscon_new(i, t, k)
      PROVE  Climbs(type, parent)'
  <2>1. /\ parent[i] = NULL /\ parent' = parent
        /\ \A x \in Item : x # i => type'[x] = type[x]
    BY <1>1, <1>3 DEF IInv, UnbornEmpty, jscon_new
  <2>2. i \in Upward(i, parent)
    BY <1>1, UpwardProperties
  <2> QED
    BY <1>1, <2>1, <2>2 DEF Climbs
<1>4. ASSUME NEW p \in Item, NEW c \in Item, jscon_append(p, c)
      PROVE  Climbs(type, parent)'
  <2>1. CASE Fault(status')
    BY <1>2, <2>1 DEF Fault, nodes
  <2>2. CASE parent' = [parent EXCEPT ![c] = p] /\ type' = type
    <3>1. type[p] \in Living /\ parent[c] = NULL /\ c \notin Upward(p, parent)
      BY <1>4 DEF jscon_append, CanAppend, IsComposite, IsRoot, Living
    <3>2. /\ parent' \in [Item -> Item \cup {NULL}]
          /\ parent'[c] = p
          /\ \A i \in Item : i # c => parent'[i] = parent[i]
      BY <1>1, <2>2
    <3>3. Climbs(type, parent')
      BY <1>1, <3>1, <3>2, AppendClimbs
    <3> QED
      BY <2>2, <3>3
  <2> QED
    BY <1>4, <2>1, <2>2 DEF jscon_append, Fault
<1>5. ASSUME NEW p \in Item, NEW c \in Item, jscon_append_oom(p, c)
      PROVE  Climbs(type, parent)'
  BY <1>2, <1>5 DEF jscon_append_oom, nodes
<1>6. ASSUME NEW x \in Item, type[x] \in Living, parent[x] # NULL, Unlink(x)
      PROVE  Climbs(type, parent')
  <2>1. /\ parent' \in [Item -> Item \cup {NULL}]
        /\ parent'[x] = NULL
        /\ \A y \in Item : y # x => parent'[y] = parent[y]
    BY <1>1, <1>6, UnlinkKeepsArrays
  <2> QED
    BY <1>1, <2>1, CutClimbs
<1>7. ASSUME NEW x \in Item, jscon_dettach(x)
      PROVE  Climbs(type, parent)'
  <2>1. type[x] \in Living /\ parent[x] # NULL
    BY <1>7 DEF jscon_dettach, CanDettach, Alive, IsRoot
  <2>2. CASE Fault(status')
    BY <1>2, <2>2 DEF Fault, nodes
  <2>3. CASE Unlink(x) /\ UNCHANGED <<type, key, status>>
    BY <1>6, <2>1, <2>3
  <2> QED
    BY <1>7, <2>2, <2>3 DEF jscon_dettach, Fault
<1>8. ASSUME NEW x \in Item, jscon_destroy(x)
      PROVE  Climbs(type, parent)'
  <2>1. CASE Fault(status')
    BY <1>2, <2>1 DEF Fault, nodes
  <2>2. CASE FreeAll(Below(Root(x), branch)) /\ UNCHANGED nodes
    BY <1>1, <2>2, FreeClimbs DEF FreeAll, nodes
  <2> QED
    BY <1>8, <2>1, <2>2 DEF jscon_destroy, Fault
<1>9. ASSUME NEW p \in Item, NEW k \in DOMAIN table[p], jscon_delete(p, k)
      PROVE  Climbs(type, parent)'
  <2> DEFINE x == table[p][k]
  <2>1. x \in Item /\ type[x] \in Living /\ parent[x] # NULL
    BY <1>1, <1>9 DEF IInv, TypeOK, jscon_delete, CanDettach, Alive, IsRoot
  <2>2. \/ Fault(status')
        \/ Unlink(x) /\ FreeAll(Below(x, branch'))
    BY <1>9 DEF jscon_delete, Fault
  <2> HIDE DEF x
  <2>3. CASE Fault(status')
    BY <1>2, <2>3 DEF Fault, nodes
  <2>4. CASE Unlink(x) /\ FreeAll(Below(x, branch'))
    BY <1>6, <2>1, <2>4, FreeClimbs DEF FreeAll
  <2> QED
    BY <2>2, <2>3, <2>4
<1>10. ASSUME NEW p \in Item, NEW k \in DOMAIN table[p], jscon_delete_oom(p, k)
       PROVE  Climbs(type, parent)'
  <2>1. table[p][k] \in Item
    BY <1>1 DEF IInv, TypeOK
  <2> QED
    BY <1>8, <1>10, <2>1 DEF jscon_delete_oom
<1>11. CASE UNCHANGED vars
  BY <1>2, <1>11 DEF vars, nodes
<1> QED
  BY <1>3, <1>4, <1>5, <1>7, <1>8, <1>9, <1>10, <1>11 DEF Next

LEMMA NextForestInv ==
  ASSUME "duplicate_keys" \notin Client, ForestInv, [Next]_vars
  PROVE  ForestInv'
BY NextIInv, NextClimbs DEF ForestInv

\* Items that climb to an end hang from there.
LEMMA RootedByParents ==
  ASSUME parent \in [Item -> Item \cup {NULL}], branch \in [Item -> Seq(Item)],
         ArraysAgree(type, parent, branch), Climbs(type, parent)
  PROVE  Rooted
<1> SUFFICES ASSUME NEW x \in Item, type[x] \in Living
             PROVE  \E r \in Upward(x, parent) : parent[r] = NULL /\ x \in Below(r, branch)
  BY DEF Rooted, Alive, IsRoot
<1>1. PICK r \in Upward(x, parent) : parent[r] = NULL
  BY DEF Climbs
<1>2. r \in Item /\ type[r] \in Living
  BY UpwardTransitive, AllAlive
<1> QED
  BY <1>1, <1>2, BelowIsUpward

(***************************************************************************)
(* Every live item hangs from a root, and from there jscon_destroy() finds *)
(* it through the branch arrays, whatever was appended and dettached       *)
(* before: no sequence of calls closes a cycle of parents.                 *)
(***************************************************************************)
THEOREM ItemsAreRooted ==
  ASSUME "duplicate_keys" \notin Client
  PROVE  Spec => []Rooted
<1>1. ForestInv => Rooted
  BY RootedByParents DEF ForestInv, IInv, TypeOK
<1> QED
  BY InitForestInv, NextForestInv, <1>1, PTL DEF Spec

------------------------------------------------------------------------------
(* Every call is one of OrderedForest, or changes nothing that shows.      *)

Live == {i \in Item : Alive(i)}

\* The tree below x as OrderedForest has it, which looks at parents only.
Hanging(ty, pa, x) ==
  {i \in Item : /\ ty[i] \in Living
                /\ \A S \in SUBSET Item :
                     /\ x \in S /\ \A j \in S : ty[j] \in Living
                     /\ \A j \in Item : ty[j] \in Living /\ pa[j] \in S => j \in S
                     => i \in S}

\* Down the arrays and up the parents are the same tree.
LEMMA BelowIsHanging ==
  ASSUME NEW ty, NEW pa \in [Item -> Item \cup {NULL}], NEW br \in [Item -> Seq(Item)],
         ArraysAgree(ty, pa, br), NEW x \in Item, ty[x] \in Living
  PROVE  Below(x, br) = Hanging(ty, pa, x)
<1> DEFINE B == Below(x, br)
           Closed(S) == /\ x \in S /\ \A j \in S : ty[j] \in Living
                        /\ \A j \in Item : ty[j] \in Living /\ pa[j] \in S => j \in S
<1>1. /\ x \in B
      /\ B \in SUBSET Item
      /\ \A i \in B : ToSet(br[i]) \subseteq B
      /\ \A i \in B : ty[i] \in Living
  BY BelowProperties, AllAlive
<1>2. ASSUME NEW S \in SUBSET Item, Closed(S)
      PROVE  B \subseteq S
  <2>1. ASSUME NEW i \in S, NEW c \in ToSet(br[i])
        PROVE  c \in S
    BY <1>2, <2>1, ToSetMembers DEF ArraysAgree
  <2> QED
    BY <1>2, <2>1, BelowProperties
<1>3. Closed(B)
  <2>1. ASSUME NEW j \in Item, ty[j] \in Living, pa[j] \in B
        PROVE  j \in B
    BY <1>1, <2>1, ItemAssumption DEF ArraysAgree
  <2> QED
    BY <1>1, <2>1
<1> HIDE DEF B
<1>4. Hanging(ty, pa, x) = {i \in Item : ty[i] \in Living /\ \A S \in SUBSET Item : Closed(S) => i \in S}
  BY DEF Hanging
<1> QED
  BY <1>1, <1>2, <1>3, <1>4 DEF B

\* OrderedForest!Tree() of a live item is the tree below it.
LEMMA TreeIsBelow ==
  ASSUME IInv, NEW x \in Item, type[x] \in Living
  PROVE  Ordered!Tree(x) = Below(x, branch)
<1>1. /\ parent \in [Item -> Item \cup {NULL}]
      /\ branch \in [Item -> Seq(Item)]
      /\ ArraysAgree(type, parent, branch)
  BY DEF IInv, TypeOK
<1>2. Below(x, branch) = Hanging(type, parent, x)
  BY <1>1, BelowIsHanging
<1> DEFINE above == [i \in Item |-> IF Alive(i) THEN parent[i] ELSE NULL]
<1>3. Ordered!Tree(x) = {i \in Live : \A S \in SUBSET Live :
                           x \in S /\ (\A j \in Live : above[j] \in S => j \in S) => i \in S}
  BY DEF Ordered!Tree, Live
<1>4. \A j \in Live : above[j] = parent[j]
  BY DEF Live
<1> HIDE DEF above
<1>5. Ordered!Tree(x) = Hanging(type, parent, x)
  BY <1>3, <1>4 DEF Hanging, Live, Alive
<1> QED
  BY <1>2, <1>5

\* What a client sees: the fields of the live items.
Above == [i \in Item |-> IF Alive(i) THEN parent[i] ELSE NULL]
Branches == [i \in Item |-> IF Alive(i) THEN branch[i] ELSE <<>>]

\* What the abstract actions say when they are asked of the tree.
LEMMA OrderedActions ==
  /\ Ordered!ForestInit <=> Live = {} /\ Above = [i \in Item |-> NULL]
                                      /\ Branches = [i \in Item |-> <<>>]
  /\ \A x : Ordered!Create(x) <=>
       x \notin Live /\ Live' = Live \cup {x} /\ UNCHANGED <<Above, Branches>>
  /\ \A p, x : Ordered!AppendTo(p, x) <=>
       /\ p \in Live /\ x \in Live
       /\ Above[x] = NULL /\ p \notin Ordered!Tree(x)
       /\ Above' = [Above EXCEPT ![x] = p]
       /\ Branches' = [Branches EXCEPT ![p] = Append(@, x)]
       /\ UNCHANGED Live
  /\ \A x : Ordered!Dettach(x) <=>
       /\ x \in Live /\ Above[x] # NULL
       /\ \E n \in DOMAIN Branches[Above[x]] :
            /\ Branches[Above[x]][n] = x
            /\ Branches' = [Branches EXCEPT ![Above[x]] = RemoveAt(@, n)]
       /\ Above' = [Above EXCEPT ![x] = NULL]
       /\ UNCHANGED Live
  /\ \A x : Ordered!Delete(x) <=>
       /\ x \in Live /\ Above[x] # NULL
       /\ \E n \in DOMAIN Branches[Above[x]] :
            /\ Branches[Above[x]][n] = x
            /\ Live' = Live \ Ordered!Tree(x)
            /\ Above' = [i \in Item |-> IF i \in Ordered!Tree(x) THEN NULL ELSE Above[i]]
            /\ Branches' = [i \in Item |->
                 IF i \in Ordered!Tree(x) THEN <<>>
                 ELSE [Branches EXCEPT ![Above[x]] = RemoveAt(@, n)][i]]
  /\ \A x : Ordered!Destroy(x) <=>
       /\ x \in Live /\ Above[x] = NULL
       /\ Live' = Live \ Ordered!Tree(x)
       /\ Above' = [i \in Item |-> IF i \in Ordered!Tree(x) THEN NULL ELSE Above[i]]
       /\ Branches' = [i \in Item |-> IF i \in Ordered!Tree(x) THEN <<>> ELSE Branches[i]]
BY DEF Live, Above, Branches, RemoveAt, Ordered!ForestInit, Ordered!Create, Ordered!AppendTo,
       Ordered!Dettach, Ordered!Delete, Ordered!Destroy, Ordered!Vanish, Ordered!Cut

\* A new item is a root without branches.
LEMMA NewRefines ==
  ASSUME IInv, NEW i \in Item, NEW t \in Kind, NEW k \in Name \cup {NULL}, jscon_new(i, t, k)
  PROVE  Ordered!Create(i)
<1>1. /\ type[i] = "unborn" /\ parent[i] = NULL /\ branch[i] = <<>> /\ t \in Living
      /\ UNCHANGED <<parent, branch>>
      /\ type \in [Item -> Living \cup {"unborn", "freed"}]
      /\ type' = [type EXCEPT ![i] = t]
  BY KindAssumption DEF IInv, TypeOK, UnbornEmpty, jscon_new
<1>2. /\ type'[i] \in Living /\ type[i] \notin Living
      /\ \A j \in Item : j # i => type'[j] = type[j]
  BY <1>1 DEF Living, Composite
<1>3. i \notin Live /\ Live' = Live \cup {i}
  BY <1>2 DEF Live, Alive
<1>4. UNCHANGED <<Above, Branches>>
  BY <1>1, <1>2 DEF Above, Branches, Alive
<1> QED
  BY <1>3, <1>4, OrderedActions

\* An appended root was not the root of the item it is appended to.
LEMMA AppendRefines ==
  ASSUME IInv, NEW p \in Item, NEW c \in Item, CanAppend(p, c), type' = type,
         parent' = [parent EXCEPT ![c] = p], branch' = [branch EXCEPT ![p] = Append(@, c)]
  PROVE  Ordered!AppendTo(p, c)
<1>1. /\ parent \in [Item -> Item \cup {NULL}]
      /\ branch \in [Item -> Seq(Item)]
      /\ ArraysAgree(type, parent, branch)
  BY DEF IInv, TypeOK
<1>2. /\ type[p] \in Living /\ type[c] \in Living
      /\ parent[c] = NULL /\ c \notin Upward(p, parent)
  BY DEF CanAppend, IsComposite, Alive, IsRoot, Living
<1>3. p \notin Ordered!Tree(c)
  <2>1. p \notin Below(c, branch)
    BY <1>1, <1>2, BelowIsUpward
  <2> QED
    BY <1>2, <2>1, TreeIsBelow
<1>4. UNCHANGED Live
  BY DEF Live, Alive
<1>5. Above' = [Above EXCEPT ![c] = p]
  BY <1>1, <1>2 DEF Above, Alive
<1>6. Branches' = [Branches EXCEPT ![p] = Append(@, c)]
  BY <1>1, <1>2 DEF Branches, Alive
<1> QED
  BY <1>2, <1>3, <1>4, <1>5, <1>6, OrderedActions DEF Above, Live, Alive

\* What is taken out is the item that is dettached.
LEMMA UnlinkRefines ==
  ASSUME IInv, NEW x \in Item, type[x] \in Living, parent[x] # NULL, Unlink(x)
  PROVE  /\ x \in Live /\ Above[x] = parent[x]
         /\ parent' = [parent EXCEPT ![x] = NULL]
         /\ Removed(x) \in DOMAIN Branches[parent[x]]
         /\ Branches[parent[x]][Removed(x)] = x
         /\ \A i \in Live :
              branch'[i] = [Branches EXCEPT ![parent[x]] = RemoveAt(@, Removed(x))][i]
<1>1. /\ parent[x] \in Item
      /\ type[parent[x]] \in Living
      /\ Removed(x) \in DOMAIN branch[parent[x]]
      /\ branch[parent[x]][Removed(x)] = x
  BY RemovedIsItem DEF Living
<1>2. /\ x \in Live /\ Above[x] = parent[x]
      /\ Branches[parent[x]] = branch[parent[x]]
      /\ \A i \in Live : Branches[i] = branch[i]
  BY <1>1 DEF Live, Above, Branches, Alive
<1>3. branch' = [branch EXCEPT ![parent[x]] = RemoveAt(@, Removed(x))]
  BY DEF Unlink, Without
<1>4. DOMAIN branch = Item /\ DOMAIN Branches = Item /\ Live \subseteq Item
  BY DEF IInv, TypeOK, Branches, Live
<1>5. ASSUME NEW i \in Live
      PROVE  branch'[i] = [Branches EXCEPT ![parent[x]] = RemoveAt(@, Removed(x))][i]
  BY <1>1, <1>2, <1>3, <1>4
<1> QED
  BY <1>1, <1>2, <1>5 DEF Unlink

\* A dettached item keeps its tree.
LEMMA DettachRefines ==
  ASSUME IInv, NEW x \in Item, type[x] \in Living, parent[x] # NULL, Unlink(x), type' = type
  PROVE  Ordered!Dettach(x)
<1> DEFINE p == parent[x]
           n == Removed(x)
<1>1. /\ x \in Live /\ Above[x] = p
      /\ parent' = [parent EXCEPT ![x] = NULL]
      /\ n \in DOMAIN Branches[p] /\ Branches[p][n] = x
      /\ \A i \in Live : branch'[i] = [Branches EXCEPT ![p] = RemoveAt(@, n)][i]
  BY UnlinkRefines
<1>2. p \in Item /\ p \in Live /\ parent \in [Item -> Item \cup {NULL}]
  BY RemovedIsItem DEF Live, Alive, Living, IInv, TypeOK
<1> HIDE DEF p, n
<1>3. UNCHANGED Live
  BY DEF Live, Alive
<1>4. Above' = [Above EXCEPT ![x] = NULL]
  BY <1>1, <1>2 DEF Above, Alive
<1>5. Branches' = [Branches EXCEPT ![p] = RemoveAt(@, n)]
  <2>1. \A i \in Item : Branches'[i] = IF i \in Live THEN branch'[i] ELSE <<>>
    BY <1>3 DEF Branches, Live, Alive
  <2>2. \A i \in Item : i \notin Live => Branches[i] = <<>>
    BY DEF Branches, Live
  <2>3. DOMAIN Branches' = Item /\ DOMAIN Branches = Item
    BY DEF Branches
  <2> DEFINE cut == [Branches EXCEPT ![p] = RemoveAt(@, n)]
  <2>4. \A i \in Item : Branches'[i] = cut[i]
    BY <1>1, <1>2, <2>1, <2>2, <2>3
  <2>5. Branches' = [i \in Item |-> Branches'[i]]
    BY DEF Branches
  <2>6. cut = [i \in Item |-> cut[i]]
    BY <2>3
  <2> QED
    BY <2>4, <2>5, <2>6
<1>6. Above[x] # NULL
  BY <1>1, <1>2, ItemAssumption
<1> QED
  BY <1>1, <1>3, <1>4, <1>5, <1>6, OrderedActions

\* Freeing what is below a root frees its tree.
LEMMA DestroyRefines ==
  ASSUME IInv, NEW r \in Item, type[r] \in Living, parent[r] = NULL,
         FreeAll(Below(r, branch)), UNCHANGED <<parent, branch>>
  PROVE  Ordered!Destroy(r)
<1> DEFINE gone == Below(r, branch)
<1>1. Ordered!Tree(r) = gone
  BY TreeIsBelow
<1>2. type' = [i \in Item |-> IF i \in gone THEN "freed" ELSE type[i]]
  BY DEF FreeAll
<1> HIDE DEF gone
<1>3. \A i \in Item : type'[i] \in Living <=> type[i] \in Living /\ i \notin gone
  BY <1>2 DEF Living, Composite
<1>4. Live' = Live \ gone
  BY <1>3 DEF Live, Alive
<1>5. Above' = [i \in Item |-> IF i \in gone THEN NULL ELSE Above[i]]
  BY <1>3 DEF Above, Alive
<1>6. Branches' = [i \in Item |-> IF i \in gone THEN <<>> ELSE Branches[i]]
  BY <1>3 DEF Branches, Alive
<1>7. r \in Live /\ Above[r] = NULL
  BY DEF Above, Live, Alive
<1>8. /\ Live' = Live \ Ordered!Tree(r)
      /\ Above' = [i \in Item |-> IF i \in Ordered!Tree(r) THEN NULL ELSE Above[i]]
      /\ Branches' = [i \in Item |-> IF i \in Ordered!Tree(r) THEN <<>> ELSE Branches[i]]
  BY <1>1, <1>4, <1>5, <1>6
<1> QED
  BY <1>7, <1>8, OrderedActions

\* jscon_delete() frees the tree that the item had before it was dettached.
LEMMA DeleteRefines ==
  ASSUME IInv, NEW x \in Item, type[x] \in Living, parent[x] # NULL, Unlink(x),
         FreeAll(Below(x, branch'))
  PROVE  Ordered!Delete(x)
<1> DEFINE p == parent[x]
           n == Removed(x)
           gone == Below(x, branch')
<1>1. /\ x \in Live /\ Above[x] = p
      /\ parent' = [parent EXCEPT ![x] = NULL]
      /\ n \in DOMAIN Branches[p] /\ Branches[p][n] = x
      /\ \A i \in Live : branch'[i] = [Branches EXCEPT ![p] = RemoveAt(@, n)][i]
  BY UnlinkRefines
<1>2. /\ p \in Item /\ p \in Live /\ parent \in [Item -> Item \cup {NULL}]
      /\ branch \in [Item -> Seq(Item)] /\ ArraysAgree(type, parent, branch)
  BY RemovedIsItem DEF Live, Alive, Living, IInv, TypeOK
<1>3. /\ ArraysAgree(type, parent', branch')
      /\ branch' \in [Item -> Seq(Item)]
      /\ parent' \in [Item -> Item \cup {NULL}]
  BY UnlinkKeepsArrays
<1>4. Ordered!Tree(x) = gone
  <2>1. gone = Hanging(type, parent', x) /\ Below(x, branch) = Hanging(type, parent, x)
    BY <1>2, <1>3, BelowIsHanging
  <2>2. Hanging(type, parent', x) = Hanging(type, parent, x)
    BY <1>1, <1>2, ItemAssumption DEF Hanging
  <2> QED
    BY <2>1, <2>2, TreeIsBelow
<1>5. type' = [i \in Item |-> IF i \in gone THEN "freed" ELSE type[i]] /\ x \in gone
  BY <1>3, BelowProperties DEF FreeAll
<1> HIDE DEF p, n, gone
<1>6. \A i \in Item : type'[i] \in Living <=> type[i] \in Living /\ i \notin gone
  BY <1>5 DEF Living, Composite
<1>7. Live' = Live \ gone
  BY <1>6 DEF Live, Alive
<1>8. Above' = [i \in Item |-> IF i \in gone THEN NULL ELSE Above[i]]
  BY <1>1, <1>2, <1>5, <1>6 DEF Above, Alive
<1>9. Branches' = [i \in Item |-> IF i \in gone THEN <<>>
                                  ELSE [Branches EXCEPT ![p] = RemoveAt(@, n)][i]]
  <2> DEFINE cut == [Branches EXCEPT ![p] = RemoveAt(@, n)]
  <2>1. \A i \in Item : i \notin Live => cut[i] = <<>>
    BY <1>2 DEF Branches, Live
  <2>2. \A i \in Live : branch'[i] = cut[i]
    BY <1>1
  <2> HIDE DEF cut
  <2>3. Branches' = [i \in Item |-> IF i \in gone THEN <<>> ELSE cut[i]]
    BY <1>6, <2>1, <2>2 DEF Branches, Live, Alive
  <2> QED
    BY <2>3 DEF cut
<1>10. Above[x] # NULL
  BY <1>1, <1>2, ItemAssumption
<1> DEFINE Takes(m) ==
             /\ Branches[Above[x]][m] = x
             /\ Live' = Live \ Ordered!Tree(x)
             /\ Above' = [i \in Item |-> IF i \in Ordered!Tree(x) THEN NULL ELSE Above[i]]
             /\ Branches' = [i \in Item |->
                  IF i \in Ordered!Tree(x) THEN <<>>
                  ELSE [Branches EXCEPT ![Above[x]] = RemoveAt(@, m)][i]]
<1>11. Takes(n) /\ n \in DOMAIN Branches[Above[x]]
  BY <1>1, <1>4, <1>7, <1>8, <1>9
<1>12. x \in Live /\ Above[x] # NULL /\ \E m \in DOMAIN Branches[Above[x]] : Takes(m)
  BY <1>1, <1>10, <1>11
<1> QED
  BY <1>12, OrderedActions

\* Where the code destroys a tree, it is that of a live root.
LEMMA DestroyedRoot ==
  ASSUME IInv, NEW x \in Item, \A a \in Upward(x, parent) : Alive(a),
         \E a \in Upward(x, parent) : IsRoot(a)
  PROVE  Root(x) \in Item /\ type[Root(x)] \in Living /\ parent[Root(x)] = NULL
<1>1. Root(x) \in Upward(x, parent) /\ IsRoot(Root(x))
  BY DEF Root
<1>2. Root(x) \in Item
  BY <1>1, UpwardTransitive DEF IInv, TypeOK
<1> QED
  BY <1>1, <1>2 DEF Alive, IsRoot

\* Each action of the forest is a step of it.
LEMMA ForestSteps ==
  ASSUME NEW x \in Item, NEW p \in Item,
         Ordered!Create(x) \/ Ordered!AppendTo(p, x) \/ Ordered!Dettach(x) \/
           Ordered!Delete(x) \/ Ordered!Destroy(x)
  PROVE  Ordered!ForestNext
BY DEF Ordered!ForestNext

\* A step of the tree is one of the forest, or a stutter.
LEMMA NextRefines ==
  ASSUME IInv, [Next]_vars
  PROVE  [Ordered!ForestNext]_(Ordered!forest)
<1> DEFINE Step == Ordered!ForestNext \/ UNCHANGED <<Live, Above, Branches>>
<1>1. ASSUME UNCHANGED <<type, parent, branch>>
      PROVE  Step
  BY <1>1 DEF Live, Above, Branches, Alive
<1> HIDE DEF Step
<1>a. Ordered!ForestNext => Step
  BY DEF Step
<1>2. ASSUME NEW i \in Item, NEW t \in Kind, NEW k \in Name \cup {NULL}, jscon_new(i, t, k)
      PROVE  Step
  BY <1>2, NewRefines, ForestSteps, <1>a
<1>3. ASSUME NEW p \in Item, NEW c \in Item, jscon_append(p, c)
      PROVE  Step
  <2>1. \/ UNCHANGED <<type, parent, branch>>
        \/ /\ type' = type
           /\ parent' = [parent EXCEPT ![c] = p]
           /\ branch' = [branch EXCEPT ![p] = Append(@, c)]
    BY <1>3 DEF jscon_append, Fault, nodes
  <2>2. CanAppend(p, c)
    BY <1>3 DEF jscon_append
  <2> QED
    BY <1>1, <2>1, <2>2, AppendRefines, ForestSteps, <1>a
<1>4. ASSUME NEW p \in Item, NEW c \in Item, jscon_append_oom(p, c)
      PROVE  Step
  BY <1>1, <1>4 DEF jscon_append_oom, nodes
<1>5. ASSUME NEW x \in Item, jscon_dettach(x)
      PROVE  Step
  <2>1. type[x] \in Living /\ parent[x] # NULL
    BY <1>5 DEF jscon_dettach, CanDettach, Alive, IsRoot
  <2>2. UNCHANGED <<type, parent, branch>> \/ (Unlink(x) /\ type' = type)
    BY <1>5 DEF jscon_dettach, Fault, nodes
  <2> QED
    BY <1>1, <2>1, <2>2, DettachRefines, ForestSteps, <1>a
<1>6. ASSUME NEW x \in Item, jscon_destroy(x)
      PROVE  Step
  <2>1. \/ UNCHANGED <<type, parent, branch>>
        \/ /\ \A a \in Upward(x, parent) : Alive(a)
           /\ \E a \in Upward(x, parent) : IsRoot(a)
           /\ FreeAll(Below(Root(x), branch))
           /\ UNCHANGED <<parent, branch>>
    BY <1>6 DEF jscon_destroy, Fault, nodes
  <2> QED
    BY <1>1, <2>1, DestroyedRoot, DestroyRefines, ForestSteps, <1>a
<1>7. ASSUME NEW p \in Item, NEW k \in DOMAIN table[p], jscon_delete(p, k)
      PROVE  Step
  <2> DEFINE x == table[p][k]
  <2>1. x \in Item /\ type[x] \in Living /\ parent[x] # NULL
    BY <1>7 DEF IInv, TypeOK, jscon_delete, CanDettach, Alive, IsRoot
  <2>2. \/ UNCHANGED <<type, parent, branch>>
        \/ Unlink(x) /\ FreeAll(Below(x, branch'))
    BY <1>7 DEF jscon_delete, Fault, nodes
  <2> HIDE DEF x
  <2> QED
    BY <1>1, <2>1, <2>2, DeleteRefines, ForestSteps, <1>a
<1>8. ASSUME NEW p \in Item, NEW k \in DOMAIN table[p], jscon_delete_oom(p, k)
      PROVE  Step
  <2>1. table[p][k] \in Item
    BY DEF IInv, TypeOK
  <2> QED
    BY <1>6, <1>8, <2>1 DEF jscon_delete_oom
<1>9. ASSUME UNCHANGED vars
      PROVE  Step
  BY <1>1, <1>9 DEF vars, nodes
<1>10. Step
  BY <1>2, <1>3, <1>4, <1>5, <1>6, <1>7, <1>8, <1>9 DEF Next
<1> QED
  BY <1>10 DEF Step, Ordered!forest, Live, Above, Branches

(***************************************************************************)
(* To a client that sees parents and branches the tree is a forest of      *)
(* ordered trees: jscon_append() moves one tree, jscon_dettach() takes out *)
(* the item it is called with, jscon_delete() and jscon_destroy() free one *)
(* whole tree and no more, and a call that fails for want of memory does   *)
(* one of these or nothing.                                                *)
(***************************************************************************)
THEOREM TreeImplementsForest ==
  ASSUME "duplicate_keys" \notin Client
  PROVE  Spec => ImplementsForest
<1>1. Init => Ordered!ForestInit
  <2>1. Init => Live = {} /\ Above = [i \in Item |-> NULL] /\ Branches = [i \in Item |-> <<>>]
    BY DEF Init, Live, Above, Branches, Alive, Living, Composite
  <2> QED
    BY <2>1, OrderedActions
<1> QED
  BY <1>1, InitIInv, NextIInv, NextRefines, PTL
     DEF Spec, ImplementsForest, Ordered!ForestSpec
------------------------------------------------------------------------------
(* jscon_get_sibling().                                                    *)

\* A sum wraps at most once.
LEMMA WrapOnce ==
  ASSUME NEW M \in Nat, M > 0, NEW a \in Nat
  PROVE  /\ a < M => a % M = a
         /\ M <= a /\ a < 2 * M => a % M = a - M
<1>1. a < M => a % M = a
  BY SMT
<1>2. M <= a /\ a < 2 * M => a % M = a - M
  BY SMT
<1> QED
  BY <1>1, <1>2

\* An array without repetitions is not longer than there are items.
LEMMA ArrayFits ==
  ASSUME IsFiniteSet(Item), NEW s \in Seq(Item),
         \A i, j \in DOMAIN s : s[i] = s[j] => i = j
  PROVE  Len(s) \in Nat /\ DOMAIN s = 1 .. Len(s) /\ Len(s) <= Cardinality(Item)
<1>1. Len(s) \in Nat /\ DOMAIN s = 1 .. Len(s) /\ \A i \in DOMAIN s : s[i] \in Item
  BY LenProperties
<1>2. s \in Injection(1 .. Len(s), Item)
  BY <1>1 DEF Injection, IsInjective
<1>3. IsFiniteSet(1 .. Len(s)) /\ Cardinality(1 .. Len(s)) = Len(s)
  <2>1. Cardinality(1 .. Len(s)) = IF 1 > Len(s) THEN 0 ELSE Len(s) - 1 + 1
    BY <1>1, FS_Interval
  <2>2. IsFiniteSet(1 .. Len(s))
    BY <1>1, FS_Interval
  <2> HIDE DEF IsFiniteSet
  <2> QED
    BY <1>1, <2>1, <2>2
<1>4. Cardinality(1 .. Len(s)) <= Cardinality(Item)
  BY <1>2, FS_Injection
<1> QED
  BY <1>1, <1>3, <1>4

\* The index that is looked up under the key of an item is the item's.
LEMMA IndexIsPlace ==
  ASSUME IInv, NEW x \in Item, type[x] \in Living, parent[x] # NULL,
         NEW n \in DOMAIN branch[parent[x]], branch[parent[x]][n] = x
  PROVE  item_index(x) = n - 1
<1>1. /\ parent[x] \in Item
      /\ Removed(x) \in DOMAIN branch[parent[x]]
      /\ branch[parent[x]][Removed(x)] = x
  BY RemovedIsItem
<1>2. Removed(x) = n
  BY <1>1 DEF IInv, ArraysAgree
<1>3. key[x] \in DOMAIN table[parent[x]]
  <2>1. type[parent[x]] \in Composite /\ x \in ToSet(branch[parent[x]])
    BY DEF IInv, ArraysAgree
  <2> QED
    BY <1>1, <2>1 DEF IInv, TablesAgree
<1> QED
  BY <1>2, <1>3 DEF Removed, item_index

\* In an array of L branches, which an int can index, the sum is the index of
\* the branch at the distance that is meant, or too large for the array.
LEMMA SumIsPlace ==
  ASSUME NEW L \in Nat, L <= INT_MAX + 1, NEW n \in 1 .. L, NEW r \in SizeT,
         NEW m, m = n + Distance(r),
         NEW index, index = (n - 1 + r) % (SIZE_MAX + 1)
  PROVE  /\ index \in Nat
         /\ m \in 1 .. L => index = m - 1 /\ 0 <= AsInt(index)
         /\ m \notin 1 .. L => L <= index
<1> DEFINE half == SIZE_MAX \div 2
<1>1. /\ SIZE_MAX \in Nat /\ INT_MAX \in Nat /\ 2 * INT_MAX + 1 <= SIZE_MAX
      /\ half \in Nat /\ 2 * half + 1 = SIZE_MAX
  BY WidthAssumption
<1>2. n \in Nat /\ 1 <= n /\ n <= L /\ r \in Nat /\ r <= SIZE_MAX
  BY DEF SizeT
<1>3. m = IF r <= half THEN n + r ELSE n + r - (SIZE_MAX + 1)
  BY <1>1, <1>2 DEF Distance
<1> HIDE DEF half
<1> DEFINE sum == n - 1 + r
           M == SIZE_MAX + 1
<1>4. index = IF sum < M THEN sum ELSE sum - M
  <2>1. sum \in Nat /\ M \in Nat /\ M > 0 /\ sum < 2 * M /\ index = sum % M
    BY <1>1, <1>2
  <2> HIDE DEF sum, M
  <2>2. sum < M \/ M <= sum
    BY <2>1
  <2> QED
    BY <2>1, <2>2, WrapOnce
<1>5. index \in Nat
  BY <1>1, <1>2, <1>4
<1>6. ASSUME m \in 1 .. L
      PROVE  index = m - 1 /\ 0 <= AsInt(index)
  <2>1. index = m - 1
    BY <1>1, <1>2, <1>3, <1>4, <1>6
  <2>2. index <= INT_MAX
    BY <1>1, <1>6, <2>1
  <2>3. index % (2 * INT_MAX + 2) = index
    BY <1>1, <1>5, <2>2, WrapOnce
  <2> QED
    BY <1>5, <2>1, <2>2, <2>3 DEF AsInt
<1>7. ASSUME m \notin 1 .. L
      PROVE  L <= index
  BY <1>1, <1>2, <1>3, <1>4, <1>7
<1> QED
  BY <1>5, <1>6, <1>7

(***************************************************************************)
(* As long as there are no more items than an int can count from zero,     *)
(* jscon_get_sibling() gets the branch at the distance that the relative   *)
(* index means, or NULL, whatever the widths of size_t and int: the sum    *)
(* that wraps around is right, and the cast to int rejects no branch.      *)
(***************************************************************************)
THEOREM SiblingsInPlace ==
  ASSUME "duplicate_keys" \notin Client,
         IsFiniteSet(Item), Cardinality(Item) <= INT_MAX + 1
  PROVE  Spec => []SiblingInPlace
<1>1. ASSUME IInv
      PROVE  SiblingInPlace
  <2> SUFFICES ASSUME NEW x \in Item, type[x] \in Living, parent[x] # NULL,
                      NEW n \in DOMAIN branch[parent[x]], branch[parent[x]][n] = x,
                      NEW r \in SizeT
               PROVE  LET m == n + Distance(r)
                      IN  jscon_get_sibling(x, r) =
                            IF m \in DOMAIN branch[parent[x]]
                              THEN branch[parent[x]][m] ELSE NULL
    BY DEF SiblingInPlace, Alive, IsRoot
  <2> DEFINE b == branch[parent[x]]
             m == n + Distance(r)
             index == (n - 1 + r) % (SIZE_MAX + 1)
  <2>1. /\ parent[x] \in Item /\ type[parent[x]] \in Composite
        /\ b \in Seq(Item)
        /\ \A i, j \in DOMAIN b : b[i] = b[j] => i = j
    BY <1>1, RemovedIsItem DEF IInv, TypeOK, ArraysAgree
  <2>2. Len(b) \in Nat /\ DOMAIN b = 1 .. Len(b) /\ Len(b) <= INT_MAX + 1
    BY <2>1, ArrayFits, FS_CardinalityType, WidthAssumption
  <2>3. item_index(x) = n - 1
    BY <1>1, IndexIsPlace
  <2>4. jscon_get_sibling(x, r) =
          IF 0 <= AsInt(index) /\ Len(b) > index
            THEN IF index < Len(b) THEN b[index + 1] ELSE NULL
            ELSE NULL
    BY <2>1, <2>3 DEF jscon_get_sibling, jscon_size, jscon_get_byindex, IsComposite
  <2>5. /\ index \in Nat
        /\ m \in 1 .. Len(b) => index = m - 1 /\ 0 <= AsInt(index)
        /\ m \notin 1 .. Len(b) => Len(b) <= index
    BY <2>2, SumIsPlace
  <2> HIDE DEF b, index
  <2>6. CASE m \in 1 .. Len(b)
    <3>1. index < Len(b) /\ Len(b) > index /\ index + 1 = m
      BY <2>2, <2>5, <2>6
    <3>2. jscon_get_sibling(x, r) = b[m]
      BY <2>4, <2>5, <2>6, <3>1
    <3> QED
      BY <2>2, <2>6, <3>2 DEF b
  <2>7. CASE m \notin 1 .. Len(b)
    <3>1. ~(Len(b) > index)
      BY <2>2, <2>5, <2>7
    <3>2. jscon_get_sibling(x, r) = NULL
      BY <2>4, <3>1
    <3> QED
      BY <2>2, <2>7, <3>2 DEF b
  <2> QED
    BY <2>6, <2>7
<1> QED
  BY InitIInv, NextIInv, <1>1, PTL DEF Spec
==============================================================================
