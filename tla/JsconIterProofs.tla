--------------------------- MODULE JsconIterProofs ---------------------------
(***************************************************************************)
(* For any items and any loops of the caller, as long as no two of them    *)
(* share the frames of one tree: the frames lead a walk of                 *)
(* jscon_iter_next() to where it is, whatever walks were left before and   *)
(* whatever is appended meanwhile, and what it gets is the tree in order.  *)
(***************************************************************************)
EXTENDS JsconIter, JsconListProofs

(***************************************************************************)
(* The invariant of one walk that began with s and is at c, as a predicate *)
(* on the fields: nothing above s has a frame, and each item from s down   *)
(* to the one above c has the frame of the branch that c is in.            *)
(***************************************************************************)
Leads(pa, br, la, s, c) ==
  \A a \in Upward(c, pa) \ {c} : s \in Upward(a, pa) =>
    la[a] \in DOMAIN br[a] /\ br[a][la[a]] \in Upward(c, pa)

Walked(ty, pa, br, la, s, c) ==
  /\ s \in Item /\ ty[s] \in Living
  /\ c \in Item /\ ty[c] \in Living
  /\ s \in Upward(c, pa)
  /\ \A a \in Upward(s, pa) \ {s} : la[a] = 0
  /\ Leads(pa, br, la, s, c)

Steps(w) == Underway(w) /\ iterates[w] = "items"

EachWalked ==
  \A w \in Walk : Steps(w) => Walked(type, parent, branch, last, start[w], cursor[w])

Apart ==
  \A v, w \in Walk : v # w /\ Steps(v) /\ Steps(w) =>
    Upward(cursor[v], parent) \cap Upward(cursor[w], parent) = {}

IterInv == ForestInv /\ IterTypeOK /\ EachWalked /\ Apart

------------------------------------------------------------------------------
(* Where a walk goes.                                                      *)

LEMMA IterFacts ==
  ASSUME IterInv
  PROVE  /\ type \in [Item -> Living \cup {"unborn", "freed"}]
         /\ parent \in [Item -> Item \cup {NULL}]
         /\ branch \in [Item -> Seq(Item)]
         /\ next \in [Item -> Item \cup {NULL}]
         /\ last \in [Item -> Nat]
         /\ ArraysAgree(type, parent, branch)
         /\ Climbs(type, parent)
BY DEF IterInv, ForestInv, IInv, TypeOK, IterTypeOK

\* Of some items above c, one is below the others.
LEMMA LowestOf ==
  ASSUME NEW pa \in [Item -> Item \cup {NULL}], NEW c \in Item,
         NEW H \in SUBSET Upward(c, pa), H # {}
  PROVE  \E a \in H : H \subseteq Upward(a, pa)
<1> SUFFICES ASSUME \A a \in H : ~(H \subseteq Upward(a, pa)) PROVE FALSE
  OBVIOUS
<1> DEFINE S == {i \in Item : H \subseteq Upward(i, pa)}
<1>1. S \in SUBSET Item /\ c \in S
  OBVIOUS
<1>2. ASSUME NEW i \in S, pa[i] # NULL
      PROVE  pa[i] \in S
  <2>1. i \notin H /\ H \subseteq Upward(i, pa)
    OBVIOUS
  <2>2. Upward(i, pa) = {i} \cup Upward(pa[i], pa) /\ pa[i] \in Item
    BY <1>2, UpwardStep
  <2> QED
    BY <2>1, <2>2
<1>3. Upward(c, pa) \subseteq S
  <2> HIDE DEF S
  <2> QED
    BY <1>1, <1>2, UpwardProperties
<1> QED
  BY <1>3

\* A branch is not above the item it is of, and that item is what is above it.
BranchOf(ty, pa, a, b) ==
  /\ b \in Item /\ ty[b] \in Living /\ pa[b] = a
  /\ b \notin Upward(a, pa) /\ b # a
  /\ Upward(b, pa) = {b} \cup Upward(a, pa)

LEMMA BranchIsBranch ==
  ASSUME IterInv, NEW a \in Item, type[a] \in Living, NEW b \in ToSet(branch[a])
  PROVE  BranchOf(type, parent, a, b)
<1>0. /\ parent \in [Item -> Item \cup {NULL}]
      /\ branch \in [Item -> Seq(Item)]
      /\ ArraysAgree(type, parent, branch)
      /\ Climbs(type, parent)
  BY IterFacts
<1>1. branch[a] \in Seq(Item) /\ b \in Item
  BY <1>0 DEF ToSet
<1>2. type[b] \in Living /\ parent[b] = a
  BY <1>0 DEF ArraysAgree
<1>3. parent[b] # NULL /\ \E r \in Upward(b, parent) : parent[r] = NULL
  BY <1>0, <1>1, <1>2, ItemAssumption DEF Climbs
<1>4. b \notin Upward(a, parent)
  BY <1>0, <1>1, <1>2, <1>3, NoItemAboveParent
<1>5. Upward(b, parent) = {b} \cup Upward(a, parent)
  BY <1>0, <1>1, <1>2, <1>3, UpwardStep
<1>6. a \in Upward(a, parent)
  BY <1>0, UpwardProperties
<1> QED
  BY <1>1, <1>2, <1>4, <1>5, <1>6 DEF BranchOf

LEMMA BranchAt ==
  ASSUME IterInv, NEW a \in Item, type[a] \in Living, NEW n \in DOMAIN branch[a]
  PROVE  BranchOf(type, parent, a, branch[a][n])
<1>1. branch[a][n] \in ToSet(branch[a])
  BY DEF ToSet
<1> QED
  BY <1>1, BranchIsBranch

\* What _jscon_push() makes of the frames.
PushedFrames(c, a, n) ==
  [i \in Item |->
     IF i = a THEN n + 1
     ELSE IF i = branch[a][n + 1] \/ i \in Upward(c, parent) \ Upward(a, parent) THEN 0
     ELSE last[i]]

\* The walk is at its last leaf: it ends.
Ends(w) ==
  LET c == cursor[w]
  IN  /\ IsLeaf(c)
      /\ \A q \in Upward(c, parent) \ {c} :
           start[w] \in Upward(q, parent) => last[q] = Len(branch[q])
      /\ last' = [i \in Item |-> IF i \in Upward(c, parent) THEN 0 ELSE last[i]]
      /\ Returns(w, NULL)

\* The walk goes on with the branch of a after the first n.
GoesOn(w, a, n) ==
  LET c == cursor[w]
  IN  /\ a \in Upward(c, parent) /\ start[w] \in Upward(a, parent)
      /\ n \in Nat /\ n + 1 \in DOMAIN branch[a]
      /\ \/ a = c /\ n = 0
         \/ /\ a # c /\ n = last[a] /\ n \in DOMAIN branch[a]
            /\ IsLeaf(c)
            /\ \A q \in Upward(c, parent) \ ({c} \cup Upward(a, parent)) :
                 last[q] = Len(branch[q])
      /\ last' = PushedFrames(c, a, n)
      /\ Returns(w, branch[a][n + 1])

\* _jscon_push() as it is called: it does not abort.
LEMMA PushGoesOn ==
  ASSUME IterInv, NEW w \in Walk, Steps(w),
         NEW a \in Upward(cursor[w], parent), NEW n \in Nat, n + 1 \in DOMAIN branch[a],
         NEW frame \in [Item -> Nat], frame[a] = n,
         \A i \in Item \ {a} : frame[i] =
           IF i \in Upward(cursor[w], parent) \ Upward(a, parent) THEN 0 ELSE last[i],
         Push(w, a, frame)
  PROVE  /\ UNCHANGED vars
         /\ last' = PushedFrames(cursor[w], a, n)
         /\ Returns(w, branch[a][n + 1])
<1> DEFINE c == cursor[w]
           b == branch[a][n + 1]
<1>1. /\ c \in Item /\ type[c] \in Living /\ a \in Item
      /\ parent \in [Item -> Item \cup {NULL}]
      /\ branch \in [Item -> Seq(Item)]
      /\ ArraysAgree(type, parent, branch)
      /\ Climbs(type, parent)
  BY IterFacts, UpwardProperties DEF IterInv, EachWalked, Walked
<1>2. type[a] \in Living
  BY <1>1, AllAlive
<1>3. b \in Item /\ b # a
  BY <1>1, <1>2, BranchAt DEF BranchOf
<1>4. ~(frame[a] >= Len(branch[a]))
  BY <1>1
<1>5. /\ last' = [frame EXCEPT ![a] = frame[a] + 1, ![b] = 0]
      /\ Returns(w, b)
      /\ UNCHANGED vars
  BY <1>4 DEF Push
<1>6. [frame EXCEPT ![a] = frame[a] + 1, ![b] = 0] = PushedFrames(c, a, n)
  BY <1>1, <1>3 DEF PushedFrames
<1> QED
  BY <1>5, <1>6

\* A call of jscon_iter_next() does one of the two.
LEMMA IterNextOutcome ==
  ASSUME IterInv, NEW w \in Walk, jscon_iter_next(w)
  PROVE  /\ UNCHANGED vars
         /\ Ends(w) \/ \E a \in Item, n \in Nat : GoesOn(w, a, n)
<1> DEFINE c == cursor[w]
           s == start[w]
           frame == [last EXCEPT ![c] = 0]
<1>1. Steps(w) /\ Walked(type, parent, branch, last, s, c)
  BY DEF jscon_iter_next, Steps, IterInv, EachWalked
<1>2. /\ parent \in [Item -> Item \cup {NULL}]
      /\ branch \in [Item -> Seq(Item)]
      /\ last \in [Item -> Nat]
      /\ ArraysAgree(type, parent, branch)
      /\ Climbs(type, parent)
      /\ type \in [Item -> Living \cup {"unborn", "freed"}]
  BY IterFacts
<1>3. /\ c \in Item /\ type[c] \in Living /\ s \in Item /\ s \in Upward(c, parent)
      /\ \A a \in Upward(s, parent) \ {s} : last[a] = 0
      /\ \A a \in Upward(c, parent) \ {c} : s \in Upward(a, parent) =>
           last[a] \in DOMAIN branch[a]
  BY <1>1 DEF Walked, Leads
<1>4. /\ c \in Upward(c, parent) /\ Upward(c, parent) \subseteq Item
      /\ s \in Upward(s, parent)
  BY <1>2, <1>3, UpwardProperties
<1>5. frame \in [Item -> Nat] /\ frame[c] = 0 /\ \A i \in Item \ {c} : frame[i] = last[i]
  BY <1>2, <1>3
<1>6. CASE ~IsLeaf(c)
  <2>1. Push(w, c, frame)
    BY <1>6 DEF jscon_iter_next
  <2>2. 0 \in Nat /\ 0 + 1 \in DOMAIN branch[c]
    BY <1>2, <1>3, <1>6 DEF IsLeaf
  <2>3. \A i \in Item \ {c} : frame[i] =
          IF i \in Upward(cursor[w], parent) \ Upward(c, parent) THEN 0 ELSE last[i]
    BY <1>5
  <2>4. /\ UNCHANGED vars
        /\ last' = PushedFrames(c, c, 0)
        /\ Returns(w, branch[c][0 + 1])
    <3> HIDE DEF frame
    <3> QED
      BY <1>1, <1>4, <1>5, <2>1, <2>2, <2>3, PushGoesOn
  <2>5. GoesOn(w, c, 0)
    BY <1>3, <1>4, <2>2, <2>4 DEF GoesOn
  <2> QED
    BY <1>3, <2>4, <2>5
<1>7. CASE IsLeaf(c)
  <2> DEFINE above == Upward(c, parent) \ {c}
             halts == {a \in above : frame[a] = 0 \/ frame[a] # Len(branch[a])}
             a == CHOOSE a \in halts : halts \subseteq Upward(a, parent)
  <2>1. Climb(w, c, frame)
    BY <1>7 DEF jscon_iter_next
  <2>3. CASE halts = {}
    <3>1. /\ last' = Popped(frame, {c} \cup above)
          /\ Returns(w, NULL)
          /\ UNCHANGED vars
      BY <2>1, <2>3 DEF Climb
    <3>2. Popped(frame, {c} \cup above) =
            [i \in Item |-> IF i \in Upward(c, parent) THEN 0 ELSE last[i]]
      BY <1>4, <1>5 DEF Popped
    <3>3. \A q \in above : s \in Upward(q, parent) => last[q] = Len(branch[q])
      BY <1>4, <1>5, <2>3
    <3>4. Ends(w)
      BY <1>7, <3>1, <3>2, <3>3 DEF Ends
    <3> QED
      BY <3>1, <3>4
  <2>4. CASE halts # {}
    <3>1. a \in halts /\ halts \subseteq Upward(a, parent)
      <4>1. halts \in SUBSET Upward(c, parent)
        OBVIOUS
      <4>2. \E i \in halts : halts \subseteq Upward(i, parent)
        <5>1. parent \in [Item -> Item \cup {NULL}] /\ c \in Item
          BY <1>2, <1>3
        <5> HIDE DEF halts, above, a, frame, c
        <5> QED
          BY <2>4, <4>1, <5>1, LowestOf
      <4> QED
        BY <4>2
    <3> DEFINE popped == Popped(frame, {c} \cup (above \ Upward(a, parent)))
    <3>2. /\ frame[a] = 0 => last' = popped /\ Returns(w, NULL) /\ UNCHANGED vars
          /\ frame[a] # 0 => Push(w, a, popped)
      BY <2>1, <2>4 DEF Climb
    <3> HIDE DEF a
    <3>3. /\ a \in Item /\ a # c /\ frame[a] = last[a]
          /\ a \in Upward(c, parent) /\ Upward(a, parent) \subseteq Upward(c, parent)
          /\ a \in Upward(a, parent)
      BY <1>2, <1>3, <1>4, <1>5, <3>1, UpwardTransitive, UpwardProperties
    <3>4. c \notin Upward(a, parent)
      BY <1>2, <1>3, <3>3, UpwardOneWay DEF Climbs
    <3>5. \A i \in Item : popped[i] =
            IF i \in Upward(c, parent) \ Upward(a, parent) THEN 0 ELSE last[i]
      BY <1>4, <1>5, <3>4 DEF Popped
    <3>6. \A q \in Upward(c, parent) \ ({c} \cup Upward(a, parent)) : last[q] = Len(branch[q])
      BY <1>4, <1>5, <3>1
    <3>7. a \in Upward(s, parent) \/ s \in Upward(a, parent)
      BY <1>2, <1>3, <3>3, UpwardLinear
    <3>8. CASE frame[a] = 0
      <4>1. s \notin Upward(a, parent)
        BY <1>2, <1>3, <3>3, <3>8
      <4>2. a \in Upward(s, parent)
        BY <3>7, <4>1
      <4>3. ASSUME NEW i \in Upward(a, parent)
            PROVE  last[i] = 0
        <5>1. i \in Upward(s, parent)
          BY <1>2, <1>3, <4>2, UpwardTransitive
        <5>2. i # s
          BY <4>1
        <5> QED
          BY <1>3, <5>1, <5>2
      <4>4. popped = [i \in Item |-> IF i \in Upward(c, parent) THEN 0 ELSE last[i]]
        BY <1>4, <3>3, <3>5, <4>3 DEF Popped
      <4>5. \A q \in above : s \in Upward(q, parent) => last[q] = Len(branch[q])
        <5>1. \A q \in Upward(a, parent) : s \notin Upward(q, parent)
          BY <1>2, <3>3, <4>1, UpwardTransitive
        <5> QED
          BY <3>6, <5>1
      <4>6. Ends(w)
        BY <1>7, <3>2, <3>8, <4>4, <4>5 DEF Ends
      <4> QED
        BY <3>2, <3>8, <4>6
    <3>9. CASE frame[a] # 0
      <4>1. s \in Upward(a, parent)
        BY <1>3, <3>3, <3>7, <3>9, <1>2, UpwardProperties
      <4>2. last[a] \in DOMAIN branch[a] /\ last[a] # Len(branch[a])
        BY <1>3, <3>1, <3>3, <3>9, <4>1
      <4>3. last[a] \in Nat /\ last[a] + 1 \in DOMAIN branch[a]
        BY <1>2, <3>3, <4>2
      <4>4. popped \in [Item -> Nat]
        BY <1>5 DEF Popped
      <4>5. popped[a] = last[a]
        BY <3>3, <3>5
      <4>6. /\ UNCHANGED vars
            /\ last' = PushedFrames(c, a, last[a])
            /\ Returns(w, branch[a][last[a] + 1])
        <5>1. Push(w, a, popped) /\ a \in Upward(cursor[w], parent)
          BY <3>2, <3>3, <3>9
        <5>2. \A i \in Item \ {a} : popped[i] =
                IF i \in Upward(cursor[w], parent) \ Upward(a, parent) THEN 0 ELSE last[i]
          BY <3>5
        <5> HIDE DEF popped
        <5> QED
          BY <1>1, <4>3, <4>4, <4>5, <5>1, <5>2, PushGoesOn
      <4>7. GoesOn(w, a, last[a])
        BY <1>7, <3>3, <3>6, <4>1, <4>2, <4>3, <4>6 DEF GoesOn
      <4> QED
        BY <3>3, <4>3, <4>6, <4>7
    <3> QED
      BY <3>8, <3>9
  <2> QED
    BY <2>3, <2>4
<1> QED
  BY <1>6, <1>7

------------------------------------------------------------------------------
(* The frames of a walk.                                                   *)

LEMMA WalkOf ==
  ASSUME IterInv, NEW w \in Walk, Steps(w)
  PROVE  Walked(type, parent, branch, last, start[w], cursor[w])
BY DEF IterInv, EachWalked

\* Above the item that a walk is at, it finds live items.
LEMMA AboveWalk ==
  ASSUME IterInv, NEW w \in Walk, Steps(w), NEW a \in Upward(cursor[w], parent)
  PROVE  /\ a \in Item /\ type[a] \in Living
         /\ Upward(a, parent) \subseteq Upward(cursor[w], parent)
<1>1. cursor[w] \in Item /\ type[cursor[w]] \in Living
  BY WalkOf DEF Walked
<1>2. /\ parent \in [Item -> Item \cup {NULL}]
      /\ branch \in [Item -> Seq(Item)]
      /\ ArraysAgree(type, parent, branch)
  BY IterFacts
<1>3. a \in Item /\ Upward(a, parent) \subseteq Upward(cursor[w], parent)
  BY <1>1, <1>2, UpwardTransitive
<1> QED
  BY <1>1, <1>2, <1>3, AllAlive

\* Of two live items only one is above the other.
LEMMA OneWay ==
  ASSUME IterInv, NEW a \in Item, NEW b \in Item, type[a] \in Living,
         a \in Upward(b, parent), b \in Upward(a, parent)
  PROVE  a = b
BY IterFacts, UpwardOneWay DEF Climbs

\* A walk depends on the frames of the items above it only.
LEMMA SameFrames ==
  ASSUME IterInv, NEW s, NEW c, Walked(type, parent, branch, last, s, c),
         NEW la, \A i \in Upward(c, parent) : la[i] = last[i]
  PROVE  Walked(type, parent, branch, la, s, c)
<1>1. Upward(s, parent) \subseteq Upward(c, parent)
  BY IterFacts, UpwardTransitive DEF Walked
<1> QED
  BY <1>1 DEF Walked, Leads

LEMMA WalkGoesOn ==
  ASSUME IterInv, NEW w \in Walk, Steps(w), NEW a \in Item, NEW n \in Nat, GoesOn(w, a, n)
  PROVE  /\ BranchOf(type, parent, a, branch[a][n + 1])
         /\ Walked(type, parent, branch, last', start[w], branch[a][n + 1])
<1> DEFINE c == cursor[w]
           s == start[w]
           b == branch[a][n + 1]
<1>1. /\ Walked(type, parent, branch, last, s, c)
      /\ parent \in [Item -> Item \cup {NULL}]
  BY WalkOf, IterFacts
<1>2. /\ a \in Upward(c, parent) /\ s \in Upward(a, parent)
      /\ n + 1 \in DOMAIN branch[a]
      /\ last' = PushedFrames(c, a, n)
  BY DEF GoesOn
<1>3. type[a] \in Living /\ a \in Upward(a, parent)
  BY <1>1, <1>2, AboveWalk, UpwardProperties
<1>4. BranchOf(type, parent, a, b)
  BY <1>2, <1>3, BranchAt
<1>5. /\ s \in Item /\ type[s] \in Living /\ c \in Item
      /\ Upward(a, parent) \subseteq Item
      /\ Upward(s, parent) \subseteq Upward(a, parent)
      /\ \A q \in Upward(s, parent) \ {s} : last[q] = 0
  BY <1>1, <1>2, UpwardTransitive, UpwardProperties DEF Walked
<1>6. \A q \in Upward(a, parent) \ {a} : last'[q] = last[q]
  BY <1>2, <1>4, <1>5 DEF PushedFrames, BranchOf
<1>7. ASSUME NEW q \in Upward(s, parent) \ {s}
      PROVE  last'[q] = 0
  <2>1. q # a
    BY <1>2, <1>3, <1>5, <1>7, OneWay
  <2> QED
    BY <1>5, <1>6, <2>1
<1>8. ASSUME NEW q \in Upward(b, parent) \ {b}, s \in Upward(q, parent)
      PROVE  last'[q] \in DOMAIN branch[q] /\ branch[q][last'[q]] \in Upward(b, parent)
  <2>1. q \in Upward(a, parent) /\ q \in Item
    BY <1>4, <1>5 DEF BranchOf
  <2>2. CASE q = a
    BY <1>2, <1>3, <1>4, <2>2 DEF PushedFrames, BranchOf
  <2>3. CASE q # a
    <3> DEFINE d == branch[q][last[q]]
    <3>1. q \in Upward(c, parent) /\ type[q] \in Living
      BY <1>2, <2>1, AboveWalk
    <3>2. q # c
      BY <1>2, <1>3, <1>5, <2>1, <2>3, OneWay
    <3>3. last[q] \in DOMAIN branch[q] /\ d \in Upward(c, parent)
      BY <1>1, <1>8, <3>1, <3>2 DEF Walked, Leads
    <3>4. BranchOf(type, parent, q, d)
      BY <2>1, <3>1, <3>3, BranchAt
    <3>5. d \in Upward(a, parent) \/ a \in Upward(d, parent)
      BY <1>1, <1>2, <1>5, <3>3, UpwardLinear
    <3>6. a \in Upward(q, parent) => a = q
      BY <1>3, <2>1, OneWay
    <3>7. d \in Upward(a, parent)
      BY <1>3, <2>3, <3>4, <3>5, <3>6 DEF BranchOf
    <3> QED
      BY <1>4, <1>6, <2>1, <2>3, <3>3, <3>7 DEF BranchOf
  <2> QED
    BY <2>2, <2>3
<1>9. s \in Upward(b, parent)
  BY <1>2, <1>4 DEF BranchOf
<1> QED
  BY <1>4, <1>5, <1>7, <1>8, <1>9 DEF Walked, Leads, BranchOf

\* The frames that a call changes are above the item it is called with, or
\* the one of the item it gets.
LEMMA OthersKept ==
  ASSUME IterInv, NEW v \in Walk, NEW w \in Walk, v # w, Steps(v), Steps(w),
         jscon_iter_next(w)
  PROVE  /\ Walked(type, parent, branch, last', start[v], cursor[v])
         /\ \A a \in Item, n \in Nat : GoesOn(w, a, n) =>
              Upward(cursor[v], parent) \cap Upward(branch[a][n + 1], parent) = {}
<1>1. /\ Upward(cursor[v], parent) \cap Upward(cursor[w], parent) = {}
      /\ Walked(type, parent, branch, last, start[v], cursor[v])
      /\ parent \in [Item -> Item \cup {NULL}]
  BY WalkOf, IterFacts DEF IterInv, Apart
<1>2. /\ Upward(cursor[v], parent) \subseteq Item
      /\ \A i \in Upward(cursor[v], parent) : parent[i] # NULL =>
           parent[i] \in Upward(cursor[v], parent)
  BY <1>1, UpwardProperties DEF Walked
<1>3. ASSUME NEW a \in Item, NEW n \in Nat, GoesOn(w, a, n)
      PROVE  Upward(cursor[v], parent) \cap Upward(branch[a][n + 1], parent) = {}
  <2>1. BranchOf(type, parent, a, branch[a][n + 1]) /\ a \in Upward(cursor[w], parent)
    BY <1>3, WalkGoesOn DEF GoesOn
  <2>2. Upward(a, parent) \subseteq Upward(cursor[w], parent)
    BY <2>1, AboveWalk
  <2>3. branch[a][n + 1] \notin Upward(cursor[v], parent)
    BY <1>1, <1>2, <2>1, ItemAssumption DEF BranchOf
  <2> QED
    BY <1>1, <2>1, <2>2, <2>3 DEF BranchOf
<1>4. ASSUME NEW i \in Upward(cursor[v], parent)
      PROVE  last'[i] = last[i]
  <2>1. i \in Item /\ i \notin Upward(cursor[w], parent)
    BY <1>1, <1>2
  <2>2. CASE Ends(w)
    BY <2>1, <2>2 DEF Ends
  <2>3. ASSUME NEW a \in Item, NEW n \in Nat, GoesOn(w, a, n)
        PROVE  last'[i] = last[i]
    <3>1. last' = PushedFrames(cursor[w], a, n) /\ a \in Upward(cursor[w], parent)
      BY <2>3 DEF GoesOn
    <3>2. BranchOf(type, parent, a, branch[a][n + 1])
      BY <2>3, WalkGoesOn
    <3>3. branch[a][n + 1] \in Upward(branch[a][n + 1], parent)
      BY <3>2 DEF BranchOf
    <3>4. i # branch[a][n + 1]
      BY <1>3, <2>3, <3>3
    <3> QED
      BY <2>1, <3>1, <3>4 DEF PushedFrames
  <2> QED
    BY <2>2, <2>3, IterNextOutcome
<1>5. Walked(type, parent, branch, last', start[v], cursor[v])
  BY <1>1, <1>4, SameFrames
<1> QED
  BY <1>3, <1>5

------------------------------------------------------------------------------
(* Every step preserves the invariant.                                     *)

LEMMA InitIterInv == IterInit => IterInv
<1> SUFFICES ASSUME IterInit PROVE IterInv
  OBVIOUS
<1>1. IterTypeOK
  BY DEF IterInit, IterTypeOK
<1>2. \A w \in Walk : ~Steps(w)
  BY DEF IterInit, Steps, Underway
<1> QED
  BY <1>1, <1>2, InitForestInv DEF IterInit, IterInv, EachWalked, Apart

LEMMA IterNextSteps ==
  ASSUME IterInv, NEW w \in Walk, jscon_iter_next(w)
  PROVE  UNCHANGED vars /\ IterTypeOK' /\ EachWalked' /\ Apart'
<1>0. /\ UNCHANGED vars /\ UNCHANGED <<type, parent, branch>>
      /\ Ends(w) \/ \E a \in Item, n \in Nat : GoesOn(w, a, n)
      /\ Steps(w)
  BY IterNextOutcome DEF vars, nodes, jscon_iter_next, Steps
<1>1. IterTypeOK /\ last \in [Item -> Nat]
  BY DEF IterInv, IterTypeOK
<1>2. ASSUME NEW x \in Item \cup {NULL}, Returns(w, x), last' \in [Item -> Nat]
      PROVE  IterTypeOK'
  <2>1. visited'[w] \subseteq Item /\ visited' \in [Walk -> SUBSET Item]
    BY <1>1, <1>2 DEF Returns, IterTypeOK
  <2>2. cursor' \in [Walk -> Item \cup {NULL}]
    BY <1>1, <1>2 DEF Returns, IterTypeOK
  <2> QED
    BY <1>1, <1>2, <2>1, <2>2 DEF Returns, IterTypeOK
<1>3. ASSUME NEW x \in Item \cup {NULL}, Returns(w, x)
      PROVE  /\ start' = start /\ iterates' = iterates
             /\ cursor'[w] = x /\ \A v \in Walk \ {w} : cursor'[v] = cursor[v]
             /\ \A v \in Walk \ {w} : Steps(v)' <=> Steps(v)
  BY <1>1, <1>3 DEF Returns, IterTypeOK, Steps, Underway
<1>4. \A v \in Walk \ {w} : Steps(v) =>
        Walked(type, parent, branch, last', start[v], cursor[v])
  BY <1>0, OthersKept
<1>5. CASE Ends(w)
  <2>1. Returns(w, NULL) /\ last' \in [Item -> Nat]
    BY <1>1, <1>5 DEF Ends
  <2>2. IterTypeOK'
    BY <1>2, <2>1
  <2>3. /\ start' = start /\ ~Steps(w)'
        /\ \A v \in Walk \ {w} : cursor'[v] = cursor[v] /\ (Steps(v)' <=> Steps(v))
    BY <1>3, <2>1 DEF Steps, Underway
  <2>4. EachWalked'
    BY <1>0, <1>4, <2>3 DEF EachWalked
  <2>5. Apart'
    BY <1>0, <2>3 DEF Apart, IterInv
  <2> QED
    BY <1>0, <2>2, <2>4, <2>5
<1>6. ASSUME NEW a \in Item, NEW n \in Nat, GoesOn(w, a, n)
      PROVE  IterTypeOK' /\ EachWalked' /\ Apart'
  <2> DEFINE b == branch[a][n + 1]
  <2>1. BranchOf(type, parent, a, b) /\ Walked(type, parent, branch, last', start[w], b)
    BY <1>0, <1>6, WalkGoesOn
  <2>2. b \in Item /\ Returns(w, b)
    BY <1>6, <2>1 DEF BranchOf, GoesOn
  <2>3. last' \in [Item -> Nat]
    BY <1>1, <1>6 DEF GoesOn, PushedFrames
  <2>4. IterTypeOK'
    BY <1>2, <2>2, <2>3
  <2>5. /\ start' = start /\ cursor'[w] = b
        /\ \A v \in Walk \ {w} : cursor'[v] = cursor[v] /\ (Steps(v)' <=> Steps(v))
    BY <1>3, <2>2
  <2>6. \A v \in Walk \ {w} : Steps(v) =>
          Upward(cursor[v], parent) \cap Upward(b, parent) = {}
    BY <1>0, <1>6, OthersKept
  <2> HIDE DEF b
  <2>7. EachWalked'
    BY <1>0, <1>4, <2>1, <2>5 DEF EachWalked
  <2>8. Apart'
    <3>1. SUFFICES ASSUME NEW u \in Walk, NEW v \in Walk, u # v, Steps(u)', Steps(v)'
                   PROVE  Upward(cursor'[u], parent) \cap Upward(cursor'[v], parent) = {}
      BY <1>0 DEF Apart
    <3>2. CASE u = w
      BY <2>5, <2>6, <3>1, <3>2
    <3>3. CASE v = w
      BY <2>5, <2>6, <3>1, <3>3
    <3>4. CASE u # w /\ v # w
      BY <2>5, <3>1, <3>4 DEF Apart, IterInv
    <3> QED
      BY <3>2, <3>3, <3>4
  <2> QED
    BY <2>4, <2>7, <2>8
<1> QED
  BY <1>0, <1>5, <1>6

LEMMA CompositeSteps ==
  ASSUME IterInv, NEW w \in Walk, jscon_iter_composite_r(w)
  PROVE  UNCHANGED vars /\ IterTypeOK' /\ EachWalked' /\ Apart'
<1>1. /\ UNCHANGED vars /\ UNCHANGED <<type, parent, branch, last>>
      /\ ~Steps(w) /\ cursor[w] # NULL
      /\ Returns(w, next[cursor[w]])
  BY DEF jscon_iter_composite_r, vars, nodes, Steps, Underway
<1>2. IterTypeOK /\ next[cursor[w]] \in Item \cup {NULL}
  BY <1>1, IterFacts DEF IterInv, IterTypeOK
<1>3. /\ start' = start /\ iterates' = iterates
      /\ \A v \in Walk \ {w} : cursor'[v] = cursor[v]
  BY <1>1, <1>2 DEF Returns, IterTypeOK
<1>4. ~Steps(w)' /\ \A v \in Walk \ {w} : Steps(v)' <=> Steps(v)
  BY <1>1, <1>3 DEF Steps, Underway, jscon_iter_composite_r
<1>5. IterTypeOK'
  <2>1. visited' \in [Walk -> SUBSET Item] /\ cursor' \in [Walk -> Item \cup {NULL}]
    BY <1>1, <1>2 DEF Returns, IterTypeOK
  <2> QED
    BY <1>1, <1>2, <2>1 DEF Returns, IterTypeOK
<1> QED
  BY <1>1, <1>3, <1>4, <1>5 DEF IterInv, EachWalked, Apart

\* Where two items have different roots, nothing is above both.
LEMMA RootsDiffer ==
  ASSUME IterInv, NEW x \in Item, NEW y \in Item, type[x] \in Living,
         Root(x) # Root(y), NEW z \in Upward(x, parent), z \in Upward(y, parent)
  PROVE  FALSE
<1>1. /\ parent \in [Item -> Item \cup {NULL}]
      /\ branch \in [Item -> Seq(Item)]
      /\ ArraysAgree(type, parent, branch)
      /\ Climbs(type, parent)
  BY IterFacts
<1>2. z \in Item /\ type[z] \in Living
  BY <1>1, AllAlive, UpwardTransitive
<1>3. PICK r \in Upward(z, parent) : parent[r] = NULL
  BY <1>1, <1>2 DEF Climbs
<1>4. r \in Upward(x, parent) /\ r \in Upward(y, parent)
  BY <1>1, <1>3, UpwardTransitive
<1>5. \A q \in Upward(x, parent) : parent[q] = NULL => q = r
  BY <1>1, <1>3, <1>4, RootUnique
<1>6. \A q \in Upward(y, parent) : parent[q] = NULL => q = r
  BY <1>1, <1>3, <1>4, RootUnique
<1> QED
  BY <1>3, <1>4, <1>5, <1>6 DEF Root, IsRoot

LEMMA BeginSteps ==
  ASSUME "shared" \notin Habit, IterInv, NEW w \in Walk, NEW x \in Item,
         NEW what \in {"items", "composites"}, begin(w, x, what)
  PROVE  UNCHANGED vars /\ IterTypeOK' /\ EachWalked' /\ Apart'
<1>1. /\ UNCHANGED vars /\ UNCHANGED <<type, parent, branch, last>>
      /\ type[x] \in Living
      /\ what = "items" => \A a \in Upward(x, parent) \ {x} : last[a] = 0
      /\ \A v \in Walk : Underway(v) => Root(cursor[v]) # Root(x)
      /\ ~Underway(w)
  BY DEF begin, vars, nodes, Alive
<1>2. IterTypeOK /\ parent \in [Item -> Item \cup {NULL}] /\ branch \in [Item -> Seq(Item)]
  BY IterFacts DEF IterInv
<1>3. /\ iterates'[w] = what /\ start'[w] = x /\ cursor'[w] = x
      /\ \A v \in Walk \ {w} : /\ iterates'[v] = iterates[v]
                               /\ start'[v] = start[v] /\ cursor'[v] = cursor[v]
  BY <1>2 DEF begin, IterTypeOK
<1>4. IterTypeOK'
  <2>1. Below(x, branch) \subseteq Item
    BY <1>2, BelowProperties
  <2>2. known' \in [Walk -> SUBSET Item]
    BY <1>2, <2>1 DEF begin, IterTypeOK
  <2>3. visited' \in [Walk -> SUBSET Item]
    BY <1>2 DEF begin, IterTypeOK
  <2>4. /\ iterates' \in [Walk -> {"items", "composites"}]
        /\ start' \in [Walk -> Item \cup {NULL}]
        /\ cursor' \in [Walk -> Item \cup {NULL}]
    BY <1>2 DEF begin, IterTypeOK
  <2> QED
    BY <1>1, <1>2, <2>2, <2>3, <2>4 DEF IterTypeOK
<1>5. what = "items" => Walked(type, parent, branch, last, x, x)
  <2>1. x \in Upward(x, parent) /\ Upward(x, parent) \subseteq Item
    BY <1>2, UpwardProperties
  <2>2. \A a \in Upward(x, parent) \ {x} : x \notin Upward(a, parent)
    BY <1>1, <2>1, OneWay
  <2> QED
    BY <1>1, <2>1, <2>2 DEF Walked, Leads
<1>6. /\ \A v \in Walk \ {w} : Steps(v)' <=> Steps(v)
      /\ Steps(w)' => what = "items"
  BY <1>3 DEF Steps, Underway
<1>7. EachWalked'
  BY <1>1, <1>3, <1>5, <1>6 DEF EachWalked, IterInv
<1>8. ASSUME NEW v \in Walk \ {w}, Steps(v)
      PROVE  Upward(cursor[v], parent) \cap Upward(x, parent) = {}
  <2>1. cursor[v] \in Item /\ type[cursor[v]] \in Living /\ Root(cursor[v]) # Root(x)
    BY <1>1, <1>8, WalkOf DEF Walked, Steps
  <2> QED
    BY <2>1, RootsDiffer
<1>9. Apart'
  <2>1. SUFFICES ASSUME NEW u \in Walk, NEW v \in Walk, u # v, Steps(u)', Steps(v)'
                 PROVE  Upward(cursor'[u], parent) \cap Upward(cursor'[v], parent) = {}
    BY <1>1 DEF Apart
  <2>2. CASE u = w
    BY <1>3, <1>6, <1>8, <2>1, <2>2
  <2>3. CASE v = w
    BY <1>3, <1>6, <1>8, <2>1, <2>3
  <2>4. CASE u # w /\ v # w
    BY <1>3, <1>6, <2>1, <2>4 DEF Apart, IterInv
  <2> QED
    BY <2>2, <2>3, <2>4
<1> QED
  BY <1>1, <1>4, <1>7, <1>9

LEMMA StopSteps ==
  ASSUME IterInv, NEW w \in Walk, stop(w)
  PROVE  UNCHANGED vars /\ IterTypeOK' /\ EachWalked' /\ Apart'
<1>1. /\ UNCHANGED vars /\ UNCHANGED <<type, parent, branch, last, iterates>>
      /\ IterTypeOK
  BY DEF stop, vars, nodes, IterInv
<1>2. /\ cursor'[w] = NULL
      /\ \A v \in Walk \ {w} : start'[v] = start[v] /\ cursor'[v] = cursor[v]
  BY <1>1 DEF stop, IterTypeOK
<1>3. ~Steps(w)' /\ \A v \in Walk \ {w} : Steps(v)' <=> Steps(v)
  BY <1>1, <1>2 DEF Steps, Underway
<1>4. IterTypeOK'
  BY <1>1 DEF stop, IterTypeOK
<1> QED
  BY <1>1, <1>2, <1>3, <1>4 DEF IterInv, EachWalked, Apart

\* What jscon_append() makes of the tree, if it does not fault.
LEMMA AppendFields ==
  ASSUME ForestInv, NEW p \in Item, NEW x \in Item, jscon_append(p, x)
  PROVE  /\ type' = type
         /\ type[p] \in Composite /\ type[x] \in Living /\ parent[x] = NULL
         /\ x \notin Upward(p, parent)
         /\ \/ UNCHANGED <<parent, branch>>
            \/ /\ parent' \in [Item -> Item \cup {NULL}]
               /\ SetAt(parent, parent', x, p)
               /\ SetAt(branch, branch', p, Append(branch[p], x))
<1>1. /\ parent \in [Item -> Item \cup {NULL}]
      /\ branch \in [Item -> Seq(Item)]
  BY DEF ForestInv, IInv, TypeOK
<1>2. CanAppend(p, x)
  BY DEF jscon_append
<1>3. \/ UNCHANGED <<type, parent, branch>>
      \/ /\ type' = type
         /\ parent' = [parent EXCEPT ![x] = p]
         /\ branch' = [branch EXCEPT ![p] = Append(branch[p], x)]
  BY DEF jscon_append, Fault, nodes
<1> QED
  BY <1>1, <1>2, <1>3 DEF CanAppend, IsComposite, Alive, IsRoot, SetAt

\* A tree that is appended is not the one that a walk is in.
LEMMA GrowKeepsUpward ==
  ASSUME ForestInv, NEW p \in Item, NEW x \in Item, NEW c \in Item,
         type[c] \in Living, Root(c) # x, jscon_append(p, x)
  PROVE  /\ x \notin Upward(c, parent)
         /\ Upward(c, parent') = Upward(c, parent)
         /\ \A a \in Upward(c, parent) : Upward(a, parent') = Upward(a, parent)
<1>1. /\ parent \in [Item -> Item \cup {NULL}]
      /\ Climbs(type, parent)
  BY DEF ForestInv, IInv, TypeOK
<1>2. /\ parent[x] = NULL
      /\ parent' \in [Item -> Item \cup {NULL}]
      /\ \A i \in Item \ {x} : parent'[i] = parent[i]
  BY <1>1, AppendFields DEF SetAt
<1>3. x \notin Upward(c, parent)
  <2>1. SUFFICES ASSUME x \in Upward(c, parent) PROVE FALSE
    OBVIOUS
  <2>2. \A r \in Upward(c, parent) : parent[r] = NULL => r = x
    BY <1>1, <1>2, <2>1, RootUnique
  <2> QED
    BY <1>2, <2>1, <2>2 DEF Root, IsRoot
<1>4. ASSUME NEW a \in Item, a \in Upward(c, parent)
      PROVE  Upward(a, parent') = Upward(a, parent)
  <2>1. Upward(a, parent) \subseteq Upward(c, parent) /\ Upward(a, parent) \subseteq Item
    BY <1>1, <1>4, UpwardTransitive, UpwardProperties
  <2>2. \A i \in Upward(a, parent) : parent'[i] = parent[i]
    BY <1>2, <1>3, <2>1
  <2> QED
    BY <1>1, <1>2, <1>4, <2>2, UpwardSame
<1>5. c \in Upward(c, parent) /\ Upward(c, parent) \subseteq Item
  BY <1>1, UpwardProperties
<1> QED
  BY <1>3, <1>4, <1>5

LEMMA GrowSteps ==
  ASSUME IterInv, NEW p \in Item, NEW x \in Item, grow(p, x)
  PROVE  IterTypeOK' /\ EachWalked' /\ Apart'
<1>1. /\ jscon_append(p, x) /\ ForestInv
      /\ UNCHANGED <<last, iterates, start, cursor, known, visited>>
      /\ \A w \in Walk : Underway(w) => Root(cursor[w]) # x
  BY DEF grow, walks, IterInv
<1>2. /\ parent \in [Item -> Item \cup {NULL}]
      /\ branch \in [Item -> Seq(Item)]
      /\ type' = type
      /\ \A i \in Item : \A n \in DOMAIN branch[i] :
           n \in DOMAIN branch'[i] /\ branch'[i][n] = branch[i][n]
  <2>1. /\ parent \in [Item -> Item \cup {NULL}]
        /\ branch \in [Item -> Seq(Item)]
    BY IterFacts
  <2>2. \A n \in DOMAIN branch[p] : /\ n \in DOMAIN Append(branch[p], x)
                                    /\ Append(branch[p], x)[n] = branch[p][n]
    BY <2>1, AppendProperties
  <2>3. \/ branch' = branch
        \/ SetAt(branch, branch', p, Append(branch[p], x))
    BY <1>1, AppendFields
  <2>4. type' = type
    BY <1>1, AppendFields
  <2>5. \A i \in Item : \A n \in DOMAIN branch[i] :
          n \in DOMAIN branch'[i] /\ branch'[i][n] = branch[i][n]
    BY <2>2, <2>3 DEF SetAt
  <2> QED
    BY <2>1, <2>4, <2>5
<1>3. \A w \in Walk : Steps(w)' <=> Steps(w)
  BY <1>1 DEF Steps, Underway
<1>4. ASSUME NEW w \in Walk, Steps(w)
      PROVE  /\ Walked(type, parent, branch, last, start[w], cursor[w])
             /\ Upward(cursor[w], parent') = Upward(cursor[w], parent)
             /\ \A a \in Upward(cursor[w], parent) : Upward(a, parent') = Upward(a, parent)
  <2>1. Walked(type, parent, branch, last, start[w], cursor[w])
    BY <1>4, WalkOf
  <2>2. /\ cursor[w] \in Item /\ type[cursor[w]] \in Living /\ Root(cursor[w]) # x
    BY <1>1, <1>4, <2>1 DEF Walked, Steps
  <2> QED
    BY <1>1, <2>1, <2>2, GrowKeepsUpward
<1>5. ASSUME NEW w \in Walk, Steps(w)
      PROVE  Walked(type, parent', branch', last, start[w], cursor[w])
  <2>1. start[w] \in Upward(cursor[w], parent)
    BY <1>4, <1>5 DEF Walked
  <2>2. Upward(start[w], parent') = Upward(start[w], parent)
    BY <1>4, <1>5, <2>1
  <2>3. Upward(cursor[w], parent) \subseteq Item
    BY <1>5, AboveWalk
  <2> QED
    BY <1>2, <1>4, <1>5, <2>1, <2>2, <2>3 DEF Walked, Leads
<1>6. IterTypeOK'
  BY <1>1 DEF IterTypeOK, IterInv
<1>7. EachWalked'
  BY <1>1, <1>2, <1>3, <1>5 DEF EachWalked
<1>8. Apart'
  BY <1>1, <1>3, <1>4 DEF Apart, IterInv
<1> QED
  BY <1>6, <1>7, <1>8

LEMMA NextIterInv ==
  ASSUME "duplicate_keys" \notin Client, "shared" \notin Habit, IterInv, [IterNext]_itervars
  PROVE  IterInv'
<1> DEFINE Kept == IterTypeOK' /\ EachWalked' /\ Apart'
<1>1. CASE edit
  <2>1. /\ [Next]_vars /\ \A w \in Walk : ~Steps(w)'
        /\ IterTypeOK
    BY <1>1 DEF edit, Steps, Underway, IterInv
  <2>2. IterTypeOK'
    BY <1>1, <2>1 DEF edit, IterTypeOK
  <2> QED
    BY <2>1, <2>2, NextForestInv DEF IterInv, EachWalked, Apart
<1>2. ASSUME NEW p \in Item, NEW x \in Item, status = "ok", grow(p, x)
      PROVE  IterInv'
  <2>1. Next
    BY <1>2 DEF grow, Next
  <2> QED
    BY <1>2, <2>1, NextForestInv, GrowSteps DEF IterInv
<1>3. ASSUME UNCHANGED vars, Kept
      PROVE  IterInv'
  BY <1>3, NextForestInv DEF IterInv
<1>4. ASSUME NEW w \in Walk, NEW x \in Item, NEW what \in {"items", "composites"},
             begin(w, x, what)
      PROVE  IterInv'
  BY <1>3, <1>4, BeginSteps
<1>5. ASSUME NEW w \in Walk, stop(w)
      PROVE  IterInv'
  BY <1>3, <1>5, StopSteps
<1>6. ASSUME NEW w \in Walk, jscon_iter_next(w)
      PROVE  IterInv'
  BY <1>3, <1>6, IterNextSteps
<1>7. ASSUME NEW w \in Walk, jscon_iter_composite_r(w)
      PROVE  IterInv'
  BY <1>3, <1>7, CompositeSteps
<1>8. CASE UNCHANGED itervars
  <2>1. UNCHANGED vars /\ UNCHANGED <<type, parent, branch>>
        /\ UNCHANGED <<last, iterates, start, cursor, known, visited>>
    BY <1>8 DEF itervars, vars, nodes, walks
  <2>2. Kept
    BY <2>1 DEF IterInv, IterTypeOK, EachWalked, Apart, Steps, Underway
  <2> QED
    BY <1>3, <2>1, <2>2
<1> QED
  BY <1>1, <1>2, <1>4, <1>5, <1>6, <1>7, <1>8 DEF IterNext

(***************************************************************************)
(* Frames count branches, and a walk is at an item or at none, whichever   *)
(* calls the client makes between its walks.                               *)
(***************************************************************************)
THEOREM WalksAreTyped ==
  ASSUME "duplicate_keys" \notin Client, "shared" \notin Habit
  PROVE  IterSpec => []IterTypeOK
<1>1. IterInv => IterTypeOK
  BY DEF IterInv
<1> QED
  BY InitIterInv, NextIterInv, <1>1, PTL DEF IterSpec

(***************************************************************************)
(* "last_accessed_branch like a stack frame": as long as two walks do not  *)
(* share a tree, the frames above the current item lead to it, whatever    *)
(* frames were left by walks that were stopped and whatever is appended to *)
(* the tree meanwhile.                                                     *)
(***************************************************************************)
THEOREM FramesLead ==
  ASSUME "duplicate_keys" \notin Client, "shared" \notin Habit
  PROVE  IterSpec => []FramesLeadToCursor
<1>1. ASSUME IterInv
      PROVE  FramesLeadToCursor
  <2>1. SUFFICES ASSUME NEW w \in Walk, Steps(w),
                        NEW a \in (Upward(cursor[w], parent) \ {cursor[w]})
                                    \cap Below(start[w], branch)
                 PROVE  /\ last[a] \in DOMAIN branch[a]
                        /\ branch[a][last[a]] \in Upward(cursor[w], parent)
    BY DEF FramesLeadToCursor, Steps
  <2>2. Walked(type, parent, branch, last, start[w], cursor[w])
    BY <1>1, <2>1, WalkOf
  <2>3. a \in Item /\ type[a] \in Living
    BY <1>1, <2>1, AboveWalk
  <2>4. start[w] \in Upward(a, parent)
    <3>1. start[w] \in Item /\ type[start[w]] \in Living /\ a \in Below(start[w], branch)
      BY <2>1, <2>2 DEF Walked
    <3> QED
      BY <1>1, <2>3, <3>1, IterFacts, BelowIsUpward
  <2> QED
    BY <2>1, <2>2, <2>4 DEF Walked, Leads
<1> QED
  BY InitIterInv, NextIterInv, <1>1, PTL DEF IterSpec

------------------------------------------------------------------------------
(* The order of a walk.                                                    *)

(***************************************************************************)
(* What the walks have got, for a client whose lists are in order: the     *)
(* items from the first one to the current one, of which only those above  *)
(* the current one have a frame.  An item without branches has none.       *)
(***************************************************************************)
Under(ty, pa, s) == {x \in Item : ty[x] \in Living /\ s \in Upward(x, pa)}

PassedBy(ty, pa, br, s, c) ==
  {x \in Under(ty, pa, s) : x = c \/ Precedes(ty, pa, br, x, c)}

Sought(w) ==
  IF iterates[w] = "items" THEN Item ELSE {i \in Item : type[i] \in Composite}

Reached(w) ==
  IF Underway(w) THEN PassedBy(type, parent, branch, start[w], cursor[w])
  ELSE Under(type, parent, start[w])

Begun ==
  \A w \in Walk : start[w] # NULL =>
    /\ type[start[w]] \in Living
    /\ known[w] \subseteq Under(type, parent, start[w])
    /\ Underway(w) => cursor[w] \in Under(type, parent, start[w])
    /\ Underway(w) /\ iterates[w] = "composites" =>
         /\ parent[start[w]] = NULL
         /\ type[cursor[w]] \in Composite

GotInOrder ==
  \A w \in Walk : start[w] # NULL =>
    /\ visited[w] \subseteq Reached(w) \cap Sought(w)
    /\ Reached(w) \cap Sought(w) \cap known[w] \subseteq visited[w]

PassedClean ==
  \A w \in Walk : Steps(w) =>
    \A x \in PassedBy(type, parent, branch, start[w], cursor[w]) :
      x # cursor[w] /\ last[x] # 0 => x \in Upward(cursor[w], parent)

LeavesUnread == \A i \in Item : type[i] \in {"unborn", "leaf"} => last[i] = 0

FreedApart(ty, br) ==
  \A p \in Item : ty[p] = "freed" => \A c \in ToSet(br[p]) : ty[c] = "freed"

Started == \A w \in Walk : Underway(w) => start[w] # NULL

WalkInv ==
  /\ IterInv
  /\ ListInv
  /\ Started
  /\ Begun
  /\ GotInOrder
  /\ PassedClean
  /\ LeavesUnread
  /\ FreedApart(type, branch)

\* Of the branches of an item one at most is above y.
LEMMA SamePlace ==
  ASSUME IterInv, NEW q \in Item, type[q] \in Living, NEW y \in Item, type[y] \in Living,
         NEW i \in DOMAIN branch[q], NEW j \in DOMAIN branch[q],
         branch[q][i] \in Upward(y, parent), branch[q][j] \in Upward(y, parent)
  PROVE  i = j
<1>1. /\ parent \in [Item -> Item \cup {NULL}]
      /\ ArraysAgree(type, parent, branch)
      /\ Climbs(type, parent)
  BY IterFacts
<1>2. parent[branch[q][i]] = q /\ parent[branch[q][j]] = q /\ q # NULL
  BY BranchAt, ItemAssumption DEF BranchOf
<1>3. \E r \in Upward(y, parent) : parent[r] = NULL
  BY <1>1 DEF Climbs
<1>4. branch[q][i] = branch[q][j]
  BY <1>1, <1>2, <1>3, SiblingsApart
<1> QED
  BY <1>1, <1>4 DEF ArraysAgree

\* An item below another is in the array of that, or below a branch of it.
LEMMA BranchTowards ==
  ASSUME IterInv, NEW y \in Item, type[y] \in Living, NEW a \in Upward(y, parent), a # y
  PROVE  /\ a \in Item /\ type[a] \in Composite
         /\ \E i \in DOMAIN branch[a] : branch[a][i] \in Upward(y, parent)
<1>1. /\ parent \in [Item -> Item \cup {NULL}]
      /\ branch \in [Item -> Seq(Item)]
      /\ ArraysAgree(type, parent, branch)
  BY IterFacts
<1>2. PICK u \in Upward(y, parent) : parent[u] = a
  BY <1>1, UpwardLast
<1>3. u \in Item /\ a \in Item /\ type[u] \in Living
  BY <1>1, <1>2, AllAlive, UpwardTransitive
<1>4. a # NULL
  BY <1>3, ItemAssumption
<1>5. type[a] \in Composite /\ u \in ToSet(branch[a])
  BY <1>1, <1>2, <1>3, <1>4 DEF ArraysAgree
<1>6. \E i \in DOMAIN branch[a] : branch[a][i] = u
  BY <1>5 DEF ToSet
<1> QED
  BY <1>2, <1>3, <1>5, <1>6

\* What comes before another item is not below it.
LEMMA NotBefore ==
  ASSUME IterInv, NEW y \in Item, type[y] \in Living, NEW x \in Upward(y, parent)
  PROVE  ~Precedes(type, parent, branch, y, x)
<1>1. SUFFICES ASSUME Precedes(type, parent, branch, y, x) PROVE FALSE
  OBVIOUS
<1>2. /\ x \in Item /\ type[x] \in Living
      /\ Upward(x, parent) \subseteq Upward(y, parent)
  BY IterFacts, AllAlive, UpwardTransitive
<1>3. CASE y # x /\ y \in Upward(x, parent)
  BY <1>2, <1>3, OneWay
<1>4. CASE ~(y # x /\ y \in Upward(x, parent))
  <2>1. PICK q \in Item : \E i, j \in DOMAIN branch[q] :
          /\ type[q] \in Living /\ i < j
          /\ branch[q][i] \in Upward(y, parent) /\ branch[q][j] \in Upward(x, parent)
    BY <1>1, <1>4 DEF Precedes
  <2>2. PICK i \in DOMAIN branch[q], j \in DOMAIN branch[q] :
          /\ type[q] \in Living /\ i < j
          /\ branch[q][i] \in Upward(y, parent) /\ branch[q][j] \in Upward(x, parent)
    BY <2>1
  <2>3. branch[q][j] \in Upward(y, parent)
    BY <1>2, <2>2
  <2>4. i = j
    BY <2>2, <2>3, SamePlace
  <2>5. i \in Nat
    BY IterFacts
  <2> QED
    BY <2>2, <2>4, <2>5
<1> QED
  BY <1>3, <1>4

\* Places of a and b in one array.
PlacesAt(q, i, j, a, b) ==
  /\ q \in Item /\ type[q] \in Living
  /\ i \in DOMAIN branch[q] /\ j \in DOMAIN branch[q]
  /\ i \in Nat /\ j \in Nat
  /\ branch[q][i] \in Upward(a, parent)
  /\ branch[q][j] \in Upward(b, parent)

LEMMA PrecedesAt ==
  ASSUME IterInv, NEW a \in Item, NEW b \in Item
  PROVE  /\ \A q, i, j : PlacesAt(q, i, j, a, b) /\ i < j =>
              Precedes(type, parent, branch, a, b)
         /\ Precedes(type, parent, branch, a, b) =>
              \/ a # b /\ a \in Upward(b, parent)
              \/ \E q \in Item : \E i, j \in Nat : i < j /\ PlacesAt(q, i, j, a, b)
<1>1. branch \in [Item -> Seq(Item)]
  BY IterFacts
<1>2. ASSUME NEW q, NEW i, NEW j, PlacesAt(q, i, j, a, b), i < j
      PROVE  Precedes(type, parent, branch, a, b)
  BY <1>2 DEF PlacesAt, Precedes
<1>3. ASSUME Precedes(type, parent, branch, a, b), ~(a # b /\ a \in Upward(b, parent))
      PROVE  \E q \in Item : \E i, j \in Nat : i < j /\ PlacesAt(q, i, j, a, b)
  <2>1. PICK q \in Item : \E i, j \in DOMAIN branch[q] :
          /\ type[q] \in Living /\ i < j
          /\ branch[q][i] \in Upward(a, parent) /\ branch[q][j] \in Upward(b, parent)
    BY <1>3 DEF Precedes
  <2>2. PICK i \in DOMAIN branch[q], j \in DOMAIN branch[q] :
          /\ type[q] \in Living /\ i < j
          /\ branch[q][i] \in Upward(a, parent) /\ branch[q][j] \in Upward(b, parent)
    BY <2>1
  <2>3. i \in Nat /\ j \in Nat
    BY <1>1
  <2>4. PlacesAt(q, i, j, a, b)
    BY <2>2, <2>3 DEF PlacesAt
  <2> QED
    BY <2>2, <2>3, <2>4
<1> QED
  BY <1>2, <1>3

\* Where neither of two items of a tree is above the other, there is an array
\* with both.
LEMMA TheyPart ==
  ASSUME IterInv, NEW x \in Item, NEW y \in Item, type[x] \in Living, type[y] \in Living,
         NEW z \in Upward(x, parent), z \in Upward(y, parent),
         x \notin Upward(y, parent), y \notin Upward(x, parent)
  PROVE  \E q \in Item : \E i, j \in Nat : i # j /\ PlacesAt(q, i, j, x, y)
<1>1. /\ parent \in [Item -> Item \cup {NULL}]
      /\ branch \in [Item -> Seq(Item)]
  BY IterFacts
<1> DEFINE H == Upward(x, parent) \cap Upward(y, parent)
<1>2. PICK a \in H : H \subseteq Upward(a, parent)
  <2>1. H \in SUBSET Upward(x, parent)
    OBVIOUS
  <2>2. H # {}
    OBVIOUS
  <2>3. parent \in [Item -> Item \cup {NULL}] /\ x \in Item
    BY <1>1
  <2> HIDE DEF H
  <2> QED
    BY <2>1, <2>2, <2>3, LowestOf
<1>3. /\ a \in Item /\ type[a] \in Living /\ a # x /\ a # y
      /\ \E i \in DOMAIN branch[a] : branch[a][i] \in Upward(x, parent)
  BY BranchTowards DEF Living
<1>4. \E j \in DOMAIN branch[a] : branch[a][j] \in Upward(y, parent)
  BY <1>3, BranchTowards
<1>5. PICK i \in DOMAIN branch[a] : branch[a][i] \in Upward(x, parent)
  BY <1>3
<1>6. PICK j \in DOMAIN branch[a] : branch[a][j] \in Upward(y, parent)
  BY <1>4
<1>7. branch[a][i] \notin Upward(a, parent)
  BY <1>3, <1>5, BranchAt DEF BranchOf
<1>8. i # j
  BY <1>2, <1>5, <1>6, <1>7
<1>9. i \in Nat /\ j \in Nat
  BY <1>1, <1>3
<1>10. PlacesAt(a, i, j, x, y)
  BY <1>3, <1>5, <1>6, <1>9 DEF PlacesAt
<1> QED
  BY <1>3, <1>8, <1>9, <1>10

\* Places in an array are those of everything below.
LEMMA PlacesBelow ==
  ASSUME IterInv, NEW a \in Item, NEW b \in Item, NEW c \in Item, NEW d \in Item,
         NEW q, NEW i, NEW j, PlacesAt(q, i, j, a, b),
         a \in Upward(c, parent), b \in Upward(d, parent)
  PROVE  PlacesAt(q, i, j, c, d)
<1>1. /\ Upward(a, parent) \subseteq Upward(c, parent)
      /\ Upward(b, parent) \subseteq Upward(d, parent)
  BY IterFacts, UpwardTransitive
<1> QED
  BY <1>1 DEF PlacesAt

LEMMA PlacesAreBranches ==
  ASSUME IterInv, NEW a \in Item, NEW b \in Item, NEW q, NEW i, NEW j, PlacesAt(q, i, j, a, b)
  PROVE  /\ BranchOf(type, parent, q, branch[q][i])
         /\ BranchOf(type, parent, q, branch[q][j])
         /\ branch[q][i] \in Upward(a, parent) /\ branch[q][j] \in Upward(b, parent)
         /\ q \in Item /\ type[q] \in Living
         /\ q \in Upward(a, parent) /\ q \in Upward(b, parent)
<1>1. /\ q \in Item /\ type[q] \in Living
      /\ i \in DOMAIN branch[q] /\ j \in DOMAIN branch[q]
      /\ branch[q][i] \in Upward(a, parent) /\ branch[q][j] \in Upward(b, parent)
  BY DEF PlacesAt
<1>2. BranchOf(type, parent, q, branch[q][i]) /\ BranchOf(type, parent, q, branch[q][j])
  BY <1>1, BranchAt
<1>3. q \in Upward(q, parent) /\ parent \in [Item -> Item \cup {NULL}]
  BY <1>1, IterFacts, UpwardProperties
<1>4. q \in Upward(a, parent) /\ q \in Upward(b, parent)
  <2>1. /\ Upward(branch[q][i], parent) \subseteq Upward(a, parent)
        /\ Upward(branch[q][j], parent) \subseteq Upward(b, parent)
    BY <1>1, <1>3, UpwardTransitive
  <2> QED
    BY <1>2, <1>3, <2>1 DEF BranchOf
<1> QED
  BY <1>1, <1>2, <1>4

\* The order of a text is transitive.
LEMMA PrecedesTransitive ==
  ASSUME IterInv, NEW a \in Item, NEW b \in Item, NEW d \in Item,
         type[a] \in Living, type[b] \in Living, type[d] \in Living,
         Precedes(type, parent, branch, a, b), Precedes(type, parent, branch, b, d)
  PROVE  Precedes(type, parent, branch, a, d)
<1> DEFINE Earlier(x, y) == Precedes(type, parent, branch, x, y)
<1>0. /\ parent \in [Item -> Item \cup {NULL}]
      /\ \A x \in Item : x \in Upward(x, parent) /\ Upward(x, parent) \subseteq Item
      /\ \A x \in Item : \A y \in Upward(x, parent) :
           Upward(y, parent) \subseteq Upward(x, parent)
  BY IterFacts, UpwardProperties, UpwardTransitive
<1>1. CASE a # b /\ a \in Upward(b, parent)
  <2>1. CASE b # d /\ b \in Upward(d, parent)
    <3>1. a \in Upward(d, parent)
      BY <1>0, <1>1, <2>1
    <3>2. a # d
      BY <1>1, <2>1, OneWay
    <3> QED
      BY <3>1, <3>2 DEF Precedes
  <2>2. ASSUME NEW q \in Item, NEW i \in Nat, NEW j \in Nat, i < j, PlacesAt(q, i, j, b, d)
        PROVE  Earlier(a, d)
    <3> DEFINE e == branch[q][i]
               f == branch[q][j]
    <3>1. /\ BranchOf(type, parent, q, e) /\ BranchOf(type, parent, q, f)
          /\ e \in Upward(b, parent) /\ f \in Upward(d, parent)
          /\ q \in Upward(d, parent)
      BY <2>2, PlacesAreBranches
    <3>2. a \in Upward(e, parent) \/ e \in Upward(a, parent)
      BY <1>0, <1>1, <3>1, UpwardLinear
    <3>3. CASE e \in Upward(a, parent)
      <4>1. PlacesAt(q, i, j, a, d)
        BY <2>2, <3>3 DEF PlacesAt
      <4> QED
        BY <2>2, <4>1, PrecedesAt
    <3>4. CASE e \notin Upward(a, parent)
      <4>1. a # e /\ a \in Upward(q, parent)
        BY <1>0, <3>1, <3>2, <3>4 DEF BranchOf
      <4>2. a \in Upward(d, parent)
        BY <1>0, <3>1, <4>1
      <4>3. a # d
        BY <3>1, <4>1, <1>0, <2>2 DEF BranchOf
      <4> QED
        BY <4>2, <4>3 DEF Precedes
    <3> QED
      BY <3>3, <3>4
  <2> QED
    BY <2>1, <2>2, PrecedesAt
<1>2. ASSUME NEW p \in Item, NEW m \in Nat, NEW n \in Nat, m < n, PlacesAt(p, m, n, a, b)
      PROVE  Earlier(a, d)
  <2> DEFINE g == branch[p][m]
             h == branch[p][n]
  <2>0. /\ BranchOf(type, parent, p, g) /\ BranchOf(type, parent, p, h)
        /\ g \in Upward(a, parent) /\ h \in Upward(b, parent)
    BY <1>2, PlacesAreBranches
  <2>1. ASSUME b \in Upward(d, parent) \/ h \in Upward(d, parent)
        PROVE  Earlier(a, d)
    <3>1. h \in Upward(d, parent)
      BY <1>0, <2>0, <2>1
    <3>2. PlacesAt(p, m, n, a, d)
      BY <1>2, <3>1 DEF PlacesAt
    <3> QED
      BY <1>2, <3>2, PrecedesAt
  <2>2. ASSUME NEW q \in Item, NEW i \in Nat, NEW j \in Nat, i < j, PlacesAt(q, i, j, b, d)
        PROVE  Earlier(a, d)
    <3> DEFINE e == branch[q][i]
               f == branch[q][j]
    <3>1. /\ BranchOf(type, parent, q, e) /\ BranchOf(type, parent, q, f)
          /\ e \in Upward(b, parent) /\ f \in Upward(d, parent)
          /\ q \in Upward(d, parent)
      BY <2>2, PlacesAreBranches
    <3>2. h \in Upward(e, parent) \/ e \in Upward(h, parent)
      BY <1>0, <2>0, <3>1, UpwardLinear
    <3>3. CASE h = e
      <4>1. p = q
        BY <2>0, <3>1, <3>3 DEF BranchOf
      <4>2. n = i
        BY <1>2, <2>0, <2>2, <3>1, <3>3, <4>1, SamePlace DEF PlacesAt
      <4>3. PlacesAt(p, m, j, a, d) /\ m < j
        BY <1>2, <2>2, <4>1, <4>2 DEF PlacesAt
      <4> QED
        BY <4>3, PrecedesAt
    <3>4. CASE h # e /\ h \in Upward(e, parent)
      <4>1. h \in Upward(q, parent)
        BY <3>1, <3>4 DEF BranchOf
      <4>2. h \in Upward(d, parent)
        BY <1>0, <3>1, <4>1
      <4> QED
        BY <2>1, <4>2
    <3>5. CASE h # e /\ e \in Upward(h, parent)
      <4>1. e \in Upward(p, parent)
        BY <2>0, <3>5 DEF BranchOf
      <4>2. e \in Upward(a, parent)
        BY <1>0, <1>2, <4>1, PlacesAreBranches
      <4>3. PlacesAt(q, i, j, a, d)
        BY <2>2, <4>2 DEF PlacesAt
      <4> QED
        BY <2>2, <4>3, PrecedesAt
    <3> QED
      BY <3>2, <3>3, <3>4, <3>5
  <2> QED
    BY <2>1, <2>2, PrecedesAt
<1> QED
  BY <1>1, <1>2, PrecedesAt

\* And no two items are each before the other.
LEMMA PrecedesOneWay ==
  ASSUME IterInv, NEW a \in Item, NEW b \in Item, type[a] \in Living, type[b] \in Living,
         Precedes(type, parent, branch, a, b)
  PROVE  ~Precedes(type, parent, branch, b, a)
<1>1. a \in Upward(a, parent)
  BY IterFacts, UpwardProperties
<1>2. ~Precedes(type, parent, branch, a, a)
  BY <1>1, NotBefore
<1> QED
  BY <1>2, PrecedesTransitive

\* A leaf that the last branches lead to, from z, is the last item below z.
LEMMA LastLeaf ==
  ASSUME IterInv, NEW c \in Item, type[c] \in Living, IsLeaf(c), NEW z \in Upward(c, parent),
         \A q \in Upward(c, parent) \ {c} : z \in Upward(q, parent) =>
           /\ Len(branch[q]) \in DOMAIN branch[q]
           /\ branch[q][Len(branch[q])] \in Upward(c, parent),
         NEW x \in Item, type[x] \in Living, z \in Upward(x, parent)
  PROVE  x = c \/ Precedes(type, parent, branch, x, c)
<1>0. /\ parent \in [Item -> Item \cup {NULL}]
      /\ branch \in [Item -> Seq(Item)]
      /\ \A y \in Item : y \in Upward(y, parent) /\ Upward(y, parent) \subseteq Item
      /\ \A y \in Item : \A u \in Upward(y, parent) :
           Upward(u, parent) \subseteq Upward(y, parent)
  BY IterFacts, UpwardProperties, UpwardTransitive
<1>1. CASE x \in Upward(c, parent)
  BY <1>1 DEF Precedes
<1>2. CASE c \in Upward(x, parent)
  <2>1. SUFFICES ASSUME x # c PROVE FALSE
    OBVIOUS
  <2>2. type[c] \in Composite /\ \E i \in DOMAIN branch[c] : branch[c][i] \in Upward(x, parent)
    BY <1>2, <2>1, BranchTowards
  <2> QED
    BY <2>2 DEF IsLeaf, IsComposite
<1>3. CASE x \notin Upward(c, parent) /\ c \notin Upward(x, parent)
  <2>1. PICK q \in Item : \E i, j \in Nat : i # j /\ PlacesAt(q, i, j, x, c)
    BY <1>3, TheyPart
  <2>2. PICK i \in Nat, j \in Nat : i # j /\ PlacesAt(q, i, j, x, c)
    BY <2>1
  <2> DEFINE e == branch[q][i]
             f == branch[q][j]
  <2>3. /\ BranchOf(type, parent, q, f)
        /\ i \in DOMAIN branch[q] /\ j \in DOMAIN branch[q]
        /\ e \in Upward(x, parent) /\ f \in Upward(c, parent)
        /\ q \in Item /\ type[q] \in Living /\ q \in Upward(c, parent)
    BY <2>2, PlacesAreBranches DEF PlacesAt
  <2>4. z \in Upward(q, parent)
    <3>1. z \in Item /\ type[z] \in Living
      BY <1>0, IterFacts, AllAlive
    <3>2. CASE q \in Upward(z, parent) /\ q # z
      <4>1. PICK k \in DOMAIN branch[q] : branch[q][k] \in Upward(z, parent)
        BY <3>1, <3>2, BranchTowards
      <4>2. branch[q][k] \in Upward(x, parent) /\ branch[q][k] \in Upward(c, parent)
        BY <1>0, <4>1
      <4>3. k = i
        BY <2>3, <4>2, SamePlace
      <4>4. k = j
        BY <2>3, <4>2, SamePlace
      <4> QED
        BY <2>2, <4>3, <4>4
    <3>3. z \in Upward(q, parent) \/ q \in Upward(z, parent)
      BY <1>0, <2>3, UpwardLinear
    <3> QED
      BY <1>0, <3>1, <3>2, <3>3
  <2>5. q # c
    <3>1. q = c => type[f] \in Living /\ parent[f] = c
      BY <2>3 DEF BranchOf
    <3>2. f \in Item /\ c # NULL
      BY <1>0, <2>3, ItemAssumption
    <3>3. q = c => type[c] \in Composite
      BY <3>1, <3>2, IterFacts DEF ArraysAgree
    <3> QED
      BY <2>3, <3>3 DEF IsLeaf, IsComposite
  <2>6. /\ Len(branch[q]) \in DOMAIN branch[q]
        /\ branch[q][Len(branch[q])] \in Upward(c, parent)
    BY <2>3, <2>4, <2>5
  <2>7. j = Len(branch[q])
    BY <2>3, <2>6, SamePlace
  <2>8. i < j
    BY <1>0, <2>2, <2>3, <2>7
  <2> QED
    BY <2>2, <2>8, PrecedesAt
<1> QED
  BY <1>1, <1>2, <1>3

\* At its end a walk has passed everything.
LEMMA EndsPassed ==
  ASSUME IterInv, NEW w \in Walk, Steps(w), Ends(w)
  PROVE  Under(type, parent, start[w]) \subseteq
           PassedBy(type, parent, branch, start[w], cursor[w])
<1> DEFINE c == cursor[w]
           s == start[w]
<1>1. Walked(type, parent, branch, last, s, c)
  BY WalkOf
<1>2. \A q \in Upward(c, parent) \ {c} : s \in Upward(q, parent) =>
        /\ Len(branch[q]) \in DOMAIN branch[q]
        /\ branch[q][Len(branch[q])] \in Upward(c, parent)
  BY <1>1 DEF Walked, Leads, Ends
<1>3. c \in Item /\ type[c] \in Living /\ IsLeaf(c) /\ s \in Upward(c, parent)
  BY <1>1 DEF Walked, Ends
<1>4. ASSUME NEW x \in Under(type, parent, s)
      PROVE  x = c \/ Precedes(type, parent, branch, x, c)
  BY <1>2, <1>3, LastLeaf DEF Under
<1> QED
  BY <1>4 DEF PassedBy

\* A call gets the item that comes next.
LEMMA GoesOnPasses ==
  ASSUME IterInv, NEW w \in Walk, Steps(w), NEW a \in Item, NEW n \in Nat, GoesOn(w, a, n)
  PROVE  PassedBy(type, parent, branch, start[w], branch[a][n + 1]) =
           PassedBy(type, parent, branch, start[w], cursor[w]) \cup {branch[a][n + 1]}
<1> DEFINE c == cursor[w]
           s == start[w]
           b == branch[a][n + 1]
           Earlier(x, y) == Precedes(type, parent, branch, x, y)
<1>0. /\ parent \in [Item -> Item \cup {NULL}]
      /\ branch \in [Item -> Seq(Item)]
      /\ \A y \in Item : y \in Upward(y, parent) /\ Upward(y, parent) \subseteq Item
      /\ \A y \in Item : \A u \in Upward(y, parent) :
           Upward(u, parent) \subseteq Upward(y, parent)
  BY IterFacts, UpwardProperties, UpwardTransitive
<1>1. /\ s \in Item /\ type[s] \in Living /\ c \in Item /\ type[c] \in Living
      /\ s \in Upward(c, parent)
      /\ \A q \in Upward(c, parent) \ {c} : s \in Upward(q, parent) =>
           last[q] \in DOMAIN branch[q] /\ branch[q][last[q]] \in Upward(c, parent)
  BY WalkOf DEF Walked, Leads
<1>2. /\ a \in Upward(c, parent) /\ s \in Upward(a, parent)
      /\ n + 1 \in DOMAIN branch[a]
      /\ a # c \/ n = 0
  BY DEF GoesOn
<1>3. /\ BranchOf(type, parent, a, b)
      /\ type[a] \in Living
      /\ Upward(a, parent) \subseteq Upward(c, parent)
  BY <1>0, <1>1, <1>2, WalkGoesOn, AboveWalk
<1>4. b \in Item /\ type[b] \in Living /\ Upward(b, parent) = {b} \cup Upward(a, parent)
      /\ b # a /\ b \notin Upward(a, parent) /\ parent[b] = a
  BY <1>3 DEF BranchOf
<1>5. b \in Under(type, parent, s)
  BY <1>2, <1>4 DEF Under
\* What comes before b and is not in the array of a comes before c.
<1>6. ASSUME NEW x \in Item, type[x] \in Living, Earlier(x, b),
             \A i \in Nat : i <= n => ~PlacesAt(a, i, n + 1, x, b)
      PROVE  x = c \/ Earlier(x, c)
  <2>1. CASE x # b /\ x \in Upward(b, parent)
    BY <1>3, <1>4, <2>1 DEF Precedes
  <2>2. ASSUME NEW q \in Item, NEW i \in Nat, NEW j \in Nat, i < j, PlacesAt(q, i, j, x, b)
        PROVE  Earlier(x, c)
    <3>1. /\ BranchOf(type, parent, q, branch[q][j]) /\ branch[q][j] \in Upward(b, parent)
          /\ j \in DOMAIN branch[q] /\ type[q] \in Living
      BY <1>4, <2>2, PlacesAreBranches DEF PlacesAt
    <3>2. CASE branch[q][j] = b
      <4>1. q = a
        BY <1>4, <3>1, <3>2 DEF BranchOf
      <4>2. j = n + 1
        BY <1>0, <1>2, <1>3, <1>4, <3>1, <3>2, <4>1, SamePlace
      <4> QED
        BY <1>6, <2>2, <4>1, <4>2
    <3>3. CASE branch[q][j] # b
      <4>1. branch[q][j] \in Upward(c, parent)
        BY <1>3, <1>4, <3>1, <3>3
      <4>2. PlacesAt(q, i, j, x, c)
        BY <2>2, <4>1 DEF PlacesAt
      <4> QED
        BY <1>1, <2>2, <4>2, PrecedesAt
    <3> QED
      BY <3>2, <3>3
  <2> QED
    BY <1>4, <1>6, <2>1, <2>2, PrecedesAt
<1>7. CASE a = c
  <2>1. n = 0 /\ Upward(c, parent) \subseteq Upward(b, parent) /\ b \notin Upward(c, parent)
    BY <1>2, <1>4, <1>7
  <2>2. ASSUME NEW x \in Under(type, parent, s), Earlier(x, b)
        PROVE  x = c \/ Earlier(x, c)
    <3>1. \A i \in Nat : i <= n => i \notin DOMAIN branch[a]
      BY <1>0, <2>1
    <3> QED
      BY <1>6, <2>2, <3>1 DEF PlacesAt, Under
  <2>3. Earlier(c, b)
    BY <1>0, <1>1, <1>4, <1>7, <2>1 DEF Precedes
  <2>4. ASSUME NEW x \in Under(type, parent, s), Earlier(x, c)
        PROVE  Earlier(x, b)
    BY <1>1, <1>4, <2>3, <2>4, PrecedesTransitive DEF Under
  <2> QED
    BY <1>1, <1>5, <2>2, <2>3, <2>4 DEF PassedBy, Under
<1>8. CASE a # c
  <2> DEFINE d == branch[a][n]
  <2>1. /\ n \in DOMAIN branch[a] /\ d \in Upward(c, parent) /\ IsLeaf(c)
        /\ \A q \in Upward(c, parent) \ ({c} \cup Upward(a, parent)) :
             last[q] = Len(branch[q])
    BY <1>1, <1>2, <1>8 DEF GoesOn
  <2>2. BranchOf(type, parent, a, d)
    BY <1>3, <2>1, BranchAt
  <2>3. d \in Item /\ Upward(d, parent) = {d} \cup Upward(a, parent) /\ d \notin Upward(a, parent)
    BY <2>2 DEF BranchOf
  \* Before b are the items below d, and what comes before c.
  <2>4. ASSUME NEW x \in Item, type[x] \in Living, d \in Upward(x, parent)
        PROVE  (x = c \/ Earlier(x, c)) /\ Earlier(x, b)
    <3>1. ASSUME NEW q \in Upward(c, parent) \ {c}, d \in Upward(q, parent)
          PROVE  /\ Len(branch[q]) \in DOMAIN branch[q]
                 /\ branch[q][Len(branch[q])] \in Upward(c, parent)
      <4>1. q \notin Upward(a, parent)
        BY <1>0, <2>3, <3>1
      <4>2. s \in Upward(q, parent)
        BY <1>0, <1>1, <1>2, <2>3, <3>1
      <4> QED
        BY <1>1, <2>1, <3>1, <4>1, <4>2
    <3>2. x = c \/ Earlier(x, c)
      BY <1>1, <2>1, <2>4, <3>1, LastLeaf
    <3>3. PlacesAt(a, n, n + 1, x, b)
      BY <1>0, <1>2, <1>3, <1>4, <2>1, <2>4 DEF PlacesAt
    <3>4. Earlier(x, b)
      BY <1>4, <3>3, PrecedesAt
    <3> QED
      BY <3>2, <3>4
  <2>5. ASSUME NEW x \in Under(type, parent, s), Earlier(x, b)
        PROVE  x = c \/ Earlier(x, c)
    <3>1. x \in Item /\ type[x] \in Living
      BY DEF Under
    <3>2. CASE d \in Upward(x, parent)
      BY <2>4, <3>1, <3>2
    <3>3. CASE d \notin Upward(x, parent)
      <4>1. ASSUME NEW i \in Nat, i <= n, PlacesAt(a, i, n + 1, x, b)
            PROVE  Earlier(x, c)
        <5>1. i # n /\ i < n
          BY <3>3, <4>1 DEF PlacesAt
        <5>2. PlacesAt(a, i, n, x, c)
          BY <1>0, <2>1, <4>1 DEF PlacesAt
        <5> QED
          BY <1>1, <3>1, <5>1, <5>2, PrecedesAt
      <4> QED
        BY <1>6, <2>5, <3>1, <4>1
    <3> QED
      BY <3>2, <3>3
  <2>6. Earlier(c, b)
    BY <1>1, <2>1, <2>4
  <2>7. ASSUME NEW x \in Under(type, parent, s), Earlier(x, c)
        PROVE  Earlier(x, b)
    BY <1>1, <1>4, <2>6, <2>7, PrecedesTransitive DEF Under
  <2> QED
    BY <1>1, <1>5, <2>5, <2>6, <2>7 DEF PassedBy, Under
<1> QED
  BY <1>7, <1>8

------------------------------------------------------------------------------
(* The list of composites.                                                 *)

\* Along the list of a tree items come in the order of the tree.
LEMMA ListSorted ==
  ASSUME IterInv, ListInv, NEW r \in Item, type[r] \in Composite, parent[r] = NULL,
         NEW y \in Composites(type, parent, r), NEW c \in Composites(type, parent, r)
  PROVE  /\ c \in Upward(y, next) => y = c \/ Precedes(type, parent, branch, y, c)
         /\ Precedes(type, parent, branch, y, c) => c \in Upward(y, next)
         /\ c \in Upward(y, next) \/ y \in Upward(c, next)
<1> DEFINE C == Composites(type, parent, r)
           Earlier(a, b) == Precedes(type, parent, branch, a, b)
<1>0. /\ next \in [Item -> Item \cup {NULL}]
      /\ \A i \in C : i \in Item /\ type[i] \in Composite /\ type[i] \in Living
      /\ C \subseteq Item
  BY IterFacts DEF Composites, Living
<1>1. ListOf(type, parent, branch, next, prev, r)
  BY ListInvFacts DEF Lists
<1>2. /\ Upward(r, next) = C
      /\ \A i \in C : next[i] # NULL => Earlier(i, next[i])
  BY <1>1 DEF ListOf
<1>3. \A i \in C : next[i] # NULL => next[i] \in C
  BY <1>0, <1>2, UpwardProperties
<1>4. ASSUME NEW x \in C, NEW d \in C, d \in Upward(x, next)
      PROVE  x = d \/ Earlier(x, d)
  <2> DEFINE S == {i \in C : x = i \/ Earlier(x, i)}
  <2>1. ASSUME NEW i \in S, next[i] # NULL
        PROVE  next[i] \in S
    <3>1. i \in C /\ next[i] \in C /\ Earlier(i, next[i])
      BY <1>2, <1>3, <2>1
    <3>2. x = i => Earlier(x, next[i])
      BY <3>1
    <3>3. Earlier(x, i) => Earlier(x, next[i])
      BY <1>0, <3>1, PrecedesTransitive
    <3> QED
      BY <2>1, <3>1, <3>2, <3>3
  <2>2. S \in SUBSET Item /\ x \in S /\ x \in Item
    BY <1>0
  <2>3. Upward(x, next) \subseteq S
    <3> HIDE DEF S
    <3> QED
      BY <1>0, <2>1, <2>2, UpwardProperties
  <2> QED
    BY <1>4, <2>3
<1>5. c \in Upward(y, next) \/ y \in Upward(c, next)
  BY <1>0, <1>2, UpwardLinear
<1>6. Earlier(y, c) => c \in Upward(y, next)
  <2>1. SUFFICES ASSUME Earlier(y, c), c \notin Upward(y, next) PROVE FALSE
    OBVIOUS
  <2>2. c = y \/ Earlier(c, y)
    BY <1>4, <1>5, <2>1
  <2>3. c # y
    BY <1>0, <2>1, UpwardProperties
  <2> QED
    BY <1>0, <2>1, <2>2, <2>3, PrecedesOneWay
<1> QED
  BY <1>4, <1>5, <1>6

\* So the next composite is the one that comes next, and after the last one
\* there is none.
LEMMA NextComposite ==
  ASSUME IterInv, ListInv, NEW r \in Item, type[r] \in Composite, parent[r] = NULL,
         NEW c \in Composites(type, parent, r)
  PROVE  /\ next[c] # NULL =>
              /\ next[c] \in Composites(type, parent, r)
              /\ \A y \in Composites(type, parent, r) :
                   (y = next[c] \/ Precedes(type, parent, branch, y, next[c])) <=>
                   (y = next[c] \/ y = c \/ Precedes(type, parent, branch, y, c))
         /\ next[c] = NULL =>
              \A y \in Composites(type, parent, r) :
                y = c \/ Precedes(type, parent, branch, y, c)
<1> DEFINE C == Composites(type, parent, r)
           Earlier(a, b) == Precedes(type, parent, branch, a, b)
           x == next[c]
<1>0. next \in [Item -> Item \cup {NULL}] /\ C \subseteq Item /\ C = Upward(r, next)
      /\ \A i \in C : type[i] \in Living
  BY IterFacts, ListInvFacts DEF Lists, ListOf, Composites, Living
<1>1. CASE x # NULL
  <2>1. x \in C /\ x \in Item
    BY <1>0, <1>1, UpwardProperties
  <2>2. Upward(c, next) = {c} \cup Upward(x, next)
    BY <1>0, <1>1, UpwardStep
  <2>3. x \in Upward(c, next) /\ c \in Upward(c, next)
    BY <1>0, <2>1, <2>2, UpwardProperties
  <2>4. ASSUME NEW y \in C, y = c \/ Earlier(y, c)
        PROVE  y = x \/ Earlier(y, x)
    <3>1. c \in Upward(y, next)
      BY <2>3, <2>4, ListSorted
    <3>2. x \in Upward(y, next)
      BY <1>0, <1>1, <2>1, <3>1, UpwardProperties
    <3> QED
      BY <2>1, <3>2, ListSorted
  <2>5. ASSUME NEW y \in C, y # x, Earlier(y, x)
        PROVE  y = c \/ Earlier(y, c)
    <3>1. x \in Upward(y, next)
      BY <2>1, <2>5, ListSorted
    <3>2. CASE c \in Upward(y, next)
      BY <3>2, ListSorted
    <3>3. CASE y \in Upward(c, next)
      <4>1. SUFFICES ASSUME y # c PROVE FALSE
        OBVIOUS
      <4>2. y \in Upward(x, next)
        BY <2>2, <3>3, <4>1
      <4>3. y = x \/ Earlier(x, y)
        BY <2>1, <4>2, ListSorted
      <4> QED
        BY <1>0, <2>1, <2>5, <4>3, PrecedesOneWay
    <3> QED
      BY <3>2, <3>3, ListSorted
  <2> QED
    BY <1>1, <2>1, <2>4, <2>5
<1>2. CASE x = NULL
  <2>1. Upward(c, next) = {c}
    BY <1>0, <1>2, UpwardStep
  <2>2. ASSUME NEW y \in C
        PROVE  y = c \/ Earlier(y, c)
    BY <2>1, ListSorted
  <2> QED
    BY <1>2, <2>2
<1> QED
  BY <1>1, <1>2

------------------------------------------------------------------------------
(* The order, as trees grow.                                               *)

\* What was above an item stays above it.
LEMMA AppendUpward ==
  ASSUME NEW pa \in [Item -> Item \cup {NULL}], NEW pb \in [Item -> Item \cup {NULL}],
         NEW p \in Item, NEW x \in Item, pa[x] = NULL, SetAt(pa, pb, x, p), NEW y \in Item
  PROVE  Upward(y, pa) \subseteq Upward(y, pb)
<1>1. /\ y \in Upward(y, pb) /\ Upward(y, pb) \in SUBSET Item
      /\ \A i \in Upward(y, pb) : pb[i] # NULL => pb[i] \in Upward(y, pb)
  BY UpwardProperties
<1>2. \A i \in Upward(y, pb) : pa[i] # NULL => pa[i] \in Upward(y, pb)
  BY <1>1 DEF SetAt
<1> QED
  BY <1>1, <1>2, UpwardProperties

\* And what comes before another item did so, unless it was appended.
LEMMA AppendPrecedesBack ==
  ASSUME NEW ty, NEW pa \in [Item -> Item \cup {NULL}], NEW br \in [Item -> Seq(Item)],
         NEW pb \in [Item -> Item \cup {NULL}], NEW bs, NEW p \in Item, NEW x \in Item,
         SetAt(pa, pb, x, p), SetAt(br, bs, p, Append(br[p], x)),
         NEW a \in Item, NEW b \in Item, x \notin Upward(a, pa), x \notin Upward(b, pa),
         Precedes(ty, pb, bs, a, b)
  PROVE  Precedes(ty, pa, br, a, b)
<1>1. ASSUME NEW y \in Item, x \notin Upward(y, pa)
      PROVE  Upward(y, pb) = Upward(y, pa)
  <2>1. \A i \in Upward(y, pa) : pb[i] = pa[i]
    BY <1>1, UpwardProperties DEF SetAt
  <2> QED
    BY <2>1, UpwardSame
<1>2. Upward(a, pb) = Upward(a, pa) /\ Upward(b, pb) = Upward(b, pa)
  BY <1>1
<1>3. CASE a # b /\ a \in Upward(b, pb)
  BY <1>2, <1>3 DEF Precedes
<1>4. CASE ~(a # b /\ a \in Upward(b, pb))
  <2>1. PICK q \in Item : \E i, j \in DOMAIN bs[q] :
          /\ ty[q] \in Living /\ i < j
          /\ bs[q][i] \in Upward(a, pb) /\ bs[q][j] \in Upward(b, pb)
    BY <1>4 DEF Precedes
  <2>2. PICK i \in DOMAIN bs[q], j \in DOMAIN bs[q] :
          /\ ty[q] \in Living /\ i < j
          /\ bs[q][i] \in Upward(a, pb) /\ bs[q][j] \in Upward(b, pb)
    BY <2>1
  <2>3. \A n \in DOMAIN bs[q] : bs[q][n] # x => n \in DOMAIN br[q] /\ br[q][n] = bs[q][n]
    <3>1. CASE q = p
      <4>1. br[p] \in Seq(Item) /\ bs[p] = Append(br[p], x)
        BY DEF SetAt
      <4> QED
        BY <3>1, <4>1
    <3>2. CASE q # p
      BY <3>2 DEF SetAt
    <3> QED
      BY <3>1, <3>2
  <2>4. /\ i \in DOMAIN br[q] /\ br[q][i] = bs[q][i]
        /\ j \in DOMAIN br[q] /\ br[q][j] = bs[q][j]
    BY <1>2, <2>2, <2>3
  <2>5. \E m, n \in DOMAIN br[q] :
          /\ ty[q] \in Living /\ m < n
          /\ br[q][m] \in Upward(a, pa) /\ br[q][n] \in Upward(b, pa)
    BY <1>2, <2>2, <2>4
  <2> QED
    BY <2>5 DEF Precedes
<1> QED
  BY <1>3, <1>4

------------------------------------------------------------------------------
(* Every step keeps the order.                                             *)

\* No call makes an item unborn again, or a leaf of what was none.
LEMMA LeavesStay ==
  ASSUME IInv, [Next]_vars, NEW i \in Item, type'[i] \in {"unborn", "leaf"}
  PROVE  type[i] \in {"unborn", "leaf"}
<1>1. /\ type \in [Item -> Living \cup {"unborn", "freed"}]
      /\ DOMAIN type = Item
  BY DEF IInv, TypeOK
<1>2. CASE UNCHANGED type
  BY <1>2
<1>3. ASSUME NEW j \in Item, NEW t \in Kind, NEW k \in Name \cup {NULL}, jscon_new(j, t, k)
      PROVE  type[i] \in {"unborn", "leaf"}
  BY <1>1, <1>3 DEF jscon_new
<1>4. ASSUME NEW gone, FreeAll(gone)
      PROVE  type[i] \in {"unborn", "leaf"}
  BY <1>4 DEF FreeAll
<1>5. ASSUME NEW x \in Item, jscon_destroy(x)
      PROVE  type[i] \in {"unborn", "leaf"}
  BY <1>2, <1>4, <1>5 DEF jscon_destroy, Fault
<1>6. CASE UNCHANGED vars
  BY <1>2, <1>6 DEF vars
<1>7. ASSUME NEW p \in Item, NEW x \in Item, jscon_append(p, x) \/ jscon_append_oom(p, x)
      PROVE  type[i] \in {"unborn", "leaf"}
  BY <1>2, <1>7 DEF jscon_append, jscon_append_oom, Fault
<1>8. ASSUME NEW x \in Item, jscon_dettach(x)
      PROVE  type[i] \in {"unborn", "leaf"}
  BY <1>2, <1>8 DEF jscon_dettach, Fault
<1>9. ASSUME NEW p \in Item, NEW k \in DOMAIN table[p], jscon_delete(p, k)
      PROVE  type[i] \in {"unborn", "leaf"}
  BY <1>2, <1>4, <1>9 DEF jscon_delete, Fault
<1>10. ASSUME NEW p \in Item, NEW k \in DOMAIN table[p], jscon_delete_oom(p, k)
       PROVE  type[i] \in {"unborn", "leaf"}
  <2>1. table[p][k] \in Item
    BY DEF IInv, TypeOK
  <2> QED
    BY <1>5, <1>10, <2>1 DEF jscon_delete_oom
<1> QED
  BY <1>3, <1>5, <1>6, <1>7, <1>8, <1>9, <1>10 DEF Next

\* What is freed with an item's tree is freed with all that its arrays hold.
LEMMA FreeKeepsApart ==
  ASSUME NEW ty, NEW br \in [Item -> Seq(Item)], FreedApart(ty, br), NEW r \in Item
  PROVE  FreedApart([i \in Item |-> IF i \in Below(r, br) THEN "freed" ELSE ty[i]], br)
<1> DEFINE tz == [i \in Item |-> IF i \in Below(r, br) THEN "freed" ELSE ty[i]]
<1>1. \A i \in Below(r, br) : ToSet(br[i]) \subseteq Below(r, br)
  BY BelowProperties
<1>2. \A p \in Item : ToSet(br[p]) \subseteq Item
  BY DEF ToSet
<1>3. ASSUME NEW p \in Item, tz[p] = "freed", NEW x \in ToSet(br[p])
      PROVE  tz[x] = "freed"
  BY <1>1, <1>2, <1>3 DEF FreedApart
<1> QED
  BY <1>3 DEF FreedApart

\* A live item's array may change.
LEMMA LiveKeepsApart ==
  ASSUME NEW ty, NEW br, NEW bs, FreedApart(ty, br),
         \A p \in Item : ty[p] = "freed" => bs[p] = br[p]
  PROVE  FreedApart(ty, bs)
BY DEF FreedApart

LEMMA NextFreedApart ==
  ASSUME "duplicate_keys" \notin Client, ForestInv, FreedApart(type, branch), [Next]_vars
  PROVE  FreedApart(type', branch')
<1>0. /\ type \in [Item -> Living \cup {"unborn", "freed"}]
      /\ parent \in [Item -> Item \cup {NULL}]
      /\ branch \in [Item -> Seq(Item)]
      /\ ArraysAgree(type, parent, branch)
      /\ \A p \in Item : \A k \in DOMAIN table[p] : table[p][k] \in Item
  BY DEF ForestInv, IInv, TypeOK
<1>1. CASE UNCHANGED <<type, branch>>
  BY <1>1
<1>2. ASSUME NEW i \in Item, NEW t \in Kind, NEW k \in Name \cup {NULL}, jscon_new(i, t, k)
      PROVE  FreedApart(type', branch')
  <2>1. /\ type' = [type EXCEPT ![i] = t] /\ branch' = branch /\ type[i] = "unborn"
        /\ t \in Living
    BY <1>2, KindAssumption DEF jscon_new
  <2>2. \A p \in Item : ToSet(branch[p]) \subseteq Item
    BY <1>0 DEF ToSet
  <2> QED
    BY <1>0, <2>1, <2>2 DEF FreedApart, Living, Composite
<1>3. ASSUME NEW p \in Item, NEW x \in Item, jscon_append(p, x)
      PROVE  FreedApart(type', branch')
  <2>1. type' = type /\ type[p] \in Composite
    BY <1>3, AppendFields
  <2>2. branch' = branch \/ SetAt(branch, branch', p, Append(branch[p], x))
    BY <1>3, AppendFields
  <2>3. \A q \in Item : type[q] = "freed" => branch'[q] = branch[q]
    BY <2>1, <2>2 DEF SetAt, Composite
  <2> QED
    BY <2>1, <2>3, LiveKeepsApart
<1>4. ASSUME NEW x \in Item, CanDettach(x), Unlink(x)
      PROVE  FreedApart(type, branch')
  <2>1. parent[x] \in Item /\ type[parent[x]] \in Composite
    BY <1>0, <1>4 DEF CanDettach, Alive, IsRoot, ArraysAgree
  <2>2. \A q \in Item : type[q] = "freed" => branch'[q] = branch[q]
    BY <1>0, <1>4, <2>1 DEF Unlink, Without, Composite
  <2> QED
    BY <2>2, LiveKeepsApart
<1>5. ASSUME NEW x \in Item, jscon_dettach(x)
      PROVE  FreedApart(type', branch')
  <2>1. CASE UNCHANGED <<type, branch>>
    BY <1>1, <2>1
  <2>2. CASE Unlink(x) /\ UNCHANGED type
    BY <1>4, <1>5, <2>2 DEF jscon_dettach
  <2> QED
    BY <1>5, <2>1, <2>2 DEF jscon_dettach, Fault, nodes
<1>6. ASSUME NEW x \in Item, jscon_destroy(x)
      PROVE  FreedApart(type', branch')
  <2>1. CASE UNCHANGED <<type, branch>>
    BY <1>1, <2>1
  <2>2. CASE /\ \E a \in Upward(x, parent) : IsRoot(a)
             /\ FreeAll(Below(Root(x), branch)) /\ UNCHANGED branch
    <3>1. Root(x) \in Item
      BY <1>0, <2>2, UpwardProperties DEF Root
    <3> QED
      BY <1>0, <2>2, <3>1, FreeKeepsApart DEF FreeAll
  <2> QED
    BY <1>6, <2>1, <2>2 DEF jscon_destroy, Fault, nodes
<1>7. ASSUME NEW p \in Item, NEW k \in DOMAIN table[p], jscon_delete(p, k)
      PROVE  FreedApart(type', branch')
  <2> DEFINE x == table[p][k]
  <2>1. CASE UNCHANGED <<type, branch>>
    BY <1>1, <2>1
  <2>2. CASE CanDettach(x) /\ Unlink(x) /\ FreeAll(Below(x, branch'))
    <3>1. x \in Item
      BY <1>0
    <3>2. FreedApart(type, branch')
      BY <1>4, <2>2, <3>1
    <3>3. branch' \in [Item -> Seq(Item)]
      <4>1. ForestInv'
        BY NextForestInv
      <4> QED
        BY <4>1 DEF ForestInv, IInv, TypeOK
    <3> QED
      BY <2>2, <3>1, <3>2, <3>3, FreeKeepsApart DEF FreeAll
  <2> QED
    BY <1>7, <2>1, <2>2 DEF jscon_delete, Fault, nodes
<1>8. ASSUME NEW p \in Item, NEW k \in DOMAIN table[p], jscon_delete_oom(p, k)
      PROVE  FreedApart(type', branch')
  BY <1>0, <1>6, <1>8 DEF jscon_delete_oom
<1>9. ASSUME NEW p \in Item, NEW x \in Item, jscon_append_oom(p, x)
      PROVE  FreedApart(type', branch')
  BY <1>1, <1>9 DEF jscon_append_oom, nodes
<1>10. CASE UNCHANGED vars
  BY <1>1, <1>10 DEF vars, nodes
<1> QED
  BY <1>2, <1>3, <1>5, <1>6, <1>7, <1>8, <1>9, <1>10 DEF Next

Order == Started /\ Begun /\ GotInOrder /\ PassedClean /\ LeavesUnread

LEMMA InitOrder == IterInit => Order /\ FreedApart(type, branch)
BY DEF IterInit, Init, Order, Started, Begun, GotInOrder, PassedClean, LeavesUnread,
       FreedApart, Steps, Underway

\* What a call returns changes nothing of the other walks.
LEMMA ReturnsOne ==
  ASSUME IterTypeOK, NEW w \in Walk, NEW x, Returns(w, x)
  PROVE  /\ UNCHANGED <<iterates, start, known>>
         /\ cursor'[w] = x /\ visited'[w] = visited[w] \cup ({x} \ {NULL})
         /\ \A v \in Walk \ {w} : cursor'[v] = cursor[v] /\ visited'[v] = visited[v]
BY DEF Returns, IterTypeOK

\* Steps of a walk leave alone what the others have got.
LEMMA OthersInOrder ==
  ASSUME Order, IterTypeOK, UNCHANGED <<type, parent, branch>>, NEW w \in Walk, NEW x,
         Returns(w, x)
  PROVE  /\ \A v \in Walk \ {w} :
              /\ Underway(v)' = Underway(v) /\ (Steps(v)' <=> Steps(v))
              /\ Reached(v)' = Reached(v) /\ Sought(v)' = Sought(v)
         /\ Sought(w)' = Sought(w)
<1>1. /\ UNCHANGED <<iterates, start, known>>
      /\ \A v \in Walk \ {w} : cursor'[v] = cursor[v] /\ visited'[v] = visited[v]
  BY ReturnsOne
<1> QED
  BY <1>1 DEF Underway, Steps, Reached, Sought

LEMMA GoesOnOrder ==
  ASSUME WalkInv, NEW w \in Walk, jscon_iter_next(w), UNCHANGED <<type, parent, branch>>,
         NEW a \in Item, NEW n \in Nat, GoesOn(w, a, n)
  PROVE  Order'
<1> DEFINE c == cursor[w]
           s == start[w]
           b == branch[a][n + 1]
<1>0. /\ IterInv /\ IterTypeOK /\ Order /\ Steps(w) /\ Returns(w, b)
      /\ last' = PushedFrames(c, a, n) /\ last \in [Item -> Nat]
      /\ a \in Upward(c, parent) /\ s \in Upward(a, parent)
      /\ n + 1 \in DOMAIN branch[a]
  BY IterFacts DEF WalkInv, IterInv, Order, GoesOn, jscon_iter_next, Steps
<1>1. /\ UNCHANGED <<iterates, start, known>>
      /\ cursor'[w] = b /\ visited'[w] = visited[w] \cup ({b} \ {NULL})
      /\ \A v \in Walk \ {w} : cursor'[v] = cursor[v] /\ visited'[v] = visited[v]
  BY <1>0, ReturnsOne
<1>2. /\ \A v \in Walk \ {w} :
           /\ Underway(v)' = Underway(v) /\ (Steps(v)' <=> Steps(v))
           /\ Reached(v)' = Reached(v) /\ Sought(v)' = Sought(v)
      /\ Sought(w)' = Sought(w)
  BY <1>0, OthersInOrder
<1>3. /\ BranchOf(type, parent, a, b)
      /\ type[a] \in Living
      /\ s \in Item /\ c \in Item
      /\ Upward(a, parent) \subseteq Upward(c, parent)
  BY <1>0, WalkGoesOn, AboveWalk, WalkOf DEF Walked
<1>4. /\ b \in Item /\ b # NULL /\ type[b] \in Living /\ parent[b] = a
      /\ Upward(b, parent) = {b} \cup Upward(a, parent)
  BY <1>3, ItemAssumption DEF BranchOf
<1>5. PassedBy(type, parent, branch, s, b) = PassedBy(type, parent, branch, s, c) \cup {b}
  BY <1>0, GoesOnPasses
<1>6. Underway(w) /\ Underway(w)' /\ Steps(w)' /\ iterates[w] = "items" /\ s # NULL
  BY <1>0, <1>1, <1>3, <1>4, ItemAssumption DEF Underway, Steps
<1>7. Reached(w) = PassedBy(type, parent, branch, s, c)
      /\ Reached(w)' = PassedBy(type, parent, branch, s, b)
      /\ Sought(w) = Item
  BY <1>1, <1>6 DEF Reached, Sought
<1>8. Started'
  BY <1>0, <1>1, <1>2, <1>6 DEF Started, Order
<1>9. Begun'
  <2>1. b \in Under(type, parent, s)
    BY <1>0, <1>4 DEF Under
  <2>2. SUFFICES ASSUME NEW v \in Walk, start[v] # NULL
                 PROVE  /\ type[start[v]] \in Living
                        /\ known[v] \subseteq Under(type, parent, start[v])
                        /\ Underway(v)' => cursor'[v] \in Under(type, parent, start[v])
                        /\ Underway(v)' /\ iterates[v] = "composites" =>
                             parent[start[v]] = NULL /\ type[cursor'[v]] \in Composite
    BY <1>1 DEF Begun
  <2>3. CASE v = w
    BY <1>0, <1>1, <1>6, <2>1, <2>2, <2>3 DEF Order, Begun
  <2>4. CASE v # w
    BY <1>0, <1>1, <1>2, <2>2, <2>4 DEF Order, Begun
  <2> QED
    BY <2>3, <2>4
<1>10. GotInOrder'
  <2>1. SUFFICES ASSUME NEW v \in Walk, start[v] # NULL
                 PROVE  /\ visited'[v] \subseteq Reached(v)' \cap Sought(v)'
                        /\ Reached(v)' \cap Sought(v)' \cap known[v] \subseteq visited'[v]
    BY <1>1 DEF GotInOrder
  <2>2. /\ visited[v] \subseteq Reached(v) \cap Sought(v)
        /\ Reached(v) \cap Sought(v) \cap known[v] \subseteq visited[v]
    BY <1>0, <2>1 DEF Order, GotInOrder
  <2>3. CASE v = w
    BY <1>1, <1>2, <1>4, <1>5, <1>7, <2>2, <2>3
  <2>4. CASE v # w
    BY <1>1, <1>2, <2>2, <2>4
  <2> QED
    BY <2>3, <2>4
<1>11. PassedClean'
  <2>1. SUFFICES ASSUME NEW v \in Walk, Steps(v)',
                        NEW x \in PassedBy(type, parent, branch, start[v], cursor'[v]),
                        x # cursor'[v], last'[x] # 0
                 PROVE  x \in Upward(cursor'[v], parent)
    BY <1>1 DEF PassedClean
  <2>2. x \in Item /\ start[v] \in Upward(x, parent)
    BY DEF PassedBy, Under
  <2>3. x = a \/ (last[x] # 0 /\ x \notin Upward(c, parent) \ Upward(a, parent))
    BY <1>0, <2>1, <2>2 DEF PushedFrames
  <2>4. CASE v = w
    <3>1. x \in PassedBy(type, parent, branch, s, c) /\ x # b
      BY <1>1, <1>5, <2>1, <2>4
    <3>2. x # c /\ last[x] # 0 => x \in Upward(c, parent)
      BY <1>0, <3>1 DEF Order, PassedClean
    <3>3. a \in Upward(a, parent) /\ c \in Upward(c, parent)
      BY <1>3, IterFacts, UpwardProperties, <1>0
    <3>4. x \in Upward(a, parent)
      BY <2>3, <3>2, <3>3
    <3> QED
      BY <1>1, <1>4, <2>4, <3>4
  <2>5. CASE v # w
    <3>1. Steps(v) /\ cursor'[v] = cursor[v]
      BY <1>1, <1>2, <2>1, <2>5
    <3>2. x # a
      <4>1. SUFFICES ASSUME x = a PROVE FALSE
        OBVIOUS
      <4>2. start[v] \in Upward(c, parent)
        BY <1>3, <2>2, <4>1
      <4>3. start[v] \in Upward(cursor[v], parent)
        BY <1>0, <3>1, WalkOf DEF Walked
      <4> QED
        BY <1>0, <2>5, <3>1, <4>2, <4>3 DEF IterInv, Apart
    <3>3. last[x] # 0
      BY <2>3, <3>2
    <3> QED
      BY <1>0, <2>1, <3>1, <3>3 DEF Order, PassedClean
  <2> QED
    BY <2>4, <2>5
<1>12. LeavesUnread'
  <2>1. type[a] \in Composite
    <3>1. a # NULL /\ parent \in [Item -> Item \cup {NULL}]
      BY <1>0, ItemAssumption, IterFacts
    <3> QED
      BY <1>0, <1>4, <3>1, IterFacts DEF ArraysAgree
  <2>2. \A i \in Item : last'[i] # 0 => i = a \/ last[i] # 0
    BY <1>0 DEF PushedFrames
  <2> QED
    BY <1>0, <2>1, <2>2 DEF Order, LeavesUnread, Composite
<1> QED
  BY <1>8, <1>9, <1>10, <1>11, <1>12 DEF Order

LEMMA EndsOrder ==
  ASSUME WalkInv, NEW w \in Walk, jscon_iter_next(w), UNCHANGED <<type, parent, branch>>, Ends(w)
  PROVE  Order'
<1> DEFINE c == cursor[w]
           s == start[w]
<1>0. /\ IterInv /\ IterTypeOK /\ Order /\ Steps(w) /\ Returns(w, NULL)
      /\ last' = [i \in Item |-> IF i \in Upward(c, parent) THEN 0 ELSE last[i]]
  BY DEF WalkInv, IterInv, Order, Ends, jscon_iter_next, Steps
<1>1. /\ UNCHANGED <<iterates, start, known>>
      /\ cursor'[w] = NULL /\ visited'[w] = visited[w]
      /\ \A v \in Walk \ {w} : cursor'[v] = cursor[v] /\ visited'[v] = visited[v]
  <2>1. visited[w] \cup ({NULL} \ {NULL}) = visited[w]
    OBVIOUS
  <2> QED
    BY <1>0, <2>1, ReturnsOne
<1>2. /\ \A v \in Walk \ {w} :
           /\ Underway(v)' = Underway(v) /\ (Steps(v)' <=> Steps(v))
           /\ Reached(v)' = Reached(v) /\ Sought(v)' = Sought(v)
      /\ Sought(w)' = Sought(w)
  BY <1>0, OthersInOrder
<1>3. Underway(w) /\ ~Underway(w)' /\ ~Steps(w)'
  BY <1>0, <1>1 DEF Underway, Steps
<1>4. /\ Reached(w) = PassedBy(type, parent, branch, s, c)
      /\ Reached(w)' = Under(type, parent, s)
      /\ Reached(w)' = Reached(w)
  <2>1. PassedBy(type, parent, branch, s, c) \subseteq Under(type, parent, s)
    BY DEF PassedBy
  <2>2. Reached(w) = PassedBy(type, parent, branch, s, c)
    BY <1>3 DEF Reached
  <2>3. Reached(w)' = Under(type, parent, s)
    BY <1>1, <1>3 DEF Reached
  <2> QED
    BY <1>0, <2>1, <2>2, <2>3, EndsPassed
<1>5. Started'
  BY <1>0, <1>1, <1>2, <1>3 DEF Started, Order
<1>6. Begun'
  BY <1>0, <1>1, <1>2, <1>3 DEF Begun, Order
<1>7. GotInOrder'
  BY <1>0, <1>1, <1>2, <1>4 DEF GotInOrder, Order
<1>8. \A x \in Item : last'[x] # 0 => last[x] # 0
  BY <1>0
<1>9. PassedClean'
  <2>1. SUFFICES ASSUME NEW v \in Walk, Steps(v)',
                        NEW x \in PassedBy(type, parent, branch, start[v], cursor'[v]),
                        x # cursor'[v], last'[x] # 0
                 PROVE  x \in Upward(cursor'[v], parent)
    BY <1>1 DEF PassedClean
  <2>2. v # w /\ Steps(v) /\ cursor'[v] = cursor[v]
    BY <1>1, <1>2, <1>3, <2>1
  <2>3. last[x] # 0
    BY <1>8, <2>1 DEF PassedBy, Under
  <2> QED
    BY <1>0, <2>1, <2>2, <2>3 DEF PassedClean, Order
<1>10. LeavesUnread'
  BY <1>0, <1>8 DEF LeavesUnread, Order
<1> QED
  BY <1>5, <1>6, <1>7, <1>9, <1>10 DEF Order

LEMMA CompositeOrder ==
  ASSUME WalkInv, NEW w \in Walk, jscon_iter_composite_r(w)
  PROVE  Order'
<1> DEFINE c == cursor[w]
           s == start[w]
           x == next[c]
           C == Composites(type, parent, s)
<1>0. /\ IterInv /\ ListInv /\ IterTypeOK /\ Order /\ ~Steps(w) /\ Underway(w)
      /\ Returns(w, x) /\ iterates[w] = "composites"
      /\ UNCHANGED <<type, parent, branch, last>>
      /\ type \in [Item -> Living \cup {"unborn", "freed"}]
      /\ next \in [Item -> Item \cup {NULL}]
  BY IterFacts DEF WalkInv, IterInv, Order, jscon_iter_composite_r, Steps, vars, nodes
<1>1. /\ UNCHANGED <<iterates, start, known>>
      /\ cursor'[w] = x /\ visited'[w] = visited[w] \cup ({x} \ {NULL})
      /\ \A v \in Walk \ {w} : cursor'[v] = cursor[v] /\ visited'[v] = visited[v]
  BY <1>0, ReturnsOne
<1>2. /\ \A v \in Walk \ {w} :
           /\ Underway(v)' = Underway(v) /\ (Steps(v)' <=> Steps(v))
           /\ Reached(v)' = Reached(v) /\ Sought(v)' = Sought(v)
      /\ Sought(w)' = Sought(w)
  BY <1>0, OthersInOrder
<1>3. /\ s # NULL /\ parent[s] = NULL
      /\ c \in Under(type, parent, s) /\ type[c] \in Composite
  BY <1>0 DEF Order, Started, Begun
<1>4. /\ c \in C /\ s \in Item /\ type[s] \in Composite
  <2>1. c \in Item /\ s \in Upward(c, parent)
    BY <1>3 DEF Under
  <2> QED
    BY <1>0, <1>3, <2>1, IterFacts, UpwardComposite DEF Composites
<1>5. /\ x # NULL =>
           /\ x \in C
           /\ \A y \in C :
                (y = x \/ Precedes(type, parent, branch, y, x)) <=>
                (y = x \/ y = c \/ Precedes(type, parent, branch, y, c))
      /\ x = NULL => \A y \in C : y = c \/ Precedes(type, parent, branch, y, c)
  BY <1>0, <1>3, <1>4, NextComposite
<1>6. /\ Sought(w) = {i \in Item : type[i] \in Composite}
      /\ C = Under(type, parent, s) \cap Sought(w)
      /\ Reached(w) = PassedBy(type, parent, branch, s, c)
      /\ Underway(w)' <=> x # NULL
      /\ ~Steps(w)'
  <2>1. Sought(w) = {i \in Item : type[i] \in Composite}
    BY <1>0 DEF Sought
  <2>2. \A i \in Item : type[i] \in Composite => type[i] \in Living
    BY DEF Living
  <2>3. C = Under(type, parent, s) \cap Sought(w)
    BY <2>1, <2>2 DEF Composites, Under
  <2> QED
    BY <1>0, <1>1, <2>1, <2>3 DEF Reached, Underway, Steps
<1>7. Reached(w)' \cap Sought(w) = (Reached(w) \cap Sought(w)) \cup ({x} \ {NULL})
  <2>1. CASE x # NULL
    <3>1. Reached(w)' = PassedBy(type, parent, branch, s, x)
      BY <1>0, <1>1, <1>6, <2>1 DEF Reached
    <3>2. /\ PassedBy(type, parent, branch, s, x) \cap Sought(w) =
               {y \in C : y = x \/ Precedes(type, parent, branch, y, x)}
          /\ PassedBy(type, parent, branch, s, c) \cap Sought(w) =
               {y \in C : y = c \/ Precedes(type, parent, branch, y, c)}
      BY <1>6 DEF PassedBy
    <3> QED
      BY <1>5, <1>6, <2>1, <3>1, <3>2
  <2>2. CASE x = NULL
    <3>1. Reached(w)' = Under(type, parent, s)
      BY <1>0, <1>1, <1>6, <2>2 DEF Reached
    <3>2. PassedBy(type, parent, branch, s, c) \cap Sought(w) = C
      BY <1>5, <1>6, <2>2 DEF PassedBy
    <3> QED
      BY <1>6, <2>2, <3>1, <3>2
  <2> QED
    BY <2>1, <2>2
<1>8. Started'
  BY <1>0, <1>1, <1>2, <1>3 DEF Started, Order
<1>9. Begun'
  <2>1. x # NULL => x \in Under(type, parent, s) /\ type[x] \in Composite
    BY <1>5, <1>6
  <2>2. SUFFICES ASSUME NEW v \in Walk, start[v] # NULL
                 PROVE  /\ type[start[v]] \in Living
                        /\ known[v] \subseteq Under(type, parent, start[v])
                        /\ Underway(v)' => cursor'[v] \in Under(type, parent, start[v])
                        /\ Underway(v)' /\ iterates[v] = "composites" =>
                             parent[start[v]] = NULL /\ type[cursor'[v]] \in Composite
    BY <1>0, <1>1 DEF Begun
  <2>3. CASE v = w
    BY <1>0, <1>1, <1>3, <1>6, <2>1, <2>2, <2>3 DEF Order, Begun
  <2>4. CASE v # w
    BY <1>0, <1>1, <1>2, <2>2, <2>4 DEF Order, Begun
  <2> QED
    BY <2>3, <2>4
<1>10. GotInOrder'
  <2>1. SUFFICES ASSUME NEW v \in Walk, start[v] # NULL
                 PROVE  /\ visited'[v] \subseteq Reached(v)' \cap Sought(v)'
                        /\ Reached(v)' \cap Sought(v)' \cap known[v] \subseteq visited'[v]
    BY <1>1 DEF GotInOrder
  <2>2. /\ visited[v] \subseteq Reached(v) \cap Sought(v)
        /\ Reached(v) \cap Sought(v) \cap known[v] \subseteq visited[v]
    BY <1>0, <2>1 DEF Order, GotInOrder
  <2>3. CASE v = w
    BY <1>1, <1>2, <1>7, <2>2, <2>3
  <2>4. CASE v # w
    BY <1>1, <1>2, <2>2, <2>4
  <2> QED
    BY <2>3, <2>4
<1>11. PassedClean'
  <2>1. SUFFICES ASSUME NEW v \in Walk, Steps(v)',
                        NEW y \in PassedBy(type, parent, branch, start[v], cursor'[v]),
                        y # cursor'[v], last[y] # 0
                 PROVE  y \in Upward(cursor'[v], parent)
    BY <1>0, <1>1 DEF PassedClean
  <2>2. v # w /\ Steps(v) /\ cursor'[v] = cursor[v]
    BY <1>1, <1>2, <1>6, <2>1
  <2> QED
    BY <1>0, <2>1, <2>2 DEF PassedClean, Order
<1>12. LeavesUnread'
  BY <1>0 DEF LeavesUnread, Order
<1> QED
  BY <1>8, <1>9, <1>10, <1>11, <1>12 DEF Order

LEMMA BeginOrder ==
  ASSUME WalkInv, NEW w \in Walk, NEW x \in Item, NEW what \in {"items", "composites"},
         begin(w, x, what)
  PROVE  Order'
<1>0. /\ IterInv /\ IterTypeOK /\ Order /\ type[x] \in Living
      /\ what = "composites" => type[x] \in Composite /\ parent[x] = NULL
      /\ UNCHANGED <<type, parent, branch, last>>
      /\ branch \in [Item -> Seq(Item)] /\ parent \in [Item -> Item \cup {NULL}]
      /\ x # NULL
  BY IterFacts, ItemAssumption
     DEF WalkInv, IterInv, Order, begin, vars, nodes, Alive, IsComposite, IsRoot
<1>1. /\ iterates'[w] = what /\ start'[w] = x /\ cursor'[w] = x
      /\ known'[w] = Below(x, branch) /\ visited'[w] = {x}
      /\ \A v \in Walk \ {w} :
           /\ iterates'[v] = iterates[v] /\ start'[v] = start[v] /\ cursor'[v] = cursor[v]
           /\ known'[v] = known[v] /\ visited'[v] = visited[v]
  BY <1>0 DEF begin, IterTypeOK
<1>2. /\ \A v \in Walk \ {w} :
           /\ Underway(v)' = Underway(v) /\ (Steps(v)' <=> Steps(v))
           /\ Reached(v)' = Reached(v) /\ Sought(v)' = Sought(v)
      /\ Underway(w)'
      /\ Steps(w)' <=> what = "items"
      /\ Reached(w)' = PassedBy(type, parent, branch, x, x)
      /\ x \in Sought(w)'
  <2>1. \A v \in Walk \ {w} : Underway(v)' = Underway(v) /\ (Steps(v)' <=> Steps(v))
    BY <1>0, <1>1 DEF Underway, Steps
  <2>2. \A v \in Walk \ {w} : Reached(v)' = Reached(v) /\ Sought(v)' = Sought(v)
    BY <1>0, <1>1, <2>1 DEF Reached, Sought
  <2>3. Underway(w)' /\ (Steps(w)' <=> what = "items")
    BY <1>0, <1>1 DEF Underway, Steps
  <2>4. Reached(w)' = PassedBy(type, parent, branch, x, x)
    BY <1>0, <1>1, <2>3 DEF Reached
  <2>5. x \in Sought(w)'
    BY <1>0, <1>1 DEF Sought
  <2> QED
    BY <2>1, <2>2, <2>3, <2>4, <2>5
<1>3. x \in Under(type, parent, x) /\ PassedBy(type, parent, branch, x, x) = {x}
  <2>1. x \in Under(type, parent, x)
    BY <1>0, UpwardProperties DEF Under
  <2>2. ASSUME NEW y \in Under(type, parent, x)
        PROVE  ~Precedes(type, parent, branch, y, x)
    BY <1>0, <2>2, NotBefore DEF Under
  <2> QED
    BY <2>1, <2>2 DEF PassedBy
<1>4. Below(x, branch) \subseteq Under(type, parent, x)
  <2>1. SUFFICES ASSUME NEW y \in Below(x, branch)
                 PROVE  y \in Item /\ type[y] \in Living /\ x \in Upward(y, parent)
    BY DEF Under
  <2>2. y \in Item
    BY <1>0, BelowProperties
  <2>3. ArraysAgree(type, parent, branch)
    BY <1>0, IterFacts
  <2>4. type[y] \in Living
    BY <1>0, <2>3, AllAlive
  <2> QED
    BY <1>0, <2>2, <2>3, <2>4, BelowIsUpward
<1>5. Started'
  BY <1>0, <1>1, <1>2 DEF Started, Order
<1>6. Begun'
  <2>1. SUFFICES ASSUME NEW v \in Walk, start'[v] # NULL
                 PROVE  /\ type[start'[v]] \in Living
                        /\ known'[v] \subseteq Under(type, parent, start'[v])
                        /\ Underway(v)' => cursor'[v] \in Under(type, parent, start'[v])
                        /\ Underway(v)' /\ iterates'[v] = "composites" =>
                             parent[start'[v]] = NULL /\ type[cursor'[v]] \in Composite
    BY <1>0 DEF Begun
  <2>2. CASE v = w
    BY <1>0, <1>1, <1>3, <1>4, <2>2
  <2>3. CASE v # w
    BY <1>0, <1>1, <1>2, <2>1, <2>3 DEF Order, Begun
  <2> QED
    BY <2>2, <2>3
<1>7. GotInOrder'
  <2>1. SUFFICES ASSUME NEW v \in Walk, start'[v] # NULL
                 PROVE  /\ visited'[v] \subseteq Reached(v)' \cap Sought(v)'
                        /\ Reached(v)' \cap Sought(v)' \cap known'[v] \subseteq visited'[v]
    BY DEF GotInOrder
  <2>2. CASE v = w
    BY <1>1, <1>2, <1>3, <2>2
  <2>3. CASE v # w
    BY <1>0, <1>1, <1>2, <2>1, <2>3 DEF Order, GotInOrder
  <2> QED
    BY <2>2, <2>3
<1>8. PassedClean'
  <2>1. SUFFICES ASSUME NEW v \in Walk, Steps(v)',
                        NEW y \in PassedBy(type, parent, branch, start'[v], cursor'[v]),
                        y # cursor'[v], last[y] # 0
                 PROVE  y \in Upward(cursor'[v], parent)
    BY <1>0 DEF PassedClean
  <2>2. CASE v = w
    BY <1>1, <1>3, <2>1, <2>2
  <2>3. CASE v # w
    BY <1>0, <1>1, <1>2, <2>1, <2>3 DEF Order, PassedClean
  <2> QED
    BY <2>2, <2>3
<1>9. LeavesUnread'
  BY <1>0 DEF LeavesUnread, Order
<1> QED
  BY <1>5, <1>6, <1>7, <1>8, <1>9 DEF Order

LEMMA StopOrder ==
  ASSUME WalkInv, NEW w \in Walk, stop(w)
  PROVE  Order'
<1>0. /\ IterTypeOK /\ Order /\ UNCHANGED <<type, parent, branch, last, iterates>>
  BY DEF WalkInv, IterInv, Order, stop, vars, nodes
<1>1. /\ start'[w] = NULL /\ cursor'[w] = NULL
      /\ \A v \in Walk \ {w} :
           /\ start'[v] = start[v] /\ cursor'[v] = cursor[v]
           /\ known'[v] = known[v] /\ visited'[v] = visited[v]
  BY <1>0 DEF stop, IterTypeOK
<1>2. /\ \A v \in Walk \ {w} :
           /\ Underway(v)' = Underway(v) /\ (Steps(v)' <=> Steps(v))
           /\ Reached(v)' = Reached(v) /\ Sought(v)' = Sought(v)
      /\ ~Underway(w)' /\ ~Steps(w)'
  <2>1. \A v \in Walk \ {w} : Underway(v)' = Underway(v) /\ (Steps(v)' <=> Steps(v))
    BY <1>0, <1>1 DEF Underway, Steps
  <2>2. \A v \in Walk \ {w} : Reached(v)' = Reached(v) /\ Sought(v)' = Sought(v)
    BY <1>0, <1>1, <2>1 DEF Reached, Sought
  <2> QED
    BY <1>1, <2>1, <2>2 DEF Underway, Steps
<1>3. Started'
  BY <1>0, <1>1, <1>2 DEF Started, Order
<1>4. Begun'
  BY <1>0, <1>1, <1>2 DEF Begun, Order
<1>5. GotInOrder'
  BY <1>0, <1>1, <1>2 DEF GotInOrder, Order
<1>6. PassedClean'
  BY <1>0, <1>1, <1>2 DEF PassedClean, Order
<1>7. LeavesUnread'
  BY <1>0 DEF LeavesUnread, Order
<1> QED
  BY <1>3, <1>4, <1>5, <1>6, <1>7 DEF Order

LEMMA EditOrder ==
  ASSUME WalkInv, edit
  PROVE  Order'
<1>1. /\ LeavesUnread /\ IInv /\ [Next]_vars /\ last' = last
      /\ \A w \in Walk : start'[w] = NULL /\ cursor'[w] = NULL
  BY DEF WalkInv, IterInv, ForestInv, edit, Underway
<1>2. Started' /\ Begun' /\ GotInOrder' /\ PassedClean'
  BY <1>1 DEF Started, Begun, GotInOrder, PassedClean, Steps, Underway
<1>3. LeavesUnread'
  BY <1>1, LeavesStay DEF LeavesUnread
<1> QED
  BY <1>2, <1>3 DEF Order

\* A tree that is appended while a walk is at c comes after c, or has no
\* frames: a leaf has none, and another tree goes to a root only.
LEMMA GrowAfter ==
  ASSUME Client \subseteq {"oom"}, IterInv, LeavesUnread, NEW p \in Item, NEW x \in Item,
         CanAppend(p, x), NEW pb \in [Item -> Item \cup {NULL}], SetAt(parent, pb, x, p),
         NEW bs, SetAt(branch, bs, p, Append(branch[p], x)),
         NEW c \in Item, type[c] \in Living, x \notin Upward(c, parent),
         NEW y \in Item, type[y] \in Living, x \in Upward(y, parent), last[y] # 0,
         Precedes(type, pb, bs, y, c)
  PROVE  y \in Upward(c, pb)
<1>0. /\ parent \in [Item -> Item \cup {NULL}]
      /\ branch \in [Item -> Seq(Item)]
      /\ parent[x] = NULL /\ x \notin Upward(p, parent) /\ type[x] \in Living
      /\ type[x] \in Composite => parent[p] = NULL
  BY IterFacts DEF CanAppend, Alive, IsRoot, IsComposite
<1>1. type[x] \in Composite
  <2>1. x # y => type[x] \in Composite
    BY BranchTowards
  <2>2. x = y => type[x] # "leaf"
    BY DEF LeavesUnread
  <2> QED
    BY <1>0, <2>1, <2>2 DEF Living
<1>2. Upward(c, pb) = Upward(c, parent)
  BY <1>0, JoinChains
<1>3. Upward(y, pb) = Upward(y, parent) \cup {p}
  <2>1. Upward(y, pb) = Upward(y, parent) \cup Upward(p, parent)
    BY <1>0, JoinChains
  <2> QED
    BY <1>0, <1>1, <2>1, UpwardStep
<1>4. SUFFICES ASSUME ~(y # c /\ y \in Upward(c, pb)) PROVE FALSE
  BY <1>0, <1>2, UpwardProperties
<1>5. PICK q \in Item : \E i, j \in DOMAIN bs[q] :
        /\ type[q] \in Living /\ i < j
        /\ bs[q][i] \in Upward(y, pb) /\ bs[q][j] \in Upward(c, pb)
  BY <1>4 DEF Precedes
<1>6. PICK i \in DOMAIN bs[q], j \in DOMAIN bs[q] :
        /\ type[q] \in Living /\ i < j
        /\ bs[q][i] \in Upward(y, pb) /\ bs[q][j] \in Upward(c, pb)
  BY <1>5
<1>7. j \in DOMAIN branch[q] /\ branch[q][j] = bs[q][j]
  <2>1. bs[q][j] # x
    BY <1>2, <1>6
  <2>2. CASE q = p
    <3>1. branch[p] \in Seq(Item) /\ bs[p] = Append(branch[p], x)
      BY <1>0 DEF SetAt
    <3> QED
      BY <1>6, <2>1, <2>2, <3>1
  <2>3. CASE q # p
    BY <1>6, <2>3 DEF SetAt
  <2> QED
    BY <2>2, <2>3
<1>8. i \in DOMAIN branch[q] /\ branch[q][i] = bs[q][i]
  <2>1. CASE q = p
    <3>1. branch[p] \in Seq(Item) /\ bs[p] = Append(branch[p], x)
      BY <1>0 DEF SetAt
    <3> QED
      BY <1>6, <1>7, <2>1, <3>1
  <2>2. CASE q # p
    BY <1>6, <2>2 DEF SetAt
  <2> QED
    BY <2>1, <2>2
<1>9. /\ BranchOf(type, parent, q, branch[q][i])
      /\ BranchOf(type, parent, q, branch[q][j])
  BY <1>6, <1>7, <1>8, BranchAt
<1>10. q \in Upward(q, parent) /\ q # NULL
  BY <1>0, ItemAssumption, UpwardProperties
<1>11. q \in Upward(c, parent) /\ Upward(q, parent) \subseteq Upward(c, parent)
  <2>1. branch[q][j] \in Upward(c, parent)
    BY <1>2, <1>6, <1>7
  <2>2. Upward(branch[q][j], parent) \subseteq Upward(c, parent)
    BY <1>0, <2>1, UpwardTransitive
  <2> QED
    BY <1>9, <1>10, <2>2 DEF BranchOf
<1>12. q \in Upward(y, parent)
  <2>1. branch[q][i] # p
    BY <1>0, <1>1, <1>9, <1>10 DEF BranchOf
  <2>2. branch[q][i] \in Upward(y, parent)
    BY <1>3, <1>6, <1>8, <2>1
  <2>3. Upward(branch[q][i], parent) \subseteq Upward(y, parent)
    BY <1>0, <2>2, UpwardTransitive
  <2> QED
    BY <1>9, <1>10, <2>3 DEF BranchOf
<1>13. x \in Upward(q, parent) \/ q \in Upward(x, parent)
  BY <1>0, <1>12, UpwardLinear
<1>14. Upward(x, parent) = {x}
  BY <1>0, UpwardStep
<1> QED
  BY <1>11, <1>13, <1>14

\* What jscon_append() does to what a walk at c that began with s has passed.
GrownPast(pb, bs, x, s, c) ==
  /\ c \in Under(type, pb, s) /\ s # x
  /\ Upward(c, pb) = Upward(c, parent)
  /\ PassedBy(type, parent, branch, s, c) \subseteq PassedBy(type, pb, bs, s, c)
  /\ PassedBy(type, pb, bs, s, c) \cap Under(type, parent, s)
       \subseteq PassedBy(type, parent, branch, s, c)
  /\ \A y \in PassedBy(type, pb, bs, s, c) : y # c /\ last[y] # 0 =>
       y \in PassedBy(type, parent, branch, s, c) \/ y \in Upward(c, pb)

LEMMA GrowPasses ==
  ASSUME Client \subseteq {"oom"}, IterInv, LeavesUnread, NEW p \in Item, NEW x \in Item,
         CanAppend(p, x), NEW pb \in [Item -> Item \cup {NULL}], SetAt(parent, pb, x, p),
         NEW bs, SetAt(branch, bs, p, Append(branch[p], x)), NEW s \in Item,
         NEW c \in Under(type, parent, s), x \notin Upward(c, parent)
  PROVE  GrownPast(pb, bs, x, s, c)
<1>0. /\ parent \in [Item -> Item \cup {NULL}]
      /\ branch \in [Item -> Seq(Item)]
      /\ parent[x] = NULL
      /\ c \in Item /\ type[c] \in Living /\ s \in Upward(c, parent)
  BY IterFacts DEF CanAppend, IsRoot, Under
<1>1. \A y \in Item : Upward(y, parent) \subseteq Upward(y, pb)
  BY <1>0, AppendUpward
<1>2. ASSUME NEW y \in Item, x \notin Upward(y, parent)
      PROVE  Upward(y, pb) = Upward(y, parent)
  <2>1. \A i \in Upward(y, parent) : pb[i] = parent[i]
    BY <1>0, <1>2, UpwardProperties DEF SetAt
  <2> QED
    BY <1>0, <2>1, UpwardSame
<1>3. PassedBy(type, parent, branch, s, c) \subseteq PassedBy(type, pb, bs, s, c)
  <2>1. SUFFICES ASSUME NEW y \in PassedBy(type, parent, branch, s, c)
                 PROVE  y \in PassedBy(type, pb, bs, s, c)
    OBVIOUS
  <2>2. y \in Under(type, pb, s)
    BY <1>1 DEF PassedBy, Under
  <2>3. y \in Item /\ (y = c \/ Precedes(type, parent, branch, y, c))
    BY DEF PassedBy, Under
  <2>4. y = c \/ Precedes(type, pb, bs, y, c)
    BY <1>0, <2>3, AppendPrecedes
  <2> QED
    BY <2>2, <2>4 DEF PassedBy
<1>4. ASSUME NEW y \in Under(type, parent, s)
      PROVE  x \notin Upward(y, parent)
  <2>1. SUFFICES ASSUME x \in Upward(y, parent) PROVE FALSE
    OBVIOUS
  <2>2. y \in Item /\ s \in Upward(y, parent)
    BY DEF Under
  <2>3. x \in Upward(s, parent) \/ s \in Upward(x, parent)
    BY <1>0, <2>1, <2>2, UpwardLinear
  <2>4. Upward(s, parent) \subseteq Upward(c, parent) /\ Upward(x, parent) = {x}
    BY <1>0, UpwardTransitive, UpwardStep
  <2> QED
    BY <1>0, <2>3, <2>4
<1>5. ASSUME NEW y \in PassedBy(type, pb, bs, s, c), x \notin Upward(y, parent)
      PROVE  y \in PassedBy(type, parent, branch, s, c)
  <2>1. y \in Item /\ (y = c \/ Precedes(type, pb, bs, y, c))
    BY DEF PassedBy, Under
  <2>2. y \in Under(type, parent, s)
    BY <1>2, <1>5, <2>1 DEF PassedBy, Under
  <2>3. y = c \/ Precedes(type, parent, branch, y, c)
    BY <1>0, <1>5, <2>1, AppendPrecedesBack
  <2> QED
    BY <2>2, <2>3 DEF PassedBy
<1>6. ASSUME NEW y \in PassedBy(type, pb, bs, s, c), y # c, last[y] # 0
      PROVE  y \in PassedBy(type, parent, branch, s, c) \/ y \in Upward(c, pb)
  <2>1. y \in Item /\ type[y] \in Living /\ Precedes(type, pb, bs, y, c)
    BY <1>6 DEF PassedBy, Under
  <2>2. CASE x \in Upward(y, parent)
    BY <1>0, <1>6, <2>1, <2>2, GrowAfter
  <2>3. CASE x \notin Upward(y, parent)
    BY <1>5, <2>3
  <2> QED
    BY <2>2, <2>3
<1>7. c \in Under(type, pb, s)
  BY <1>0, <1>1 DEF Under
<1>8. PassedBy(type, pb, bs, s, c) \cap Under(type, parent, s)
        \subseteq PassedBy(type, parent, branch, s, c)
  BY <1>4, <1>5
<1> QED
  BY <1>0, <1>2, <1>3, <1>6, <1>7, <1>8 DEF GrownPast

LEMMA GrowOrder ==
  ASSUME Client \subseteq {"oom"}, WalkInv, NEW p \in Item, NEW x \in Item, grow(p, x)
  PROVE  Order'
<1>0. /\ IterInv /\ ForestInv /\ IterTypeOK /\ Order /\ LeavesUnread
      /\ jscon_append(p, x) /\ CanAppend(p, x)
      /\ UNCHANGED <<last, iterates, start, cursor, known, visited>>
      /\ \A w \in Walk : Underway(w) => Root(cursor[w]) # x
      /\ parent \in [Item -> Item \cup {NULL}]
      /\ branch \in [Item -> Seq(Item)]
  BY IterFacts DEF WalkInv, IterInv, Order, grow, walks, jscon_append
<1>1. type' = type /\ parent[x] = NULL
  BY <1>0, AppendFields
<1>2. CASE UNCHANGED <<parent, branch>>
  <2>1. Started' /\ LeavesUnread'
    BY <1>0, <1>1 DEF Order, Started, LeavesUnread, Underway
  <2>2. Begun'
    BY <1>0, <1>1, <1>2 DEF Order, Begun, Underway
  <2>3. GotInOrder'
    BY <1>0, <1>1, <1>2 DEF Order, GotInOrder, Reached, Sought, Underway
  <2>4. PassedClean'
    BY <1>0, <1>1, <1>2 DEF Order, PassedClean, Steps, Underway
  <2> QED
    BY <2>1, <2>2, <2>3, <2>4 DEF Order
<1>3. CASE /\ parent' \in [Item -> Item \cup {NULL}]
           /\ SetAt(parent, parent', x, p)
           /\ SetAt(branch, branch', p, Append(branch[p], x))
  <2>1. \A s \in Item : Under(type, parent, s) \subseteq Under(type, parent', s)
    BY <1>0, <1>1, <1>3, AppendUpward DEF Under
  <2>2. /\ \A w \in Walk : /\ Underway(w)' = Underway(w) /\ (Steps(w)' <=> Steps(w))
                           /\ Sought(w)' = Sought(w)
        /\ \A w \in Walk : start[w] # NULL => start[w] \in Item
    BY <1>0, <1>1 DEF Underway, Steps, Sought, IterTypeOK
  <2> DEFINE s(w) == start[w]
             c(w) == cursor[w]
             Was(w) == PassedBy(type, parent, branch, s(w), c(w))
             Is(w) == PassedBy(type, parent', branch', s(w), c(w))
  <2>3. ASSUME NEW w \in Walk, Underway(w)
        PROVE  s(w) \in Item /\ GrownPast(parent', branch', x, s(w), c(w))
    <3>1. s(w) \in Item /\ c(w) \in Under(type, parent, s(w))
      BY <1>0, <2>2, <2>3 DEF Order, Started, Begun
    <3>2. c(w) \in Item /\ type[c(w)] \in Living /\ Root(c(w)) # x
      BY <1>0, <2>3, <3>1 DEF Under
    <3>3. x \notin Upward(c(w), parent)
      BY <1>0, <3>2, GrowKeepsUpward
    <3> HIDE DEF s, c
    <3>4. GrownPast(parent', branch', x, s(w), c(w))
      BY <1>0, <1>3, <3>1, <3>3, GrowPasses
    <3> QED
      BY <3>1, <3>4
  <2>4. Started' /\ LeavesUnread'
    BY <1>0, <1>1 DEF Order, Started, LeavesUnread, Underway
  <2>5. Begun'
    <3>1. SUFFICES ASSUME NEW w \in Walk, s(w) # NULL
                   PROVE  /\ type[s(w)] \in Living
                          /\ known[w] \subseteq Under(type, parent', s(w))
                          /\ Underway(w) => c(w) \in Under(type, parent', s(w))
                          /\ Underway(w) /\ iterates[w] = "composites" =>
                               /\ parent'[s(w)] = NULL
                               /\ type[c(w)] \in Composite
      BY <1>0, <1>1, <2>2 DEF Begun
    <3>2. /\ type[s(w)] \in Living
          /\ known[w] \subseteq Under(type, parent, s(w))
          /\ Underway(w) /\ iterates[w] = "composites" =>
               parent[s(w)] = NULL /\ type[c(w)] \in Composite
      BY <1>0, <3>1 DEF Order, Begun
    <3>3. Underway(w) => c(w) \in Under(type, parent', s(w)) /\ s(w) # x /\ s(w) \in Item
      BY <2>3 DEF GrownPast
    <3>4. known[w] \subseteq Under(type, parent', s(w))
      BY <2>1, <2>2, <3>1, <3>2
    <3> QED
      BY <1>3, <3>2, <3>3, <3>4 DEF SetAt
  <2>6. GotInOrder'
    <3>1. SUFFICES ASSUME NEW w \in Walk, s(w) # NULL
                   PROVE  /\ visited[w] \subseteq Reached(w)' \cap Sought(w)
                          /\ Reached(w)' \cap Sought(w) \cap known[w] \subseteq visited[w]
      BY <1>0, <1>1, <2>2 DEF GotInOrder
    <3>2. /\ visited[w] \subseteq Reached(w) \cap Sought(w)
          /\ Reached(w) \cap Sought(w) \cap known[w] \subseteq visited[w]
          /\ known[w] \subseteq Under(type, parent, s(w))
      BY <1>0, <3>1 DEF Order, GotInOrder, Begun
    <3>3. CASE Underway(w)
      <4>1. Reached(w) = Was(w) /\ Reached(w)' = Is(w)
        BY <1>0, <1>1, <2>2, <3>3 DEF Reached
      <4>2. Was(w) \subseteq Is(w) /\ Is(w) \cap Under(type, parent, s(w)) \subseteq Was(w)
        BY <2>3, <3>3 DEF GrownPast
      <4> QED
        BY <3>2, <4>1, <4>2
    <3>4. CASE ~Underway(w)
      <4>1. Reached(w) = Under(type, parent, s(w)) /\ Reached(w)' = Under(type, parent', s(w))
        BY <1>0, <1>1, <2>2, <3>4 DEF Reached
      <4>2. Under(type, parent, s(w)) \subseteq Under(type, parent', s(w))
        BY <2>1, <2>2, <3>1
      <4> QED
        BY <3>2, <4>1, <4>2
    <3> QED
      BY <3>3, <3>4
  <2>7. PassedClean'
    <3>1. SUFFICES ASSUME NEW w \in Walk, Steps(w), NEW y \in Is(w), y # c(w), last[y] # 0
                   PROVE  y \in Upward(c(w), parent')
      BY <1>0, <1>1, <2>2 DEF PassedClean
    <3>2. Underway(w)
      BY <3>1 DEF Steps
    <3>3. y \in Was(w) => y \in Upward(c(w), parent)
      BY <1>0, <3>1 DEF Order, PassedClean
    <3> QED
      BY <2>3, <3>1, <3>2, <3>3 DEF GrownPast
  <2> QED
    BY <2>4, <2>5, <2>6, <2>7 DEF Order
<1> QED
  BY <1>0, <1>2, <1>3, AppendFields

LEMMA NextWalkInv ==
  ASSUME IsFiniteSet(Item), Client \subseteq {"oom"}, "shared" \notin Habit,
         WalkInv, [IterNext]_itervars
  PROVE  WalkInv'
<1>0. /\ IterInv /\ ListInv /\ Order /\ FreedApart(type, branch) /\ ForestInv
      /\ "duplicate_keys" \notin Client
  BY DEF WalkInv, Order, IterInv
<1>1. IterInv'
  BY <1>0, NextIterInv
<1>2. [Next]_vars
  <2>1. ASSUME NEW p \in Item, NEW x \in Item, status = "ok", grow(p, x)
        PROVE  Next
    BY <2>1 DEF grow, Next
  <2>2. ASSUME NEW w \in Walk, jscon_iter_next(w)
        PROVE  UNCHANGED vars
    BY <1>0, <2>2, IterNextSteps
  <2>3. ASSUME NEW w \in Walk, jscon_iter_composite_r(w)
        PROVE  UNCHANGED vars
    BY <2>3 DEF jscon_iter_composite_r
  <2> QED
    BY <2>1, <2>2, <2>3 DEF IterNext, edit, begin, stop, itervars
<1>3. ListInv' /\ FreedApart(type, branch)'
  BY <1>0, <1>2, NextListInv, NextFreedApart
<1>4. Order'
  <2>1. ASSUME NEW w \in Walk, jscon_iter_next(w)
        PROVE  Order'
    <3>1. UNCHANGED <<type, parent, branch>>
      BY <1>0, <2>1, IterNextOutcome DEF vars, nodes
    <3>2. CASE Ends(w)
      BY <2>1, <3>1, <3>2, EndsOrder
    <3>3. ASSUME NEW a \in Item, NEW n \in Nat, GoesOn(w, a, n)
          PROVE  Order'
      BY <2>1, <3>1, <3>3, GoesOnOrder
    <3> QED
      BY <1>0, <2>1, <3>2, <3>3, IterNextOutcome
  <2>2. CASE UNCHANGED itervars
    <3>1. /\ UNCHANGED <<type, parent, branch>>
          /\ UNCHANGED <<last, iterates, start, cursor, known, visited>>
      BY <2>2 DEF itervars, vars, nodes, walks
    <3>2. \A w \in Walk : /\ Underway(w)' = Underway(w) /\ Steps(w)' = Steps(w)
                          /\ Reached(w)' = Reached(w) /\ Sought(w)' = Sought(w)
      BY <3>1 DEF Underway, Steps, Reached, Sought
    <3>3. Started' /\ Begun'
      BY <1>0, <3>1, <3>2 DEF Order, Started, Begun
    <3>4. GotInOrder'
      BY <1>0, <3>1, <3>2 DEF Order, GotInOrder
    <3>5. PassedClean' /\ LeavesUnread'
      BY <1>0, <3>1, <3>2 DEF Order, PassedClean, LeavesUnread
    <3> QED
      BY <3>3, <3>4, <3>5 DEF Order
  <2> QED
    BY <2>1, <2>2, EditOrder, GrowOrder, BeginOrder, StopOrder, CompositeOrder DEF IterNext
<1> QED
  BY <1>1, <1>3, <1>4 DEF WalkInv, Order

LEMMA InitWalkInv == IterInit => WalkInv
<1>1. IterInit => Init
  BY DEF IterInit
<1> QED
  BY <1>1, InitIterInv, InitListInv, InitOrder DEF WalkInv, Order

\* What the invariant says of the tree below the item a walk began with.
LEMMA WalkFacts ==
  ASSUME WalkInv, NEW w \in Walk, start[w] # NULL
  PROVE  Below(start[w], branch) = Under(type, parent, start[w])
<1>1. /\ start[w] \in Item /\ type[start[w]] \in Living
      /\ parent \in [Item -> Item \cup {NULL}]
      /\ branch \in [Item -> Seq(Item)]
      /\ ArraysAgree(type, parent, branch)
  BY IterFacts DEF WalkInv, IterInv, IterTypeOK, Begun
<1>2. /\ Below(start[w], branch) \subseteq Item
      /\ \A x \in Below(start[w], branch) : type[x] \in Living
  BY <1>1, BelowProperties, AllAlive
<1>3. ASSUME NEW x \in Item, type[x] \in Living
      PROVE  x \in Below(start[w], branch) <=> start[w] \in Upward(x, parent)
  BY <1>1, <1>3, BelowIsUpward
<1> QED
  BY <1>2, <1>3 DEF Under

\* Only arrays of live items hold what is above a live item.
LEMMA BeforeIsPrecedes ==
  ASSUME WalkInv, NEW x \in Item, NEW c \in Item, type[c] \in Living
  PROVE  Before(x, c) <=> Precedes(type, parent, branch, x, c)
<1>1. /\ type \in [Item -> Living \cup {"unborn", "freed"}]
      /\ parent \in [Item -> Item \cup {NULL}]
      /\ branch \in [Item -> Seq(Item)]
      /\ ArraysAgree(type, parent, branch)
      /\ UnbornEmpty(type, parent, branch, table)
      /\ FreedApart(type, branch)
  BY IterFacts DEF WalkInv, IterInv, ForestInv, IInv
<1>2. ASSUME NEW p \in Item, NEW j \in DOMAIN branch[p], branch[p][j] \in Upward(c, parent)
      PROVE  type[p] \in Living
  <2>1. type[branch[p][j]] \in Living
    BY <1>1, <1>2, AllAlive
  <2>2. branch[p][j] \in ToSet(branch[p])
    BY DEF ToSet
  <2>3. type[p] # "freed"
    BY <1>1, <2>1, <2>2 DEF FreedApart, Living, Composite
  <2>4. type[p] # "unborn"
    BY <1>1 DEF UnbornEmpty
  <2> QED
    BY <1>1, <2>3, <2>4
<1> QED
  BY <1>2 DEF Before, Precedes

(***************************************************************************)
(* No call faults, those of the walks among them: _jscon_push() finds a    *)
(* branch where the frame says that there is one, and its assertion holds. *)
(***************************************************************************)
THEOREM WalksNeverFault ==
  ASSUME IsFiniteSet(Item), Client \subseteq {"oom"}, "shared" \notin Habit
  PROVE  IterSpec => []NoFault
<1>1. WalkInv => NoFault
  BY DEF WalkInv, ListInv
<1> QED
  BY InitWalkInv, NextWalkInv, <1>1, PTL DEF IterSpec

(***************************************************************************)
(* jscon_iter_next() gets the tree in order from where its caller begins,  *)
(* and jscon_iter_composite_r() the composites of it, each of them once,   *)
(* also when other walks were left and trees are appended meanwhile.       *)
(***************************************************************************)
THEOREM WalksArePreorder ==
  ASSUME IsFiniteSet(Item), Client \subseteq {"oom"}, "shared" \notin Habit
  PROVE  IterSpec => []WalkIsPreorder
<1>1. ASSUME WalkInv
      PROVE  WalkIsPreorder
  <2>1. SUFFICES ASSUME NEW w \in Walk, start[w] # NULL
                 PROVE  /\ visited[w] \subseteq Passed(w)
                        /\ Passed(w) \cap known[w] \subseteq visited[w]
    BY DEF WalkIsPreorder
  <2>2. Below(start[w], branch) = Under(type, parent, start[w])
    BY <1>1, <2>1, WalkFacts
  <2>3. iterates[w] \in {"items", "composites"}
    BY <1>1 DEF WalkInv, IterInv, IterTypeOK
  <2>4. ASSUME NEW x \in Item, Underway(w)
        PROVE  Before(x, cursor[w]) <=> Precedes(type, parent, branch, x, cursor[w])
    <3>1. cursor[w] \in Item /\ type[cursor[w]] \in Living
      BY <1>1, <2>1, <2>4 DEF WalkInv, Begun, Under
    <3> QED
      BY <1>1, <3>1, BeforeIsPrecedes
  <2>5. Passed(w) = Reached(w) \cap Sought(w)
    <3>1. CASE Underway(w)
      <4>1. Passed(w) = {x \in Under(type, parent, start[w]) :
                           /\ iterates[w] = "composites" => IsComposite(x)
                           /\ x = cursor[w] \/ Precedes(type, parent, branch, x, cursor[w])}
        BY <2>2, <2>4, <3>1 DEF Passed, Under
      <4> QED
        BY <2>3, <3>1, <4>1 DEF Reached, Sought, PassedBy, Under, IsComposite
    <3>2. CASE ~Underway(w)
      BY <2>2, <2>3, <3>2 DEF Passed, Reached, Sought, Under, IsComposite
    <3> QED
      BY <3>1, <3>2
  <2> QED
    BY <1>1, <2>1, <2>5 DEF WalkInv, GotInOrder
<1> QED
  BY InitWalkInv, NextWalkInv, <1>1, PTL DEF IterSpec

(***************************************************************************)
(* The call with which a walk ends leaves no frame below the item that the *)
(* walk began with, so that the next one may begin there.                  *)
(***************************************************************************)
THEOREM FramesAreCleared ==
  ASSUME IsFiniteSet(Item), Client \subseteq {"oom"}, "shared" \notin Habit
  PROVE  IterSpec => FramesCleared
<1> DEFINE Cleared == \A w \in Walk : jscon_iter_next(w) /\ ~Underway(w)' =>
                        \A i \in Below(start[w], branch) : last'[i] = 0
<1>1. ASSUME WalkInv
      PROVE  Cleared
  <2>1. SUFFICES ASSUME NEW w \in Walk, jscon_iter_next(w), ~Underway(w)',
                        NEW i \in Below(start[w], branch)
                 PROVE  last'[i] = 0
    OBVIOUS
  <2>2. /\ IterInv /\ IterTypeOK /\ Steps(w) /\ start[w] # NULL
        /\ Walked(type, parent, branch, last, start[w], cursor[w])
    <3>1. IterInv /\ IterTypeOK /\ Steps(w) /\ start[w] # NULL
      BY <1>1, <2>1 DEF WalkInv, IterInv, jscon_iter_next, Steps, Started
    <3> QED
      BY <3>1, WalkOf
  <2>3. Ends(w)
    <3>1. SUFFICES ASSUME NEW a \in Item, NEW n \in Nat, GoesOn(w, a, n) PROVE FALSE
      BY <2>1, <2>2, IterNextOutcome
    <3>2. BranchOf(type, parent, a, branch[a][n + 1])
      <4>1. a \in Upward(cursor[w], parent) /\ n + 1 \in DOMAIN branch[a]
        BY <3>1 DEF GoesOn
      <4>2. type[a] \in Living
        BY <2>2, <4>1, AboveWalk
      <4> QED
        BY <2>2, <4>1, <4>2, BranchAt
    <3>3. cursor'[w] = branch[a][n + 1]
      BY <2>2, <3>1, ReturnsOne DEF GoesOn
    <3> QED
      BY <2>1, <3>2, <3>3, ItemAssumption DEF BranchOf, Underway
  <2>4. i \in PassedBy(type, parent, branch, start[w], cursor[w]) /\ i \in Item
    BY <1>1, <2>2, <2>3, WalkFacts, EndsPassed DEF Under
  <2>5. cursor[w] \in Upward(cursor[w], parent)
    BY <2>2, IterFacts, UpwardProperties DEF Walked
  <2>6. last[i] # 0 => i \in Upward(cursor[w], parent)
    BY <1>1, <2>2, <2>4, <2>5 DEF WalkInv, PassedClean
  <2> QED
    BY <2>3, <2>4, <2>6 DEF Ends
<1>2. WalkInv => [Cleared]_itervars
  BY <1>1
<1> QED
  BY InitWalkInv, NextWalkInv, <1>2, PTL DEF IterSpec, FramesCleared
==============================================================================
