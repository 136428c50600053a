--------------------------- MODULE JsconParseProofs ---------------------------
(***************************************************************************)
(* For any well-formed texts, any finite set of items and any names: what  *)
(* jscon_parse() builds, token by token, is at every turn of its loop a    *)
(* tree like those that calls build, and the loop ends with the text.      *)
(*                                                                         *)
(* For texts of JSON besides: the room that is counted when a bracket is   *)
(* read is what its composite needs, so nothing is refused and nothing is  *)
(* written past the end of a branch array.                                 *)
(***************************************************************************)
EXTENDS JsconParse, JsconListProofs

\* What is left of t after n tokens.
Rest(t, n) == SubSeq(t, n + 1, Len(t))

------------------------------------------------------------------------------
(* Texts.                                                                  *)

\* One token less is left of what is left, or three.
LEMMA RestProperties ==
  ASSUME NEW S, NEW t \in Seq(S), NEW n \in 0 .. Len(t)
  PROVE  /\ Rest(t, n) \in Seq(S)
         /\ Len(Rest(t, n)) = Len(t) - n
         /\ \A m \in 1 .. Len(t) - n : Rest(t, n)[m] = t[n + m]
         /\ Rest(t, n) = <<>> <=> n = Len(t)
         /\ n < Len(t) => Head(Rest(t, n)) = t[n + 1] /\ Tail(Rest(t, n)) = Rest(t, n + 1)
<1>1. Len(t) \in Nat /\ n \in Int /\ \A i \in n + 1 .. Len(t) : t[i] \in S
  BY LenProperties, ElementOfSeq
<1>2. /\ Rest(t, n) \in Seq(S)
      /\ Len(Rest(t, n)) = Len(t) - n
      /\ \A m \in 1 .. Len(t) - n : Rest(t, n)[m] = t[n + m]
  <2>1. /\ SubSeq(t, n + 1, Len(t)) \in Seq(S)
        /\ Len(SubSeq(t, n + 1, Len(t))) =
             IF n + 1 <= Len(t) THEN Len(t) - (n + 1) + 1 ELSE 0
        /\ \A i \in 1 .. Len(t) - (n + 1) + 1 : SubSeq(t, n + 1, Len(t))[i] = t[n + 1 + i - 1]
    <3>1. n + 1 \in Int /\ Len(t) \in Int
      BY <1>1
    <3> QED
      BY <1>1, <3>1, SubSeqProperties
  <2> QED
    BY <1>1, <2>1 DEF Rest
<1>3. Rest(t, n) = <<>> <=> n = Len(t)
  BY <1>1, <1>2, EmptySeq
<1>4. ASSUME n < Len(t)
      PROVE  Head(Rest(t, n)) = t[n + 1] /\ Tail(Rest(t, n)) = Rest(t, n + 1)
  BY <1>1, <1>4, HeadTailOfSubSeq DEF Rest
<1> QED
  BY <1>2, <1>3, <1>4

LEMMA RestOfAll ==
  ASSUME NEW S, NEW t \in Seq(S), Len(t) > 0
  PROVE  t # <<>> /\ Rest(t, 0) = t
<1>1. Len(t) \in Nat /\ 0 \in 0 .. Len(t)
  BY LenProperties
<1>2. /\ Rest(t, 0) \in Seq(S)
      /\ Len(Rest(t, 0)) = Len(t) - 0
      /\ \A m \in 1 .. Len(t) - 0 : Rest(t, 0)[m] = t[0 + m]
  BY <1>1, RestProperties
<1>3. Len(Rest(t, 0)) = Len(t) /\ \A m \in 1 .. Len(t) : Rest(t, 0)[m] = t[m]
  BY <1>1, <1>2
<1>4. Rest(t, 0) = t
  BY <1>2, <1>3, SeqEqual
<1> QED
  BY <1>4, EmptySeq

LEMMA RestFromThird ==
  ASSUME NEW S, NEW t \in Seq(S), NEW n \in 0 .. Len(t), Len(t) - n >= 2
  PROVE  SubSeq(Rest(t, n), 3, Len(Rest(t, n))) = Rest(t, n + 2)
<1> DEFINE r == Rest(t, n)
           u == SubSeq(r, 3, Len(r))
           v == Rest(t, n + 2)
<1>1. /\ Len(t) \in Nat /\ n \in Nat /\ n + 2 \in 0 .. Len(t)
      /\ r \in Seq(S) /\ Len(r) = Len(t) - n /\ \A m \in 1 .. Len(t) - n : r[m] = t[n + m]
  BY LenProperties, RestProperties
<1>2. v \in Seq(S) /\ Len(v) = Len(t) - (n + 2) /\ \A m \in 1 .. Len(t) - (n + 2) : v[m] = t[n + 2 + m]
  BY <1>1, RestProperties
<1> HIDE DEF r, v
<1>3. /\ u \in Seq(S)
      /\ Len(u) = IF 3 <= Len(r) THEN Len(r) - 3 + 1 ELSE 0
      /\ \A i \in 1 .. Len(r) - 3 + 1 : u[i] = r[3 + i - 1]
  <2>1. 3 \in Int /\ Len(r) \in Int /\ \A i \in 3 .. Len(r) : r[i] \in S
    BY <1>1, ElementOfSeq
  <2> QED
    BY <2>1, SubSeqProperties
<1> HIDE DEF u
<1>4. Len(u) = Len(v) /\ \A i \in 1 .. Len(u) : u[i] = v[i]
  BY <1>1, <1>2, <1>3
<1>5. u = v
  BY <1>2, <1>3, <1>4, SeqEqual
<1> QED
  BY <1>5 DEF u, v, r

\* How many tokens of the first n are of a kind.
LEMMA OccursStep ==
  ASSUME NEW b, NEW n \in Nat, NEW c
  PROVE  /\ Occurs(b, n, c) \in Nat
         /\ Occurs(b, n + 1, c) = Occurs(b, n, c) + (IF Is(b[n + 1], c) THEN 1 ELSE 0)
<1> DEFINE S == {m \in 1 .. n : Is(b[m], c)}
           T == {m \in 1 .. n + 1 : Is(b[m], c)}
<1>1. IsFiniteSet(S) /\ Cardinality(S) \in Nat
  <2>1. IsFiniteSet(1 .. n)
    BY FS_Interval
  <2>2. S \in SUBSET (1 .. n)
    OBVIOUS
  <2>3. IsFiniteSet(S)
    BY <2>1, <2>2, FS_Subset
  <2> QED
    BY <2>3, FS_CardinalityType
<1>2. n + 1 \notin S
  OBVIOUS
<1>3. T = IF Is(b[n + 1], c) THEN S \cup {n + 1} ELSE S
  OBVIOUS
<1>4. Occurs(b, n, c) = Cardinality(S) /\ Occurs(b, n + 1, c) = Cardinality(T)
  BY DEF Occurs
<1> HIDE DEF S, T
<1>5. Cardinality(T) = Cardinality(S) + (IF Is(b[n + 1], c) THEN 1 ELSE 0)
  BY <1>1, <1>2, <1>3, FS_AddElement
<1> QED
  BY <1>1, <1>4, <1>5

LEMMA UnclosedStep ==
  ASSUME NEW b, NEW n \in Nat, NEW open, NEW close
  PROVE  /\ Unclosed(b, n, open, close) \in Int
         /\ Unclosed(b, n + 1, open, close) =
              Unclosed(b, n, open, close) + (IF Is(b[n + 1], open) THEN 1 ELSE 0)
                                          - (IF Is(b[n + 1], close) THEN 1 ELSE 0)
<1>1. /\ Occurs(b, n, open) \in Nat
      /\ Occurs(b, n + 1, open) = Occurs(b, n, open) + (IF Is(b[n + 1], open) THEN 1 ELSE 0)
  BY OccursStep
<1>2. /\ Occurs(b, n, close) \in Nat
      /\ Occurs(b, n + 1, close) = Occurs(b, n, close) + (IF Is(b[n + 1], close) THEN 1 ELSE 0)
  BY OccursStep
<1> QED
  BY <1>1, <1>2 DEF Unclosed

\* A token is of one kind.
LEMMA Kinds ==
  ASSUME NEW t
  PROVE  /\ Opens(t) => ~Closes(t)
         /\ Is(t, "value") => ~Opens(t) /\ ~Closes(t)
         /\ Is(t, "key") => ~Opens(t) /\ ~Closes(t)
         /\ Is(t, ",") => ~Opens(t) /\ ~Closes(t)
         /\ Is(t, ":") => ~Opens(t) /\ ~Closes(t)
BY Zenon DEF Opens, Closes, Is

LEMMA Tokens ==
  ASSUME NEW t \in Token
  PROVE  /\ Is(t, "key") => t[2] \in Name /\ t = KeyToken(t[2])
         /\ Is(t, "value") => t[2] \in Literal
<1>1. /\ \A c : Mark(c)[1] = c
      /\ \A k : KeyToken(k)[1] = "key" /\ KeyToken(k)[2] = k
      /\ \A v : ValueToken(v)[1] = "value" /\ ValueToken(v)[2] = v
  BY DEF Mark, KeyToken, ValueToken
<1>2. \/ \E c : c # "key" /\ c # "value" /\ t = Mark(c)
      \/ \E k \in Name : t = KeyToken(k)
      \/ \E v \in Literal : t = ValueToken(v)
  BY Zenon DEF Token
<1>3. "key" # "value"
  OBVIOUS
<1> QED
  BY <1>1, <1>2, <1>3 DEF Is

\* The brackets of two kinds, by the next token.
BothStep(b, n, o, c, u, v) ==
  LET Both(m) == Unclosed(b, m, o, c) + Unclosed(b, m, u, v)
      rise == Is(b[n + 1], o) \/ Is(b[n + 1], u)
      fall == Is(b[n + 1], c) \/ Is(b[n + 1], v)
  IN  /\ Both(n) \in Int
      /\ rise => Both(n + 1) = Both(n) + 1
      /\ fall => Both(n + 1) = Both(n) - 1
      /\ ~rise /\ ~fall => Both(n + 1) = Both(n)

LEMMA UnclosedBothStep ==
  ASSUME NEW b, NEW n \in Nat, NEW o, NEW c, NEW u, NEW v,
         o # c, o # u, o # v, c # u, c # v, u # v
  PROVE  BothStep(b, n, o, c, u, v)
<1>1. /\ Unclosed(b, n, o, c) \in Int
      /\ Unclosed(b, n + 1, o, c) =
           Unclosed(b, n, o, c) + (IF Is(b[n + 1], o) THEN 1 ELSE 0)
                                - (IF Is(b[n + 1], c) THEN 1 ELSE 0)
  BY UnclosedStep
<1>2. /\ Unclosed(b, n, u, v) \in Int
      /\ Unclosed(b, n + 1, u, v) =
           Unclosed(b, n, u, v) + (IF Is(b[n + 1], u) THEN 1 ELSE 0)
                                - (IF Is(b[n + 1], v) THEN 1 ELSE 0)
  BY UnclosedStep
<1> QED
  BY <1>1, <1>2 DEF Is, BothStep

\* The level rises with a bracket that opens, falls with one that closes, and
\* stays with any other token.
LEMMA LevelStep ==
  ASSUME NEW b, NEW n \in Nat
  PROVE  /\ Level(b, n) \in Int
         /\ Opens(b[n + 1]) => Level(b, n + 1) = Level(b, n) + 1
         /\ Closes(b[n + 1]) => Level(b, n + 1) = Level(b, n) - 1
         /\ ~Opens(b[n + 1]) /\ ~Closes(b[n + 1]) => Level(b, n + 1) = Level(b, n)
<1>1. /\ "{" # "}" /\ "{" # "[" /\ "{" # "]" /\ "}" # "[" /\ "}" # "]" /\ "[" # "]"
  BY Zenon
<1>2. BothStep(b, n, "{", "}", "[", "]")
  BY <1>1, UnclosedBothStep, Zenon
<1> QED
  BY <1>2, Zenon DEF BothStep, Level, Opens, Closes

LEMMA LevelOfNothing ==
  ASSUME NEW b
  PROVE  Level(b, 0) = 0
<1>1. ASSUME NEW c
      PROVE  Occurs(b, 0, c) = 0
  <2>1. {m \in 1 .. 0 : Is(b[m], c)} = {}
    OBVIOUS
  <2> QED
    BY <2>1, FS_EmptySet DEF Occurs
<1>2. ASSUME NEW o, NEW c, NEW u, NEW v
      PROVE  Unclosed(b, 0, o, c) + Unclosed(b, 0, u, v) = 0
  BY <1>1 DEF Unclosed
<1> QED
  BY <1>2, Zenon DEF Level

\* Room is a number, whatever is counted.
LEMMA RoomIsNat ==
  ASSUME NEW b \in Seq(Token)
  PROVE  Room(b) \in Nat
<1>1. ASSUME NEW open, NEW close, NEW sep
      PROVE  Count(b, open, close, sep) \in Nat
  <2> DEFINE C == {n \in Within(b, open, close) : Is(b[n], sep) /\ Unclosed(b, n, open, close) = 1}
  <2>1. DOMAIN b = 1 .. Len(b) /\ Len(b) \in Nat
    BY LenProperties
  <2>2. IsFiniteSet(DOMAIN b) /\ C \in SUBSET DOMAIN b
    BY <2>1, FS_Interval DEF Within
  <2>3. Count(b, open, close, sep) = Cardinality(C)
    BY DEF Count
  <2> HIDE DEF C
  <2>4. IsFiniteSet(C)
    BY <2>2, FS_Subset
  <2> QED
    BY <2>3, <2>4, FS_CardinalityType
<1>2. _jscon_count_property(b) \in Nat /\ _jscon_count_element(b) \in Nat
  BY <1>1, Zenon DEF _jscon_count_property, _jscon_count_element
<1>3. Room(b) = 1 + _jscon_count_property(b) \/ Room(b) = 1 + _jscon_count_element(b)
  BY Zenon DEF Room
<1> QED
  BY <1>2, <1>3

------------------------------------------------------------------------------
(* A tree that grows at one place.                                         *)

\* A tree and its list.
Grown(ty, pa, br, nx, pv) ==
  /\ pa \in [Item -> Item \cup {NULL}]
  /\ br \in [Item -> Seq(Item)]
  /\ nx \in [Item -> Item \cup {NULL}]
  /\ ArraysAgree(ty, pa, br)
  /\ Climbs(ty, pa)
  /\ Lists(ty, pa, br, nx, pv)

\* p is where the tree of r grows, and its list ends with l, which no
\* composite comes after that is not p or above it.
Place(ty, pa, br, nx, p, r, l) ==
  /\ p \in Item /\ ty[p] \in Composite
  /\ r \in Upward(p, pa) /\ pa[r] = NULL
  /\ l \in Upward(r, nx) /\ nx[l] = NULL
  /\ InOrBefore(ty, pa, br, l, p)

\* What malloc() hands out.
Fresh(ty, pa, br, nx, pv, i) ==
  /\ i \in Item /\ ty[i] \notin Living
  /\ pa[i] = NULL /\ br[i] = <<>> /\ nx[i] = NULL /\ pv[i] = NULL

LEMMA BirthGrown ==
  ASSUME NEW ty, NEW pa, NEW br, NEW nx, NEW pv, Grown(ty, pa, br, nx, pv),
         NEW i, Fresh(ty, pa, br, nx, pv, i),
         NEW t \in Living, NEW tz, SetAt(ty, tz, i, t)
  PROVE  Grown(tz, pa, br, nx, pv)
<1>1. /\ pa \in [Item -> Item \cup {NULL}]
      /\ br \in [Item -> Seq(Item)]
      /\ nx \in [Item -> Item \cup {NULL}]
      /\ ArraysAgree(ty, pa, br)
      /\ Climbs(ty, pa)
      /\ Lists(ty, pa, br, nx, pv)
  BY DEF Grown
<1>2. /\ i \in Item /\ ty[i] \notin Living
      /\ pa[i] = NULL /\ br[i] = <<>> /\ nx[i] = NULL /\ pv[i] = NULL
  BY DEF Fresh
<1>3. tz[i] \in Living /\ \A j \in Item : j # i => tz[j] = ty[j]
  BY DEF SetAt
<1>4. ArraysAgree(tz, pa, br)
  BY <1>1, <1>2, <1>3, BirthKeepsArrays
<1>5. Lists(tz, pa, br, nx, pv)
  BY <1>1, <1>2, <1>3, BirthLists
<1>6. Climbs(tz, pa)
  <2>1. i \in Upward(i, pa)
    BY <1>1, <1>2, UpwardProperties
  <2> QED
    BY <1>1, <1>2, <1>3, <2>1 DEF Climbs
<1> QED
  BY <1>1, <1>4, <1>5, <1>6 DEF Grown

\* A fresh item is nowhere in the tree.
LEMMA FreshApart ==
  ASSUME NEW ty, NEW pa, NEW br, NEW nx, NEW pv, Grown(ty, pa, br, nx, pv),
         NEW p, NEW r, NEW l, Place(ty, pa, br, nx, p, r, l),
         NEW i, Fresh(ty, pa, br, nx, pv, i)
  PROVE  /\ r \in Item /\ l \in Item
         /\ ty[r] \in Composite /\ ty[l] \in Composite
         /\ i # p /\ i # r /\ i # l
         /\ \A y \in Item : ty[y] \in Composite => i \notin Upward(y, pa)
<1>1. /\ pa \in [Item -> Item \cup {NULL}]
      /\ nx \in [Item -> Item \cup {NULL}]
      /\ ArraysAgree(ty, pa, br)
      /\ Lists(ty, pa, br, nx, pv)
  BY DEF Grown
<1>2. /\ p \in Item /\ ty[p] \in Composite
      /\ r \in Upward(p, pa) /\ pa[r] = NULL
      /\ l \in Upward(r, nx)
  BY DEF Place
<1>3. ty[i] \notin Composite
  BY DEF Fresh, Living
<1>4. \A y \in Item : ty[y] \in Composite =>
        \A a \in Upward(y, pa) : a \in Item /\ ty[a] \in Composite
  BY <1>1, UpwardComposite
<1>5. r \in Item /\ ty[r] \in Composite
  BY <1>2, <1>4
<1>6. l \in Composites(ty, pa, r)
  BY <1>1, <1>2, <1>5 DEF Lists, ListOf
<1>7. l \in Item /\ ty[l] \in Composite
  BY <1>6 DEF Composites
<1> QED
  BY <1>2, <1>3, <1>4, <1>5, <1>7

\* A birth changes no place.
LEMMA BirthPlace ==
  ASSUME NEW ty, NEW pa, NEW br, NEW nx, NEW p, NEW r, NEW l, Place(ty, pa, br, nx, p, r, l),
         NEW i \in Item, i # p, NEW t \in Living, NEW tz, SetAt(ty, tz, i, t)
  PROVE  Place(tz, pa, br, nx, p, r, l)
<1>1. \A j \in Item : (ty[j] \in Living => tz[j] \in Living) /\ (j # i => tz[j] = ty[j])
  BY DEF SetAt
<1>2. Precedes(ty, pa, br, l, p) => Precedes(tz, pa, br, l, p)
  BY <1>1 DEF Precedes
<1> QED
  BY <1>1, <1>2 DEF Place, InOrBefore

LEMMA GraftClimbs ==
  ASSUME NEW ty, NEW pa \in [Item -> Item \cup {NULL}], Climbs(ty, pa),
         NEW p \in Item, NEW i \in Item, ty[p] \in Living, pa[i] = NULL,
         i \notin Upward(p, pa),
         NEW pb \in [Item -> Item \cup {NULL}], SetAt(pa, pb, i, p)
  PROVE  Climbs(ty, pb)
<1>1. pb[i] = p /\ \A j \in Item : j # i => pb[j] = pa[j]
  BY DEF SetAt
<1> QED
  BY <1>1, AppendClimbs

\* A primitive is born as the last branch of p.
LEMMA SproutLeaf ==
  ASSUME NEW ty, NEW pa, NEW br, NEW nx, NEW pv, Grown(ty, pa, br, nx, pv),
         NEW p, NEW r, NEW l, Place(ty, pa, br, nx, p, r, l),
         NEW i, Fresh(ty, pa, br, nx, pv, i), NEW tz, SetAt(ty, tz, i, "leaf"),
         NEW pb \in [Item -> Item \cup {NULL}], SetAt(pa, pb, i, p),
         NEW bs \in [Item -> Seq(Item)], SetAt(br, bs, p, Append(br[p], i))
  PROVE  Grown(tz, pb, bs, nx, pv) /\ Place(tz, pb, bs, nx, p, r, l)
<1>1. Grown(tz, pa, br, nx, pv)
  BY BirthGrown DEF Living
<1>2. /\ r \in Item /\ l \in Item
      /\ ty[r] \in Composite /\ ty[l] \in Composite
      /\ i # p /\ i # r /\ i # l
      /\ \A y \in Item : ty[y] \in Composite => i \notin Upward(y, pa)
  BY FreshApart
<1>3. i \in Item /\ pa[i] = NULL
  BY DEF Fresh
<1>4. Place(tz, pa, br, nx, p, r, l)
  BY <1>2, <1>3, BirthPlace DEF Living
<1>5. /\ pa \in [Item -> Item \cup {NULL}]
      /\ br \in [Item -> Seq(Item)]
      /\ nx \in [Item -> Item \cup {NULL}]
      /\ ArraysAgree(tz, pa, br)
      /\ Climbs(tz, pa)
      /\ Lists(tz, pa, br, nx, pv)
  BY <1>1 DEF Grown
<1>6. /\ p \in Item /\ tz[p] \in Composite
      /\ r \in Upward(p, pa) /\ pa[r] = NULL
      /\ l \in Upward(r, nx) /\ nx[l] = NULL
      /\ InOrBefore(tz, pa, br, l, p)
  BY <1>4 DEF Place
<1>7. ty[p] \in Composite /\ tz[i] = "leaf" /\ tz[i] \in Living /\ tz[i] \notin Composite
  BY <1>3 DEF Place, SetAt, Living, Composite
<1>8. i \notin Upward(p, pa) /\ i \notin Upward(l, pa)
  BY <1>2, <1>6, <1>7
<1>9. ArraysAgree(tz, pb, bs)
  BY <1>3, <1>5, <1>6, <1>7, GraftKeepsArrays
<1>10. Climbs(tz, pb)
  BY <1>3, <1>5, <1>6, <1>8, GraftClimbs DEF Living
<1>11. Lists(tz, pb, bs, nx, pv)
  BY <1>3, <1>5, <1>6, <1>7, AppendLeafLists
<1>12. Upward(p, pb) = Upward(p, pa) /\ Upward(l, pb) = Upward(l, pa)
  <2>1. Joined(pa, pb, i, p)
    BY <1>3, <1>5, <1>6, <1>8, JoinedUpward
  <2> QED
    BY <1>2, <1>6, <1>8, <2>1 DEF Joined
<1>13. pb[r] = NULL
  BY <1>2, <1>6 DEF SetAt
<1>14. InOrBefore(tz, pb, bs, l, p)
  <2>1. CASE p \in Upward(l, pa)
    BY <1>12, <2>1 DEF InOrBefore
  <2>2. CASE Precedes(tz, pa, br, l, p)
    BY <1>2, <1>3, <1>5, <1>6, <2>2, AppendPrecedes DEF InOrBefore
  <2> QED
    BY <1>6, <2>1, <2>2 DEF InOrBefore
<1>15. Grown(tz, pb, bs, nx, pv)
  BY <1>5, <1>9, <1>10, <1>11 DEF Grown
<1>16. Place(tz, pb, bs, nx, p, r, l)
  BY <1>6, <1>12, <1>13, <1>14 DEF Place
<1> QED
  BY <1>15, <1>16

\* A composite is born as the last branch of p, and the list goes on with it.
LEMMA SproutComposite ==
  ASSUME NEW ty, NEW pa, NEW br, NEW nx, NEW pv, Grown(ty, pa, br, nx, pv),
         NEW p, NEW r, NEW l, Place(ty, pa, br, nx, p, r, l),
         NEW i, Fresh(ty, pa, br, nx, pv, i),
         NEW t \in Composite, NEW tz, SetAt(ty, tz, i, t),
         NEW pb \in [Item -> Item \cup {NULL}], SetAt(pa, pb, i, p),
         NEW bs \in [Item -> Seq(Item)], SetAt(br, bs, p, Append(br[p], i)),
         NEW nw \in [Item -> Item \cup {NULL}], SetAt(nx, nw, l, i),
         NEW pw, SetAt(pv, pw, i, l)
  PROVE  Grown(tz, pb, bs, nw, pw) /\ Place(tz, pb, bs, nw, i, r, i)
<1>0. t \in Living
  BY DEF Living
<1>1. Grown(tz, pa, br, nx, pv)
  BY <1>0, BirthGrown
<1>2. /\ r \in Item /\ l \in Item
      /\ ty[r] \in Composite /\ ty[l] \in Composite
      /\ i # p /\ i # r /\ i # l
      /\ \A y \in Item : ty[y] \in Composite => i \notin Upward(y, pa)
  BY FreshApart
<1>3. i \in Item /\ pa[i] = NULL /\ nx[i] = NULL
  BY DEF Fresh
<1>4. Place(tz, pa, br, nx, p, r, l)
  BY <1>0, <1>2, <1>3, BirthPlace
<1>5. /\ pa \in [Item -> Item \cup {NULL}]
      /\ br \in [Item -> Seq(Item)]
      /\ nx \in [Item -> Item \cup {NULL}]
      /\ ArraysAgree(tz, pa, br)
      /\ Climbs(tz, pa)
      /\ Lists(tz, pa, br, nx, pv)
  BY <1>1 DEF Grown
<1>6. /\ p \in Item /\ tz[p] \in Composite
      /\ r \in Upward(p, pa) /\ pa[r] = NULL
      /\ l \in Upward(r, nx) /\ nx[l] = NULL
      /\ InOrBefore(tz, pa, br, l, p)
  BY <1>4 DEF Place
<1>7. /\ ty[p] \in Composite
      /\ tz[i] \in Composite /\ tz[i] \in Living
      /\ tz[l] \in Composite
  BY <1>0, <1>2, <1>3 DEF Place, SetAt
<1>8. i \notin Upward(p, pa)
  BY <1>2, <1>6, <1>7
<1>9. ArraysAgree(tz, pb, bs)
  BY <1>3, <1>5, <1>6, <1>7, GraftKeepsArrays
<1>10. Climbs(tz, pb)
  BY <1>3, <1>5, <1>6, <1>8, GraftClimbs DEF Living
<1>11. Precedes(tz, pb, bs, l, i)
  BY <1>2, <1>3, <1>5, <1>6, <1>7, <1>8, AppendedIsLast
<1>12. Lists(tz, pb, bs, nw, pw)
  BY <1>3, <1>5, <1>6, <1>7, <1>8, <1>11, JoinLists
<1>13. Upward(i, pb) = {i} \cup Upward(p, pa)
  <2>1. Joined(pa, pb, i, p)
    BY <1>3, <1>5, <1>6, <1>8, JoinedUpward
  <2>2. Upward(i, pa) = {i}
    BY <1>3, <1>5, UpwardStep
  <2> QED
    BY <1>3, <2>1, <2>2 DEF Joined
<1>14. pb[r] = NULL /\ nw[i] = NULL /\ nw[l] = i
  BY <1>2, <1>3, <1>6 DEF SetAt
<1>15. i \in Upward(r, nw)
  <2>1. Upward(i, nx) = {i}
    BY <1>3, <1>5, UpwardStep
  <2>2. Joined(nx, nw, l, i)
    BY <1>2, <1>3, <1>5, <1>6, <2>1, JoinedUpward
  <2> QED
    BY <1>2, <1>6, <2>1, <2>2 DEF Joined
<1>16. i \in Upward(i, pb)
  BY <1>13
<1>17. Grown(tz, pb, bs, nw, pw)
  BY <1>9, <1>10, <1>12 DEF Grown
<1>18. Place(tz, pb, bs, nw, i, r, i)
  BY <1>3, <1>6, <1>7, <1>13, <1>14, <1>15, <1>16 DEF Place, InOrBefore
<1> QED
  BY <1>17, <1>18

\* What is before a composite, or in it, is so for its parent.
LEMMA PlaceUp ==
  ASSUME NEW ty, NEW pa, NEW br, NEW nx, NEW pv, Grown(ty, pa, br, nx, pv),
         NEW p, NEW r, NEW l, Place(ty, pa, br, nx, p, r, l), pa[p] # NULL
  PROVE  Place(ty, pa, br, nx, pa[p], r, l)
<1>1. /\ pa \in [Item -> Item \cup {NULL}]
      /\ nx \in [Item -> Item \cup {NULL}]
      /\ ArraysAgree(ty, pa, br)
      /\ Lists(ty, pa, br, nx, pv)
  BY DEF Grown
<1>2. /\ p \in Item /\ ty[p] \in Composite
      /\ r \in Upward(p, pa) /\ pa[r] = NULL
      /\ l \in Upward(r, nx) /\ nx[l] = NULL
      /\ InOrBefore(ty, pa, br, l, p)
  BY DEF Place
<1>3. pa[p] \in Item /\ Upward(p, pa) = {p} \cup Upward(pa[p], pa)
  BY <1>1, <1>2, UpwardStep
<1>4. ty[pa[p]] \in Composite
  BY <1>1, <1>2 DEF ArraysAgree, Living
<1>5. r \in Upward(pa[p], pa)
  BY <1>2, <1>3
<1>6. r \in Item
  BY <1>1, <1>2, UpwardTransitive
<1>7. l \in Item
  BY <1>1, <1>2, <1>6, UpwardTransitive
<1>8. pa[p] \in Upward(pa[p], pa)
  BY <1>1, <1>3, UpwardProperties
<1>9. \A y \in Upward(l, pa) : pa[y] # NULL => pa[y] \in Upward(l, pa)
  BY <1>1, <1>7, UpwardProperties
<1>10. InOrBefore(ty, pa, br, l, pa[p])
  <2>1. CASE p \in Upward(l, pa)
    BY <1>9, <2>1 DEF InOrBefore
  <2>2. CASE l # p /\ l \in Upward(p, pa)
    <3>1. l = pa[p] \/ (l # pa[p] /\ l \in Upward(pa[p], pa))
      BY <1>3, <2>2
    <3> QED
      BY <1>8, <3>1 DEF InOrBefore, Precedes
  <2>3. ASSUME NEW q \in Item, NEW m \in DOMAIN br[q], NEW n \in DOMAIN br[q],
               ty[q] \in Living, m < n, br[q][m] \in Upward(l, pa), br[q][n] \in Upward(p, pa)
        PROVE  InOrBefore(ty, pa, br, l, pa[p])
    <3>1. CASE br[q][n] = p
      <4>1. br[q][m] \in ToSet(br[q]) /\ br[q][n] \in ToSet(br[q])
        BY DEF ToSet
      <4>2. pa[br[q][m]] = q /\ pa[p] = q
        BY <1>1, <2>3, <3>1, <4>1 DEF ArraysAgree
      <4> QED
        BY <1>3, <1>9, <2>3, <4>2, ItemAssumption DEF InOrBefore
    <3>2. CASE br[q][n] # p
      BY <1>3, <2>3, <3>2 DEF InOrBefore, Precedes
    <3> QED
      BY <3>1, <3>2
  <2> QED
    BY <1>2, <2>1, <2>2, <2>3 DEF InOrBefore, Precedes
<1> QED
  BY <1>2, <1>3, <1>4, <1>5, <1>10 DEF Place

------------------------------------------------------------------------------
(* What was read of a text.                                                *)

LEMMA TextProperties ==
  ASSUME NEW tx, WellFormed(tx)
  PROVE  /\ tx \in Seq(Token) /\ Len(tx) \in Nat /\ DOMAIN tx = 1 .. Len(tx)
         /\ Len(tx) > 0
         /\ Opens(tx[1]) \/ Is(tx[1], "value")
         /\ \A n \in 1 .. Len(tx) : /\ tx[n] \in Token
                                    /\ Level(tx, n) \in Nat
                                    /\ Level(tx, n) = 0 <=> n = Len(tx)
<1>1. tx \in Seq(Token) /\ tx # <<>>
  BY DEF WellFormed
<1>2. Len(tx) \in Nat /\ DOMAIN tx = 1 .. Len(tx) /\ Len(tx) > 0
  BY <1>1, LenProperties, EmptySeq
<1>3. \A n \in 1 .. Len(tx) : tx[n] \in Token
  BY <1>1, ElementOfSeq
<1> QED
  BY <1>1, <1>2, <1>3 DEF WellFormed

\* Between n and q no token opens or closes.
Steady(tx, n, q) == \A s \in n .. q : Level(tx, s) = Level(tx, n)

LEMMA SteadyStep ==
  ASSUME NEW tx, NEW n \in Nat
  PROVE  /\ Steady(tx, n, n)
         /\ \A q \in Nat : n <= q /\ Steady(tx, n, q) /\ ~Opens(tx[q + 1]) /\ ~Closes(tx[q + 1]) =>
              Steady(tx, n, q + 1)
<1>1. Steady(tx, n, n)
  BY DEF Steady
<1>2. ASSUME NEW q \in Nat, n <= q, Steady(tx, n, q), ~Opens(tx[q + 1]), ~Closes(tx[q + 1])
      PROVE  Steady(tx, n, q + 1)
  <2>1. Level(tx, q + 1) = Level(tx, q)
    BY <1>2, LevelStep
  <2> QED
    BY <1>2, <2>1 DEF Steady
<1> QED
  BY <1>1, <1>2

\* Key k was read at level v, and nothing below that level since.
KeyRead(k, v, tx, n) ==
  \E m \in 1 .. n : /\ tx[m] = KeyToken(k)
                    /\ Level(tx, m) = v
                    /\ \A q \in m .. n : Level(tx, q) >= v

\* The branches of a, a composite whose level is v, have the keys they should
\* have when n tokens of tx are read.
KeysRead(ty, ky, br, a, v, tx, n) ==
  /\ \A i, j \in DOMAIN br[a] : ky[br[a][i]] = ky[br[a][j]] => i = j
  /\ ty[a] = "array" => \A i \in DOMAIN br[a] : ky[br[a][i]] = i - 1
  /\ ty[a] = "object" => \A i \in DOMAIN br[a] : KeyRead(ky[br[a][i]], v, tx, n)

LEMMA KeyStays ==
  ASSUME NEW tx, NEW n \in Nat, NEW m \in Nat, n <= m, NEW v \in Nat,
         \A s \in n .. m : Level(tx, s) >= v, NEW k, KeyRead(k, v, tx, n)
  PROVE  KeyRead(k, v, tx, m)
<1>1. PICK r \in 1 .. n : /\ tx[r] = KeyToken(k)
                          /\ Level(tx, r) = v
                          /\ \A s \in r .. n : Level(tx, s) >= v
  BY DEF KeyRead
<1>2. \A s \in r .. m : Level(tx, s) >= v
  BY <1>1
<1> QED
  BY <1>1, <1>2 DEF KeyRead

\* A key that is read is not one that was read before at this level.
LEMMA KeyIsNew ==
  ASSUME NEW tx, WellFormed(tx), NEW n \in Nat, NEW m \in n + 1 .. Len(tx), NEW v \in Nat,
         \A s \in n .. m : Level(tx, s) >= v, Level(tx, m) = v,
         NEW k, tx[m] = KeyToken(k), NEW j, KeyRead(j, v, tx, n)
  PROVE  j # k
<1> SUFFICES ASSUME j = k PROVE FALSE
  OBVIOUS
<1>1. PICK r \in 1 .. n : /\ tx[r] = KeyToken(k)
                          /\ Level(tx, r) = v
                          /\ \A s \in r .. n : Level(tx, s) >= v
  BY DEF KeyRead
<1>2. Len(tx) \in Nat /\ DOMAIN tx = 1 .. Len(tx)
  BY TextProperties
<1>3. r \in DOMAIN tx /\ m \in DOMAIN tx /\ r < m
  BY <1>2
<1>4. Is(tx[r], "key")
  BY <1>1 DEF Is, KeyToken
<1>5. \E s \in r .. m : Level(tx, s) < Level(tx, r)
  BY <1>1, <1>3, <1>4 DEF WellFormed
<1>6. \A s \in r .. m : Level(tx, s) \in Nat
  BY <1>2, <1>3, TextProperties
<1>7. \A s \in r .. m : Level(tx, s) >= v
  BY <1>1, <1>3
<1> QED
  BY <1>1, <1>5, <1>6, <1>7

\* The branches in b keep their keys.
SameKeys(ky, kz, b) == \A i \in DOMAIN b : kz[b[i]] = ky[b[i]]

LEMMA KeysStay ==
  ASSUME NEW ty, NEW ky, NEW br, NEW a, NEW v \in Nat, NEW tx, NEW n \in Nat,
         KeysRead(ty, ky, br, a, v, tx, n),
         NEW tz, tz[a] = ty[a], NEW bs, bs[a] = br[a],
         NEW kz, SameKeys(ky, kz, br[a]),
         NEW m \in Nat, n <= m, \A s \in n .. m : Level(tx, s) >= v
  PROVE  KeysRead(tz, kz, bs, a, v, tx, m)
<1>1. \A k : KeyRead(k, v, tx, n) => KeyRead(k, v, tx, m)
  BY KeyStays
<1> QED
  BY <1>1 DEF KeysRead, SameKeys

\* The key that a new branch gets: its index, or what the text says.
KeyFor(ty, br, p, tx, n, q, k) ==
  /\ ty[p] = "array" => k = Len(br[p])
  /\ ty[p] = "object" => \E m \in n + 1 .. q : tx[m] = KeyToken(k)

LEMMA KeysGrow ==
  ASSUME NEW ty, NEW ky, NEW br \in [Item -> Seq(Item)], NEW p \in Item, ty[p] \in Composite,
         NEW v \in Nat, NEW tx, WellFormed(tx),
         NEW n \in Nat, KeysRead(ty, ky, br, p, v, tx, n),
         NEW q \in Nat, n <= q, q < Len(tx), Level(tx, n) = v, Steady(tx, n, q),
         Level(tx, q + 1) >= v,
         NEW k, KeyFor(ty, br, p, tx, n, q, k),
         NEW tz, tz[p] = ty[p], NEW i \in Item, i \notin ToSet(br[p]),
         NEW bs, bs[p] = Append(br[p], i),
         NEW kz, SetAt(ky, kz, i, k)
  PROVE  KeysRead(tz, kz, bs, p, v, tx, q + 1)
<1> DEFINE b == br[p]
           s == bs[p]
<1>1. /\ b \in Seq(Item) /\ Len(b) \in Nat
      /\ DOMAIN b = 1 .. Len(b) /\ DOMAIN s = 1 .. Len(b) + 1
      /\ \A j \in DOMAIN b : s[j] = b[j]
      /\ s[Len(b) + 1] = i
  <2>1. b \in Seq(Item) /\ s = Append(b, i)
    OBVIOUS
  <2> HIDE DEF b, s
  <2> QED
    BY <2>1
<1>2. \A j \in DOMAIN b : b[j] \in Item /\ b[j] # i
  BY <1>1 DEF ToSet
<1>3. /\ \A j, m \in DOMAIN b : ky[b[j]] = ky[b[m]] => j = m
      /\ ty[p] = "array" => \A j \in DOMAIN b : ky[b[j]] = j - 1
      /\ ty[p] = "object" => \A j \in DOMAIN b : KeyRead(ky[b[j]], v, tx, n)
  BY DEF KeysRead
<1>4. /\ ty[p] = "array" => k = Len(b)
      /\ ty[p] = "object" => \E m \in n + 1 .. q : tx[m] = KeyToken(k)
  BY DEF KeyFor
<1> HIDE DEF b, s
<1>5. /\ kz[s[Len(b) + 1]] = k
      /\ \A j \in DOMAIN b : kz[s[j]] = ky[b[j]]
      /\ \A j \in DOMAIN s : j \in DOMAIN b \/ j = Len(b) + 1
  <2>1. kz[i] = k /\ \A j \in DOMAIN b : kz[b[j]] = ky[b[j]]
    BY <1>2 DEF SetAt
  <2>2. \A j \in DOMAIN s : j \in DOMAIN b \/ j = Len(b) + 1
    BY <1>1
  <2> QED
    BY <1>1, <2>1, <2>2
<1>6. \A m \in n .. q : Level(tx, m) = v
  BY DEF Steady
<1>7. \A m \in n .. q + 1 : Level(tx, m) >= v
  BY <1>6
<1>8. ASSUME ty[p] = "object"
      PROVE  KeyRead(k, v, tx, q + 1) /\ \A j \in DOMAIN b : ky[b[j]] # k
  <2>1. PICK m \in n + 1 .. q : tx[m] = KeyToken(k)
    BY <1>4, <1>8
  <2>2. KeyRead(k, v, tx, q + 1)
    BY <1>6, <1>7, <2>1 DEF KeyRead
  <2>3. Len(tx) \in Nat
    BY TextProperties
  <2>4. m \in n + 1 .. Len(tx) /\ Level(tx, m) = v /\ \A r \in n .. m : Level(tx, r) >= v
    BY <1>6, <2>1, <2>3
  <2>5. \A j : KeyRead(j, v, tx, n) => j # k
    BY <2>1, <2>4, KeyIsNew
  <2> QED
    BY <1>3, <1>8, <2>2, <2>5
<1>9. \A j \in DOMAIN b : ky[b[j]] # k
  <2>1. CASE ty[p] = "array"
    BY <1>1, <1>3, <1>4, <2>1
  <2> QED
    BY <1>8, <2>1 DEF Composite
<1>10. ASSUME NEW j \in DOMAIN s, NEW m \in DOMAIN s, kz[s[j]] = kz[s[m]]
       PROVE  j = m
  <2>1. CASE j \in DOMAIN b /\ m \in DOMAIN b
    BY <1>3, <1>5, <1>10, <2>1
  <2>2. CASE j \in DOMAIN b /\ m = Len(b) + 1
    BY <1>5, <1>9, <1>10, <2>2
  <2>3. CASE j = Len(b) + 1 /\ m \in DOMAIN b
    BY <1>5, <1>9, <1>10, <2>3
  <2> QED
    BY <1>5, <2>1, <2>2, <2>3
<1>11. ASSUME ty[p] = "array", NEW j \in DOMAIN s
       PROVE  kz[s[j]] = j - 1
  <2>1. CASE j \in DOMAIN b
    BY <1>3, <1>5, <1>11, <2>1
  <2>2. CASE j = Len(b) + 1
    BY <1>1, <1>4, <1>5, <1>11, <2>2
  <2> QED
    BY <1>5, <2>1, <2>2
<1>12. ASSUME ty[p] = "object", NEW j \in DOMAIN s
       PROVE  KeyRead(kz[s[j]], v, tx, q + 1)
  <2>1. CASE j \in DOMAIN b
    <3>1. KeyRead(ky[b[j]], v, tx, n)
      BY <1>3, <1>12, <2>1
    <3>2. KeyRead(ky[b[j]], v, tx, q + 1)
      BY <1>7, <3>1, KeyStays
    <3> QED
      BY <1>5, <2>1, <3>2
  <2>2. CASE j = Len(b) + 1
    BY <1>5, <1>8, <1>12, <2>2
  <2> QED
    BY <1>5, <2>1, <2>2
<1> QED
  BY <1>10, <1>11, <1>12 DEF KeysRead, s

\* The levels of p and of what is above it: 1, 2 and so on from the root.
Levels(p, pa, lv) ==
  \A a \in Upward(p, pa) :
    /\ lv[a] # 0
    /\ pa[a] = NULL => lv[a] = 1
    /\ pa[a] # NULL => lv[a] = lv[pa[a]] + 1
    /\ \A c \in Upward(a, pa) : c # a => lv[c] < lv[a]

LEMMA LevelsOfParent ==
  ASSUME NEW pa \in [Item -> Item \cup {NULL}], NEW p \in Item, pa[p] # NULL,
         NEW lv, Levels(p, pa, lv)
  PROVE  Levels(pa[p], pa, lv)
<1>1. Upward(pa[p], pa) \subseteq Upward(p, pa)
  BY UpwardStep
<1> QED
  BY <1>1 DEF Levels

\* A branch of p is one level deeper.
LEMMA LevelsOfBranch ==
  ASSUME NEW pa \in [Item -> Item \cup {NULL}], NEW pb \in [Item -> Item \cup {NULL}],
         NEW p \in Item, NEW i \in Item, pa[i] = NULL, i \notin Upward(p, pa),
         SetAt(pa, pb, i, p),
         NEW lv \in [Item -> Nat], Levels(p, pa, lv),
         NEW lw, SetAt(lv, lw, i, lv[p] + 1)
  PROVE  Levels(i, pb, lw)
<1>1. Joined(pa, pb, i, p)
  BY JoinedUpward
<1>2. Upward(i, pa) = {i} /\ Upward(p, pa) \subseteq Item /\ p \in Upward(p, pa)
  BY UpwardStep, UpwardProperties
<1>3. Upward(i, pb) = {i} \cup Upward(p, pa)
  BY <1>1, <1>2 DEF Joined
<1>4. ASSUME NEW a \in Upward(p, pa)
      PROVE  Upward(a, pb) = Upward(a, pa) /\ Upward(a, pa) \subseteq Upward(p, pa) /\ a # i
  <2>1. a \in Item /\ Upward(a, pa) \subseteq Upward(p, pa)
    BY UpwardTransitive
  <2> QED
    BY <1>1, <2>1 DEF Joined
<1>5. /\ lw[i] = lv[p] + 1 /\ \A a \in Upward(p, pa) : lw[a] = lv[a] /\ lv[a] \in Nat
      /\ pb[i] = p /\ \A a \in Upward(p, pa) : pb[a] = pa[a]
  BY <1>2 DEF SetAt
<1>6. \A a \in Upward(p, pa) : pa[a] # NULL => pa[a] \in Upward(p, pa)
  BY UpwardProperties
<1>7. ASSUME NEW a \in Upward(p, pa)
      PROVE  /\ lw[a] # 0
             /\ pb[a] = NULL => lw[a] = 1
             /\ pb[a] # NULL => lw[a] = lw[pb[a]] + 1
             /\ \A c \in Upward(a, pb) : c # a => lw[c] < lw[a]
  <2>1. /\ lv[a] # 0
        /\ pa[a] = NULL => lv[a] = 1
        /\ pa[a] # NULL => lv[a] = lv[pa[a]] + 1
        /\ \A c \in Upward(a, pa) : c # a => lv[c] < lv[a]
    BY DEF Levels
  <2>2. Upward(a, pb) = Upward(a, pa) /\ Upward(a, pa) \subseteq Upward(p, pa)
    BY <1>4
  <2> QED
    BY <1>5, <1>6, <2>1, <2>2
<1>8. /\ lw[i] # 0 /\ pb[i] # NULL
      /\ lw[i] = lw[pb[i]] + 1
      /\ \A c \in Upward(i, pb) : c # i => lw[c] < lw[i]
  <2>1. \A c \in Upward(p, pa) : c # p => lv[c] < lv[p]
    BY <1>2 DEF Levels
  <2>2. lv[p] \in Nat /\ pb[i] # NULL
    BY <1>5, ItemAssumption
  <2> QED
    BY <1>2, <1>3, <1>5, <2>1, <2>2
<1> QED
  BY <1>3, <1>7, <1>8 DEF Levels

\* The loop is at p, n tokens of tx are read, and the text goes on.
Position(ty, ky, pa, br, tx, p, n, lv) ==
  /\ n \in 1 .. Len(tx) - 1
  /\ lv \in [Item -> Nat]
  /\ lv[p] = Level(tx, n)
  /\ Levels(p, pa, lv)
  /\ \A a \in Upward(p, pa) : KeysRead(ty, ky, br, a, lv[a], tx, n)

\* The text begins with a bracket that opens the root.
LEMMA PositionOfRoot ==
  ASSUME NEW ty, NEW ky, NEW pa \in [Item -> Item \cup {NULL}], NEW br,
         NEW tx, WellFormed(tx), Opens(tx[1]),
         NEW i \in Item, pa[i] = NULL, br[i] = <<>>
  PROVE  Position(ty, ky, pa, br, tx, i, 1, [a \in Item |-> 1])
<1> DEFINE lv == [a \in Item |-> 1]
<1>1. Upward(i, pa) = {i}
  BY UpwardStep
<1>2. Level(tx, 1) = 1
  <2>1. Level(tx, 0 + 1) = Level(tx, 0) + 1
    BY LevelStep
  <2> QED
    BY <2>1, LevelOfNothing
<1>3. 1 \in 1 .. Len(tx) - 1
  <2>1. /\ Len(tx) \in Nat /\ Len(tx) > 0
        /\ \A n \in 1 .. Len(tx) : Level(tx, n) = 0 <=> n = Len(tx)
    BY TextProperties
  <2> QED
    BY <1>2, <2>1
<1>4. lv \in [Item -> Nat] /\ lv[i] = 1
  OBVIOUS
<1> HIDE DEF lv
<1>5. Levels(i, pa, lv)
  BY <1>1, <1>4 DEF Levels
<1>6. KeysRead(ty, ky, br, i, lv[i], tx, 1)
  BY DEF KeysRead
<1>7. Position(ty, ky, pa, br, tx, i, 1, lv)
  BY <1>1, <1>2, <1>3, <1>4, <1>5, <1>6 DEF Position
<1> QED
  BY <1>7 DEF lv

\* The bracket that closes p is read.
LEMMA PositionUp ==
  ASSUME NEW ty, NEW ky, NEW pa \in [Item -> Item \cup {NULL}], NEW br,
         NEW tx, WellFormed(tx), NEW p \in Item, NEW n, NEW lv,
         Position(ty, ky, pa, br, tx, p, n, lv), Closes(tx[n + 1])
  PROVE  /\ pa[p] = NULL => n + 1 = Len(tx)
         /\ pa[p] # NULL => Position(ty, ky, pa, br, tx, pa[p], n + 1, lv)
<1>1. /\ n \in 1 .. Len(tx) - 1
      /\ lv \in [Item -> Nat]
      /\ lv[p] = Level(tx, n)
      /\ Levels(p, pa, lv)
      /\ \A a \in Upward(p, pa) : KeysRead(ty, ky, br, a, lv[a], tx, n)
  BY DEF Position
<1>2. /\ Len(tx) \in Nat
      /\ n \in Nat /\ n + 1 \in 1 .. Len(tx)
      /\ Level(tx, n + 1) = 0 <=> n + 1 = Len(tx)
      /\ Level(tx, n + 1) \in Nat
  BY <1>1, TextProperties
<1>3. Level(tx, n + 1) = lv[p] - 1
  BY <1>1, <1>2, LevelStep
<1>4. p \in Upward(p, pa) /\ Upward(p, pa) \subseteq Item
  BY UpwardProperties
<1>5. /\ lv[p] \in Nat
      /\ lv[p] # 0
      /\ pa[p] = NULL => lv[p] = 1
      /\ pa[p] # NULL => lv[p] = lv[pa[p]] + 1
      /\ \A c \in Upward(p, pa) : c # p => lv[c] < lv[p]
  BY <1>1, <1>4 DEF Levels
<1>6. ASSUME pa[p] # NULL
      PROVE  Position(ty, ky, pa, br, tx, pa[p], n + 1, lv)
  <2>1. pa[p] \in Item /\ Upward(p, pa) = {p} \cup Upward(pa[p], pa)
    BY <1>6, UpwardStep
  <2>2. lv[pa[p]] = Level(tx, n + 1)
    BY <1>1, <1>3, <1>5, <1>6, <2>1
  <2>3. lv[pa[p]] # 0
    <3>1. pa[p] \in Upward(pa[p], pa)
      BY <2>1, UpwardProperties
    <3> QED
      BY <1>1, <2>1, <3>1 DEF Levels
  <2>4. n + 1 \in 1 .. Len(tx) - 1
    BY <1>2, <2>2, <2>3
  <2>5. Levels(pa[p], pa, lv)
    BY <1>1, <1>6, LevelsOfParent
  <2>6. ASSUME NEW a \in Upward(pa[p], pa)
        PROVE  KeysRead(ty, ky, br, a, lv[a], tx, n + 1)
    <3>1. a \in Upward(p, pa) /\ a \in Item /\ lv[a] \in Nat
      BY <1>1, <1>4, <2>1
    <3>2. lv[a] <= lv[pa[p]]
      <4>1. pa[p] \in Upward(pa[p], pa)
        BY <2>1, UpwardProperties
      <4>2. a = pa[p] \/ lv[a] < lv[pa[p]]
        BY <2>5, <4>1 DEF Levels
      <4> QED
        BY <1>1, <2>1, <3>1, <4>2
    <3>3. \A s \in n .. n + 1 : Level(tx, s) >= lv[a]
      <4>1. Level(tx, n) >= lv[a] /\ Level(tx, n + 1) >= lv[a]
        BY <1>1, <1>2, <1>3, <1>5, <1>6, <2>1, <2>2, <3>1, <3>2
      <4>2. \A s \in n .. n + 1 : s = n \/ s = n + 1
        BY <1>2
      <4> QED
        BY <4>1, <4>2
    <3>4. KeysRead(ty, ky, br, a, lv[a], tx, n)
      BY <1>1, <3>1
    <3> DEFINE v == lv[a]
    <3>5. v \in Nat /\ KeysRead(ty, ky, br, a, v, tx, n) /\ n <= n + 1 /\ n + 1 \in Nat
      BY <1>2, <3>1, <3>4
    <3>6. \A s \in n .. n + 1 : Level(tx, s) >= v
      BY <3>3
    <3> HIDE DEF v
    <3>7. SameKeys(ky, ky, br[a])
      BY DEF SameKeys
    <3>8. KeysRead(ty, ky, br, a, v, tx, n + 1)
      BY <1>2, <3>5, <3>6, <3>7, KeysStay
    <3> QED
      BY <3>8 DEF v
  <2> QED
    BY <1>1, <2>2, <2>4, <2>5, <2>6 DEF Position
<1> QED
  BY <1>2, <1>3, <1>5, <1>6

\* A branch is born at p: the keys are what they should be all the way up.
LEMMA KeysAfterBirth ==
  ASSUME NEW ty, NEW ky, NEW pa \in [Item -> Item \cup {NULL}], NEW br \in [Item -> Seq(Item)],
         ArraysAgree(ty, pa, br), NEW tx, WellFormed(tx),
         NEW p \in Item, ty[p] \in Composite, NEW n, NEW lv,
         Position(ty, ky, pa, br, tx, p, n, lv),
         NEW q \in Nat, n <= q, q < Len(tx), Steady(tx, n, q),
         Level(tx, q + 1) >= lv[p],
         NEW k, KeyFor(ty, br, p, tx, n, q, k),
         NEW i \in Item, ty[i] \notin Living,
         NEW t, NEW tz, SetAt(ty, tz, i, t), NEW kz, SetAt(ky, kz, i, k),
         NEW bs, SetAt(br, bs, p, Append(br[p], i)), NEW a \in Upward(p, pa)
  PROVE  KeysRead(tz, kz, bs, a, lv[a], tx, q + 1)
<1>1. /\ n \in 1 .. Len(tx) - 1
      /\ lv \in [Item -> Nat]
      /\ lv[p] = Level(tx, n)
      /\ Levels(p, pa, lv)
      /\ KeysRead(ty, ky, br, a, lv[a], tx, n)
  BY DEF Position
<1>2. /\ a \in Item /\ ty[a] \in Composite /\ a # i
      /\ p \in Upward(p, pa) /\ lv[a] \in Nat /\ lv[p] \in Nat
  BY <1>1, UpwardProperties, UpwardComposite DEF Living
<1>3. a = p \/ lv[a] < lv[p]
  BY <1>1, <1>2 DEF Levels
<1>4. i \notin ToSet(br[a])
  BY <1>2 DEF ArraysAgree, Living
<1>5. /\ tz[a] = ty[a]
      /\ bs[p] = Append(br[p], i)
      /\ a # p => bs[a] = br[a]
  BY <1>2 DEF SetAt
<1>6. n \in Nat /\ \A s \in n .. q : Level(tx, s) = lv[p]
  BY <1>1 DEF Steady
<1>7. CASE a = p
  <2> DEFINE v == lv[p]
  <2>1. /\ KeysRead(ty, ky, br, p, v, tx, n)
        /\ v \in Nat /\ Level(tx, n) = v /\ Level(tx, q + 1) >= v
        /\ tz[p] = ty[p] /\ i \notin ToSet(br[p])
    BY <1>1, <1>2, <1>4, <1>5, <1>7
  <2> HIDE DEF v
  <2>2. KeysRead(tz, kz, bs, p, v, tx, q + 1)
    BY <1>5, <1>6, <2>1, KeysGrow
  <2> QED
    BY <1>7, <2>2 DEF v
<1>8. CASE a # p
  <2> DEFINE v == lv[a]
  <2>1. v \in Nat /\ KeysRead(ty, ky, br, a, v, tx, n) /\ tz[a] = ty[a] /\ bs[a] = br[a]
    BY <1>1, <1>2, <1>5, <1>8
  <2>2. \A s \in n .. q + 1 : Level(tx, s) >= v
    <3>1. \A s \in n .. q : Level(tx, s) >= v
      BY <1>2, <1>3, <1>6, <1>8
    <3>2. Level(tx, q + 1) \in Int
      BY LevelStep
    <3>3. Level(tx, q + 1) >= v
      BY <1>2, <1>3, <1>8, <3>2
    <3>4. \A s \in n .. q + 1 : s \in n .. q \/ s = q + 1
      BY <1>6
    <3> QED
      BY <3>1, <3>3, <3>4
  <2>3. SameKeys(ky, kz, br[a])
    <3>1. br[a] \in Seq(Item)
      BY <1>2
    <3>2. \A j \in DOMAIN br[a] : br[a][j] \in Item /\ br[a][j] # i
      BY <1>4, <3>1 DEF ToSet
    <3> QED
      BY <3>2 DEF SetAt, SameKeys
  <2> HIDE DEF v
  <2> DEFINE m == q + 1
  <2>4. m \in Nat /\ n <= m /\ \A s \in n .. m : Level(tx, s) >= v
    BY <1>6, <2>2
  <2> HIDE DEF m
  <2>5. KeysRead(tz, kz, bs, a, v, tx, m)
    BY <1>6, <2>1, <2>3, <2>4, KeysStay
  <2> QED
    BY <2>5 DEF v, m
<1> QED
  BY <1>7, <1>8

\* The branch is a primitive: the loop stays at p.
LEMMA PositionAfterLeaf ==
  ASSUME NEW ty, NEW ky, NEW pa \in [Item -> Item \cup {NULL}], NEW br \in [Item -> Seq(Item)],
         ArraysAgree(ty, pa, br), NEW tx, WellFormed(tx),
         NEW p \in Item, ty[p] \in Composite, NEW n, NEW lv,
         Position(ty, ky, pa, br, tx, p, n, lv),
         NEW q \in Nat, n <= q, q < Len(tx), Steady(tx, n, q + 1),
         NEW k, KeyFor(ty, br, p, tx, n, q, k),
         NEW i \in Item, ty[i] \notin Living, pa[i] = NULL, i \notin Upward(p, pa),
         NEW t, NEW tz, SetAt(ty, tz, i, t), NEW kz, SetAt(ky, kz, i, k),
         NEW pb \in [Item -> Item \cup {NULL}], SetAt(pa, pb, i, p),
         NEW bs, SetAt(br, bs, p, Append(br[p], i))
  PROVE  Position(tz, kz, pb, bs, tx, p, q + 1, lv)
<1>1. /\ n \in 1 .. Len(tx) - 1
      /\ lv \in [Item -> Nat]
      /\ lv[p] = Level(tx, n)
      /\ Levels(p, pa, lv)
  BY DEF Position
<1>2. Len(tx) \in Nat /\ n \in Nat /\ q + 1 \in n .. q + 1
  BY <1>1, TextProperties
<1>3. Level(tx, q + 1) = lv[p] /\ Steady(tx, n, q) /\ Level(tx, q + 1) >= lv[p]
  BY <1>1, <1>2 DEF Steady
<1>4. p \in Upward(p, pa) /\ Upward(p, pa) \subseteq Item
  BY UpwardProperties
<1>5. q + 1 \in 1 .. Len(tx) - 1
  <2>1. lv[p] # 0
    BY <1>1, <1>4 DEF Levels
  <2>2. q + 1 \in 1 .. Len(tx)
    BY <1>2
  <2>3. q + 1 # Len(tx)
    BY <1>3, <2>1, <2>2, TextProperties
  <2> QED
    BY <1>2, <2>2, <2>3
<1>6. Joined(pa, pb, i, p)
  BY JoinedUpward
<1>7. \A a \in Upward(p, pa) : pb[a] = pa[a] /\ Upward(a, pb) = Upward(a, pa)
  <2>1. \A a \in Upward(p, pa) : a \in Item /\ Upward(a, pa) \subseteq Upward(p, pa)
    BY UpwardTransitive
  <2> QED
    BY <1>6, <2>1 DEF Joined, SetAt
<1>8. Upward(p, pb) = Upward(p, pa)
  BY <1>4, <1>7
<1>9. Levels(p, pb, lv)
  BY <1>1, <1>7, <1>8 DEF Levels
<1>10. \A a \in Upward(p, pa) : KeysRead(tz, kz, bs, a, lv[a], tx, q + 1)
  BY <1>3, KeysAfterBirth
<1> QED
  BY <1>1, <1>3, <1>5, <1>8, <1>9, <1>10 DEF Position

\* The branch is a composite: the loop goes down to it.
LEMMA PositionAfterComposite ==
  ASSUME NEW ty, NEW ky, NEW pa \in [Item -> Item \cup {NULL}], NEW br \in [Item -> Seq(Item)],
         ArraysAgree(ty, pa, br), NEW tx, WellFormed(tx),
         NEW p \in Item, ty[p] \in Composite, NEW n, NEW lv,
         Position(ty, ky, pa, br, tx, p, n, lv),
         NEW q \in Nat, n <= q, q < Len(tx), Steady(tx, n, q), Opens(tx[q + 1]),
         NEW k, KeyFor(ty, br, p, tx, n, q, k),
         NEW i \in Item, ty[i] \notin Living, pa[i] = NULL, i \notin Upward(p, pa),
         br[i] = <<>>,
         NEW t, NEW tz, SetAt(ty, tz, i, t), NEW kz, SetAt(ky, kz, i, k),
         NEW pb \in [Item -> Item \cup {NULL}], SetAt(pa, pb, i, p),
         NEW bs, SetAt(br, bs, p, Append(br[p], i))
  PROVE  Position(tz, kz, pb, bs, tx, i, q + 1, [lv EXCEPT ![i] = lv[p] + 1])
<1> DEFINE lw == [lv EXCEPT ![i] = lv[p] + 1]
<1>1. /\ n \in 1 .. Len(tx) - 1
      /\ lv \in [Item -> Nat]
      /\ lv[p] = Level(tx, n)
      /\ Levels(p, pa, lv)
  BY DEF Position
<1>2. Len(tx) \in Nat /\ n \in Nat /\ q \in n .. q /\ lv[p] \in Nat
  BY <1>1, TextProperties
<1>3. Level(tx, q + 1) = lv[p] + 1 /\ Level(tx, q + 1) >= lv[p]
  <2>1. Level(tx, q) = lv[p]
    BY <1>1, <1>2 DEF Steady
  <2>2. Level(tx, q + 1) = Level(tx, q) + 1
    BY LevelStep
  <2> QED
    BY <1>2, <2>1, <2>2
<1>4. p \in Upward(p, pa) /\ Upward(p, pa) \subseteq Item /\ Upward(i, pa) = {i}
  BY UpwardProperties, UpwardStep
<1>5. q + 1 \in 1 .. Len(tx) - 1
  <2>1. q + 1 \in 1 .. Len(tx)
    BY <1>2
  <2>2. q + 1 # Len(tx)
    BY <1>2, <1>3, <2>1, TextProperties
  <2> QED
    BY <1>2, <2>1, <2>2
<1>6. lw \in [Item -> Nat] /\ SetAt(lv, lw, i, lv[p] + 1)
  BY <1>1, <1>2 DEF SetAt
<1> HIDE DEF lw
<1>7. Levels(i, pb, lw)
  BY <1>1, <1>6, LevelsOfBranch
<1>8. Upward(i, pb) = {i} \cup Upward(p, pa)
  <2>1. Joined(pa, pb, i, p)
    BY JoinedUpward
  <2> QED
    BY <1>4, <2>1 DEF Joined
<1>9. KeysRead(tz, kz, bs, i, lw[i], tx, q + 1)
  <2>1. bs[i] = <<>>
    BY <1>4 DEF SetAt
  <2> QED
    BY <2>1 DEF KeysRead
<1>10. ASSUME NEW a \in Upward(p, pa)
       PROVE  KeysRead(tz, kz, bs, a, lw[a], tx, q + 1)
  <2>1. lw[a] = lv[a]
    BY <1>4, <1>6 DEF SetAt
  <2>2. KeysRead(tz, kz, bs, a, lv[a], tx, q + 1)
    BY <1>3, KeysAfterBirth
  <2> QED
    BY <2>1, <2>2
<1>11. lw[i] = Level(tx, q + 1)
  BY <1>3, <1>6 DEF SetAt
<1>12. Position(tz, kz, pb, bs, tx, i, q + 1, lw)
  BY <1>5, <1>6, <1>7, <1>8, <1>9, <1>10, <1>11 DEF Position
<1> QED
  BY <1>12 DEF lw

------------------------------------------------------------------------------
(* The loop of jscon_parse().                                              *)

\* Every composite but those in open has its hashtable.
HashedBut(ty, ky, br, tb, open) ==
  \A p \in Item : ty[p] \in Composite /\ p \notin open =>
    /\ DOMAIN tb[p] = {ky[c] : c \in ToSet(br[p])}
    /\ \A c \in ToSet(br[p]) : tb[p][ky[c]] = c

\* The composites whose bracket is not closed yet.
Unwrapped(it, pa) == IF it = NULL THEN {} ELSE Upward(it, pa)

\* Where the loop is, if it is not over.
Building ==
  IF item = NULL THEN buffer = <<>>
  ELSE /\ Place(type, parent, branch, next, item, root, last_accessed_comp)
       /\ WellFormed(text)
       /\ \E n, lv : /\ buffer = Rest(text, n)
                     /\ Position(type, key, parent, branch, text, item, n, lv)

ParseInv ==
  /\ ParseTypeOK
  /\ Grown(type, parent, branch, next, prev)
  /\ UnbornEmpty(type, parent, branch, table)
  /\ UnbornUnlisted(type, next, prev)
  /\ HashedBut(type, key, branch, table, Unwrapped(item, parent))
  /\ Building

\* What is set, by the first token of b.
LEMMA SetValueCases ==
  ASSUME NEW i, NEW b, NEW comp, SetValue(i, b, comp)
  PROVE  /\ buffer' = Tail(b)
         /\ ~Opens(Head(b)) =>
              /\ type' = [type EXCEPT ![i] = "leaf"]
              /\ value' = [value EXCEPT ![i] = Head(b)[2]]
              /\ last_accessed_comp' = comp
              /\ UNCHANGED <<capacity, links>>
         /\ Opens(Head(b)) =>
              /\ \E t \in Composite : type' = [type EXCEPT ![i] = t]
              /\ capacity' = [capacity EXCEPT ![i] = Room(b)]
              /\ last_accessed_comp' = i
              /\ value' = value
              /\ comp # NULL => /\ next' = [next EXCEPT ![comp] = i]
                                /\ prev' = [prev EXCEPT ![i] = comp]
              /\ comp = NULL => UNCHANGED links
<1>1. ASSUME NEW X, X = IF Is(Head(b), "{") THEN "object" ELSE "array"
      PROVE  X \in Composite
  BY <1>1, Zenon DEF Composite
<1> QED
  BY <1>1, Zenon DEF SetValue

LEMMA SetValueTyped ==
  ASSUME ParseTypeOK, NEW i \in Item, NEW b \in Seq(Token), b # <<>>,
         Opens(b[1]) \/ Is(b[1], "value"), NEW comp \in Item \cup {NULL}, SetValue(i, b, comp)
  PROVE  /\ Head(b) = b[1]
         /\ type' \in [Item -> Living \cup {"unborn", "freed"}]
         /\ \A j \in Item : j # i => type'[j] = type[j]
         /\ value' \in [Item -> Literal \cup {NULL}]
         /\ \A j \in Item : type'[j] = "leaf" => value'[j] \in Literal
         /\ capacity' \in [Item -> Nat]
         /\ next' \in [Item -> Item \cup {NULL}] /\ prev' \in [Item -> Item \cup {NULL}]
         /\ last_accessed_comp' \in Item \cup {NULL}
<1>1. Head(b) = b[1] /\ b[1] \in Token
  BY EmptySeq, LenProperties, ElementOfSeq
<1>2. /\ type \in [Item -> Living \cup {"unborn", "freed"}]
      /\ value \in [Item -> Literal \cup {NULL}]
      /\ \A j \in Item : type[j] = "leaf" => value[j] \in Literal
      /\ capacity \in [Item -> Nat]
      /\ next \in [Item -> Item \cup {NULL}] /\ prev \in [Item -> Item \cup {NULL}]
  BY DEF ParseTypeOK, TypeOK
<1>3. CASE ~Opens(b[1])
  <2>1. /\ type' = [type EXCEPT ![i] = "leaf"]
        /\ value' = [value EXCEPT ![i] = Head(b)[2]]
        /\ last_accessed_comp' = comp
        /\ UNCHANGED <<capacity, next, prev>>
    BY <1>1, <1>3, SetValueCases DEF links
  <2>2. b[1][2] \in Literal
    BY <1>1, <1>3, Tokens
  <2> QED
    BY <1>1, <1>2, <2>1, <2>2 DEF Living
<1>4. CASE Opens(b[1])
  <2>1. PICK t \in Composite : type' = [type EXCEPT ![i] = t]
    BY <1>1, <1>4, SetValueCases
  <2>2. /\ capacity' = [capacity EXCEPT ![i] = Room(b)]
        /\ last_accessed_comp' = i
        /\ value' = value
        /\ comp # NULL => /\ next' = [next EXCEPT ![comp] = i]
                          /\ prev' = [prev EXCEPT ![i] = comp]
        /\ comp = NULL => UNCHANGED <<next, prev>>
    BY <1>1, <1>4, SetValueCases DEF links
  <2>3. Room(b) \in Nat
    BY RoomIsNat
  <2>4. next' \in [Item -> Item \cup {NULL}] /\ prev' \in [Item -> Item \cup {NULL}]
    BY <1>2, <2>2
  <2> QED
    BY <1>1, <1>2, <2>1, <2>2, <2>3, <2>4 DEF Living, Composite
<1> QED
  BY <1>3, <1>4

\* A fault changes nothing but status.
LEMMA FaultInv ==
  ASSUME ParseInv, NEW how \in {"abort", "crash", "hang", "no_memory"}, Fault(how),
         UNCHANGED <<value, capacity, reading>>
  PROVE  ParseInv'
<1>1. /\ UNCHANGED <<type, key, parent, branch, table, num_bucket, next, prev>>
      /\ UNCHANGED <<value, capacity, text, root, buffer, item, last_accessed_comp>>
      /\ status' = how
  BY DEF Fault, nodes, links, reading
<1>2. ParseTypeOK'
  BY <1>1 DEF ParseInv, ParseTypeOK, TypeOK
<1>3. Building'
  BY <1>1 DEF ParseInv, Building
<1> QED
  BY <1>1, <1>2, <1>3 DEF ParseInv

LEMMA UnbornIsFresh ==
  ASSUME ParseInv, NEW i \in Item, type[i] = "unborn"
  PROVE  Fresh(type, parent, branch, next, prev, i)
BY DEF ParseInv, UnbornEmpty, UnbornUnlisted, Fresh, Living, Composite

\* What jscon_parse() does before its loop.
LEMMA EntityInv ==
  ASSUME ParseInv, item = NULL, NEW i \in Item, NEW document, WellFormed(document),
         jscon_parse(i, document)
  PROVE  ParseInv'
<1>1. CASE Abort
  BY <1>1, FaultInv DEF Abort
<1>2. CASE ~Abort
  <2>1. /\ type[i] = "unborn"
        /\ text' = document /\ root' = i
        /\ SetValue(i, document, NULL)
        /\ item' = IF Opens(document[1]) THEN i ELSE NULL
        /\ UNCHANGED <<key, parent, branch, table, num_bucket, status>>
    BY <1>2 DEF jscon_parse, Entity, nodes
  <2>2. /\ document \in Seq(Token) /\ Len(document) \in Nat /\ Len(document) > 0
        /\ Opens(document[1]) \/ Is(document[1], "value")
        /\ Level(document, 1) = 0 <=> 1 = Len(document)
    <3>1. /\ document \in Seq(Token) /\ Len(document) \in Nat /\ Len(document) > 0
          /\ Opens(document[1]) \/ Is(document[1], "value")
          /\ \A n \in 1 .. Len(document) : Level(document, n) = 0 <=> n = Len(document)
      BY TextProperties
    <3>2. 1 \in 1 .. Len(document)
      BY <3>1
    <3>3. Level(document, 1) = 0 <=> 1 = Len(document)
      BY <3>1, <3>2
    <3> QED
      BY <3>1, <3>3, Zenon
  <2>3. document # <<>> /\ Tail(document) = Rest(document, 1)
    <3>1. document # <<>> /\ Rest(document, 0) = document
      BY <2>2, RestOfAll
    <3>2. 0 \in 0 .. Len(document) /\ 0 < Len(document) /\ 0 + 1 = 1
      BY <2>2
    <3>3. Tail(Rest(document, 0)) = Rest(document, 0 + 1)
      BY <2>2, <3>2, RestProperties
    <3>4. Tail(document) = Rest(document, 0 + 1)
      BY <3>1, <3>3, Zenon
    <3> QED
      BY <3>1, <3>2, <3>4, Zenon
  <2>4. /\ Head(document) = document[1]
        /\ type' \in [Item -> Living \cup {"unborn", "freed"}]
        /\ \A j \in Item : j # i => type'[j] = type[j]
        /\ value' \in [Item -> Literal \cup {NULL}]
        /\ \A j \in Item : type'[j] = "leaf" => value'[j] \in Literal
        /\ capacity' \in [Item -> Nat]
        /\ next' \in [Item -> Item \cup {NULL}] /\ prev' \in [Item -> Item \cup {NULL}]
        /\ last_accessed_comp' \in Item \cup {NULL}
    <3>1. ParseTypeOK
      BY DEF ParseInv
    <3> QED
      BY <2>1, <2>2, <2>3, <3>1, SetValueTyped
  <2>5. buffer' = Rest(document, 1)
    BY <2>1, <2>3, SetValueCases
  <2>6. /\ UNCHANGED <<next, prev>>
        /\ Opens(document[1]) => last_accessed_comp' = i
        /\ \E t \in Living : /\ SetAt(type, type', i, t)
                             /\ Opens(document[1]) <=> t \in Composite
    <3>1. CASE Opens(document[1])
      <4>1. PICK t \in Composite : type' = [type EXCEPT ![i] = t]
        BY <2>1, <2>4, <3>1, SetValueCases
      <4>2. t \in Living /\ SetAt(type, type', i, t)
        BY <4>1 DEF SetAt, Living, ParseInv, ParseTypeOK, TypeOK
      <4> QED
        BY <2>1, <2>4, <3>1, <4>2, SetValueCases DEF links
    <3>2. CASE ~Opens(document[1])
      <4>1. type' = [type EXCEPT ![i] = "leaf"] /\ UNCHANGED <<next, prev>>
        BY <2>1, <2>4, <3>2, SetValueCases DEF links
      <4>2. "leaf" \in Living /\ "leaf" \notin Composite /\ SetAt(type, type', i, "leaf")
        BY <4>1 DEF SetAt, Living, Composite, ParseInv, ParseTypeOK, TypeOK
      <4> QED
        BY <3>2, <4>1, <4>2
    <3> QED
      BY <3>1, <3>2
  <2>7. /\ Fresh(type, parent, branch, next, prev, i)
        /\ Grown(type, parent, branch, next, prev)
        /\ UnbornEmpty(type, parent, branch, table)
        /\ UnbornUnlisted(type, next, prev)
        /\ HashedBut(type, key, branch, table, {})
    BY <2>1, UnbornIsFresh DEF ParseInv, Unwrapped
  <2>8. ParseTypeOK'
    BY <2>1, <2>4, <2>6 DEF ParseInv, ParseTypeOK, TypeOK
  <2>9. Grown(type', parent, branch, next, prev)
    <3>1. PICK t \in Living : SetAt(type, type', i, t)
      BY <2>6
    <3> DEFINE tz == type'
    <3>2. SetAt(type, tz, i, t)
      BY <3>1
    <3> HIDE DEF tz
    <3>3. Grown(tz, parent, branch, next, prev)
      BY <2>7, <3>2, BirthGrown
    <3> QED
      BY <3>3 DEF tz
  <2>10. UnbornEmpty(type', parent, branch, table) /\ UnbornUnlisted(type', next, prev)
    <3>1. \A j \in Item : type'[j] = "unborn" => type[j] = "unborn"
      BY <2>1, <2>4
    <3> QED
      BY <2>7, <3>1 DEF UnbornEmpty, UnbornUnlisted
  <2>11. \A p \in Item : type'[p] \in Composite /\ p # i =>
           /\ DOMAIN table[p] = {key[c] : c \in ToSet(branch[p])}
           /\ \A c \in ToSet(branch[p]) : table[p][key[c]] = c
    BY <2>4, <2>7 DEF HashedBut
  <2>12. parent \in [Item -> Item \cup {NULL}] /\ parent[i] = NULL /\ branch[i] = <<>>
         /\ next \in [Item -> Item \cup {NULL}] /\ next[i] = NULL
    BY <2>7 DEF Fresh, Grown
  <2>13. CASE Opens(document[1])
    <3>1. item' = i /\ i # NULL /\ last_accessed_comp' = i /\ type'[i] \in Composite
      BY <2>1, <2>6, <2>13, ItemAssumption DEF SetAt
    <3>2. i \in Upward(i, parent) /\ i \in Upward(i, next)
      BY <2>12, UpwardProperties
    <3>3. HashedBut(type', key, branch, table, Unwrapped(item', parent))
      BY <2>11, <3>1, <3>2 DEF HashedBut, Unwrapped
    <3>4. Place(type', parent, branch, next, i, i, i)
      BY <2>12, <3>1, <3>2 DEF Place, InOrBefore
    <3> DEFINE lv == [a \in Item |-> 1]
               tz == type'
    <3> HIDE DEF tz, lv
    <3>5. Position(tz, key, parent, branch, document, i, 1, lv)
      BY <2>12, <2>13, PositionOfRoot DEF lv
    <3>6. Building'
      <4>1. item' = i /\ root' = i /\ last_accessed_comp' = i /\ text' = document
            /\ parent' = parent /\ branch' = branch /\ next' = next /\ key' = key
        BY <2>1, <2>6, <3>1
      <4>2. buffer' = Rest(document, 1) /\ Position(type', key, parent, branch, document, i, 1, lv)
        BY <2>5, <3>5 DEF tz
      <4> QED
        BY <3>1, <3>4, <4>1, <4>2 DEF Building
    <3> QED
      BY <2>1, <2>6, <2>8, <2>9, <2>10, <3>3, <3>6 DEF ParseInv
  <2>14. CASE ~Opens(document[1])
    <3>1. item' = NULL /\ type'[i] \notin Composite
      BY <2>1, <2>6, <2>14 DEF SetAt
    <3>2. HashedBut(type', key, branch, table, Unwrapped(item', parent))
      BY <2>11, <3>1 DEF HashedBut, Unwrapped
    <3>3. buffer' = <<>>
      <4>1. ~Closes(document[1])
        BY <2>2, <2>14, Kinds
      <4>2. Level(document, 0 + 1) = Level(document, 0)
        BY <2>14, <4>1, LevelStep
      <4>3. Len(document) = 1
        BY <2>2, <4>2, LevelOfNothing
      <4>4. 1 \in 0 .. Len(document)
        BY <4>3
      <4>5. Rest(document, 1) = <<>>
        BY <2>2, <4>3, <4>4, RestProperties
      <4> QED
        BY <2>5, <4>5
    <3>4. Building'
      BY <3>1, <3>3 DEF Building
    <3> QED
      BY <2>1, <2>6, <2>8, <2>9, <2>10, <3>2, <3>4 DEF ParseInv
  <2> QED
    BY <2>13, <2>14
<1> QED
  BY <1>1, <1>2

\* The keys that were read are keys.
LEMMA KeysAreKeys ==
  ASSUME NEW ty, NEW ky, NEW br \in [Item -> Seq(Item)], NEW p \in Item, ty[p] \in Composite,
         NEW v, NEW tx, WellFormed(tx), NEW n \in 1 .. Len(tx),
         KeysRead(ty, ky, br, p, v, tx, n)
  PROVE  \A c \in ToSet(br[p]) : ky[c] \in Key
<1> SUFFICES ASSUME NEW c \in ToSet(br[p]) PROVE ky[c] \in Key
  OBVIOUS
<1>1. PICK i \in DOMAIN br[p] : br[p][i] = c
  BY DEF ToSet
<1>2. i \in Nat /\ i >= 1
  <2>1. br[p] \in Seq(Item)
    OBVIOUS
  <2> QED
    BY <2>1, LenProperties
<1>3. CASE ty[p] = "array"
  <2>1. ky[c] = i - 1
    BY <1>1, <1>3 DEF KeysRead
  <2> QED
    BY <1>2, <2>1 DEF Key
<1>4. CASE ty[p] = "object"
  <2>1. KeyRead(ky[c], v, tx, n)
    BY <1>1, <1>4 DEF KeysRead
  <2>2. PICK m \in 1 .. n : tx[m] = KeyToken(ky[c])
    BY <2>1 DEF KeyRead
  <2>3. Len(tx) \in Nat /\ \A s \in 1 .. Len(tx) : tx[s] \in Token
    BY TextProperties
  <2>4. tx[m] \in Token
    BY <2>3
  <2>5. Is(tx[m], "key") /\ tx[m][2] = ky[c]
    BY <2>2 DEF Is, KeyToken
  <2>6. tx[m][2] \in Name
    BY <2>4, <2>5, Tokens
  <2> QED
    BY <2>5, <2>6 DEF Key
<1> QED
  BY <1>3, <1>4 DEF Composite

TablesOfItems(tb) ==
  /\ DOMAIN tb = Item
  /\ \A i \in Item : /\ DOMAIN tb[i] \subseteq Key
                     /\ \A k \in DOMAIN tb[i] : tb[i][k] \in Item

\* p gets its hashtable.
LEMMA WrapTables ==
  ASSUME NEW ty, NEW ky, NEW br \in [Item -> Seq(Item)], NEW tb, TablesOfItems(tb),
         NEW open, HashedBut(ty, ky, br, tb, open),
         NEW p \in Item, ty[p] \in Composite,
         NEW v, NEW tx, WellFormed(tx), NEW n \in 1 .. Len(tx),
         KeysRead(ty, ky, br, p, v, tx, n),
         NEW up, open \subseteq {p} \cup up,
         NEW tc, DOMAIN tc = Item, SetAt(tb, tc, p, FirstWins(br[p], ky))
  PROVE  TablesOfItems(tc) /\ HashedBut(ty, ky, br, tc, up)
<1>1. br[p] \in Seq(Item) /\ \A i, j \in DOMAIN br[p] : ky[br[p][i]] = ky[br[p][j]] => i = j
  BY DEF KeysRead
<1>2. /\ DOMAIN FirstWins(br[p], ky) = {ky[c] : c \in ToSet(br[p])}
      /\ \A c \in ToSet(br[p]) : FirstWins(br[p], ky)[ky[c]] = c
  <2> DEFINE b == br[p]
  <2>1. b \in Seq(Item) /\ \A i, j \in DOMAIN b : ky[b[i]] = ky[b[j]] => i = j
    BY <1>1
  <2> HIDE DEF b
  <2>2. /\ DOMAIN FirstWins(b, ky) = {ky[c] : c \in ToSet(b)}
        /\ \A c \in ToSet(b) : FirstWins(b, ky)[ky[c]] = c
    BY <2>1, FirstWinsExact
  <2> QED
    BY <2>2 DEF b
<1>4. tc[p] = FirstWins(br[p], ky) /\ DOMAIN tc = Item /\ \A i \in Item : i # p => tc[i] = tb[i]
  BY DEF SetAt
<1>5. \A c \in ToSet(br[p]) : c \in Item /\ ky[c] \in Key
  BY <1>1, KeysAreKeys, ToSetMembers
<1>6. DOMAIN tc[p] \subseteq Key /\ \A k \in DOMAIN tc[p] : tc[p][k] \in Item
  BY <1>2, <1>4, <1>5
<1>7. TablesOfItems(tc)
  BY <1>4, <1>6 DEF TablesOfItems
<1>8. ASSUME NEW q \in Item, ty[q] \in Composite, q \notin up
      PROVE  /\ DOMAIN tc[q] = {ky[c] : c \in ToSet(br[q])}
             /\ \A c \in ToSet(br[q]) : tc[q][ky[c]] = c
  <2>1. CASE q = p
    BY <1>2, <1>4, <2>1
  <2>2. CASE q # p
    BY <1>4, <1>8, <2>2 DEF HashedBut
  <2> QED
    BY <2>1, <2>2
<1> QED
  BY <1>7, <1>8 DEF HashedBut

\* A branch is born at p, whose bracket is not closed yet.
LEMMA BirthHashed ==
  ASSUME NEW ty, NEW pa, NEW ky, NEW br \in [Item -> Seq(Item)], NEW tb,
         ArraysAgree(ty, pa, br), NEW open, HashedBut(ty, ky, br, tb, open),
         NEW p \in open, NEW i \in Item, ty[i] \notin Living,
         NEW t, NEW tz, SetAt(ty, tz, i, t), NEW k, NEW kz, SetAt(ky, kz, i, k),
         NEW b, NEW bs, SetAt(br, bs, p, b),
         NEW up, open \subseteq up, t \in Composite => i \in up
  PROVE  HashedBut(tz, kz, bs, tb, up)
<1> SUFFICES ASSUME NEW q \in Item, tz[q] \in Composite, q \notin up
             PROVE  /\ DOMAIN tb[q] = {kz[c] : c \in ToSet(bs[q])}
                    /\ \A c \in ToSet(bs[q]) : tb[q][kz[c]] = c
  BY DEF HashedBut
<1>1. q # p /\ q # i /\ ty[q] \in Composite /\ bs[q] = br[q] /\ q \notin open
  BY DEF SetAt
<1>2. \A c \in ToSet(br[q]) : c \in Item /\ c # i
  <2>1. br[q] \in Seq(Item)
    OBVIOUS
  <2> QED
    BY <1>1, <2>1, ToSetMembers DEF ArraysAgree, Living
<1>3. \A c \in ToSet(br[q]) : kz[c] = ky[c]
  BY <1>2 DEF SetAt
<1>4. /\ DOMAIN tb[q] = {ky[c] : c \in ToSet(br[q])}
      /\ \A c \in ToSet(br[q]) : tb[q][ky[c]] = c
  BY <1>1 DEF HashedBut
<1> QED
  BY <1>1, <1>3, <1>4

\* The lists stay as they are, or the new composite comes after the last.
Chained(nx, nw, pv, pw, l, i, linked) ==
  /\ ~linked => nw = nx /\ pw = pv
  /\ linked => SetAt(nx, nw, l, i) /\ SetAt(pv, pw, i, l)

\* What SetValue() does, as changes at one place.
LEMMA SetValueAt ==
  ASSUME ParseTypeOK, NEW i \in Item, NEW b \in Seq(Token), b # <<>>,
         Opens(b[1]) \/ Is(b[1], "value"), NEW comp \in Item, SetValue(i, b, comp)
  PROVE  \E t \in Living : /\ SetAt(type, type', i, t)
                           /\ Opens(b[1]) <=> t \in Composite
                           /\ ~Opens(b[1]) => t = "leaf"
                           /\ last_accessed_comp' = IF Opens(b[1]) THEN i ELSE comp
                           /\ Chained(next, next', prev, prev', comp, i, t \in Composite)
<1>1. Head(b) = b[1]
  BY SetValueTyped
<1>2. /\ type \in [Item -> Living \cup {"unborn", "freed"}]
      /\ next \in [Item -> Item \cup {NULL}] /\ prev \in [Item -> Item \cup {NULL}]
      /\ comp # NULL
  BY ItemAssumption DEF ParseTypeOK, TypeOK
<1>3. CASE Opens(b[1])
  <2>1. PICK t \in Composite : type' = [type EXCEPT ![i] = t]
    BY <1>1, <1>3, SetValueCases
  <2>2. /\ last_accessed_comp' = i
        /\ next' = [next EXCEPT ![comp] = i]
        /\ prev' = [prev EXCEPT ![i] = comp]
    BY <1>1, <1>2, <1>3, SetValueCases
  <2>3. SetAt(type, type', i, t) /\ SetAt(next, next', comp, i) /\ SetAt(prev, prev', i, comp)
    BY <1>2, <2>1, <2>2 DEF SetAt
  <2> QED
    BY <1>3, <2>1, <2>2, <2>3 DEF Chained, Living
<1>4. CASE ~Opens(b[1])
  <2>1. /\ type' = [type EXCEPT ![i] = "leaf"]
        /\ last_accessed_comp' = comp
        /\ next' = next /\ prev' = prev
    BY <1>1, <1>4, SetValueCases DEF links
  <2>2. SetAt(type, type', i, "leaf")
    BY <1>2, <2>1 DEF SetAt
  <2>3. "leaf" \in Living /\ "leaf" \notin Composite
    BY DEF Living, Composite
  <2> QED
    BY <1>4, <2>1, <2>2, <2>3 DEF Chained
<1> QED
  BY <1>3, <1>4

\* A branch is born where the loop is: the tree, the list and what was read.
Sprouted(ty, ky, pa, br, nx, pv, tx, it, r, l, m) ==
  /\ Grown(ty, pa, br, nx, pv)
  /\ Place(ty, pa, br, nx, it, r, l)
  /\ \E lv : Position(ty, ky, pa, br, tx, it, m, lv)

LEMMA Sprout ==
  ASSUME NEW ty, NEW ky, NEW pa, NEW br, NEW nx, NEW pv, NEW tx, NEW p, NEW r, NEW l,
         Grown(ty, pa, br, nx, pv), Place(ty, pa, br, nx, p, r, l), WellFormed(tx),
         NEW n, NEW lv, Position(ty, ky, pa, br, tx, p, n, lv),
         NEW q \in Nat, n <= q, q < Len(tx), Steady(tx, n, q),
         NEW k, KeyFor(ty, br, p, tx, n, q, k),
         NEW i, Fresh(ty, pa, br, nx, pv, i),
         NEW t \in Living, t \in Composite => Opens(tx[q + 1]),
         t \notin Composite => t = "leaf" /\ ~Opens(tx[q + 1]) /\ ~Closes(tx[q + 1]),
         NEW tz, SetAt(ty, tz, i, t), NEW kz, SetAt(ky, kz, i, k),
         NEW pb \in [Item -> Item \cup {NULL}], SetAt(pa, pb, i, p),
         NEW bs \in [Item -> Seq(Item)], SetAt(br, bs, p, Append(br[p], i)),
         NEW nw \in [Item -> Item \cup {NULL}], NEW pw,
         Chained(nx, nw, pv, pw, l, i, t \in Composite)
  PROVE  /\ t \notin Composite => Sprouted(tz, kz, pb, bs, nw, pw, tx, p, r, l, q + 1)
         /\ t \in Composite => Sprouted(tz, kz, pb, bs, nw, pw, tx, i, r, i, q + 1)
<1>1. /\ pa \in [Item -> Item \cup {NULL}] /\ br \in [Item -> Seq(Item)]
      /\ ArraysAgree(ty, pa, br)
      /\ p \in Item /\ ty[p] \in Composite
      /\ i \in Item /\ ty[i] \notin Living /\ pa[i] = NULL /\ br[i] = <<>>
  BY DEF Grown, Place, Fresh
<1>2. i \notin Upward(p, pa)
  BY <1>1, FreshApart
<1>3. CASE t \notin Composite
  <2>1. /\ t = "leaf" /\ SetAt(ty, tz, i, "leaf") /\ nw = nx /\ pw = pv
        /\ ~Opens(tx[q + 1]) /\ ~Closes(tx[q + 1])
    BY <1>3 DEF Chained
  <2>2. Grown(tz, pb, bs, nx, pv) /\ Place(tz, pb, bs, nx, p, r, l)
    BY <2>1, SproutLeaf
  <2>3. n \in Nat
    BY TextProperties DEF Position
  <2>4. Steady(tx, n, q + 1)
    BY <2>1, <2>3, SteadyStep
  <2>5. Position(tz, kz, pb, bs, tx, p, q + 1, lv)
    BY <1>1, <1>2, <2>4, PositionAfterLeaf
  <2> QED
    BY <1>3, <2>1, <2>2, <2>5 DEF Sprouted
<1>4. CASE t \in Composite
  <2>1. SetAt(nx, nw, l, i) /\ SetAt(pv, pw, i, l) /\ Opens(tx[q + 1])
    BY <1>4 DEF Chained
  <2>2. Grown(tz, pb, bs, nw, pw) /\ Place(tz, pb, bs, nw, i, r, i)
    BY <1>4, <2>1, SproutComposite
  <2> DEFINE lw == [lv EXCEPT ![i] = lv[p] + 1]
  <2>3. Position(tz, kz, pb, bs, tx, i, q + 1, lw)
    BY <1>1, <1>2, <2>1, PositionAfterComposite
  <2> HIDE DEF lw
  <2> QED
    BY <1>4, <2>2, <2>3 DEF Sprouted
<1> QED
  BY <1>3, <1>4

\* The loop has read n tokens.
ReadTo(n) == buffer = Rest(text, n) /\ \E lv : Position(type, key, parent, branch, text, item, n, lv)

LEMMA BuildingFacts ==
  ASSUME ParseInv, item # NULL
  PROVE  /\ Place(type, parent, branch, next, item, root, last_accessed_comp)
         /\ WellFormed(text)
         /\ \E n \in 1 .. Len(text) - 1 : ReadTo(n)
         /\ item \in Item /\ type[item] \in Composite /\ item \in Upward(item, parent)
         /\ last_accessed_comp \in Item
         /\ HashedBut(type, key, branch, table, Upward(item, parent))
<1>1. /\ Place(type, parent, branch, next, item, root, last_accessed_comp)
      /\ WellFormed(text)
      /\ \E n, lv : /\ buffer = Rest(text, n)
                    /\ Position(type, key, parent, branch, text, item, n, lv)
  BY DEF ParseInv, Building
<1>2. \E n \in 1 .. Len(text) - 1 : ReadTo(n)
  BY <1>1 DEF Position, ReadTo
<1>3. /\ parent \in [Item -> Item \cup {NULL}] /\ next \in [Item -> Item \cup {NULL}]
      /\ last_accessed_comp \in Item \cup {NULL}
  BY DEF ParseInv, ParseTypeOK, TypeOK
<1>4. item \in Item /\ type[item] \in Composite
  BY <1>1 DEF Place
<1>5. item \in Upward(item, parent)
  BY <1>3, <1>4, UpwardProperties
<1>6. last_accessed_comp \in Item
  <2>1. root \in Upward(item, parent) /\ last_accessed_comp \in Upward(root, next)
    BY <1>1 DEF Place
  <2>2. root \in Item
    BY <1>3, <1>4, <2>1, UpwardTransitive
  <2> QED
    BY <1>3, <2>1, <2>2, UpwardTransitive
<1>7. HashedBut(type, key, branch, table, Upward(item, parent))
  BY DEF ParseInv, Unwrapped
<1> QED
  BY <1>1, <1>2, <1>4, <1>5, <1>6, <1>7

\* A branch is built for the value at q + 1.
LEMMA BranchInv ==
  ASSUME ParseInv, item # NULL, NEW n \in 1 .. Len(text) - 1, ReadTo(n),
         NEW q \in n .. Len(text), Steady(text, n, q),
         NEW k \in Key, KeyFor(type, branch, item, text, n, q, k),
         NEW i \in Item, _jscon_branch_build(i, k, Rest(text, q))
  PROVE  ParseInv'
<1> DEFINE b == Rest(text, q)
<1>1. CASE Fault("crash") /\ UNCHANGED <<value, capacity, reading>>
  BY <1>1, FaultInv
<1>2. CASE Abort
  BY <1>2, FaultInv DEF Abort
<1>3. CASE /\ b # <<>> /\ (Opens(b[1]) \/ Is(b[1], "value"))
           /\ type[i] = "unborn"
           /\ branch' = [branch EXCEPT ![item] = Append(@, i)]
           /\ parent' = [parent EXCEPT ![i] = item]
           /\ key' = [key EXCEPT ![i] = k]
           /\ SetValue(i, b, last_accessed_comp)
           /\ item' = IF Opens(b[1]) THEN i ELSE item
           /\ UNCHANGED <<table, num_bucket, text, root, status>>
  <2>0. /\ ParseTypeOK /\ TypeOK
        /\ Grown(type, parent, branch, next, prev)
        /\ UnbornEmpty(type, parent, branch, table)
        /\ UnbornUnlisted(type, next, prev)
    BY DEF ParseInv, ParseTypeOK
  <2>1. /\ Place(type, parent, branch, next, item, root, last_accessed_comp)
        /\ WellFormed(text)
        /\ item \in Item /\ type[item] \in Composite /\ item \in Upward(item, parent)
        /\ last_accessed_comp \in Item
        /\ HashedBut(type, key, branch, table, Upward(item, parent))
    BY BuildingFacts
  <2>2. PICK lv : Position(type, key, parent, branch, text, item, n, lv)
    BY DEF ReadTo
  <2>3. /\ text \in Seq(Token) /\ Len(text) \in Nat /\ n \in Nat /\ q \in Nat
        /\ q \in 0 .. Len(text) /\ n <= q
    BY <2>1, TextProperties
  <2>4. /\ b \in Seq(Token) /\ q < Len(text) /\ b[1] = text[q + 1]
        /\ Tail(b) = Rest(text, q + 1)
    <3>1. /\ Rest(text, q) \in Seq(Token)
          /\ \A m \in 1 .. Len(text) - q : Rest(text, q)[m] = text[q + m]
          /\ Rest(text, q) = <<>> <=> q = Len(text)
          /\ q < Len(text) => Tail(Rest(text, q)) = Rest(text, q + 1)
      BY <2>3, RestProperties
    <3>2. q < Len(text)
      BY <1>3, <2>3, <3>1
    <3>3. 1 \in 1 .. Len(text) - q
      BY <2>3, <3>2
    <3> QED
      BY <3>1, <3>2, <3>3
  <2> HIDE DEF b
  <2>5. /\ Head(b) = b[1]
        /\ type' \in [Item -> Living \cup {"unborn", "freed"}]
        /\ \A j \in Item : j # i => type'[j] = type[j]
        /\ value' \in [Item -> Literal \cup {NULL}]
        /\ \A j \in Item : type'[j] = "leaf" => value'[j] \in Literal
        /\ capacity' \in [Item -> Nat]
        /\ next' \in [Item -> Item \cup {NULL}] /\ prev' \in [Item -> Item \cup {NULL}]
        /\ last_accessed_comp' \in Item \cup {NULL}
    BY <1>3, <2>0, <2>1, <2>4, SetValueTyped
  <2>6. PICK t \in Living : /\ SetAt(type, type', i, t)
                            /\ Opens(b[1]) <=> t \in Composite
                            /\ ~Opens(b[1]) => t = "leaf"
                            /\ last_accessed_comp' = IF Opens(b[1]) THEN i ELSE last_accessed_comp
                            /\ Chained(next, next', prev, prev', last_accessed_comp, i,
                                       t \in Composite)
    BY <1>3, <2>0, <2>1, <2>4, SetValueAt
  <2>7. Fresh(type, parent, branch, next, prev, i)
    BY <1>3, UnbornIsFresh
  <2>8. /\ parent \in [Item -> Item \cup {NULL}]
        /\ branch \in [Item -> Seq(Item)]
        /\ key \in [Item -> Key \cup {NULL}]
        /\ ArraysAgree(type, parent, branch)
    BY <2>0 DEF TypeOK, Grown
  <2>9. /\ parent' \in [Item -> Item \cup {NULL}] /\ SetAt(parent, parent', i, item)
        /\ branch' \in [Item -> Seq(Item)]
        /\ SetAt(branch, branch', item, Append(branch[item], i))
        /\ key' \in [Item -> Key \cup {NULL}] /\ SetAt(key, key', i, k)
    <3>1. branch[item] \in Seq(Item) /\ Append(branch[item], i) \in Seq(Item)
      BY <2>1, <2>8, AppendProperties
    <3> QED
      BY <1>3, <2>1, <2>8, <3>1 DEF SetAt
  <2>10. buffer' = Rest(text, q + 1)
    BY <1>3, <2>4, SetValueCases
  <2>11. t \notin Composite => t = "leaf" /\ ~Opens(text[q + 1]) /\ ~Closes(text[q + 1])
    BY <1>3, <2>4, <2>6, Kinds
  <2> DEFINE tz == type'
             kz == key'
             pb == parent'
             bs == branch'
             nw == next'
             pw == prev'
             l == last_accessed_comp
  <2> HIDE DEF tz, kz, pb, bs, nw, pw, l
  <2>12. /\ t \notin Composite => Sprouted(tz, kz, pb, bs, nw, pw, text, item, root, l, q + 1)
         /\ t \in Composite => Sprouted(tz, kz, pb, bs, nw, pw, text, i, root, i, q + 1)
    <3>1. /\ Place(type, parent, branch, next, item, root, l)
          /\ t \in Composite => Opens(text[q + 1])
          /\ SetAt(type, tz, i, t) /\ SetAt(key, kz, i, k)
          /\ pb \in [Item -> Item \cup {NULL}] /\ SetAt(parent, pb, i, item)
          /\ bs \in [Item -> Seq(Item)] /\ SetAt(branch, bs, item, Append(branch[item], i))
          /\ nw \in [Item -> Item \cup {NULL}]
          /\ Chained(next, nw, prev, pw, l, i, t \in Composite)
      BY <2>1, <2>4, <2>5, <2>6, <2>9 DEF tz, kz, pb, bs, nw, pw, l
    <3> QED
      BY <2>0, <2>1, <2>2, <2>3, <2>4, <2>7, <2>11, <3>1, Sprout
  <2>13. /\ item' \in Item /\ item' # NULL
         /\ Sprouted(type', key', parent', branch', next', prev', text', item', root',
                     last_accessed_comp', q + 1)
    <3>1. CASE t \in Composite
      BY <1>3, <2>6, <2>12, <3>1, ItemAssumption DEF tz, kz, pb, bs, nw, pw
    <3>2. CASE t \notin Composite
      BY <1>3, <2>1, <2>6, <2>12, <3>2, ItemAssumption DEF tz, kz, pb, bs, nw, pw, l
    <3> QED
      BY <3>1, <3>2
  <2>14. Building'
    BY <1>3, <2>1, <2>10, <2>13 DEF Building, Sprouted
  <2>15. ParseTypeOK'
    BY <1>3, <2>0, <2>5, <2>9, <2>13 DEF ParseTypeOK, TypeOK
  <2>16. UnbornEmpty(type', parent', branch', table')
    <3>1. \A j \in Item : type'[j] = "unborn" => type[j] = "unborn" /\ j # i /\ j # item
      BY <2>1, <2>5, <2>6 DEF SetAt, Living, Composite
    <3> QED
      BY <1>3, <2>0, <2>9, <3>1 DEF UnbornEmpty, SetAt
  <2>17. UnbornUnlisted(type', next', prev')
    <3>1. type[last_accessed_comp] \in Composite
      BY <2>0, <2>1, <2>7, FreshApart
    <3>2. \A j \in Item : type'[j] = "unborn" =>
            type[j] = "unborn" /\ j # i /\ j # last_accessed_comp
      BY <2>1, <2>5, <2>6, <3>1 DEF SetAt, Living, Composite
    <3> QED
      BY <2>0, <2>6, <3>2 DEF UnbornUnlisted, Chained, SetAt
  <2>18. HashedBut(type', key', branch', table', Unwrapped(item', parent'))
    <3>1. i \notin Upward(item, parent) /\ Upward(i, parent) = {i}
      <4>1. i \notin Upward(item, parent)
        BY <2>0, <2>1, <2>7, FreshApart
      <4>2. i \in Item /\ parent[i] = NULL
        BY <2>7 DEF Fresh
      <4> QED
        BY <2>8, <4>1, <4>2, UpwardStep
    <3>2. Joined(parent, pb, i, item)
      BY <2>1, <2>7, <2>8, <2>9, <3>1, JoinedUpward DEF Fresh, pb
    <3>3. Upward(item, parent) \subseteq Unwrapped(item', parent') /\
          (t \in Composite => i \in Unwrapped(item', parent'))
      <4>1. Upward(item, pb) = Upward(item, parent)
        BY <2>1, <3>1, <3>2 DEF Joined
      <4>2. Upward(i, pb) = {i} \cup Upward(item, parent)
        BY <3>1, <3>2 DEF Joined
      <4> QED
        BY <1>3, <2>6, <2>13, <4>1, <4>2 DEF Unwrapped, pb
    <3> DEFINE open == Upward(item, parent)
               up == Unwrapped(item', parent')
               c == Append(branch[item], i)
    <3>4. open \subseteq up /\ (t \in Composite => i \in up) /\ item \in open
          /\ HashedBut(type, key, branch, table, open)
          /\ SetAt(type, tz, i, t) /\ SetAt(key, kz, i, k) /\ SetAt(branch, bs, item, c)
      BY <2>1, <2>6, <2>9, <3>3 DEF tz, kz, bs
    <3> HIDE DEF open, up, c
    <3>5. HashedBut(tz, kz, bs, table, up)
      BY <2>7, <2>8, <3>4, BirthHashed DEF Fresh
    <3> QED
      BY <1>3, <3>5 DEF tz, kz, bs, up
  <2>19. Grown(type', parent', branch', next', prev')
    BY <2>13 DEF Sprouted
  <2> QED
    BY <2>14, <2>15, <2>16, <2>17, <2>18, <2>19 DEF ParseInv
<1> QED
  BY <1>1, <1>2, <1>3, Zenon DEF _jscon_branch_build

\* The bracket of item is read, and its parent goes on.
LEMMA WrapInv ==
  ASSUME ParseInv, item # NULL, NEW n \in 1 .. Len(text) - 1, ReadTo(n),
         Closes(text[n + 1]), _jscon_wrap_composite
  PROVE  ParseInv'
<1>1. /\ Place(type, parent, branch, next, item, root, last_accessed_comp)
      /\ WellFormed(text)
      /\ item \in Item /\ type[item] \in Composite /\ item \in Upward(item, parent)
      /\ HashedBut(type, key, branch, table, Upward(item, parent))
  BY BuildingFacts
<1>2. PICK lv : Position(type, key, parent, branch, text, item, n, lv)
  BY DEF ReadTo
<1>3. /\ buffer' = Tail(buffer) /\ item' = parent[item]
      /\ table' = [table EXCEPT ![item] = FirstWins(branch[item], key)]
      /\ num_bucket' = [num_bucket EXCEPT ![item] = Buckets(Len(branch[item]))]
      /\ UNCHANGED <<type, key, parent, branch, next, prev, status>>
      /\ UNCHANGED <<value, capacity, text, root, last_accessed_comp>>
  BY DEF _jscon_wrap_composite, links
<1>4. /\ ParseTypeOK /\ TypeOK
      /\ Grown(type, parent, branch, next, prev)
      /\ UnbornEmpty(type, parent, branch, table)
      /\ UnbornUnlisted(type, next, prev)
      /\ parent \in [Item -> Item \cup {NULL}] /\ branch \in [Item -> Seq(Item)]
      /\ num_bucket \in [Item -> Nat]
      /\ TablesOfItems(table)
  BY DEF ParseInv, ParseTypeOK, TypeOK, TablesOfItems
<1>5. text \in Seq(Token) /\ Len(text) \in Nat /\ n \in 0 .. Len(text) /\ n < Len(text)
      /\ n \in 1 .. Len(text)
  BY <1>1, TextProperties
<1>6. buffer' = Rest(text, n + 1)
  BY <1>3, <1>5, RestProperties DEF ReadTo
<1>7. TablesOfItems(table') /\ HashedBut(type, key, branch, table', Unwrapped(item', parent))
  <2> DEFINE open == Upward(item, parent)
             up == Unwrapped(item', parent)
             v == lv[item]
             tc == table'
  <2>1. open \subseteq {item} \cup up
    <3>1. parent[item] = NULL => Upward(item, parent) = {item}
      BY <1>1, <1>4, UpwardStep
    <3>2. parent[item] # NULL => Upward(item, parent) = {item} \cup Upward(parent[item], parent)
      BY <1>1, <1>4, UpwardStep
    <3> QED
      BY <1>3, <3>1, <3>2 DEF Unwrapped
  <2>2. /\ HashedBut(type, key, branch, table, open)
        /\ KeysRead(type, key, branch, item, v, text, n)
        /\ DOMAIN tc = Item /\ SetAt(table, tc, item, FirstWins(branch[item], key))
    BY <1>1, <1>2, <1>3, <1>4 DEF Position, TablesOfItems, SetAt
  <2> HIDE DEF open, up, v, tc
  <2>3. TablesOfItems(tc) /\ HashedBut(type, key, branch, tc, up)
    BY <1>1, <1>4, <1>5, <2>1, <2>2, WrapTables
  <2> QED
    BY <2>3 DEF tc, up
<1>8. /\ parent[item] = NULL => n + 1 = Len(text)
      /\ parent[item] # NULL => Position(type, key, parent, branch, text, parent[item], n + 1, lv)
  BY <1>1, <1>2, <1>4, PositionUp
<1>9. Building'
  <2>1. CASE parent[item] = NULL
    <3>1. n + 1 = Len(text)
      BY <1>8, <2>1
    <3>2. n + 1 \in 0 .. Len(text)
      BY <1>5
    <3>3. Rest(text, n + 1) = <<>>
      BY <1>5, <3>1, <3>2, RestProperties
    <3> QED
      BY <1>3, <1>6, <2>1, <3>3 DEF Building
  <2>2. CASE parent[item] # NULL
    <3>1. Position(type, key, parent, branch, text, parent[item], n + 1, lv)
      BY <1>8, <2>2
    <3>2. Place(type, parent, branch, next, parent[item], root, last_accessed_comp)
      BY <1>1, <1>4, <2>2, PlaceUp
    <3>3. /\ Place(type', parent', branch', next', item', root', last_accessed_comp')
          /\ WellFormed(text')
          /\ buffer' = Rest(text', n + 1)
          /\ Position(type', key', parent', branch', text', item', n + 1, lv)
      BY <1>1, <1>3, <1>6, <3>1, <3>2
    <3> QED
      BY <1>3, <2>2, <3>3 DEF Building
  <2> QED
    BY <2>1, <2>2
<1>10. ParseTypeOK'
  <2>1. num_bucket' \in [Item -> Nat]
    <3>1. Len(branch[item]) \in Nat
      BY <1>1, <1>4
    <3>2. Buckets(Len(branch[item])) \in Nat
      BY <3>1, BucketsNat
    <3> QED
      BY <1>3, <1>4, <3>2
  <2>2. /\ DOMAIN table' = Item
        /\ \A i \in Item : /\ DOMAIN table'[i] \subseteq Key
                           /\ \A k \in DOMAIN table'[i] : table'[i][k] \in Item
    BY <1>7 DEF TablesOfItems
  <2>3. TypeOK'
    BY <1>3, <1>4, <2>1, <2>2 DEF TypeOK
  <2>4. item' \in Item \cup {NULL}
    BY <1>1, <1>3, <1>4
  <2> QED
    BY <1>3, <1>4, <2>3, <2>4 DEF ParseTypeOK
<1>11. UnbornEmpty(type', parent', branch', table')
  <2>1. type[item] # "unborn" /\ \A i \in Item : i # item => table'[i] = table[i]
    BY <1>1, <1>3, <1>4 DEF Composite, TablesOfItems
  <2> QED
    BY <1>3, <1>4, <2>1 DEF UnbornEmpty
<1>12. /\ Grown(type', parent', branch', next', prev')
       /\ UnbornUnlisted(type', next', prev')
       /\ HashedBut(type', key', branch', table', Unwrapped(item', parent'))
  <2>1. Grown(type', parent', branch', next', prev') /\ UnbornUnlisted(type', next', prev')
    BY <1>3, <1>4
  <2>2. HashedBut(type', key', branch', table', Unwrapped(item', parent'))
    BY <1>3, <1>7
  <2> QED
    BY <2>1, <2>2
<1> QED
  BY <1>9, <1>10, <1>11, <1>12 DEF ParseInv

\* Between values a comma is passed over.
LEMMA CommaPassed ==
  ASSUME ParseInv, item # NULL, NEW n \in 1 .. Len(text) - 1, ReadTo(n)
  PROVE  /\ Head(buffer) = text[n + 1]
         /\ \E q \in n .. Len(text) : AfterComma = Rest(text, q) /\ Steady(text, n, q)
<1>1. text \in Seq(Token) /\ Len(text) \in Nat /\ n \in 0 .. Len(text) /\ n < Len(text) /\ n \in Nat
  BY BuildingFacts, TextProperties
<1>2. Head(buffer) = text[n + 1] /\ Tail(buffer) = Rest(text, n + 1) /\ buffer = Rest(text, n)
  BY <1>1, RestProperties DEF ReadTo
<1>3. \/ AfterComma = Tail(buffer) /\ ~Opens(Head(buffer)) /\ ~Closes(Head(buffer))
      \/ AfterComma = buffer
  BY Kinds, Zenon DEF AfterComma
<1>4. Steady(text, n, n)
  BY <1>1, SteadyStep
<1>5. CASE AfterComma = buffer
  BY <1>1, <1>2, <1>4, <1>5
<1>6. CASE AfterComma = Tail(buffer) /\ ~Opens(Head(buffer)) /\ ~Closes(Head(buffer))
  <2>1. Steady(text, n, n + 1)
    BY <1>1, <1>2, <1>4, <1>6, SteadyStep
  <2>2. n + 1 \in n .. Len(text)
    BY <1>1
  <2> QED
    BY <1>2, <1>6, <2>1, <2>2
<1> QED
  BY <1>2, <1>3, <1>5, <1>6

LEMMA ArrayInv ==
  ASSUME ParseInv, _jscon_array_build
  PROVE  ParseInv'
<1>1. /\ item # NULL /\ type[item] = "array"
      /\ \/ Closes(Head(buffer)) /\ _jscon_wrap_composite
         \/ \E i \in Item : _jscon_branch_build(i, Len(branch[item]), AfterComma)
  BY Zenon DEF _jscon_array_build, Parsing, Closes
<1>2. PICK n \in 1 .. Len(text) - 1 : ReadTo(n)
  BY <1>1, BuildingFacts
<1>3. /\ Head(buffer) = text[n + 1]
      /\ \E q \in n .. Len(text) : AfterComma = Rest(text, q) /\ Steady(text, n, q)
  BY <1>1, <1>2, CommaPassed
<1>4. CASE Closes(Head(buffer)) /\ _jscon_wrap_composite
  BY <1>1, <1>2, <1>3, <1>4, WrapInv
<1>5. ASSUME NEW i \in Item, _jscon_branch_build(i, Len(branch[item]), AfterComma)
      PROVE  ParseInv'
  <2>1. PICK q \in n .. Len(text) : AfterComma = Rest(text, q) /\ Steady(text, n, q)
    BY <1>3
  <2> DEFINE k == Len(branch[item])
  <2>2. k \in Key
    <3>1. item \in Item /\ branch \in [Item -> Seq(Item)]
      BY <1>1, BuildingFacts DEF ParseInv, ParseTypeOK, TypeOK
    <3>2. branch[item] \in Seq(Item)
      BY <3>1
    <3> QED
      BY <3>2, LenProperties DEF Key
  <2>3. KeyFor(type, branch, item, text, n, q, k)
    BY <1>1 DEF KeyFor
  <2>4. _jscon_branch_build(i, k, Rest(text, q))
    BY <1>5, <2>1
  <2> HIDE DEF k
  <2> QED
    BY <1>1, <1>2, <2>1, <2>2, <2>3, <2>4, BranchInv
<1> QED
  BY <1>1, <1>4, <1>5

LEMMA ObjectInv ==
  ASSUME ParseInv, _jscon_object_build
  PROVE  ParseInv'
<1> DEFINE b == AfterComma
<1>1. /\ item # NULL /\ type[item] = "object"
      /\ \/ Closes(Head(buffer)) /\ _jscon_wrap_composite
         \/ Abort
         \/ /\ ~(Len(b) < 2) /\ Is(b[1], "key")
            /\ ~Opens(b[1]) /\ ~Closes(b[1]) /\ ~Opens(b[2]) /\ ~Closes(b[2])
            /\ \E i \in Item : _jscon_branch_build(i, b[1][2], SubSeq(b, 3, Len(b)))
  BY Kinds, Zenon DEF _jscon_object_build, Parsing, Closes
<1>2. PICK n \in 1 .. Len(text) - 1 : ReadTo(n)
  BY <1>1, BuildingFacts
<1>3. /\ Head(buffer) = text[n + 1]
      /\ \E q \in n .. Len(text) : b = Rest(text, q) /\ Steady(text, n, q)
  BY <1>1, <1>2, CommaPassed
<1> HIDE DEF b
<1>4. CASE Closes(Head(buffer)) /\ _jscon_wrap_composite
  BY <1>1, <1>2, <1>3, <1>4, WrapInv
<1>5. CASE Abort
  BY <1>5, FaultInv DEF Abort
<1>6. ASSUME ~(Len(b) < 2), Is(b[1], "key"),
             ~Opens(b[1]), ~Closes(b[1]), ~Opens(b[2]), ~Closes(b[2]),
             NEW i \in Item, _jscon_branch_build(i, b[1][2], SubSeq(b, 3, Len(b)))
      PROVE  ParseInv'
  <2>1. PICK q \in n .. Len(text) : b = Rest(text, q) /\ Steady(text, n, q)
    BY <1>3
  <2>2. /\ text \in Seq(Token) /\ Len(text) \in Nat /\ n \in Nat /\ q \in Nat
        /\ q \in 0 .. Len(text) /\ \A s \in 1 .. Len(text) : text[s] \in Token
    BY <1>1, <1>2, BuildingFacts, TextProperties
  <2>3. Len(b) = Len(text) - q /\ \A m \in 1 .. Len(text) - q : b[m] = text[q + m]
    BY <2>1, <2>2, RestProperties
  <2>4. /\ Len(text) - q >= 2
        /\ q + 2 \in n .. Len(text)
        /\ b[1] = text[q + 1] /\ b[2] = text[q + 1 + 1] /\ text[q + 1] \in Token
    BY <1>6, <2>1, <2>2, <2>3
  <2> DEFINE k == b[1][2]
             z == q + 2
  <2>5. k \in Key /\ text[q + 1] = KeyToken(k)
    BY <1>6, <2>4, Tokens DEF Key
  <2>6. Steady(text, n, z)
    <3> DEFINE m == q + 1
    <3>1. /\ m \in Nat /\ n <= q /\ n <= m
          /\ ~Opens(text[q + 1]) /\ ~Closes(text[q + 1])
          /\ ~Opens(text[m + 1]) /\ ~Closes(text[m + 1])
      BY <1>6, <2>1, <2>2, <2>4
    <3>2. Steady(text, n, m)
      BY <2>1, <2>2, <3>1, SteadyStep
    <3>3. m + 1 = z
      BY <2>2
    <3> HIDE DEF m, z
    <3>4. Steady(text, n, m + 1)
      BY <2>2, <3>1, <3>2, SteadyStep
    <3> QED
      BY <3>3, <3>4
  <2>7. KeyFor(type, branch, item, text, n, z, k)
    <3>1. q + 1 \in n + 1 .. z
      BY <2>1, <2>2
    <3> QED
      BY <1>1, <2>5, <3>1 DEF KeyFor
  <2>8. _jscon_branch_build(i, k, Rest(text, z))
    <3>1. SubSeq(b, 3, Len(b)) = Rest(text, z)
      BY <2>1, <2>2, <2>4, RestFromThird
    <3> QED
      BY <1>6, <3>1
  <2>9. z \in n .. Len(text)
    BY <2>4
  <2> HIDE DEF k, z
  <2> QED
    BY <1>1, <1>2, <2>5, <2>6, <2>7, <2>8, <2>9, BranchInv
<1> QED
  BY <1>1, <1>4, <1>5, <1>6

\* The loop is over with the text.
LEMMA LoopEnds ==
  ASSUME ParseInv
  PROVE  item = NULL <=> buffer = <<>>
<1>1. CASE item = NULL
  BY <1>1 DEF ParseInv, Building
<1>2. CASE item # NULL
  <2>1. PICK n \in 1 .. Len(text) - 1 : ReadTo(n)
    BY <1>2, BuildingFacts
  <2>2. text \in Seq(Token) /\ Len(text) \in Nat
    BY <1>2, BuildingFacts, TextProperties
  <2>3. n \in 0 .. Len(text) /\ n # Len(text)
    BY <2>2
  <2>4. buffer # <<>>
    BY <2>1, <2>2, <2>3, RestProperties DEF ReadTo
  <2> QED
    BY <1>2, <2>4
<1> QED
  BY <1>1, <1>2

\* What is no primitive yet was not born before.
LEMMA LeavesAreBorn ==
  ASSUME TypeOK, Next, NEW i \in Item, type'[i] = "leaf"
  PROVE  type[i] \in {"leaf", "unborn"}
<1>0. DOMAIN type = Item
  BY DEF TypeOK
<1>1. ASSUME NEW gone, FreeAll(gone)
      PROVE  type[i] = "leaf"
  BY <1>1 DEF FreeAll
<1>2. ASSUME NEW how, Fault(how)
      PROVE  type[i] = "leaf"
  BY <1>2 DEF Fault
<1>3. ASSUME NEW j \in Item, NEW t \in Kind, NEW k \in Name \cup {NULL}, jscon_new(j, t, k)
      PROVE  type[i] \in {"leaf", "unborn"}
  BY <1>0, <1>3 DEF jscon_new
<1>4. ASSUME NEW p \in Item, NEW c \in Item, jscon_append(p, c)
      PROVE  type[i] = "leaf"
  <2>1. type' = type
    BY <1>4, Zenon DEF jscon_append, Fault
  <2> QED
    BY <2>1
<1>5. ASSUME NEW p \in Item, NEW c \in Item, jscon_append_oom(p, c)
      PROVE  type[i] = "leaf"
  BY <1>5 DEF jscon_append_oom
<1>6. ASSUME NEW x \in Item, jscon_dettach(x)
      PROVE  type[i] = "leaf"
  BY <1>2, <1>6 DEF jscon_dettach
<1>7. ASSUME NEW x, jscon_destroy(x)
      PROVE  type[i] = "leaf"
  BY <1>1, <1>2, <1>7 DEF jscon_destroy
<1>8. ASSUME NEW p \in Item, NEW k \in DOMAIN table[p], jscon_delete(p, k)
      PROVE  type[i] = "leaf"
  BY <1>1, <1>2, <1>8 DEF jscon_delete
<1>9. ASSUME NEW p \in Item, NEW k \in DOMAIN table[p], jscon_delete_oom(p, k)
      PROVE  type[i] = "leaf"
  BY <1>7, <1>9 DEF jscon_delete_oom
<1> QED
  BY <1>3, <1>4, <1>5, <1>6, <1>7, <1>8, <1>9 DEF Next

\* Between two texts the tree is one that calls can edit.
LEMMA ParsedListInv ==
  ASSUME ParseInv, item = NULL, status = "ok"
  PROVE  ListInv
<1>1. /\ ParseTypeOK
      /\ Grown(type, parent, branch, next, prev)
      /\ UnbornEmpty(type, parent, branch, table)
      /\ UnbornUnlisted(type, next, prev)
      /\ HashedBut(type, key, branch, table, {})
  BY DEF ParseInv, Unwrapped
<1>2. TablesAgree(type, key, branch, table)
  BY <1>1 DEF HashedBut, TablesAgree
<1> QED
  BY <1>1, <1>2 DEF ListInv, ForestInv, IInv, ParseTypeOK, Grown, NoFault

LEMMA EditInv ==
  ASSUME IsFiniteSet(Item), Client \subseteq {"oom"}, ParseInv, status = "ok", ~Parsing, edit
  PROVE  ParseInv'
<1>1. item = NULL /\ buffer = <<>>
  BY LoopEnds DEF Parsing
<1>2. /\ Next /\ root' = NULL /\ UNCHANGED <<capacity, buffer, item, last_accessed_comp>>
      /\ \E v \in Literal :
           value' = [i \in Item |-> IF type'[i] = "leaf" /\ type[i] = "unborn"
                                      THEN v ELSE value[i]]
  BY DEF edit
<1>3. ListInv'
  BY <1>1, <1>2, ParsedListInv, NextListInv
<1>4. /\ TypeOK'
      /\ parent' \in [Item -> Item \cup {NULL}] /\ branch' \in [Item -> Seq(Item)]
      /\ next' \in [Item -> Item \cup {NULL}]
      /\ ArraysAgree(type', parent', branch')
      /\ TablesAgree(type', key', branch', table')
      /\ UnbornEmpty(type', parent', branch', table')
      /\ Climbs(type', parent')
      /\ Lists(type', parent', branch', next', prev')
      /\ UnbornUnlisted(type', next', prev')
  BY <1>3 DEF ListInv, ForestInv, IInv, TypeOK
<1>5. ParseTypeOK /\ TypeOK
  BY DEF ParseInv, ParseTypeOK
<1>6. /\ value' \in [Item -> Literal \cup {NULL}]
      /\ \A i \in Item : type'[i] = "leaf" => value'[i] \in Literal
  <2>1. PICK v \in Literal :
          value' = [i \in Item |-> IF type'[i] = "leaf" /\ type[i] = "unborn"
                                     THEN v ELSE value[i]]
    BY <1>2
  <2>2. /\ value \in [Item -> Literal \cup {NULL}]
        /\ \A i \in Item : type[i] = "leaf" => value[i] \in Literal
    BY <1>5 DEF ParseTypeOK
  <2>3. \A i \in Item : type'[i] = "leaf" => type[i] = "leaf" \/ type[i] = "unborn"
    BY <1>2, <1>5, LeavesAreBorn
  <2> QED
    BY <2>1, <2>2, <2>3
<1>7. ParseTypeOK'
  BY <1>2, <1>4, <1>5, <1>6 DEF ParseTypeOK
<1>8. HashedBut(type', key', branch', table', Unwrapped(item', parent'))
  BY <1>1, <1>2, <1>4 DEF Unwrapped, HashedBut, TablesAgree
<1>9. Building'
  BY <1>1, <1>2 DEF Building
<1>10. Grown(type', parent', branch', next', prev')
  BY <1>4 DEF Grown
<1> QED
  BY <1>4, <1>7, <1>8, <1>9, <1>10 DEF ParseInv

LEMMA ParseInitInv == ParseInit => ParseInv
<1> SUFFICES ASSUME ParseInit PROVE ParseInv
  OBVIOUS
<1>1. Init /\ item = NULL /\ buffer = <<>>
  BY DEF ParseInit
<1>2. ListInv
  BY <1>1, InitListInv
<1>3. ParseTypeOK
  <2>1. TypeOK
    BY <1>2 DEF ListInv, ForestInv, IInv
  <2>2. \A i \in Item : type[i] # "leaf"
    BY <1>1 DEF Init
  <2> QED
    BY <2>1, <2>2 DEF ParseInit, ParseTypeOK
<1>4. HashedBut(type, key, branch, table, Unwrapped(item, parent))
  BY <1>2 DEF ListInv, ForestInv, IInv, TablesAgree, HashedBut
<1>5. Building
  BY <1>1 DEF Building
<1>6. Grown(type, parent, branch, next, prev)
  BY <1>2, ListInvFacts DEF Grown, ListInv
<1> QED
  BY <1>2, <1>3, <1>4, <1>5, <1>6 DEF ParseInv, ListInv, ForestInv, IInv

LEMMA ParseNextInv ==
  ASSUME IsFiniteSet(Item), Client \subseteq {"oom"}, ParseInv, [ParseNext]_parsevars
  PROVE  ParseInv'
<1>1. ASSUME ~Parsing, NEW i \in Item, NEW document \in Document, jscon_parse(i, document)
      PROVE  ParseInv'
  <2>1. item = NULL
    BY <1>1, LoopEnds DEF Parsing
  <2>2. WellFormed(document)
    BY DocumentAssumption
  <2> QED
    BY <1>1, <2>1, <2>2, EntityInv
<1>2. CASE status = "ok" /\ ~Parsing /\ edit
  BY <1>2, EditInv
<1>3. CASE _jscon_array_build
  BY <1>3, ArrayInv
<1>4. CASE _jscon_object_build
  BY <1>4, ObjectInv
<1>5. CASE _jscon_item_init_oom
  BY <1>5, FaultInv DEF _jscon_item_init_oom
<1>6. CASE UNCHANGED parsevars
  <2>1. /\ UNCHANGED <<type, key, parent, branch, table, num_bucket, next, prev, status>>
        /\ UNCHANGED <<value, capacity, text, root, buffer, item, last_accessed_comp>>
    BY <1>6 DEF parsevars, vars, nodes, links, reading
  <2>2. ParseTypeOK'
    BY <2>1 DEF ParseInv, ParseTypeOK, TypeOK
  <2>3. Building'
    BY <2>1 DEF ParseInv, Building
  <2> QED
    BY <2>1, <2>2, <2>3 DEF ParseInv
<1> QED
  BY <1>1, <1>2, <1>3, <1>4, <1>5, <1>6 DEF ParseNext

------------------------------------------------------------------------------
(* The separators that a composite has ahead.                              *)

\* Numbers that are k more than others are as many.
LEMMA ShiftedCard ==
  ASSUME NEW k \in Nat, NEW S \in SUBSET Nat, IsFiniteSet(S),
         NEW T \in SUBSET Nat, \A m \in Nat : m \in S <=> k + m \in T, \A m \in T : m >= k
  PROVE  IsFiniteSet(T) /\ Cardinality(T) = Cardinality(S)
<1> DEFINE f == [m \in S |-> k + m]
<1>1. f \in [S -> T] /\ \A m \in S : f[m] = k + m
  OBVIOUS
<1> HIDE DEF f
<1>2. \A a, b \in S : f[a] = f[b] => a = b
  BY <1>1
<1>3. ASSUME NEW t \in T
      PROVE  \E s \in S : f[s] = t
  <2>1. t - k \in Nat /\ k + (t - k) = t
    OBVIOUS
  <2>2. t - k \in S
    BY <2>1
  <2> QED
    BY <1>1, <2>1, <2>2
<1>4. f \in Bijection(S, T)
  BY <1>1, <1>2, <1>3 DEF Bijection, Injection, Surjection, IsInjective
<1>5. ExistsBijection(S, T)
  BY <1>4 DEF ExistsBijection
<1> QED
  BY <1>5, FS_Bijection

\* What is left after k tokens, by what is in the whole text.
LEMMA OccursOfRest ==
  ASSUME NEW S, NEW t \in Seq(S), NEW k \in 0 .. Len(t), NEW m \in 0 .. Len(t) - k, NEW c
  PROVE  Occurs(Rest(t, k), m, c) = Occurs(t, k + m, c) - Occurs(t, k, c)
<1> DEFINE r == Rest(t, k)
           A == {q \in 1 .. k : Is(t[q], c)}
           B == {q \in k + 1 .. k + m : Is(t[q], c)}
           C == {q \in 1 .. k + m : Is(t[q], c)}
           R == {q \in 1 .. m : Is(r[q], c)}
<1>1. /\ Len(t) \in Nat /\ k \in Nat /\ m \in Nat
      /\ \A q \in 1 .. m : r[q] = t[k + q]
  BY LenProperties, RestProperties
<1> HIDE DEF r
<1>2. C = A \cup B /\ A \cap B = {}
  BY <1>1
<1>3. IsFiniteSet(A) /\ IsFiniteSet(B) /\ IsFiniteSet(R)
  <2>1. /\ IsFiniteSet(1 .. k) /\ IsFiniteSet(k + 1 .. k + m) /\ IsFiniteSet(1 .. m)
    BY <1>1, FS_Interval
  <2>2. A \in SUBSET (1 .. k) /\ B \in SUBSET (k + 1 .. k + m) /\ R \in SUBSET (1 .. m)
    OBVIOUS
  <2> HIDE DEF A, B, R
  <2> QED
    BY <2>1, <2>2, FS_Subset
<1>4. Cardinality(B) = Cardinality(R)
  <2>1. R \in SUBSET Nat /\ B \in SUBSET Nat /\ \A q \in B : q >= k
    BY <1>1
  <2>2. \A q \in Nat : q \in R <=> k + q \in B
    BY <1>1
  <2> HIDE DEF R, B
  <2> QED
    BY <1>1, <1>3, <2>1, <2>2, ShiftedCard
<1>5. Occurs(r, m, c) = Cardinality(R) /\ Occurs(t, k + m, c) = Cardinality(C) /\ Occurs(t, k, c) = Cardinality(A)
  BY DEF Occurs
<1> HIDE DEF A, B, C, R
<1>6. Cardinality(C) = Cardinality(A) + Cardinality(B) - 0
  BY <1>2, <1>3, FS_Union, FS_EmptySet
<1>7. Cardinality(A) \in Nat /\ Cardinality(B) \in Nat
  BY <1>3, FS_CardinalityType
<1> QED
  BY <1>4, <1>5, <1>6, <1>7 DEF r

\* Of the tokens of t after the first n, the separators at level v of one kind
\* of bracket, up to the bracket that closes this level.
AheadAt(t, n, open, close, sep, v) ==
  {q \in n + 1 .. Len(t) :
     /\ Is(t[q], sep)
     /\ Unclosed(t, q, open, close) = v
     /\ \A s \in n + 1 .. q : Unclosed(t, s, open, close) # v - 1}

Ahead(t, n, open, close, sep, v) == Cardinality(AheadAt(t, n, open, close, sep, v))

LEMMA AheadIsNat ==
  ASSUME NEW t, Len(t) \in Nat, NEW n \in Nat, NEW open, NEW close, NEW sep, NEW v
  PROVE  IsFiniteSet(AheadAt(t, n, open, close, sep, v)) /\ Ahead(t, n, open, close, sep, v) \in Nat
<1> DEFINE S == AheadAt(t, n, open, close, sep, v)
<1>1. IsFiniteSet(n + 1 .. Len(t))
  BY FS_Interval
<1>2. S \in SUBSET (n + 1 .. Len(t))
  BY DEF AheadAt
<1> HIDE DEF S
<1>3. IsFiniteSet(S) /\ Cardinality(S) \in Nat
  BY <1>1, <1>2, FS_Subset, FS_CardinalityType
<1> QED
  BY <1>3 DEF S, Ahead

\* One token on.
LEMMA AheadStep ==
  ASSUME NEW t, Len(t) \in Nat, NEW n \in Nat, n < Len(t), NEW open, NEW close, NEW sep, NEW v \in Int
  PROVE  /\ Unclosed(t, n + 1, open, close) = v - 1 => Ahead(t, n, open, close, sep, v) = 0
         /\ Unclosed(t, n + 1, open, close) # v - 1 =>
              Ahead(t, n, open, close, sep, v) =
                Ahead(t, n + 1, open, close, sep, v) +
                (IF Is(t[n + 1], sep) /\ Unclosed(t, n + 1, open, close) = v THEN 1 ELSE 0)
<1> DEFINE S == AheadAt(t, n, open, close, sep, v)
           T == AheadAt(t, n + 1, open, close, sep, v)
           U(q) == Unclosed(t, q, open, close)
<1>1. ASSUME U(n + 1) = v - 1
      PROVE  S = {}
  BY <1>1 DEF AheadAt
<1>2. n + 1 \notin T
  BY DEF AheadAt
<1>3. ASSUME U(n + 1) # v - 1
      PROVE  S = IF Is(t[n + 1], sep) /\ U(n + 1) = v THEN T \cup {n + 1} ELSE T
  <2>1. ASSUME NEW q
        PROVE  q \in S <=> q \in T \/ (q = n + 1 /\ Is(t[n + 1], sep) /\ U(n + 1) = v)
    <3>1. CASE q = n + 1
      <4>1. \A s \in n + 1 .. n + 1 : s = n + 1
        OBVIOUS
      <4>2. n + 1 \in n + 1 .. Len(t)
        OBVIOUS
      <4> QED
        BY <1>2, <1>3, <3>1, <4>1, <4>2 DEF AheadAt
    <3>2. CASE q \in n + 1 + 1 .. Len(t)
      <4>1. q \in n + 1 .. Len(t) /\ \A s \in Int : s \in n + 1 .. q <=> s = n + 1 \/ s \in n + 1 + 1 .. q
        BY <3>2
      <4> QED
        BY <1>3, <3>2, <4>1 DEF AheadAt
    <3>3. CASE q # n + 1 /\ q \notin n + 1 + 1 .. Len(t)
      <4>1. q \notin n + 1 .. Len(t)
        BY <3>3
      <4> QED
        BY <3>3, <4>1 DEF AheadAt
    <3> QED
      BY <3>1, <3>2, <3>3
  <2> HIDE DEF S, T, U
  <2> QED
    BY <2>1
<1>4. IsFiniteSet(T) /\ Cardinality(T) \in Nat
  BY AheadIsNat DEF Ahead
<1> HIDE DEF S, T, U
<1>5. U(n + 1) = v - 1 => Cardinality(S) = 0
  BY <1>1, FS_EmptySet
<1>6. U(n + 1) # v - 1 =>
        Cardinality(S) = Cardinality(T) + (IF Is(t[n + 1], sep) /\ U(n + 1) = v THEN 1 ELSE 0)
  BY <1>2, <1>3, <1>4, FS_AddElement
<1> QED
  BY <1>5, <1>6 DEF Ahead, S, T, U

\* What is counted from a bracket on is what lies ahead of it.
LEMMA CountIsAhead ==
  ASSUME NEW S, NEW t \in Seq(S), NEW k \in Nat, k < Len(t),
         NEW open, NEW close, NEW sep, open # close, open # sep, Is(t[k + 1], open)
  PROVE  Count(Rest(t, k), open, close, sep) =
           Ahead(t, k + 1, open, close, sep, Unclosed(t, k + 1, open, close))
<1> DEFINE r == Rest(t, k)
           U(q) == Unclosed(t, q, open, close)
           v == U(k + 1)
           C == {m \in Within(r, open, close) : Is(r[m], sep) /\ Unclosed(r, m, open, close) = 1}
           A == AheadAt(t, k, open, close, sep, v)
<1>1. /\ Len(t) \in Nat /\ k \in 0 .. Len(t)
      /\ DOMAIN r = 1 .. Len(t) - k
      /\ \A m \in 1 .. Len(t) - k : r[m] = t[k + m]
  <2>1. Len(t) \in Nat /\ k \in 0 .. Len(t)
    BY LenProperties
  <2>2. /\ r \in Seq(S) /\ Len(r) = Len(t) - k
        /\ \A m \in 1 .. Len(t) - k : r[m] = t[k + m]
    BY <2>1, RestProperties
  <2> HIDE DEF r
  <2>3. DOMAIN r = 1 .. Len(r)
    BY <2>2, LenProperties
  <2> QED
    BY <2>1, <2>2, <2>3
<1>2. v = U(k) + 1 /\ v \in Int /\ v # v - 1 /\ U(k) \in Int
  <2>1. /\ U(k) \in Int
        /\ U(k + 1) = U(k) + (IF Is(t[k + 1], open) THEN 1 ELSE 0)
                           - (IF Is(t[k + 1], close) THEN 1 ELSE 0)
    BY UnclosedStep
  <2>2. ~Is(t[k + 1], close)
    BY DEF Is
  <2> QED
    BY <2>1, <2>2
<1>3. \A m \in 0 .. Len(t) - k : Unclosed(r, m, open, close) = U(k + m) - U(k) /\ U(k + m) \in Int
  <2>1. ASSUME NEW m \in 0 .. Len(t) - k
        PROVE  Unclosed(r, m, open, close) = U(k + m) - U(k) /\ U(k + m) \in Int
    <3>1. \A c : Occurs(r, m, c) = Occurs(t, k + m, c) - Occurs(t, k, c)
      BY <1>1, OccursOfRest
    <3>2. \A c : Occurs(t, k + m, c) \in Nat /\ Occurs(t, k, c) \in Nat
      BY OccursStep
    <3> QED
      BY <3>1, <3>2 DEF Unclosed
  <2> QED
    BY <2>1
<1> HIDE DEF U, v
<1>4. /\ C \in SUBSET Nat /\ A \in SUBSET Nat /\ \A q \in A : q >= k /\ q >= 1
      /\ \A m \in C : m \in 1 .. Len(t) - k
  BY <1>1 DEF Within, AheadAt
<1>5. ASSUME NEW m \in 1 .. Len(t) - k
      PROVE  m \in C <=> k + m \in A
  <2>1. /\ Is(r[m], sep) <=> Is(t[k + m], sep)
        /\ Unclosed(r, m, open, close) = 1 <=> U(k + m) = v
    <3>1. m \in 0 .. Len(t) - k
      BY <1>1
    <3> QED
      BY <1>1, <1>2, <1>3, <3>1
  <2>2. ASSUME NEW s \in 1 .. m
        PROVE  Unclosed(r, s, open, close) # 0 <=> U(k + s) # v - 1
    <3>1. s \in 0 .. Len(t) - k
      BY <1>1
    <3> QED
      BY <1>2, <1>3, <3>1
  <2>3. (\A s \in 1 .. m : U(k + s) # v - 1) <=> (\A s \in k + 1 .. k + m : U(s) # v - 1)
    <3>1. \A s \in k + 1 .. k + m : s - k \in 1 .. m /\ k + (s - k) = s
      BY <1>1
    <3>2. \A s \in 1 .. m : k + s \in k + 1 .. k + m
      BY <1>1
    <3> QED
      BY <3>1, <3>2
  <2>4. m \in Within(r, open, close) <=> \A s \in 1 .. m : Unclosed(r, s, open, close) # 0
    BY <1>1 DEF Within
  <2>5. k + m \in A <=> /\ Is(t[k + m], sep)
                        /\ U(k + m) = v
                        /\ \A s \in k + 1 .. k + m : U(s) # v - 1
    <3>1. k + m \in k + 1 .. Len(t)
      BY <1>1
    <3> QED
      BY <3>1 DEF AheadAt, U
  <2>6. m \in C <=> m \in Within(r, open, close) /\ Is(r[m], sep) /\ Unclosed(r, m, open, close) = 1
    OBVIOUS
  <2> HIDE DEF A, C
  <2> QED
    BY <2>1, <2>2, <2>3, <2>4, <2>5, <2>6
<1>6. \A m \in Nat : m \in C <=> k + m \in A
  <2>1. ASSUME NEW m \in Nat, k + m \in A
        PROVE  m \in 1 .. Len(t) - k
    <3>1. k + m \in k + 1 .. Len(t)
      BY <2>1 DEF AheadAt
    <3> QED
      BY <1>1, <3>1
  <2> HIDE DEF A, C
  <2> QED
    BY <1>4, <1>5, <2>1
<1>7. IsFiniteSet(C)
  <2>1. IsFiniteSet(1 .. Len(t) - k)
    BY <1>1, FS_Interval
  <2>2. C \in SUBSET (1 .. Len(t) - k)
    BY <1>4
  <2> HIDE DEF C
  <2> QED
    BY <2>1, <2>2, FS_Subset
<1>8. Count(r, open, close, sep) = Cardinality(C) /\ Ahead(t, k, open, close, sep, v) = Cardinality(A)
  BY DEF Count, Ahead
<1> HIDE DEF A, C
<1>9. Cardinality(A) = Cardinality(C)
  BY <1>4, <1>6, <1>7, ShiftedCard
<1>10. Ahead(t, k, open, close, sep, v) = Ahead(t, k + 1, open, close, sep, v) + 0
  BY <1>1, <1>2, AheadStep DEF Is, U, v
<1>11. Ahead(t, k + 1, open, close, sep, v) \in Nat
  BY <1>1, AheadIsNat
<1>12. Count(r, open, close, sep) = Ahead(t, k + 1, open, close, sep, v)
  BY <1>8, <1>9, <1>10, <1>11
<1> QED
  BY <1>12 DEF r, v, U

\* From n to m tokens d brackets of a kind are opened, one after the other, and
\* x separators are passed at the level before.
KindMoves(t, n, m, open, close, sep, d, x) ==
  LET U(q) == Unclosed(t, q, open, close)
  IN  /\ U(n) \in Int
      /\ U(m) = U(n) + d
      /\ \A v \in Int : v <= U(n) /\ v <= U(m) =>
           Ahead(t, n, open, close, sep, v) =
             Ahead(t, m, open, close, sep, v) + (IF v = U(n) THEN x ELSE 0)

\* How much a token opens of a kind.
Rise(token, open, close) ==
  (IF Is(token, open) THEN 1 ELSE 0) - (IF Is(token, close) THEN 1 ELSE 0)

LEMMA KindMove ==
  ASSUME NEW t, Len(t) \in Nat, NEW n \in Nat, n < Len(t),
         NEW open, NEW close, NEW sep, open # sep, close # sep
  PROVE  /\ KindMoves(t, n, n + 1, open, close, sep, Rise(t[n + 1], open, close),
                   IF Is(t[n + 1], sep) THEN 1 ELSE 0)
         /\ Unclosed(t, n + 1, open, close) < Unclosed(t, n, open, close) =>
              Ahead(t, n, open, close, sep, Unclosed(t, n, open, close)) = 0
<1> DEFINE U(q) == Unclosed(t, q, open, close)
           d == Rise(t[n + 1], open, close)
<1>1. U(n) \in Int /\ d \in -1 .. 1 /\ U(n + 1) = U(n) + d /\ (Is(t[n + 1], sep) => d = 0)
  <2>1. /\ U(n) \in Int
        /\ U(n + 1) = U(n) + (IF Is(t[n + 1], open) THEN 1 ELSE 0)
                           - (IF Is(t[n + 1], close) THEN 1 ELSE 0)
    BY UnclosedStep
  <2> QED
    BY <2>1 DEF Rise, Is
<1>2. \A v \in Int :
        /\ U(n + 1) = v - 1 => Ahead(t, n, open, close, sep, v) = 0
        /\ U(n + 1) # v - 1 =>
             Ahead(t, n, open, close, sep, v) =
               Ahead(t, n + 1, open, close, sep, v) +
               (IF Is(t[n + 1], sep) /\ U(n + 1) = v THEN 1 ELSE 0)
  BY AheadStep
<1> HIDE DEF U, d
<1>3. \A v \in Int : v <= U(n) /\ v <= U(n + 1) =>
        Ahead(t, n, open, close, sep, v) =
          Ahead(t, n + 1, open, close, sep, v) +
          (IF v = U(n) THEN (IF Is(t[n + 1], sep) THEN 1 ELSE 0) ELSE 0)
  BY <1>1, <1>2
<1>4. U(n + 1) < U(n) => Ahead(t, n, open, close, sep, U(n)) = 0
  BY <1>1, <1>2
<1> QED
  BY <1>1, <1>3, <1>4 DEF KindMoves, U, d

LEMMA KindMovesOn ==
  ASSUME NEW t, Len(t) \in Nat, NEW n \in Nat, NEW m \in Nat, NEW k \in Nat,
         NEW open, NEW close, NEW sep, NEW d \in Nat, NEW x \in Nat, NEW y \in Nat,
         KindMoves(t, n, m, open, close, sep, 0, x), KindMoves(t, m, k, open, close, sep, d, y)
  PROVE  KindMoves(t, n, k, open, close, sep, d, x + y)
<1> DEFINE U(q) == Unclosed(t, q, open, close)
           A(q, v) == Ahead(t, q, open, close, sep, v)
<1>1. /\ U(n) \in Int /\ U(m) = U(n) + 0
      /\ \A v \in Int : v <= U(n) /\ v <= U(m) =>
           A(n, v) = A(m, v) + (IF v = U(n) THEN x ELSE 0)
  BY DEF KindMoves
<1>2. /\ U(m) \in Int /\ U(k) = U(m) + d
      /\ \A v \in Int : v <= U(m) /\ v <= U(k) =>
           A(m, v) = A(k, v) + (IF v = U(m) THEN y ELSE 0)
  BY DEF KindMoves
<1>3. \A v \in Int : A(k, v) \in Nat
  BY AheadIsNat
<1> HIDE DEF U, A
<1>4. U(m) = U(n) /\ U(k) = U(n) + d
  BY <1>1, <1>2
<1>5. ASSUME NEW v \in Int, v <= U(n), v <= U(k)
      PROVE  A(n, v) = A(k, v) + (IF v = U(n) THEN x + y ELSE 0)
  <2>1. A(n, v) = A(m, v) + (IF v = U(n) THEN x ELSE 0)
    BY <1>1, <1>4, <1>5
  <2>2. A(m, v) = A(k, v) + (IF v = U(n) THEN y ELSE 0)
    BY <1>2, <1>4, <1>5
  <2>3. A(k, v) \in Nat
    BY <1>3
  <2>4. CASE v = U(n)
    BY <2>1, <2>2, <2>3, <2>4
  <2>5. CASE v # U(n)
    BY <2>1, <2>2, <2>3, <2>5
  <2> QED
    BY <2>4, <2>5
<1> QED
  BY <1>1, <1>4, <1>5 DEF KindMoves, U, A

LEMMA RiseOf ==
  ASSUME NEW token, NEW open, NEW close, open # close
  PROVE  /\ Is(token, open) => Rise(token, open, close) = 1
         /\ Is(token, close) => Rise(token, open, close) = -1
         /\ ~Is(token, open) /\ ~Is(token, close) => Rise(token, open, close) = 0
BY DEF Rise, Is

Braces(t, n) == Unclosed(t, n, "{", "}")
Squares(t, n) == Unclosed(t, n, "[", "]")
Colons(t, n, v) == Ahead(t, n, "{", "}", ":", v)
Commas(t, n, v) == Ahead(t, n, "[", "]", ",", v)

\* The same for both kinds.
Moves(t, n, m, b, s, colon, comma) ==
  /\ Braces(t, n) \in Int /\ Squares(t, n) \in Int
  /\ Braces(t, m) = Braces(t, n) + b
  /\ Squares(t, m) = Squares(t, n) + s
  /\ \A v \in Int : v <= Braces(t, n) /\ v <= Braces(t, m) =>
       Colons(t, n, v) = Colons(t, m, v) + (IF v = Braces(t, n) THEN colon ELSE 0)
  /\ \A v \in Int : v <= Squares(t, n) /\ v <= Squares(t, m) =>
       Commas(t, n, v) = Commas(t, m, v) + (IF v = Squares(t, n) THEN comma ELSE 0)

LEMMA BothMove ==
  ASSUME NEW t, NEW n, NEW m, NEW b, NEW s, NEW colon, NEW comma
  PROVE  Moves(t, n, m, b, s, colon, comma) <=>
           /\ KindMoves(t, n, m, "{", "}", ":", b, colon)
           /\ KindMoves(t, n, m, "[", "]", ",", s, comma)
BY Zenon DEF Moves, KindMoves, Braces, Squares, Colons, Commas

LEMMA MovesOn ==
  ASSUME NEW t, Len(t) \in Nat, NEW n \in Nat, NEW m \in Nat, NEW k \in Nat,
         NEW b \in Nat, NEW s \in Nat,
         NEW colon \in Nat, NEW comma \in Nat, NEW x \in Nat, NEW y \in Nat,
         Moves(t, n, m, 0, 0, colon, comma), Moves(t, m, k, b, s, x, y)
  PROVE  Moves(t, n, k, b, s, colon + x, comma + y)
<1>1. /\ KindMoves(t, n, m, "{", "}", ":", 0, colon) /\ KindMoves(t, n, m, "[", "]", ",", 0, comma)
      /\ KindMoves(t, m, k, "{", "}", ":", b, x) /\ KindMoves(t, m, k, "[", "]", ",", s, y)
  BY BothMove, Zenon
<1>2. \A open, close, sep :
        KindMoves(t, n, m, open, close, sep, 0, colon) /\ KindMoves(t, m, k, open, close, sep, b, x)
          => KindMoves(t, n, k, open, close, sep, b, colon + x)
  BY KindMovesOn
<1>3. \A open, close, sep :
        KindMoves(t, n, m, open, close, sep, 0, comma) /\ KindMoves(t, m, k, open, close, sep, s, y)
          => KindMoves(t, n, k, open, close, sep, s, comma + y)
  BY KindMovesOn
<1>4. KindMoves(t, n, k, "{", "}", ":", b, colon + x)
  BY <1>1, <1>2, Zenon
<1>5. KindMoves(t, n, k, "[", "]", ",", s, comma + y)
  BY <1>1, <1>3, Zenon
<1> QED
  BY <1>4, <1>5, BothMove, Zenon

\* One token, by what it begins with.
LEMMA KindMoveOf ==
  ASSUME NEW t, Len(t) \in Nat, NEW n \in Nat, n < Len(t), NEW c, Is(t[n + 1], c),
         NEW open, NEW close, NEW sep, open # close, open # sep, close # sep
  PROVE  /\ c = open => KindMoves(t, n, n + 1, open, close, sep, 1, 0)
         /\ c = close => /\ KindMoves(t, n, n + 1, open, close, sep, -1, 0)
                         /\ Ahead(t, n, open, close, sep, Unclosed(t, n, open, close)) = 0
         /\ c = sep => KindMoves(t, n, n + 1, open, close, sep, 0, 1)
         /\ c # open /\ c # close /\ c # sep => KindMoves(t, n, n + 1, open, close, sep, 0, 0)
<1> DEFINE d == Rise(t[n + 1], open, close)
           x == IF Is(t[n + 1], sep) THEN 1 ELSE 0
<1>1. /\ KindMoves(t, n, n + 1, open, close, sep, d, x)
      /\ Unclosed(t, n + 1, open, close) < Unclosed(t, n, open, close) =>
           Ahead(t, n, open, close, sep, Unclosed(t, n, open, close)) = 0
  BY KindMove
<1>2. /\ Unclosed(t, n, open, close) \in Int
      /\ Unclosed(t, n + 1, open, close) = Unclosed(t, n, open, close) + d
  BY <1>1 DEF KindMoves
<1>3. /\ c = open => d = 1 /\ x = 0
      /\ c = close => d = -1 /\ x = 0
      /\ c = sep => d = 0 /\ x = 1
      /\ c # open /\ c # close /\ c # sep => d = 0 /\ x = 0
  BY RiseOf DEF Is
<1> HIDE DEF d, x
<1> QED
  BY <1>1, <1>2, <1>3

LEMMA TokenMoves ==
  ASSUME NEW t, Len(t) \in Nat, NEW n \in Nat, n < Len(t)
  PROVE  /\ Is(t[n + 1], "{") => Moves(t, n, n + 1, 1, 0, 0, 0)
         /\ Is(t[n + 1], "[") => Moves(t, n, n + 1, 0, 1, 0, 0)
         /\ Is(t[n + 1], "}") => Moves(t, n, n + 1, -1, 0, 0, 0) /\ Colons(t, n, Braces(t, n)) = 0
         /\ Is(t[n + 1], "]") => Moves(t, n, n + 1, 0, -1, 0, 0) /\ Commas(t, n, Squares(t, n)) = 0
         /\ Is(t[n + 1], ":") => Moves(t, n, n + 1, 0, 0, 1, 0)
         /\ Is(t[n + 1], ",") => Moves(t, n, n + 1, 0, 0, 0, 1)
         /\ Is(t[n + 1], "key") => Moves(t, n, n + 1, 0, 0, 0, 0)
         /\ Is(t[n + 1], "value") => Moves(t, n, n + 1, 0, 0, 0, 0)
<1>1. \A c, open, close, sep :
        Is(t[n + 1], c) /\ open # close /\ open # sep /\ close # sep =>
          /\ c = open => KindMoves(t, n, n + 1, open, close, sep, 1, 0)
          /\ c = close => /\ KindMoves(t, n, n + 1, open, close, sep, -1, 0)
                          /\ Ahead(t, n, open, close, sep, Unclosed(t, n, open, close)) = 0
          /\ c = sep => KindMoves(t, n, n + 1, open, close, sep, 0, 1)
          /\ c # open /\ c # close /\ c # sep => KindMoves(t, n, n + 1, open, close, sep, 0, 0)
  BY KindMoveOf
<1>2. ASSUME NEW c, Is(t[n + 1], c)
      PROVE  /\ c = "{" => KindMoves(t, n, n + 1, "{", "}", ":", 1, 0)
             /\ c = "}" => /\ KindMoves(t, n, n + 1, "{", "}", ":", -1, 0)
                           /\ Colons(t, n, Braces(t, n)) = 0
             /\ c = ":" => KindMoves(t, n, n + 1, "{", "}", ":", 0, 1)
             /\ c # "{" /\ c # "}" /\ c # ":" => KindMoves(t, n, n + 1, "{", "}", ":", 0, 0)
  <2>1. "{" # "}" /\ "{" # ":" /\ "}" # ":"
    BY Zenon
  <2> QED
    BY <1>1, <1>2, <2>1, Zenon DEF Colons, Braces
<1>3. ASSUME NEW c, Is(t[n + 1], c)
      PROVE  /\ c = "[" => KindMoves(t, n, n + 1, "[", "]", ",", 1, 0)
             /\ c = "]" => /\ KindMoves(t, n, n + 1, "[", "]", ",", -1, 0)
                           /\ Commas(t, n, Squares(t, n)) = 0
             /\ c = "," => KindMoves(t, n, n + 1, "[", "]", ",", 0, 1)
             /\ c # "[" /\ c # "]" /\ c # "," => KindMoves(t, n, n + 1, "[", "]", ",", 0, 0)
  <2>1. "[" # "]" /\ "[" # "," /\ "]" # ","
    BY Zenon
  <2> QED
    BY <1>1, <1>3, <2>1, Zenon DEF Commas, Squares
<1>4. \A b, s, colon, comma :
        /\ KindMoves(t, n, n + 1, "{", "}", ":", b, colon)
        /\ KindMoves(t, n, n + 1, "[", "]", ",", s, comma)
        => Moves(t, n, n + 1, b, s, colon, comma)
  BY BothMove, Zenon
<1>5. ASSUME Is(t[n + 1], "{")
      PROVE  Moves(t, n, n + 1, 1, 0, 0, 0)
  <2>1. KindMoves(t, n, n + 1, "{", "}", ":", 1, 0)
    BY <1>2, <1>5, Zenon
  <2>2. "{" # "[" /\ "{" # "]" /\ "{" # ","
    BY Zenon
  <2>3. KindMoves(t, n, n + 1, "[", "]", ",", 0, 0)
    BY <1>3, <2>2, <1>5, Zenon
  <2> QED
    BY <1>4, <2>1, <2>3, Zenon
<1>6. ASSUME Is(t[n + 1], "[")
      PROVE  Moves(t, n, n + 1, 0, 1, 0, 0)
  <2>1. "[" # "{" /\ "[" # "}" /\ "[" # ":"
    BY Zenon
  <2>2. KindMoves(t, n, n + 1, "{", "}", ":", 0, 0)
    BY <1>2, <2>1, <1>6, Zenon
  <2>3. KindMoves(t, n, n + 1, "[", "]", ",", 1, 0)
    BY <1>3, <1>6, Zenon
  <2> QED
    BY <1>4, <2>2, <2>3, Zenon
<1>7. ASSUME Is(t[n + 1], "}")
      PROVE  Moves(t, n, n + 1, -1, 0, 0, 0) /\ Colons(t, n, Braces(t, n)) = 0
  <2>1. KindMoves(t, n, n + 1, "{", "}", ":", -1, 0) /\ Colons(t, n, Braces(t, n)) = 0
    BY <1>2, <1>7, Zenon
  <2>2. "}" # "[" /\ "}" # "]" /\ "}" # ","
    BY Zenon
  <2>3. KindMoves(t, n, n + 1, "[", "]", ",", 0, 0)
    BY <1>3, <2>2, <1>7, Zenon
  <2> QED
    BY <1>4, <2>1, <2>3, Zenon
<1>8. ASSUME Is(t[n + 1], "]")
      PROVE  Moves(t, n, n + 1, 0, -1, 0, 0) /\ Commas(t, n, Squares(t, n)) = 0
  <2>1. "]" # "{" /\ "]" # "}" /\ "]" # ":"
    BY Zenon
  <2>2. KindMoves(t, n, n + 1, "{", "}", ":", 0, 0)
    BY <1>2, <2>1, <1>8, Zenon
  <2>3. KindMoves(t, n, n + 1, "[", "]", ",", -1, 0) /\ Commas(t, n, Squares(t, n)) = 0
    BY <1>3, <1>8, Zenon
  <2> QED
    BY <1>4, <2>2, <2>3, Zenon
<1>9. ASSUME Is(t[n + 1], ":")
      PROVE  Moves(t, n, n + 1, 0, 0, 1, 0)
  <2>1. KindMoves(t, n, n + 1, "{", "}", ":", 0, 1)
    BY <1>2, <1>9, Zenon
  <2>2. ":" # "[" /\ ":" # "]" /\ ":" # ","
    BY Zenon
  <2>3. KindMoves(t, n, n + 1, "[", "]", ",", 0, 0)
    BY <1>3, <2>2, <1>9, Zenon
  <2> QED
    BY <1>4, <2>1, <2>3, Zenon
<1>10. ASSUME Is(t[n + 1], ",")
      PROVE  Moves(t, n, n + 1, 0, 0, 0, 1)
  <2>1. "," # "{" /\ "," # "}" /\ "," # ":"
    BY Zenon
  <2>2. KindMoves(t, n, n + 1, "{", "}", ":", 0, 0)
    BY <1>2, <2>1, <1>10, Zenon
  <2>3. KindMoves(t, n, n + 1, "[", "]", ",", 0, 1)
    BY <1>3, <1>10, Zenon
  <2> QED
    BY <1>4, <2>2, <2>3, Zenon
<1>11. ASSUME Is(t[n + 1], "key")
      PROVE  Moves(t, n, n + 1, 0, 0, 0, 0)
  <2>1. "key" # "{" /\ "key" # "}" /\ "key" # ":"
    BY Zenon
  <2>2. KindMoves(t, n, n + 1, "{", "}", ":", 0, 0)
    BY <1>2, <2>1, <1>11, Zenon
  <2>3. "key" # "[" /\ "key" # "]" /\ "key" # ","
    BY Zenon
  <2>4. KindMoves(t, n, n + 1, "[", "]", ",", 0, 0)
    BY <1>3, <2>3, <1>11, Zenon
  <2> QED
    BY <1>4, <2>2, <2>4, Zenon
<1>12. ASSUME Is(t[n + 1], "value")
      PROVE  Moves(t, n, n + 1, 0, 0, 0, 0)
  <2>1. "value" # "{" /\ "value" # "}" /\ "value" # ":"
    BY Zenon
  <2>2. KindMoves(t, n, n + 1, "{", "}", ":", 0, 0)
    BY <1>2, <2>1, <1>12, Zenon
  <2>3. "value" # "[" /\ "value" # "]" /\ "value" # ","
    BY Zenon
  <2>4. KindMoves(t, n, n + 1, "[", "]", ",", 0, 0)
    BY <1>3, <2>3, <1>12, Zenon
  <2> QED
    BY <1>4, <2>2, <2>4, Zenon
<1> QED
  BY <1>5, <1>6, <1>7, <1>8, <1>9, <1>10, <1>11, <1>12, Zenon

\* The room that is counted for the composite whose bracket comes next.
LEMMA RoomAhead ==
  ASSUME NEW S, NEW t \in Seq(S), NEW k \in Nat, k < Len(t)
  PROVE  /\ Is(t[k + 1], "{") =>
              Room(Rest(t, k)) = 1 + Colons(t, k + 1, Braces(t, k + 1))
         /\ Is(t[k + 1], "[") =>
              Room(Rest(t, k)) = 1 + Commas(t, k + 1, Squares(t, k + 1))
<1>1. Head(Rest(t, k)) = t[k + 1]
  BY RestProperties, LenProperties
<1>2. \A open, close, sep :
        open # close /\ open # sep /\ Is(t[k + 1], open) =>
          Count(Rest(t, k), open, close, sep) =
            Ahead(t, k + 1, open, close, sep, Unclosed(t, k + 1, open, close))
  BY CountIsAhead
<1>3. ASSUME Is(t[k + 1], "{")
      PROVE  _jscon_count_property(Rest(t, k)) = Colons(t, k + 1, Braces(t, k + 1))
  <2>1. "{" # "}" /\ "{" # ":"
    BY Zenon
  <2> QED
    BY <1>2, <1>3, <2>1, Zenon DEF _jscon_count_property, Colons, Braces
<1>4. ASSUME Is(t[k + 1], "[")
      PROVE  _jscon_count_element(Rest(t, k)) = Commas(t, k + 1, Squares(t, k + 1))
  <2>1. "[" # "]" /\ "[" # ","
    BY Zenon
  <2> QED
    BY <1>2, <1>4, <2>1, Zenon DEF _jscon_count_element, Commas, Squares
<1>5. Is(t[k + 1], "{") => Room(Rest(t, k)) = 1 + _jscon_count_property(Rest(t, k))
  BY <1>1, Zenon DEF Room
<1>6. Is(t[k + 1], "[") => Room(Rest(t, k)) = 1 + _jscon_count_element(Rest(t, k))
  <2>1. Is(t[k + 1], "[") => ~Is(t[k + 1], "{")
    BY Zenon DEF Is
  <2> QED
    BY <1>1, <2>1, Zenon DEF Room
<1> QED
  BY <1>3, <1>4, <1>5, <1>6, Zenon

------------------------------------------------------------------------------
(* The branches that a comma comes before.                                 *)

\* Following() of the source, read from parents.
FollowingOf(ty, pa, br, a) ==
  {b \in Item :
     /\ ty[b] \in Living /\ a \in Upward(b, pa) /\ b # a
     /\ b # br[pa[b]][1]
     /\ \A e \in Upward(pa[b], pa) \ Upward(a, pa) : ty[e] = "object"}

LEMMA FollowingIsUpward ==
  ASSUME TypeOK, ArraysAgree(type, parent, branch), NEW a \in Item, type[a] \in Living
  PROVE  Following(a) = FollowingOf(type, parent, branch, a)
<1>1. /\ parent \in [Item -> Item \cup {NULL}] /\ branch \in [Item -> Seq(Item)]
  BY DEF TypeOK
<1>2. \A b \in Below(a, branch) : b \in Item /\ type[b] \in Living
  <2>1. \A b \in Below(a, branch) : b \in Item
    BY <1>1, BelowProperties
  <2> QED
    BY <1>1, <2>1, AllAlive
<1>3. \A b \in Item : type[b] \in Living => (b \in Below(a, branch) <=> a \in Upward(b, parent))
  BY <1>1, BelowIsUpward
<1> QED
  BY <1>2, <1>3 DEF Following, FollowingOf

\* Only these branches of a are separated by commas of a's own text, or of the
\* text of objects in it.
Bare(ty, pa, a, p) == \A e \in Upward(p, pa) \ Upward(a, pa) : ty[e] = "object"

\* i, of type t, is born as the last branch of p.
Birth(ty, pa, br, p, i, t, tz, pb, bs) ==
  /\ pa \in [Item -> Item \cup {NULL}] /\ br \in [Item -> Seq(Item)]
  /\ ArraysAgree(ty, pa, br)
  /\ p \in Item /\ ty[p] \in Composite
  /\ i \in Item /\ ty[i] \notin Living
  /\ pa[i] = NULL /\ br[i] = <<>> /\ i \notin Upward(p, pa)
  /\ t \in Living /\ SetAt(ty, tz, i, t)
  /\ pb \in [Item -> Item \cup {NULL}] /\ SetAt(pa, pb, i, p)
  /\ SetAt(br, bs, p, Append(br[p], i))

\* A comma of a, or of an object in it, comes before the new branch.
CommaBefore(ty, pa, br, p, a) == a \in Upward(p, pa) /\ br[p] # <<>> /\ Bare(ty, pa, a, p)

LEMMA BirthChanges ==
  ASSUME NEW ty, NEW pa, NEW br, NEW p, NEW i, NEW t, NEW tz, NEW pb, NEW bs,
         Birth(ty, pa, br, p, i, t, tz, pb, bs)
  PROVE  /\ tz[i] = t /\ \A j \in Item : j # i => tz[j] = ty[j]
         /\ pb[i] = p /\ \A j \in Item : j # i => pb[j] = pa[j]
         /\ bs[p] = Append(br[p], i) /\ \A j \in Item : j # p => bs[j] = br[j]
         /\ \A x \in Item : ty[x] \in Living =>
              /\ x # i
              /\ i \notin Upward(x, pa)
              /\ Upward(x, pb) = Upward(x, pa)
              /\ \A e \in Upward(x, pa) : e \in Item /\ e # i /\ tz[e] = ty[e] /\ ty[e] \in Living
         /\ Upward(i, pb) = {i} \cup Upward(p, pa)
         /\ ty[p] \in Living
<1>0. /\ pa \in [Item -> Item \cup {NULL}] /\ br \in [Item -> Seq(Item)]
      /\ ArraysAgree(ty, pa, br)
      /\ p \in Item /\ ty[p] \in Composite
      /\ i \in Item /\ ty[i] \notin Living
      /\ pa[i] = NULL /\ br[i] = <<>> /\ i \notin Upward(p, pa)
      /\ t \in Living /\ SetAt(ty, tz, i, t)
      /\ pb \in [Item -> Item \cup {NULL}] /\ SetAt(pa, pb, i, p)
      /\ SetAt(br, bs, p, Append(br[p], i))
  BY DEF Birth
<1>1. /\ tz[i] = t /\ \A j \in Item : j # i => tz[j] = ty[j]
      /\ pb[i] = p /\ \A j \in Item : j # i => pb[j] = pa[j]
      /\ bs[p] = Append(br[p], i) /\ \A j \in Item : j # p => bs[j] = br[j]
  BY <1>0 DEF SetAt
<1>2. Joined(pa, pb, i, p)
  BY <1>0, JoinedUpward
<1>3. \A x \in Item : ty[x] \in Living =>
        x # i /\ i \notin Upward(x, pa) /\ Upward(x, pb) = Upward(x, pa)
  <2>1. \A x \in Item : ty[x] \in Living => i \notin Upward(x, pa)
    BY <1>0, AllAlive
  <2> QED
    BY <1>0, <1>2, <2>1 DEF Joined
<1>4. Upward(i, pb) = {i} \cup Upward(p, pa) /\ ty[p] \in Living
  <2>1. Upward(i, pa) = {i}
    BY <1>0, UpwardStep
  <2> QED
    BY <1>0, <1>2, <2>1 DEF Joined, Living
<1>5. \A x \in Item : ty[x] \in Living =>
        \A e \in Upward(x, pa) : e \in Item /\ e # i /\ tz[e] = ty[e] /\ ty[e] \in Living
  <2>1. \A x \in Item : Upward(x, pa) \subseteq Item
    BY <1>0, UpwardProperties
  <2>2. \A x \in Item : ty[x] \in Living => \A e \in Upward(x, pa) : ty[e] \in Living
    BY <1>0, AllAlive
  <2> QED
    BY <1>0, <1>1, <1>3, <2>1, <2>2
<1> QED
  BY <1>1, <1>3, <1>4, <1>5

LEMMA FollowingAfterBirth ==
  ASSUME NEW ty, NEW pa, NEW br, NEW p, NEW i, NEW t, NEW tz, NEW pb, NEW bs,
         Birth(ty, pa, br, p, i, t, tz, pb, bs), NEW a \in Item, ty[a] \in Composite
  PROVE  /\ i \notin FollowingOf(ty, pa, br, a)
         /\ CommaBefore(ty, pa, br, p, a) =>
              FollowingOf(tz, pb, bs, a) = FollowingOf(ty, pa, br, a) \cup {i}
         /\ ~CommaBefore(ty, pa, br, p, a) =>
              FollowingOf(tz, pb, bs, a) = FollowingOf(ty, pa, br, a)
<1> DEFINE F == FollowingOf(ty, pa, br, a)
           G == FollowingOf(tz, pb, bs, a)
<1>0. /\ pa \in [Item -> Item \cup {NULL}] /\ br \in [Item -> Seq(Item)]
      /\ ArraysAgree(ty, pa, br)
      /\ p \in Item /\ ty[p] \in Composite
      /\ i \in Item /\ ty[i] \notin Living
      /\ pa[i] = NULL /\ i \notin Upward(p, pa) /\ t \in Living
  BY DEF Birth
<1>1. /\ tz[i] = t /\ \A j \in Item : j # i => tz[j] = ty[j]
      /\ pb[i] = p /\ \A j \in Item : j # i => pb[j] = pa[j]
      /\ bs[p] = Append(br[p], i) /\ \A j \in Item : j # p => bs[j] = br[j]
  BY BirthChanges
<1>3. \A x \in Item : ty[x] \in Living =>
        x # i /\ i \notin Upward(x, pa) /\ Upward(x, pb) = Upward(x, pa)
  BY BirthChanges
<1>4. Upward(i, pb) = {i} \cup Upward(p, pa) /\ ty[p] \in Living /\ ty[a] \in Living
  BY BirthChanges DEF Living
<1>5. \A x \in Item : ty[x] \in Living => \A e \in Upward(x, pa) : e \in Item /\ e # i /\ tz[e] = ty[e]
  BY BirthChanges
<1>6. ASSUME NEW b \in Item, b # i
      PROVE  b \in G <=> b \in F
  <2>1. CASE ty[b] \notin Living
    BY <1>0, <1>1, <1>6, <2>1 DEF FollowingOf
  <2>2. CASE ty[b] \in Living /\ (a \notin Upward(b, pa) \/ a = b)
    BY <1>3, <2>2 DEF FollowingOf
  <2>3. CASE ty[b] \in Living /\ a \in Upward(b, pa) /\ a # b
    <3>1. pa[b] # NULL /\ pa[b] \in Item
      <4>1. pa[b] = NULL => Upward(b, pa) = {b}
        BY <1>0, UpwardStep
      <4> QED
        BY <1>0, <2>3, <4>1
    <3>2. ty[pa[b]] \in Living /\ b \in ToSet(br[pa[b]])
      BY <1>0, <2>3, <3>1 DEF ArraysAgree, Living
    <3>3. tz[b] = ty[b] /\ pb[b] = pa[b]
      BY <1>1, <1>6
    <3>4. bs[pa[b]][1] = br[pa[b]][1]
      <4>1. CASE pa[b] = p
        <5>1. br[p] \in Seq(Item) /\ br[p] # <<>>
          <6>1. br[p] \in Seq(Item) /\ b \in ToSet(br[p])
            BY <1>0, <3>2, <4>1
          <6> QED
            BY <6>1, EmptySeq, LenProperties DEF ToSet
        <5> DEFINE s == br[p]
        <5>2. s \in Seq(Item) /\ s # <<>>
          BY <5>1
        <5> HIDE DEF s
        <5>3. Append(s, i)[1] = s[1]
          BY <5>2, EmptySeq, LenProperties, AppendProperties
        <5> QED
          BY <1>1, <4>1, <5>3 DEF s
      <4> QED
        BY <1>1, <3>1, <4>1
    <3>5. Upward(pa[b], pb) = Upward(pa[b], pa) /\ Upward(a, pb) = Upward(a, pa) /\ Upward(b, pb) = Upward(b, pa)
      BY <1>3, <1>4, <2>3, <3>1, <3>2
    <3>6. \A e \in Upward(pa[b], pa) : tz[e] = ty[e]
      BY <1>5, <3>1, <3>2
    <3> QED
      BY <2>3, <3>3, <3>4, <3>5, <3>6 DEF FollowingOf
  <2> QED
    BY <2>1, <2>2, <2>3
<1>7. i \notin F
  BY <1>0 DEF FollowingOf
<1>8. i \in G <=> CommaBefore(ty, pa, br, p, a)
  <2>1. a # i
    BY <1>3, <1>4
  <2>2. a \in Upward(i, pb) <=> a \in Upward(p, pa)
    BY <1>4, <2>1
  <2>3. i # bs[p][1] <=> br[p] # <<>>
    <3>1. \A c \in ToSet(br[p]) : c # i
      BY <1>0, <1>4 DEF ArraysAgree
    <3> DEFINE s == br[p]
    <3>2. s \in Seq(Item) /\ \A c \in ToSet(s) : c # i
      BY <1>0, <3>1
    <3> HIDE DEF s
    <3>3. i # Append(s, i)[1] <=> s # <<>>
      <4>1. Len(s) \in Nat /\ DOMAIN s = 1 .. Len(s)
        BY <3>2, LenProperties
      <4>2. CASE s = <<>>
        BY <4>2
      <4>3. CASE s # <<>>
        <5>1. 1 \in DOMAIN s /\ Append(s, i)[1] = s[1]
          BY <3>2, <4>1, <4>3, EmptySeq, AppendProperties
        <5>2. s[1] \in ToSet(s)
          BY <5>1 DEF ToSet
        <5> QED
          BY <3>2, <4>3, <5>1, <5>2
      <4> QED
        BY <4>2, <4>3
    <3> QED
      BY <1>1, <3>3 DEF s
  <2>4. (\A e \in Upward(p, pb) \ Upward(a, pb) : tz[e] = "object") <=> Bare(ty, pa, a, p)
    <3>1. Upward(p, pb) = Upward(p, pa) /\ Upward(a, pb) = Upward(a, pa)
      BY <1>0, <1>3, <1>4
    <3>2. \A e \in Upward(p, pa) : tz[e] = ty[e]
      BY <1>0, <1>4, <1>5
    <3> QED
      BY <3>1, <3>2 DEF Bare
  <2>5. tz[i] \in Living /\ pb[i] = p
    BY <1>0, <1>1
  <2> QED
    BY <1>0, <2>1, <2>2, <2>3, <2>4, <2>5 DEF FollowingOf, CommaBefore
<1>9. F \subseteq Item /\ G \subseteq Item
  BY DEF FollowingOf
<1> HIDE DEF F, G
<1>10. i \in G => G = F \cup {i}
  BY <1>6, <1>9
<1>11. ASSUME i \notin G PROVE G = F
  <2>1. \A b : b \in G <=> b \in F
    BY <1>6, <1>7, <1>9, <1>11
  <2> QED
    BY <2>1
<1> QED
  BY <1>7, <1>8, <1>10, <1>11 DEF F, G

LEMMA FollowingIsFinite ==
  ASSUME IsFiniteSet(Item), NEW ty, NEW pa, NEW br, NEW a
  PROVE  IsFiniteSet(FollowingOf(ty, pa, br, a)) /\ Cardinality(FollowingOf(ty, pa, br, a)) \in Nat
<1> DEFINE F == FollowingOf(ty, pa, br, a)
<1>1. F \in SUBSET Item
  BY DEF FollowingOf
<1> HIDE DEF F
<1>2. IsFiniteSet(F) /\ Cardinality(F) \in Nat
  BY <1>1, FS_Subset, FS_CardinalityType
<1> QED
  BY <1>2 DEF F

LEMMA FollowingGrows ==
  ASSUME IsFiniteSet(Item),
         NEW ty, NEW pa, NEW br, NEW p, NEW i, NEW t, NEW tz, NEW pb, NEW bs,
         Birth(ty, pa, br, p, i, t, tz, pb, bs),
         NEW a \in Item, ty[a] \in Composite
  PROVE  /\ CommaBefore(ty, pa, br, p, a) =>
              Cardinality(FollowingOf(tz, pb, bs, a)) = Cardinality(FollowingOf(ty, pa, br, a)) + 1
         /\ ~CommaBefore(ty, pa, br, p, a) =>
              Cardinality(FollowingOf(tz, pb, bs, a)) = Cardinality(FollowingOf(ty, pa, br, a))
<1> DEFINE F == FollowingOf(ty, pa, br, a)
           G == FollowingOf(tz, pb, bs, a)
<1>1. /\ i \notin F
      /\ CommaBefore(ty, pa, br, p, a) => G = F \cup {i}
      /\ ~CommaBefore(ty, pa, br, p, a) => G = F
  BY FollowingAfterBirth
<1>2. IsFiniteSet(F)
  BY FollowingIsFinite
<1> HIDE DEF F, G
<1>3. Cardinality(F \cup {i}) = Cardinality(F) + 1
  BY <1>1, <1>2, FS_AddElement
<1> QED
  BY <1>1, <1>3 DEF F, G

------------------------------------------------------------------------------
(* The composites that are open, and what is ahead of them.                *)

\* The bracket that opens a composite of type t.
OpensAs(t, token) ==
  /\ t = "object" => Is(token, "{")
  /\ t = "array" => Is(token, "[")

\* It was read, at level v, and nothing below that level since.
Opened(t, v, tx, n) ==
  \E m \in 1 .. n : /\ OpensAs(t, tx[m])
                    /\ Level(tx, m) = v
                    /\ \A s \in m .. n : Level(tx, s) >= v

\* One bracket for each composite.
OneMore(ty, pa, vo, va, a) ==
  pa[a] # NULL =>
    /\ vo[a] = vo[pa[a]] + (IF ty[a] = "object" THEN 1 ELSE 0)
    /\ va[a] = va[pa[a]] + (IF ty[a] = "object" THEN 0 ELSE 1)

\* c is in a.
Nested(ty, pa, vo, va, c, a) ==
  /\ vo[a] <= vo[c] /\ va[a] <= va[c]
  /\ a # c /\ ty[c] = "object" => vo[a] < vo[c]
  /\ va[a] = va[c] <=> Bare(ty, pa, a, c)

\* The room of a: for what it has, and for what is ahead of it.
Counted(ty, pa, br, ca, tx, n, vo, va, a) ==
  /\ ty[a] = "object" => ca[a] = 1 + Len(br[a]) + Colons(tx, n, vo[a])
  /\ ty[a] = "array" =>
       /\ ca[a] = 1 + Cardinality(FollowingOf(ty, pa, br, a)) + Commas(tx, n, va[a])
       /\ Len(br[a]) <= 1 + Cardinality(FollowingOf(ty, pa, br, a))

\* The loop is at p, n tokens of tx are read, and vo[a] braces and va[a] square
\* brackets were open when a was.
Bracketed(ty, pa, br, ca, tx, p, n, vo, va) ==
  /\ vo \in [Item -> Int] /\ va \in [Item -> Int]
  /\ vo[p] = Braces(tx, n) /\ va[p] = Squares(tx, n)
  /\ \A a \in Upward(p, pa) :
       /\ Opened(ty[a], vo[a] + va[a], tx, n)
       /\ OneMore(ty, pa, vo, va, a)
       /\ Counted(ty, pa, br, ca, tx, n, vo, va, a)
  /\ \A c \in Upward(p, pa) : \A a \in Upward(c, pa) : Nested(ty, pa, vo, va, c, a)
  /\ br[p] = <<>> => OpensAs(ty[p], tx[n])
  /\ br[p] # <<>> => EndsValue(tx[n])

\* A composite that is closed.
Fits(ty, pa, br, ca, a) ==
  /\ ty[a] = "object" => ca[a] = 1 + Len(br[a])
  /\ ty[a] = "array" => ca[a] = 1 + Cardinality(FollowingOf(ty, pa, br, a))

LEMMA LevelIsBoth ==
  ASSUME NEW tx, NEW n
  PROVE  Level(tx, n) = Braces(tx, n) + Squares(tx, n)
BY Zenon DEF Level, Braces, Squares

LEMMA OpenedStays ==
  ASSUME NEW t, NEW v \in Int, NEW tx, NEW n \in Nat, Opened(t, v, tx, n),
         NEW m \in Nat, n <= m, \A s \in n .. m : Level(tx, s) >= v
  PROVE  Opened(t, v, tx, m)
<1>1. PICK r \in 1 .. n : /\ OpensAs(t, tx[r])
                          /\ Level(tx, r) = v
                          /\ \A s \in r .. n : Level(tx, s) >= v
  BY DEF Opened
<1>2. r \in 1 .. m /\ \A s \in r .. m : s \in r .. n \/ s \in n .. m
  OBVIOUS
<1> QED
  BY <1>1, <1>2 DEF Opened

LEMMA OpenedNow ==
  ASSUME NEW t, NEW tx, NEW n \in Nat, n >= 1, OpensAs(t, tx[n]), Level(tx, n) \in Int
  PROVE  Opened(t, Level(tx, n), tx, n)
<1>1. n \in 1 .. n /\ \A s \in n .. n : s = n
  OBVIOUS
<1> QED
  BY <1>1 DEF Opened

\* A closed composite stays as it is when a branch is born elsewhere.
LEMMA FitsStay ==
  ASSUME IsFiniteSet(Item),
         NEW ty, NEW pa, NEW br, NEW p, NEW i, NEW t, NEW tz, NEW pb, NEW bs,
         Birth(ty, pa, br, p, i, t, tz, pb, bs),
         NEW a \in Item, ty[a] \in Composite, a \notin Upward(p, pa),
         NEW ca, NEW cb, cb[a] = ca[a], Fits(ty, pa, br, ca, a)
  PROVE  Fits(tz, pb, bs, cb, a)
<1>1. Cardinality(FollowingOf(tz, pb, bs, a)) = Cardinality(FollowingOf(ty, pa, br, a))
  BY FollowingGrows DEF CommaBefore
<1>2. a # i /\ a # p
  BY UpwardProperties DEF Birth, Living
<1>3. tz[a] = ty[a] /\ bs[a] = br[a]
  BY <1>2, BirthChanges
<1> QED
  BY <1>1, <1>3 DEF Fits

\* From n to m tokens the loop at p reads a branch: a comma, if it is not the
\* first, a colon after its key, and what opens b braces and s square brackets.
BranchRead(ty, br, tx, p, n, m, b, s) ==
  /\ n \in Nat /\ m \in Nat /\ n < m /\ b \in Nat /\ s \in Nat
  /\ Len(tx) \in Nat
  /\ Moves(tx, n, m, b, s, IF ty[p] = "object" THEN 1 ELSE 0, IF br[p] = <<>> THEN 0 ELSE 1)
  /\ \A q \in n .. m : Level(tx, q) >= Level(tx, n)

\* The branch is one more, its separator one less ahead.
LEMMA CountedAfterBirth ==
  ASSUME IsFiniteSet(Item),
         NEW ty, NEW pa, NEW br, NEW p, NEW i, NEW t, NEW tz, NEW pb, NEW bs,
         Birth(ty, pa, br, p, i, t, tz, pb, bs),
         NEW ca, NEW tx, NEW n, NEW vo, NEW va, Bracketed(ty, pa, br, ca, tx, p, n, vo, va),
         NEW m, NEW b, NEW s, BranchRead(ty, br, tx, p, n, m, b, s),
         NEW a \in Upward(p, pa), NEW cb, cb[a] = ca[a],
         NEW wo, wo[a] = vo[a], NEW wa, wa[a] = va[a]
  PROVE  Counted(tz, pb, bs, cb, tx, m, wo, wa, a)
<1> DEFINE colon == IF ty[p] = "object" THEN 1 ELSE 0
           comma == IF br[p] = <<>> THEN 0 ELSE 1
<1>1. /\ pa \in [Item -> Item \cup {NULL}] /\ br \in [Item -> Seq(Item)]
      /\ ArraysAgree(ty, pa, br) /\ p \in Item /\ ty[p] \in Composite /\ i \in Item
  BY DEF Birth
<1>2. /\ n \in Nat /\ m \in Nat /\ b \in Nat /\ s \in Nat /\ Len(tx) \in Nat
      /\ Moves(tx, n, m, b, s, colon, comma)
  BY DEF BranchRead
<1>3. /\ vo \in [Item -> Int] /\ va \in [Item -> Int]
      /\ vo[p] = Braces(tx, n) /\ va[p] = Squares(tx, n)
      /\ Counted(ty, pa, br, ca, tx, n, vo, va, a)
      /\ Nested(ty, pa, vo, va, p, a)
  BY <1>1, UpwardProperties DEF Bracketed
<1>4. a \in Item /\ ty[a] \in Composite /\ tz[a] = ty[a] /\ a # i
  <2>1. a \in Item /\ ty[a] \in Composite
    BY <1>1, UpwardComposite
  <2>2. a # i
    BY <2>1 DEF Birth, Living
  <2>3. \A j \in Item : j # i => tz[j] = ty[j]
    BY BirthChanges
  <2> QED
    BY <2>1, <2>2, <2>3
<1>5. br[a] \in Seq(Item) /\ Len(br[a]) \in Nat /\ Len(bs[a]) = Len(br[a]) + (IF a = p THEN 1 ELSE 0)
  <2>1. bs[p] = Append(br[p], i) /\ (a # p => bs[a] = br[a])
    BY <1>4, BirthChanges
  <2>2. br[a] \in Seq(Item)
    BY <1>1, <1>4
  <2> DEFINE r == br[a]
  <2>3. r \in Seq(Item) /\ (a = p => bs[a] = Append(r, i)) /\ (a # p => bs[a] = r)
    BY <2>1, <2>2
  <2> HIDE DEF r
  <2>4. Len(r) \in Nat /\ Len(Append(r, i)) = Len(r) + 1
    BY <1>1, <2>3, LenProperties, AppendProperties
  <2>5. Len(bs[a]) = Len(r) + (IF a = p THEN 1 ELSE 0)
    BY <2>3, <2>4
  <2> QED
    BY <2>3, <2>4, <2>5 DEF r
<1>6. vo[a] \in Int /\ va[a] \in Int /\ vo[a] <= vo[p] /\ va[a] <= va[p]
  BY <1>3, <1>4 DEF Nested
<1>7. ASSUME ty[a] = "object"
      PROVE  cb[a] = 1 + Len(bs[a]) + Colons(tx, m, wo[a])
  <2>1. vo[a] <= Braces(tx, n) /\ vo[a] <= Braces(tx, m)
    BY <1>2, <1>3, <1>6 DEF Moves
  <2>2. Colons(tx, n, vo[a]) = Colons(tx, m, vo[a]) + (IF vo[a] = Braces(tx, n) THEN colon ELSE 0)
    BY <1>2, <1>6, <2>1 DEF Moves
  <2>3. Colons(tx, m, vo[a]) \in Nat
    BY <1>2, AheadIsNat DEF Colons
  <2>4. ca[a] = 1 + Len(br[a]) + Colons(tx, n, vo[a])
    BY <1>3, <1>7 DEF Counted
  <2>5. (IF vo[a] = Braces(tx, n) THEN colon ELSE 0) = (IF a = p THEN 1 ELSE 0)
    <3>1. CASE a = p
      BY <1>3, <1>7, <3>1
    <3>2. CASE a # p /\ ty[p] = "object"
      BY <1>3, <1>6, <3>2 DEF Nested
    <3>3. CASE a # p /\ ty[p] # "object"
      BY <3>3
    <3> QED
      BY <3>1, <3>2, <3>3
  <2>6. Colons(tx, n, vo[a]) = Colons(tx, m, vo[a]) + (IF a = p THEN 1 ELSE 0)
    BY <2>2, <2>5
  <2> DEFINE k == Colons(tx, m, vo[a])
             x == IF a = p THEN 1 ELSE 0
             q == Len(br[a])
             r == Len(bs[a])
  <2>7. Colons(tx, m, wo[a]) = k /\ k \in Nat /\ x \in Nat /\ q \in Nat
    BY <1>5, <2>3
  <2>8. cb[a] = 1 + q + (k + x) /\ r = q + x
    BY <1>5, <2>4, <2>6
  <2> HIDE DEF k, x, q, r
  <2>9. cb[a] = 1 + r + k
    BY <2>7, <2>8
  <2> QED
    BY <2>7, <2>9 DEF r
<1>8. ASSUME ty[a] = "array"
      PROVE  /\ cb[a] = 1 + Cardinality(FollowingOf(tz, pb, bs, a)) + Commas(tx, m, wa[a])
             /\ Len(bs[a]) <= 1 + Cardinality(FollowingOf(tz, pb, bs, a))
  <2> DEFINE C == Cardinality(FollowingOf(ty, pa, br, a))
             D == Cardinality(FollowingOf(tz, pb, bs, a))
             x == IF CommaBefore(ty, pa, br, p, a) THEN 1 ELSE 0
  <2>1. va[a] <= Squares(tx, n) /\ va[a] <= Squares(tx, m)
    BY <1>2, <1>3, <1>6 DEF Moves
  <2>2. Commas(tx, n, va[a]) = Commas(tx, m, va[a]) + (IF va[a] = Squares(tx, n) THEN comma ELSE 0)
    BY <1>2, <1>6, <2>1 DEF Moves
  <2>3. Commas(tx, m, va[a]) \in Nat /\ C \in Nat
    BY <1>2, AheadIsNat, FollowingIsFinite DEF Commas
  <2>4. ca[a] = 1 + C + Commas(tx, n, va[a]) /\ Len(br[a]) <= 1 + C
    BY <1>3, <1>8 DEF Counted
  <2>5. D = C + x
    <3>1. /\ CommaBefore(ty, pa, br, p, a) => D = C + 1
          /\ ~CommaBefore(ty, pa, br, p, a) => D = C
      BY <1>4, FollowingGrows
    <3> QED
      BY <2>3, <3>1
  <2>6. (IF va[a] = Squares(tx, n) THEN comma ELSE 0) = x
    <3>1. va[a] = Squares(tx, n) <=> Bare(ty, pa, a, p)
      BY <1>3 DEF Nested
    <3>2. CommaBefore(ty, pa, br, p, a) <=> br[p] # <<>> /\ Bare(ty, pa, a, p)
      BY DEF CommaBefore
    <3> QED
      BY <3>1, <3>2
  <2>7. a = p => br[p] = <<>> \/ x = 1
    <3>1. Bare(ty, pa, p, p)
      BY DEF Bare
    <3> QED
      BY <3>1 DEF CommaBefore
  <2>8. br[p] = <<>> => Len(br[p]) = 0
    OBVIOUS
  <2>9. x \in 0 .. 1 /\ Commas(tx, n, va[a]) = Commas(tx, m, va[a]) + x
    BY <2>2, <2>6
  <2> HIDE DEF C, D, x
  <2>10. cb[a] = 1 + D + Commas(tx, m, wa[a])
    BY <2>3, <2>4, <2>5, <2>9
  <2>11. Len(bs[a]) <= 1 + D
    <3>1. CASE a # p
      BY <1>5, <2>3, <2>4, <2>5, <2>9, <3>1
    <3>2. CASE a = p /\ x = 1
      BY <1>5, <2>3, <2>4, <2>5, <3>2
    <3>3. CASE a = p /\ br[p] = <<>>
      BY <1>5, <2>3, <2>5, <2>8, <2>9, <3>3
    <3> QED
      BY <2>7, <3>1, <3>2, <3>3
  <2> QED
    BY <2>10, <2>11 DEF D
<1> QED
  BY <1>4, <1>7, <1>8 DEF Counted

\* Nothing else changes for what was open.
LEMMA OpenAfterBirth ==
  ASSUME IsFiniteSet(Item),
         NEW ty, NEW pa, NEW br, NEW p, NEW i, NEW t, NEW tz, NEW pb, NEW bs,
         Birth(ty, pa, br, p, i, t, tz, pb, bs),
         NEW ca, NEW tx, NEW n, NEW vo, NEW va, Bracketed(ty, pa, br, ca, tx, p, n, vo, va),
         NEW m, NEW b, NEW s, BranchRead(ty, br, tx, p, n, m, b, s),
         NEW cb, \A e \in Upward(p, pa) : cb[e] = ca[e],
         NEW wo, NEW wa, \A e \in Upward(p, pa) : wo[e] = vo[e] /\ wa[e] = va[e]
  PROVE  /\ \A a \in Upward(p, pa) :
              /\ Opened(tz[a], wo[a] + wa[a], tx, m)
              /\ OneMore(tz, pb, wo, wa, a)
              /\ Counted(tz, pb, bs, cb, tx, m, wo, wa, a)
         /\ \A c \in Upward(p, pa) : \A a \in Upward(c, pb) : Nested(tz, pb, wo, wa, c, a)
<1>1. /\ pa \in [Item -> Item \cup {NULL}] /\ br \in [Item -> Seq(Item)]
      /\ ArraysAgree(ty, pa, br) /\ p \in Item /\ ty[p] \in Composite /\ i \in Item
      /\ ty[i] \notin Living
  BY DEF Birth
<1>2. /\ n \in Nat /\ m \in Nat /\ n < m
      /\ \A q \in n .. m : Level(tx, q) >= Level(tx, n)
  BY DEF BranchRead
<1>3. /\ vo \in [Item -> Int] /\ va \in [Item -> Int]
      /\ vo[p] = Braces(tx, n) /\ va[p] = Squares(tx, n)
  BY DEF Bracketed
<1>4. \A a \in Upward(p, pa) :
        /\ a \in Item /\ ty[a] \in Living /\ tz[a] = ty[a] /\ a # i /\ pb[a] = pa[a]
        /\ Upward(a, pb) = Upward(a, pa)
        /\ \A e \in Upward(a, pa) : e \in Upward(p, pa)
  <2>1. \A a \in Upward(p, pa) : a \in Item /\ ty[a] \in Living /\ a # i /\ tz[a] = ty[a]
    BY <1>1, BirthChanges DEF Living
  <2>2. \A a \in Upward(p, pa) : Upward(a, pb) = Upward(a, pa) /\ pb[a] = pa[a]
    BY <2>1, BirthChanges
  <2>3. \A a \in Upward(p, pa) : Upward(a, pa) \subseteq Upward(p, pa)
    BY <1>1, UpwardTransitive
  <2> QED
    BY <2>1, <2>2, <2>3
<1>5. ASSUME NEW a \in Upward(p, pa)
      PROVE  Opened(tz[a], wo[a] + wa[a], tx, m)
  <2> DEFINE v == vo[a] + va[a]
  <2>1. /\ a \in Item /\ vo[a] \in Int /\ va[a] \in Int
        /\ wo[a] + wa[a] = v /\ tz[a] = ty[a]
        /\ vo[p] \in Int /\ va[p] \in Int
    BY <1>1, <1>3, <1>4
  <2>2. Opened(ty[a], v, tx, n)
    BY DEF Bracketed
  <2>3. v <= Level(tx, n)
    <3>1. vo[a] <= vo[p] /\ va[a] <= va[p]
      BY <1>1, UpwardProperties DEF Bracketed, Nested
    <3>2. Level(tx, n) = vo[p] + va[p]
      BY <1>3, LevelIsBoth
    <3> QED
      BY <2>1, <3>1, <3>2
  <2>4. v \in Int /\ Level(tx, n) \in Int
    BY <1>2, <2>1, LevelStep
  <2> HIDE DEF v
  <2>5. \A q \in n .. m : Level(tx, q) >= v
    <3>1. \A q \in n .. m : Level(tx, q) \in Int
      <4>1. \A q \in Nat : Level(tx, q) \in Int
        BY LevelStep
      <4> QED
        BY <1>2, <4>1
    <3> QED
      BY <1>2, <2>3, <2>4, <3>1
  <2>6. Opened(ty[a], v, tx, m)
    BY <1>2, <2>2, <2>4, <2>5, OpenedStays
  <2> QED
    BY <2>1, <2>6
<1>6. ASSUME NEW a \in Upward(p, pa)
      PROVE  OneMore(tz, pb, wo, wa, a)
  <2>1. OneMore(ty, pa, vo, va, a)
    BY DEF Bracketed
  <2>2. pa[a] # NULL => pa[a] \in Upward(p, pa)
    BY <1>1, UpwardProperties
  <2>3. tz[a] = ty[a] /\ pb[a] = pa[a]
    BY <1>4
  <2> QED
    BY <2>1, <2>2, <2>3 DEF OneMore
<1>7. ASSUME NEW a \in Upward(p, pa)
      PROVE  Counted(tz, pb, bs, cb, tx, m, wo, wa, a)
  <2>1. cb[a] = ca[a] /\ wo[a] = vo[a] /\ wa[a] = va[a]
    OBVIOUS
  <2> QED
    BY <2>1, CountedAfterBirth
<1>8. ASSUME NEW c \in Upward(p, pa), NEW a \in Upward(c, pb)
      PROVE  Nested(tz, pb, wo, wa, c, a)
  <2>1. a \in Upward(c, pa) /\ a \in Upward(p, pa) /\ tz[c] = ty[c]
    BY <1>4, <1>8
  <2>2. Nested(ty, pa, vo, va, c, a)
    BY <2>1 DEF Bracketed
  <2>3. Bare(tz, pb, a, c) <=> Bare(ty, pa, a, c)
    <3>1. Upward(c, pb) = Upward(c, pa) /\ Upward(a, pb) = Upward(a, pa)
      BY <1>4, <2>1
    <3>2. \A e \in Upward(c, pa) : tz[e] = ty[e]
      BY <1>4
    <3> QED
      BY <3>1, <3>2 DEF Bare
  <2> QED
    BY <2>1, <2>2, <2>3 DEF Nested
<1> QED
  BY <1>5, <1>6, <1>7, <1>8

\* A primitive is read.
LEMMA BracketedAfterLeaf ==
  ASSUME IsFiniteSet(Item),
         NEW ty, NEW pa, NEW br, NEW p, NEW i, NEW t, NEW tz, NEW pb, NEW bs,
         Birth(ty, pa, br, p, i, t, tz, pb, bs),
         NEW ca, NEW tx, NEW n, NEW vo, NEW va, Bracketed(ty, pa, br, ca, tx, p, n, vo, va),
         NEW m, BranchRead(ty, br, tx, p, n, m, 0, 0), EndsValue(tx[m])
  PROVE  Bracketed(tz, pb, bs, ca, tx, p, m, vo, va)
<1>1. /\ \A a \in Upward(p, pa) :
           /\ Opened(tz[a], vo[a] + va[a], tx, m)
           /\ OneMore(tz, pb, vo, va, a)
           /\ Counted(tz, pb, bs, ca, tx, m, vo, va, a)
      /\ \A c \in Upward(p, pa) : \A a \in Upward(c, pb) : Nested(tz, pb, vo, va, c, a)
  BY OpenAfterBirth
<1>2. /\ vo \in [Item -> Int] /\ va \in [Item -> Int]
      /\ vo[p] = Braces(tx, n) /\ va[p] = Squares(tx, n)
  BY DEF Bracketed
<1>3. vo[p] = Braces(tx, m) /\ va[p] = Squares(tx, m)
  BY <1>2 DEF BranchRead, Moves
<1>0. p \in Item /\ i \in Item /\ br \in [Item -> Seq(Item)]
  BY DEF Birth
<1>4. Upward(p, pb) = Upward(p, pa) /\ bs[p] = Append(br[p], i)
  <2>1. /\ bs[p] = Append(br[p], i) /\ ty[p] \in Living
        /\ \A x \in Item : ty[x] \in Living => Upward(x, pb) = Upward(x, pa)
    BY BirthChanges
  <2> QED
    BY <1>0, <2>1
<1>5. bs[p] # <<>>
  <2>1. bs[p] = Append(br[p], i) /\ br[p] \in Seq(Item) /\ i \in Item
    BY <1>0, <1>4
  <2> DEFINE r == br[p]
  <2>2. bs[p] = Append(r, i) /\ r \in Seq(Item)
    BY <2>1
  <2> HIDE DEF r
  <2>3. Append(r, i) # <<>>
    BY <2>1, <2>2, AppendProperties
  <2> QED
    BY <2>2, <2>3
<1> QED
  BY <1>1, <1>2, <1>3, <1>4, <1>5 DEF Bracketed

\* A bracket opens i.
LEMMA BracketedAfterComposite ==
  ASSUME IsFiniteSet(Item),
         NEW ty, NEW pa, NEW br, NEW p, NEW i, NEW t, NEW tz, NEW pb, NEW bs,
         Birth(ty, pa, br, p, i, t, tz, pb, bs), t \in Composite,
         NEW ca, NEW tx, NEW n, NEW vo, NEW va, Bracketed(ty, pa, br, ca, tx, p, n, vo, va),
         NEW m, BranchRead(ty, br, tx, p, n, m, IF t = "object" THEN 1 ELSE 0,
                                                IF t = "object" THEN 0 ELSE 1),
         OpensAs(t, tx[m]), NEW cb, \A e \in Upward(p, pa) : cb[e] = ca[e],
         t = "object" => cb[i] = 1 + Colons(tx, m, Braces(tx, m)),
         t = "array" => cb[i] = 1 + Commas(tx, m, Squares(tx, m))
  PROVE  \E wo, wa : Bracketed(tz, pb, bs, cb, tx, i, m, wo, wa)
<1> DEFINE wo == [vo EXCEPT ![i] = Braces(tx, m)]
           wa == [va EXCEPT ![i] = Squares(tx, m)]
<1>1. /\ pa \in [Item -> Item \cup {NULL}] /\ br \in [Item -> Seq(Item)]
      /\ ArraysAgree(ty, pa, br) /\ p \in Item /\ ty[p] \in Composite /\ i \in Item
      /\ ty[i] \notin Living /\ br[i] = <<>> /\ i \notin Upward(p, pa)
  BY DEF Birth
<1>2. /\ vo \in [Item -> Int] /\ va \in [Item -> Int]
      /\ vo[p] = Braces(tx, n) /\ va[p] = Squares(tx, n)
      /\ \A a \in Upward(p, pa) : Nested(ty, pa, vo, va, p, a)
  BY <1>1, UpwardProperties DEF Bracketed
<1>3. /\ n \in Nat /\ m \in Nat /\ n < m
      /\ Braces(tx, n) \in Int /\ Squares(tx, n) \in Int
      /\ Braces(tx, m) = Braces(tx, n) + (IF t = "object" THEN 1 ELSE 0)
      /\ Squares(tx, m) = Squares(tx, n) + (IF t = "object" THEN 0 ELSE 1)
  BY DEF BranchRead, Moves
<1>4. Braces(tx, m) \in Int /\ Squares(tx, m) \in Int
  BY <1>3
<1>5. /\ wo \in [Item -> Int] /\ wa \in [Item -> Int]
      /\ wo[i] = Braces(tx, m) /\ wa[i] = Squares(tx, m)
      /\ \A e \in Upward(p, pa) : wo[e] = vo[e] /\ wa[e] = va[e]
  BY <1>1, <1>2, <1>4, UpwardProperties
<1> HIDE DEF wo, wa
<1>6. /\ \A a \in Upward(p, pa) :
           /\ Opened(tz[a], wo[a] + wa[a], tx, m)
           /\ OneMore(tz, pb, wo, wa, a)
           /\ Counted(tz, pb, bs, cb, tx, m, wo, wa, a)
      /\ \A c \in Upward(p, pa) : \A a \in Upward(c, pb) : Nested(tz, pb, wo, wa, c, a)
  BY <1>5, OpenAfterBirth
<1>7. tz[i] = t /\ pb[i] = p /\ Upward(i, pb) = {i} \cup Upward(p, pa) /\ bs[i] = <<>> /\ p \in Upward(p, pa)
  <2>1. p \in Upward(p, pa) /\ i # p
    BY <1>1, UpwardProperties
  <2> QED
    BY <1>1, <2>1, BirthChanges
<1>8. Opened(tz[i], wo[i] + wa[i], tx, m)
  <2>1. Level(tx, m) = wo[i] + wa[i] /\ Level(tx, m) \in Int
    BY <1>4, <1>5, LevelIsBoth
  <2>2. Opened(t, Level(tx, m), tx, m)
    BY <1>3, <2>1, OpenedNow
  <2> QED
    BY <1>7, <2>1, <2>2
<1>9. OneMore(tz, pb, wo, wa, i)
  BY <1>2, <1>3, <1>5, <1>7 DEF OneMore
<1>10. Counted(tz, pb, bs, cb, tx, m, wo, wa, i)
  <2>1. FollowingOf(tz, pb, bs, i) = {}
    <3>1. \A x \in Item : tz[x] \in Living /\ x # i => i \notin Upward(x, pb)
      <4>1. \A x \in Item : ty[x] \in Living => i \notin Upward(x, pa) /\ Upward(x, pb) = Upward(x, pa)
        BY BirthChanges
      <4>2. \A x \in Item : x # i => tz[x] = ty[x]
        BY BirthChanges
      <4> QED
        BY <4>1, <4>2
    <3> QED
      BY <3>1 DEF FollowingOf
  <2>2. Cardinality(FollowingOf(tz, pb, bs, i)) = 0 /\ Len(bs[i]) = 0
    BY <1>7, <2>1, FS_EmptySet
  <2>3. Colons(tx, m, Braces(tx, m)) \in Nat /\ Commas(tx, m, Squares(tx, m)) \in Nat
    BY <1>3, AheadIsNat DEF Colons, Commas, BranchRead
  <2> QED
    BY <1>5, <1>7, <2>2, <2>3 DEF Counted
<1>11. ASSUME NEW a \in Upward(p, pa)
       PROVE  Nested(tz, pb, wo, wa, i, a)
  <2>1. Nested(ty, pa, vo, va, p, a) /\ a \in Item /\ vo[a] \in Int /\ va[a] \in Int
    BY <1>1, <1>2, UpwardProperties
  <2>2. wo[a] = vo[a] /\ wa[a] = va[a] /\ a # i
    BY <1>1, <1>5
  <2>3. wo[a] <= wo[i] /\ wa[a] <= wa[i] /\ (t = "object" => wo[a] < wo[i])
    BY <1>2, <1>3, <1>5, <2>1, <2>2 DEF Nested
  <2>4. wa[a] = wa[i] <=> t = "object" /\ va[a] = va[p]
    <3>1. va[a] <= va[p] /\ va[p] \in Int
      BY <1>2, <1>3, <2>1 DEF Nested
    <3> QED
      BY <1>2, <1>3, <1>5, <2>1, <2>2, <3>1
  <2>5. Bare(tz, pb, a, i) <=> t = "object" /\ Bare(ty, pa, a, p)
    <3>1. Upward(a, pb) = Upward(a, pa) /\ i \notin Upward(a, pa) /\ \A e \in Upward(p, pa) : tz[e] = ty[e]
      <4>1. \A e \in Upward(p, pa) : e \in Item /\ tz[e] = ty[e] /\ ty[e] \in Living
        BY <1>1, BirthChanges DEF Living
      <4> QED
        BY <4>1, BirthChanges
    <3> QED
      BY <1>7, <3>1 DEF Bare
  <2>6. va[a] = va[p] <=> Bare(ty, pa, a, p)
    BY <2>1 DEF Nested
  <2> QED
    BY <1>7, <2>2, <2>3, <2>4, <2>5, <2>6 DEF Nested
<1>12. Nested(tz, pb, wo, wa, i, i)
  <2>1. Bare(tz, pb, i, i)
    BY DEF Bare
  <2> QED
    BY <1>4, <1>5, <2>1 DEF Nested
<1>13. \A c \in Upward(i, pb) : \A a \in Upward(c, pb) : Nested(tz, pb, wo, wa, c, a)
  BY <1>6, <1>7, <1>11, <1>12
<1>14. bs[i] = <<>> => OpensAs(tz[i], tx[m])
  BY <1>7
<1>15. \A a \in Upward(i, pb) :
         /\ Opened(tz[a], wo[a] + wa[a], tx, m)
         /\ OneMore(tz, pb, wo, wa, a)
         /\ Counted(tz, pb, bs, cb, tx, m, wo, wa, a)
  BY <1>6, <1>7, <1>8, <1>9, <1>10
<1>16. Bracketed(tz, pb, bs, cb, tx, i, m, wo, wa)
  BY <1>5, <1>7, <1>13, <1>14, <1>15 DEF Bracketed
<1> QED
  BY <1>16

\* The room that is counted for a composite of type t.
LEMMA RoomOf ==
  ASSUME NEW S, NEW tx \in Seq(S), NEW k \in Nat, k < Len(tx),
         NEW t \in Composite, OpensAs(t, tx[k + 1])
  PROVE  /\ t = "object" => Room(Rest(tx, k)) = 1 + Colons(tx, k + 1, Braces(tx, k + 1))
         /\ t = "array" => Room(Rest(tx, k)) = 1 + Commas(tx, k + 1, Squares(tx, k + 1))
<1>1. /\ Is(tx[k + 1], "{") => Room(Rest(tx, k)) = 1 + Colons(tx, k + 1, Braces(tx, k + 1))
      /\ Is(tx[k + 1], "[") => Room(Rest(tx, k)) = 1 + Commas(tx, k + 1, Squares(tx, k + 1))
  BY RoomAhead
<1> QED
  BY <1>1, Zenon DEF OpensAs

\* Nothing is under an item that has no branches.
LEMMA NothingUnder ==
  ASSUME NEW ty, NEW pa \in [Item -> Item \cup {NULL}], NEW br \in [Item -> Seq(Item)],
         ArraysAgree(ty, pa, br), NEW i \in Item, ty[i] \in Living, br[i] = <<>>,
         NEW x \in Item, ty[x] \in Living, i \in Upward(x, pa)
  PROVE  x = i
<1>1. {i} \in SUBSET Item /\ \A j \in {i} : ToSet(br[j]) \subseteq {i}
  BY DEF ToSet
<1>2. Below(i, br) \subseteq {i}
  BY <1>1, BelowProperties
<1>3. x \in Below(i, br)
  BY BelowIsUpward
<1> QED
  BY <1>2, <1>3

\* The text begins with a bracket that opens the root.
LEMMA BracketedRoot ==
  ASSUME NEW ty, NEW pa \in [Item -> Item \cup {NULL}], NEW br \in [Item -> Seq(Item)],
         ArraysAgree(ty, pa, br),
         NEW i \in Item, ty[i] \in Composite, pa[i] = NULL, br[i] = <<>>,
         NEW tx, Len(tx) \in Nat, OpensAs(ty[i], tx[1]),
         NEW ca, ty[i] = "object" => ca[i] = 1 + Colons(tx, 1, Braces(tx, 1)),
         ty[i] = "array" => ca[i] = 1 + Commas(tx, 1, Squares(tx, 1))
  PROVE  \E vo, va : Bracketed(ty, pa, br, ca, tx, i, 1, vo, va)
<1> DEFINE vo == [a \in Item |-> Braces(tx, 1)]
           va == [a \in Item |-> Squares(tx, 1)]
<1>1. Braces(tx, 1) \in Int /\ Squares(tx, 1) \in Int
  BY UnclosedStep DEF Braces, Squares
<1>2. vo \in [Item -> Int] /\ va \in [Item -> Int] /\ vo[i] = Braces(tx, 1) /\ va[i] = Squares(tx, 1)
  BY <1>1
<1> HIDE DEF vo, va
<1>3. Upward(i, pa) = {i}
  BY UpwardStep
<1>4. Opened(ty[i], vo[i] + va[i], tx, 1)
  <2>1. Level(tx, 1) = vo[i] + va[i] /\ Level(tx, 1) \in Int
    BY <1>1, <1>2, LevelIsBoth
  <2>2. Opened(ty[i], Level(tx, 1), tx, 1)
    BY <2>1, OpenedNow
  <2> QED
    BY <2>1, <2>2
<1>5. OneMore(ty, pa, vo, va, i)
  BY DEF OneMore
<1>6. Counted(ty, pa, br, ca, tx, 1, vo, va, i)
  <2>1. FollowingOf(ty, pa, br, i) = {}
    <3>1. \A x \in Item : ty[x] \in Living /\ i \in Upward(x, pa) => x = i
      BY NothingUnder DEF Living
    <3> QED
      BY <3>1 DEF FollowingOf
  <2>2. Cardinality(FollowingOf(ty, pa, br, i)) = 0 /\ Len(br[i]) = 0
    BY <2>1, FS_EmptySet
  <2>3. Colons(tx, 1, Braces(tx, 1)) \in Nat /\ Commas(tx, 1, Squares(tx, 1)) \in Nat
    BY AheadIsNat DEF Colons, Commas
  <2> QED
    BY <1>2, <2>2, <2>3 DEF Counted
<1>7. Nested(ty, pa, vo, va, i, i)
  <2>1. Bare(ty, pa, i, i)
    BY DEF Bare
  <2> QED
    BY <1>1, <1>2, <2>1 DEF Nested
<1>8. Bracketed(ty, pa, br, ca, tx, i, 1, vo, va)
  BY <1>2, <1>3, <1>4, <1>5, <1>6, <1>7 DEF Bracketed
<1> QED
  BY <1>8

\* The next token closes p.
ClosedNext(ty, tx, p, n) ==
  /\ n \in Nat /\ Len(tx) \in Nat
  /\ Moves(tx, n, n + 1, IF ty[p] = "object" THEN -1 ELSE 0, IF ty[p] = "object" THEN 0 ELSE -1, 0, 0)
  /\ ty[p] = "object" => Colons(tx, n, Braces(tx, n)) = 0
  /\ ty[p] = "array" => Commas(tx, n, Squares(tx, n)) = 0
  /\ EndsValue(tx[n + 1])

\* Nothing is ahead of p then, and its parent goes on.
LEMMA BracketedUp ==
  ASSUME IsFiniteSet(Item),
         NEW ty, NEW pa \in [Item -> Item \cup {NULL}], NEW br \in [Item -> Seq(Item)],
         ArraysAgree(ty, pa, br), NEW p \in Item, ty[p] \in Composite,
         NEW ca, NEW tx, NEW n, NEW vo, NEW va, Bracketed(ty, pa, br, ca, tx, p, n, vo, va),
         ClosedNext(ty, tx, p, n)
  PROVE  /\ Fits(ty, pa, br, ca, p)
         /\ pa[p] # NULL => Bracketed(ty, pa, br, ca, tx, pa[p], n + 1, vo, va)
<1>1. /\ n \in Nat /\ Len(tx) \in Nat
      /\ Braces(tx, n) \in Int /\ Squares(tx, n) \in Int
      /\ Braces(tx, n + 1) = Braces(tx, n) + (IF ty[p] = "object" THEN -1 ELSE 0)
      /\ Squares(tx, n + 1) = Squares(tx, n) + (IF ty[p] = "object" THEN 0 ELSE -1)
      /\ \A v \in Int : v <= Braces(tx, n) /\ v <= Braces(tx, n + 1) =>
           Colons(tx, n, v) = Colons(tx, n + 1, v) + (IF v = Braces(tx, n) THEN 0 ELSE 0)
      /\ \A v \in Int : v <= Squares(tx, n) /\ v <= Squares(tx, n + 1) =>
           Commas(tx, n, v) = Commas(tx, n + 1, v) + (IF v = Squares(tx, n) THEN 0 ELSE 0)
      /\ ty[p] = "object" => Colons(tx, n, Braces(tx, n)) = 0
      /\ ty[p] = "array" => Commas(tx, n, Squares(tx, n)) = 0
      /\ EndsValue(tx[n + 1])
  BY DEF ClosedNext, Moves
<1>2. p \in Upward(p, pa)
  BY UpwardProperties
<1>3. /\ vo \in [Item -> Int] /\ va \in [Item -> Int]
      /\ vo[p] = Braces(tx, n) /\ va[p] = Squares(tx, n)
      /\ \A a \in Upward(p, pa) :
           /\ Opened(ty[a], vo[a] + va[a], tx, n)
           /\ OneMore(ty, pa, vo, va, a)
           /\ Counted(ty, pa, br, ca, tx, n, vo, va, a)
      /\ \A c \in Upward(p, pa) : \A a \in Upward(c, pa) : Nested(ty, pa, vo, va, c, a)
  BY DEF Bracketed
<1>4. Fits(ty, pa, br, ca, p)
  <2>1. Counted(ty, pa, br, ca, tx, n, vo, va, p) /\ Len(br[p]) \in Nat
    BY <1>2, <1>3, LenProperties
  <2>2. Cardinality(FollowingOf(ty, pa, br, p)) \in Nat
    BY FollowingIsFinite
  <2> QED
    BY <1>1, <1>3, <2>1, <2>2 DEF Counted, Fits
<1>5. ASSUME pa[p] # NULL
      PROVE  Bracketed(ty, pa, br, ca, tx, pa[p], n + 1, vo, va)
  <2> DEFINE g == pa[p]
  <2>1. g \in Item /\ g \in Upward(p, pa) /\ Upward(g, pa) \subseteq Upward(p, pa)
    <3>1. g \in Item /\ g \in Upward(p, pa)
      BY <1>2, <1>5, UpwardProperties
    <3> QED
      BY <3>1, UpwardTransitive
  <2>2. /\ vo[p] = vo[g] + (IF ty[p] = "object" THEN 1 ELSE 0)
        /\ va[p] = va[g] + (IF ty[p] = "object" THEN 0 ELSE 1)
        /\ vo[g] \in Int /\ va[g] \in Int
    BY <1>2, <1>3, <1>5, <2>1 DEF OneMore
  <2>3. vo[g] = Braces(tx, n + 1) /\ va[g] = Squares(tx, n + 1)
        /\ vo[g] <= vo[p] /\ va[g] <= va[p]
    BY <1>1, <1>3, <2>2
  <2>4. br[g] # <<>>
    <3>1. p \in ToSet(br[g])
      BY <1>5 DEF ArraysAgree, Living
    <3> QED
      BY <3>1 DEF ToSet
  <2>5. ASSUME NEW a \in Upward(g, pa)
        PROVE  /\ Opened(ty[a], vo[a] + va[a], tx, n + 1)
               /\ OneMore(ty, pa, vo, va, a)
               /\ Counted(ty, pa, br, ca, tx, n + 1, vo, va, a)
    <3>1. /\ a \in Item /\ a \in Upward(p, pa)
          /\ vo[a] \in Int /\ va[a] \in Int
          /\ vo[a] <= vo[g] /\ va[a] <= va[g]
      BY <1>3, <2>1, UpwardTransitive DEF Nested
    <3>2. Opened(ty[a], vo[a] + va[a], tx, n + 1)
      <4> DEFINE v == vo[a] + va[a]
      <4>1. Level(tx, n) = vo[p] + va[p] /\ Level(tx, n + 1) = vo[g] + va[g]
        BY <1>3, <2>3, LevelIsBoth
      <4>2. v \in Int /\ Level(tx, n) >= v /\ Level(tx, n + 1) >= v
        BY <1>3, <2>1, <2>2, <2>3, <3>1, <4>1
      <4>3. Opened(ty[a], v, tx, n)
        BY <1>3, <3>1
      <4> HIDE DEF v
      <4>4. \A s \in n .. n + 1 : Level(tx, s) >= v
        <5>1. \A s \in n .. n + 1 : s = n \/ s = n + 1
          BY <1>1
        <5> QED
          BY <4>2, <5>1
      <4>5. Opened(ty[a], v, tx, n + 1)
        BY <1>1, <4>2, <4>3, <4>4, OpenedStays
      <4> QED
        BY <4>5 DEF v
    <3>3. Colons(tx, n, vo[a]) = Colons(tx, n + 1, vo[a]) + 0 /\ Commas(tx, n, va[a]) = Commas(tx, n + 1, va[a]) + 0
      <4>1. vo[a] <= Braces(tx, n) /\ vo[a] <= Braces(tx, n + 1) /\ va[a] <= Squares(tx, n) /\ va[a] <= Squares(tx, n + 1)
        BY <1>3, <2>1, <2>2, <2>3, <3>1
      <4> QED
        BY <1>1, <3>1, <4>1
    <3>4. Colons(tx, n + 1, vo[a]) \in Nat /\ Commas(tx, n + 1, va[a]) \in Nat
      <4>1. n + 1 \in Nat
        BY <1>1
      <4> QED
        BY <1>1, <4>1, AheadIsNat DEF Colons, Commas
    <3>5. Counted(ty, pa, br, ca, tx, n, vo, va, a)
      BY <1>3, <3>1
    <3>6. Counted(ty, pa, br, ca, tx, n + 1, vo, va, a)
      BY <3>3, <3>4, <3>5 DEF Counted
    <3> QED
      BY <1>3, <3>1, <3>2, <3>6
  <2> QED
    BY <1>1, <1>3, <2>1, <2>3, <2>4, <2>5 DEF Bracketed
<1> QED
  BY <1>4, <1>5

------------------------------------------------------------------------------
(* What comes next in a text of JSON.                                      *)

IsComma(token) == Is(token, ",")
IsColon(token) == Is(token, ":")

\* The bracket that closes a composite of type t.
ClosesAs(t, token) ==
  /\ t = "object" => Is(token, "}")
  /\ t = "array" => Is(token, "]")

\* What a branch of it begins with.
BeginsBranch(t, token) ==
  /\ t = "object" => Is(token, "key")
  /\ t = "array" => BeginsValue(token)

\* What may follow in it.
Follows(t, before, token) ==
  /\ t = "object" => InObject(before, token)
  /\ t = "array" => InArray(before, token)

LEMMA ArrayGrammar ==
  ASSUME NEW x, NEW y, InArray(x, y)
  PROVE  /\ Is(x, "[") => BeginsValue(y) \/ Is(y, "]")
         /\ Is(x, ",") => BeginsValue(y)
         /\ EndsValue(x) => Is(y, ",") \/ Is(y, "]")
<1>1. /\ "[" # "," /\ "[" # "}" /\ "[" # "]" /\ "[" # "value"
      /\ "," # "}" /\ "," # "]" /\ "," # "value"
  BY Zenon
<1> QED
  BY <1>1, Zenon DEF InArray, EndsValue, Closes, Is

LEMMA ObjectGrammar ==
  ASSUME NEW x, NEW y, InObject(x, y)
  PROVE  /\ Is(x, "{") => Is(y, "key") \/ Is(y, "}")
         /\ Is(x, ",") => Is(y, "key")
         /\ Is(x, "key") => Is(y, ":")
         /\ Is(x, ":") => BeginsValue(y)
         /\ EndsValue(x) => Is(y, ",") \/ Is(y, "}")
<1>1. /\ "{" # "," /\ "{" # "}" /\ "{" # "]" /\ "{" # "value" /\ "{" # "key" /\ "{" # ":"
      /\ "," # "}" /\ "," # "]" /\ "," # "value" /\ "," # "key" /\ "," # ":"
      /\ "key" # "}" /\ "key" # "]" /\ "key" # "value" /\ "key" # ":"
      /\ ":" # "}" /\ ":" # "]" /\ ":" # "value"
  BY Zenon
<1> QED
  BY <1>1, Zenon DEF InObject, EndsValue, Closes, Is

LEMMA Grammar ==
  ASSUME NEW t \in Composite, NEW x, NEW y, Follows(t, x, y)
  PROVE  /\ OpensAs(t, x) => ClosesAs(t, y) \/ BeginsBranch(t, y)
         /\ IsComma(x) => BeginsBranch(t, y)
         /\ EndsValue(x) => ClosesAs(t, y) \/ IsComma(y)
         /\ t = "object" /\ Is(x, "key") => IsColon(y)
         /\ t = "object" /\ IsColon(x) => BeginsValue(y)
<1>1. CASE t = "object"
  <2>1. InObject(x, y) /\ t # "array"
    <3>1. "object" # "array"
      OBVIOUS
    <3> QED
      BY <1>1, <3>1 DEF Follows
  <2>2. /\ Is(x, "{") => Is(y, "key") \/ Is(y, "}")
        /\ Is(x, ",") => Is(y, "key")
        /\ Is(x, "key") => Is(y, ":")
        /\ Is(x, ":") => BeginsValue(y)
        /\ EndsValue(x) => Is(y, ",") \/ Is(y, "}")
    BY <2>1, ObjectGrammar, Zenon
  <2> QED
    BY <1>1, <2>1, <2>2, Zenon DEF OpensAs, ClosesAs, BeginsBranch, IsComma, IsColon
<1>2. CASE t = "array"
  <2>1. InArray(x, y) /\ t # "object"
    <3>1. "object" # "array"
      OBVIOUS
    <3> QED
      BY <1>2, <3>1 DEF Follows
  <2>2. /\ Is(x, "[") => BeginsValue(y) \/ Is(y, "]")
        /\ Is(x, ",") => BeginsValue(y)
        /\ EndsValue(x) => Is(y, ",") \/ Is(y, "]")
    BY <2>1, ArrayGrammar, Zenon
  <2> QED
    BY <1>2, <2>1, <2>2, Zenon DEF OpensAs, ClosesAs, BeginsBranch, IsComma
<1> QED
  BY <1>1, <1>2 DEF Composite

LEMMA TokenKinds ==
  ASSUME NEW t \in Composite, NEW y
  PROVE  /\ BeginsBranch(t, y) => ~IsComma(y)
         /\ IsComma(y) => ~Opens(y) /\ ~Closes(y)
         /\ IsColon(y) => ~Opens(y) /\ ~Closes(y)
         /\ ClosesAs(t, y) => Closes(y) /\ EndsValue(y)
         /\ OpensAs(t, y) => Opens(y)
<1>1. /\ "," # "{" /\ "," # "[" /\ "," # "value" /\ "," # "key"
  BY Zenon
<1>2. t = "object" \/ t = "array"
  BY DEF Composite
<1>3. BeginsBranch(t, y) => ~IsComma(y)
  BY <1>1, <1>2, Zenon DEF BeginsBranch, BeginsValue, Opens, IsComma, Is
<1>4. /\ IsComma(y) => ~Opens(y) /\ ~Closes(y)
      /\ IsColon(y) => ~Opens(y) /\ ~Closes(y)
  BY Kinds, Zenon DEF IsComma, IsColon
<1>5. /\ ClosesAs(t, y) => Closes(y) /\ EndsValue(y)
      /\ OpensAs(t, y) => Opens(y)
  BY <1>2, Zenon DEF ClosesAs, OpensAs, Closes, EndsValue, Opens
<1> QED
  BY <1>3, <1>4, <1>5

\* What follows in the innermost composite that is open.
LEMMA JsonFollows ==
  ASSUME NEW tx, Json(tx), NEW n \in 1 .. Len(tx) - 1,
         NEW t \in Composite, Opened(t, Level(tx, n), tx, n)
  PROVE  Follows(t, tx[n], tx[n + 1])
<1>1. PICK m \in 1 .. n : /\ OpensAs(t, tx[m])
                          /\ Level(tx, m) = Level(tx, n)
                          /\ \A s \in m .. n : Level(tx, s) >= Level(tx, n)
  BY DEF Opened
<1>2. Inside(tx, m, n)
  BY <1>1, TokenKinds DEF Inside
<1>3. \/ Is(tx[m], "{") /\ InObject(tx[n], tx[n + 1])
      \/ Is(tx[m], "[") /\ InArray(tx[n], tx[n + 1])
  BY <1>2, Zenon DEF Json
<1>4. "{" # "["
  BY Zenon
<1> QED
  BY <1>1, <1>3, <1>4, Zenon DEF Follows, OpensAs, Is

\* A token that neither opens nor closes is not the last.
LEMMA StepOn ==
  ASSUME NEW tx, WellFormed(tx), NEW n \in Nat, NEW q \in 1 .. Len(tx) - 1, n <= q,
         Steady(tx, n, q), ~Opens(tx[q + 1]), ~Closes(tx[q + 1]),
         NEW t, Opened(t, Level(tx, q), tx, q)
  PROVE  /\ q + 1 \in 1 .. Len(tx) - 1
         /\ Steady(tx, n, q + 1)
         /\ Opened(t, Level(tx, q + 1), tx, q + 1)
<1>1. /\ Len(tx) \in Nat /\ q \in Nat /\ q + 1 \in 1 .. Len(tx)
      /\ Level(tx, q) # 0 /\ Level(tx, q) \in Int
      /\ Level(tx, q + 1) = 0 <=> q + 1 = Len(tx)
  BY TextProperties
<1>2. Level(tx, q + 1) = Level(tx, q)
  BY <1>1, LevelStep
<1>3. Steady(tx, n, q + 1)
  BY <1>1, SteadyStep
<1>4. \A s \in q .. q + 1 : Level(tx, s) >= Level(tx, q)
  <2>1. \A s \in q .. q + 1 : s = q \/ s = q + 1
    BY <1>1
  <2> QED
    BY <1>1, <1>2, <2>1
<1>5. Opened(t, Level(tx, q), tx, q + 1)
  BY <1>1, <1>4, OpenedStays
<1> QED
  BY <1>1, <1>2, <1>3, <1>5

\* What is read when a comma is passed over, if there is one.
PassedTo(tx, n) == IF IsComma(tx[n + 1]) THEN n + 1 ELSE n

LEMMA MovesNot ==
  ASSUME NEW t, NEW n \in Nat, Len(t) \in Nat
  PROVE  Moves(t, n, n, 0, 0, 0, 0)
<1>1. /\ Braces(t, n) \in Int /\ Squares(t, n) \in Int
      /\ \A v \in Int : Colons(t, n, v) \in Nat /\ Commas(t, n, v) \in Nat
  BY UnclosedStep, AheadIsNat DEF Braces, Squares, Colons, Commas
<1>2. \A x \in Int : \A u, v : x = x + (IF u = v THEN 0 ELSE 0) /\ x = x + 0
  OBVIOUS
<1>3. \A v \in Int : Colons(t, n, v) \in Int /\ Commas(t, n, v) \in Int
  <2>1. \A x \in Nat : x \in Int
    OBVIOUS
  <2> QED
    BY <1>1, <2>1, Zenon
<1> QED
  BY <1>1, <1>2, <1>3, Zenon DEF Moves

\* What a comma, a colon and a key move.
LEMMA SeparatorMoves ==
  ASSUME NEW t, Len(t) \in Nat, NEW n \in Nat, n < Len(t)
  PROVE  /\ IsComma(t[n + 1]) => Moves(t, n, n + 1, 0, 0, 0, 1)
         /\ IsColon(t[n + 1]) => Moves(t, n, n + 1, 0, 0, 1, 0)
         /\ Is(t[n + 1], "key") => Moves(t, n, n + 1, 0, 0, 0, 0)
BY TokenMoves, Zenon DEF IsComma, IsColon

\* A comma comes before each branch but the first, and before no other token.
LEMMA CommaRead ==
  ASSUME NEW tx, WellFormed(tx), Json(tx), NEW n \in 1 .. Len(tx) - 1,
         NEW t \in Composite, Opened(t, Level(tx, n), tx, n),
         NEW b, b = <<>> => OpensAs(t, tx[n]), b # <<>> => EndsValue(tx[n]),
         ~ClosesAs(t, tx[n + 1]), NEW q, q = PassedTo(tx, n)
  PROVE  /\ q \in n .. Len(tx) - 1
         /\ Steady(tx, n, q)
         /\ Opened(t, Level(tx, q), tx, q)
         /\ Moves(tx, n, q, 0, 0, 0, IF b = <<>> THEN 0 ELSE 1)
         /\ BeginsBranch(t, tx[q + 1])
<1>1. Len(tx) \in Nat /\ n \in Nat /\ n < Len(tx) /\ Steady(tx, n, n)
  BY TextProperties, SteadyStep
<1>2. Follows(t, tx[n], tx[n + 1])
  BY JsonFollows
<1>3. CASE b = <<>>
  <2>1. BeginsBranch(t, tx[n + 1])
    BY <1>2, <1>3, Grammar
  <2>2. q = n
    BY <2>1, TokenKinds DEF PassedTo
  <2>3. Moves(tx, n, n, 0, 0, 0, 0)
    BY <1>1, MovesNot
  <2> QED
    BY <1>1, <1>3, <2>1, <2>2, <2>3
<1>4. CASE b # <<>>
  <2>1. IsComma(tx[n + 1])
    BY <1>2, <1>4, Grammar
  <2>2. q = n + 1
    BY <2>1 DEF PassedTo
  <2>3. Moves(tx, n, n + 1, 0, 0, 0, 1)
    BY <1>1, <2>1, SeparatorMoves
  <2>4. ~Opens(tx[n + 1]) /\ ~Closes(tx[n + 1])
    BY <2>1, TokenKinds
  <2>5. /\ n + 1 \in 1 .. Len(tx) - 1
        /\ Steady(tx, n, n + 1)
        /\ Opened(t, Level(tx, n + 1), tx, n + 1)
    BY <1>1, <2>4, StepOn
  <2>6. Follows(t, tx[n + 1], tx[n + 1 + 1])
    BY <2>5, JsonFollows
  <2>7. BeginsBranch(t, tx[n + 1 + 1])
    BY <2>1, <2>6, Grammar
  <2> QED
    BY <1>1, <1>4, <2>2, <2>3, <2>5, <2>7
<1> QED
  BY <1>3, <1>4

\* In an object a key and a colon come before the value.
LEMMA PropertyRead ==
  ASSUME NEW tx, WellFormed(tx), Json(tx), NEW n \in Nat, NEW q \in 1 .. Len(tx) - 1, n <= q,
         Steady(tx, n, q), Opened("object", Level(tx, q), tx, q),
         NEW x \in Nat, Moves(tx, n, q, 0, 0, 0, x), Is(tx[q + 1], "key")
  PROVE  /\ q + 2 \in 1 .. Len(tx) - 1
         /\ Steady(tx, n, q + 2)
         /\ Moves(tx, n, q + 2, 0, 0, 1, x)
         /\ IsColon(tx[q + 2])
         /\ BeginsValue(tx[q + 3])
<1>0. Len(tx) \in Nat /\ q \in Nat /\ "object" \in Composite
  BY TextProperties DEF Composite
<1>1. ~Opens(tx[q + 1]) /\ ~Closes(tx[q + 1])
  BY Kinds, Zenon
<1>2. /\ q + 1 \in 1 .. Len(tx) - 1
      /\ Steady(tx, n, q + 1)
      /\ Opened("object", Level(tx, q + 1), tx, q + 1)
  BY <1>0, <1>1, StepOn
<1>3. Follows("object", tx[q + 1], tx[q + 1 + 1])
  BY <1>0, <1>2, JsonFollows
<1>4. IsColon(tx[q + 1 + 1])
  BY <1>0, <1>3, Grammar
<1>5. ~Opens(tx[q + 1 + 1]) /\ ~Closes(tx[q + 1 + 1])
  BY <1>0, <1>4, TokenKinds
<1>6. /\ q + 1 + 1 \in 1 .. Len(tx) - 1
      /\ Steady(tx, n, q + 1 + 1)
      /\ Opened("object", Level(tx, q + 1 + 1), tx, q + 1 + 1)
  <2>1. n <= q + 1
    BY <1>0
  <2> QED
    BY <1>0, <1>2, <1>5, <2>1, StepOn
<1>7. Follows("object", tx[q + 1 + 1], tx[q + 1 + 1 + 1])
  BY <1>0, <1>6, JsonFollows
<1>8. BeginsValue(tx[q + 1 + 1 + 1])
  BY <1>0, <1>4, <1>7, Grammar
<1>9. Moves(tx, q, q + 1, 0, 0, 0, 0) /\ Moves(tx, q + 1, q + 1 + 1, 0, 0, 1, 0)
  <2>1. q < Len(tx) /\ q + 1 < Len(tx) /\ q + 1 \in Nat
    BY <1>0, <1>2
  <2> QED
    BY <1>0, <1>4, <2>1, SeparatorMoves
<1>10. Moves(tx, n, q + 1 + 1, 0, 0, 1, x)
  <2>1. q + 1 \in Nat /\ q + 1 + 1 \in Nat
    BY <1>0
  <2>2. Moves(tx, n, q + 1, 0, 0, 0 + 0, x + 0)
    BY <1>0, <1>9, <2>1, MovesOn
  <2>3. 0 + 0 = 0 /\ x + 0 = x /\ 0 + 1 = 1
    OBVIOUS
  <2>4. Moves(tx, n, q + 1, 0, 0, 0, x)
    BY <2>2, <2>3
  <2>5. Moves(tx, n, q + 1 + 1, 0, 0, 0 + 1, x + 0)
    BY <1>0, <1>9, <2>1, <2>4, MovesOn
  <2> QED
    BY <2>3, <2>5
<1>11. q + 1 + 1 = q + 2 /\ q + 1 + 1 + 1 = q + 3
  BY <1>0
<1> QED
  BY <1>4, <1>6, <1>8, <1>10, <1>11

\* The value: a bracket opens a composite, another token is a primitive.
LEMMA ValueRead ==
  ASSUME NEW ty, NEW br, NEW p, NEW tx, NEW n \in Nat, NEW q \in Nat, n <= q, q < Len(tx),
         Len(tx) \in Nat, Steady(tx, n, q),
         Moves(tx, n, q, 0, 0, IF ty[p] = "object" THEN 1 ELSE 0, IF br[p] = <<>> THEN 0 ELSE 1)
  PROVE  /\ Is(tx[q + 1], "value") => BranchRead(ty, br, tx, p, n, q + 1, 0, 0)
         /\ \A t \in Composite : OpensAs(t, tx[q + 1]) =>
              BranchRead(ty, br, tx, p, n, q + 1, IF t = "object" THEN 1 ELSE 0,
                                                  IF t = "object" THEN 0 ELSE 1)
<1> DEFINE colon == IF ty[p] = "object" THEN 1 ELSE 0
           comma == IF br[p] = <<>> THEN 0 ELSE 1
<1>1. colon \in Nat /\ comma \in Nat /\ q + 1 \in Nat /\ n < q + 1
  OBVIOUS
<1>2. Moves(tx, n, q, 0, 0, colon, comma)
  OBVIOUS
<1>3. ASSUME NEW b \in Nat, NEW s \in Nat, Moves(tx, q, q + 1, b, s, 0, 0),
             Level(tx, q + 1) >= Level(tx, q)
      PROVE  BranchRead(ty, br, tx, p, n, q + 1, b, s)
  <2>1. Moves(tx, n, q + 1, b, s, colon, comma)
    <3> HIDE DEF colon, comma
    <3>1. Moves(tx, n, q + 1, b, s, colon + 0, comma + 0)
      BY <1>1, <1>2, <1>3, MovesOn
    <3>2. colon + 0 = colon /\ comma + 0 = comma
      BY <1>1
    <3> QED
      BY <3>1, <3>2
  <2>2. \A r \in n .. q + 1 : Level(tx, r) >= Level(tx, n)
    <3>1. \A r \in n .. q : Level(tx, r) = Level(tx, n)
      BY DEF Steady
    <3>2. Level(tx, q) = Level(tx, n) /\ Level(tx, n) \in Int
      BY <3>1, LevelStep
    <3>3. \A r \in n .. q + 1 : r \in n .. q \/ r = q + 1
      OBVIOUS
    <3> QED
      BY <1>3, <3>1, <3>2, <3>3
  <2> QED
    BY <1>1, <2>1, <2>2 DEF BranchRead
<1>4. ASSUME Is(tx[q + 1], "value")
      PROVE  BranchRead(ty, br, tx, p, n, q + 1, 0, 0)
  <2>1. Moves(tx, q, q + 1, 0, 0, 0, 0)
    BY <1>4, TokenMoves, Zenon
  <2>2. ~Opens(tx[q + 1]) /\ ~Closes(tx[q + 1])
    BY <1>4, Kinds, Zenon
  <2>3. Level(tx, q + 1) >= Level(tx, q)
    BY <2>2, LevelStep
  <2> QED
    BY <1>3, <2>1, <2>3
<1>5. ASSUME NEW t \in Composite, OpensAs(t, tx[q + 1])
      PROVE  BranchRead(ty, br, tx, p, n, q + 1, IF t = "object" THEN 1 ELSE 0,
                                                 IF t = "object" THEN 0 ELSE 1)
  <2>1. Level(tx, q + 1) >= Level(tx, q)
    <3>1. Opens(tx[q + 1])
      BY <1>5, TokenKinds
    <3> QED
      BY <3>1, LevelStep
  <2>2. CASE t = "object"
    <3>1. Is(tx[q + 1], "{")
      BY <1>5, <2>2, Zenon DEF OpensAs
    <3>2. Moves(tx, q, q + 1, 1, 0, 0, 0)
      BY <3>1, TokenMoves, Zenon
    <3>3. BranchRead(ty, br, tx, p, n, q + 1, 1, 0)
      BY <1>3, <2>1, <3>2
    <3> QED
      BY <2>2, <3>3
  <2>3. CASE t = "array"
    <3>1. Is(tx[q + 1], "[")
      BY <1>5, <2>3, Zenon DEF OpensAs
    <3>2. Moves(tx, q, q + 1, 0, 1, 0, 0)
      BY <3>1, TokenMoves, Zenon
    <3>3. BranchRead(ty, br, tx, p, n, q + 1, 0, 1)
      BY <1>3, <2>1, <3>2
    <3>4. t # "object"
      BY <2>3
    <3> QED
      BY <3>3, <3>4
  <2> QED
    BY <1>5, <2>2, <2>3 DEF Composite
<1> QED
  BY <1>4, <1>5

\* The bracket that closes p.
LEMMA CloseRead ==
  ASSUME NEW ty, NEW p, ty[p] \in Composite, NEW tx, Len(tx) \in Nat, NEW n \in Nat, n < Len(tx),
         ClosesAs(ty[p], tx[n + 1])
  PROVE  ClosedNext(ty, tx, p, n)
<1>1. EndsValue(tx[n + 1])
  BY TokenKinds
<1>2. CASE ty[p] = "object"
  <2>1. Is(tx[n + 1], "}")
    BY <1>2, Zenon DEF ClosesAs
  <2>2. Moves(tx, n, n + 1, -1, 0, 0, 0) /\ Colons(tx, n, Braces(tx, n)) = 0
    BY <2>1, TokenMoves, Zenon
  <2> QED
    BY <1>1, <1>2, <2>2 DEF ClosedNext
<1>3. CASE ty[p] = "array"
  <2>1. Is(tx[n + 1], "]")
    BY <1>3, Zenon DEF ClosesAs
  <2>2. Moves(tx, n, n + 1, 0, -1, 0, 0) /\ Commas(tx, n, Squares(tx, n)) = 0
    BY <2>1, TokenMoves, Zenon
  <2> QED
    BY <1>1, <1>3, <2>2 DEF ClosedNext
<1> QED
  BY <1>2, <1>3 DEF Composite

------------------------------------------------------------------------------
(* The room of every composite, at every turn of the loop.                 *)

\* The type of what is set, and its room.
LEMMA SetValueKind ==
  ASSUME ParseTypeOK, NEW i \in Item, NEW b \in Seq(Token), b # <<>>,
         BeginsValue(b[1]), NEW comp \in Item \cup {NULL}, SetValue(i, b, comp)
  PROVE  \E t \in Living :
           /\ SetAt(type, type', i, t)
           /\ Opens(b[1]) <=> t \in Composite
           /\ t \in Composite => OpensAs(t, b[1]) /\ SetAt(capacity, capacity', i, Room(b))
           /\ t \notin Composite => t = "leaf" /\ Is(b[1], "value") /\ capacity' = capacity
<1>1. Head(b) = b[1]
  BY EmptySeq, LenProperties
<1>2. type \in [Item -> Living \cup {"unborn", "freed"}] /\ capacity \in [Item -> Nat]
  BY DEF ParseTypeOK, TypeOK
<1>3. CASE Opens(b[1])
  <2>1. PICK t : /\ t = IF Is(b[1], "{") THEN "object" ELSE "array"
                 /\ type' = [type EXCEPT ![i] = t]
                 /\ capacity' = [capacity EXCEPT ![i] = Room(b)]
    BY <1>1, <1>3, Zenon DEF SetValue
  <2>2. t \in {"object", "array"} /\ OpensAs(t, b[1])
    <3>1. "object" # "array"
      OBVIOUS
    <3> QED
      BY <1>3, <2>1, <3>1, Zenon DEF OpensAs, Opens
  <2>3. t \in Living /\ t \in Composite
    BY <2>2 DEF Living, Composite
  <2>4. type' = [type EXCEPT ![i] = t] /\ capacity' = [capacity EXCEPT ![i] = Room(b)]
    BY <2>1
  <2>5. SetAt(type, type', i, t) /\ SetAt(capacity, capacity', i, Room(b))
    BY <1>2, <2>4 DEF SetAt
  <2> QED
    BY <1>3, <2>2, <2>3, <2>5
<1>4. CASE ~Opens(b[1])
  <2>1. Is(b[1], "value")
    BY <1>4 DEF BeginsValue
  <2>2. type' = [type EXCEPT ![i] = "leaf"] /\ capacity' = capacity
    BY <1>1, <1>4, SetValueCases
  <2>3. SetAt(type, type', i, "leaf") /\ "leaf" \in Living /\ "leaf" \notin Composite
    BY <1>2, <2>2 DEF SetAt, Living, Composite
  <2> QED
    BY <1>4, <2>1, <2>2, <2>3
<1> QED
  BY <1>3, <1>4

\* Every composite under r fits but those in open.
FitBut(ty, pa, br, ca, r, open) ==
  \A c \in Item : ty[c] \in Composite /\ r \in Upward(c, pa) /\ c \notin open =>
    Fits(ty, pa, br, ca, c)

\* What the loop knows of its brackets, n tokens of tx read.
Reading(ty, pa, br, ca, tx, p, n) ==
  Json(tx) /\ \E vo, va : Bracketed(ty, pa, br, ca, tx, p, n, vo, va)

RoomInv ==
  /\ NoFault
  /\ root # NULL => /\ type[root] \in Living
                    /\ FitBut(type, parent, branch, capacity, root, Unwrapped(item, parent))
  /\ item # NULL =>
       Reading(type, parent, branch, capacity, text, item, Len(text) - Len(buffer))

\* What is left tells what was read.
LEMMA ReadSoFar ==
  ASSUME NEW S, NEW tx \in Seq(S), NEW n \in 0 .. Len(tx)
  PROVE  Len(tx) - Len(Rest(tx, n)) = n
BY RestProperties, LenProperties

LEMMA RoomEntity ==
  ASSUME ParseInv, RoomInv, item = NULL, NEW i \in Item,
         NEW document, WellFormed(document), Json(document), jscon_parse(i, document)
  PROVE  RoomInv'
<1>1. /\ type[i] = "unborn"
      /\ text' = document /\ root' = i
      /\ SetValue(i, document, NULL)
      /\ item' = IF Opens(document[1]) THEN i ELSE NULL
      /\ UNCHANGED <<parent, branch, status>>
  BY DEF jscon_parse, Entity, nodes, Json
<1>2. /\ document \in Seq(Token) /\ Len(document) \in Nat /\ 0 < Len(document)
      /\ BeginsValue(document[1]) /\ 1 \in 0 .. Len(document)
  BY TextProperties DEF BeginsValue
<1>3. /\ document # <<>> /\ Rest(document, 0) = document
      /\ Tail(document) = Rest(document, 1)
  <2>1. document # <<>> /\ Rest(document, 0) = document
    BY <1>2, RestOfAll
  <2>2. 0 \in 0 .. Len(document) /\ 0 + 1 = 1
    BY <1>2
  <2>3. Tail(Rest(document, 0)) = Rest(document, 0 + 1)
    BY <1>2, <2>2, RestProperties
  <2> QED
    BY <2>1, <2>2, <2>3, Zenon
<1>4. buffer' = Rest(document, 1)
  BY <1>1, <1>3, SetValueCases
<1>5. ParseTypeOK
  BY DEF ParseInv
<1>6. PICK t \in Living :
        /\ SetAt(type, type', i, t)
        /\ Opens(document[1]) <=> t \in Composite
        /\ t \in Composite => /\ OpensAs(t, document[1])
                              /\ SetAt(capacity, capacity', i, Room(document))
  BY <1>1, <1>2, <1>3, <1>5, SetValueKind
<1>7. Fresh(type, parent, branch, next, prev, i)
  BY <1>1, UnbornIsFresh
<1>8. ParseInv'
  BY EntityInv
<1> DEFINE tz == type'
           ca == capacity'
<1>9. /\ parent \in [Item -> Item \cup {NULL}] /\ branch \in [Item -> Seq(Item)]
      /\ ArraysAgree(tz, parent, branch)
      /\ parent[i] = NULL /\ branch[i] = <<>>
      /\ tz[i] = t /\ tz[i] \in Living
  BY <1>1, <1>6, <1>7, <1>8 DEF ParseInv, Grown, Fresh, SetAt
<1>10. t \in Composite => ca[i] = Room(document)
  BY <1>6 DEF SetAt
<1> HIDE DEF tz, ca
<1>11. \A c \in Item : tz[c] \in Composite /\ i \in Upward(c, parent) => c = i /\ t \in Composite
  <2>1. \A c \in Item : tz[c] \in Composite => tz[c] \in Living
    BY DEF Living
  <2> QED
    BY <1>9, <2>1, NothingUnder
<1>12. FitBut(tz, parent, branch, ca, i, Unwrapped(item', parent))
  <2>1. t \in Composite => i \in Unwrapped(item', parent)
    BY <1>1, <1>6, <1>9, UpwardProperties, ItemAssumption DEF Unwrapped
  <2> QED
    BY <1>11, <2>1 DEF FitBut
<1>13. t \in Composite => Reading(tz, parent, branch, ca, document, i, 1)
  <2>1. SUFFICES ASSUME t \in Composite
                 PROVE  Reading(tz, parent, branch, ca, document, i, 1)
    OBVIOUS
  <2>2. /\ t = "object" => Room(Rest(document, 0)) = 1 + Colons(document, 1, Braces(document, 1))
        /\ t = "array" => Room(Rest(document, 0)) = 1 + Commas(document, 1, Squares(document, 1))
    <3>1. 0 \in Nat /\ 0 + 1 = 1 /\ OpensAs(t, document[0 + 1])
      BY <1>6, <2>1
    <3>2. /\ t = "object" =>
               Room(Rest(document, 0)) = 1 + Colons(document, 0 + 1, Braces(document, 0 + 1))
          /\ t = "array" =>
               Room(Rest(document, 0)) = 1 + Commas(document, 0 + 1, Squares(document, 0 + 1))
      BY <1>2, <2>1, <3>1, RoomOf
    <3> QED
      BY <3>1, <3>2, Zenon
  <2>3. \E vo, va : Bracketed(tz, parent, branch, ca, document, i, 1, vo, va)
    BY <1>2, <1>3, <1>6, <1>9, <1>10, <2>1, <2>2, BracketedRoot
  <2> QED
    BY <2>3 DEF Reading
<1>14. Len(document) - Len(buffer') = 1
  BY <1>2, <1>4, ReadSoFar
<1>15. item' # NULL => item' = i /\ t \in Composite
  BY <1>1, <1>6
<1> QED
  BY <1>1, <1>9, <1>12, <1>13, <1>14, <1>15 DEF RoomInv, NoFault, tz, ca

\* What the loop has read, by n.
LEMMA ReadingFacts ==
  ASSUME ParseInv, RoomInv, item # NULL, NEW n \in 1 .. Len(text) - 1, ReadTo(n)
  PROVE  /\ Json(text)
         /\ \E vo, va : Bracketed(type, parent, branch, capacity, text, item, n, vo, va)
         /\ Opened(type[item], Level(text, n), text, n)
         /\ branch[item] = <<>> => OpensAs(type[item], text[n])
         /\ branch[item] # <<>> => EndsValue(text[n])
<1>1. text \in Seq(Token) /\ n \in 0 .. Len(text)
  BY BuildingFacts, TextProperties
<1>2. Len(text) - Len(buffer) = n
  BY <1>1, ReadSoFar DEF ReadTo
<1>3. /\ Json(text)
      /\ \E vo, va : Bracketed(type, parent, branch, capacity, text, item, n, vo, va)
  BY <1>2 DEF RoomInv, Reading
<1>4. PICK vo, va : Bracketed(type, parent, branch, capacity, text, item, n, vo, va)
  BY <1>3
<1>5. item \in Upward(item, parent)
  BY BuildingFacts
<1>6. /\ vo[item] = Braces(text, n) /\ va[item] = Squares(text, n)
      /\ Opened(type[item], vo[item] + va[item], text, n)
      /\ branch[item] = <<>> => OpensAs(type[item], text[n])
      /\ branch[item] # <<>> => EndsValue(text[n])
  BY <1>4, <1>5 DEF Bracketed
<1>7. Level(text, n) = vo[item] + va[item]
  BY <1>6, LevelIsBoth
<1> QED
  BY <1>3, <1>6, <1>7

\* There is room for one more branch while a branch is ahead.
LEMMA RoomForBranch ==
  ASSUME IsFiniteSet(Item), ParseInv, RoomInv, item # NULL,
         NEW n \in 1 .. Len(text) - 1, ReadTo(n),
         NEW m, NEW b, NEW s, BranchRead(type, branch, text, item, n, m, b, s)
  PROVE  Len(branch[item]) < capacity[item]
<1>1. PICK vo, va : Bracketed(type, parent, branch, capacity, text, item, n, vo, va)
  BY ReadingFacts
<1>2. /\ item \in Item /\ type[item] \in Composite /\ item \in Upward(item, parent)
      /\ branch \in [Item -> Seq(Item)] /\ Len(text) \in Nat /\ n \in Nat
  BY BuildingFacts, TextProperties DEF ParseInv, ParseTypeOK, TypeOK
<1>3. /\ vo[item] = Braces(text, n) /\ va[item] = Squares(text, n)
      /\ Counted(type, parent, branch, capacity, text, n, vo, va, item)
  BY <1>1, <1>2 DEF Bracketed
<1>4. Len(branch[item]) \in Nat /\ (branch[item] = <<>> => Len(branch[item]) = 0)
  BY <1>2, LenProperties
<1>5. Colons(text, n, vo[item]) \in Nat
  BY <1>2, AheadIsNat DEF Colons
<1>6. CASE type[item] = "object"
  BY <1>3, <1>4, <1>5, <1>6 DEF Counted
<1>7. CASE type[item] = "array"
  <2> DEFINE C == Cardinality(FollowingOf(type, parent, branch, item))
             x == Commas(text, n, va[item])
  <2>1. C \in Nat /\ x \in Nat
    BY <1>2, AheadIsNat, FollowingIsFinite DEF Commas
  <2>2. capacity[item] = 1 + C + x /\ Len(branch[item]) <= 1 + C
    BY <1>3, <1>7 DEF Counted
  <2>3. branch[item] # <<>> => x >= 1
    <3> DEFINE v == Squares(text, n)
    <3>1. /\ m \in Nat /\ s \in Nat /\ v \in Int
          /\ Squares(text, m) = v + s
          /\ \A w \in Int : w <= v /\ w <= Squares(text, m) =>
               Commas(text, n, w) = Commas(text, m, w) +
                 (IF w = v THEN (IF branch[item] = <<>> THEN 0 ELSE 1) ELSE 0)
      BY DEF BranchRead, Moves
    <3>2. Commas(text, m, v) \in Nat
      BY <1>2, <3>1, AheadIsNat DEF Commas
    <3> HIDE DEF v
    <3>3. v <= Squares(text, m)
      BY <3>1
    <3>4. branch[item] # <<>> => Commas(text, n, v) = Commas(text, m, v) + 1
      BY <3>1, <3>3
    <3> QED
      BY <1>3, <3>2, <3>4 DEF v
  <2> HIDE DEF C, x
  <2> QED
    BY <1>4, <2>1, <2>2, <2>3
<1> QED
  BY <1>2, <1>6, <1>7 DEF Composite

\* A branch is built: neither does it crash, nor is its value refused.
LEMMA RoomBranch ==
  ASSUME IsFiniteSet(Item), ParseInv, RoomInv, item # NULL,
         NEW n \in 1 .. Len(text) - 1, ReadTo(n),
         NEW q \in n .. Len(text) - 1, Steady(text, n, q),
         Moves(text, n, q, 0, 0, IF type[item] = "object" THEN 1 ELSE 0,
                                 IF branch[item] = <<>> THEN 0 ELSE 1),
         BeginsValue(text[q + 1]),
         NEW k, NEW i \in Item, _jscon_branch_build(i, k, Rest(text, q))
  PROVE  RoomInv'
<1> DEFINE b == Rest(text, q)
<1>1. /\ Place(type, parent, branch, next, item, root, last_accessed_comp)
      /\ WellFormed(text)
      /\ item \in Item /\ type[item] \in Composite /\ item \in Upward(item, parent)
      /\ last_accessed_comp \in Item
  BY BuildingFacts
<1>2. /\ text \in Seq(Token) /\ Len(text) \in Nat /\ n \in Nat /\ q \in Nat
      /\ q \in 0 .. Len(text) /\ n <= q /\ q < Len(text)
  BY <1>1, TextProperties
<1>3. /\ b \in Seq(Token) /\ b # <<>> /\ b[1] = text[q + 1] /\ Tail(b) = Rest(text, q + 1)
  <2>1. /\ Rest(text, q) \in Seq(Token)
        /\ \A m \in 1 .. Len(text) - q : Rest(text, q)[m] = text[q + m]
        /\ Rest(text, q) = <<>> <=> q = Len(text)
        /\ q < Len(text) => Tail(Rest(text, q)) = Rest(text, q + 1)
    BY <1>2, RestProperties
  <2>2. 1 \in 1 .. Len(text) - q
    BY <1>2
  <2> QED
    BY <1>2, <2>1, <2>2
<1> HIDE DEF b
<1>4. /\ Is(text[q + 1], "value") => BranchRead(type, branch, text, item, n, q + 1, 0, 0)
      /\ \A t \in Composite : OpensAs(t, text[q + 1]) =>
           BranchRead(type, branch, text, item, n, q + 1, IF t = "object" THEN 1 ELSE 0,
                                                          IF t = "object" THEN 0 ELSE 1)
  BY <1>2, ValueRead
<1>5. Len(branch[item]) < capacity[item]
  <2>1. CASE Is(text[q + 1], "value")
    BY <1>4, <2>1, RoomForBranch
  <2>2. CASE Opens(text[q + 1])
    <3>1. PICK t \in Composite : OpensAs(t, text[q + 1])
      <4>1. "object" # "array" /\ "object" \in Composite /\ "array" \in Composite
        BY DEF Composite
      <4> QED
        BY <2>2, <4>1, Zenon DEF Opens, OpensAs
    <3> QED
      BY <1>4, <3>1, RoomForBranch
  <2> QED
    BY <2>1, <2>2 DEF BeginsValue
<1>6. /\ type[i] = "unborn"
      /\ branch' = [branch EXCEPT ![item] = Append(@, i)]
      /\ parent' = [parent EXCEPT ![i] = item]
      /\ SetValue(i, b, last_accessed_comp)
      /\ item' = IF Opens(b[1]) THEN i ELSE item
      /\ UNCHANGED <<text, root, status>>
  <2>1. ~(Len(branch[item]) >= capacity[item])
    <3>1. Len(branch[item]) \in Nat /\ capacity[item] \in Nat
      BY <1>1, LenProperties DEF ParseInv, ParseTypeOK, TypeOK
    <3> QED
      BY <1>5, <3>1
  <2>2. ~(b = <<>> \/ (~Opens(b[1]) /\ ~Is(b[1], "value")))
    BY <1>3 DEF BeginsValue
  <2> QED
    BY <2>1, <2>2 DEF _jscon_branch_build, b
<1>7. /\ ParseTypeOK /\ TypeOK
      /\ parent \in [Item -> Item \cup {NULL}]
      /\ branch \in [Item -> Seq(Item)]
      /\ Grown(type, parent, branch, next, prev)
      /\ ArraysAgree(type, parent, branch)
  BY DEF ParseInv, ParseTypeOK, TypeOK, Grown
<1>8. PICK t \in Living :
        /\ SetAt(type, type', i, t)
        /\ Opens(b[1]) <=> t \in Composite
        /\ t \in Composite => OpensAs(t, b[1]) /\ SetAt(capacity, capacity', i, Room(b))
        /\ t \notin Composite => t = "leaf" /\ Is(b[1], "value") /\ capacity' = capacity
  BY <1>1, <1>3, <1>6, <1>7, SetValueKind
<1>9. Fresh(type, parent, branch, next, prev, i)
  BY <1>6, UnbornIsFresh
<1>10. i \notin Upward(item, parent)
  BY <1>1, <1>7, <1>9, FreshApart
<1>11. /\ parent' \in [Item -> Item \cup {NULL}] /\ SetAt(parent, parent', i, item)
       /\ SetAt(branch, branch', item, Append(branch[item], i))
  BY <1>1, <1>6, <1>7 DEF SetAt
<1> DEFINE tz == type'
           pb == parent'
           bs == branch'
           cb == capacity'
<1>12. Birth(type, parent, branch, item, i, t, tz, pb, bs)
  BY <1>1, <1>7, <1>8, <1>9, <1>10, <1>11 DEF Birth, Fresh
<1>13. /\ t \in Composite => SetAt(capacity, cb, i, Room(b))
       /\ t \notin Composite => cb = capacity
  BY <1>8
<1> HIDE DEF tz, pb, bs, cb
<1>14. PICK vo, va : Bracketed(type, parent, branch, capacity, text, item, n, vo, va)
  BY ReadingFacts
<1>15. \A e \in Item : e # i => cb[e] = capacity[e]
  BY <1>13 DEF SetAt
<1>16. t \notin Composite => Reading(tz, pb, bs, cb, text, item, q + 1)
  <2>1. SUFFICES ASSUME t \notin Composite
                 PROVE  Reading(tz, pb, bs, cb, text, item, q + 1)
    OBVIOUS
  <2>2. BranchRead(type, branch, text, item, n, q + 1, 0, 0) /\ EndsValue(text[q + 1]) /\ cb = capacity
    BY <1>3, <1>4, <1>8, <1>13, <2>1 DEF EndsValue
  <2>3. Bracketed(tz, pb, bs, capacity, text, item, q + 1, vo, va)
    BY <1>12, <1>14, <2>2, BracketedAfterLeaf
  <2> QED
    BY <2>2, <2>3, ReadingFacts DEF Reading
<1>17. t \in Composite => Reading(tz, pb, bs, cb, text, i, q + 1)
  <2>1. SUFFICES ASSUME t \in Composite
                 PROVE  Reading(tz, pb, bs, cb, text, i, q + 1)
    OBVIOUS
  <2>2. /\ OpensAs(t, text[q + 1]) /\ cb[i] = Room(b)
        /\ BranchRead(type, branch, text, item, n, q + 1, IF t = "object" THEN 1 ELSE 0,
                                                          IF t = "object" THEN 0 ELSE 1)
    BY <1>3, <1>4, <1>8, <1>13, <2>1 DEF SetAt
  <2>3. /\ t = "object" => cb[i] = 1 + Colons(text, q + 1, Braces(text, q + 1))
        /\ t = "array" => cb[i] = 1 + Commas(text, q + 1, Squares(text, q + 1))
    BY <1>2, <2>1, <2>2, RoomOf DEF b
  <2>4. \A e \in Upward(item, parent) : cb[e] = capacity[e]
    BY <1>1, <1>7, <1>10, <1>15, UpwardProperties
  <2>5. \E wo, wa : Bracketed(tz, pb, bs, cb, text, i, q + 1, wo, wa)
    BY <1>12, <1>14, <2>1, <2>2, <2>3, <2>4, BracketedAfterComposite
  <2> QED
    BY <2>5, ReadingFacts DEF Reading
<1>18. /\ root \in Item /\ type[root] \in Living /\ root # i
       /\ FitBut(type, parent, branch, capacity, root, Upward(item, parent))
  <2>1. root \in Item /\ type[root] \in Composite /\ i # root
    BY <1>1, <1>7, <1>9, FreshApart
  <2>2. root # NULL
    BY <2>1, ItemAssumption
  <2> QED
    BY <2>1, <2>2 DEF RoomInv, Unwrapped, Living
<1>19. FitBut(tz, pb, bs, cb, root, Unwrapped(item', pb))
  <2>1. ASSUME NEW c \in Item, tz[c] \in Composite, root \in Upward(c, pb),
               c \notin Unwrapped(item', pb)
        PROVE  Fits(tz, pb, bs, cb, c)
    <3>1. /\ tz[i] = t /\ \A j \in Item : j # i => tz[j] = type[j]
          /\ \A x \in Item : type[x] \in Living => Upward(x, pb) = Upward(x, parent)
          /\ Upward(i, pb) = {i} \cup Upward(item, parent)
      BY <1>12, BirthChanges
    <3>2. Upward(item, parent) \subseteq Unwrapped(item', pb)
          /\ (t \in Composite => i \in Unwrapped(item', pb))
      <4>1. Upward(item, pb) = Upward(item, parent)
        BY <1>1, <3>1 DEF Living
      <4> QED
        BY <1>1, <1>6, <1>8, <3>1, <4>1, ItemAssumption DEF Unwrapped
    <3>3. c # i
      BY <2>1, <3>1, <3>2
    <3>4. type[c] \in Composite /\ Upward(c, pb) = Upward(c, parent) /\ c \notin Upward(item, parent)
      BY <2>1, <3>1, <3>2, <3>3 DEF Living
    <3>5. Fits(type, parent, branch, capacity, c) /\ cb[c] = capacity[c]
      BY <1>15, <1>18, <2>1, <3>3, <3>4 DEF FitBut
    <3> QED
      BY <1>12, <3>4, <3>5, FitsStay
  <2> QED
    BY <2>1 DEF FitBut
<1>20. tz[root] \in Living
  BY <1>8, <1>18 DEF SetAt, tz
<1>21. Len(text) - Len(buffer') = q + 1
  <2>1. buffer' = Rest(text, q + 1)
    BY <1>3, <1>6, SetValueCases
  <2>2. q + 1 \in 0 .. Len(text)
    BY <1>2
  <2> QED
    BY <1>2, <2>1, <2>2, ReadSoFar
<1>22. Reading(tz, pb, bs, cb, text, item', q + 1)
  BY <1>6, <1>8, <1>16, <1>17
<1> QED
  BY <1>6, <1>19, <1>20, <1>21, <1>22 DEF RoomInv, NoFault, tz, pb, bs, cb

\* A composite is closed.
LEMMA RoomWrap ==
  ASSUME IsFiniteSet(Item), ParseInv, RoomInv, item # NULL,
         NEW n \in 1 .. Len(text) - 1, ReadTo(n),
         ClosesAs(type[item], text[n + 1]), _jscon_wrap_composite
  PROVE  RoomInv'
<1>1. /\ Place(type, parent, branch, next, item, root, last_accessed_comp)
      /\ WellFormed(text)
      /\ item \in Item /\ type[item] \in Composite
  BY BuildingFacts
<1>2. /\ buffer' = Tail(buffer) /\ item' = parent[item]
      /\ UNCHANGED <<type, parent, branch, status, capacity, text, root>>
  BY DEF _jscon_wrap_composite
<1>3. /\ parent \in [Item -> Item \cup {NULL}] /\ branch \in [Item -> Seq(Item)]
      /\ ArraysAgree(type, parent, branch)
  BY DEF ParseInv, ParseTypeOK, TypeOK, Grown
<1>4. /\ text \in Seq(Token) /\ Len(text) \in Nat /\ n \in Nat /\ n < Len(text)
      /\ n \in 0 .. Len(text) /\ n + 1 \in 0 .. Len(text)
  BY <1>1, TextProperties
<1>5. Len(text) - Len(buffer') = n + 1
  <2>1. buffer' = Rest(text, n + 1)
    BY <1>2, <1>4, RestProperties DEF ReadTo
  <2> QED
    BY <1>4, <2>1, ReadSoFar
<1>6. PICK vo, va : Bracketed(type, parent, branch, capacity, text, item, n, vo, va)
  BY ReadingFacts
<1>7. ClosedNext(type, text, item, n)
  BY <1>1, <1>4, CloseRead
<1>8. /\ Fits(type, parent, branch, capacity, item)
      /\ parent[item] # NULL =>
           Bracketed(type, parent, branch, capacity, text, parent[item], n + 1, vo, va)
  BY <1>1, <1>3, <1>6, <1>7, BracketedUp
<1>9. root # NULL => FitBut(type, parent, branch, capacity, root, Unwrapped(parent[item], parent))
  <2>1. Upward(item, parent) \subseteq {item} \cup Unwrapped(parent[item], parent)
    BY <1>1, <1>3, UpwardStep DEF Unwrapped
  <2>2. root # NULL => FitBut(type, parent, branch, capacity, root, Upward(item, parent))
    BY DEF RoomInv, Unwrapped
  <2> QED
    BY <1>8, <2>1, <2>2 DEF FitBut
<1>10. parent[item] # NULL => Reading(type, parent, branch, capacity, text, parent[item], n + 1)
  BY <1>8, ReadingFacts DEF Reading
<1> QED
  BY <1>2, <1>5, <1>9, <1>10 DEF RoomInv, NoFault

\* What is passed over before a branch.
LEMMA AfterCommaIs ==
  ASSUME ParseInv, item # NULL, NEW n \in 1 .. Len(text) - 1, ReadTo(n)
  PROVE  Head(buffer) = text[n + 1] /\ AfterComma = Rest(text, PassedTo(text, n))
<1>1. text \in Seq(Token) /\ Len(text) \in Nat /\ n \in 0 .. Len(text) /\ n < Len(text)
  BY BuildingFacts, TextProperties
<1>2. Head(buffer) = text[n + 1] /\ Tail(buffer) = Rest(text, n + 1) /\ buffer = Rest(text, n)
  BY <1>1, RestProperties DEF ReadTo
<1> QED
  BY <1>2, Zenon DEF AfterComma, PassedTo, IsComma

LEMMA RoomArray ==
  ASSUME IsFiniteSet(Item), ParseInv, RoomInv, _jscon_array_build
  PROVE  RoomInv'
<1>1. /\ item # NULL /\ type[item] = "array"
      /\ \/ Is(Head(buffer), "]") /\ _jscon_wrap_composite
         \/ /\ ~Is(Head(buffer), "]")
            /\ \E i \in Item : _jscon_branch_build(i, Len(branch[item]), AfterComma)
  BY Zenon DEF _jscon_array_build, Parsing
<1>2. PICK n \in 1 .. Len(text) - 1 : ReadTo(n)
  BY <1>1, BuildingFacts
<1>3. Head(buffer) = text[n + 1] /\ AfterComma = Rest(text, PassedTo(text, n))
  BY <1>1, <1>2, AfterCommaIs
<1>4. ClosesAs(type[item], text[n + 1]) <=> Is(Head(buffer), "]")
  <2>1. type[item] # "object"
    BY <1>1
  <2> QED
    BY <1>1, <1>3, <2>1, Zenon DEF ClosesAs
<1>5. CASE ClosesAs(type[item], text[n + 1])
  <2>1. _jscon_wrap_composite
    BY <1>1, <1>4, <1>5, Zenon
  <2> QED
    BY <1>1, <1>2, <1>5, <2>1, RoomWrap
<1>6. CASE ~ClosesAs(type[item], text[n + 1])
  <2>1. PICK i \in Item : _jscon_branch_build(i, Len(branch[item]), AfterComma)
    BY <1>1, <1>4, <1>6, Zenon
  <2>2. /\ WellFormed(text) /\ Json(text) /\ type[item] \in Composite
        /\ Opened(type[item], Level(text, n), text, n)
        /\ branch[item] = <<>> => OpensAs(type[item], text[n])
        /\ branch[item] # <<>> => EndsValue(text[n])
    BY <1>1, <1>2, BuildingFacts, ReadingFacts
  <2> DEFINE q == PassedTo(text, n)
  <2>3. /\ q \in n .. Len(text) - 1
        /\ Steady(text, n, q)
        /\ Moves(text, n, q, 0, 0, 0, IF branch[item] = <<>> THEN 0 ELSE 1)
        /\ BeginsBranch(type[item], text[q + 1])
    BY <1>6, <2>2, CommaRead
  <2>4. _jscon_branch_build(i, Len(branch[item]), Rest(text, q))
    BY <1>3, <2>1
  <2> HIDE DEF q
  <2>5. BeginsValue(text[q + 1])
    BY <1>1, <2>3 DEF BeginsBranch
  <2>6. Moves(text, n, q, 0, 0, IF type[item] = "object" THEN 1 ELSE 0,
                                IF branch[item] = <<>> THEN 0 ELSE 1)
    BY <1>1, <2>3
  <2> QED
    BY <1>1, <1>2, <2>3, <2>4, <2>5, <2>6, RoomBranch
<1> QED
  BY <1>5, <1>6

LEMMA RoomObject ==
  ASSUME IsFiniteSet(Item), ParseInv, RoomInv, _jscon_object_build
  PROVE  RoomInv'
<1> DEFINE b == AfterComma
<1>1. /\ item # NULL /\ type[item] = "object"
      /\ \/ Is(Head(buffer), "}") /\ _jscon_wrap_composite
         \/ /\ ~Is(Head(buffer), "}")
            /\ \/ Len(b) < 2
               \/ ~Is(b[1], "key") \/ ~IsColon(b[2])
               \/ \E i \in Item : _jscon_branch_build(i, b[1][2], SubSeq(b, 3, Len(b)))
  BY Zenon DEF _jscon_object_build, Parsing, IsColon
<1>2. PICK n \in 1 .. Len(text) - 1 : ReadTo(n)
  BY <1>1, BuildingFacts
<1>3. Head(buffer) = text[n + 1] /\ b = Rest(text, PassedTo(text, n))
  BY <1>1, <1>2, AfterCommaIs
<1> HIDE DEF b
<1>4. ClosesAs(type[item], text[n + 1]) <=> Is(Head(buffer), "}")
  <2>1. type[item] # "array"
    BY <1>1
  <2> QED
    BY <1>1, <1>3, <2>1, Zenon DEF ClosesAs
<1>5. CASE ClosesAs(type[item], text[n + 1])
  <2>1. _jscon_wrap_composite
    BY <1>1, <1>4, <1>5, Zenon
  <2> QED
    BY <1>1, <1>2, <1>5, <2>1, RoomWrap
<1>6. CASE ~ClosesAs(type[item], text[n + 1])
  <2>1. \/ Len(b) < 2
        \/ ~Is(b[1], "key") \/ ~IsColon(b[2])
        \/ \E i \in Item : _jscon_branch_build(i, b[1][2], SubSeq(b, 3, Len(b)))
    BY <1>1, <1>4, <1>6, Zenon
  <2>2. /\ WellFormed(text) /\ Json(text) /\ type[item] \in Composite
        /\ Opened(type[item], Level(text, n), text, n)
        /\ branch[item] = <<>> => OpensAs(type[item], text[n])
        /\ branch[item] # <<>> => EndsValue(text[n])
    BY <1>1, <1>2, BuildingFacts, ReadingFacts
  <2> DEFINE q == PassedTo(text, n)
             x == IF branch[item] = <<>> THEN 0 ELSE 1
  <2>3. /\ q \in n .. Len(text) - 1
        /\ Steady(text, n, q)
        /\ Opened(type[item], Level(text, q), text, q)
        /\ Moves(text, n, q, 0, 0, 0, x)
        /\ BeginsBranch(type[item], text[q + 1])
    BY <1>6, <2>2, CommaRead
  <2>4. x \in Nat
    OBVIOUS
  <2>5. b = Rest(text, q)
    BY <1>3
  <2> HIDE DEF q, x
  <2>6. /\ text \in Seq(Token) /\ Len(text) \in Nat /\ n \in Nat
        /\ q \in 1 .. Len(text) - 1 /\ n <= q /\ q \in 0 .. Len(text)
    BY <2>2, <2>3, TextProperties
  <2>7. Is(text[q + 1], "key")
    BY <1>1, <2>3, Zenon DEF BeginsBranch
  <2>8. /\ q + 2 \in 1 .. Len(text) - 1
        /\ Steady(text, n, q + 2)
        /\ Moves(text, n, q + 2, 0, 0, 1, x)
        /\ IsColon(text[q + 2])
        /\ BeginsValue(text[q + 3])
    <3>1. Opened("object", Level(text, q), text, q)
      BY <1>1, <2>3
    <3> QED
      BY <2>2, <2>3, <2>4, <2>6, <2>7, <3>1, PropertyRead
  <2>9. /\ Len(b) = Len(text) - q /\ ~(Len(b) < 2)
        /\ b[1] = text[q + 1] /\ b[2] = text[q + 2]
    <3>1. Len(b) = Len(text) - q /\ \A m \in 1 .. Len(text) - q : b[m] = text[q + m]
      BY <2>5, <2>6, RestProperties
    <3> QED
      BY <2>6, <2>8, <3>1
  <2>10. PICK i \in Item : _jscon_branch_build(i, b[1][2], SubSeq(b, 3, Len(b)))
    BY <2>1, <2>7, <2>8, <2>9, Zenon
  <2>11. SubSeq(b, 3, Len(b)) = Rest(text, q + 2)
    <3>1. Len(text) - q >= 2
      BY <2>6, <2>8
    <3> QED
      BY <2>5, <2>6, <3>1, RestFromThird
  <2> DEFINE z == q + 2
             k == b[1][2]
  <2>12. /\ z \in n .. Len(text) - 1 /\ Steady(text, n, z)
         /\ Moves(text, n, z, 0, 0, 1, x)
         /\ BeginsValue(text[z + 1])
         /\ _jscon_branch_build(i, k, Rest(text, z))
    <3>1. z + 1 = q + 3 /\ z \in n .. Len(text) - 1
      BY <2>6, <2>8
    <3>2. Steady(text, n, z) /\ Moves(text, n, z, 0, 0, 1, x) /\ BeginsValue(text[z + 1])
      BY <2>8, <3>1
    <3>3. _jscon_branch_build(i, k, Rest(text, z))
      BY <2>10, <2>11
    <3> QED
      BY <3>1, <3>2, <3>3
  <2> HIDE DEF z, k
  <2>13. Moves(text, n, z, 0, 0, IF type[item] = "object" THEN 1 ELSE 0,
                                 IF branch[item] = <<>> THEN 0 ELSE 1)
    BY <1>1, <2>12 DEF x
  <2> QED
    BY <1>1, <1>2, <2>12, <2>13, RoomBranch
<1> QED
  BY <1>5, <1>6

\* An edit forgets the root.
LEMMA RoomEdit ==
  ASSUME IsFiniteSet(Item), Client \subseteq {"oom"}, ParseInv, status = "ok", ~Parsing, edit
  PROVE  RoomInv'
<1>1. item = NULL
  BY LoopEnds DEF Parsing
<1>2. Next /\ root' = NULL /\ item' = item
  BY DEF edit
<1>3. ListInv'
  BY <1>1, <1>2, ParsedListInv, NextListInv
<1> QED
  BY <1>1, <1>2, <1>3 DEF RoomInv, ListInv

LEMMA RoomNext ==
  ASSUME IsFiniteSet(Item), Client \subseteq {"oom"}, \A document \in Document : Json(document),
         ParseInv, RoomInv, [ParseNext]_parsevars
  PROVE  RoomInv'
<1>1. ASSUME ~Parsing, NEW i \in Item, NEW document \in Document, jscon_parse(i, document)
      PROVE  RoomInv'
  <2>1. item = NULL
    BY <1>1, LoopEnds DEF Parsing
  <2>2. WellFormed(document) /\ Json(document)
    BY DocumentAssumption
  <2> QED
    BY <1>1, <2>1, <2>2, RoomEntity
<1>2. CASE status = "ok" /\ ~Parsing /\ edit
  BY <1>2, RoomEdit
<1>3. CASE _jscon_array_build
  BY <1>3, RoomArray
<1>4. CASE _jscon_object_build
  BY <1>4, RoomObject
<1>5. CASE _jscon_item_init_oom
  <2>1. status' = "no_memory" /\ UNCHANGED <<type, parent, branch, capacity, reading>>
    BY <1>5 DEF _jscon_item_init_oom, Fault, nodes
  <2> QED
    BY <2>1 DEF RoomInv, NoFault, reading
<1>6. CASE UNCHANGED parsevars
  BY <1>6 DEF RoomInv, NoFault, parsevars, vars, nodes, reading
<1> QED
  BY <1>1, <1>2, <1>3, <1>4, <1>5, <1>6 DEF ParseNext

LEMMA RoomInit == ParseInit => RoomInv
BY DEF ParseInit, Init, RoomInv, NoFault

\* Between two texts what was parsed has the room that RoomFits tells.
LEMMA RoomGivesFits ==
  ASSUME ParseInv, RoomInv
  PROVE  RoomFits
<1> SUFFICES ASSUME root # NULL, ~Parsing, NEW c \in Below(root, branch)
             PROVE  /\ type[c] = "object" => capacity[c] = 1 + Len(branch[c])
                    /\ type[c] = "array" => capacity[c] = 1 + Cardinality(Following(c))
  BY DEF RoomFits
<1>1. /\ TypeOK /\ root \in Item
      /\ parent \in [Item -> Item \cup {NULL}] /\ branch \in [Item -> Seq(Item)]
      /\ ArraysAgree(type, parent, branch)
  BY DEF ParseInv, ParseTypeOK, TypeOK, Grown
<1>2. item = NULL
  BY LoopEnds DEF Parsing
<1>3. type[root] \in Living /\ FitBut(type, parent, branch, capacity, root, {})
  BY <1>2 DEF RoomInv, Unwrapped
<1>4. c \in Item /\ type[c] \in Living
  BY <1>1, <1>3, BelowProperties, AllAlive
<1>5. root \in Upward(c, parent)
  BY <1>1, <1>3, <1>4, BelowIsUpward
<1>6. type[c] \in Composite => Fits(type, parent, branch, capacity, c)
  BY <1>3, <1>4, <1>5 DEF FitBut
<1>7. Following(c) = FollowingOf(type, parent, branch, c)
  BY <1>1, <1>4, FollowingIsUpward
<1> QED
  BY <1>6, <1>7 DEF Fits, Composite

------------------------------------------------------------------------------
(* What is proved of jscon_parse() and of the edits between two texts.     *)

(***************************************************************************)
(* Every variable of the parser holds what its C type and its use allow:   *)
(* a primitive has a value, and the loop's pointers lead to items.         *)
(***************************************************************************)
THEOREM ParserIsTyped ==
  ASSUME IsFiniteSet(Item), Client \subseteq {"oom"}
  PROVE  ParseSpec => []ParseTypeOK
<1>1. ParseInv => ParseTypeOK
  BY DEF ParseInv
<1> QED
  BY ParseInitInv, ParseNextInv, <1>1, PTL DEF ParseSpec

(***************************************************************************)
(* For well-formed texts the loop of jscon_parse() ends when the root's    *)
(* bracket is closed, and that is the last token: the item is NULL exactly *)
(* when nothing is left of the text.                                       *)
(***************************************************************************)
THEOREM WholeTextIsRead ==
  ASSUME IsFiniteSet(Item), Client \subseteq {"oom"}
  PROVE  ParseSpec => []ReadsWholeText
<1>1. ParseInv => ReadsWholeText
  BY LoopEnds DEF ReadsWholeText
<1> QED
  BY ParseInitInv, ParseNextInv, <1>1, PTL DEF ParseSpec

(***************************************************************************)
(* What jscon_parse() builds is at every turn of its loop a tree like      *)
(* those that calls build: arrays and parents agree, every item hangs from *)
(* a root, and the list of composites, which the loop extends at its end,  *)
(* is in the order of the tree.  When the loop is over every hashtable     *)
(* holds every branch, which takes that no key came twice.                 *)
(***************************************************************************)
THEOREM ParsedTreesAreSound ==
  ASSUME IsFiniteSet(Item), Client \subseteq {"oom"}
  PROVE  ParseSpec => []ParsedIsSound
<1>1. ASSUME ParseInv
      PROVE  ParsedIsSound
  <2>1. /\ parent \in [Item -> Item \cup {NULL}]
        /\ branch \in [Item -> Seq(Item)]
        /\ ArraysAgree(type, parent, branch)
        /\ Climbs(type, parent)
        /\ Lists(type, parent, branch, next, prev)
    BY <1>1 DEF ParseInv, Grown
  <2>2. Forest /\ Rooted /\ ListIsPreorder
    BY <2>1, ForestOfArrays, RootedByParents, ListsInOrder
  <2>3. ASSUME ~Parsing
        PROVE  TableExact
    <3>1. item = NULL
      BY <1>1, <2>3, LoopEnds DEF Parsing
    <3>2. HashedBut(type, key, branch, table, {})
      BY <1>1, <3>1 DEF ParseInv, Unwrapped
    <3> QED
      BY <3>2 DEF HashedBut, TableExact, IsComposite, Members
  <2> QED
    BY <2>2, <2>3 DEF ParsedIsSound
<1> QED
  BY ParseInitInv, ParseNextInv, <1>1, PTL DEF ParseSpec

LEMMA ParseAlwaysRoom ==
  ASSUME IsFiniteSet(Item), Client \subseteq {"oom"}, \A document \in Document : Json(document)
  PROVE  ParseSpec => [](ParseInv /\ RoomInv)
<1>1. (ParseInv /\ RoomInv) /\ [ParseNext]_parsevars => (ParseInv /\ RoomInv)'
  BY ParseNextInv, RoomNext
<1> QED
  BY ParseInitInv, RoomInit, <1>1, PTL DEF ParseSpec

(***************************************************************************)
(* For texts of JSON the room that jscon_parse() counts ahead is never too *)
(* small, and nothing that comes next in the text is refused: neither the  *)
(* parser nor an edit of what it built goes wrong.                         *)
(***************************************************************************)
THEOREM JsonNeverFaults ==
  ASSUME IsFiniteSet(Item), Client \subseteq {"oom"}, \A document \in Document : Json(document)
  PROVE  ParseSpec => []NoFault
<1>1. ParseInv /\ RoomInv => NoFault
  BY DEF RoomInv
<1> QED
  BY <1>1, ParseAlwaysRoom, PTL

(***************************************************************************)
(* Nor is it larger than this: when the loop is over an object has one     *)
(* branch to spare, and an array has room for one more than the commas in  *)
(* it and in the objects that it holds.                                    *)
(***************************************************************************)
THEOREM RoomIsExact ==
  ASSUME IsFiniteSet(Item), Client \subseteq {"oom"}, \A document \in Document : Json(document)
  PROVE  ParseSpec => []RoomFits
<1>1. ParseInv /\ RoomInv => RoomFits
  BY RoomGivesFits
<1> QED
  BY <1>1, ParseAlwaysRoom, PTL

==============================================================================
