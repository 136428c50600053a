---------------------------- MODULE MCJsconIter ----------------------------
(***************************************************************************)
(* Walks over small forests.  Items and walks are interchangeable; frames  *)
(* of primitives and of freed items are never read.                        *)
(***************************************************************************)
EXTENDS JsconIter

Symmetric == Permutations(Item) \cup Permutations(Walk)

Live(f) == [i \in {j \in Item : Alive(j)} |-> f[i]]

Visible == <<type, Live(key), Live(parent), Live(branch), Live(table),
             Live(num_bucket), Live(next), Live(prev), status, Live(last), walks>>

\* Bound: while there are frames left, the trees only grow.
OnlyGrow ==
  (\E i \in Item : last[i] # 0) =>
    UNCHANGED <<type, key, nodes, links>> \/ \E p, c \in Item : jscon_append(p, c)

\* Bound where liveness is checked, which forbids the symmetry: the items are
\* created in one order, and trees are built and not taken apart.
Memory == SetToSeq(Item)

BuiltInOrder ==
  /\ \A n \in DOMAIN Memory :
       type[Memory[n]] = "unborn" /\ type'[Memory[n]] # "unborn" =>
         \A m \in 1 .. n - 1 : type[Memory[m]] # "unborn"
  /\ \A i \in Item : type'[i] # "freed" /\ parent[i] \in {NULL, parent'[i]}

Bounds == OnlyGrow /\ BuiltInOrder
============================================================================
