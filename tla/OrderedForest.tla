---------------------------- MODULE OrderedForest ----------------------------
(***************************************************************************)
(* What the item tree of src/src/jscon-public.c promises its client, and   *)
(* no more than jscon_get_parent() and jscon_get_byindex() show of it: a   *)
(* forest of ordered trees.  No keys, hashtables, lists or faults.         *)
(***************************************************************************)
EXTENDS Integers, Sequences

CONSTANTS Item, NULL

VARIABLES
  there,  \* the items that exist
  above,  \* the parent of each, NULL for a root
  below   \* the branches of each, in order

forest == <<there, above, below>>

ForestInit ==
  /\ there = {}
  /\ above = [i \in Item |-> NULL]
  /\ below = [i \in Item |-> <<>>]

\* The tree that hangs from x: it has x and the branches of what it has.
Tree(x) ==
  LET closed == {S \in SUBSET there :
                   x \in S /\ \A i \in there : above[i] \in S => i \in S}
  IN  {i \in there : \A S \in closed : i \in S}

Create(x) ==
  /\ x \notin there
  /\ there' = there \cup {x}
  /\ UNCHANGED <<above, below>>

\* A root, with its tree, becomes the last branch of an item of another tree.
AppendTo(p, x) ==
  /\ p \in there /\ x \in there
  /\ above[x] = NULL /\ p \notin Tree(x)
  /\ above' = [above EXCEPT ![x] = p]
  /\ below' = [below EXCEPT ![p] = Append(@, x)]
  /\ UNCHANGED there

\* The branches without the one at position n of those of p: the gap closes.
Cut(p, n) ==
  [below EXCEPT ![p] = SubSeq(@, 1, n - 1) \o SubSeq(@, n + 1, Len(@))]

Dettach(x) ==
  /\ x \in there /\ above[x] # NULL
  /\ \E n \in DOMAIN below[above[x]] :
       below[above[x]][n] = x /\ below' = Cut(above[x], n)
  /\ above' = [above EXCEPT ![x] = NULL]
  /\ UNCHANGED there

\* What is left of the items when those of gone are no more.
Vanish(gone, down) ==
  /\ there' = there \ gone
  /\ above' = [i \in Item |-> IF i \in gone THEN NULL ELSE above[i]]
  /\ below' = [i \in Item |-> IF i \in gone THEN <<>> ELSE down[i]]

Delete(x) ==
  /\ x \in there /\ above[x] # NULL
  /\ \E n \in DOMAIN below[above[x]] :
       below[above[x]][n] = x /\ Vanish(Tree(x), Cut(above[x], n))

\* A tree goes as a whole.  This is what the code does, src/doc/api/
\* jscon_destroy.md:13 says that what is above the item stays.
Destroy(r) ==
  /\ r \in there /\ above[r] = NULL
  /\ Vanish(Tree(r), below)

ForestNext ==
  \E x \in Item :
    \/ Create(x)
    \/ \E p \in Item : AppendTo(p, x)
    \/ Dettach(x)
    \/ Delete(x)
    \/ Destroy(x)

ForestSpec == ForestInit /\ [][ForestNext]_forest
==============================================================================
