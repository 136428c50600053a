------------------------------ MODULE JsconGet ------------------------------
(***************************************************************************)
(* The getters of src/src/jscon-public.c that find an item by its place:   *)
(* jscon_get_byindex() and jscon_get_sibling().  The relative index of     *)
(* jscon_get_sibling() is a size_t, in which a caller passes -1 as the     *)
(* largest one, and the code casts a size_t to an int to tell negative     *)
(* places.                                                                 *)
(***************************************************************************)
EXTENDS JsconTree

CONSTANTS
  SIZE_MAX,  \* the largest size_t
  INT_MAX    \* the largest int

\* Both types wrap, at an even number of values; a size_t is not narrower.
ASSUME WidthAssumption ==
  /\ SIZE_MAX \in Nat /\ SIZE_MAX % 2 = 1
  /\ INT_MAX \in Nat /\ 2 * INT_MAX + 1 <= SIZE_MAX

SizeT == 0 .. SIZE_MAX

\* What is left of a size_t in an int.
AsInt(n) ==
  LET low == n % (2 * INT_MAX + 2)
  IN  IF low <= INT_MAX THEN low ELSE low - (2 * INT_MAX + 2)

jscon_size(x) == IF IsComposite(x) THEN Len(branch[x]) ELSE 0

jscon_get_byindex(x, index) ==
  IF index < Len(branch[x]) THEN branch[x][index + 1] ELSE NULL

\* The index under the key of x in its parent, which is -1 for an absent key.
item_index(x) ==
  IF key[x] \in DOMAIN table[parent[x]]
    THEN jscon_get_index(parent[x], key[x]) - 1
    ELSE SIZE_MAX

\* Mutant: the first branch is taken for a negative place.
jscon_get_sibling_positive(x, relative_index) ==
  LET index == (item_index(x) + relative_index) % (SIZE_MAX + 1)
  IN  IF 0 < AsInt(index) /\ jscon_size(parent[x]) > index
        THEN jscon_get_byindex(parent[x], index)
        ELSE NULL

jscon_get_sibling(x, relative_index) ==
  LET index == (item_index(x) + relative_index) % (SIZE_MAX + 1)
  IN  IF 0 <= AsInt(index) /\ jscon_size(parent[x]) > index
        THEN jscon_get_byindex(parent[x], index)
        ELSE NULL
------------------------------------------------------------------------------

(***************************************************************************)
(* jscon_get_sibling() of a live branch gets, for every relative index     *)
(* forward or back, the branch at that distance in the parent's array, and *)
(* NULL where there is none, whatever edits gave the branch its key.       *)
(***************************************************************************)
Distance(relative_index) ==
  IF relative_index <= SIZE_MAX \div 2
    THEN relative_index
    ELSE relative_index - (SIZE_MAX + 1)

SiblingInPlace ==
  \A x \in Item : Alive(x) /\ ~IsRoot(x) =>
    \A n \in DOMAIN branch[parent[x]], r \in SizeT :
      branch[parent[x]][n] = x =>
        LET m == n + Distance(r)
        IN  jscon_get_sibling(x, r) =
              IF m \in DOMAIN branch[parent[x]] THEN branch[parent[x]][m] ELSE NULL
==============================================================================
