------------------------------ MODULE JsconTree ------------------------------
(***************************************************************************)
(* The JSON item tree of src/src/jscon-public.c as a client builds, edits  *)
(* and destroys it: parent pointers, branch arrays, the hashtable of every *)
(* composite, and the doubly linked list of composites that                *)
(* jscon_iter_composite_r() walks.                                         *)
(*                                                                         *)
(* A composite's hashtable is the first-wins map that HashTable is proved  *)
(* to implement.  Values of items are left out, a primitive is a "leaf".   *)
(* Memory is not reused: a freed item keeps its stale fields and is never  *)
(* born again.  A fault (failed assertion, access to freed or foreign      *)
(* memory, endless loop) ends the program: status says which, and what the *)
(* call had changed until then does not matter any more.  Where the parser *)
(* gives up because malloc() failed, status is "no_memory".                *)
(*                                                                         *)
(* The code asks much of its client without saying so.  Client names the   *)
(* liberties that the client of a run takes; with none of them it          *)
(*   - gives siblings different keys (no "duplicate_keys"): nor does it    *)
(*     append to an array that would choose the key of another branch, as  *)
(*     it may once a branch was dettached,                                 *)
(*   - dettaches and deletes composites only (no "dettach_leaf"),          *)
(*   - appends a composite to a root only, that is bottom-up, and          *)
(*     dettaches a composite only while none follows it (no "any_list").   *)
(* "oom" makes realloc() fail at any call.                                 *)
(***************************************************************************)
EXTENDS Integers, FiniteSets, SequencesExt

CONSTANTS
  Item,    \* addresses that malloc() hands out
  Name,    \* keys that the client chooses
  Kind,    \* types of the items that the client creates
  NULL,
  Client   \* the liberties that the client takes

Composite == {"object", "array"}
Living == Composite \cup {"leaf"}

ASSUME KindAssumption == Kind \subseteq Living
ASSUME ItemAssumption == NULL \notin Item
ASSUME NameAssumption == NULL \notin Name \cup Nat
ASSUME ClientAssumption ==
  Client \subseteq {"duplicate_keys", "dettach_leaf", "any_list", "oom"}

VARIABLES
  type,        \* "unborn" before malloc(), "freed" after free()
  key,
  parent,
  branch,      \* the branch array, num_branch is its length
  table,       \* the hashtable of each composite, by key
  num_bucket,  \* and its number of buckets
  next, prev,  \* the list of composites
  status       \* "ok", or how the program ended

links == <<next, prev>>
nodes == <<parent, branch, table, num_bucket>>
vars == <<type, key, nodes, links, status>>

\* A branch index as a key: what snprintf("%zu") makes of it in an array.
Key == Name \cup Nat

Alive(i) == type[i] \in Living
IsComposite(i) == type[i] \in Composite
IsRoot(i) == parent[i] = NULL
Members(i) == ToSet(branch[i])

\* The least set that holds x and, with an item, its successors.
Reach(x, succ) ==
  LET closed == {S \in SUBSET Item : x \in S /\ \A i \in S : succ[i] \subseteq S}
  IN  {i \in Item : \A S \in closed : i \in S}

\* x and the items met by following a pointer of each item.
Along(x, pointer) == Reach(x, [i \in Item |-> {pointer[i]} \ {NULL}])

\* x and the items above it, x and the items below it.
Upward(x, up) == Along(x, up)
Below(x, down) == Reach(x, [i \in Item |-> ToSet(down[i])])

Root(x) == CHOOSE r \in Upward(x, parent) : IsRoot(r)

\* Mutant: the list of item is not walked to its end.
DeepestIsItem(x, up) == [outcome |-> "ok", comp_last |-> x]

(***************************************************************************)
(* _jscon_depth() and _jscon_get_deepest(): the walk along the list that   *)
(* goes on until the next composite is shallower than x.  It may meet      *)
(* freed memory or never end when the list is not what it should be.       *)
(***************************************************************************)
Depth(x, up) == Cardinality(Upward(x, up)) - 1

Deepest(x, up) ==
  LET depth == [i \in Item |-> Depth(i, up)]
      goes_on == {i \in Item : next[i] # NULL /\ depth[next[i]] >= depth[x]}
      walk == Reach(x, [i \in Item |-> IF i \in goes_on THEN {next[i]} ELSE {}])
      read == (walk \cup {next[i] : i \in walk}) \ {NULL}
  IN  IF \E i \in read : \E a \in Upward(i, up) : ~Alive(a)
        THEN [outcome |-> "crash", comp_last |-> NULL]
      ELSE IF walk \subseteq goes_on
        THEN [outcome |-> "hang", comp_last |-> NULL]
      ELSE [outcome |-> "ok", comp_last |-> CHOOSE i \in walk : i \notin goes_on]

(***************************************************************************)
(* Hashtables: an entry is added unless its key is taken, and a table that *)
(* is remade takes the branches in order.                                  *)
(***************************************************************************)
Put(t, k, c) ==
  [q \in DOMAIN t \cup {k} |-> IF q \in DOMAIN t THEN t[q] ELSE c]

FirstWins(b, ks) ==
  LET At(k) == {i \in DOMAIN b : ks[b[i]] = k}
  IN  [k \in {ks[b[i]] : i \in DOMAIN b} |->
         b[CHOOSE i \in At(k) : \A j \in At(k) : i <= j]]

\* Mutant: the default size taken away instead of added.
BucketsShrunk(num_branch) == (13 * num_branch) \div 10 - 2

Buckets(num_branch) == 2 + (13 * num_branch) \div 10

Init ==
  /\ type = [i \in Item |-> "unborn"]
  /\ key = [i \in Item |-> NULL]
  /\ parent = [i \in Item |-> NULL]
  /\ branch = [i \in Item |-> <<>>]
  /\ table = [i \in Item |-> <<>>]
  /\ num_bucket = [i \in Item |-> 0]
  /\ next = [i \in Item |-> NULL]
  /\ prev = [i \in Item |-> NULL]
  /\ status = "ok"

\* jscon_null() and its siblings, jscon_object(), jscon_array().
jscon_new(i, t, k) ==
  /\ type[i] = "unborn"
  /\ type' = [type EXCEPT ![i] = t]
  /\ key' = [key EXCEPT ![i] = k]
  /\ num_bucket' = [num_bucket EXCEPT ![i] = IF t \in Composite THEN Buckets(0) ELSE 0]
  /\ UNCHANGED <<parent, branch, table, links, status>>

\* The process ends: no call can observe what is left of the memory.
Fault(how) ==
  /\ status' = how
  /\ UNCHANGED <<type, key, nodes, links>>

------------------------------------------------------------------------------
(* jscon_append()                                                          *)

\* The key that new_branch gets: its index in an array, its own in an object.
NewKey(item, new_branch) ==
  IF type[item] = "array" THEN Len(branch[item]) ELSE key[new_branch]

CanAppend(item, new_branch) ==
  /\ IsComposite(item)
  /\ Alive(new_branch) /\ IsRoot(new_branch)
  /\ new_branch \notin Upward(item, parent)
  /\ NewKey(item, new_branch) # NULL
  /\ "duplicate_keys" \in Client \/
       NewKey(item, new_branch) \notin {key[c] : c \in Members(item)}
  /\ "any_list" \in Client \/ ~IsComposite(new_branch) \/ IsRoot(item)

\* The list of new_branch follows the deepest composite of item: whatever
\* followed that one before is dropped.
jscon_append(item, new_branch) ==
  /\ CanAppend(item, new_branch)
  /\ LET k == NewKey(item, new_branch)
         num_branch == Len(branch[item]) + 1
         up == [parent EXCEPT ![new_branch] = item]
         deepest == IF IsComposite(new_branch)
                      THEN Deepest(item, up)
                      ELSE [outcome |-> "ok", comp_last |-> NULL]
     IN  IF deepest.outcome # "ok" THEN Fault(deepest.outcome)
         ELSE /\ parent' = up
              /\ key' = [key EXCEPT ![new_branch] = k]
              /\ branch' = [branch EXCEPT ![item] = Append(@, new_branch)]
              /\ IF num_branch <= num_bucket[item]
                   THEN /\ table' = [table EXCEPT ![item] = Put(@, k, new_branch)]
                        /\ UNCHANGED num_bucket
                   ELSE /\ table' = [table EXCEPT ![item] =
                                       FirstWins(branch'[item], key')]
                        /\ num_bucket' = [num_bucket EXCEPT ![item] = Buckets(num_branch)]
              /\ IF IsComposite(new_branch)
                   THEN /\ next' = [next EXCEPT ![deepest.comp_last] = new_branch]
                        /\ prev' = [prev EXCEPT ![new_branch] = deepest.comp_last]
                   ELSE UNCHANGED links
              /\ UNCHANGED <<type, status>>

\* realloc() fails: hold_key gives an array's new branch its old key back,
\* and an object's new branch is left with hold_key, which is NULL.
jscon_append_oom(item, new_branch) ==
  /\ "oom" \in Client
  /\ CanAppend(item, new_branch)
  /\ key' = IF type[item] = "array" THEN key ELSE [key EXCEPT ![new_branch] = NULL]
  /\ UNCHANGED <<type, nodes, links, status>>

------------------------------------------------------------------------------
(* jscon_dettach(), jscon_delete(), jscon_destroy()                        *)

\* jscon_get_index() of a key of item: the first position of the item that
\* the table holds under the key.
jscon_get_index(item, k) ==
  LET At == {i \in DOMAIN branch[item] : branch[item][i] = table[item][k]}
  IN  CHOOSE i \in At : \A j \in At : i <= j

\* Mutant: the index after the item's, where there is one.
RemovedNext(x) ==
  LET n == jscon_get_index(parent[x], key[x])
  IN  IF n < Len(branch[parent[x]]) THEN n + 1 ELSE n

\* The index that jscon_dettach() removes: the last one when there is no such
\* key, because the -1 it gets then is the largest size_t.
Removed(x) ==
  IF key[x] \in DOMAIN table[parent[x]]
    THEN jscon_get_index(parent[x], key[x])
    ELSE Len(branch[parent[x]])

\* Mutant: the last branch fills the gap.
WithoutSwapped(x) ==
  LET b == branch[parent[x]]
  IN  [branch EXCEPT ![parent[x]] =
         SubSeq([b EXCEPT ![Removed(x)] = b[Len(b)]], 1, Len(b) - 1)]

Without(x) == [branch EXCEPT ![parent[x]] = RemoveAt(@, Removed(x))]

\* No composite comes after those below x when the tree is read in order.
NoneFollows(x) ==
  \A a \in {b \in Upward(x, parent) : ~IsRoot(b)} :
    \A i, j \in DOMAIN branch[parent[a]] :
      branch[parent[a]][i] = a /\ i < j => ~IsComposite(branch[parent[a]][j])

CanDettach(x) ==
  /\ Alive(x) /\ ~IsRoot(x)
  /\ "dettach_leaf" \in Client \/ IsComposite(x)
  /\ "any_list" \in Client \/ NoneFollows(x)

\* The memory that jscon_dettach() goes on with for a primitive is not a
\* composite: reading it may crash before the assertion of
\* _jscon_get_deepest() fails.
DettachOutcomes(x) ==
  IF ~IsComposite(x) THEN {"abort", "crash"}
  ELSE IF Deepest(x, parent).outcome # "ok" THEN {Deepest(x, parent).outcome}
  ELSE IF prev[x] = NULL THEN {"crash"}
  ELSE IF ~Alive(prev[x]) THEN {"crash"}
  ELSE {"ok"}

\* Mutant: the composite before the item still leads to it.
SpliceOneWay(x) ==
  /\ next' = [next EXCEPT ![Deepest(x, parent).comp_last] = NULL]
  /\ prev' = [prev EXCEPT ![x] = NULL]

\* What jscon_dettach() makes of the list: the composites of the item are cut
\* out, and the one that follows keeps its pointer back.
Splice(x) ==
  LET comp_last == Deepest(x, parent).comp_last
      spliced == [next EXCEPT ![prev[x]] = next[comp_last]]
  IN  /\ next' = [spliced EXCEPT ![comp_last] = NULL]
      /\ prev' = [prev EXCEPT ![x] = NULL]

\* Mutant: the item keeps its parent.
UnlinkKeepsParent(x) ==
  /\ branch' = Without(x)
  /\ table' = [table EXCEPT ![parent[x]] = FirstWins(branch'[parent[x]], key)]
  /\ num_bucket' = [num_bucket EXCEPT ![parent[x]] =
                      Buckets(Len(branch[parent[x]]) - 1)]
  /\ Splice(x)
  /\ UNCHANGED parent

\* Mutant: the hashtable is not remade.
UnlinkKeepsTable(x) ==
  /\ branch' = Without(x)
  /\ parent' = [parent EXCEPT ![x] = NULL]
  /\ Splice(x)
  /\ UNCHANGED <<table, num_bucket>>

\* What jscon_dettach() makes of the tree and of the list.
Unlink(x) ==
  /\ branch' = Without(x)
  /\ table' = [table EXCEPT ![parent[x]] = FirstWins(branch'[parent[x]], key)]
  /\ num_bucket' = [num_bucket EXCEPT ![parent[x]] =
                      Buckets(Len(branch[parent[x]]) - 1)]
  /\ parent' = [parent EXCEPT ![x] = NULL]
  /\ Splice(x)

\* A root is returned as it is.  The parent's array is reallocated first,
\* and when that fails nothing happens.
jscon_dettach(x) ==
  /\ CanDettach(x)
  /\ \E outcome \in DettachOutcomes(x) :
       IF outcome # "ok" THEN Fault(outcome)
       ELSE Unlink(x) /\ UNCHANGED <<type, key, status>>

\* _jscon_destroy_preorder() from r: it frees each item it meets once, unless
\* a branch array sends it to an item twice or to one that was freed.
FreesOnce(r, down) ==
  LET slots == UNION {{<<i, n>> : n \in DOMAIN down[i]} : i \in Below(r, down)}
  IN  /\ \A i \in Below(r, down) : Alive(i)
      /\ \A s \in slots : down[s[1]][s[2]] # r
      /\ \A s, t \in slots : down[s[1]][s[2]] = down[t[1]][t[2]] => s = t

FreeAll(gone) ==
  type' = [i \in Item |-> IF i \in gone THEN "freed" ELSE type[i]]

\* Whatever item it is called with, the whole tree goes.
jscon_destroy(x) ==
  /\ Alive(x)
  /\ IF \E a \in Upward(x, parent) : ~Alive(a) THEN Fault("crash")
     ELSE IF \A a \in Upward(x, parent) : ~IsRoot(a) THEN Fault("hang")
     ELSE IF ~FreesOnce(Root(x), branch) THEN Fault("crash")
     ELSE /\ FreeAll(Below(Root(x), branch))
          /\ UNCHANGED <<key, nodes, links, status>>

\* An absent key is no error.
jscon_delete(item, k) ==
  /\ IsComposite(item)
  /\ k \in DOMAIN table[item]
  /\ CanDettach(table[item][k])
  /\ LET x == table[item][k]
     IN  \E outcome \in DettachOutcomes(x) :
           IF outcome # "ok" THEN Fault(outcome)
           ELSE IF ~FreesOnce(x, Without(x)) THEN Fault("crash")
           ELSE /\ Unlink(x)
                /\ FreeAll(Below(x, branch'))
                /\ UNCHANGED <<key, status>>

\* realloc() fails in jscon_dettach(), which returns without a word: the
\* branch is still in the tree when jscon_destroy() is called with it.
jscon_delete_oom(item, k) ==
  /\ "oom" \in Client
  /\ IsComposite(item)
  /\ k \in DOMAIN table[item]
  /\ CanDettach(table[item][k])
  /\ jscon_destroy(table[item][k])

Next ==
  /\ status = "ok"
  /\ \/ \E i \in Item, t \in Kind, k \in Name \cup {NULL} : jscon_new(i, t, k)
     \/ \E p, c \in Item : jscon_append(p, c)
     \/ \E p, c \in Item : jscon_append_oom(p, c)
     \/ \E x \in Item : jscon_dettach(x)
     \/ \E x \in Item : jscon_destroy(x)
     \/ \E p \in Item : \E k \in DOMAIN table[p] : jscon_delete(p, k)
     \/ \E p \in Item : \E k \in DOMAIN table[p] : jscon_delete_oom(p, k)

Spec == Init /\ [][Next]_vars
------------------------------------------------------------------------------

TypeOK ==
  /\ type \in [Item -> Living \cup {"unborn", "freed"}]
  /\ key \in [Item -> Key \cup {NULL}]
  /\ parent \in [Item -> Item \cup {NULL}]
  /\ branch \in [Item -> Seq(Item)]
  /\ DOMAIN table = Item
  /\ \A i \in Item : /\ DOMAIN table[i] \subseteq Key
                    /\ \A k \in DOMAIN table[i] : table[i][k] \in Item
  /\ num_bucket \in [Item -> Nat]
  /\ next \in [Item -> Item \cup {NULL}]
  /\ prev \in [Item -> Item \cup {NULL}]
  /\ status \in {"ok", "abort", "crash", "hang", "no_memory"}

(***************************************************************************)
(* Branch arrays and parent pointers describe the same forest: an item is  *)
(* in one place of one array, that of its parent, and no live item points  *)
(* to one that was freed.  jscon_destroy() would free an item twice, or    *)
(* never, if not.                                                          *)
(***************************************************************************)
BranchesHaveParent ==
  \A p \in Item : Alive(p) =>
    \A c \in Members(p) : Alive(c) /\ parent[c] = p

ParentsHaveBranch ==
  \A c \in Item : Alive(c) /\ ~IsRoot(c) =>
    IsComposite(parent[c]) /\ c \in Members(parent[c])

NoItemTwice ==
  \A p \in Item : \A i, j \in DOMAIN branch[p] :
    branch[p][i] = branch[p][j] => i = j

Forest == BranchesHaveParent /\ ParentsHaveBranch /\ NoItemTwice

(***************************************************************************)
(* Every live item hangs from a root: jscon_get_root() and _jscon_depth()  *)
(* climb to an end, and jscon_destroy() can reach what it must free.       *)
(***************************************************************************)
Rooted ==
  \A x \in Item : Alive(x) =>
    \E r \in Upward(x, parent) : IsRoot(r) /\ x \in Below(r, branch)

(***************************************************************************)
(* A composite's hashtable holds each of its branches under the key the    *)
(* branch has now, and nothing else, whether it was filled entry by entry  *)
(* or remade.  The index that jscon_dettach() looks up is then the item's, *)
(* and "Item exists in hashtable but is not referenced by parent" is never *)
(* reached.                                                                *)
(***************************************************************************)
TableExact ==
  \A p \in Item : IsComposite(p) =>
    /\ DOMAIN table[p] = {key[c] : c \in Members(p)}
    /\ \A c \in Members(p) : table[p][key[c]] = c

(***************************************************************************)
(* a comes before b when a tree is read from its root, an item first and   *)
(* then its branches in order.                                             *)
(***************************************************************************)
Before(a, b) ==
  \/ a # b /\ a \in Upward(b, parent)
  \/ \E p \in Item : \E i, j \in DOMAIN branch[p] :
       /\ i < j
       /\ branch[p][i] \in Upward(a, parent)
       /\ branch[p][j] \in Upward(b, parent)

(***************************************************************************)
(* The list that jscon_iter_composite_r() walks from a root holds exactly  *)
(* the composites of its tree, in the order of the text they print as, and *)
(* its backward pointers, which jscon_dettach() splices it with, mirror    *)
(* the forward ones.                                                       *)
(***************************************************************************)
Listed(r) == Along(r, next)

ListIsPreorder ==
  \A r \in Item : IsComposite(r) /\ IsRoot(r) =>
    /\ Listed(r) = {c \in Below(r, branch) : IsComposite(c)}
    /\ prev[r] = NULL
    /\ \A c \in Listed(r) : next[c] # NULL =>
         Before(c, next[c]) /\ prev[next[c]] = c

(***************************************************************************)
(* No call faults.  The parser asserts that it gets its memory: to give up *)
(* there is not a fault.                                                   *)
(***************************************************************************)
NoFault == status \in {"ok", "no_memory"}

(***************************************************************************)
(* A call changes an array of live branches in one place: it appends a     *)
(* root at the end, or takes out one item, which becomes a root or is      *)
(* freed, and the others keep their order.                                 *)
(***************************************************************************)
Appended(p) ==
  \E c \in Item : /\ IsRoot(c) /\ parent'[c] = p
                  /\ branch'[p] = Append(branch[p], c)

TakenOut(p) ==
  \E n \in DOMAIN branch[p] : /\ parent'[branch[p][n]] = NULL
                              /\ branch'[p] = RemoveAt(branch[p], n)

OrderKept ==
  [][\A p \in Item : branch'[p] = branch[p] \/ Appended(p) \/ TakenOut(p)]_vars

(***************************************************************************)
(* Parent pointers and branch arrays behave as an ordered forest: a call   *)
(* creates an item, appends a tree, takes out the tree it is to take out,  *)
(* or frees exactly one, however keys, hashtables and allocations went.    *)
(***************************************************************************)
Ordered == INSTANCE OrderedForest WITH
  there <- {i \in Item : Alive(i)},
  above <- [i \in Item |-> IF Alive(i) THEN parent[i] ELSE NULL],
  below <- [i \in Item |-> IF Alive(i) THEN branch[i] ELSE <<>>]

ImplementsForest == Ordered!ForestSpec

------------------------------------------------------------------------------
(* What the repository says of calls that the code handles otherwise.      *)

(***************************************************************************)
(* jscon_dettach(): "dettach the item from its parent".  The item that the *)
(* caller names is the one that leaves the array.                          *)
(***************************************************************************)
DettachTakesItem ==
  [][\A x \in Item : jscon_dettach(x) /\ status' = "ok" =>
       x \notin ToSet(branch'[parent[x]])]_vars
==============================================================================
