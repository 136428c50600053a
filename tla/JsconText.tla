------------------------------ MODULE JsconText ------------------------------
(***************************************************************************)
(* jscon_stringify() of src/src/jscon-stringify.c and jscon_clone(), which *)
(* stringifies an item and parses the text into a new tree.                *)
(***************************************************************************)
EXTENDS JsconParse

VARIABLES
  source,  \* the item that jscon_clone() was called with, NULL when it returned
  held     \* hold_key and hold_parent of a branch that they were not given back
           \* to, NULL when there is none

cloning == <<source, held>>
textvars == <<parsevars, cloning>>

Held(x) == [item |-> x, key |-> key[x], parent |-> parent[x]]

RECURSIVE Encoded(_, _, _)

\* Mutant: the branch after the first one is skipped.
BranchesSkipped(i, filter) ==
  LET b == branch[i]
      fit == {n \in DOMAIN b : IsComposite(b[n]) \/ value[b[n]] \in filter}
      first == CHOOSE n \in fit : \A m \in fit : n <= m
  IN  IF fit = {} THEN <<>>
      ELSE FoldLeft(WithComma, Encoded(b[first], filter, FALSE),
                    [n \in 1 .. Len(b) - first - 1 |-> Encoded(b[first + n + 1], filter, FALSE)])

\* Mutant: the first branch is looked for among primitives only.
BranchesAfterLeaf(i, filter) ==
  LET b == branch[i]
      fit == {n \in DOMAIN b : ~IsComposite(b[n]) /\ value[b[n]] \in filter}
      first == CHOOSE n \in fit : \A m \in fit : n <= m
  IN  IF fit = {} THEN <<>>
      ELSE FoldLeft(WithComma, Encoded(b[first], filter, FALSE),
                    [n \in 1 .. Len(b) - first |-> Encoded(b[first + n], filter, FALSE)])

\* The first branch that fits the filter, and each one after it: a branch
\* that does not fit is written as nothing, with a comma all the same.
Branches(i, filter) ==
  LET b == branch[i]
      fit == {n \in DOMAIN b : IsComposite(b[n]) \/ value[b[n]] \in filter}
      first == CHOOSE n \in fit : \A m \in fit : n <= m
  IN  IF fit = {} THEN <<>>
      ELSE FoldLeft(WithComma, Encoded(b[first], filter, FALSE),
                    [n \in 1 .. Len(b) - first |-> Encoded(b[first + n], filter, FALSE)])

\* _jscon_stringify_preorder(): the text of i, with its key when it is a
\* property and not the item that jscon_stringify() is called with.
Encoded(i, filter, top) ==
  LET property == IF ~top /\ ~IsRoot(i) /\ type[parent[i]] = "object"
                    THEN <<KeyToken(key[i]), Mark(":")>> ELSE <<>>
  IN  CASE type[i] = "object" -> property \o <<Mark("{")>> \o Branches(i, filter) \o <<Mark("}")>>
        [] type[i] = "array" -> property \o <<Mark("[")>> \o Branches(i, filter) \o <<Mark("]")>>
        [] OTHER -> IF value[i] \in filter THEN property \o <<ValueToken(value[i])>> ELSE <<>>

\* jscon_stringify() with a filter of primitive types, or JSCON_ANY.
jscon_stringify(x, filter) == Encoded(x, filter, TRUE)
JSCON_ANY == Literal

TextInit ==
  /\ ParseInit
  /\ source = NULL
  /\ held = NULL

\* malloc() fails: the item's key and parent are not attached again, and a
\* branch is in an array still whose item it has no pointer to.
jscon_stringify_oom(x) ==
  /\ "oom" \in Client
  /\ Alive(x)
  /\ key' = [key EXCEPT ![x] = NULL]
  /\ parent' = [parent EXCEPT ![x] = NULL]
  /\ held' = IF IsRoot(x) THEN NULL ELSE Held(x)
  /\ root' = NULL
  /\ text' = <<>>
  /\ UNCHANGED <<type, branch, table, num_bucket, links, status>>
  /\ UNCHANGED <<value, capacity, buffer, item, last_accessed_comp, source>>

\* jscon_clone() up to the first turn of the loop of jscon_parse(), which
\* aborts on a text that begins with 0.
jscon_clone(x, i) ==
  /\ Alive(x)
  /\ Entity(i, jscon_stringify(x, JSCON_ANY))
  /\ source' = x
  /\ UNCHANGED held

\* jscon_parse() reads a text that is not there, or the clone of an item with
\* a key is not there.  When there is neither a text nor memory for a root,
\* the item is left as by jscon_stringify_oom() and what returns is NULL.
jscon_clone_oom(x) ==
  /\ "oom" \in Client
  /\ Alive(x)
  /\ Fault("crash")
  /\ source' = x
  /\ UNCHANGED <<value, capacity, reading, held>>

\* Mutant: the clone gets the key of the root of its source.
jscon_clone_key_of_root ==
  /\ key' = [key EXCEPT ![root] = key[Root(source)]]
  /\ source' = NULL
  /\ UNCHANGED <<type, nodes, links, status, value, capacity, reading, held>>

\* And after the loop: the clone gets a copy of the key.
jscon_clone_key ==
  /\ key' = [key EXCEPT ![root] = key[source]]
  /\ source' = NULL
  /\ UNCHANGED <<type, nodes, links, status, value, capacity, reading, held>>

\* Mutant: of the clone only its root is freed.
jscon_clone_key_oom_frees_root ==
  /\ "oom" \in Client
  /\ key[source] # NULL
  /\ FreeAll({root})
  /\ root' = NULL
  /\ text' = <<>>
  /\ source' = NULL
  /\ UNCHANGED <<key, nodes, links, status>>
  /\ UNCHANGED <<value, capacity, buffer, item, last_accessed_comp, held>>

\* strdup() fails: the clone is destroyed, what jscon_clone() returns is NULL.
jscon_clone_key_oom ==
  /\ "oom" \in Client
  /\ key[source] # NULL
  /\ FreeAll(Below(root, branch))
  /\ root' = NULL
  /\ text' = <<>>
  /\ source' = NULL
  /\ UNCHANGED <<key, nodes, links, status>>
  /\ UNCHANGED <<value, capacity, buffer, item, last_accessed_comp, held>>

\* The client destroys the tree that a branch was left in, from its root, and
\* does nothing else before: of that branch it would get a second root.
destroy_left ==
  /\ jscon_destroy(Root(held.parent))
  /\ held' = NULL
  /\ UNCHANGED <<value, capacity, reading, source>>

TextNext ==
  /\ status = "ok"
  /\ \/ /\ Parsing \/ (source = NULL /\ held = NULL)
        /\ ParseNext
        /\ UNCHANGED cloning
     \/ /\ ~Parsing /\ source = NULL /\ held = NULL
        /\ \/ \E x, i \in Item : jscon_clone(x, i)
           \/ \E x \in Item : jscon_clone_oom(x)
           \/ \E x \in Item : jscon_stringify_oom(x)
     \/ /\ ~Parsing /\ source # NULL
        /\ jscon_clone_key \/ jscon_clone_key_oom
     \/ held # NULL /\ destroy_left

TextSpec == TextInit /\ [][TextNext]_textvars
------------------------------------------------------------------------------

(***************************************************************************)
(* Whatever is parsed, cloned, edited and printed, and whichever of it has *)
(* no memory, the trees are sound.  A printing that fails damages two      *)
(* fields, which src/src/jscon-stringify.c:250 says it removes temporarily *)
(* only: with hold_key and hold_parent given back to the branch, its tree  *)
(* is sound as well.                                                       *)
(***************************************************************************)
Mended == INSTANCE JsconTree WITH
  key <- IF held = NULL THEN key ELSE [key EXCEPT ![held.item] = held.key],
  parent <- IF held = NULL THEN parent ELSE [parent EXCEPT ![held.item] = held.parent]

TreesAreSound ==
  /\ Mended!Forest
  /\ Mended!Rooted
  /\ Mended!ListIsPreorder
  /\ ~Parsing => Mended!TableExact

(***************************************************************************)
(* Nothing faults but jscon_clone(), and that for two reasons only: it is  *)
(* called with a 0, and then it always does, or it gets no memory.  The    *)
(* comment at src/src/jscon-public.c:412 knows of neither.  The library's  *)
(* own texts, the clones and what is left after a failure are as good as   *)
(* any other to what comes next.                                           *)
(***************************************************************************)
FaultsInClonesOnly ==
  [][LET clone_starts == source = NULL /\ source' # NULL
         of_zero == value[source'] = Zero
     IN  /\ status' \notin {"ok", "no_memory"} =>
              clone_starts /\ (of_zero \/ ("oom" \in Client /\ status' = "crash"))
         /\ clone_starts /\ of_zero => status' # "ok"]_textvars

(***************************************************************************)
(* What is parsed prints as the text it was parsed from: no token is lost, *)
(* doubled or moved by the parser or by jscon_stringify().                 *)
(***************************************************************************)
RoundTrip ==
  root # NULL /\ ~Parsing => jscon_stringify(root, JSCON_ANY) = text

(***************************************************************************)
(* What src/doc/api/jscon_stringify.md:20 says of a filter: the text of    *)
(* the tree without the primitives that it ignores, and commas between the *)
(* branches that are left.                                                 *)
(***************************************************************************)
Printed(i, filter) == IsComposite(i) \/ value[i] \in filter

RECURSIVE Ignored(_, _, _)
Ignored(i, filter, top) ==
  LET kept == SelectSeq(branch[i], LAMBDA c : Printed(c, filter))
      texts == [n \in DOMAIN kept |-> Ignored(kept[n], filter, FALSE)]
      inside == IF texts = <<>> THEN <<>> ELSE FoldLeft(WithComma, Head(texts), Tail(texts))
      property == IF top \/ type[parent[i]] # "object"
                    THEN <<>> ELSE <<KeyToken(key[i]), Mark(":")>>
  IN  CASE type[i] = "object" -> property \o <<Mark("{")>> \o inside \o <<Mark("}")>>
        [] type[i] = "array" -> property \o <<Mark("[")>> \o inside \o <<Mark("]")>>
        [] OTHER -> IF Printed(i, filter) THEN property \o <<ValueToken(value[i])>> ELSE <<>>

(***************************************************************************)
(* It is that text if, and only if, no composite has a primitive that is   *)
(* ignored after a branch that is not: with one there is a comma too many. *)
(***************************************************************************)
IgnoredAfterPrinted(filter) ==
  \E p \in Below(root, branch) : \E m, n \in DOMAIN branch[p] :
    m < n /\ Printed(branch[p][m], filter) /\ ~Printed(branch[p][n], filter)

FilterIgnoresFirst ==
  root # NULL /\ ~Parsing =>
    \A filter \in SUBSET Literal :
      jscon_stringify(root, filter) = Ignored(root, filter, TRUE) <=>
        ~IgnoredAfterPrinted(filter)

(***************************************************************************)
(* The clone of an item, nested or not and whatever calls made it, has the *)
(* same values under the same keys in the same order, in items of its own, *)
(* and is a root with the item's key.                                      *)
(***************************************************************************)
RECURSIVE Similar(_, _)
Similar(x, y) ==
  /\ x # y
  /\ type[x] = type[y] /\ value[x] = value[y]
  /\ Len(branch[x]) = Len(branch[y])
  /\ \A n \in DOMAIN branch[x] :
       /\ type[x] = "object" => key[branch[x][n]] = key[branch[y][n]]
       /\ Similar(branch[x][n], branch[y][n])

CloneIsSimilar ==
  [][source # NULL /\ jscon_clone_key =>
       Similar(source, root) /\ IsRoot(root) /\ key'[root] = key[source]]_textvars
==============================================================================
