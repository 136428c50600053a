---------------------------- MODULE MCJsconTree ----------------------------
(***************************************************************************)
(* Small forests for TLC.  Items and names are interchangeable.  Freed     *)
(* memory is told apart only by being freed: no call goes on after reading *)
(* it, so states that differ in stale fields have the same continuations.  *)
(***************************************************************************)
EXTENDS JsconGet

Symmetric == Permutations(Item) \cup Permutations(Name)

Live(f) == [i \in {j \in Item : Alive(j)} |-> f[i]]

Visible == <<type, Live(key), Live(parent), Live(branch), Live(table),
             Live(num_bucket), Live(next), Live(prev), status>>
============================================================================
