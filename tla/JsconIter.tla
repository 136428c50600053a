------------------------------ MODULE JsconIter ------------------------------
(***************************************************************************)
(* Walks over the trees of JsconTree.  jscon_iter_next() has no state of   *)
(* its own: each composite of the tree holds a last_accessed_branch, and   *)
(* those of the items above the current one stand for the frames of a      *)
(* recursive traversal.  They outlive a walk that is left before its end.  *)
(* jscon_iter_composite_r() follows the list of composites instead.        *)
(*                                                                         *)
(* A walk is the loop of the caller: it begins with an item and asks for   *)
(* the next one with the last one it got.  It begins jscon_iter_next()     *)
(* where no item above has a frame left over from a walk that was stopped: *)
(* the walk would climb into it and go on above.  Habit names what the     *)
(* caller of a run does besides: with none of it, it                       *)
(*   - goes on to the end of the walk (no "stops"),                        *)
(*   - runs one walk at a time on a tree (no "shared"),                    *)
(*   - edits its trees when it is not walking; with "grows" it appends     *)
(*     trees to the one it walks, and nothing else.                        *)
(***************************************************************************)
EXTENDS JsconTree

CONSTANTS
  Walk,   \* the loops of the caller
  Habit

ASSUME HabitAssumption ==
  Habit \subseteq {"stops", "shared", "grows"}

VARIABLES
  last,     \* last_accessed_branch of each composite
  iterates, \* what each walk iterates through: "items" or "composites"
  start,    \* the item it began with, NULL if it has not begun or was stopped
  cursor,   \* the item it got last, NULL when there is none left
  known,    \* the items below that one when it began
  visited   \* the items it got

walks == <<iterates, start, cursor, known, visited>>
itervars == <<vars, last, walks>>

IsLeaf(i) == ~IsComposite(i) \/ branch[i] = <<>>

Underway(w) == cursor[w] # NULL

IterInit ==
  /\ Init
  /\ last = [i \in Item |-> 0]
  /\ iterates = [w \in Walk |-> "items"]
  /\ start = [w \in Walk |-> NULL]
  /\ cursor = [w \in Walk |-> NULL]
  /\ known = [w \in Walk |-> {}]
  /\ visited = [w \in Walk |-> {}]

\* Between walks the caller edits its trees.
edit ==
  /\ Next
  /\ \A w \in Walk : ~Underway(w)
  /\ start' = [w \in Walk |-> NULL]
  /\ known' = [w \in Walk |-> {}]
  /\ visited' = [w \in Walk |-> {}]
  /\ UNCHANGED <<last, iterates, cursor>>

\* The caller appends in its loop, and what it appends no walk is in.
grow(item, new_branch) ==
  /\ "grows" \in Habit
  /\ \E w \in Walk : Underway(w)
  /\ \A w \in Walk : Underway(w) => Root(cursor[w]) # new_branch
  /\ jscon_append(item, new_branch)
  /\ UNCHANGED <<last, walks>>

\* The caller's loop begins with x itself.
begin(w, x, what) ==
  /\ ~Underway(w)
  /\ Alive(x)
  /\ IF what = "composites"
       THEN IsComposite(x) /\ IsRoot(x)
       ELSE \A a \in Upward(x, parent) \ {x} : last[a] = 0
  /\ "shared" \in Habit \/
       \A v \in Walk : Underway(v) => Root(cursor[v]) # Root(x)
  /\ iterates' = [iterates EXCEPT ![w] = what]
  /\ start' = [start EXCEPT ![w] = x]
  /\ cursor' = [cursor EXCEPT ![w] = x]
  /\ known' = [known EXCEPT ![w] = Below(x, branch)]
  /\ visited' = [visited EXCEPT ![w] = {x}]
  /\ UNCHANGED <<vars, last>>

\* And may be left at any item, as in test.c after five.
stop(w) ==
  /\ "stops" \in Habit
  /\ Underway(w)
  /\ start' = [start EXCEPT ![w] = NULL]
  /\ cursor' = [cursor EXCEPT ![w] = NULL]
  /\ known' = [known EXCEPT ![w] = {}]
  /\ visited' = [visited EXCEPT ![w] = {}]
  /\ UNCHANGED <<vars, last, iterates>>

\* The call of w returns x.
Returns(w, x) ==
  /\ cursor' = [cursor EXCEPT ![w] = x]
  /\ visited' = [visited EXCEPT ![w] = @ \cup ({x} \ {NULL})]
  /\ UNCHANGED <<iterates, start, known>>

\* Mutant: item's frame stays as it is.
PushForgets(w, item, frame) ==
  IF frame[item] >= Len(branch[item])
    THEN Fault("abort") /\ UNCHANGED <<last, walks>>
  ELSE LET next_item == branch[item][frame[item] + 1]
       IN  /\ last' = [frame EXCEPT ![next_item] = 0]
           /\ Returns(w, next_item)
           /\ UNCHANGED vars

\* Mutant: the frame says that a branch was accessed, not how many.
PushCountsOnce(w, item, frame) ==
  IF frame[item] >= Len(branch[item])
    THEN Fault("abort") /\ UNCHANGED <<last, walks>>
  ELSE LET next_item == branch[item][frame[item] + 1]
       IN  /\ last' = [frame EXCEPT ![item] = 1, ![next_item] = 0]
           /\ Returns(w, next_item)
           /\ UNCHANGED vars

\* _jscon_push(): the next branch of item, whose own frame is reset.
Push(w, item, frame) ==
  IF frame[item] >= Len(branch[item])
    THEN Fault("abort") /\ UNCHANGED <<last, walks>>
  ELSE LET next_item == branch[item][frame[item] + 1]
       IN  /\ last' = [frame EXCEPT ![item] = @ + 1, ![next_item] = 0]
           /\ Returns(w, next_item)
           /\ UNCHANGED vars

\* Mutant: the frames are left as they are.
PoppedKept(frame, items) == frame

\* Mutant: the frames are counted down.
PoppedDown(frame, items) ==
  [i \in Item |-> IF i \in items THEN frame[i] - 1 ELSE frame[i]]

\* The frames after _jscon_pop() from each of the items.
Popped(frame, items) == [i \in Item |-> IF i \in items THEN 0 ELSE frame[i]]

\* Mutant: the walk ends when all branches of the parent were accessed.
ClimbEndsAtParent(w, leaf, frame) ==
  LET item == parent[leaf]
      popped == Popped(frame, {leaf})
  IN  IF item = NULL
        THEN last' = popped /\ Returns(w, NULL) /\ UNCHANGED vars
      ELSE IF frame[item] \in {0, Len(branch[item])}
        THEN last' = popped /\ Returns(w, NULL) /\ UNCHANGED vars
      ELSE Push(w, item, popped)

\* Mutant: the walk does not ask whether all branches were accessed.
ClimbOnce(w, leaf, frame) ==
  LET item == parent[leaf]
      popped == Popped(frame, {leaf})
  IN  IF item = NULL
        THEN last' = popped /\ Returns(w, NULL) /\ UNCHANGED vars
      ELSE Push(w, item, popped)

\* From a leaf the walk climbs while all branches of the item it comes to
\* were accessed, and ends at one that has none accessed, or above the root.
Climb(w, leaf, frame) ==
  LET above == Upward(leaf, parent) \ {leaf}
      halts == {a \in above : frame[a] = 0 \/ frame[a] # Len(branch[a])}
  IN  IF halts = {}
        THEN /\ last' = Popped(frame, {leaf} \cup above)
             /\ Returns(w, NULL)
             /\ UNCHANGED vars
      ELSE LET item == CHOOSE a \in halts : halts \subseteq Upward(a, parent)
               popped == Popped(frame, {leaf} \cup (above \ Upward(item, parent)))
           IN  IF frame[item] = 0
                 THEN /\ last' = popped
                      /\ Returns(w, NULL)
                      /\ UNCHANGED vars
               ELSE Push(w, item, popped)

jscon_iter_next(w) ==
  /\ Underway(w) /\ iterates[w] = "items"
  /\ LET item == cursor[w]
         frame == [last EXCEPT ![item] = 0]
     IN  IF IsLeaf(item) THEN Climb(w, item, frame) ELSE Push(w, item, frame)

\* The caller keeps *p_current_item and passes NULL for item.
jscon_iter_composite_r(w) ==
  /\ Underway(w) /\ iterates[w] = "composites"
  /\ Returns(w, next[cursor[w]])
  /\ UNCHANGED <<vars, last>>

advance(w) == jscon_iter_next(w) \/ jscon_iter_composite_r(w)

IterNext ==
  /\ status = "ok"
  /\ \/ edit
     \/ \E p, c \in Item : grow(p, c)
     \/ \E w \in Walk, x \in Item, what \in {"items", "composites"} : begin(w, x, what)
     \/ \E w \in Walk : stop(w)
     \/ \E w \in Walk : jscon_iter_next(w)
     \/ \E w \in Walk : jscon_iter_composite_r(w)

IterSpec == IterInit /\ [][IterNext]_itervars

\* A caller that does not stop asks again: while (NULL != (walk = ...)).
FairIterSpec == IterSpec /\ \A w \in Walk : WF_itervars(advance(w))
------------------------------------------------------------------------------

IterTypeOK ==
  /\ last \in [Item -> Nat]
  /\ iterates \in [Walk -> {"items", "composites"}]
  /\ start \in [Walk -> Item \cup {NULL}]
  /\ cursor \in [Walk -> Item \cup {NULL}]
  /\ known \in [Walk -> SUBSET Item]
  /\ visited \in [Walk -> SUBSET Item]

(***************************************************************************)
(* The frames of the items above the current one lead to it, whatever      *)
(* walks were abandoned before: "last_accessed_branch like a stack frame". *)
(***************************************************************************)
FramesLeadToCursor ==
  \A w \in Walk : Underway(w) /\ iterates[w] = "items" =>
    \A a \in (Upward(cursor[w], parent) \ {cursor[w]}) \cap Below(start[w], branch) :
      /\ last[a] \in DOMAIN branch[a]
      /\ branch[a][last[a]] \in Upward(cursor[w], parent)

(***************************************************************************)
(* A walk is a preorder traversal: it has got the items of its tree, or    *)
(* the composites, up to the current one and no other, and all of them     *)
(* when it has come to its end.  Of those that were appended since it      *)
(* began it may leave out some.                                            *)
(***************************************************************************)
Passed(w) ==
  {x \in Below(start[w], branch) :
     /\ iterates[w] = "composites" => IsComposite(x)
     /\ Underway(w) => x = cursor[w] \/ Before(x, cursor[w])}

WalkIsPreorder ==
  \A w \in Walk : start[w] # NULL =>
    visited[w] \subseteq Passed(w) /\ Passed(w) \cap known[w] \subseteq visited[w]

(***************************************************************************)
(* A walk that comes to its end leaves no frame below the item it began    *)
(* with, so that the next one may begin with any of those items.           *)
(***************************************************************************)
FramesCleared ==
  [][\A w \in Walk : jscon_iter_next(w) /\ ~Underway(w)' =>
       \A i \in Below(start[w], branch) : last'[i] = 0]_itervars

(***************************************************************************)
(* A loop that is not left ends, also when another one takes items of the  *)
(* same frames away or sets them back, unless others begin for ever.       *)
(***************************************************************************)
AnotherBegins(w) ==
  \E v \in Walk \ {w}, x \in Item, what \in {"items", "composites"} :
    begin(v, x, what)

WalkEnds ==
  \A w \in Walk :
    (Underway(w) ~> ~Underway(w)) \/ []<><<AnotherBegins(w)>>_itervars

==============================================================================
