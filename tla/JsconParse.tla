----------------------------- MODULE JsconParse -----------------------------
(***************************************************************************)
(* jscon_parse() of src/src/jscon-parser.c, one iteration of its loop at a *)
(* time, on texts that are well-formed.  A text is a sequence of tokens:   *)
(* brackets, commas and colons, the keys of properties and the texts of    *)
(* primitives.  Blanks are left out, and so is what a primitive's text     *)
(* decodes to.                                                             *)
(*                                                                         *)
(* The tree is that of JsconTree, and once a text is parsed the client     *)
(* goes on with any call of JsconTree.                                     *)
(***************************************************************************)
EXTENDS JsconTree

CONSTANTS
  Document,  \* the texts that the client parses
  Literal,   \* the texts of primitives
  Zero       \* one that begins with the digit 0, and is printed like that

ASSUME LiteralAssumption == NULL \notin Literal

VARIABLES
  value,      \* of each primitive
  capacity,   \* branches that malloc() made room for, per composite
  text,       \* what jscon_parse() was called with
  root,       \* what it will return, NULL when its tree was edited since
  buffer,     \* what is left of text
  item,       \* the item of the loop, NULL when the loop is over
  last_accessed_comp

reading == <<text, root, buffer, item, last_accessed_comp>>
parsevars == <<vars, value, capacity, reading>>

\* Tokens are told apart by what they begin with.
Mark(c) == <<c>>
KeyToken(k) == <<"key", k>>
ValueToken(v) == <<"value", v>>
Is(token, c) == token[1] = c

\* s and t with a comma between them.
WithComma(s, t) == s \o <<Mark(",")>> \o t

\* The brackets of one kind that the first n tokens of b leave open.
Occurs(b, n, c) == Cardinality({m \in 1 .. n : Is(b[m], c)})
Unclosed(b, n, open, close) == Occurs(b, n, open) - Occurs(b, n, close)

\* b up to the bracket that matches the one it begins with.  Brackets of the
\* other kind do not count.
Within(b, open, close) ==
  {n \in DOMAIN b : \A m \in 1 .. n : Unclosed(b, m, open, close) # 0}

\* Mutant: the separators of nested composites are counted with it.
CountNested(b, open, close, sep) ==
  Cardinality({n \in Within(b, open, close) : Is(b[n], sep)})

\* The occurrences of sep in there, one bracket deep.
Count(b, open, close, sep) ==
  Cardinality({n \in Within(b, open, close) : Is(b[n], sep) /\ Unclosed(b, n, open, close) = 1})

Opens(token) == Is(token, "{") \/ Is(token, "[")

\* All brackets that the first n tokens of b leave open.
Level(b, n) == Unclosed(b, n, "{", "}") + Unclosed(b, n, "[", "]")

(***************************************************************************)
(* What is asked of a text: it is one primitive, or its first bracket is   *)
(* closed by its last token and by none before; and the properties of an   *)
(* object have different keys, that is, between two equal keys of a level  *)
(* there is a token below it.  A text may be wrong in other ways: then     *)
(* jscon_parse() aborts, or, when a comma is missing, runs out of room.    *)
(***************************************************************************)
Token ==
  {Mark(c) : c \in {"{", "}", "[", "]", ",", ":"}} \cup
  {KeyToken(k) : k \in Name} \cup {ValueToken(v) : v \in Literal}

WellFormed(document) ==
  /\ document \in Seq(Token)
  /\ document # <<>>
  /\ Opens(document[1]) \/ Is(document[1], "value")
  /\ \A n \in DOMAIN document :
       /\ Level(document, n) \in Nat
       /\ Level(document, n) = 0 <=> n = Len(document)
  /\ \A n, m \in DOMAIN document :
       /\ n < m
       /\ Is(document[n], "key")
       /\ document[m] = document[n]
       /\ Level(document, m) = Level(document, n)
       => \E q \in n .. m : Level(document, q) < Level(document, n)

(***************************************************************************)
(* What a text of JSON has besides: each token may follow the one before   *)
(* it in the innermost composite that is open.  Nothing begins with a 0,   *)
(* which jscon_parse() takes for no value.                                 *)
(***************************************************************************)
Closes(token) == Is(token, "}") \/ Is(token, "]")

BeginsValue(token) == Opens(token) \/ Is(token, "value")
EndsValue(token) == Closes(token) \/ Is(token, "value")

InObject(before, token) ==
  \/ Is(before, "{") /\ (Is(token, "key") \/ Is(token, "}"))
  \/ Is(before, ",") /\ Is(token, "key")
  \/ Is(before, "key") /\ Is(token, ":")
  \/ Is(before, ":") /\ BeginsValue(token)
  \/ EndsValue(before) /\ (Is(token, ",") \/ Is(token, "}"))

InArray(before, token) ==
  \/ Is(before, "[") /\ (BeginsValue(token) \/ Is(token, "]"))
  \/ Is(before, ",") /\ BeginsValue(token)
  \/ EndsValue(before) /\ (Is(token, ",") \/ Is(token, "]"))

\* After n tokens the innermost bracket that is open is the one at m.
Inside(document, m, n) ==
  /\ Opens(document[m])
  /\ Level(document, n) = Level(document, m)
  /\ \A q \in m .. n : Level(document, q) >= Level(document, m)

Json(document) ==
  /\ document[1] # ValueToken(Zero)
  /\ \A n \in 1 .. Len(document) - 1 : \A m \in 1 .. n :
       Inside(document, m, n) =>
         \/ Is(document[m], "{") /\ InObject(document[n], document[n + 1])
         \/ Is(document[m], "[") /\ InArray(document[n], document[n + 1])

ASSUME DocumentAssumption == \A document \in Document : WellFormed(document)

Parsing == item # NULL /\ buffer # <<>>

_jscon_count_property(b) == Count(b, "{", "}", ":")
_jscon_count_element(b) == Count(b, "[", "]", ",")

\* Mutant: as many branches as there are commas.
RoomOfCommas(b) ==
  IF Is(Head(b), "{") THEN _jscon_count_property(b) ELSE _jscon_count_element(b)

\* Room for one branch more than there are separators.
Room(b) ==
  1 + (IF Is(Head(b), "{") THEN _jscon_count_property(b) ELSE _jscon_count_element(b))

\* Mutant: the composite that is linked is not the one the next goes after.
SetValueAfterFirst(i, b, comp) ==
  /\ buffer' = Tail(b)
  /\ IF Opens(Head(b))
       THEN /\ type' = [type EXCEPT ![i] = IF Is(Head(b), "{") THEN "object" ELSE "array"]
            /\ capacity' = [capacity EXCEPT ![i] = Room(b)]
            /\ last_accessed_comp' = IF comp = NULL THEN i ELSE comp
            /\ IF comp # NULL
                 THEN /\ next' = [next EXCEPT ![comp] = i]
                      /\ prev' = [prev EXCEPT ![i] = comp]
                 ELSE UNCHANGED links
            /\ UNCHANGED value
       ELSE /\ type' = [type EXCEPT ![i] = "leaf"]
            /\ value' = [value EXCEPT ![i] = Head(b)[2]]
            /\ last_accessed_comp' = comp
            /\ UNCHANGED <<capacity, links>>

\* Mutant: a primitive's value is left as calloc() made it.
SetValueUnread(i, b, comp) ==
  /\ buffer' = Tail(b)
  /\ IF Opens(Head(b))
       THEN /\ type' = [type EXCEPT ![i] = IF Is(Head(b), "{") THEN "object" ELSE "array"]
            /\ capacity' = [capacity EXCEPT ![i] = Room(b)]
            /\ last_accessed_comp' = i
            /\ IF comp # NULL
                 THEN /\ next' = [next EXCEPT ![comp] = i]
                      /\ prev' = [prev EXCEPT ![i] = comp]
                 ELSE UNCHANGED links
            /\ UNCHANGED value
       ELSE /\ type' = [type EXCEPT ![i] = "leaf"]
            /\ last_accessed_comp' = comp
            /\ UNCHANGED <<value, capacity, links>>

\* The value that b begins with is set for i: _jscon_value_set_object() and
\* its siblings.  A composite is linked after comp, the last one before it.
SetValue(i, b, comp) ==
  /\ buffer' = Tail(b)
  /\ IF Opens(Head(b))
       THEN /\ type' = [type EXCEPT ![i] = IF Is(Head(b), "{") THEN "object" ELSE "array"]
            /\ capacity' = [capacity EXCEPT ![i] = Room(b)]
            /\ last_accessed_comp' = i
            /\ IF comp # NULL
                 THEN /\ next' = [next EXCEPT ![comp] = i]
                      /\ prev' = [prev EXCEPT ![i] = comp]
                 ELSE UNCHANGED links
            /\ UNCHANGED value
       ELSE /\ type' = [type EXCEPT ![i] = "leaf"]
            /\ value' = [value EXCEPT ![i] = Head(b)[2]]
            /\ last_accessed_comp' = comp
            /\ UNCHANGED <<capacity, links>>

ParseInit ==
  /\ Init
  /\ value = [i \in Item |-> NULL]
  /\ capacity = [i \in Item |-> 0]
  /\ text = <<>>
  /\ root = NULL
  /\ buffer = <<>>
  /\ item = NULL
  /\ last_accessed_comp = NULL

Abort == Fault("abort") /\ UNCHANGED <<value, capacity, reading>>

\* _jscon_entity_build(), which knows no number that begins with 0.
Entity(i, document) ==
  /\ type[i] = "unborn"
  /\ IF document[1] = ValueToken(Zero) THEN Abort
     ELSE /\ text' = document
          /\ root' = i
          /\ SetValue(i, document, NULL)
          /\ item' = IF Opens(document[1]) THEN i ELSE NULL
          /\ UNCHANGED <<key, nodes, status>>

\* jscon_parse() up to the first turn of its loop.
jscon_parse(i, document) == Entity(i, document)

\* _jscon_branch_init() and _jscon_branch_build(): a new branch of item with
\* key k for the value that b begins with.
_jscon_branch_build(i, k, b) ==
  /\ type[i] = "unborn"
  /\ IF b = <<>> \/ (~Opens(b[1]) /\ ~Is(b[1], "value")) THEN Abort
     ELSE IF Len(branch[item]) >= capacity[item]
       THEN Fault("crash") /\ UNCHANGED <<value, capacity, reading>>
     ELSE /\ branch' = [branch EXCEPT ![item] = Append(@, i)]
          /\ parent' = [parent EXCEPT ![i] = item]
          /\ key' = [key EXCEPT ![i] = k]
          /\ SetValue(i, b, last_accessed_comp)
          /\ item' = IF Opens(b[1]) THEN i ELSE item
          /\ UNCHANGED <<table, num_bucket, text, root, status>>

\* Mutant: the bracket is not skipped.
_jscon_wrap_composite_unread ==
  /\ buffer' = IF parent[item] = NULL THEN buffer ELSE Tail(buffer)
  /\ item' = parent[item]
  /\ table' = [table EXCEPT ![item] = FirstWins(branch[item], key)]
  /\ num_bucket' = [num_bucket EXCEPT ![item] = Buckets(Len(branch[item]))]
  /\ UNCHANGED <<type, key, parent, branch, links, status>>
  /\ UNCHANGED <<value, capacity, text, root, last_accessed_comp>>

\* _jscon_wrap_composite(): the hashtable is built, the parent goes on.
_jscon_wrap_composite ==
  /\ buffer' = Tail(buffer)
  /\ item' = parent[item]
  /\ table' = [table EXCEPT ![item] = FirstWins(branch[item], key)]
  /\ num_bucket' = [num_bucket EXCEPT ![item] = Buckets(Len(branch[item]))]
  /\ UNCHANGED <<type, key, parent, branch, links, status>>
  /\ UNCHANGED <<value, capacity, text, root, last_accessed_comp>>

AfterComma == IF Is(Head(buffer), ",") THEN Tail(buffer) ELSE buffer

_jscon_array_build ==
  /\ Parsing /\ type[item] = "array"
  /\ IF Is(Head(buffer), "]") THEN _jscon_wrap_composite
     ELSE \E i \in Item : _jscon_branch_build(i, Len(branch[item]), AfterComma)

_jscon_object_build ==
  /\ Parsing /\ type[item] = "object"
  /\ IF Is(Head(buffer), "}") THEN _jscon_wrap_composite
     ELSE LET b == AfterComma
          IN  IF Len(b) < 2 THEN Abort
              ELSE IF ~Is(b[1], "key") \/ ~Is(b[2], ":") THEN Abort
              ELSE \E i \in Item : _jscon_branch_build(i, b[1][2], SubSeq(b, 3, Len(b)))

\* An allocation fails: all of them are asserted, but for that of the root,
\* and then nothing happens.
_jscon_item_init_oom ==
  /\ "oom" \in Client
  /\ Parsing
  /\ Fault("no_memory")
  /\ UNCHANGED <<value, capacity, reading>>

\* Between two texts the client edits its trees.
edit ==
  /\ Next
  /\ \E v \in Literal :
       value' = [i \in Item |-> IF type'[i] = "leaf" /\ type[i] = "unborn"
                                  THEN v ELSE value[i]]
  /\ root' = NULL
  /\ text' = <<>>
  /\ UNCHANGED <<capacity, buffer, item, last_accessed_comp>>

ParseNext ==
  /\ status = "ok"
  /\ \/ /\ ~Parsing
        /\ \/ \E i \in Item, document \in Document : jscon_parse(i, document)
           \/ edit
     \/ _jscon_array_build
     \/ _jscon_object_build
     \/ _jscon_item_init_oom

ParseSpec == ParseInit /\ [][ParseNext]_parsevars
------------------------------------------------------------------------------

ParseTypeOK ==
  /\ TypeOK
  /\ value \in [Item -> Literal \cup {NULL}]
  /\ \A i \in Item : type[i] = "leaf" => value[i] \in Literal
  /\ capacity \in [Item -> Nat]
  /\ root \in Item \cup {NULL}
  /\ item \in Item \cup {NULL}
  /\ last_accessed_comp \in Item \cup {NULL}

(***************************************************************************)
(* The room that is counted ahead is never too small (NoFault), and not    *)
(* larger than this once the branches are there: an object has one branch  *)
(* to spare, and an array has room for one more than there are commas in   *)
(* it, those of the objects that no other array in it holds included.  A   *)
(* comma comes before each branch but the first of its composite.          *)
(***************************************************************************)
Following(i) ==
  {b \in Below(i, branch) \ {i} :
     /\ b # branch[parent[b]][1]
     /\ \A a \in Upward(parent[b], parent) \ Upward(i, parent) : type[a] = "object"}

RoomFits ==
  root # NULL /\ ~Parsing =>
    \A i \in Below(root, branch) :
      /\ type[i] = "object" => capacity[i] = 1 + Len(branch[i])
      /\ type[i] = "array" => capacity[i] = 1 + Cardinality(Following(i))

(***************************************************************************)
(* The loop ends with the text, neither before nor after its last token.   *)
(***************************************************************************)
ReadsWholeText == item = NULL <=> buffer = <<>>

(***************************************************************************)
(* What is parsed is a tree like those that calls build: client calls find *)
(* it as they need it, its hashtables once the loop is over.               *)
(***************************************************************************)
ParsedIsSound == Forest /\ Rooted /\ ListIsPreorder /\ (~Parsing => TableExact)
==============================================================================
