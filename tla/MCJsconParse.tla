----------------------------- MODULE MCJsconParse ----------------------------
(***************************************************************************)
(* All well-formed texts of MinItems to MaxItems values, parsed and        *)
(* edited in a small memory.                                               *)
(***************************************************************************)
EXTENDS JsconParse

CONSTANTS
  MinItems,  \* bounds: values in a text that the client parses
  MaxItems

RECURSIVE Values(_), Elements(_), Properties(_, _)

Values(n) ==
  IF n = 1 THEN {<<ValueToken(v)>> : v \in Literal} \cup
                  {<<Mark("{"), Mark("}")>>, <<Mark("["), Mark("]")>>}
  ELSE {<<Mark("[")>> \o e \o <<Mark("]")>> : e \in Elements(n - 1)} \cup
       {<<Mark("{")>> \o p \o <<Mark("}")>> : p \in Properties(n - 1, Name)}

Elements(n) ==
  Values(n) \cup
    UNION {{WithComma(v, e) : v \in Values(m), e \in Elements(n - m)} : m \in 1 .. n - 1}

Properties(n, names) ==
  UNION {
    LET left == names \ {k}
        Property(m) == {<<KeyToken(k), Mark(":")>> \o v : v \in Values(m)}
    IN  Property(n) \cup
          UNION {{WithComma(v, p) : v \in Property(m), p \in Properties(n - m, left)}
                   : m \in 1 .. n - 1}
    : k \in names}

MCDocument == UNION {Values(n) : n \in MinItems .. MaxItems} \ {<<ValueToken(Zero)>>}

ASSUME JsonAssumption == \A document \in Document : Json(document)

Symmetric == Permutations(Item) \cup Permutations(Name)

Live(f) == [i \in {j \in Item : Alive(j)} |-> f[i]]

\* Once its loop is over jscon_parse() has no more use for its last composite
\* and for the room it made, which the text tells as long as it is kept.
Loop == IF Parsing THEN <<Live(capacity), last_accessed_comp>> ELSE <<>>

\* Bound: the texts of the last two sizes are parsed and printed, but not edited.
EditedItems == MaxItems - 2

Long == Cardinality({n \in DOMAIN text : Is(text[n], "value") \/ Opens(text[n])}) > EditedItems

\* Such a text is the only one, and its tree stays as it was parsed.
LongStays ==
  /\ Long => UNCHANGED <<text, root>>
  /\ Long' => Long \/ \A i \in Item : type[i] = "unborn"

VisibleParse == <<type, Live(key), Live(parent), Live(branch), Live(table),
             Live(num_bucket), Live(next), Live(prev), status,
             Live(value), text, root, buffer, item, Loop>>
==============================================================================
