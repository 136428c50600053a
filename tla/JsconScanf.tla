----------------------------- MODULE JsconScanf -----------------------------
(***************************************************************************)
(* jscon_scanf() of src/src/jscon-scanf.c, one turn of its loop at a time, *)
(* on the text that the client parsed last.  It skims the text for keys    *)
(* and keeps one of them, utils.key: the keys on a path of the format are  *)
(* put one after the other in it, so that a path is found as a string.     *)
(*                                                                         *)
(* A format is a sequence of conversions, each with its specifier and its  *)
(* path; it is well-formed, so that format_analyze() finds no fault.  What *)
(* an argument gets is told by the tokens it was read from, and for "ji"   *)
(* by the key of the new item.                                             *)
(***************************************************************************)
EXTENDS JsconText

CONSTANTS
  Format,    \* the formats that the client calls with
  Spelling,  \* the letters of each name
  Sort,      \* what each primitive is: "integer", "float", "string", "boolean", "null"
  KeySize,   \* sizeof(utils.key)
  Careful    \* whether the client asks only for what is suited to the text

ASSUME FormatAssumption ==
  \A f \in Format : f # <<>> /\ \A n \in DOMAIN f : f[n].path # <<>>
ASSUME SortAssumption ==
  Sort \in [Literal -> {"integer", "float", "string", "boolean", "null"}]
ASSUME KeySizeAssumption == KeySize \in Nat
ASSUME CarefulAssumption == Careful \in BOOLEAN

VARIABLES
  format,   \* that of the call, <<>> before it
  pairs,    \* the keys to be matched, each with its argument
  skim,     \* what is left of the text
  skey,     \* utils.key
  is_nest,  \* whether the next key goes after it
  args      \* what each conversion got, NULL when nothing

scan == <<format, pairs, skim, skey, is_nest, args>>
scanvars == <<textvars, scan>>

Scanning == skim # <<>>

\* Keys as utils.key holds them.
Spelled(path) == FlattenSeq([n \in DOMAIN path |-> Spelling[path[n]]])

IsString(token) ==
  Is(token, "key") \/ (Is(token, "value") /\ Sort[token[2]] = "string")

(***************************************************************************)
(* format_decode() and store_pair(): a pair for each key of each path, the *)
(* key being that of the parent with one more after it.  All but the last  *)
(* one of a path have no argument: they are parents.                       *)
(***************************************************************************)
Pair(n, path, m) ==
  [specifier |-> n.specifier,
   key |-> Spelled(SubSeq(path, 1, m)),
   arg |-> IF m = Len(path) THEN n.arg ELSE 0]

\* Mutant: parents take an argument too.
format_decode_all_args(f) ==
  LET decoded == FlattenSeq([n \in DOMAIN f |->
        [m \in DOMAIN f[n].path |->
           Pair([specifier |-> f[n].specifier, arg |-> n], f[n].path, m)]])
  IN  [n \in DOMAIN decoded |-> [decoded[n] EXCEPT !.arg = n]]

format_decode(f) ==
  FlattenSeq([n \in DOMAIN f |->
    [m \in DOMAIN f[n].path |->
       Pair([specifier |-> f[n].specifier, arg |-> n], f[n].path, m)]])

(***************************************************************************)
(* skip(): past the string or the composite that b begins with, and from   *)
(* any other token to the next comma, whatever is closed on the way.       *)
(***************************************************************************)
Closing(b) ==
  LET open == IF Is(b[1], "{") THEN "{" ELSE "["
      close == IF open = "{" THEN "}" ELSE "]"
      Deep(n) == Cardinality({m \in 1 .. n : Is(b[m], open)}) -
                 Cardinality({m \in 1 .. n : Is(b[m], close)})
      ends == {n \in DOMAIN b : Deep(n) = 0}
  IN  CHOOSE n \in ends : \A m \in ends : n <= m

\* Mutant: what is inside of a composite is not skipped with it.
SkippedInto(b) ==
  LET commas == {n \in DOMAIN b : Is(b[n], ",")}
  IN  CASE Opens(b[1]) \/ IsString(b[1]) -> 1
        [] commas = {} -> Len(b)
        [] OTHER -> (CHOOSE n \in commas : \A m \in commas : n <= m) - 1

Skipped(b) ==
  LET commas == {n \in DOMAIN b : Is(b[n], ",")}
  IN  CASE Opens(b[1]) -> Closing(b)
        [] IsString(b[1]) -> 1
        [] commas = {} -> Len(b)
        [] OTHER -> (CHOOSE n \in commas : \A m \in commas : n <= m) - 1

After(b, n) == SubSeq(b, n + 1, Len(b))

(***************************************************************************)
(* apply(): which values a specifier takes, and what is read of the text.  *)
(* "ji" goes through jscon_parse(), which knows no number that begins with *)
(* 0, and null becomes a zero of any size.                                 *)
(***************************************************************************)
Takes(specifier, token) ==
  CASE specifier = "ji" -> token # ValueToken(Zero)
    [] specifier = "S" -> TRUE
    [] Opens(token) -> FALSE
    [] OTHER -> LET sort == Sort[token[2]]
                IN  \/ sort = "null"
                    \/ sort = "string" /\ specifier \in {"s", "c"}
                    \/ sort = "boolean" /\ specifier = "b"
                    \/ sort = "integer" /\ specifier \in {"d", "ld", "lld"}
                    \/ sort = "float" /\ specifier \in {"f", "lf"}

Got(tokens, k) == [tokens |-> tokens, key |-> k]

ValueLength(b) == IF Opens(b[1]) THEN Closing(b) ELSE 1

\* What the argument gets when the key that matched ends with k.
Applied(specifier, b, k) ==
  CASE specifier = "ji" -> Got(SubSeq(b, 1, ValueLength(b)), k)
    [] specifier = "S" -> Got(SubSeq(b, 1, Skipped(b)), <<>>)
    [] OTHER -> Got(<<b[1]>>, <<>>)

Consumed(specifier, b) == IF specifier \in {"ji", "S"} THEN Skipped(b) ELSE 1

ScanAbort == Fault("abort") /\ UNCHANGED <<value, capacity, reading, cloning, scan>>

\* Mutant: a nest goes on after its value was fetched.
apply_nests_on(pair, b, k) ==
  IF pair.arg = 0
    THEN /\ is_nest' = TRUE
         /\ skim' = b
         /\ UNCHANGED <<textvars, args>>
  ELSE /\ skim' = After(b, Consumed(pair.specifier, b))
       /\ args' = [args EXCEPT ![pair.arg] = Applied(pair.specifier, b, k)]
       /\ UNCHANGED <<textvars, is_nest>>

\* apply() to the pair that matched, with b what follows the key's colon.
apply(pair, b, k) ==
  IF pair.arg = 0
    THEN /\ is_nest' = TRUE
         /\ skim' = b
         /\ UNCHANGED <<textvars, args>>
  ELSE /\ is_nest' = FALSE
       /\ skim' = After(b, Consumed(pair.specifier, b))
       /\ args' = [args EXCEPT ![pair.arg] = Applied(pair.specifier, b, k)]
       /\ UNCHANGED textvars

\* One of the pairs has the key; a linear search takes the first one.
Matching(k) == {n \in DOMAIN pairs : pairs[n].key = k}
FirstMatching(k) == pairs[CHOOSE n \in Matching(k) : \A m \in Matching(k) : n <= m]

\* The key is read after the stale one when that is a parent, over it when
\* not, and must have room beside it either way.
scan_key ==
  LET offset == IF is_nest THEN skey ELSE <<>>
      token == skim[1]
      k == Spelling[token[2]]
      b == After(skim, 2)
  IN  IF Is(token, "value") \/ Len(skey) + Len(k) >= KeySize THEN ScanAbort
      ELSE IF Matching(offset \o k) = {}
        THEN /\ skey' = offset
             /\ skim' = After(b, Skipped(b))
             /\ UNCHANGED <<textvars, format, pairs, is_nest, args>>
      ELSE LET pair == FirstMatching(offset \o k)
           IN  IF pair.arg # 0 /\ ~Takes(pair.specifier, b[1]) THEN ScanAbort
               ELSE /\ skey' = offset \o k
                    /\ apply(pair, b, k)
                    /\ UNCHANGED <<format, pairs>>

\* Not a key token.
scan_other ==
  /\ skim' = Tail(skim)
  /\ UNCHANGED <<textvars, format, pairs, skey, is_nest, args>>

(***************************************************************************)
(* What the client knows of a text that a format suits.  ItemAt is where a *)
(* path leads from the root of what was parsed, through objects only.      *)
(***************************************************************************)
jscon_get_branch(x, k) == IF k \in DOMAIN table[x] THEN table[x][k] ELSE NULL

ItemsAlong(path) ==
  LET at[m \in 0 .. Len(path)] ==
        IF m = 0 THEN root
        ELSE IF at[m - 1] = NULL THEN NULL
        ELSE IF type[at[m - 1]] # "object" THEN NULL
        ELSE jscon_get_branch(at[m - 1], path[m])
  IN  at

ItemAt(path) == ItemsAlong(path)[Len(path)]

PathTo(x) ==
  LET depth == Depth(x, parent)
      At(n) == CHOOSE y \in Upward(x, parent) : Depth(y, parent) = n
  IN  [n \in 1 .. depth |-> key[At(n)]]

\* The pairs of a format by their keys.
Keys(f) == {pair.key : pair \in ToSet(format_decode(f))}

\* No two keys that are matched are spelled alike: paths go through objects of
\* their own, since a nest ends with the first value that is fetched.
SpeltApart(f) == Cardinality(Keys(f)) = Len(format_decode(f))

\* A path leads to a value that its specifier takes, or does not begin in the
\* text.  For "S" a primitive that is no string is followed by a comma.
Answered(conversion) ==
  LET x == ItemAt(conversion.path)
      token == jscon_stringify(x, JSCON_ANY)[1]
  IN  \/ ItemAt(<<conversion.path[1]>>) = NULL
      \/ /\ x # NULL
         /\ Takes(conversion.specifier, token)
         /\ conversion.specifier = "S" =>
              Opens(token) \/ IsString(token) \/ x # Last(branch[parent[x]])

\* The objects that the paths go through hold no other key that is taken for
\* one of theirs, by itself or after those above it.
NoStrayKey(f) ==
  LET Met(n, m) == {ItemsAlong(f[n].path)[l] : l \in 0 .. m} \ {NULL}
      opened == UNION {Met(n, Len(f[n].path) - 1) : n \in DOMAIN f}
      met == UNION {Met(n, Len(f[n].path)) : n \in DOMAIN f}
      stray == UNION {Members(x) : x \in opened} \ met
  IN  \A c \in stray : {Spelling[key[c]], Spelled(PathTo(c))} \cap Keys(f) = {}

Suited(f) ==
  /\ \A n \in DOMAIN f : Answered(f[n])
  /\ SpeltApart(f)
  /\ NoStrayKey(f)

NotScanned ==
  /\ format = <<>>
  /\ pairs = <<>>
  /\ skim = <<>>
  /\ skey = <<>>
  /\ is_nest = FALSE
  /\ args = <<>>

ScanInit == TextInit /\ NotScanned

\* jscon_scanf() up to the first turn of its loop: the client knows that the
\* text is that of an object.
jscon_scanf(f) ==
  /\ root # NULL
  /\ type[root] = "object"
  /\ Careful => Suited(f)
  /\ format' = f
  /\ pairs' = format_decode(f)
  /\ skim' = text
  /\ skey' = <<>>
  /\ is_nest' = FALSE
  /\ args' = [n \in DOMAIN f |-> NULL]
  /\ UNCHANGED textvars

\* The client parses one text and scans it.
ScanNext ==
  /\ status = "ok"
  /\ \/ /\ \/ root = NULL /\ \E i \in Item, document \in Document : jscon_parse(i, document)
           \/ _jscon_array_build
           \/ _jscon_object_build
        /\ UNCHANGED <<cloning, scan>>
     \/ NotScanned /\ ~Parsing /\ \E f \in Format : jscon_scanf(f)
     \/ Scanning /\ IsString(skim[1]) /\ scan_key
     \/ Scanning /\ ~IsString(skim[1]) /\ scan_other

ScanSpec == ScanInit /\ [][ScanNext]_scanvars
------------------------------------------------------------------------------

ScanTypeOK ==
  /\ format \in Format \cup {<<>>}
  /\ is_nest \in BOOLEAN
  /\ DOMAIN args = DOMAIN format
  /\ Scanning => Len(skey) < KeySize
  /\ \A n \in DOMAIN pairs : pairs[n].arg \in {0} \cup DOMAIN format

(***************************************************************************)
(* When it is over, each argument has got what a lookup of its path in the *)
(* parsed text finds, and "ji" an item with that key; an argument with a   *)
(* path that is not in the text is left alone.  The order of the keys does *)
(* not matter, nor do keys and brackets inside of what is skipped.         *)
(***************************************************************************)
Lookup(conversion) ==
  LET x == ItemAt(conversion.path)
  IN  IF x = NULL THEN NULL
      ELSE Got(jscon_stringify(x, JSCON_ANY),
               IF conversion.specifier = "ji" THEN Spelling[key[x]] ELSE <<>>)

Over == format # <<>> /\ ~Scanning /\ status = "ok"

ScanIsLookup == Over => \A n \in DOMAIN format : args[n] = Lookup(format[n])

(***************************************************************************)
(* A format that is suited to the text is scanned without a fault unless   *)
(* the text has a key that has no room in utils.key beside one that may    *)
(* have matched before it: that key is refused, and nothing else is.       *)
(***************************************************************************)
KeysHaveRoom(f) ==
  \A k \in Keys(f), t \in ToSet(text) :
    Is(t, "key") => Len(k) + Len(Spelling[t[2]]) < KeySize

OnlyLongKeysFault ==
  status = "ok" \/ (status = "abort" /\ format # <<>> /\ ~KeysHaveRoom(format))

(***************************************************************************)
(* No argument is written a second time: an item that "ji" made would be   *)
(* lost by it.                                                             *)
(***************************************************************************)
WrittenOnce ==
  [][Scanning => \A n \in DOMAIN args : args[n] # NULL => args'[n] = args[n]]_scanvars

------------------------------------------------------------------------------
(* What the repository says of calls that the code handles otherwise.      *)

(***************************************************************************)
(* jscon_scanf(): "the only requirement is that the arguments are aligned  *)
(* with the format specifiers".  When every path leads to a value, none of *)
(* them through the value of another, each argument gets one.              *)
(***************************************************************************)
ScanFinds ==
  LET paths == {format[n].path : n \in DOMAIN format}
  IN  /\ Over
      /\ Cardinality(paths) = Len(format)
      /\ \A p \in paths : ItemAt(p) # NULL
      /\ \A p, q \in paths : p # q => ~IsPrefix(p, q)
      => \A n \in DOMAIN format : args[n] # NULL
==============================================================================
