----------------------------- MODULE JsconNumber -----------------------------
(***************************************************************************)
(* Numbers: how an item gets one, how jscon_stringify() writes it and how  *)
(* jscon_parse() reads it back.  A number is man * 10^exp, with no zero at *)
(* the end of man.  What a double holds is taken to be DBL_DECIMAL_DIG     *)
(* decimal digits, rounded to nearest: the bits that it has instead differ *)
(* in the last of these digits only.                                       *)
(* Texts are sequences of characters here: they are cut by their length.   *)
(*                                                                         *)
(* The client has one item, inside of a composite, and replaces it by its  *)
(* clone now and then: that is to stringify and to parse it.               *)
(***************************************************************************)
EXTENDS Integers, SequencesExt

CONSTANTS
  DBL_DECIMAL_DIG,  \* 17
  MAX_INTEGER_DIG,  \* 20
  LLONG_MAX,        \* of MAX_INTEGER_DIG - 1 digits
  Numeral,          \* texts of numbers that the client parses
  Integer, Double   \* numbers that it makes items of

ASSUME SizesAssumption ==
  /\ DBL_DECIMAL_DIG \in Nat \ {0, 1}
  /\ MAX_INTEGER_DIG = DBL_DECIMAL_DIG + 3
  /\ LLONG_MAX \in 10^(MAX_INTEGER_DIG - 2) .. 10^(MAX_INTEGER_DIG - 1) - 1

VARIABLES
  item,   \* its type, "integer" or "double", and its number
  text,   \* from which it was parsed, <<>> if it was not
  clones, \* how many times it was cloned, 3 standing for more
  status  \* "crash" when get_strnum was written past its end

vars == <<item, text, clones, status>>

Number(m, e) == [man |-> m, exp |-> e]

Abs(n) == IF n < 0 THEN -n ELSE n

\* Digits of n, 1 for zero.
Width(n) == CHOOSE w \in 1 .. 9 : n < 10^w /\ (w = 1 \/ n >= 10^(w - 1))

\* The number m * 10^e without zeros at the end of man.
Normal(m, e) ==
  IF m = 0 THEN Number(0, 0)
  ELSE LET zeros == CHOOSE z \in 0 .. 9 : m % 10^z = 0 /\ m % 10^(z + 1) # 0
       IN  Number(m \div 10^zeros, e + zeros)

\* What a double holds of m * 10^e: ties go to the even digit.
Rounded(m, e) ==
  LET excess == IF Width(Abs(m)) > DBL_DECIMAL_DIG THEN Width(Abs(m)) - DBL_DECIMAL_DIG ELSE 0
      unit == 10^excess
      down == Abs(m) \div unit
      rest == Abs(m) % unit
      near == IF 2 * rest > unit \/ (2 * rest = unit /\ down % 2 = 1) THEN down + 1 ELSE down
  IN  Normal(IF m < 0 THEN -near ELSE near, e + excess)

\* The power of ten of the first digit.
Magnitude(d) == Width(Abs(d.man)) - 1 + d.exp

\* Numbers beyond those of a long long are whole as well.
DOUBLE_IS_INTEGER(d) == d.exp >= 0

LLONG_MIN == Normal(-LLONG_MAX - 1, 0)

InRange(d) ==
  /\ Magnitude(d) < MAX_INTEGER_DIG - 1
  /\ d.man * 10^d.exp \in -LLONG_MAX - 1 .. LLONG_MAX

\* Mutant: the bound is compared with as if it were a power of ten.
LongLongOfDigits(d) == IF Magnitude(d) < MAX_INTEGER_DIG - 1 THEN d ELSE LLONG_MIN

\* The cast of a whole double: it is LLONG_MIN when out of range.
LongLong(d) == IF InRange(d) THEN d ELSE LLONG_MIN

------------------------------------------------------------------------------
(* Texts                                                                   *)

Char == <<"0", "1", "2", "3", "4", "5", "6", "7", "8", "9">>
IsDigit(c) == c \in ToSet(Char)

DigitsOf(n, w) == [i \in 1 .. w |-> Char[((n \div 10^(w - i)) % 10) + 1]]
Zeros(n) == [i \in 1 .. n |-> "0"]
Minus(m) == IF m < 0 THEN <<"-">> ELSE <<>>

ValueOf(digits) ==
  FoldLeft(LAMBDA n, c : 10 * n + (CHOOSE v \in 0 .. 9 : Char[v + 1] = c), 0, digits)

Cut(t, n) == SubSeq(t, 1, IF Len(t) < n THEN Len(t) ELSE n)

\* The position of the first c in t, or the one after the end.
Find(t, c) ==
  CHOOSE n \in 1 .. Len(t) + 1 : (n = Len(t) + 1 \/ t[n] = c) /\ ~Contains(SubSeq(t, 1, n - 1), c)

\* sscanf("%lf"): an exponent without digits does not count.
Scanned(t) ==
  LET mantissa == SubSeq(t, 1, Find(t, "e") - 1)
      power == SubSeq(t, Find(t, "e") + 1, Len(t))
      fraction == SubSeq(mantissa, Find(mantissa, ".") + 1, Len(mantissa))
      m == ValueOf(SelectSeq(mantissa, IsDigit))
      p == ValueOf(SelectSeq(power, IsDigit))
  IN  Rounded(IF Contains(mantissa, "-") THEN -m ELSE m,
              (IF Contains(power, "-") THEN -p ELSE p) - Len(fraction))


\* Jscon_decode_double(): as much of the text as numstr holds.
Jscon_decode_double(t) == Scanned(Cut(t, MAX_INTEGER_DIG - 1))

\* sprintf("%.lf") and sprintf("%lld").
Whole(d) == Minus(d.man) \o DigitsOf(Abs(d.man), Width(Abs(d.man))) \o Zeros(d.exp)

\* The exponent in a text, of two digits at least.
Power(d) ==
  LET power == Abs(Magnitude(d))
  IN  DigitsOf(power, IF Width(power) < 2 THEN 2 ELSE Width(power))

\* sprintf("%.*e"): one digit is before the point.
Scientific(d) ==
  LET m == Abs(d.man)
      digits == DigitsOf(m, Width(m)) \o Zeros(DBL_DECIMAL_DIG - Width(m))
  IN  Minus(d.man) \o <<digits[1], ".">> \o Tail(digits) \o
      <<"e", IF Magnitude(d) < 0 THEN "-" ELSE "+">> \o Power(d)

\* The last position of t up to n that does not hold a zero.
Untrailed(t, n) == CHOOSE i \in 1 .. n : t[i] # "0" /\ \A j \in i + 1 .. n : t[j] = "0"

\* The zeros at the end of the mantissa are trimmed, and when the exponent
\* ends with one, its zeros first: it is gone if it was 0, and short of a
\* digit if it was not, and then the mantissa is left as it is.
Trimmed(d) ==
  LET t == Scientific(d)
      digit == DBL_DECIMAL_DIG + 1 + Len(Minus(d.man))
      last == IF Magnitude(d) = 0 THEN digit ELSE Untrailed(t, Len(t))
  IN  IF Last(t) = "0"
        THEN SubSeq(t, 1, Untrailed(t, last))
        ELSE SubSeq(t, 1, Untrailed(t, digit)) \o SubSeq(t, digit + 1, Len(t))

\* What sprintf() writes to get_strnum, before any of it is trimmed.
Written(d) == IF DOUBLE_IS_INTEGER(d) THEN Whole(d) ELSE Scientific(d)

_jscon_double_tostr(d) == IF DOUBLE_IS_INTEGER(d) THEN Whole(d) ELSE Trimmed(d)

\* Mutant: no room is left for an exponent.
RoomForMantissa == 5 + (DBL_DECIMAL_DIG - 1)

\* get_strnum of _jscon_utils_apply_double(), with its last byte for \0.
DoubleRoom == 11 + (DBL_DECIMAL_DIG - 1)

\* Mutant: snprintf() is given the length of the text, without its \0.
AppliedWithoutLast(i) == Cut(Whole(i), Len(Whole(i)) - 1)

\* snprintf() is given one less than the size, and writes one less than that.
_jscon_utils_apply_integer(i) == Cut(Whole(i), MAX_INTEGER_DIG - 2)

jscon_stringify(x) ==
  IF x.type = "integer" THEN _jscon_utils_apply_integer(x.number)
                        ELSE _jscon_double_tostr(x.number)

Made(type, number) == [type |-> type, number |-> number]

\* _jscon_value_set_number() of the number that a text decodes to.
_jscon_value_set_number(d) ==
  IF DOUBLE_IS_INTEGER(d) THEN Made("integer", LongLong(d)) ELSE Made("double", d)

------------------------------------------------------------------------------

New(x, t) ==
  /\ item' = x
  /\ text' = t
  /\ clones' = 0
  /\ UNCHANGED status

jscon_integer(i) == New(Made("integer", i), <<>>)

jscon_double(d) == New(Made("double", d), <<>>)

\* An integer or a double, whichever the number is.
jscon_number(d) ==
  New(IF DOUBLE_IS_INTEGER(d) THEN Made("integer", LongLong(d)) ELSE Made("double", d), <<>>)

jscon_parse(t) == New(_jscon_value_set_number(Jscon_decode_double(t)), t)

\* Whether sprintf() writes past the end of get_strnum, its \0 included.
Overflows(x) == x.type = "double" /\ Len(Written(x.number)) >= DoubleRoom

jscon_clone ==
  \/ /\ ~Overflows(item)
     /\ item' = _jscon_value_set_number(Jscon_decode_double(jscon_stringify(item)))
     /\ text' = jscon_stringify(item)
     /\ clones' = IF clones = 3 THEN 3 ELSE clones + 1
     /\ UNCHANGED status
  \/ /\ Overflows(item)
     /\ status' = "crash"
     /\ UNCHANGED <<item, text, clones>>

Init ==
  /\ item = Made("integer", Number(0, 0))
  /\ text = <<>>
  /\ clones = 0
  /\ status = "ok"

\* The client begins anew with an item that it has not cloned.
Next ==
  /\ status = "ok"
  /\ \/ /\ clones = 0
        /\ text = <<>>
        /\ item = Made("integer", Number(0, 0))
        /\ \/ \E i \in Integer : jscon_integer(i)
           \/ \E d \in Double : jscon_double(d)
           \/ \E d \in Double : jscon_number(d)
           \/ \E t \in Numeral : jscon_parse(t)
     \/ jscon_clone

Spec == Init /\ [][Next]_vars
------------------------------------------------------------------------------

(***************************************************************************)
(* An item is what its type says: an integer is whole and in the range of  *)
(* a long long, a double has no more digits than it can hold.              *)
(***************************************************************************)
TypeOK ==
  /\ item.type \in {"integer", "double"}
  /\ item.type = "integer" => DOUBLE_IS_INTEGER(item.number) /\ InRange(item.number)
  /\ item.type = "double" => Width(Abs(item.number.man)) <= DBL_DECIMAL_DIG
  /\ clones \in 0 .. 3
  /\ status \in {"ok", "crash"}

(***************************************************************************)
(* get_strnum has room for every number with a fraction, its sign and an   *)
(* exponent of three digits included, for every whole double that a long   *)
(* long could hold, and for every number that was read from a text.  It    *)
(* has none for a whole double of DBL_DECIMAL_DIG + 10 characters or more, *)
(* which jscon_double() takes and the comment at its size,                 *)
(* src/src/jscon-stringify.c:122, does not count.                          *)
(***************************************************************************)
Huge(x) ==
  /\ x.type = "double" /\ DOUBLE_IS_INTEGER(x.number)
  /\ Len(Minus(x.number.man)) + Magnitude(x.number) + 1 >= DBL_DECIMAL_DIG + 10

OnlyHugeOverflows ==
  [][jscon_clone =>
       /\ status' = "crash" <=> Huge(item)
       /\ Huge(item) => ~InRange(item.number) /\ text = <<>>]_vars

(***************************************************************************)
(* A clone has the number of its source exactly when the text of it fits   *)
(* the buffers on the way, its digits a double and its value the type it   *)
(* gets, and when its exponent, if it is written with one, does not end    *)
(* with a zero.  The comment at src/src/jscon-public.c:412 says that it     *)
(* always has.                                                             *)
(***************************************************************************)
Keeps(x) ==
  LET d == x.number
      sign == Len(Minus(d.man))
      digits == Width(Abs(d.man))
  IN  IF DOUBLE_IS_INTEGER(d)
        THEN /\ InRange(d)
             /\ digits <= DBL_DECIMAL_DIG
             /\ sign + digits + d.exp <= MAX_INTEGER_DIG - (IF x.type = "integer" THEN 2 ELSE 1)
        ELSE Magnitude(d) = 0 \/
               /\ Magnitude(d) % 10 # 0
               /\ sign + digits + Len(".e+") + Len(Power(d)) <= MAX_INTEGER_DIG - 1


(***************************************************************************)
(* What is lost is lost by the first two clones: those after them have the *)
(* number and the type of their source.                                    *)
(***************************************************************************)
ClonesSettle == [][jscon_clone /\ clones >= 2 => item' = item]_vars
==============================================================================
