---------------------------- MODULE MCJsconNumber ----------------------------
(***************************************************************************)
(* Numbers around every size: with as many digits as a double has and      *)
(* fewer, whole ones as long as the buffers and longer, and exponents on   *)
(* both sides of 0, 10 and 100.                                            *)
(***************************************************************************)
EXTENDS JsconNumber

Mantissa ==
  {m \in 1 .. 99 : m % 10 # 0} \cup
  {101, 125, 999, 1001, 1234, 9999, 10001, 12345, 99999, 100001, 123456, 555555, 999999}

MCMagnitude == -112 .. -97 \cup -13 .. 18

MCDouble ==
  {Number(0, 0)} \cup
  {Number(sign * m, p - (Width(m) - 1)) : sign \in {-1, 1}, m \in Mantissa, p \in MCMagnitude}

MCInteger ==
  LET around == {10^k : k \in 0 .. 7} \cup {999999, 1234567, 12345678, LLONG_MAX}
      near == UNION {n - 5 .. n + 5 : n \in around} \cap 0 .. LLONG_MAX
  IN  {Normal(n, 0) : n \in near} \cup {Normal(-n, 0) : n \in near} \cup {LLONG_MIN}

MCNumeral ==
  LET Part(w, n) == DigitsOf(n, w)
      whole == {Part(1, n) : n \in 0 .. 9} \cup {Part(4, n) : n \in {1000, 1005, 9995}} \cup
               {Part(7, n) : n \in {1000000, 1234567, 9999995, 9999999}} \cup
               {Part(9, n) : n \in {100000000, 922337200, 999999999}}
      fraction == {<<>>} \cup
                  {<<".">> \o Part(w, n) : w \in {1, 2, 3, 6}, n \in {0, 5, 50, 125, 999999}}
      power == {<<>>} \cup {<<"e">> \o sign \o Part(w, n) :
                  sign \in {<<>>, <<"+">>, <<"-">>}, w \in 1 .. 3, n \in {0, 1, 10, 12, 100}}
  IN  {sign \o w \o f \o p : sign \in {<<>>, <<"-">>}, w \in whole, f \in fraction, p \in power}
==============================================================================
