---------------------------- MODULE MCJsconScanf ----------------------------
(***************************************************************************)
(* Objects of MinItems to MaxItems values over two names and the one that  *)
(* they spell together, scanned with one or two conversions.               *)
(***************************************************************************)
EXTENDS JsconScanf, MCJsconParse

CONSTANTS i1, i2, i3, i4, i5, ka, kb, kab, zero, u

MCSpelling == (ka :> <<"a">>) @@ (kb :> <<"b">>) @@ (kab :> <<"a", "b">>)

MCSort == (zero :> "integer") @@ (u :> "string")

\* The longest ones are of objects and numbers only.
MCObject ==
  {d \in MCDocument : Is(d[1], "{")} \cup
  {d \in Values(MaxItems + 1) : ToSet(d) \cap {Mark("["), ValueToken(u)} = {}}

Path == {<<k>> : k \in Name} \cup {<<k, l>> : k, l \in Name}

Conversion(specifiers) == [specifier : specifiers, path : Path]

MCFormat ==
  {<<c>> : c \in Conversion({"d", "s", "S", "ji"})} \cup
  {<<c, d>> : c \in Conversion({"d"}), d \in Conversion({"S", "ji"})}

\* Items are interchangeable: malloc() hands them out in one order.
Memory == <<i1, i2, i3, i4, i5>>
MCItem == ToSet(Memory)

InOrder ==
  \A n \in DOMAIN Memory :
    type[Memory[n]] = "unborn" /\ type'[Memory[n]] # "unborn" =>
      \A m \in 1 .. n - 1 : type[Memory[m]] # "unborn"

VisibleScan == <<VisibleParse, scan>>
==============================================================================
