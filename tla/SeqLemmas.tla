------------------------------ MODULE SeqLemmas ------------------------------
(***************************************************************************)
(* Facts about sequences that the proofs about chains of hash entries and  *)
(* about branch arrays share: what removing one position leaves.           *)
(***************************************************************************)
EXTENDS Integers, SequencesExt, SequenceTheorems, TLAPS

\* Positions before n keep their element, later ones take their neighbour's.
LEMMA RemoveAtProperties ==
  ASSUME NEW S, NEW s \in Seq(S), NEW n \in 1 .. Len(s)
  PROVE  /\ RemoveAt(s, n) \in Seq(S)
         /\ Len(RemoveAt(s, n)) = Len(s) - 1
         /\ \A i \in 1 .. Len(s) - 1 :
              RemoveAt(s, n)[i] = IF i < n THEN s[i] ELSE s[i + 1]
<1>1. Len(s) \in Nat /\ \A i \in 1 .. Len(s) : s[i] \in S
  BY LenProperties
<1> DEFINE a == SubSeq(s, 1, n - 1)
           b == SubSeq(s, n + 1, Len(s))
<1>2. /\ a \in Seq(S)
      /\ Len(a) = n - 1
      /\ \A i \in 1 .. n - 1 : a[i] = s[i]
  BY <1>1, SubSeqProperties
<1>3. /\ b \in Seq(S)
      /\ Len(b) = Len(s) - n
      /\ \A i \in 1 .. Len(s) - n : b[i] = s[n + i]
  <2>1. \A i \in n + 1 .. Len(s) : s[i] \in S
    BY <1>1
  <2>2. /\ b \in Seq(S)
        /\ Len(b) = IF n + 1 <= Len(s) THEN Len(s) - (n + 1) + 1 ELSE 0
        /\ \A i \in 1 .. Len(s) - (n + 1) + 1 : b[i] = s[(n + 1) + i - 1]
    BY <1>1, <2>1, SubSeqProperties
  <2> QED
    BY <1>1, <2>2
<1>4. /\ a \o b \in Seq(S)
      /\ Len(a \o b) = Len(a) + Len(b)
      /\ \A i \in 1 .. Len(a) + Len(b) :
           (a \o b)[i] = IF i <= Len(a) THEN a[i] ELSE b[i - Len(a)]
  BY <1>2, <1>3, ConcatProperties
<1>5. RemoveAt(s, n) = a \o b
  BY DEF RemoveAt
<1> HIDE DEF a, b
<1>6. ASSUME NEW i \in 1 .. Len(s) - 1
      PROVE  (a \o b)[i] = IF i < n THEN s[i] ELSE s[i + 1]
  <2>1. CASE i < n
    BY <1>1, <1>2, <1>3, <1>4, <2>1
  <2>2. CASE ~(i < n)
    <3>1. i - (n - 1) \in 1 .. Len(s) - n
      BY <1>1, <2>2
    <3>2. (a \o b)[i] = b[i - (n - 1)]
      BY <1>1, <1>2, <1>3, <1>4, <2>2
    <3>3. b[i - (n - 1)] = s[n + (i - (n - 1))]
      BY <1>3, <3>1
    <3>4. n + (i - (n - 1)) = i + 1
      BY <1>1
    <3> QED
      BY <2>2, <3>2, <3>3, <3>4
  <2> QED
    BY <2>1, <2>2
<1>7. Len(a \o b) = Len(s) - 1
  BY <1>1, <1>2, <1>3, <1>4
<1> QED
  BY <1>4, <1>5, <1>6, <1>7

\* The same of a position given as a member of the domain.
LEMMA RemoveAtDomain ==
  ASSUME NEW S, NEW s \in Seq(S), NEW n \in DOMAIN s
  PROVE  /\ RemoveAt(s, n) \in Seq(S)
         /\ DOMAIN s = 1 .. Len(s)
         /\ Len(s) \in Nat
         /\ DOMAIN RemoveAt(s, n) = 1 .. Len(s) - 1
         /\ \A i \in 1 .. Len(s) - 1 :
              RemoveAt(s, n)[i] = IF i < n THEN s[i] ELSE s[i + 1]
<1>1. DOMAIN s = 1 .. Len(s) /\ Len(s) \in Nat /\ n \in 1 .. Len(s)
  BY LenProperties
<1> QED
  BY <1>1, RemoveAtProperties, LenProperties

\* Every other element is still there, and nothing new is.
LEMMA RemoveAtElements ==
  ASSUME NEW S, NEW s \in Seq(S), NEW n \in DOMAIN s
  PROVE  /\ \A i \in DOMAIN RemoveAt(s, n) :
              \E j \in DOMAIN s : j # n /\ RemoveAt(s, n)[i] = s[j]
         /\ \A j \in DOMAIN s : j # n =>
              \E i \in DOMAIN RemoveAt(s, n) : RemoveAt(s, n)[i] = s[j]
<1> DEFINE r == RemoveAt(s, n)
<1>1. /\ r \in Seq(S)
      /\ Len(r) = Len(s) - 1
      /\ \A i \in 1 .. Len(s) - 1 : r[i] = IF i < n THEN s[i] ELSE s[i + 1]
  BY RemoveAtProperties
<1>2. /\ DOMAIN s = 1 .. Len(s)
      /\ Len(s) \in Nat
      /\ DOMAIN r = 1 .. Len(s) - 1
  BY <1>1, LenProperties
<1> HIDE DEF r
<1>3. ASSUME NEW i \in DOMAIN r
      PROVE  \E j \in DOMAIN s : j # n /\ r[i] = s[j]
  <2>1. CASE i < n
    BY <1>1, <1>2, <2>1
  <2>2. CASE ~(i < n)
    <3>1. i + 1 \in DOMAIN s /\ i + 1 # n /\ r[i] = s[i + 1]
      BY <1>1, <1>2, <2>2
    <3> QED
      BY <3>1
  <2> QED
    BY <2>1, <2>2
<1>4. ASSUME NEW j \in DOMAIN s, j # n
      PROVE  \E i \in DOMAIN r : r[i] = s[j]
  <2>1. CASE j < n
    BY <1>1, <1>2, <2>1
  <2>2. CASE ~(j < n)
    <3>1. j - 1 \in DOMAIN r /\ r[j - 1] = s[j]
      BY <1>1, <1>2, <1>4, <2>2
    <3> QED
      BY <3>1
  <2> QED
    BY <2>1, <2>2
<1> QED
  BY <1>3, <1>4 DEF r

\* Two elements that are left keep their order.
LEMMA RemoveAtOrder ==
  ASSUME NEW S, NEW s \in Seq(S), NEW n \in DOMAIN s,
         NEW i \in DOMAIN s, NEW j \in DOMAIN s, i < j, i # n, j # n
  PROVE  \E k, m \in DOMAIN RemoveAt(s, n) :
           k < m /\ RemoveAt(s, n)[k] = s[i] /\ RemoveAt(s, n)[m] = s[j]
<1> DEFINE r == RemoveAt(s, n)
           Moved(k) == IF k < n THEN k ELSE k - 1
<1>1. /\ DOMAIN s = 1 .. Len(s) /\ Len(s) \in Nat
      /\ DOMAIN r = 1 .. Len(s) - 1
      /\ \A k \in 1 .. Len(s) - 1 : r[k] = IF k < n THEN s[k] ELSE s[k + 1]
  BY RemoveAtDomain
<1> HIDE DEF r
<1>2. ASSUME NEW k \in DOMAIN s, k # n
      PROVE  Moved(k) \in DOMAIN r /\ r[Moved(k)] = s[k]
  BY <1>1, <1>2
<1>3. Moved(i) < Moved(j)
  BY <1>1
<1> HIDE DEF Moved
<1> QED
  BY <1>2, <1>3 DEF r
==============================================================================
