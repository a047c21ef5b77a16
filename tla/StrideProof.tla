----------------------------- MODULE StrideProof -----------------------------
(***************************************************************************)
(* Why strides may wrap around, for every BIG_STRIDE and any set of        *)
(* processes: as long as the strides lie within BIG_STRIDE of the least of *)
(* them, the comparison puts them in their order, and advancing the least  *)
(* one, as stride_pick_next does, leaves them within BIG_STRIDE again.     *)
(***************************************************************************)
EXTENDS Stride, WellFoundedInduction, TLAPS

LEMMA WrapNat == Wrap \in Nat /\ Wrap = 2 * BIG_STRIDE + 2 /\ BIG_STRIDE \in Nat \ {0}
BY StrideAssumption DEF Wrap

\* A remainder of what is less than one turn below 0, or above it
LEMMA Remainder ==
  ASSUME NEW w \in Nat \ {0}, NEW x \in 0 .. w - 1
  PROVE  x % w = x /\ (x - w) % w = x /\ (x + w) % w = x
<1>1. x % w = x OBVIOUS
<1>2. (x - w) % w = x OBVIOUS
<1>3. (x + w) % w = x OBVIOUS
<1> QED BY <1>1, <1>2, <1>3

\* How far one stride is ahead of another
LEMMA AheadCases ==
  ASSUME NEW a \in Stride, NEW m \in Stride
  PROVE  Ahead(a, m) = IF a < m THEN a - m + Wrap ELSE a - m
<1>1. CASE a < m
  <2>1. PICK x \in 0 .. Wrap - 1 : x = a - m + Wrap BY <1>1, WrapNat DEF Stride
  <2>2. (x - Wrap) % Wrap = x BY Remainder, WrapNat
  <2>3. x - Wrap = a - m BY <2>1, WrapNat DEF Stride
  <2> QED BY <1>1, <2>1, <2>2, <2>3 DEF Ahead
<1>2. CASE ~(a < m)
  <2>1. a - m \in 0 .. Wrap - 1 BY <1>2, WrapNat DEF Stride
  <2>2. (a - m) % Wrap = a - m BY <2>1, Remainder, WrapNat
  <2> QED BY <1>2, <2>2 DEF Ahead
<1> QED BY <1>1, <1>2

\* An advance by at most BIG_STRIDE, which stride_pick_next makes
LEMMA AdvancedBy ==
  ASSUME NEW a \in Stride, NEW k \in Nat
  PROVE  \E d \in 0 .. BIG_STRIDE :
           Advanced(a, k) = IF a + d < Wrap THEN a + d ELSE a + d - Wrap
<1> DEFINE d == IF k = 0 THEN BIG_STRIDE ELSE BIG_STRIDE \div k
<1>1. d \in 0 .. BIG_STRIDE BY WrapNat
<1>2. Advanced(a, k) = (a + d) % Wrap BY DEF Advanced
<1> HIDE DEF d
<1>3. CASE a + d < Wrap
  <2>1. a + d \in 0 .. Wrap - 1 BY <1>1, <1>3, WrapNat DEF Stride
  <2>2. (a + d) % Wrap = a + d BY <2>1, Remainder, WrapNat
  <2> QED BY <1>1, <1>2, <1>3, <2>2
<1>4. CASE ~(a + d < Wrap)
  <2>1. a + d - Wrap \in 0 .. Wrap - 1 BY <1>1, <1>4, WrapNat DEF Stride
  <2>2. (a + d - Wrap + Wrap) % Wrap = a + d - Wrap BY <2>1, Remainder, WrapNat
  <2>3. a + d - Wrap + Wrap = a + d BY <1>1, WrapNat DEF Stride
  <2> QED BY <1>1, <1>2, <1>4, <2>2, <2>3
<1> QED BY <1>3, <1>4

\* The comparison of proc_stride_comp_f is the order of the strides counted from
\* the least one: a total order, in which that one comes first.
THEOREM OrderedByAhead ==
  ASSUME NEW S, NEW s \in [S -> Stride], NEW m \in S, Reach(s, m, S),
         NEW p \in S, NEW q \in S
  PROVE  Before(s[p], s[q]) <=> Ahead(s[p], s[m]) < Ahead(s[q], s[m])
<1> DEFINE a == s[p]  b == s[q]  c == s[m]
<1>1. a \in Stride /\ b \in Stride /\ c \in Stride OBVIOUS
<1>2. Ahead(a, c) <= BIG_STRIDE /\ Ahead(b, c) <= BIG_STRIDE BY DEF Reach
<1>3. Before(a, b) <=> Ahead(a, b) > BIG_STRIDE BY DEF Before, Ahead
<1> HIDE DEF a, b, c
<1>4. Before(a, b) <=> Ahead(a, c) < Ahead(b, c)
  <2>1. /\ Ahead(a, b) = IF a < b THEN a - b + Wrap ELSE a - b
        /\ Ahead(a, c) = IF a < c THEN a - c + Wrap ELSE a - c
        /\ Ahead(b, c) = IF b < c THEN b - c + Wrap ELSE b - c
    BY <1>1, AheadCases
  <2> QED BY <1>1, <1>2, <1>3, <2>1, WrapNat DEF Stride
<1> QED BY <1>4 DEF a, b, c

\* stride_pick_next keeps the strides together: when the least one advances by
\* what its priority says, all of them are within BIG_STRIDE of the one that is
\* now the least.
THEOREM PickKeepsTogether ==
  ASSUME NEW S, NEW s \in [S -> Stride], NEW m \in S, Reach(s, m, S), NEW k \in Nat
  PROVE  Together([s EXCEPT ![m] = Advanced(s[m], k)], S)
<1> DEFINE t == [s EXCEPT ![m] = Advanced(s[m], k)]
           c == s[m]
<1>1. PICK d \in 0 .. BIG_STRIDE : Advanced(c, k) = IF c + d < Wrap THEN c + d ELSE c + d - Wrap
  BY AdvancedBy
<1>2. c \in Stride OBVIOUS
<1>3. t[m] = Advanced(c, k) /\ \A q \in S \ {m} : t[q] = s[q] OBVIOUS
<1>4. \A q \in S : t[q] \in Stride BY <1>1, <1>2, <1>3, WrapNat DEF Stride
<1>5. \A q \in S : Ahead(t[q], c) \in 0 .. BIG_STRIDE
  <2> TAKE q \in S
  <2>1. CASE q = m
    <3>1. t[q] = IF c + d < Wrap THEN c + d ELSE c + d - Wrap BY <2>1, <1>1, <1>3
    <3>2. Ahead(t[q], c) = IF t[q] < c THEN t[q] - c + Wrap ELSE t[q] - c
      BY <1>2, <1>4, AheadCases
    <3> QED BY <3>1, <3>2, <1>2, WrapNat DEF Stride
  <2>2. CASE q # m
    <3>1. Ahead(s[q], s[m]) <= BIG_STRIDE BY DEF Reach
    <3>2. t[q] = s[q] BY <2>2, <1>3
    <3>3. Ahead(t[q], c) = IF t[q] < c THEN t[q] - c + Wrap ELSE t[q] - c
      BY <1>2, <1>4, AheadCases
    <3>4. Ahead(t[q], c) \in Nat BY <3>3, <1>2, <1>4, WrapNat DEF Stride
    <3> QED BY <3>1, <3>2, <3>4, WrapNat
  <2> QED BY <2>1, <2>2
<1> HIDE DEF t, c
<1>6. PICK n \in S : \A q \in S : ~(Ahead(t[q], c) < Ahead(t[n], c))
  <2> DEFINE far == {Ahead(t[q], c) : q \in S}
             below == {pair \in Nat \X Nat : pair[1] < pair[2]}
  <2>1. IsWellFoundedOn(below, Nat) BY NatLessThanWellFounded DEF OpToRel
  <2>2. far \subseteq Nat /\ far # {} BY <1>5, WrapNat
  <2> HIDE DEF below
  <2>3. PICK least \in far : \A x \in far : <<x, least>> \notin below BY <2>1, <2>2, WFMin
  <2>4. \A x \in far : ~(x < least) BY <2>2, <2>3 DEF below
  <2> QED BY <2>4
<1>7. Reach(t, n, S)
  <2> SUFFICES ASSUME NEW q \in S PROVE Ahead(t[q], t[n]) <= BIG_STRIDE BY DEF Reach
  <2>1. ~(Ahead(t[q], c) < Ahead(t[n], c)) BY <1>6
  <2>2. /\ Ahead(t[q], c) = IF t[q] < c THEN t[q] - c + Wrap ELSE t[q] - c
        /\ Ahead(t[n], c) = IF t[n] < c THEN t[n] - c + Wrap ELSE t[n] - c
        /\ Ahead(t[q], t[n]) = IF t[q] < t[n] THEN t[q] - t[n] + Wrap ELSE t[q] - t[n]
    BY <1>2, <1>4, AheadCases
  <2> QED BY <2>1, <2>2, <1>2, <1>4, <1>5, WrapNat DEF Stride
<1> QED BY <1>7 DEF Together, t
==============================================================================
