-------------------------- MODULE ConfidenceProofs --------------------------
(****************************************************************************)
(* How confidences and verdicts grow, for any counts of observations.  The *)
(* curve of calculateConfidence is a recursive function, so its values are *)
(* reached by induction: over sets of numbers, the well-foundedness of     *)
(* which needs no induction scheme.                                        *)
(****************************************************************************)
EXTENDS Confidence, WellFoundedInduction, TLAPS

-----------------------------------------------------------------------------
(* Induction and recursion over the naturals                               *)

\* A non-empty set of naturals has a least member.
LEMMA LeastNatural ==
    ASSUME NEW S \in SUBSET Nat, S # {}
    PROVE  \E n \in S : \A m \in S : n <= m
<1>1. PICK n \in S : \A m \in S : <<m, n>> \notin OpToRel(<, Nat)
  BY NatLessThanWellFounded, WFMin, Zenon
<1>2. \A m \in S : ~ (m < n)
  BY <1>1 DEF OpToRel
<1> QED
  BY <1>2

\* A set of naturals with 0 and with the successors of its members has all.
LEMMA NaturalsOf ==
    ASSUME NEW S, 0 \in S, \A n \in Nat : n \in S => n + 1 \in S
    PROVE  Nat \subseteq S
<1>1. SUFFICES ASSUME Nat \ S # {} PROVE FALSE
  OBVIOUS
<1>2. PICK n \in Nat \ S : \A m \in Nat \ S : n <= m
  BY <1>1, LeastNatural
<1>3. n # 0 /\ n - 1 \in Nat
  BY <1>2
<1>4. n - 1 \in S
  BY <1>2, <1>3
<1> QED
  BY <1>2, <1>3, <1>4

\* A function on the naturals that starts with x and goes on by F exists.
LEMMA IterationExists ==
    ASSUME NEW S, NEW x \in S, NEW F \in [S -> S]
    PROVE  \E f \in [Nat -> S] : f[0] = x /\ \A n \in Nat : f[n + 1] = F[f[n]]
<1> DEFINE Starts(n) == {f \in [0 .. n -> S] :
                            f[0] = x /\ \A i \in 0 .. n - 1 : f[i + 1] = F[f[i]]}
           A == {n \in Nat : Starts(n) # {}}
\* Each start of the function can be extended by one value.
<1>1. Nat \subseteq A
  <2>1. 0 \in A
    <3>1. [i \in 0 .. 0 |-> x] \in Starts(0)
      OBVIOUS
    <3> QED
      BY <3>1
  <2>2. ASSUME NEW n \in Nat, n \in A PROVE n + 1 \in A
    <3>1. PICK f : f \in Starts(n)
      BY <2>2
    <3> DEFINE g == [i \in 0 .. n + 1 |-> IF i <= n THEN f[i] ELSE F[f[n]]]
    <3>2. f \in [0 .. n -> S] /\ f[0] = x /\ \A i \in 0 .. n - 1 : f[i + 1] = F[f[i]]
      BY <3>1
    <3>3. g \in [0 .. n + 1 -> S]
      BY <3>2
    <3>4. g[0] = x
      BY <3>2
    <3>5. \A i \in 0 .. n : g[i + 1] = F[g[i]]
      BY <3>2
    <3> HIDE DEF g
    <3>6. g \in Starts(n + 1)
      BY <3>3, <3>4, <3>5
    <3> HIDE DEF Starts
    <3> QED
      BY <3>6
  <2> HIDE DEF A
  <2> QED
    BY <2>1, <2>2, NaturalsOf
\* Two starts agree as far as both go.
<1>2. ASSUME NEW n \in Nat, NEW m \in Nat, NEW f \in Starts(n), NEW g \in Starts(m),
             NEW i \in Nat, i <= n, i <= m
      PROVE  f[i] = g[i]
  <2> DEFINE B == {k \in Nat : k <= n /\ k <= m => f[k] = g[k]}
  <2>1. 0 \in B
    OBVIOUS
  <2>2. ASSUME NEW k \in Nat, k \in B PROVE k + 1 \in B
    BY <2>2
  <2> HIDE DEF Starts
  <2>3. Nat \subseteq B
    <3> HIDE DEF B
    <3> QED
      BY <2>1, <2>2, NaturalsOf
  <2> QED
    BY <1>2, <2>3
<1> DEFINE G == [n \in Nat |-> CHOOSE f : f \in Starts(n)]
           h == [n \in Nat |-> G[n][n]]
<1>3. \A n \in Nat : G[n] \in Starts(n)
  BY <1>1
<1>4. h \in [Nat -> S]
  <2>1. ASSUME NEW n \in Nat PROVE G[n][n] \in S
    BY <1>3
  <2> HIDE DEF G, Starts
  <2> QED
    BY <2>1
<1>5. h[0] = x
  BY <1>3
<1>6. ASSUME NEW n \in Nat PROVE h[n + 1] = F[h[n]]
  <2> HIDE DEF G
  <2>1. G[n + 1] \in Starts(n + 1) /\ G[n] \in Starts(n)
    BY <1>3
  <2>2. G[n + 1][n + 1] = F[G[n + 1][n]]
    <3>1. \A i \in 0 .. (n + 1) - 1 : G[n + 1][i + 1] = F[G[n + 1][i]]
      BY <2>1
    <3> QED
      BY <3>1
  <2> HIDE DEF Starts
  <2>3. G[n + 1][n] = G[n][n]
    BY <1>2, <2>1
  <2>4. h[n + 1] = G[n + 1][n + 1] /\ h[n] = G[n][n]
    OBVIOUS
  <2> QED
    BY <2>2, <2>3, <2>4
<1> HIDE DEF h
<1> QED
  BY <1>4, <1>5, <1>6

-----------------------------------------------------------------------------
(* The curve of calculateConfidence                                        *)

LEMMA ScaleIsNat == Scale \in Nat
  BY SMT DEF Scale, Unit

\* One step of the recursion stays in range and never rises.
LEMMA AnchorStep ==
    ASSUME NEW v \in 0 .. Scale
    PROVE  (v * 561) \div 620 \in 0 .. v
<1>1. v \in Nat
  BY ScaleIsNat
<1> QED
  BY <1>1

\* Anchor is what its recursive definition says.
LEMMA AnchorDefined ==
    Anchor = [k \in Nat |-> IF k = 0 THEN Scale ELSE (Anchor[k - 1] * 561) \div 620]
<1> DEFINE F == [v \in 0 .. Scale |-> (v * 561) \div 620]
           P(g) == g = [k \in Nat |-> IF k = 0 THEN Scale ELSE (g[k - 1] * 561) \div 620]
<1>1. Scale \in Nat
  BY ScaleIsNat
<1>2. F \in [0 .. Scale -> 0 .. Scale]
  BY <1>1, AnchorStep
<1>3. PICK f \in [Nat -> 0 .. Scale] : f[0] = Scale /\ \A n \in Nat : f[n + 1] = F[f[n]]
  <2> DEFINE S == 0 .. Scale
  <2>1. Scale \in S /\ F \in [S -> S]
    BY <1>1, <1>2
  <2> HIDE DEF F, S
  <2>2. \E f \in [Nat -> S] : f[0] = Scale /\ \A n \in Nat : f[n + 1] = F[f[n]]
    BY <2>1, IterationExists
  <2> QED
    BY <2>2 DEF S
<1>4. ASSUME NEW k \in Nat, k # 0 PROVE f[k] = (f[k - 1] * 561) \div 620
  <2> DEFINE n == k - 1
  <2>1. n \in Nat /\ k = n + 1
    BY <1>4
  <2> HIDE DEF n, F
  <2>2. f[n] \in 0 .. Scale /\ f[n + 1] = F[f[n]]
    BY <1>3, <2>1
  <2>3. F[f[n]] = (f[n] * 561) \div 620
    BY <2>2 DEF F
  <2> QED
    BY <2>1, <2>2, <2>3 DEF n
<1>5. P(f)
  BY <1>3, <1>4
<1>6. Anchor = CHOOSE g : P(g)
  BY Zenon DEF Anchor
<1> HIDE DEF P
<1>7. P(Anchor)
  BY <1>5, <1>6, Zenon
<1> QED
  BY <1>7 DEF P

\* The anchors are in range, start at Scale and never rise.
LEMMA AnchorValues ==
    /\ Anchor[0] = Scale
    /\ \A k \in Nat : Anchor[k] \in 0 .. Scale
    /\ \A k \in Nat : Anchor[k + 1] = (Anchor[k] * 561) \div 620
<1>1. Anchor[0] = Scale
  BY AnchorDefined
<1>2. ASSUME NEW k \in Nat PROVE Anchor[k + 1] = (Anchor[k] * 561) \div 620
  <2>1. k + 1 \in Nat /\ k + 1 # 0 /\ (k + 1) - 1 = k
    OBVIOUS
  <2> QED
    BY <2>1, AnchorDefined
<1>3. \A k \in Nat : Anchor[k] \in 0 .. Scale
  <2> DEFINE S == {k \in Nat : Anchor[k] \in 0 .. Scale}
  <2>1. 0 \in S
    BY <1>1, ScaleIsNat
  <2>2. ASSUME NEW k \in Nat, k \in S PROVE k + 1 \in S
    <3>1. Anchor[k + 1] \in 0 .. Anchor[k] /\ Anchor[k] \in 0 .. Scale
      BY <1>2, <2>2, AnchorStep
    <3> QED
      BY <3>1, ScaleIsNat
  <2> HIDE DEF S
  <2>3. Nat \subseteq S
    BY <2>1, <2>2, NaturalsOf
  <2> QED
    BY <2>3 DEF S
<1> QED
  BY <1>1, <1>2, <1>3

\* What \div does, and that it grows with the dividend and shrinks with the divisor.
LEMMA DivBounds ==
    ASSUME NEW a \in Nat, NEW b \in Nat \ {0}
    PROVE  a \div b \in Nat /\ (a \div b) * b <= a /\ a < (a \div b + 1) * b
  BY SMT

LEMMA DivMonotone ==
    ASSUME NEW a \in Nat, NEW b \in Nat \ {0}, NEW c \in Nat, NEW d \in Nat \ {0},
           a <= c, d <= b
    PROVE  a \div b <= c \div d
<1> DEFINE q == a \div b
           r == c \div d
<1>1. q \in Nat /\ q * b <= a /\ r \in Nat /\ c < (r + 1) * d
  BY DivBounds
<1> HIDE DEF q, r
<1>2. q * d <= q * b
  BY SMT, <1>1
<1>3. q * d < (r + 1) * d
  BY SMT, <1>1, <1>2
<1>4. q < r + 1
  <2>1. SUFFICES ASSUME q >= r + 1 PROVE FALSE
    BY <1>1
  <2>2. q * d >= (r + 1) * d
    BY SMT, <1>1, <2>1
  <2> QED
    BY SMT, <1>1, <1>3, <2>2
<1> QED
  BY SMT, <1>1, <1>4 DEF q, r

\* Where Decay takes its value from: the nearest anchor, at most 10 away.
LEMMA NearestAnchor ==
    ASSUME NEW n \in Nat
    PROVE  \E k \in Nat, j \in -10 .. 9 :
               /\ n = 20 * k + j
               /\ Decay(n) = (Anchor[k] * (400 - j)) \div (400 + j)
<1> DEFINE k == (n + 10) \div 20
           j == n - 20 * k
<1>1. k \in Nat /\ j \in -10 .. 9 /\ n = 20 * k + j
  BY SMT
<1>2. Decay(n) = (Anchor[k] * (400 - j)) \div (400 + j)
  BY DEF Decay
<1> QED
  BY <1>1, <1>2

\* The next anchor, seen from ten below, is below this one, seen from nine above.
LEMMA AnchorsMeet ==
    ASSUME NEW a \in Nat
    PROVE  (((a * 561) \div 620) * (400 - (-10))) \div (400 + (-10))
               <= (a * (400 - 9)) \div (400 + 9)
  BY SMT

\* One more observation never raises the decay, however many there were.
LEMMA DecayFalls ==
    ASSUME NEW n \in Nat
    PROVE  Decay(n) \in Nat /\ Decay(n + 1) \in Nat /\ Decay(n + 1) <= Decay(n)
<1>1. PICK k \in Nat, j \in -10 .. 9 :
          /\ n = 20 * k + j
          /\ Decay(n) = (Anchor[k] * (400 - j)) \div (400 + j)
  BY NearestAnchor
<1>2. Anchor[k] \in Nat /\ Anchor[k + 1] \in Nat /\ Anchor[k + 1] = (Anchor[k] * 561) \div 620
  BY AnchorValues, ScaleIsNat
<1>3. CASE j < 9
  <2> DEFINE a == Anchor[k] * (400 - (j + 1))
             b == 400 + (j + 1)
             c == Anchor[k] * (400 - j)
             d == 400 + j
  <2>1. ((n + 1) + 10) \div 20 = k /\ (n + 1) - 20 * k = j + 1
    BY SMT, <1>1, <1>3
  <2>2. Decay(n + 1) = a \div b
    BY <2>1 DEF Decay
  <2>3. a \in Nat /\ b \in Nat \ {0} /\ c \in Nat /\ d \in Nat \ {0} /\ a <= c /\ d <= b
    BY SMT, <1>2, <1>3
  <2>4. Decay(n) = c \div d
    BY <1>1
  <2> HIDE DEF a, b, c, d
  <2>5. a \div b \in Nat /\ c \div d \in Nat /\ a \div b <= c \div d
    BY <2>3, DivMonotone, DivBounds
  <2> QED
    BY <2>2, <2>4, <2>5
<1>4. CASE j = 9
  <2>1. ((n + 1) + 10) \div 20 = k + 1 /\ (n + 1) - 20 * (k + 1) = -10
    BY SMT, <1>1, <1>4
  <2>2. Decay(n + 1) = (Anchor[k + 1] * (400 - (-10))) \div (400 + (-10))
    BY <2>1 DEF Decay
  <2>3. Decay(n + 1) <= Decay(n)
    BY <1>1, <1>2, <1>4, <2>2, AnchorsMeet
  <2>4. Decay(n) \in Nat /\ Decay(n + 1) \in Nat
    BY SMT, <1>1, <1>2, <1>4, <2>2
  <2> QED
    BY <2>3, <2>4
<1> QED
  BY <1>3, <1>4

\* So more observations never raise it.
LEMMA DecayMonotone ==
    ASSUME NEW n \in Nat, NEW m \in Nat, n <= m
    PROVE  Decay(m) \in Nat /\ Decay(n) \in Nat /\ Decay(m) <= Decay(n)
<1> DEFINE S == {d \in Nat : Decay(n + d) <= Decay(n)}
<1>1. \A i \in Nat : Decay(i) \in Nat
  BY DecayFalls
<1>2. 0 \in S
  <2>1. n + 0 = n
    OBVIOUS
  <2> QED
    BY <1>1, <2>1
<1>3. ASSUME NEW d \in Nat, d \in S PROVE d + 1 \in S
  <2>1. Decay(n + d) <= Decay(n) /\ n + d \in Nat /\ n + (d + 1) = (n + d) + 1
    BY <1>3
  <2>2. Decay((n + d) + 1) <= Decay(n + d)
    BY <2>1, DecayFalls
  <2>3. Decay(n + (d + 1)) <= Decay(n)
    BY <1>1, <2>1, <2>2
  <2> QED
    BY <2>3
<1> HIDE DEF S
<1>4. m - n \in S
  BY <1>2, <1>3, NaturalsOf
<1>5. n + (m - n) = m
  OBVIOUS
<1> QED
  BY <1>1, <1>4, <1>5 DEF S

\* The first twenty anchors.
LEMMA FirstAnchors == Anchor[0] = 2000000 /\ Anchor[4] = 1340646 /\ Anchor[20] = 270673
<1>1. Anchor[0] = 2000000
  <2>1. Anchor[0] = Scale
    BY AnchorValues
  <2> QED
    BY SMT, <2>1 DEF Scale, Unit
<1>2. /\ Anchor[1] = 1809677 /\ Anchor[2] = 1637465 /\ Anchor[3] = 1481641
      /\ Anchor[4] = 1340646 /\ Anchor[5] = 1213068
  BY SMT, <1>1, AnchorValues
<1>3. /\ Anchor[6] = 1097630 /\ Anchor[7] = 993178 /\ Anchor[8] = 898665
      /\ Anchor[9] = 813146 /\ Anchor[10] = 735765
  BY SMT, <1>2, AnchorValues
<1>4. /\ Anchor[11] = 665748 /\ Anchor[12] = 602394 /\ Anchor[13] = 545069
      /\ Anchor[14] = 493199 /\ Anchor[15] = 446265
  BY SMT, <1>3, AnchorValues
<1>5. /\ Anchor[16] = 403797 /\ Anchor[17] = 365371 /\ Anchor[18] = 330601
      /\ Anchor[19] = 299140 /\ Anchor[20] = 270673
  BY SMT, <1>4, AnchorValues
<1> QED
  BY SMT, <1>1, <1>2, <1>5

\* The values that the verdicts depend on.
LEMMA DecayValues ==
    /\ Decay(0) = 2000000
    /\ Decay(2) = 1980099
    /\ Decay(75) = 1374586
    /\ Decay(76) = 1367729
    /\ Decay(400) = 270673
<1>1. Decay(0) = (Anchor[0] * (400 - 0)) \div (400 + 0)
  BY SMT DEF Decay
<1>2. Decay(2) = (Anchor[0] * (400 - 2)) \div (400 + 2)
  BY SMT DEF Decay
<1>3. Decay(75) = (Anchor[4] * (400 - (-5))) \div (400 + (-5))
  BY SMT DEF Decay
<1>4. Decay(76) = (Anchor[4] * (400 - (-4))) \div (400 + (-4))
  BY SMT DEF Decay
<1>5. Decay(400) = (Anchor[20] * (400 - 0)) \div (400 + 0)
  BY SMT DEF Decay
<1> QED
  BY SMT, FirstAnchors, <1>1, <1>2, <1>3, <1>4, <1>5

\* What a decay is worth, once the numbers are written out.
LEMMA WorthOf ==
    ASSUME NEW n \in Nat, n >= 2
    PROVE  CalculateConfidence(n) = (((2000000 - Decay(n)) \div 2) * 95) \div 100
  BY SMT DEF CalculateConfidence, Scale, Unit

LEMMA WorthMonotone ==
    ASSUME NEW d \in Nat, NEW e \in Nat, d <= e, e <= 2000000
    PROVE  /\ (((2000000 - e) \div 2) * 95) \div 100 <= (((2000000 - d) \div 2) * 95) \div 100
           /\ (((2000000 - e) \div 2) * 95) \div 100 \in Nat
  BY SMT

LEMMA WorthInRange ==
    ASSUME NEW d \in Nat, d <= 1980099
    PROVE  /\ (((2000000 - d) \div 2) * 95) \div 100 \in Nat
           /\ (((2000000 - d) \div 2) * 95) \div 100 > 0
           /\ (((2000000 - d) \div 2) * 95) \div 100 <= MaxConfidence
  BY SMT DEF MaxConfidence

\* From the second observation on, a further one never lowers the confidence
\* calculateConfidence gives a point, although it rounds.
LEMMA ConfidenceGrows ==
    ASSUME NEW n \in Nat, NEW m \in Nat, 2 <= n, n <= m
    PROVE  CalculateConfidence(n) <= CalculateConfidence(m)
<1>1. Decay(m) \in Nat /\ Decay(n) \in Nat /\ Decay(m) <= Decay(n)
  BY DecayMonotone
<1>2. Decay(n) <= Decay(0)
  <2>1. 0 \in Nat /\ 0 <= n
    BY SMT
  <2> QED
    BY <2>1, DecayMonotone, Zenon
<1>3. Decay(n) <= 2000000
  BY SMT, <1>1, <1>2, DecayValues
<1>4. m >= 2
  BY SMT
<1> QED
  BY SMT, <1>1, <1>3, <1>4, WorthOf, WorthMonotone

\* A point that was observed has a confidence, and none above the maximum.
LEMMA ConfidenceInRange ==
    ASSUME NEW n \in Nat \ {0}
    PROVE  /\ CalculateConfidence(n) \in Nat
           /\ CalculateConfidence(n) > 0
           /\ CalculateConfidence(n) <= MaxConfidence
<1>1. CASE n = 1
  <2>1. CalculateConfidence(n) = FirstConfidence
    BY <1>1 DEF CalculateConfidence
  <2> QED
    BY SMT, <2>1 DEF FirstConfidence, MaxConfidence
<1>2. CASE n >= 2
  <2>1. Decay(n) \in Nat /\ Decay(n) <= Decay(2)
    <3>1. n \in Nat /\ 2 \in Nat /\ 2 <= n
      BY SMT, <1>2
    <3> QED
      BY <3>1, DecayMonotone, Zenon
  <2>2. Decay(n) <= 1980099
    BY SMT, <2>1, DecayValues
  <2> QED
    BY <1>2, <2>1, <2>2, WorthOf, WorthInRange
<1> QED
  BY SMT, <1>1, <1>2

\* 400 observations are enough for a point to be trusted.
LEMMA ConfidenceIsHigh ==
    ASSUME NEW n \in Nat, n >= 400
    PROVE  CalculateConfidence(n) >= High
<1>1. Decay(n) \in Nat /\ Decay(n) <= Decay(400)
  <2>1. 400 \in Nat /\ 400 <= n
    BY SMT
  <2> QED
    BY <2>1, DecayMonotone, Zenon
<1>2. Decay(n) <= 270673
  BY SMT, <1>1, DecayValues
<1> QED
  BY SMT, <1>1, <1>2, WorthOf DEF High

\* calculateConfidence gives a point less than at its first observation exactly
\* while it was observed 2 to 75 times.
THEOREM LaterObservationsCost ==
    ASSUME NEW n \in Nat \ {0}
    PROVE  CalculateConfidence(n) < FirstConfidence <=> n \in 2 .. 75
<1>1. CASE n = 1
  BY <1>1, SMT DEF CalculateConfidence, FirstConfidence
<1>2. CASE n \in 2 .. 75
  <2>1. n \in Nat /\ 75 \in Nat /\ n <= 75 /\ n >= 2
    BY SMT, <1>2
  <2>2. Decay(n) \in Nat /\ Decay(n) >= Decay(75) /\ Decay(n) <= Decay(2)
    <3>1. 2 \in Nat /\ 2 <= n
      BY SMT, <2>1
    <3>2. Decay(n) \in Nat /\ Decay(75) <= Decay(n)
      BY <2>1, DecayMonotone, Zenon
    <3>3. Decay(n) <= Decay(2)
      BY <2>1, <3>1, DecayMonotone, Zenon
    <3>4. Decay(75) \in Nat
      BY SMT, DecayValues
    <3> QED
      BY SMT, <3>2, <3>3, <3>4
  <2>3. Decay(n) >= 1374586 /\ Decay(n) <= 1980099
    BY SMT, <2>2, DecayValues
  <2>4. CalculateConfidence(n) < 300000
    BY SMT, <2>1, <2>2, <2>3, WorthOf
  <2> QED
    BY SMT, <1>2, <2>4 DEF FirstConfidence
<1>3. CASE n >= 76
  <2>1. n \in Nat /\ 76 \in Nat /\ 76 <= n /\ n >= 2
    BY SMT, <1>3
  <2>2. Decay(n) \in Nat /\ Decay(n) <= Decay(76)
    BY <2>1, DecayMonotone, Zenon
  <2>3. Decay(n) <= 1367729
    BY SMT, <2>2, DecayValues
  <2>4. CalculateConfidence(n) \in Nat /\ CalculateConfidence(n) >= 300000
    BY SMT, <2>1, <2>2, <2>3, WorthOf
  <2> QED
    BY SMT, <1>3, <2>4 DEF FirstConfidence
<1> QED
  BY SMT, <1>1, <1>2, <1>3

-----------------------------------------------------------------------------
(* The score as a weighted mean                                            *)

\* What Min and Max of FiniteSetsExt choose exists, below a bound.
LEMMA Minimum ==
    ASSUME NEW S \in SUBSET Nat, S # {}
    PROVE  Min(S) \in S /\ \A x \in S : Min(S) <= x
  BY LeastNatural DEF Min

LEMMA Maximum ==
    ASSUME NEW S \in SUBSET Nat, S # {}, NEW N \in Nat, \A x \in S : x <= N
    PROVE  Max(S) \in S /\ \A x \in S : x <= Max(S)
<1> DEFINE T == {n \in Nat : N - n \in S}
<1>1. ASSUME NEW x \in S PROVE N - x \in T
  <2>1. x \in Nat /\ N - x \in Nat /\ N - (N - x) = x
    OBVIOUS
  <2> QED
    BY <2>1
<1>2. PICK n \in T : \A m \in T : n <= m
  BY <1>1, LeastNatural
<1>3. N - n \in S
  OBVIOUS
<1>4. ASSUME NEW x \in S PROVE x <= N - n
  <2>1. n <= N - x
    BY <1>1, <1>2
  <2> QED
    BY <2>1
<1> HIDE DEF T
<1>5. \A x \in S : N - n >= x
  BY <1>3, <1>4
<1> QED
  BY <1>3, <1>5 DEF Max

\* The weights of the groups that know a point.
LEMMA ScoreParts ==
    ASSUME NEW conf \in [Groups -> Nat], \E g \in Groups : conf[g] # 0
    PROVE  \E w, c, b \in Nat :
               /\ w = IF conf["wifi"] > 0 THEN 40 ELSE 0
               /\ c = IF conf["cell"] > 0 THEN 35 ELSE 0
               /\ b = IF conf["bt"] > 0 THEN 25 ELSE 0
               /\ Triangulate(conf).den = w + c + b
               /\ Triangulate(conf).num = conf["wifi"] * 40 + conf["cell"] * 35 + conf["bt"] * 25
<1> DEFINE K == {g \in Groups : conf[g] > 0}
           w == IF conf["wifi"] > 0 THEN 40 ELSE 0
           c == IF conf["cell"] > 0 THEN 35 ELSE 0
           b == IF conf["bt"] > 0 THEN 25 ELSE 0
<1>1. Triangulate(conf).den = WeightOf(K)
  BY DEF Triangulate
<1>2. Triangulate(conf).num = conf["wifi"] * 40 + conf["cell"] * 35 + conf["bt"] * 25
  BY DEF Triangulate, Weight
<1>3. WeightOf(K) = w + c + b
  BY DEF WeightOf, Weight, Groups
<1>4. w \in Nat /\ c \in Nat /\ b \in Nat
  OBVIOUS
<1> HIDE DEF K, w, c, b
<1>5. /\ Triangulate(conf).den = w + c + b
      /\ Triangulate(conf).num = conf["wifi"] * 40 + conf["cell"] * 35 + conf["bt"] * 25
  BY <1>1, <1>2, <1>3
<1> QED
  BY <1>4, <1>5, Zenon DEF w, c, b

\* A bound on the confidences that are known is a bound on the score.
LEMMA ScoreAtLeast ==
    ASSUME NEW conf \in [Groups -> Nat], \E g \in Groups : conf[g] # 0,
           NEW low \in Nat, \A g \in Groups : conf[g] > 0 => low <= conf[g]
    PROVE  AtLeast(Triangulate(conf), low)
<1>1. PICK w, c, b \in Nat :
          /\ w = IF conf["wifi"] > 0 THEN 40 ELSE 0
          /\ c = IF conf["cell"] > 0 THEN 35 ELSE 0
          /\ b = IF conf["bt"] > 0 THEN 25 ELSE 0
          /\ Triangulate(conf).den = w + c + b
          /\ Triangulate(conf).num = conf["wifi"] * 40 + conf["cell"] * 35 + conf["bt"] * 25
  BY ScoreParts
<1>2. conf["wifi"] \in Nat /\ conf["cell"] \in Nat /\ conf["bt"] \in Nat
  BY DEF Groups
<1>3. conf["wifi"] * 40 >= low * w
  BY <1>1, <1>2 DEF Groups
<1>4. conf["cell"] * 35 >= low * c
  BY <1>1, <1>2 DEF Groups
<1>5. conf["bt"] * 25 >= low * b
  BY <1>1, <1>2 DEF Groups
<1>6. low * (w + c + b) = low * w + low * c + low * b
  OBVIOUS
<1>7. low * w + low * c + low * b <= conf["wifi"] * 40 + conf["cell"] * 35 + conf["bt"] * 25
  BY <1>2, <1>3, <1>4, <1>5
<1> QED
  BY <1>1, <1>6, <1>7 DEF AtLeast

LEMMA ScoreAtMost ==
    ASSUME NEW conf \in [Groups -> Nat], \E g \in Groups : conf[g] # 0,
           NEW high \in Nat, \A g \in Groups : conf[g] <= high
    PROVE  AtMost(Triangulate(conf), high)
<1>1. PICK w, c, b \in Nat :
          /\ w = IF conf["wifi"] > 0 THEN 40 ELSE 0
          /\ c = IF conf["cell"] > 0 THEN 35 ELSE 0
          /\ b = IF conf["bt"] > 0 THEN 25 ELSE 0
          /\ Triangulate(conf).den = w + c + b
          /\ Triangulate(conf).num = conf["wifi"] * 40 + conf["cell"] * 35 + conf["bt"] * 25
  BY ScoreParts
<1>2. conf["wifi"] \in Nat /\ conf["cell"] \in Nat /\ conf["bt"] \in Nat
  BY DEF Groups
<1>3. conf["wifi"] * 40 <= high * w
  BY <1>1, <1>2 DEF Groups
<1>4. conf["cell"] * 35 <= high * c
  BY <1>1, <1>2 DEF Groups
<1>5. conf["bt"] * 25 <= high * b
  BY <1>1, <1>2 DEF Groups
<1>6. high * (w + c + b) = high * w + high * c + high * b
  OBVIOUS
<1>7. conf["wifi"] * 40 + conf["cell"] * 35 + conf["bt"] * 25 <= high * w + high * c + high * b
  BY <1>2, <1>3, <1>4, <1>5
<1> QED
  BY <1>1, <1>6, <1>7 DEF AtMost

-----------------------------------------------------------------------------
(* The points of a request                                                 *)

\* Every point was observed some number of times.
Counted == observed \in [Points -> Nat]

\* The known points of a request have confidences.
LEMMA KnownConfidences ==
    ASSUME NEW counts \in [Points -> Nat], NEW read \in SUBSET Points
    PROVE  /\ Confidences(counts, Known(counts, read)) \in SUBSET Nat
           /\ \A x \in Confidences(counts, Known(counts, read)) : 0 < x /\ x <= MaxConfidence
<1>1. ASSUME NEW p \in Known(counts, read)
      PROVE  /\ CalculateConfidence(counts[p]) \in Nat
             /\ 0 < CalculateConfidence(counts[p])
             /\ CalculateConfidence(counts[p]) <= MaxConfidence
  <2>1. counts[p] \in Nat \ {0}
    BY DEF Known
  <2> QED
    BY <2>1, ConfidenceInRange
<1> QED
  BY <1>1 DEF Confidences

\* The best confidence of a group is that of a known point of the group, which
\* none of its known points exceeds, or 0 when it has none.
LEMMA BestConfidences ==
    ASSUME NEW counts \in [Points -> Nat], NEW read \in SUBSET Points
    PROVE  /\ Best(counts, read) \in [Groups -> Nat]
           /\ \A g \in Groups : Best(counts, read)[g] > 0 =>
                  \E p \in Known(counts, read) :
                      /\ GroupOf[p] = g
                      /\ Best(counts, read)[g] = CalculateConfidence(counts[p])
           /\ \A p \in Known(counts, read) : GroupOf[p] \in Groups =>
                  /\ CalculateConfidence(counts[p]) > 0
                  /\ CalculateConfidence(counts[p]) <= Best(counts, read)[GroupOf[p]]
<1>1. MaxConfidence \in Nat
  BY SMT DEF MaxConfidence
<1>2. \A p \in Known(counts, read) : /\ CalculateConfidence(counts[p]) \in Nat
                                     /\ 0 < CalculateConfidence(counts[p])
                                     /\ CalculateConfidence(counts[p]) <= MaxConfidence
  BY KnownConfidences DEF Confidences
<1>3. ASSUME NEW g \in Groups
      PROVE  /\ Best(counts, read)[g] \in Nat
             /\ Best(counts, read)[g] > 0 =>
                  \E p \in Known(counts, read) :
                      /\ GroupOf[p] = g
                      /\ Best(counts, read)[g] = CalculateConfidence(counts[p])
             /\ \A p \in Known(counts, read) : GroupOf[p] = g =>
                    CalculateConfidence(counts[p]) <= Best(counts, read)[g]
  <2> DEFINE mine == {p \in Known(counts, read) : GroupOf[p] = g}
             S == {0} \cup Confidences(counts, mine)
  <2>1. Best(counts, read)[g] = Max(S)
    BY DEF Best
  <2>2. S \in SUBSET Nat /\ 0 \in S /\ \A x \in S : x <= MaxConfidence
    BY <1>1, <1>2 DEF Confidences
  <2>3. \A x \in S : x = 0 \/ \E p \in mine : x = CalculateConfidence(counts[p])
    BY DEF Confidences
  <2>4. \A p \in mine : CalculateConfidence(counts[p]) \in S
    BY DEF Confidences
  <2> HIDE DEF S
  <2>5. Max(S) \in S /\ \A x \in S : x <= Max(S)
    BY <1>1, <2>2, Maximum
  <2>6. Best(counts, read)[g] \in Nat
    BY <2>1, <2>2, <2>5
  <2>7. Best(counts, read)[g] > 0 =>
          \E p \in mine : Best(counts, read)[g] = CalculateConfidence(counts[p])
    BY <2>1, <2>3, <2>5
  <2>8. \A p \in mine : CalculateConfidence(counts[p]) <= Best(counts, read)[g]
    BY <2>1, <2>4, <2>5
  <2> QED
    BY <2>6, <2>7, <2>8
<1>4. Best(counts, read) \in [Groups -> Nat]
  <2>1. Best(counts, read) = [g \in Groups |-> Best(counts, read)[g]]
    BY DEF Best
  <2> QED
    BY <1>3, <2>1
<1> QED
  BY <1>2, <1>3, <1>4

\* The score of a request is at least what each group that knows a point has.
LEMMA ScoreOfKnown ==
    ASSUME PointsAssumption, NEW counts \in [Points -> Nat], NEW read \in SUBSET Points,
           Known(counts, read) # {}, NEW low \in Nat,
           \A p \in Known(counts, read) : \E q \in Known(counts, read) :
               GroupOf[q] = GroupOf[p] /\ low <= CalculateConfidence(counts[q])
    PROVE  AtLeast(Score(counts, read), low)
<1> DEFINE conf == Best(counts, read)
           known == Known(counts, read)
<1>1. \A p \in known : p \in Points /\ GroupOf[p] \in Groups
  BY DEF Known, PointsAssumption
<1>2. \A p \in known : CalculateConfidence(counts[p]) \in Nat
  BY KnownConfidences DEF Confidences
<1>3. /\ conf \in [Groups -> Nat]
      /\ \A g \in Groups : conf[g] > 0 => \E p \in known : GroupOf[p] = g
      /\ \A p \in known : /\ CalculateConfidence(counts[p]) > 0
                          /\ CalculateConfidence(counts[p]) <= conf[GroupOf[p]]
  BY <1>1, BestConfidences
<1>4. ASSUME NEW g \in Groups, conf[g] > 0 PROVE low <= conf[g]
  <2>1. PICK p \in known : GroupOf[p] = g
    BY <1>3, <1>4
  <2>2. PICK q \in known : GroupOf[q] = g /\ low <= CalculateConfidence(counts[q])
    BY <2>1
  <2>3. CalculateConfidence(counts[q]) <= conf[g]
    BY <1>3, <2>2
  <2>4. CalculateConfidence(counts[q]) \in Nat /\ conf[g] \in Nat
    BY <1>2, <1>3
  <2> HIDE DEF conf, known
  <2> QED
    BY <2>2, <2>3, <2>4
<1>5. \E g \in Groups : conf[g] # 0
  <2>1. PICK p \in known : TRUE
    OBVIOUS
  <2>2. conf[GroupOf[p]] > 0
    <3>1. CalculateConfidence(counts[p]) > 0 /\ CalculateConfidence(counts[p]) <= conf[GroupOf[p]]
      BY <1>3
    <3>2. CalculateConfidence(counts[p]) \in Nat /\ conf[GroupOf[p]] \in Nat
      BY <1>1, <1>2, <1>3
    <3> HIDE DEF conf
    <3> QED
      BY <3>1, <3>2
  <2> QED
    BY <1>1, <2>2
<1> HIDE DEF conf
<1>6. AtLeast(Triangulate(conf), low)
  BY <1>3, <1>4, <1>5, ScoreAtLeast
<1> QED
  BY <1>6 DEF conf, Score

-----------------------------------------------------------------------------
(* The observed points                                                     *)

\* Observing a point moves its count on, and no other.
LEMMA ObserveMovesOn ==
    ASSUME PointsAssumption, Counted, NEW p \in Points, Observe(p)
    PROVE  /\ Counted'
           /\ \A q \in Points : observed[q] <= observed'[q]
<1> DEFINE later == {n \in Counts[p] : n > observed[p]}
<1>1. later \in SUBSET Nat /\ later # {}
  BY DEF Observe, PointsAssumption
<1>2. Min(later) \in later
  BY <1>1, Minimum
<1>3. Min(later) \in Nat /\ Min(later) > observed[p]
  BY <1>1, <1>2
<1>4. observed' = [observed EXCEPT ![p] = Min(later)]
  BY DEF Observe
<1> HIDE DEF later
<1>5. Counted'
  BY <1>3, <1>4 DEF Counted
<1>6. \A q \in Points : observed[q] <= observed'[q]
  BY <1>3, <1>4 DEF Counted
<1> QED
  BY <1>5, <1>6

LEMMA StepMovesOn ==
    ASSUME PointsAssumption, Counted, [Next]_vars
    PROVE  /\ Counted'
           /\ \A p \in Points : observed[p] <= observed'[p]
<1>1. CASE \E p \in Points : Observe(p)
  BY <1>1, ObserveMovesOn
<1>2. CASE UNCHANGED vars
  BY <1>2 DEF Counted, vars
<1> QED
  BY <1>1, <1>2 DEF Next, Saturated

\* The number of observations of a point is a number, whatever counts occur.
THEOREM CountsAreNumbers ==
    ASSUME PointsAssumption
    PROVE  Spec => []Counted
<1>1. Init => Counted
  BY DEF Init, Counted
<1>2. Counted /\ [Next]_vars => Counted'
  BY StepMovesOn
<1> QED
  BY <1>1, <1>2, PTL DEF Spec

\* triangulate: the score lies between the least and the greatest confidence of
\* the points that are known, whatever the counts of their observations.
THEOREM ScoreIsWeightedMean ==
    ASSUME PointsAssumption
    PROVE  Spec => []ScoreIsAMean
<1>1. ASSUME Counted PROVE ScoreIsAMean
  <2> SUFFICES ASSUME NEW read \in SUBSET Points,
                      Confidences(observed, Known(observed, read)) # {}
               PROVE  LET known == Confidences(observed, Known(observed, read))
                      IN  /\ AtLeast(Score(observed, read), Min(known))
                          /\ AtMost(Score(observed, read), Max(known))
    BY DEF ScoreIsAMean
  <2> DEFINE points == Known(observed, read)
             known == Confidences(observed, points)
             conf == Best(observed, read)
  <2>1. /\ known \in SUBSET Nat /\ known # {}
        /\ \A x \in known : 0 < x /\ x <= MaxConfidence
    BY <1>1, KnownConfidences DEF Counted
  <2>2. points # {} /\ \A p \in points : CalculateConfidence(observed[p]) \in known
    BY DEF Confidences
  <2>3. /\ Min(known) \in Nat /\ \A x \in known : Min(known) <= x
        /\ Max(known) \in Nat /\ \A x \in known : x <= Max(known)
    <3>1. MaxConfidence \in Nat
      BY SMT DEF MaxConfidence
    <3> HIDE DEF known
    <3> QED
      BY <2>1, <3>1, Minimum, Maximum
  <2>4. AtLeast(Score(observed, read), Min(known))
    <3>1. \A p \in points : \E q \in points :
              GroupOf[q] = GroupOf[p] /\ Min(known) <= CalculateConfidence(observed[q])
      BY <2>2, <2>3
    <3> HIDE DEF known
    <3> QED
      BY <1>1, <2>2, <2>3, <3>1, ScoreOfKnown DEF Counted
  <2>5. conf \in [Groups -> Nat] /\ \A g \in Groups : conf[g] > 0 => conf[g] \in known
    BY <1>1, <2>2, BestConfidences DEF Counted
  <2>6. \E g \in Groups : conf[g] # 0
    <3>1. PICK p \in points : TRUE
      BY <2>2
    <3>2. GroupOf[p] \in Groups
      BY DEF Known, PointsAssumption
    <3>3. CalculateConfidence(observed[p]) > 0
          /\ CalculateConfidence(observed[p]) <= conf[GroupOf[p]]
      BY <1>1, <3>2, BestConfidences DEF Counted
    <3>4. CalculateConfidence(observed[p]) \in Nat
      BY <2>1, <2>2
    <3> HIDE DEF conf
    <3> QED
      BY <2>5, <3>2, <3>3, <3>4
  <2> HIDE DEF conf, known
  <2>7. \A g \in Groups : conf[g] <= Max(known)
    <3> TAKE g \in Groups
    <3>1. conf[g] \in Nat
      BY <2>5
    <3> QED
      BY <2>3, <2>5, <3>1
  <2>8. AtMost(Triangulate(conf), Max(known))
    BY <2>3, <2>5, <2>6, <2>7, ScoreAtMost
  <2> QED
    BY <2>4, <2>8 DEF conf, known, Score
<1> QED
  BY <1>1, CountsAreNumbers, PTL

\* determineResult: a request is VALID when each group in which it lists a known
\* point lists one that was observed at least 400 times.
THEOREM ManyObservationsAreValid ==
    ASSUME PointsAssumption
    PROVE  Spec => []EnoughObservationsAreValid
<1>1. ASSUME Counted PROVE EnoughObservationsAreValid
  <2> SUFFICES ASSUME NEW read \in SUBSET Points, WellObserved(read)
               PROVE  DetermineResult(Score(observed, read)) = {"VALID"}
    BY DEF EnoughObservationsAreValid
  <2>1. High \in Nat
    BY SMT DEF High
  <2>2. ASSUME NEW p \in Known(observed, read)
        PROVE  \E q \in Known(observed, read) :
                   GroupOf[q] = GroupOf[p] /\ High <= CalculateConfidence(observed[q])
    <3>1. PICK q \in read : GroupOf[q] = GroupOf[p] /\ observed[q] >= 400
      BY DEF WellObserved
    <3>2. observed[q] \in Nat
      BY <1>1 DEF Counted
    <3>3. CalculateConfidence(observed[q]) >= High
      BY <3>1, <3>2, ConfidenceIsHigh
    <3>4. q \in Known(observed, read)
      BY <3>1, <3>2 DEF Known
    <3>5. CalculateConfidence(observed[q]) \in Nat
      BY <1>1, <3>4, KnownConfidences DEF Counted, Confidences
    <3> QED
      BY <2>1, <3>1, <3>3, <3>4, <3>5
  <2>3. AtLeast(Score(observed, read), High)
    BY <1>1, <2>1, <2>2, ScoreOfKnown DEF WellObserved, Counted
  <2> QED
    BY <2>3 DEF DetermineResult
<1> QED
  BY <1>1, CountsAreNumbers, PTL

\* The finding bounded: a request with a known point scores below the base
\* confidence only while a point it lists was observed 2 to 75 times.
THEOREM OtherPointsBoost ==
    ASSUME PointsAssumption
    PROVE  Spec => []((\A p \in Points : observed[p] \notin 2 .. 75) => KnownPointBoosts)
<1> DEFINE Boosts == (\A p \in Points : observed[p] \notin 2 .. 75) => KnownPointBoosts
<1>1. ASSUME Counted PROVE Boosts
  <2>1. SUFFICES ASSUME \A p \in Points : observed[p] \notin 2 .. 75,
                        Known(observed, Points) # {}
                 PROVE  AtLeast(Score(observed, Points), BaseConfidence)
    BY DEF KnownPointBoosts
  <2>2. BaseConfidence \in Nat /\ BaseConfidence = FirstConfidence
    BY SMT DEF BaseConfidence, FirstConfidence
  <2>3. ASSUME NEW p \in Known(observed, Points)
        PROVE  BaseConfidence <= CalculateConfidence(observed[p])
    <3>1. observed[p] \in Nat \ {0} /\ observed[p] \notin 2 .. 75
      BY <1>1, <2>1 DEF Counted, Known
    <3>2. ~ (CalculateConfidence(observed[p]) < FirstConfidence)
      BY <3>1, LaterObservationsCost
    <3>3. CalculateConfidence(observed[p]) \in Nat
      BY <3>1, ConfidenceInRange
    <3> QED
      BY <2>2, <3>2, <3>3
  <2> QED
    BY <1>1, <2>1, <2>2, <2>3, ScoreOfKnown DEF Counted
<1> HIDE DEF Boosts
<1>2. Spec => []Boosts
  BY <1>1, CountsAreNumbers, PTL
<1> QED
  BY <1>2 DEF Boosts

\* A request whose known points are known again and have no less confidence.
LEMMA ScoreGrows ==
    ASSUME PointsAssumption, NEW before \in [Points -> Nat], NEW after \in [Points -> Nat],
           NEW read \in SUBSET Points, Known(after, read) = Known(before, read),
           \A p \in Known(before, read) :
               CalculateConfidence(before[p]) <= CalculateConfidence(after[p])
    PROVE  /\ Score(after, read).den = Score(before, read).den
           /\ Score(after, read).num >= Score(before, read).num
<1> DEFINE old == Best(before, read)
           new == Best(after, read)
           known == Known(before, read)
<1>1. /\ old \in [Groups -> Nat] /\ new \in [Groups -> Nat]
      /\ \A p \in known : /\ CalculateConfidence(before[p]) \in Nat
                          /\ CalculateConfidence(after[p]) \in Nat
  BY BestConfidences, KnownConfidences DEF Confidences
<1>2. /\ \A g \in Groups : old[g] > 0 =>
             \E p \in known : GroupOf[p] = g /\ old[g] = CalculateConfidence(before[p])
      /\ \A g \in Groups : new[g] > 0 =>
             \E p \in known : GroupOf[p] = g /\ new[g] = CalculateConfidence(after[p])
  BY BestConfidences
<1>3. \A p \in known : /\ GroupOf[p] \in Groups
                       /\ 0 < CalculateConfidence(before[p])
                       /\ CalculateConfidence(before[p]) <= old[GroupOf[p]]
                       /\ 0 < CalculateConfidence(after[p])
                       /\ CalculateConfidence(after[p]) <= new[GroupOf[p]]
  <2>1. \A p \in known : GroupOf[p] \in Groups
    BY DEF Known, PointsAssumption
  <2> QED
    BY <2>1, BestConfidences
<1> HIDE DEF old, new, known
<1>4. ASSUME NEW g \in Groups
      PROVE  old[g] <= new[g] /\ (old[g] > 0 <=> new[g] > 0)
  <2>1. old[g] \in Nat /\ new[g] \in Nat
    BY <1>1
  <2>2. ASSUME old[g] > 0 PROVE old[g] <= new[g]
    <3>1. PICK p \in known : GroupOf[p] = g /\ old[g] = CalculateConfidence(before[p])
      BY <1>2, <2>2
    <3>2. CalculateConfidence(before[p]) <= CalculateConfidence(after[p])
      BY DEF known
    <3>3. CalculateConfidence(after[p]) <= new[g]
      BY <1>3, <3>1
    <3> QED
      BY <1>1, <2>1, <3>1, <3>2, <3>3
  <2>3. ASSUME new[g] > 0 PROVE old[g] > 0
    <3>1. PICK p \in known : GroupOf[p] = g
      BY <1>2, <2>3
    <3>2. 0 < CalculateConfidence(before[p]) /\ CalculateConfidence(before[p]) <= old[g]
      BY <1>3, <3>1
    <3> QED
      BY <1>1, <2>1, <3>2
  <2> QED
    BY <2>1, <2>2, <2>3
<1>5. CASE \A g \in Groups : old[g] = 0
  <2>1. ASSUME NEW g \in Groups PROVE new[g] = 0
    <3>1. new[g] \in Nat /\ old[g] = 0 /\ (old[g] > 0 <=> new[g] > 0)
      BY <1>1, <1>4, <1>5
    <3> QED
      BY <3>1
  <2>2. Triangulate(old) = Triangulate(new) /\ Triangulate(old).num \in Nat
    BY <1>5, <2>1, SMT DEF Triangulate, BaseConfidence
  <2> QED
    BY <2>2 DEF old, new, Score
<1>6. CASE \E g \in Groups : old[g] # 0
  <2>1. \E g \in Groups : new[g] # 0
    BY <1>1, <1>4, <1>6
  <2>2. {g \in Groups : old[g] > 0} = {g \in Groups : new[g] > 0}
    BY <1>4
  <2>3. Triangulate(old).den = Triangulate(new).den
    BY <1>6, <2>1, <2>2 DEF Triangulate
  <2>4. /\ Triangulate(old).num = old["wifi"] * 40 + old["cell"] * 35 + old["bt"] * 25
        /\ Triangulate(new).num = new["wifi"] * 40 + new["cell"] * 35 + new["bt"] * 25
    BY <1>6, <2>1 DEF Triangulate, Weight
  <2>5. /\ old["wifi"] \in Nat /\ old["cell"] \in Nat /\ old["bt"] \in Nat
        /\ new["wifi"] \in Nat /\ new["cell"] \in Nat /\ new["bt"] \in Nat
        /\ old["wifi"] <= new["wifi"] /\ old["cell"] <= new["cell"] /\ old["bt"] <= new["bt"]
    BY <1>1, <1>4 DEF Groups
  <2>6. Triangulate(new).num >= Triangulate(old).num
    BY <2>4, <2>5
  <2> QED
    BY <2>3, <2>6 DEF old, new, Score
<1> QED
  BY <1>5, <1>6

\* From its second observation on, observing a point again keeps the groups
\* that count and never lowers the score of a request that lists it.
THEOREM ObservationsNeverHurt ==
    ASSUME PointsAssumption
    PROVE  Spec => ObservingNeverHurts
<1> DEFINE A == (\A p \in Points : observed'[p] # observed[p] => observed[p] >= 2) =>
                    \A read \in SUBSET Points :
                        /\ Score(observed', read).den = Score(observed, read).den
                        /\ Score(observed', read).num >= Score(observed, read).num
<1>1. ASSUME Counted, [Next]_vars PROVE A
  <2> SUFFICES ASSUME \A p \in Points : observed'[p] # observed[p] => observed[p] >= 2,
                      NEW read \in SUBSET Points
               PROVE  /\ Score(observed', read).den = Score(observed, read).den
                      /\ Score(observed', read).num >= Score(observed, read).num
    OBVIOUS
  <2>1. /\ observed \in [Points -> Nat] /\ observed' \in [Points -> Nat]
        /\ \A p \in Points : observed[p] <= observed'[p]
    BY <1>1, StepMovesOn DEF Counted
  <2>2. Known(observed', read) = Known(observed, read)
    BY <2>1 DEF Known
  <2>3. ASSUME NEW p \in Known(observed, read)
        PROVE  CalculateConfidence(observed[p]) <= CalculateConfidence(observed'[p])
    <3>1. observed[p] \in Nat \ {0} /\ observed'[p] \in Nat /\ observed[p] <= observed'[p]
      BY <2>1 DEF Known
    <3>2. CalculateConfidence(observed[p]) \in Nat
      BY <3>1, ConfidenceInRange
    <3>3. CASE observed'[p] = observed[p]
      BY <3>2, <3>3
    <3>4. CASE observed'[p] # observed[p]
      <4>1. observed[p] >= 2
        BY <3>4 DEF Known
      <4> QED
        BY <3>1, <4>1, ConfidenceGrows
    <3> QED
      BY <3>3, <3>4
  <2> QED
    BY <2>1, <2>2, <2>3, ScoreGrows
<1>2. Counted /\ [Next]_vars => [A]_vars
  BY <1>1
<1> QED
  BY <1>2, CountsAreNumbers, PTL DEF Spec, ObservingNeverHurts

=============================================================================
