------------------------------- MODULE Scoring -------------------------------
(****************************************************************************)
(* The arithmetic of confidence: calculateConfidence of                    *)
(* internal/core/learning.go, which a cached point carries, and            *)
(* triangulate and determineResult of internal/core/validation.go, which   *)
(* turn the points a request lists into a verdict.                         *)
(*                                                                          *)
(* Confidences are in millionths.  A score is a fraction, so that the      *)
(* weighted mean and the comparison with a threshold are exact.            *)
(****************************************************************************)
EXTENDS Integers

Groups == {"wifi", "cell", "bt"}

Unit == 1000000
High == 800000
Low  == 300000

-----------------------------------------------------------------------------
(* calculateConfidence                                                     *)

\* exp(-k/10) in units of 1/Scale: 561/620 is exp(-1/10) to seven digits.
Scale == 2 * Unit
Anchor[k \in Nat] == IF k = 0 THEN Scale ELSE (Anchor[k - 1] * 561) \div 620

\* exp(-n/200) from the nearest anchor, by (2 - x)/(2 + x) for exp(-x), which is
\* exact to five digits up to x = 1/20.  It never rises, as exp(-n/200) does not.
Decay(n) ==
    LET k == (n + 10) \div 20
        j == n - 20 * k
    IN  (Anchor[k] * (400 - j)) \div (400 + j)

FirstConfidence == 300000
MaxConfidence   == 950000

CalculateConfidence(n) ==
    IF n <= 1 THEN FirstConfidence
              ELSE (((Scale - Decay(n)) \div 2) * 95) \div 100

-----------------------------------------------------------------------------
(* triangulate and determineResult                                         *)

BaseConfidence == 300000

Weight == [wifi |-> 40, cell |-> 35, bt |-> 25]

WeightOf(groups) == (IF "wifi" \in groups THEN Weight.wifi ELSE 0)
                  + (IF "cell" \in groups THEN Weight.cell ELSE 0)
                  + (IF "bt" \in groups THEN Weight.bt ELSE 0)

\* The best confidence of the known points of each group, 0 if none is known,
\* averaged over the groups that know one.
Triangulate(conf) ==
    IF \A g \in Groups : conf[g] = 0 THEN [num |-> BaseConfidence, den |-> 1]
    ELSE [num |-> conf.wifi * Weight.wifi + conf.cell * Weight.cell + conf.bt * Weight.bt,
          den |-> WeightOf({g \in Groups : conf[g] > 0})]

\* Mutated: an impossible speed costs a tenth.
AfterSpeedMild(score, speedValid) ==
    IF speedValid THEN score ELSE [num |-> score.num * 9, den |-> score.den * 10]

\* confidence *= 0.5 when the speed check failed.
AfterSpeed(score, speedValid) ==
    IF speedValid THEN score ELSE [score EXCEPT !.den = @ * 2]

AtLeast(score, threshold) == score.num >= threshold * score.den
AtMost(score, threshold)  == score.num <= threshold * score.den

\* The score is a float32 and the thresholds are float64: whether the base
\* confidence, which equals Low, is at most Low depends on which is converted.
DetermineResult(score) ==
    IF AtLeast(score, High) THEN {"VALID"}
    ELSE (IF AtMost(score, Low) THEN {"INVALID"} ELSE {})
         \cup (IF AtLeast(score, Low) THEN {"UNCERTAIN"} ELSE {})
=============================================================================
