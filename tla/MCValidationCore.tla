-------------------------- MODULE MCValidationCore --------------------------
(* The instance of ValidationCore that TLC checks.  A second is ten ticks  *)
(* and a time.Duration spans 12.7 seconds, so that the age of the oldest   *)
(* request does not fit into one; a place a tick is the fastest a device   *)
(* may move.                                                               *)
EXTENDS ValidationCore

CONSTANTS s1, s2, car, dog

Ask(d, p, t) == [device |-> d, place |-> p, timestamp |-> t]

\* The car somewhere, a little further a second later, too far from there at
\* the same second, and longer ago than can be told; the dog far from the car.
\* At 3 the last is in the future, at 4 the first is too old.
MCRequests == {Ask(car, 0, 2), Ask(car, 5, 3), Ask(car, 30, 3), Ask(car, 0, -20),
               Ask(dog, 30, 4)}

\* No point known, points known badly, points known well.
MCSources == {[wifi |-> 0, cell |-> 0, bt |-> 0],
              [wifi |-> 300000, cell |-> 900000, bt |-> 0],
              [wifi |-> 950000, cell |-> 0, bt |-> 900000]}

MCClock == 3 .. 4

-----------------------------------------------------------------------------
(* The scoring by itself, at bounded values (ConfidenceProofs: at any).    *)

\* learning.go: the curve of calculateConfidence falls below where it starts,
\* and climbs back for good.
ASSUME ConfidenceCurve ==
    \A n \in 1 .. 1000 :
        /\ CalculateConfidence(n) \in 1 .. MaxConfidence
        /\ CalculateConfidence(n) < FirstConfidence <=> n \in 2 .. 75
        /\ n >= 400 => CalculateConfidence(n) >= High
        /\ n >= 2 => CalculateConfidence(n) <= CalculateConfidence(n + 1)

\* triangulate: the score is a mean of the groups that know a point.
ASSUME ScoreOfGroups ==
    \A conf \in [Groups -> {0, 9475, 300000, 800000, 950000}] :
        LET known == {conf[g] : g \in Groups} \ {0}
        IN  known # {} =>
                /\ \E x \in known : \A y \in known : x >= y /\ AtMost(Triangulate(conf), x)
                /\ \E x \in known : \A y \in known : x <= y /\ AtLeast(Triangulate(conf), x)
=============================================================================
