----------------------------- MODULE Confidence -----------------------------
(****************************************************************************)
(* How the verdict on a request develops while the points it lists are     *)
(* observed again and again: the confidence learning.go gives a point,     *)
(* seen through checkWifi, checkCellTowers, checkBluetooth and the scoring *)
(* of validation.go.                                                       *)
(****************************************************************************)
EXTENDS Scoring, FiniteSetsExt

CONSTANTS
    Points,   \* the points a request may list
    GroupOf,  \* the kind of each
    Counts    \* for each, the observation counts that occur

PointsAssumption == /\ GroupOf \in [Points -> Groups]
                    /\ \A p \in Points : Counts[p] \subseteq Nat \ {0}

VARIABLE observed  \* how often each point was observed

vars == observed

\* The points whose read finds something: one that is not cached, or whose read
\* fails, is skipped.
Known(counts, read) == {p \in read : counts[p] > 0}

Confidences(counts, points) == {CalculateConfidence(counts[p]) : p \in points}

\* maxConf, for each group
Best(counts, read) ==
    [g \in Groups |->
        Max({0} \cup Confidences(counts, {p \in Known(counts, read) : GroupOf[p] = g}))]

\* The score of a request of which the points in read could be read.
Score(counts, read) == Triangulate(Best(counts, read))

Init == observed = [p \in Points |-> 0]

\* obsCount moves on to the next of the counts.
Observe(p) == LET later == {n \in Counts[p] : n > observed[p]}
              IN  /\ later # {}
                  /\ observed' = [observed EXCEPT ![p] = Min(later)]

Saturated == /\ \A p \in Points : \A n \in Counts[p] : n <= observed[p]
             /\ UNCHANGED vars

Next == (\E p \in Points : Observe(p)) \/ Saturated

Spec == Init /\ [][Next]_vars

-----------------------------------------------------------------------------
(* Properties                                                              *)

\* triangulate: the score lies between the least and the greatest confidence of
\* the points that are known, so a group that knows none must not pull it down.
ScoreIsAMean ==
    \A read \in SUBSET Points :
        LET known == Confidences(observed, Known(observed, read))
        IN  known # {} => /\ AtLeast(Score(observed, read), Min(known))
                          /\ AtMost(Score(observed, read), Max(known))

\* From its second observation on, observing a point again never lowers the
\* score of the requests that list it, so what was VALID stays VALID.
ObservingNeverHurts ==
    [][(\A p \in Points : observed'[p] # observed[p] => observed[p] >= 2) =>
           \A read \in SUBSET Points :
               /\ Score(observed', read).den = Score(observed, read).den
               /\ Score(observed', read).num >= Score(observed, read).num]_vars

\* determineResult: a request is VALID when some point of it is known and every
\* group in which one is known has one that was observed 400 times or more.  One
\* such group is not enough: an access point observed 400 times next to a cell
\* tower observed twice makes a request that is UNCERTAIN.
WellObserved(read) ==
    /\ Known(observed, read) # {}
    /\ \A p \in Known(observed, read) :
           \E q \in read : GroupOf[q] = GroupOf[p] /\ observed[q] >= 400

EnoughObservationsAreValid ==
    \A read \in SUBSET Points :
        WellObserved(read) => DetermineResult(Score(observed, read)) = {"VALID"}

\* docs/testing-checklist.md:41, "known point -> confidence boost": over the base
\* confidence of a request whose points are all unknown, when every read succeeds.
KnownPointBoosts ==
    Known(observed, Points) # {} => AtLeast(Score(observed, Points), BaseConfidence)
=============================================================================
