---------------------------- MODULE MCConfidence ----------------------------
(* The instance of Confidence that TLC checks: two access points, a cell   *)
(* tower and a beacon, at the counts where the shape of their confidence   *)
(* changes.                                                                *)
EXTENDS Confidence

MCGroupOf == [ap1 |-> "wifi", ap2 |-> "wifi", tower |-> "cell", beacon |-> "bt"]
MCPoints == DOMAIN MCGroupOf
MCCounts == [ap1 |-> 1 .. 100, ap2 |-> {1, 75, 76, 400}, tower |-> {1, 2, 76, 400},
             beacon |-> {1, 3, 1000}]
=============================================================================
