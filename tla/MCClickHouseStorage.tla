------------------------ MODULE MCClickHouseStorage ------------------------
(* The small instance of ClickHouseStorage that TLC checks.                *)
EXTENDS ClickHouseStorage

CONSTANTS w1, w2

MCWriters == {w1, w2}
MCCallSizes == {1, 2}
=============================================================================
