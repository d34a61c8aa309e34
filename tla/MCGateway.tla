------------------------------ MODULE MCGateway ------------------------------
(* The small instance of Gateway that TLC checks.                          *)
EXTENDS Gateway

CONSTANTS c1, c2
=============================================================================
