------------------------- MODULE MCValidatorService -------------------------
(* The small instance of ValidatorService that TLC checks.                 *)
EXTENDS ValidatorService, TLC

CONSTANTS s1, s2, s3,    \* sessions
          car,           \* a device
          ap, tag, tower \* an access point, a Bluetooth device, a cell

Ask(place, time, points) ==
    [device |-> car, place |-> place, time |-> time, points |-> points]

\* The car with an unknown point; then with known ones, and too far away for
\* its speed unless the first location is not known yet.
MCRequests == {Ask(0, 5, <<ap>>), Ask(9, 6, <<tag, tower>>)}

MCSymmetry == Permutations(Streams)

MCWeight == [p \in {ap, tag, tower} |-> 30]
=============================================================================
