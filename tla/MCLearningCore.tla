--------------------------- MODULE MCLearningCore ---------------------------
(* The small instance of LearningCore that TLC checks.                     *)
EXTENDS LearningCore

CONSTANTS c1, c2,  \* calls
          van,     \* an object
          ap, tag  \* an access point and a Bluetooth device

\* Two cells that differ in an id beyond the last code point, as LTE ids do.
Cell1 == <<1114112, 7>>
Cell2 == <<1114113, 7>>

MCReport(wifi, cells, bt) == [object |-> van, wifi |-> wifi, cells |-> cells, bt |-> bt]

\* Nothing; one source; a source listed twice; a new source after a known one;
\* two cells whose companion keys collide.
MCReports == {MCReport(<<>>, <<>>, <<>>),
              MCReport(<<ap>>, <<>>, <<>>),
              MCReport(<<ap, ap>>, <<>>, <<>>),
              MCReport(<<ap>>, <<>>, <<tag>>),
              MCReport(<<>>, <<Cell1, Cell2>>, <<>>)}
MCCalls == {c1, c2}
=============================================================================
