--------------------------- MODULE OrderedRecords ---------------------------
(****************************************************************************)
(* Records known by the number of their arrival, and sequences of them.    *)
(****************************************************************************)
EXTENDS Naturals, Sequences, SequencesExt

\* 0 would be a zero value that nobody handed over.
Record == Nat \ {0}

Increasing(s) == \A i, j \in 1 .. Len(s) : i < j => s[i] < s[j]

\* Every record of s arrived before every record of t.
Before(s, t) == \A x \in ToSet(s), y \in ToSet(t) : x < y
=============================================================================
