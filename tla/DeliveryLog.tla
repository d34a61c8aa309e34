----------------------------- MODULE DeliveryLog -----------------------------
(****************************************************************************)
(* What a write-behind store promises its callers: records are numbered in *)
(* the order they are accepted, each one is delivered at most once and in  *)
(* that order, and a record that is given up is never delivered afterwards.*)
(* It does not promise that a record is delivered: a store that implements *)
(* this module may lose any record it has not delivered yet.               *)
(****************************************************************************)
EXTENDS OrderedRecords

VARIABLES accepted,   \* how many records were accepted; they are 1..accepted
          delivered,  \* the records delivered, in the order of delivery
          lost        \* the records given up

vars == <<accepted, delivered, lost>>

-----------------------------------------------------------------------------
Init == /\ accepted = 0
        /\ delivered = <<>>
        /\ lost = {}

\* A call hands over one or more new records.
Accept == /\ accepted' \in Nat
          /\ accepted' > accepted
          /\ UNCHANGED <<delivered, lost>>

\* A batch of accepted records is appended, each newer than all before it.
Deliver == /\ IsPrefix(delivered, delivered')
           /\ Increasing(delivered')
           /\ ToSet(delivered') \subseteq (1 .. accepted) \ lost
           /\ UNCHANGED <<accepted, lost>>

\* Records not delivered yet are given up for good.
Lose == /\ lost \subseteq lost'
        /\ lost' \subseteq (1 .. accepted) \ ToSet(delivered)
        /\ UNCHANGED <<accepted, delivered>>

Next == Accept \/ Deliver \/ Lose

Spec == Init /\ [][Next]_vars
=============================================================================
