----------------------------- MODULE DeviceTrack -----------------------------
(****************************************************************************)
(* What may become of the last known location of a device.  A request that *)
(* is accepted hands its location over once; it becomes the device's, or   *)
(* is dropped, some time later and in any order.  So the location is always *)
(* one of an accepted request of that device, and one that was replaced    *)
(* never comes back.  That it is the latest is not promised.               *)
(****************************************************************************)
EXTENDS Naturals

CONSTANTS Devices,
          Requests   \* the requests there may be, by number

VARIABLES current,   \* the request whose location a device has, or 0
          coming,    \* the requests whose location is handed over
          accepted   \* those that were ever accepted

vars == <<current, coming, accepted>>

Init == /\ current  = [d \in Devices |-> 0]
        /\ coming   = [d \in Devices |-> {}]
        /\ accepted = [d \in Devices |-> {}]

Accept(d, n) == /\ \A other \in Devices : n \notin accepted[other]
                /\ accepted' = [accepted EXCEPT ![d] = @ \cup {n}]
                /\ coming'   = [coming EXCEPT ![d] = @ \cup {n}]
                /\ UNCHANGED current

Settle(d, n) == /\ n \in coming[d]
                /\ coming' = [coming EXCEPT ![d] = @ \ {n}]
                /\ current' \in {[current EXCEPT ![d] = n], current}
                /\ UNCHANGED accepted

Next == \E d \in Devices, n \in Requests : Accept(d, n) \/ Settle(d, n)

Spec == Init /\ [][Next]_vars
=============================================================================
