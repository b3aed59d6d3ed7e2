----------------------------- MODULE KeyStream ------------------------------
(***************************************************************************)
(* What the input event queue promises for key and button events, which    *)
(* must never be merged or reordered: those it accepts are numbered 1, 2,  *)
(* 3, ... and leave it in that order, each exactly once and eventually.    *)
(* On a server with several screens one may be consumed as a change of     *)
(* screen instead of being delivered to its device.                        *)
(***************************************************************************)
EXTENDS Naturals

CONSTANT Several \* whether there are several screens

VARIABLES
    accepted,  \* key and button events put in the queue so far
    taken,     \* of those, how many have left it
    delivered  \* of those, how many reached their device

vars == <<accepted, taken, delivered>>

Init ==
    /\ accepted = 0
    /\ taken = 0
    /\ delivered = 0

Accept ==
    /\ accepted' = accepted + 1
    /\ UNCHANGED <<taken, delivered>>

Take ==
    /\ taken < accepted
    /\ taken' = taken + 1
    /\ \/ delivered' = delivered + 1
       \/ Several /\ UNCHANGED delivered
    /\ UNCHANGED accepted

Next == Accept \/ Take

Spec == Init /\ [][Next]_vars

Taken == WF_vars(Take)
=============================================================================
