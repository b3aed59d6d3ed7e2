---------------------------- MODULE OffscreenMap ----------------------------
(***************************************************************************)
(* What the allocator of off-screen video memory promises: the users hold  *)
(* disjoint runs of bytes, each with an aligned stretch of the size asked  *)
(* for and less than one alignment step of padding before it, and a        *)
(* request is granted whenever an aligned stretch of that size is free.    *)
(***************************************************************************)
EXTENDS Naturals

CONSTANTS Users, Base, MemorySize, Align

VARIABLES
    held,   \* what every user holds, a set of bytes
    answer, \* what became of the last request
    up      \* whether the memory is there: the screen is enabled

vars == <<held, answer, up>>

Bytes == Base..MemorySize-1
Unheld == Bytes \ UNION {held[u] : u \in Users}

\* An aligned stretch of `size` bytes from `o` on inside `set`.
Stretch(o, size, set) == o % Align = 0 /\ o..o+size-1 \subseteq set

Init ==
    /\ held = [u \in Users |-> {}]
    /\ answer = "none"
    /\ up = TRUE

Grant(u, size) ==
    /\ up
    /\ held[u] = {}
    /\ \E first \in Bytes, o \in Bytes :
         /\ first <= o /\ o - first < Align
         /\ Stretch(o, size, Unheld)
         /\ first..o \subseteq Unheld
         /\ held' = [held EXCEPT ![u] = first..o+size-1]
    /\ answer' = "granted"
    /\ UNCHANGED up

\* Refused or worse, but only if there was no room.
Refuse(size) ==
    /\ up => ~\E o \in Bytes : Stretch(o, size, Unheld)
    /\ answer' \in {"null", "crashed"}
    /\ UNCHANGED <<held, up>>

\* The server itself is out of memory.
Starve ==
    /\ answer' = "starved"
    /\ UNCHANGED <<held, up>>

Release(u) ==
    /\ held' = [held EXCEPT ![u] = {}]
    /\ UNCHANGED <<answer, up>>

\* The screen is disabled once nobody holds anything, and enabled again.
Switch ==
    /\ \A u \in Users : held[u] = {}
    /\ up' = ~up
    /\ UNCHANGED <<held, answer>>

Next ==
    \/ \E size \in 1..MemorySize+1 : Refuse(size) \/ \E u \in Users : Grant(u, size)
    \/ \E u \in Users : Release(u)
    \/ Starve \/ Switch

Spec == Init /\ [][Next]_vars
=============================================================================
