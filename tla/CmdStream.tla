----------------------------- MODULE CmdStream -----------------------------
(***************************************************************************)
(* What the Glamo command queue promises its callers.  The words of every  *)
(* packet a drawing routine writes between BEGIN_CMDQ and END_CMDQ are     *)
(* numbered 1, 2, 3, ... in the order in which they were written.  The     *)
(* command processor receives every word exactly once and in that order,   *)
(* and it eventually receives all of them, until the driver gives up on a  *)
(* hung engine and resets it.                                              *)
(***************************************************************************)
EXTENDS Naturals

VARIABLES
    emitted,  \* words written so far
    executed, \* number of the last word the command processor received
    exact     \* no engine reset has disturbed the stream yet

vars == <<emitted, executed, exact>>

Init ==
    /\ emitted = 0
    /\ executed = 0
    /\ exact = TRUE

\* A drawing routine writes a packet.
Emit ==
    /\ emitted' \in Nat
    /\ emitted' > emitted
    /\ UNCHANGED <<executed, exact>>

\* The command processor receives the next word.
Execute ==
    /\ exact
    /\ executed < emitted
    /\ executed' = executed + 1
    /\ UNCHANGED <<emitted, exact>>

\* The engine is reset: nothing is promised of the words still queued.
Fault ==
    /\ exact' = FALSE
    /\ UNCHANGED <<emitted, executed>>

Next == Emit \/ Execute \/ Fault

SafeSpec == Init /\ [][Next]_vars

AllReceived == exact /\ executed < emitted ~> ~exact \/ executed = emitted
=============================================================================
