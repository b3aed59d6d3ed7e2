----------------------------- MODULE Emulation ------------------------------
(***************************************************************************)
(* Emulation of a middle button on a two-button mouse (hw/kdrive/src/      *)
(* kinput.c).  The first press of button 1 or 3 is held back; pressing the *)
(* other one in time makes both a press of button 2, anything else or a    *)
(* timeout reports what was held back.                                     *)
(*                                                                         *)
(* The SIGIO handler runs the state machine on what the mouse reports, at  *)
(* any step of the server except where SIGIO is blocked; the timeout is    *)
(* waited for by the server's block and wakeup handlers.                   *)
(***************************************************************************)
EXTENDS Integers, Sequences

CONSTANTS
    Buttons, \* of the mouse
    Keys     \* are there events of the keyboard?

ASSUME EmulationAssumption == Buttons \subseteq 1..5 /\ Keys \in BOOLEAN

VARIABLES
    mi,          \* what concerns the emulation in KdMouseInfo, and `reported`:
                 \* the buttons that are down by what was queued, `matched`:
                 \* each report queued was of a change, `plain`: no key and
                 \* no button 2 was pressed (history)
    buttonState, \* the buttons that are down, mi->buttonState
    pc,          \* of the server: "run", "block": after the block handlers,
                 \* "select", and the steps of KdWakeupHandler
    armed        \* the sleep has a timeout for the emulation

vars == <<mi, buttonState, pc, armed>>

-----------------------------------------------------------------------------
(***************************************************************************)
(* The state machine.                                                      *)
(***************************************************************************)
Press(b) == [button |-> b, down |-> TRUE]
Release(b) == [button |-> b, down |-> FALSE]
NoButton == [button |-> 0, down |-> FALSE] \* motions, keys and timeouts

InputClass == {"down_1", "up_1", "down_2", "up_2", "down_3", "up_3", "down_o", "up_o",
               "motion", "outside_box", "keyboard", "timeout"}

To(a1, a2, s) == [actions |-> <<a1, a2>>, nextState |-> s]

\* Most rows deliver nearly everything and stay.
Row(s) == [c \in InputClass |-> IF c \in {"keyboard", "timeout"} THEN To("noop", "noop", s)
                                ELSE To("deliver", "noop", s)]

\* Broken: what was held back is forgotten.
PendRowDrop(s, down) ==
    [[c \in InputClass |-> To("deliver", "noop", down)] EXCEPT
        !["motion"] = To("deliver", "noop", s),
        !["timeout"] = To("release", "noop", down)]

\* Most of the rest reports what was held back, then the event itself.
PendRow(s, down) ==
    [[c \in InputClass |-> To("release", "deliver", down)] EXCEPT
        !["motion"] = To("deliver", "noop", s),
        !["timeout"] = To("release", "noop", down)]

kdInputMachine ==
    [start |->
       [Row("start") EXCEPT
          !["down_1"] = To("hold", "setto", "button_1_pend"),
          !["down_2"] = To("deliver", "noop", "button_2_down"),
          !["down_3"] = To("hold", "setto", "button_3_pend")],
     button_1_pend |->
       [PendRow("button_1_pend", "button_1_down") EXCEPT
          !["down_1"] = To("noop", "noop", "button_1_pend"),
          !["up_1"] = To("release", "deliver", "start"),
          !["down_3"] = To("clearto", "gen_down_2", "synth_2_down_13"),
          !["keyboard"] = To("noop", "noop", "button_1_down")],
     button_1_down |->
       [Row("button_1_down") EXCEPT
          !["down_1"] = To("noop", "noop", "button_1_down"),
          !["up_1"] = To("deliver", "noop", "start")],
     button_2_down |->
       [Row("button_2_down") EXCEPT
          !["down_2"] = To("noop", "noop", "button_2_down"),
          !["up_2"] = To("deliver", "noop", "start")],
     button_3_pend |->
       [PendRow("button_3_pend", "button_3_down") EXCEPT
          !["down_1"] = To("clearto", "gen_down_2", "synth_2_down_13"),
          !["up_3"] = To("release", "deliver", "start"),
          !["keyboard"] = To("release", "noop", "button_3_down")],
     button_3_down |->
       [Row("button_3_down") EXCEPT
          !["down_3"] = To("noop", "noop", "button_3_down"),
          !["up_3"] = To("deliver", "noop", "start")],
     synth_2_down_13 |->
       [[c \in InputClass |->
           IF c \in {"down_o", "up_o", "motion", "outside_box"}
             THEN To("deliver", "noop", "synth_2_down_13")
             ELSE To("noop", "noop", "synth_2_down_13")] EXCEPT
          !["up_1"] = To("gen_up_2", "noop", "synth_2_down_3"),
          !["up_3"] = To("gen_up_2", "noop", "synth_2_down_1")],
     synth_2_down_3 |->
       [Row("synth_2_down_3") EXCEPT
          !["down_3"] = To("noop", "noop", "synth_2_down_3"),
          !["up_3"] = To("noop", "noop", "start")],
     synth_2_down_1 |->
       [Row("synth_2_down_1") EXCEPT
          !["down_1"] = To("noop", "noop", "synth_2_down_1"),
          !["up_1"] = To("noop", "noop", "start")]]

KdMouseState == DOMAIN kdInputMachine

-----------------------------------------------------------------------------
(***************************************************************************)
(* KdRunMouseMachine.                                                      *)
(***************************************************************************)
\* A button is reported to the event queue; motions go to the pointer.
KdQueueEvent(m, ev) ==
    IF ev.button = 0 THEN m
    ELSE [m EXCEPT !.matched = @ /\ (ev.down <=> ev.button \notin m.reported),
                   !.reported = IF ev.down THEN @ \union {ev.button} ELSE @ \ {ev.button}]

GenUpSame(m, ev) == KdQueueEvent(m, ev) \* broken: the detail stays as it is
GenUp2(m, ev) == KdQueueEvent(m, Release(2))

Do(m, action, ev) ==
    CASE action = "noop" -> m
      [] action = "hold" -> [m EXCEPT !.eventHeld = TRUE, !.heldEvent = ev.button]
      [] action = "setto" -> [m EXCEPT !.due = FALSE, !.timeoutPending = TRUE]
      [] action = "deliver" -> KdQueueEvent(m, ev)
      [] action = "release" ->
           KdQueueEvent([m EXCEPT !.eventHeld = FALSE, !.timeoutPending = FALSE], Press(m.heldEvent))
      [] action = "clearto" -> [m EXCEPT !.timeoutPending = FALSE]
      [] action = "gen_down_2" -> KdQueueEvent([m EXCEPT !.eventHeld = FALSE], Press(2))
      [] action = "gen_up_2" -> GenUp2(m, ev)

KdRunMouseMachine(m, c, ev) ==
    LET t == kdInputMachine[m.mouseState][c] IN
    [Do(Do(m, t.actions[1], ev), t.actions[2], ev) EXCEPT !.mouseState = t.nextState]

\* KdClassifyInput.  Whether a motion leaves the box is up to the mouse.
KdClassifyInput(ev) ==
    IF ev.down
      THEN CASE ev.button = 1 -> "down_1" [] ev.button = 2 -> "down_2"
             [] ev.button = 3 -> "down_3" [] OTHER -> "down_o"
      ELSE CASE ev.button = 1 -> "up_1" [] ev.button = 2 -> "up_2"
             [] ev.button = 3 -> "up_3" [] OTHER -> "up_o"

Motion(m, outside) ==
    KdRunMouseMachine(m, IF m.eventHeld /\ outside THEN "outside_box" ELSE "motion", NoButton)

\* Button b, if it has changed.
Button(m, b, buttons) ==
    LET ev == IF b \in buttons THEN Press(b) ELSE Release(b) IN
    IF b \in buttons <=> b \in buttonState THEN m
    ELSE KdRunMouseMachine(m, KdClassifyInput(ev), ev)

-----------------------------------------------------------------------------
(***************************************************************************)
(* The handlers.                                                           *)
(***************************************************************************)
Init ==
    /\ mi = [mouseState |-> "start", eventHeld |-> FALSE, heldEvent |-> 0,
             timeoutPending |-> FALSE, due |-> TRUE, reported |-> {}, matched |-> TRUE,
             plain |-> TRUE]
    /\ buttonState = {}
    /\ pc = "run" /\ armed = FALSE

\* A signal wakes the server up from select.
Interrupt == pc' = (IF pc = "select" THEN "wakeup" ELSE pc) /\ UNCHANGED armed

Reported(outside, buttons) ==
    Button(Button(Button(Button(Button(Motion(mi, outside),
      1, buttons), 2, buttons), 3, buttons), 4, buttons), 5, buttons)

\* The mouse reports a motion and the state of its buttons.
KdEnqueueMouseEvent(outside, buttons) ==
    /\ mi' = [Reported(outside, buttons) EXCEPT !.plain = @ /\ 2 \notin buttons]
    /\ buttonState' = buttons
    /\ Interrupt

\* Every key event is an input of the machine.
KdHandleKeyboardEvent ==
    /\ Keys
    /\ mi' = [KdRunMouseMachine(mi, "keyboard", NoButton) EXCEPT !.plain = FALSE]
    /\ UNCHANGED buttonState
    /\ Interrupt

\* Time passes.
Expire ==
    /\ ~mi.due
    /\ mi' = [mi EXCEPT !.due = TRUE]
    /\ UNCHANGED <<buttonState, pc, armed>>

KdBlockHandler ==
    /\ pc = "run"
    /\ armed' = mi.timeoutPending
    /\ pc' = "block"
    /\ UNCHANGED <<mi, buttonState>>

\* WaitForSomething flushes the output and calls select, which an earlier
\* signal does not interrupt.
Select ==
    /\ pc = "block"
    /\ pc' = "select"
    /\ UNCHANGED <<mi, buttonState, armed>>

\* The sleep ends: something has arrived, or its timeout is over.
Wake ==
    /\ pc = "select"
    /\ pc' = "wakeup"
    /\ UNCHANGED <<mi, buttonState, armed>>

\* KdWakeupHandler reads timeoutPending, then the time ...
Pending ==
    /\ pc = "wakeup"
    /\ pc' = IF mi.timeoutPending THEN "compare" ELSE "run"
    /\ UNCHANGED <<mi, buttonState, armed>>

Compare ==
    /\ pc = "compare"
    /\ pc' = IF mi.due THEN "clear" ELSE "run"
    /\ UNCHANGED <<mi, buttonState, armed>>

\* ... clears timeoutPending, and only then blocks SIGIO.
Clear ==
    /\ pc = "clear"
    /\ mi' = [mi EXCEPT !.timeoutPending = FALSE]
    /\ pc' = "receive"
    /\ UNCHANGED <<buttonState, armed>>

\* Broken: gives up when the timeout has been set again meanwhile.
ReceiveUnset ==
    /\ pc = "receive"
    /\ mi' = IF mi.timeoutPending THEN [mi EXCEPT !.timeoutPending = FALSE]
             ELSE KdRunMouseMachine(mi, "timeout", NoButton)
    /\ pc' = "run"
    /\ UNCHANGED <<buttonState, armed>>

KdReceiveTimeout ==
    /\ pc = "receive"
    /\ mi' = KdRunMouseMachine(mi, "timeout", NoButton)
    /\ pc' = "run"
    /\ UNCHANGED <<buttonState, armed>>

Server == KdBlockHandler \/ Select \/ Pending \/ Compare \/ Clear \/ KdReceiveTimeout
Mouse == \E outside \in BOOLEAN, buttons \in SUBSET Buttons : KdEnqueueMouseEvent(outside, buttons)

Next == Server \/ Wake \/ Expire \/ Mouse \/ KdHandleKeyboardEvent

Spec == Init /\ [][Next]_vars

\* The server goes on, time passes, and a sleep with a timeout ends; one
\* without may last for ever.
FairSpec == Spec /\ WF_vars(Server) /\ WF_vars(Expire) /\ WF_vars(armed /\ Wake)

-----------------------------------------------------------------------------
(***************************************************************************)
(* Properties.                                                             *)
(***************************************************************************)
MouseInfo ==
    [mouseState : KdMouseState, eventHeld : BOOLEAN, heldEvent : {0, 1, 3},
     timeoutPending : BOOLEAN, due : BOOLEAN, reported : SUBSET (Buttons \union {2}),
     matched : BOOLEAN, plain : BOOLEAN]

TypeOK ==
    /\ mi \in MouseInfo
    /\ buttonState \subseteq Buttons
    /\ pc \in {"run", "block", "select", "wakeup", "compare", "clear", "receive"}
    /\ armed \in BOOLEAN

\* As long as neither a middle button nor a key was pressed: every press that
\* is reported is of a button that was up, every release of one that was
\* down, whenever the timeout and the mouse's signal meet.
MatchedEvents == mi.plain => mi.matched

\* When all buttons of the mouse are up, whatever it and the keyboard did,
\* none is down for the rest of the server.
NoStuckButton == buttonState = {} => mi.reported = {}

\* While a press is held back, somebody is to end that: the timeout is pending,
\* or the server, which has cleared it without blocking SIGIO, goes on to pass
\* it to the machine.
Holding == mi.mouseState \in {"button_1_pend", "button_3_pend"}
HeldIsPending == Holding => mi.timeoutPending \/ pc = "receive"

\* A press held back when the server goes to sleep does not stay so, although
\* the server looks at the timeout while the mouse's signal may change it.
SleepEnds == (pc = "select" /\ armed /\ Holding) ~> ~Holding

\* kinput.c:705, "... -> (release) button_1_down": a press held back is
\* reported after the timeout, if nothing else happens.
HeldReported == mi.eventHeld ~> ~mi.eventHeld

\* kinput.c:704, "k -> (release) (deliver) button_1_down": a key reports the
\* press that was held back.
KeyReportsHeld ==
    [][KdHandleKeyboardEvent /\ mi.eventHeld => mi.heldEvent \in mi'.reported]_vars
=============================================================================
