-------------------------- MODULE Emulation_proofs --------------------------
(***************************************************************************)
(* Proofs about the emulation of a middle button, for every set of buttons *)
(* of the mouse and with or without a keyboard.                            *)
(*                                                                         *)
(* None of the properties is inductive.  What is, IInv, says what the      *)
(* state of the machine, the buttons it has been told of, and what it has  *)
(* reported have to do with each other (Good and Fits).  The proof has one *)
(* lemma per thing that two actions of the table can do (...Run), one per  *)
(* row of the table that looks the row up (...Row) and one that shows that *)
(* the row keeps Good (...Step); then a report of the mouse is a motion    *)
(* and five buttons, told one after the other (Told).                      *)
(***************************************************************************)
EXTENDS Emulation, TLAPS

\* The states in which a press is held back.
Pend == {"button_1_pend", "button_3_pend"}

\* What a machine in state s may report while buttons B are down, and reports
\* if no middle button and no key was ever pressed.
Reportable(s, B) ==
    IF s \in {"button_1_pend", "synth_2_down_1"} THEN B \ {1}
    ELSE IF s \in {"button_3_pend", "synth_2_down_3"} THEN B \ {3}
    ELSE IF s = "synth_2_down_13" THEN (B \ {1, 3}) \union {2}
    ELSE B

State == {"start", "button_1_pend", "button_1_down", "button_2_down", "button_3_pend",
          "button_3_down", "synth_2_down_13", "synth_2_down_3", "synth_2_down_1"}

Machine ==
    [mouseState : State, eventHeld : BOOLEAN, heldEvent : {0, 1, 3},
     timeoutPending : BOOLEAN, due : BOOLEAN, reported : SUBSET (1..5),
     matched : BOOLEAN, plain : BOOLEAN]

\* A machine in state s that reported buttons r, with x for whether all reports
\* matched, h held back and w for a pending timeout, fits buttons B.  `late` is
\* the moment after the server has cleared the timeout and before it passes it
\* on; p says that no middle button and no key was ever pressed.
Fits(s, r, x, h, w, B, late, p) ==
    /\ r \subseteq Reportable(s, B)
    /\ s = "button_1_pend" => h = 1
    /\ s = "button_3_pend" => h = 3
    /\ s \in {"button_1_pend", "button_1_down", "synth_2_down_13"} => 1 \in B
    /\ s \in {"button_3_pend", "button_3_down", "synth_2_down_13"} => 3 \in B
    /\ s \in Pend => w \/ late
    /\ p => x /\ 2 \notin B /\ s # "button_2_down" /\ r = Reportable(s, B)

Good(m, B, late, p) ==
    /\ m \in Machine
    /\ Fits(m.mouseState, m.reported, m.matched, m.heldEvent, m.timeoutPending, B, late, p)

\* The event of button b, down or up, and the buttons after it.
Ev(b, d) == [button |-> b, down |-> d]
After(B, b, d) == IF d THEN B \union {b} ELSE B \ {b}

\* What the table says for state s and class c.
RowIs(s, c, a1, a2, t) == kdInputMachine[s][c] = To(a1, a2, t)

\* The two actions of a row, and then its next state.
Act(m, a1, a2, t, ev) == [Do(Do(m, a1, ev), a2, ev) EXCEPT !.mouseState = t]

LEMMA Runs ==
    ASSUME NEW m, NEW c, NEW ev, NEW a1, NEW a2, NEW t, RowIs(m.mouseState, c, a1, a2, t)
    PROVE  KdRunMouseMachine(m, c, ev) = Act(m, a1, a2, t, ev)
<1>1. kdInputMachine[m.mouseState][c] = [actions |-> <<a1, a2>>, nextState |-> t]
  BY DEF RowIs, To
<1>2. /\ kdInputMachine[m.mouseState][c].actions[1] = a1
      /\ kdInputMachine[m.mouseState][c].actions[2] = a2
      /\ kdInputMachine[m.mouseState][c].nextState = t
  BY <1>1
<1> QED  BY <1>2 DEF KdRunMouseMachine, Act

\* n differs from m in what was reported, and maybe in matters of time.
Reports(n, m, r, x) ==
    /\ n \in Machine
    /\ n.mouseState = m.mouseState /\ n.heldEvent = m.heldEvent
    /\ n.timeoutPending = m.timeoutPending
    /\ n.reported = r /\ n.matched = x

LEMMA SetReport ==
    ASSUME NEW m \in Machine, NEW x \in BOOLEAN, NEW r \in SUBSET (1..5)
    PROVE  Reports([m EXCEPT !.matched = x, !.reported = r], m, r, x)
  BY DEF Machine, Reports

\* What an event that is queued does to what was reported.
LEMMA Queue ==
    ASSUME NEW m \in Machine, NEW b \in 1..5, NEW d \in BOOLEAN
    PROVE  Reports(KdQueueEvent(m, Ev(b, d)), m, After(m.reported, b, d),
                   m.matched /\ (d <=> b \notin m.reported))
<1> DEFINE x == m.matched /\ (d <=> b \notin m.reported)
           r == After(m.reported, b, d)
<1>1. x \in BOOLEAN /\ r \in SUBSET (1..5)
  BY DEF Machine, After
<1>2. KdQueueEvent(m, Ev(b, d)) = [m EXCEPT !.matched = x, !.reported = r]
  BY DEF KdQueueEvent, Ev, After
<1>3. Reports([m EXCEPT !.matched = x, !.reported = r], m, r, x)
  <2> HIDE DEF x, r
  <2> QED  BY <1>1, SetReport
<1>4. Reports(KdQueueEvent(m, Ev(b, d)), m, r, x)
  <2> HIDE DEF x, r
  <2> QED  BY <1>2, <1>3
<1> QED  BY <1>4

\* The machine is in state t, having reported r, with x for whether that
\* matched, h held and w for whether the timeout is pending.
Result(n, t, r, x, h, w) ==
    /\ n \in Machine /\ n.mouseState = t
    /\ n.reported = r /\ n.matched = x
    /\ n.heldEvent = h /\ n.timeoutPending = w

LEMMA SetState ==
    ASSUME NEW m \in Machine, NEW t \in State
    PROVE  Result([m EXCEPT !.mouseState = t], t, m.reported, m.matched, m.heldEvent, m.timeoutPending)
  BY DEF Machine, Result

LEMMA Clear1 ==
    ASSUME NEW m \in Machine
    PROVE  LET n == [m EXCEPT !.eventHeld = FALSE, !.timeoutPending = FALSE] IN
           Result(n, m.mouseState, m.reported, m.matched, m.heldEvent, FALSE)
  BY DEF Machine, Result

LEMMA Clear2 ==
    ASSUME NEW m \in Machine
    PROVE  LET n == [m EXCEPT !.timeoutPending = FALSE] IN
           Result(n, m.mouseState, m.reported, m.matched, m.heldEvent, FALSE)
  BY DEF Machine, Result

LEMMA Clear3 ==
    ASSUME NEW m \in Machine
    PROVE  LET n == [m EXCEPT !.eventHeld = FALSE] IN
           Result(n, m.mouseState, m.reported, m.matched, m.heldEvent, m.timeoutPending)
  BY DEF Machine, Result

\* What the pairs of actions in the table do, one lemma per pair.
LEMMA QuietRun ==
    ASSUME NEW m \in Machine, NEW c, NEW ev, NEW t \in State,
           \/ RowIs(m.mouseState, c, "noop", "noop", t)
           \/ RowIs(m.mouseState, c, "deliver", "noop", t) /\ ev = NoButton
    PROVE  Result(KdRunMouseMachine(m, c, ev), t, m.reported, m.matched, m.heldEvent, m.timeoutPending)
<1>1. Do(m, "noop", ev) = m
  BY DEF Do
<1>2. CASE RowIs(m.mouseState, c, "noop", "noop", t)
  <2>1. KdRunMouseMachine(m, c, ev) = Act(m, "noop", "noop", t, ev)
    BY <1>2, Runs
  <2>2. Act(m, "noop", "noop", t, ev) = [m EXCEPT !.mouseState = t]
    BY <1>1 DEF Act
  <2> QED  BY <2>1, <2>2, SetState
<1>3. CASE RowIs(m.mouseState, c, "deliver", "noop", t) /\ ev = NoButton
  <2>1. KdRunMouseMachine(m, c, ev) = Act(m, "deliver", "noop", t, ev)
    BY <1>3, Runs
  <2>2. Do(m, "deliver", ev) = m
    BY <1>3 DEF Do, KdQueueEvent, NoButton
  <2>3. Act(m, "deliver", "noop", t, ev) = [m EXCEPT !.mouseState = t]
    BY <1>1, <2>2 DEF Act
  <2> QED  BY <2>1, <2>3, SetState
<1> QED  BY <1>2, <1>3

LEMMA DeliverRun ==
    ASSUME NEW m \in Machine, NEW c, NEW b \in 1..5, NEW d \in BOOLEAN, NEW t \in State,
           RowIs(m.mouseState, c, "deliver", "noop", t)
    PROVE  Result(KdRunMouseMachine(m, c, Ev(b, d)), t, After(m.reported, b, d),
                  m.matched /\ (d <=> b \notin m.reported), m.heldEvent, m.timeoutPending)
<1> DEFINE ev == Ev(b, d)
           n == KdQueueEvent(m, ev)
           x == m.matched /\ (d <=> b \notin m.reported)
<1>1. Reports(n, m, After(m.reported, b, d), x)
  BY Queue
<1> HIDE DEF ev, x
<1>2. KdRunMouseMachine(m, c, ev) = Act(m, "deliver", "noop", t, ev)
  BY Runs
<1>3. Act(m, "deliver", "noop", t, ev) = [n EXCEPT !.mouseState = t]
  BY DEF Act, Do
<1> HIDE DEF n
<1>4. Result([n EXCEPT !.mouseState = t], t, n.reported, n.matched, n.heldEvent, n.timeoutPending)
  BY <1>1, SetState DEF Reports
<1>5. Result(KdRunMouseMachine(m, c, ev), t, After(m.reported, b, d), x, m.heldEvent, m.timeoutPending)
  BY <1>1, <1>2, <1>3, <1>4 DEF Reports
<1> QED  BY <1>5 DEF x, ev

LEMMA HoldRun ==
    ASSUME NEW m \in Machine, NEW c, NEW b \in {1, 3}, NEW d, NEW t \in State,
           RowIs(m.mouseState, c, "hold", "setto", t)
    PROVE  Result(KdRunMouseMachine(m, c, Ev(b, d)), t, m.reported, m.matched, b, TRUE)
<1> DEFINE ev == Ev(b, d)
           n == [m EXCEPT !.eventHeld = TRUE, !.heldEvent = b]
           k == [n EXCEPT !.due = FALSE, !.timeoutPending = TRUE]
<1>1. KdRunMouseMachine(m, c, ev) = Act(m, "hold", "setto", t, ev)
  BY Runs
<1>2. Do(m, "hold", ev) = n
  BY DEF Do, Ev
<1>3. Result(n, m.mouseState, m.reported, m.matched, b, m.timeoutPending)
  BY DEF Machine, Result
<1> HIDE DEF n, ev
<1>4. Do(n, "setto", ev) = k
  BY DEF Do
<1>5. Result(k, m.mouseState, m.reported, m.matched, b, TRUE)
  BY <1>3 DEF Machine, Result
<1> HIDE DEF k
<1>6. Result([k EXCEPT !.mouseState = t], t, m.reported, m.matched, b, TRUE)
  BY <1>5, SetState DEF Result
<1>7. Act(m, "hold", "setto", t, ev) = [k EXCEPT !.mouseState = t]
  BY <1>2, <1>4 DEF Act
<1> QED  BY <1>1, <1>6, <1>7 DEF ev

LEMMA ReleaseDo ==
    ASSUME NEW m \in Machine, NEW ev, NEW h \in 1..5, m.heldEvent = h
    PROVE  Result(Do(m, "release", ev), m.mouseState, m.reported \union {h},
                  m.matched /\ h \notin m.reported, h, FALSE)
<1> DEFINE k == [m EXCEPT !.eventHeld = FALSE, !.timeoutPending = FALSE]
           n == KdQueueEvent(k, Ev(h, TRUE))
<1>1. Do(m, "release", ev) = n
  BY DEF Do, Press, Ev
<1>2. Result(k, m.mouseState, m.reported, m.matched, h, FALSE)
  BY Clear1
<1> HIDE DEF k
<1>4. Reports(n, k, After(k.reported, h, TRUE), k.matched /\ (TRUE <=> h \notin k.reported))
  <2>1. k \in Machine /\ TRUE \in BOOLEAN
    BY <1>2 DEF Result
  <2> QED  BY <2>1, Queue, Zenon
<1> HIDE DEF n
<1>5. Result(n, m.mouseState, After(m.reported, h, TRUE),
             m.matched /\ (TRUE <=> h \notin m.reported), h, FALSE)
  BY <1>2, <1>4 DEF Result, Reports
<1>6. After(m.reported, h, TRUE) = m.reported \union {h}
  BY DEF After
<1>7. Result(n, m.mouseState, m.reported \union {h}, m.matched /\ h \notin m.reported, h, FALSE)
  BY <1>5, <1>6 DEF Result
<1> QED  BY <1>1, <1>7

LEMMA ReleaseRun ==
    ASSUME NEW m \in Machine, NEW h \in 1..5, m.heldEvent = h, NEW c, NEW ev, NEW t \in State,
           \/ RowIs(m.mouseState, c, "release", "noop", t)
           \/ RowIs(m.mouseState, c, "release", "deliver", t) /\ ev = NoButton
    PROVE  Result(KdRunMouseMachine(m, c, ev), t, m.reported \union {h},
                  m.matched /\ h \notin m.reported, h, FALSE)
<1> DEFINE n == Do(m, "release", ev)
           r == m.reported \union {h}
           x == m.matched /\ h \notin m.reported
<1>1. Result(n, m.mouseState, r, x, h, FALSE)
  BY ReleaseDo, Zenon
<1> HIDE DEF r, x
<1>2. CASE RowIs(m.mouseState, c, "release", "noop", t)
  <2>1. KdRunMouseMachine(m, c, ev) = Act(m, "release", "noop", t, ev)
    BY <1>2, Runs
  <2> HIDE DEF n
  <2>2. Do(n, "noop", ev) = n
    BY DEF Do
  <2>3. Act(m, "release", "noop", t, ev) = [n EXCEPT !.mouseState = t]
    BY <2>2 DEF Act, n
  <2>4. Result([n EXCEPT !.mouseState = t], t, n.reported, n.matched, n.heldEvent, n.timeoutPending)
    BY <1>1, SetState DEF Result
  <2>5. Result(KdRunMouseMachine(m, c, ev), t, r, x, h, FALSE)
    BY <1>1, <2>1, <2>3, <2>4 DEF Result
  <2> QED  BY <2>5 DEF r, x
<1>3. CASE RowIs(m.mouseState, c, "release", "deliver", t) /\ ev = NoButton
  <2>1. KdRunMouseMachine(m, c, ev) = Act(m, "release", "deliver", t, ev)
    BY <1>3, Runs
  <2> HIDE DEF n
  <2>2. Do(n, "deliver", ev) = n
    BY <1>3 DEF Do, KdQueueEvent, NoButton
  <2>3. Act(m, "release", "deliver", t, ev) = [n EXCEPT !.mouseState = t]
    BY <2>2 DEF Act, n
  <2>4. Result([n EXCEPT !.mouseState = t], t, n.reported, n.matched, n.heldEvent, n.timeoutPending)
    BY <1>1, SetState DEF Result
  <2>5. Result(KdRunMouseMachine(m, c, ev), t, r, x, h, FALSE)
    BY <1>1, <2>1, <2>3, <2>4 DEF Result
  <2> QED  BY <2>5 DEF r, x
<1> QED  BY <1>2, <1>3

LEMMA ReleaseDeliverRun ==
    ASSUME NEW m \in Machine, NEW h \in 1..5, m.heldEvent = h, NEW c, NEW b \in 1..5, NEW d \in BOOLEAN,
           NEW t \in State, RowIs(m.mouseState, c, "release", "deliver", t)
    PROVE  LET r == m.reported \union {h} IN
           Result(KdRunMouseMachine(m, c, Ev(b, d)), t, After(r, b, d),
                  m.matched /\ h \notin m.reported /\ (d <=> b \notin r),
                  h, FALSE)
<1> DEFINE ev == Ev(b, d)
           r == m.reported \union {h}
           x == m.matched /\ h \notin m.reported
           n == Do(m, "release", ev)
           k == KdQueueEvent(n, ev)
<1>1. Result(n, m.mouseState, r, x, h, FALSE)
  <2> HIDE DEF ev
  <2> QED  BY ReleaseDo, Zenon
<1>2. KdRunMouseMachine(m, c, ev) = Act(m, "release", "deliver", t, ev)
  <2> HIDE DEF ev
  <2> QED  BY Runs
<1>3. Act(m, "release", "deliver", t, ev) = [k EXCEPT !.mouseState = t]
  <2> HIDE DEF ev
  <2>1. Do(n, "deliver", ev) = k
    <3> HIDE DEF n
    <3> QED  BY DEF Do
  <2> QED  BY <2>1 DEF Act
<1> HIDE DEF n, r, x
<1>4. Reports(k, n, After(n.reported, b, d), n.matched /\ (d <=> b \notin n.reported))
  BY <1>1, Queue DEF Result
<1> HIDE DEF k, ev
<1>5. Result([k EXCEPT !.mouseState = t], t, k.reported, k.matched, k.heldEvent, k.timeoutPending)
  BY <1>4, SetState DEF Reports
<1>6. Result(KdRunMouseMachine(m, c, ev), t, After(r, b, d), x /\ (d <=> b \notin r), h, FALSE)
  BY <1>1, <1>2, <1>3, <1>4, <1>5 DEF Result, Reports
<1> QED  BY <1>6 DEF ev, r, x

LEMMA SynthRun ==
    ASSUME NEW m \in Machine, NEW c, NEW ev, NEW t \in State,
           RowIs(m.mouseState, c, "clearto", "gen_down_2", t)
    PROVE  Result(KdRunMouseMachine(m, c, ev), t, m.reported \union {2},
                  m.matched /\ 2 \notin m.reported, m.heldEvent, FALSE)
<1> DEFINE n == [m EXCEPT !.timeoutPending = FALSE]
           k == [n EXCEPT !.eventHeld = FALSE]
           q == KdQueueEvent(k, Ev(2, TRUE))
<1>1. KdRunMouseMachine(m, c, ev) = Act(m, "clearto", "gen_down_2", t, ev)
  BY Runs
<1>2. Do(m, "clearto", ev) = n
  BY DEF Do
<1>3. Result(n, m.mouseState, m.reported, m.matched, m.heldEvent, FALSE)
  BY Clear2
<1> HIDE DEF n
<1>4. Do(n, "gen_down_2", ev) = q
  BY DEF Do, Press, Ev
<1>5. Result(k, n.mouseState, n.reported, n.matched, n.heldEvent, n.timeoutPending)
  BY <1>3, Clear3 DEF Result
<1> HIDE DEF k
<1>6. Reports(q, k, After(k.reported, 2, TRUE), k.matched /\ (TRUE <=> 2 \notin k.reported))
  <2>1. k \in Machine /\ 2 \in 1..5 /\ TRUE \in BOOLEAN
    BY <1>5 DEF Result
  <2> QED  BY <2>1, Queue, Zenon
<1> HIDE DEF q
<1>7. Act(m, "clearto", "gen_down_2", t, ev) = [q EXCEPT !.mouseState = t]
  BY <1>2, <1>4 DEF Act
<1>8. Result([q EXCEPT !.mouseState = t], t, q.reported, q.matched, q.heldEvent, q.timeoutPending)
  BY <1>6, SetState DEF Reports
<1>9. After(m.reported, 2, TRUE) = m.reported \union {2}
  BY DEF After
<1>10. /\ q.reported = m.reported \union {2} /\ q.heldEvent = m.heldEvent
       /\ q.matched = (m.matched /\ 2 \notin m.reported) /\ q.timeoutPending = FALSE
  <2>1. k.matched = m.matched /\ k.reported = m.reported
    <3>1. n.matched = m.matched /\ n.reported = m.reported
      BY <1>3 DEF Result
    <3>2. k.matched = n.matched /\ k.reported = n.reported
      BY <1>5 DEF Result
    <3> QED  BY <3>1, <3>2
  <2>2. q.reported = m.reported \union {2} /\ q.heldEvent = m.heldEvent /\ q.timeoutPending = FALSE
    BY <1>3, <1>5, <1>6, <1>9, <2>1 DEF Result, Reports
  <2>3. q.matched = (m.matched /\ 2 \notin m.reported)
    BY <1>6, <2>1 DEF Reports
  <2> QED  BY <2>2, <2>3
<1>11. Result([q EXCEPT !.mouseState = t], t, m.reported \union {2},
              m.matched /\ 2 \notin m.reported, m.heldEvent, FALSE)
  BY <1>8, <1>10
<1> QED  BY <1>1, <1>7, <1>11

LEMMA UnsynthRun ==
    ASSUME NEW m \in Machine, NEW c, NEW ev, NEW t \in State,
           RowIs(m.mouseState, c, "gen_up_2", "noop", t)
    PROVE  Result(KdRunMouseMachine(m, c, ev), t, m.reported \ {2},
                  m.matched /\ 2 \in m.reported, m.heldEvent, m.timeoutPending)
<1> DEFINE q == KdQueueEvent(m, Ev(2, FALSE))
<1>1. KdRunMouseMachine(m, c, ev) = Act(m, "gen_up_2", "noop", t, ev)
  BY Runs
<1>2. Do(m, "gen_up_2", ev) = q
  BY DEF Do, GenUp2, Release, Ev
<1>3. Reports(q, m, After(m.reported, 2, FALSE), m.matched /\ (FALSE <=> 2 \notin m.reported))
  <2>1. 2 \in 1..5 /\ FALSE \in BOOLEAN
    OBVIOUS
  <2> QED  BY <2>1, Queue, Zenon
<1> HIDE DEF q
<1>4. Do(q, "noop", ev) = q
  BY DEF Do
<1>5. Act(m, "gen_up_2", "noop", t, ev) = [q EXCEPT !.mouseState = t]
  BY <1>2, <1>4 DEF Act
<1>6. Result([q EXCEPT !.mouseState = t], t, q.reported, q.matched, q.heldEvent, q.timeoutPending)
  BY <1>3, SetState DEF Reports
<1>7. After(m.reported, 2, FALSE) = m.reported \ {2}
  BY DEF After
<1> QED  BY <1>1, <1>3, <1>5, <1>6, <1>7 DEF Result, Reports

-----------------------------------------------------------------------------
\* One button is told to the machine.
Class(b, d) == KdClassifyInput(Ev(b, d))
Run(m, b, d) == KdRunMouseMachine(m, Class(b, d), Ev(b, d))

\* Button b, which changes, is told to the machine.
Change(B, b, d, p) ==
    /\ B \in SUBSET (1..5) /\ b \in 1..5 /\ d \in BOOLEAN
    /\ d <=> b \notin B
    /\ p => b # 2

\* A result that fits is good.
LEMMA Glue ==
    ASSUME NEW n, NEW t, NEW r, NEW x, NEW h, NEW w, NEW B, NEW late, NEW p,
           Result(n, t, r, x, h, w), Fits(t, r, x, h, w, B, late, p)
    PROVE  Good(n, B, late, p)
  BY DEF Result, Good

\* How the events of buttons are classified.
LEMMA Classes ==
    ASSUME NEW b \in 1..5, NEW d \in BOOLEAN
    PROVE  /\ b \in {1, 2, 3, 4, 5}
           /\ b = 1 /\ d => Class(b, d) = "down_1"
           /\ b = 1 /\ ~d => Class(b, d) = "up_1"
           /\ b = 2 /\ d => Class(b, d) = "down_2"
           /\ b = 2 /\ ~d => Class(b, d) = "up_2"
           /\ b = 3 /\ d => Class(b, d) = "down_3"
           /\ b = 3 /\ ~d => Class(b, d) = "up_3"
           /\ b \in {4, 5} /\ d => Class(b, d) = "down_o"
           /\ b \in {4, 5} /\ ~d => Class(b, d) = "up_o"
  BY DEF Class, KdClassifyInput, Ev

\* What the rows of the table say about the events of buttons.
LEMMA StartRow ==
    ASSUME NEW b \in 1..5, NEW d \in BOOLEAN
    PROVE  /\ b = 1 /\ d => RowIs("start", Class(b, d), "hold", "setto", "button_1_pend")
           /\ b = 3 /\ d => RowIs("start", Class(b, d), "hold", "setto", "button_3_pend")
           /\ b = 2 /\ d => RowIs("start", Class(b, d), "deliver", "noop", "button_2_down")
           /\ (~d \/ b \in {4, 5}) => RowIs("start", Class(b, d), "deliver", "noop", "start")
<1>1. kdInputMachine["start"] =
        [Row("start") EXCEPT
           !["down_1"] = To("hold", "setto", "button_1_pend"),
           !["down_2"] = To("deliver", "noop", "button_2_down"),
           !["down_3"] = To("hold", "setto", "button_3_pend")]
  BY DEF kdInputMachine
<1>2. /\ kdInputMachine["start"]["down_1"] = To("hold", "setto", "button_1_pend")
      /\ kdInputMachine["start"]["up_1"] = To("deliver", "noop", "start")
      /\ kdInputMachine["start"]["down_2"] = To("deliver", "noop", "button_2_down")
      /\ kdInputMachine["start"]["up_2"] = To("deliver", "noop", "start")
      /\ kdInputMachine["start"]["down_3"] = To("hold", "setto", "button_3_pend")
      /\ kdInputMachine["start"]["up_3"] = To("deliver", "noop", "start")
      /\ kdInputMachine["start"]["down_o"] = To("deliver", "noop", "start")
      /\ kdInputMachine["start"]["up_o"] = To("deliver", "noop", "start")
  BY <1>1 DEF Row, PendRow, InputClass
<1> QED  BY <1>2, Classes DEF RowIs

LEMMA Pend1Row ==
    ASSUME NEW b \in 1..5, NEW d \in BOOLEAN
    PROVE  /\ b = 1 /\ d => RowIs("button_1_pend", Class(b, d), "noop", "noop", "button_1_pend")
           /\ b = 1 /\ ~d => RowIs("button_1_pend", Class(b, d), "release", "deliver", "start")
           /\ b = 3 /\ d => RowIs("button_1_pend", Class(b, d), "clearto", "gen_down_2", "synth_2_down_13")
           /\ (b \in {2, 4, 5} \/ (b = 3 /\ ~d)) => RowIs("button_1_pend", Class(b, d), "release", "deliver", "button_1_down")
<1>1. kdInputMachine["button_1_pend"] =
        [PendRow("button_1_pend", "button_1_down") EXCEPT
           !["down_1"] = To("noop", "noop", "button_1_pend"),
           !["up_1"] = To("release", "deliver", "start"),
           !["down_3"] = To("clearto", "gen_down_2", "synth_2_down_13"),
           !["keyboard"] = To("noop", "noop", "button_1_down")]
  BY DEF kdInputMachine
<1>2. /\ kdInputMachine["button_1_pend"]["down_1"] = To("noop", "noop", "button_1_pend")
      /\ kdInputMachine["button_1_pend"]["up_1"] = To("release", "deliver", "start")
      /\ kdInputMachine["button_1_pend"]["down_2"] = To("release", "deliver", "button_1_down")
      /\ kdInputMachine["button_1_pend"]["up_2"] = To("release", "deliver", "button_1_down")
      /\ kdInputMachine["button_1_pend"]["down_3"] = To("clearto", "gen_down_2", "synth_2_down_13")
      /\ kdInputMachine["button_1_pend"]["up_3"] = To("release", "deliver", "button_1_down")
      /\ kdInputMachine["button_1_pend"]["down_o"] = To("release", "deliver", "button_1_down")
      /\ kdInputMachine["button_1_pend"]["up_o"] = To("release", "deliver", "button_1_down")
  BY <1>1 DEF Row, PendRow, InputClass
<1> QED  BY <1>2, Classes DEF RowIs

LEMMA Down1Row ==
    ASSUME NEW b \in 1..5, NEW d \in BOOLEAN
    PROVE  /\ b = 1 /\ d => RowIs("button_1_down", Class(b, d), "noop", "noop", "button_1_down")
           /\ b = 1 /\ ~d => RowIs("button_1_down", Class(b, d), "deliver", "noop", "start")
           /\ b \in {2, 3, 4, 5} => RowIs("button_1_down", Class(b, d), "deliver", "noop", "button_1_down")
<1>1. kdInputMachine["button_1_down"] =
        [Row("button_1_down") EXCEPT
           !["down_1"] = To("noop", "noop", "button_1_down"),
           !["up_1"] = To("deliver", "noop", "start")]
  BY DEF kdInputMachine
<1>2. /\ kdInputMachine["button_1_down"]["down_1"] = To("noop", "noop", "button_1_down")
      /\ kdInputMachine["button_1_down"]["up_1"] = To("deliver", "noop", "start")
      /\ kdInputMachine["button_1_down"]["down_2"] = To("deliver", "noop", "button_1_down")
      /\ kdInputMachine["button_1_down"]["up_2"] = To("deliver", "noop", "button_1_down")
      /\ kdInputMachine["button_1_down"]["down_3"] = To("deliver", "noop", "button_1_down")
      /\ kdInputMachine["button_1_down"]["up_3"] = To("deliver", "noop", "button_1_down")
      /\ kdInputMachine["button_1_down"]["down_o"] = To("deliver", "noop", "button_1_down")
      /\ kdInputMachine["button_1_down"]["up_o"] = To("deliver", "noop", "button_1_down")
  BY <1>1 DEF Row, PendRow, InputClass
<1> QED  BY <1>2, Classes DEF RowIs

LEMMA Down2Row ==
    ASSUME NEW b \in 1..5, NEW d \in BOOLEAN
    PROVE  /\ b = 2 /\ d => RowIs("button_2_down", Class(b, d), "noop", "noop", "button_2_down")
           /\ b = 2 /\ ~d => RowIs("button_2_down", Class(b, d), "deliver", "noop", "start")
           /\ b \in {1, 3, 4, 5} => RowIs("button_2_down", Class(b, d), "deliver", "noop", "button_2_down")
<1>1. kdInputMachine["button_2_down"] =
        [Row("button_2_down") EXCEPT
           !["down_2"] = To("noop", "noop", "button_2_down"),
           !["up_2"] = To("deliver", "noop", "start")]
  BY DEF kdInputMachine
<1>2. /\ kdInputMachine["button_2_down"]["down_1"] = To("deliver", "noop", "button_2_down")
      /\ kdInputMachine["button_2_down"]["up_1"] = To("deliver", "noop", "button_2_down")
      /\ kdInputMachine["button_2_down"]["down_2"] = To("noop", "noop", "button_2_down")
      /\ kdInputMachine["button_2_down"]["up_2"] = To("deliver", "noop", "start")
      /\ kdInputMachine["button_2_down"]["down_3"] = To("deliver", "noop", "button_2_down")
      /\ kdInputMachine["button_2_down"]["up_3"] = To("deliver", "noop", "button_2_down")
      /\ kdInputMachine["button_2_down"]["down_o"] = To("deliver", "noop", "button_2_down")
      /\ kdInputMachine["button_2_down"]["up_o"] = To("deliver", "noop", "button_2_down")
  BY <1>1 DEF Row, PendRow, InputClass
<1> QED  BY <1>2, Classes DEF RowIs

LEMMA Pend3Row ==
    ASSUME NEW b \in 1..5, NEW d \in BOOLEAN
    PROVE  /\ b = 1 /\ d => RowIs("button_3_pend", Class(b, d), "clearto", "gen_down_2", "synth_2_down_13")
           /\ b = 3 /\ d => RowIs("button_3_pend", Class(b, d), "release", "deliver", "button_3_down")
           /\ b = 3 /\ ~d => RowIs("button_3_pend", Class(b, d), "release", "deliver", "start")
           /\ (b \in {2, 4, 5} \/ (b = 1 /\ ~d)) => RowIs("button_3_pend", Class(b, d), "release", "deliver", "button_3_down")
<1>1. kdInputMachine["button_3_pend"] =
        [PendRow("button_3_pend", "button_3_down") EXCEPT
           !["down_1"] = To("clearto", "gen_down_2", "synth_2_down_13"),
           !["up_3"] = To("release", "deliver", "start"),
           !["keyboard"] = To("release", "noop", "button_3_down")]
  BY DEF kdInputMachine
<1>2. /\ kdInputMachine["button_3_pend"]["down_1"] = To("clearto", "gen_down_2", "synth_2_down_13")
      /\ kdInputMachine["button_3_pend"]["up_1"] = To("release", "deliver", "button_3_down")
      /\ kdInputMachine["button_3_pend"]["down_2"] = To("release", "deliver", "button_3_down")
      /\ kdInputMachine["button_3_pend"]["up_2"] = To("release", "deliver", "button_3_down")
      /\ kdInputMachine["button_3_pend"]["down_3"] = To("release", "deliver", "button_3_down")
      /\ kdInputMachine["button_3_pend"]["up_3"] = To("release", "deliver", "start")
      /\ kdInputMachine["button_3_pend"]["down_o"] = To("release", "deliver", "button_3_down")
      /\ kdInputMachine["button_3_pend"]["up_o"] = To("release", "deliver", "button_3_down")
  BY <1>1 DEF Row, PendRow, InputClass
<1> QED  BY <1>2, Classes DEF RowIs

LEMMA Down3Row ==
    ASSUME NEW b \in 1..5, NEW d \in BOOLEAN
    PROVE  /\ b = 3 /\ d => RowIs("button_3_down", Class(b, d), "noop", "noop", "button_3_down")
           /\ b = 3 /\ ~d => RowIs("button_3_down", Class(b, d), "deliver", "noop", "start")
           /\ b \in {1, 2, 4, 5} => RowIs("button_3_down", Class(b, d), "deliver", "noop", "button_3_down")
<1>1. kdInputMachine["button_3_down"] =
        [Row("button_3_down") EXCEPT
           !["down_3"] = To("noop", "noop", "button_3_down"),
           !["up_3"] = To("deliver", "noop", "start")]
  BY DEF kdInputMachine
<1>2. /\ kdInputMachine["button_3_down"]["down_1"] = To("deliver", "noop", "button_3_down")
      /\ kdInputMachine["button_3_down"]["up_1"] = To("deliver", "noop", "button_3_down")
      /\ kdInputMachine["button_3_down"]["down_2"] = To("deliver", "noop", "button_3_down")
      /\ kdInputMachine["button_3_down"]["up_2"] = To("deliver", "noop", "button_3_down")
      /\ kdInputMachine["button_3_down"]["down_3"] = To("noop", "noop", "button_3_down")
      /\ kdInputMachine["button_3_down"]["up_3"] = To("deliver", "noop", "start")
      /\ kdInputMachine["button_3_down"]["down_o"] = To("deliver", "noop", "button_3_down")
      /\ kdInputMachine["button_3_down"]["up_o"] = To("deliver", "noop", "button_3_down")
  BY <1>1 DEF Row, PendRow, InputClass
<1> QED  BY <1>2, Classes DEF RowIs

LEMMA Synth13Row ==
    ASSUME NEW b \in 1..5, NEW d \in BOOLEAN
    PROVE  /\ b \in {4, 5} => RowIs("synth_2_down_13", Class(b, d), "deliver", "noop", "synth_2_down_13")
           /\ b = 1 /\ ~d => RowIs("synth_2_down_13", Class(b, d), "gen_up_2", "noop", "synth_2_down_3")
           /\ b = 3 /\ ~d => RowIs("synth_2_down_13", Class(b, d), "gen_up_2", "noop", "synth_2_down_1")
           /\ (b = 2 \/ (b \in {1, 3} /\ d)) => RowIs("synth_2_down_13", Class(b, d), "noop", "noop", "synth_2_down_13")
<1>1. kdInputMachine["synth_2_down_13"] =
        [[c \in InputClass |->
            IF c \in {"down_o", "up_o", "motion", "outside_box"}
              THEN To("deliver", "noop", "synth_2_down_13")
              ELSE To("noop", "noop", "synth_2_down_13")] EXCEPT
           !["up_1"] = To("gen_up_2", "noop", "synth_2_down_3"),
           !["up_3"] = To("gen_up_2", "noop", "synth_2_down_1")]
  BY DEF kdInputMachine
<1>2. /\ kdInputMachine["synth_2_down_13"]["down_1"] = To("noop", "noop", "synth_2_down_13")
      /\ kdInputMachine["synth_2_down_13"]["up_1"] = To("gen_up_2", "noop", "synth_2_down_3")
      /\ kdInputMachine["synth_2_down_13"]["down_2"] = To("noop", "noop", "synth_2_down_13")
      /\ kdInputMachine["synth_2_down_13"]["up_2"] = To("noop", "noop", "synth_2_down_13")
      /\ kdInputMachine["synth_2_down_13"]["down_3"] = To("noop", "noop", "synth_2_down_13")
      /\ kdInputMachine["synth_2_down_13"]["up_3"] = To("gen_up_2", "noop", "synth_2_down_1")
      /\ kdInputMachine["synth_2_down_13"]["down_o"] = To("deliver", "noop", "synth_2_down_13")
      /\ kdInputMachine["synth_2_down_13"]["up_o"] = To("deliver", "noop", "synth_2_down_13")
  BY <1>1 DEF Row, PendRow, InputClass
<1> QED  BY <1>2, Classes DEF RowIs

LEMMA Synth3Row ==
    ASSUME NEW b \in 1..5, NEW d \in BOOLEAN
    PROVE  /\ b = 3 /\ d => RowIs("synth_2_down_3", Class(b, d), "noop", "noop", "synth_2_down_3")
           /\ b = 3 /\ ~d => RowIs("synth_2_down_3", Class(b, d), "noop", "noop", "start")
           /\ b \in {1, 2, 4, 5} => RowIs("synth_2_down_3", Class(b, d), "deliver", "noop", "synth_2_down_3")
<1>1. kdInputMachine["synth_2_down_3"] =
        [Row("synth_2_down_3") EXCEPT
           !["down_3"] = To("noop", "noop", "synth_2_down_3"),
           !["up_3"] = To("noop", "noop", "start")]
  BY DEF kdInputMachine
<1>2. /\ kdInputMachine["synth_2_down_3"]["down_1"] = To("deliver", "noop", "synth_2_down_3")
      /\ kdInputMachine["synth_2_down_3"]["up_1"] = To("deliver", "noop", "synth_2_down_3")
      /\ kdInputMachine["synth_2_down_3"]["down_2"] = To("deliver", "noop", "synth_2_down_3")
      /\ kdInputMachine["synth_2_down_3"]["up_2"] = To("deliver", "noop", "synth_2_down_3")
      /\ kdInputMachine["synth_2_down_3"]["down_3"] = To("noop", "noop", "synth_2_down_3")
      /\ kdInputMachine["synth_2_down_3"]["up_3"] = To("noop", "noop", "start")
      /\ kdInputMachine["synth_2_down_3"]["down_o"] = To("deliver", "noop", "synth_2_down_3")
      /\ kdInputMachine["synth_2_down_3"]["up_o"] = To("deliver", "noop", "synth_2_down_3")
  BY <1>1 DEF Row, PendRow, InputClass
<1> QED  BY <1>2, Classes DEF RowIs

LEMMA Synth1Row ==
    ASSUME NEW b \in 1..5, NEW d \in BOOLEAN
    PROVE  /\ b = 1 /\ d => RowIs("synth_2_down_1", Class(b, d), "noop", "noop", "synth_2_down_1")
           /\ b = 1 /\ ~d => RowIs("synth_2_down_1", Class(b, d), "noop", "noop", "start")
           /\ b \in {2, 3, 4, 5} => RowIs("synth_2_down_1", Class(b, d), "deliver", "noop", "synth_2_down_1")
<1>1. kdInputMachine["synth_2_down_1"] =
        [Row("synth_2_down_1") EXCEPT
           !["down_1"] = To("noop", "noop", "synth_2_down_1"),
           !["up_1"] = To("noop", "noop", "start")]
  BY DEF kdInputMachine
<1>2. /\ kdInputMachine["synth_2_down_1"]["down_1"] = To("noop", "noop", "synth_2_down_1")
      /\ kdInputMachine["synth_2_down_1"]["up_1"] = To("noop", "noop", "start")
      /\ kdInputMachine["synth_2_down_1"]["down_2"] = To("deliver", "noop", "synth_2_down_1")
      /\ kdInputMachine["synth_2_down_1"]["up_2"] = To("deliver", "noop", "synth_2_down_1")
      /\ kdInputMachine["synth_2_down_1"]["down_3"] = To("deliver", "noop", "synth_2_down_1")
      /\ kdInputMachine["synth_2_down_1"]["up_3"] = To("deliver", "noop", "synth_2_down_1")
      /\ kdInputMachine["synth_2_down_1"]["down_o"] = To("deliver", "noop", "synth_2_down_1")
      /\ kdInputMachine["synth_2_down_1"]["up_o"] = To("deliver", "noop", "synth_2_down_1")
  BY <1>1 DEF Row, PendRow, InputClass
<1> QED  BY <1>2, Classes DEF RowIs

\* In each state, a button that changes leaves the machine good.
LEMMA StartStep ==
    ASSUME NEW m, NEW B, NEW b, NEW d, NEW late \in BOOLEAN, NEW p \in BOOLEAN,
           m.mouseState = "start", Good(m, B, late, p), Change(B, b, d, p)
    PROVE  Good(Run(m, b, d), After(B, b, d), late, p)
<1> DEFINE r == m.reported
           h == m.heldEvent
           w == m.timeoutPending
<1>1. /\ m \in Machine /\ b \in 1..5 /\ b \in {1, 2, 3, 4, 5} /\ d \in BOOLEAN /\ (d <=> b \notin B)
      /\ B \in SUBSET (1..5) /\ (p => b # 2)
      /\ Fits("start", r, m.matched, h, w, B, late, p)
      /\ r \in SUBSET (1..5) /\ w \in BOOLEAN /\ m.matched \in BOOLEAN
  BY DEF Good, Change, Machine
<1>2. CASE b = 1 /\ d
  <2> DEFINE x == m.matched
  <2>1. RowIs(m.mouseState, Class(b, d), "hold", "setto", "button_1_pend") /\ "button_1_pend" \in State
    BY <1>1, <1>2, StartRow DEF State
  <2>2. b \in {1, 3}
    BY <1>2
  <2>3. Result(Run(m, b, d), "button_1_pend", r, x, b, TRUE)
    BY <1>1, <2>1, <2>2, HoldRun, Zenon DEF Run
  <2>4. Fits("button_1_pend", r, x, b, TRUE, After(B, b, d), late, p)
    BY <1>1, <1>2 DEF Fits, Reportable, After, Pend
  <2> QED  BY <2>3, <2>4, Glue, Zenon
<1>3. CASE b = 3 /\ d
  <2> DEFINE x == m.matched
  <2>1. RowIs(m.mouseState, Class(b, d), "hold", "setto", "button_3_pend") /\ "button_3_pend" \in State
    BY <1>1, <1>3, StartRow DEF State
  <2>2. b \in {1, 3}
    BY <1>3
  <2>3. Result(Run(m, b, d), "button_3_pend", r, x, b, TRUE)
    BY <1>1, <2>1, <2>2, HoldRun, Zenon DEF Run
  <2>4. Fits("button_3_pend", r, x, b, TRUE, After(B, b, d), late, p)
    BY <1>1, <1>3 DEF Fits, Reportable, After, Pend
  <2> QED  BY <2>3, <2>4, Glue, Zenon
<1>4. CASE b = 2 /\ d
  <2> DEFINE x == m.matched /\ (d <=> b \notin r)
  <2>1. RowIs(m.mouseState, Class(b, d), "deliver", "noop", "button_2_down") /\ "button_2_down" \in State
    BY <1>1, <1>4, StartRow DEF State
  <2>3. Result(Run(m, b, d), "button_2_down", After(r, b, d), x, h, w)
    BY <1>1, <2>1, DeliverRun, Zenon DEF Run
  <2>4. Fits("button_2_down", After(r, b, d), x, h, w, After(B, b, d), late, p)
    BY <1>1, <1>4 DEF Fits, Reportable, After, Pend
  <2> QED  BY <2>3, <2>4, Glue, Zenon
<1>5. CASE ~d \/ b \in {4, 5}
  <2> DEFINE x == m.matched /\ (d <=> b \notin r)
  <2>1. RowIs(m.mouseState, Class(b, d), "deliver", "noop", "start") /\ "start" \in State
    BY <1>1, <1>5, StartRow DEF State
  <2>3. Result(Run(m, b, d), "start", After(r, b, d), x, h, w)
    BY <1>1, <2>1, DeliverRun, Zenon DEF Run
  <2>4. Fits("start", After(r, b, d), x, h, w, After(B, b, d), late, p)
    BY <1>1, <1>5 DEF Fits, Reportable, After, Pend
  <2> QED  BY <2>3, <2>4, Glue, Zenon
<1> QED  BY <1>1, <1>2, <1>3, <1>4, <1>5

LEMMA Pend1Step ==
    ASSUME NEW m, NEW B, NEW b, NEW d, NEW late \in BOOLEAN, NEW p \in BOOLEAN,
           m.mouseState = "button_1_pend", Good(m, B, late, p), Change(B, b, d, p)
    PROVE  Good(Run(m, b, d), After(B, b, d), late, p)
<1> DEFINE r == m.reported
           h == m.heldEvent
           w == m.timeoutPending
<1>1. /\ m \in Machine /\ b \in 1..5 /\ b \in {1, 2, 3, 4, 5} /\ d \in BOOLEAN /\ (d <=> b \notin B)
      /\ B \in SUBSET (1..5) /\ (p => b # 2)
      /\ Fits("button_1_pend", r, m.matched, h, w, B, late, p)
      /\ r \in SUBSET (1..5) /\ w \in BOOLEAN /\ m.matched \in BOOLEAN
  BY DEF Good, Change, Machine
<1>2. CASE b = 1 /\ d
  <2> DEFINE x == m.matched
  <2>1. RowIs(m.mouseState, Class(b, d), "noop", "noop", "button_1_pend") /\ "button_1_pend" \in State
    BY <1>1, <1>2, Pend1Row DEF State
  <2>3. Result(Run(m, b, d), "button_1_pend", r, x, h, w)
    BY <1>1, <2>1, QuietRun, Zenon DEF Run
  <2>4. Fits("button_1_pend", r, x, h, w, After(B, b, d), late, p)
    BY <1>1, <1>2 DEF Fits, Reportable, After, Pend
  <2> QED  BY <2>3, <2>4, Glue, Zenon
<1>3. CASE b = 1 /\ ~d
  <2> DEFINE x == m.matched /\ h \notin r /\ (d <=> b \notin r \union {h})
  <2>1. RowIs(m.mouseState, Class(b, d), "release", "deliver", "start") /\ "start" \in State
    BY <1>1, <1>3, Pend1Row DEF State
  <2>2. h \in 1..5
    BY <1>1 DEF Fits
  <2>3. Result(Run(m, b, d), "start", After(r \union {h}, b, d), x, h, FALSE)
    BY <1>1, <2>1, <2>2, ReleaseDeliverRun, Zenon DEF Run
  <2>4. Fits("start", After(r \union {h}, b, d), x, h, FALSE, After(B, b, d), late, p)
    BY <1>1, <1>3 DEF Fits, Reportable, After, Pend
  <2> QED  BY <2>3, <2>4, Glue, Zenon
<1>4. CASE b = 3 /\ d
  <2> DEFINE x == m.matched /\ 2 \notin r
  <2>1. RowIs(m.mouseState, Class(b, d), "clearto", "gen_down_2", "synth_2_down_13") /\ "synth_2_down_13" \in State
    BY <1>1, <1>4, Pend1Row DEF State
  <2>3. Result(Run(m, b, d), "synth_2_down_13", r \union {2}, x, h, FALSE)
    BY <1>1, <2>1, SynthRun, Zenon DEF Run
  <2>4. Fits("synth_2_down_13", r \union {2}, x, h, FALSE, After(B, b, d), late, p)
    BY <1>1, <1>4 DEF Fits, Reportable, After, Pend
  <2> QED  BY <2>3, <2>4, Glue, Zenon
<1>5. CASE b \in {2, 4, 5} \/ (b = 3 /\ ~d)
  <2> DEFINE x == m.matched /\ h \notin r /\ (d <=> b \notin r \union {h})
  <2>1. RowIs(m.mouseState, Class(b, d), "release", "deliver", "button_1_down") /\ "button_1_down" \in State
    BY <1>1, <1>5, Pend1Row DEF State
  <2>2. h \in 1..5
    BY <1>1 DEF Fits
  <2>3. Result(Run(m, b, d), "button_1_down", After(r \union {h}, b, d), x, h, FALSE)
    BY <1>1, <2>1, <2>2, ReleaseDeliverRun, Zenon DEF Run
  <2>4. Fits("button_1_down", After(r \union {h}, b, d), x, h, FALSE, After(B, b, d), late, p)
    BY <1>1, <1>5 DEF Fits, Reportable, After, Pend
  <2> QED  BY <2>3, <2>4, Glue, Zenon
<1> QED  BY <1>1, <1>2, <1>3, <1>4, <1>5

LEMMA Down1Step ==
    ASSUME NEW m, NEW B, NEW b, NEW d, NEW late \in BOOLEAN, NEW p \in BOOLEAN,
           m.mouseState = "button_1_down", Good(m, B, late, p), Change(B, b, d, p)
    PROVE  Good(Run(m, b, d), After(B, b, d), late, p)
<1> DEFINE r == m.reported
           h == m.heldEvent
           w == m.timeoutPending
<1>1. /\ m \in Machine /\ b \in 1..5 /\ b \in {1, 2, 3, 4, 5} /\ d \in BOOLEAN /\ (d <=> b \notin B)
      /\ B \in SUBSET (1..5) /\ (p => b # 2)
      /\ Fits("button_1_down", r, m.matched, h, w, B, late, p)
      /\ r \in SUBSET (1..5) /\ w \in BOOLEAN /\ m.matched \in BOOLEAN
  BY DEF Good, Change, Machine
<1>2. CASE b = 1 /\ d
  <2> DEFINE x == m.matched
  <2>1. RowIs(m.mouseState, Class(b, d), "noop", "noop", "button_1_down") /\ "button_1_down" \in State
    BY <1>1, <1>2, Down1Row DEF State
  <2>3. Result(Run(m, b, d), "button_1_down", r, x, h, w)
    BY <1>1, <2>1, QuietRun, Zenon DEF Run
  <2>4. Fits("button_1_down", r, x, h, w, After(B, b, d), late, p)
    BY <1>1, <1>2 DEF Fits, Reportable, After, Pend
  <2> QED  BY <2>3, <2>4, Glue, Zenon
<1>3. CASE b = 1 /\ ~d
  <2> DEFINE x == m.matched /\ (d <=> b \notin r)
  <2>1. RowIs(m.mouseState, Class(b, d), "deliver", "noop", "start") /\ "start" \in State
    BY <1>1, <1>3, Down1Row DEF State
  <2>3. Result(Run(m, b, d), "start", After(r, b, d), x, h, w)
    BY <1>1, <2>1, DeliverRun, Zenon DEF Run
  <2>4. Fits("start", After(r, b, d), x, h, w, After(B, b, d), late, p)
    BY <1>1, <1>3 DEF Fits, Reportable, After, Pend
  <2> QED  BY <2>3, <2>4, Glue, Zenon
<1>4. CASE b \in {2, 3, 4, 5}
  <2> DEFINE x == m.matched /\ (d <=> b \notin r)
  <2>1. RowIs(m.mouseState, Class(b, d), "deliver", "noop", "button_1_down") /\ "button_1_down" \in State
    BY <1>1, <1>4, Down1Row DEF State
  <2>3. Result(Run(m, b, d), "button_1_down", After(r, b, d), x, h, w)
    BY <1>1, <2>1, DeliverRun, Zenon DEF Run
  <2>4. Fits("button_1_down", After(r, b, d), x, h, w, After(B, b, d), late, p)
    BY <1>1, <1>4 DEF Fits, Reportable, After, Pend
  <2> QED  BY <2>3, <2>4, Glue, Zenon
<1> QED  BY <1>1, <1>2, <1>3, <1>4

LEMMA Down2Step ==
    ASSUME NEW m, NEW B, NEW b, NEW d, NEW late \in BOOLEAN, NEW p \in BOOLEAN,
           m.mouseState = "button_2_down", Good(m, B, late, p), Change(B, b, d, p)
    PROVE  Good(Run(m, b, d), After(B, b, d), late, p)
<1> DEFINE r == m.reported
           h == m.heldEvent
           w == m.timeoutPending
<1>1. /\ m \in Machine /\ b \in 1..5 /\ b \in {1, 2, 3, 4, 5} /\ d \in BOOLEAN /\ (d <=> b \notin B)
      /\ B \in SUBSET (1..5) /\ (p => b # 2)
      /\ Fits("button_2_down", r, m.matched, h, w, B, late, p)
      /\ r \in SUBSET (1..5) /\ w \in BOOLEAN /\ m.matched \in BOOLEAN
  BY DEF Good, Change, Machine
<1>2. CASE b = 2 /\ d
  <2> DEFINE x == m.matched
  <2>1. RowIs(m.mouseState, Class(b, d), "noop", "noop", "button_2_down") /\ "button_2_down" \in State
    BY <1>1, <1>2, Down2Row DEF State
  <2>3. Result(Run(m, b, d), "button_2_down", r, x, h, w)
    BY <1>1, <2>1, QuietRun, Zenon DEF Run
  <2>4. Fits("button_2_down", r, x, h, w, After(B, b, d), late, p)
    BY <1>1, <1>2 DEF Fits, Reportable, After, Pend
  <2> QED  BY <2>3, <2>4, Glue, Zenon
<1>3. CASE b = 2 /\ ~d
  <2> DEFINE x == m.matched /\ (d <=> b \notin r)
  <2>1. RowIs(m.mouseState, Class(b, d), "deliver", "noop", "start") /\ "start" \in State
    BY <1>1, <1>3, Down2Row DEF State
  <2>3. Result(Run(m, b, d), "start", After(r, b, d), x, h, w)
    BY <1>1, <2>1, DeliverRun, Zenon DEF Run
  <2>4. Fits("start", After(r, b, d), x, h, w, After(B, b, d), late, p)
    BY <1>1, <1>3 DEF Fits, Reportable, After, Pend
  <2> QED  BY <2>3, <2>4, Glue, Zenon
<1>4. CASE b \in {1, 3, 4, 5}
  <2> DEFINE x == m.matched /\ (d <=> b \notin r)
  <2>1. RowIs(m.mouseState, Class(b, d), "deliver", "noop", "button_2_down") /\ "button_2_down" \in State
    BY <1>1, <1>4, Down2Row DEF State
  <2>3. Result(Run(m, b, d), "button_2_down", After(r, b, d), x, h, w)
    BY <1>1, <2>1, DeliverRun, Zenon DEF Run
  <2>4. Fits("button_2_down", After(r, b, d), x, h, w, After(B, b, d), late, p)
    BY <1>1, <1>4 DEF Fits, Reportable, After, Pend
  <2> QED  BY <2>3, <2>4, Glue, Zenon
<1> QED  BY <1>1, <1>2, <1>3, <1>4

LEMMA Pend3Step ==
    ASSUME NEW m, NEW B, NEW b, NEW d, NEW late \in BOOLEAN, NEW p \in BOOLEAN,
           m.mouseState = "button_3_pend", Good(m, B, late, p), Change(B, b, d, p)
    PROVE  Good(Run(m, b, d), After(B, b, d), late, p)
<1> DEFINE r == m.reported
           h == m.heldEvent
           w == m.timeoutPending
<1>1. /\ m \in Machine /\ b \in 1..5 /\ b \in {1, 2, 3, 4, 5} /\ d \in BOOLEAN /\ (d <=> b \notin B)
      /\ B \in SUBSET (1..5) /\ (p => b # 2)
      /\ Fits("button_3_pend", r, m.matched, h, w, B, late, p)
      /\ r \in SUBSET (1..5) /\ w \in BOOLEAN /\ m.matched \in BOOLEAN
  BY DEF Good, Change, Machine
<1>2. CASE b = 1 /\ d
  <2> DEFINE x == m.matched /\ 2 \notin r
  <2>1. RowIs(m.mouseState, Class(b, d), "clearto", "gen_down_2", "synth_2_down_13") /\ "synth_2_down_13" \in State
    BY <1>1, <1>2, Pend3Row DEF State
  <2>3. Result(Run(m, b, d), "synth_2_down_13", r \union {2}, x, h, FALSE)
    BY <1>1, <2>1, SynthRun, Zenon DEF Run
  <2>4. Fits("synth_2_down_13", r \union {2}, x, h, FALSE, After(B, b, d), late, p)
    BY <1>1, <1>2 DEF Fits, Reportable, After, Pend
  <2> QED  BY <2>3, <2>4, Glue, Zenon
<1>3. CASE b = 3 /\ d
  <2> DEFINE x == m.matched /\ h \notin r /\ (d <=> b \notin r \union {h})
  <2>1. RowIs(m.mouseState, Class(b, d), "release", "deliver", "button_3_down") /\ "button_3_down" \in State
    BY <1>1, <1>3, Pend3Row DEF State
  <2>2. h \in 1..5
    BY <1>1 DEF Fits
  <2>3. Result(Run(m, b, d), "button_3_down", After(r \union {h}, b, d), x, h, FALSE)
    BY <1>1, <2>1, <2>2, ReleaseDeliverRun, Zenon DEF Run
  <2>4. Fits("button_3_down", After(r \union {h}, b, d), x, h, FALSE, After(B, b, d), late, p)
    BY <1>1, <1>3 DEF Fits, Reportable, After, Pend
  <2> QED  BY <2>3, <2>4, Glue, Zenon
<1>4. CASE b = 3 /\ ~d
  <2> DEFINE x == m.matched /\ h \notin r /\ (d <=> b \notin r \union {h})
  <2>1. RowIs(m.mouseState, Class(b, d), "release", "deliver", "start") /\ "start" \in State
    BY <1>1, <1>4, Pend3Row DEF State
  <2>2. h \in 1..5
    BY <1>1 DEF Fits
  <2>3. Result(Run(m, b, d), "start", After(r \union {h}, b, d), x, h, FALSE)
    BY <1>1, <2>1, <2>2, ReleaseDeliverRun, Zenon DEF Run
  <2>4. Fits("start", After(r \union {h}, b, d), x, h, FALSE, After(B, b, d), late, p)
    BY <1>1, <1>4 DEF Fits, Reportable, After, Pend
  <2> QED  BY <2>3, <2>4, Glue, Zenon
<1>5. CASE b \in {2, 4, 5} \/ (b = 1 /\ ~d)
  <2> DEFINE x == m.matched /\ h \notin r /\ (d <=> b \notin r \union {h})
  <2>1. RowIs(m.mouseState, Class(b, d), "release", "deliver", "button_3_down") /\ "button_3_down" \in State
    BY <1>1, <1>5, Pend3Row DEF State
  <2>2. h \in 1..5
    BY <1>1 DEF Fits
  <2>3. Result(Run(m, b, d), "button_3_down", After(r \union {h}, b, d), x, h, FALSE)
    BY <1>1, <2>1, <2>2, ReleaseDeliverRun, Zenon DEF Run
  <2>4. Fits("button_3_down", After(r \union {h}, b, d), x, h, FALSE, After(B, b, d), late, p)
    BY <1>1, <1>5 DEF Fits, Reportable, After, Pend
  <2> QED  BY <2>3, <2>4, Glue, Zenon
<1> QED  BY <1>1, <1>2, <1>3, <1>4, <1>5

LEMMA Down3Step ==
    ASSUME NEW m, NEW B, NEW b, NEW d, NEW late \in BOOLEAN, NEW p \in BOOLEAN,
           m.mouseState = "button_3_down", Good(m, B, late, p), Change(B, b, d, p)
    PROVE  Good(Run(m, b, d), After(B, b, d), late, p)
<1> DEFINE r == m.reported
           h == m.heldEvent
           w == m.timeoutPending
<1>1. /\ m \in Machine /\ b \in 1..5 /\ b \in {1, 2, 3, 4, 5} /\ d \in BOOLEAN /\ (d <=> b \notin B)
      /\ B \in SUBSET (1..5) /\ (p => b # 2)
      /\ Fits("button_3_down", r, m.matched, h, w, B, late, p)
      /\ r \in SUBSET (1..5) /\ w \in BOOLEAN /\ m.matched \in BOOLEAN
  BY DEF Good, Change, Machine
<1>2. CASE b = 3 /\ d
  <2> DEFINE x == m.matched
  <2>1. RowIs(m.mouseState, Class(b, d), "noop", "noop", "button_3_down") /\ "button_3_down" \in State
    BY <1>1, <1>2, Down3Row DEF State
  <2>3. Result(Run(m, b, d), "button_3_down", r, x, h, w)
    BY <1>1, <2>1, QuietRun, Zenon DEF Run
  <2>4. Fits("button_3_down", r, x, h, w, After(B, b, d), late, p)
    BY <1>1, <1>2 DEF Fits, Reportable, After, Pend
  <2> QED  BY <2>3, <2>4, Glue, Zenon
<1>3. CASE b = 3 /\ ~d
  <2> DEFINE x == m.matched /\ (d <=> b \notin r)
  <2>1. RowIs(m.mouseState, Class(b, d), "deliver", "noop", "start") /\ "start" \in State
    BY <1>1, <1>3, Down3Row DEF State
  <2>3. Result(Run(m, b, d), "start", After(r, b, d), x, h, w)
    BY <1>1, <2>1, DeliverRun, Zenon DEF Run
  <2>4. Fits("start", After(r, b, d), x, h, w, After(B, b, d), late, p)
    BY <1>1, <1>3 DEF Fits, Reportable, After, Pend
  <2> QED  BY <2>3, <2>4, Glue, Zenon
<1>4. CASE b \in {1, 2, 4, 5}
  <2> DEFINE x == m.matched /\ (d <=> b \notin r)
  <2>1. RowIs(m.mouseState, Class(b, d), "deliver", "noop", "button_3_down") /\ "button_3_down" \in State
    BY <1>1, <1>4, Down3Row DEF State
  <2>3. Result(Run(m, b, d), "button_3_down", After(r, b, d), x, h, w)
    BY <1>1, <2>1, DeliverRun, Zenon DEF Run
  <2>4. Fits("button_3_down", After(r, b, d), x, h, w, After(B, b, d), late, p)
    BY <1>1, <1>4 DEF Fits, Reportable, After, Pend
  <2> QED  BY <2>3, <2>4, Glue, Zenon
<1> QED  BY <1>1, <1>2, <1>3, <1>4

LEMMA Synth13Step ==
    ASSUME NEW m, NEW B, NEW b, NEW d, NEW late \in BOOLEAN, NEW p \in BOOLEAN,
           m.mouseState = "synth_2_down_13", Good(m, B, late, p), Change(B, b, d, p)
    PROVE  Good(Run(m, b, d), After(B, b, d), late, p)
<1> DEFINE r == m.reported
           h == m.heldEvent
           w == m.timeoutPending
<1>1. /\ m \in Machine /\ b \in 1..5 /\ b \in {1, 2, 3, 4, 5} /\ d \in BOOLEAN /\ (d <=> b \notin B)
      /\ B \in SUBSET (1..5) /\ (p => b # 2)
      /\ Fits("synth_2_down_13", r, m.matched, h, w, B, late, p)
      /\ r \in SUBSET (1..5) /\ w \in BOOLEAN /\ m.matched \in BOOLEAN
  BY DEF Good, Change, Machine
<1>2. CASE b \in {4, 5}
  <2> DEFINE x == m.matched /\ (d <=> b \notin r)
  <2>1. RowIs(m.mouseState, Class(b, d), "deliver", "noop", "synth_2_down_13") /\ "synth_2_down_13" \in State
    BY <1>1, <1>2, Synth13Row DEF State
  <2>3. Result(Run(m, b, d), "synth_2_down_13", After(r, b, d), x, h, w)
    BY <1>1, <2>1, DeliverRun, Zenon DEF Run
  <2>4. Fits("synth_2_down_13", After(r, b, d), x, h, w, After(B, b, d), late, p)
    BY <1>1, <1>2 DEF Fits, Reportable, After, Pend
  <2> QED  BY <2>3, <2>4, Glue, Zenon
<1>3. CASE b = 1 /\ ~d
  <2> DEFINE x == m.matched /\ 2 \in r
  <2>1. RowIs(m.mouseState, Class(b, d), "gen_up_2", "noop", "synth_2_down_3") /\ "synth_2_down_3" \in State
    BY <1>1, <1>3, Synth13Row DEF State
  <2>3. Result(Run(m, b, d), "synth_2_down_3", r \ {2}, x, h, w)
    BY <1>1, <2>1, UnsynthRun, Zenon DEF Run
  <2>4. Fits("synth_2_down_3", r \ {2}, x, h, w, After(B, b, d), late, p)
    BY <1>1, <1>3 DEF Fits, Reportable, After, Pend
  <2> QED  BY <2>3, <2>4, Glue, Zenon
<1>4. CASE b = 3 /\ ~d
  <2> DEFINE x == m.matched /\ 2 \in r
  <2>1. RowIs(m.mouseState, Class(b, d), "gen_up_2", "noop", "synth_2_down_1") /\ "synth_2_down_1" \in State
    BY <1>1, <1>4, Synth13Row DEF State
  <2>3. Result(Run(m, b, d), "synth_2_down_1", r \ {2}, x, h, w)
    BY <1>1, <2>1, UnsynthRun, Zenon DEF Run
  <2>4. Fits("synth_2_down_1", r \ {2}, x, h, w, After(B, b, d), late, p)
    BY <1>1, <1>4 DEF Fits, Reportable, After, Pend
  <2> QED  BY <2>3, <2>4, Glue, Zenon
<1>5. CASE b = 2 \/ (b \in {1, 3} /\ d)
  <2> DEFINE x == m.matched
  <2>1. RowIs(m.mouseState, Class(b, d), "noop", "noop", "synth_2_down_13") /\ "synth_2_down_13" \in State
    BY <1>1, <1>5, Synth13Row DEF State
  <2>3. Result(Run(m, b, d), "synth_2_down_13", r, x, h, w)
    BY <1>1, <2>1, QuietRun, Zenon DEF Run
  <2>4. Fits("synth_2_down_13", r, x, h, w, After(B, b, d), late, p)
    BY <1>1, <1>5 DEF Fits, Reportable, After, Pend
  <2> QED  BY <2>3, <2>4, Glue, Zenon
<1> QED  BY <1>1, <1>2, <1>3, <1>4, <1>5

LEMMA Synth3Step ==
    ASSUME NEW m, NEW B, NEW b, NEW d, NEW late \in BOOLEAN, NEW p \in BOOLEAN,
           m.mouseState = "synth_2_down_3", Good(m, B, late, p), Change(B, b, d, p)
    PROVE  Good(Run(m, b, d), After(B, b, d), late, p)
<1> DEFINE r == m.reported
           h == m.heldEvent
           w == m.timeoutPending
<1>1. /\ m \in Machine /\ b \in 1..5 /\ b \in {1, 2, 3, 4, 5} /\ d \in BOOLEAN /\ (d <=> b \notin B)
      /\ B \in SUBSET (1..5) /\ (p => b # 2)
      /\ Fits("synth_2_down_3", r, m.matched, h, w, B, late, p)
      /\ r \in SUBSET (1..5) /\ w \in BOOLEAN /\ m.matched \in BOOLEAN
  BY DEF Good, Change, Machine
<1>2. CASE b = 3 /\ d
  <2> DEFINE x == m.matched
  <2>1. RowIs(m.mouseState, Class(b, d), "noop", "noop", "synth_2_down_3") /\ "synth_2_down_3" \in State
    BY <1>1, <1>2, Synth3Row DEF State
  <2>3. Result(Run(m, b, d), "synth_2_down_3", r, x, h, w)
    BY <1>1, <2>1, QuietRun, Zenon DEF Run
  <2>4. Fits("synth_2_down_3", r, x, h, w, After(B, b, d), late, p)
    BY <1>1, <1>2 DEF Fits, Reportable, After, Pend
  <2> QED  BY <2>3, <2>4, Glue, Zenon
<1>3. CASE b = 3 /\ ~d
  <2> DEFINE x == m.matched
  <2>1. RowIs(m.mouseState, Class(b, d), "noop", "noop", "start") /\ "start" \in State
    BY <1>1, <1>3, Synth3Row DEF State
  <2>3. Result(Run(m, b, d), "start", r, x, h, w)
    BY <1>1, <2>1, QuietRun, Zenon DEF Run
  <2>4. Fits("start", r, x, h, w, After(B, b, d), late, p)
    BY <1>1, <1>3 DEF Fits, Reportable, After, Pend
  <2> QED  BY <2>3, <2>4, Glue, Zenon
<1>4. CASE b \in {1, 2, 4, 5}
  <2> DEFINE x == m.matched /\ (d <=> b \notin r)
  <2>1. RowIs(m.mouseState, Class(b, d), "deliver", "noop", "synth_2_down_3") /\ "synth_2_down_3" \in State
    BY <1>1, <1>4, Synth3Row DEF State
  <2>3. Result(Run(m, b, d), "synth_2_down_3", After(r, b, d), x, h, w)
    BY <1>1, <2>1, DeliverRun, Zenon DEF Run
  <2>4. Fits("synth_2_down_3", After(r, b, d), x, h, w, After(B, b, d), late, p)
    BY <1>1, <1>4 DEF Fits, Reportable, After, Pend
  <2> QED  BY <2>3, <2>4, Glue, Zenon
<1> QED  BY <1>1, <1>2, <1>3, <1>4

LEMMA Synth1Step ==
    ASSUME NEW m, NEW B, NEW b, NEW d, NEW late \in BOOLEAN, NEW p \in BOOLEAN,
           m.mouseState = "synth_2_down_1", Good(m, B, late, p), Change(B, b, d, p)
    PROVE  Good(Run(m, b, d), After(B, b, d), late, p)
<1> DEFINE r == m.reported
           h == m.heldEvent
           w == m.timeoutPending
<1>1. /\ m \in Machine /\ b \in 1..5 /\ b \in {1, 2, 3, 4, 5} /\ d \in BOOLEAN /\ (d <=> b \notin B)
      /\ B \in SUBSET (1..5) /\ (p => b # 2)
      /\ Fits("synth_2_down_1", r, m.matched, h, w, B, late, p)
      /\ r \in SUBSET (1..5) /\ w \in BOOLEAN /\ m.matched \in BOOLEAN
  BY DEF Good, Change, Machine
<1>2. CASE b = 1 /\ d
  <2> DEFINE x == m.matched
  <2>1. RowIs(m.mouseState, Class(b, d), "noop", "noop", "synth_2_down_1") /\ "synth_2_down_1" \in State
    BY <1>1, <1>2, Synth1Row DEF State
  <2>3. Result(Run(m, b, d), "synth_2_down_1", r, x, h, w)
    BY <1>1, <2>1, QuietRun, Zenon DEF Run
  <2>4. Fits("synth_2_down_1", r, x, h, w, After(B, b, d), late, p)
    BY <1>1, <1>2 DEF Fits, Reportable, After, Pend
  <2> QED  BY <2>3, <2>4, Glue, Zenon
<1>3. CASE b = 1 /\ ~d
  <2> DEFINE x == m.matched
  <2>1. RowIs(m.mouseState, Class(b, d), "noop", "noop", "start") /\ "start" \in State
    BY <1>1, <1>3, Synth1Row DEF State
  <2>3. Result(Run(m, b, d), "start", r, x, h, w)
    BY <1>1, <2>1, QuietRun, Zenon DEF Run
  <2>4. Fits("start", r, x, h, w, After(B, b, d), late, p)
    BY <1>1, <1>3 DEF Fits, Reportable, After, Pend
  <2> QED  BY <2>3, <2>4, Glue, Zenon
<1>4. CASE b \in {2, 3, 4, 5}
  <2> DEFINE x == m.matched /\ (d <=> b \notin r)
  <2>1. RowIs(m.mouseState, Class(b, d), "deliver", "noop", "synth_2_down_1") /\ "synth_2_down_1" \in State
    BY <1>1, <1>4, Synth1Row DEF State
  <2>3. Result(Run(m, b, d), "synth_2_down_1", After(r, b, d), x, h, w)
    BY <1>1, <2>1, DeliverRun, Zenon DEF Run
  <2>4. Fits("synth_2_down_1", After(r, b, d), x, h, w, After(B, b, d), late, p)
    BY <1>1, <1>4 DEF Fits, Reportable, After, Pend
  <2> QED  BY <2>3, <2>4, Glue, Zenon
<1> QED  BY <1>1, <1>2, <1>3, <1>4

LEMMA ButtonStep ==
    ASSUME NEW m, NEW B, NEW b, NEW d, NEW late \in BOOLEAN, NEW p \in BOOLEAN,
           Good(m, B, late, p), Change(B, b, d, p)
    PROVE  Good(Run(m, b, d), After(B, b, d), late, p)
<1>1. m.mouseState \in State
  BY DEF Good, Machine
<1> QED
  BY <1>1, StartStep, Pend1Step, Down1Step, Down2Step, Pend3Step, Down3Step,
     Synth13Step, Synth3Step, Synth1Step DEF State

\* Motions, keys and the timeout.
LEMMA OtherRows ==
    ASSUME NEW s \in State
    PROVE  /\ RowIs(s, "motion", "deliver", "noop", s)
           /\ s \notin Pend => /\ RowIs(s, "outside_box", "deliver", "noop", s)
                             /\ RowIs(s, "keyboard", "noop", "noop", s)
                             /\ RowIs(s, "timeout", "noop", "noop", s)
<1>1. CASE s = "start"
  BY <1>1 DEF Pend, RowIs, kdInputMachine, Row, PendRow, To, InputClass
<1>2. CASE s = "button_1_pend"
  BY <1>2 DEF Pend, RowIs, kdInputMachine, Row, PendRow, To, InputClass
<1>3. CASE s = "button_1_down"
  BY <1>3 DEF Pend, RowIs, kdInputMachine, Row, PendRow, To, InputClass
<1>4. CASE s = "button_2_down"
  BY <1>4 DEF Pend, RowIs, kdInputMachine, Row, PendRow, To, InputClass
<1>5. CASE s = "button_3_pend"
  BY <1>5 DEF Pend, RowIs, kdInputMachine, Row, PendRow, To, InputClass
<1>6. CASE s = "button_3_down"
  BY <1>6 DEF Pend, RowIs, kdInputMachine, Row, PendRow, To, InputClass
<1>7. CASE s = "synth_2_down_13"
  <2>1. /\ kdInputMachine["synth_2_down_13"]["motion"] = To("deliver", "noop", "synth_2_down_13")
        /\ kdInputMachine["synth_2_down_13"]["outside_box"] = To("deliver", "noop", "synth_2_down_13")
        /\ kdInputMachine["synth_2_down_13"]["keyboard"] = To("noop", "noop", "synth_2_down_13")
        /\ kdInputMachine["synth_2_down_13"]["timeout"] = To("noop", "noop", "synth_2_down_13")
    BY DEF kdInputMachine, Row, InputClass
  <2> QED  BY <1>7, <2>1 DEF RowIs
<1>8. CASE s = "synth_2_down_3"
  <2>1. /\ kdInputMachine["synth_2_down_3"]["motion"] = To("deliver", "noop", "synth_2_down_3")
        /\ kdInputMachine["synth_2_down_3"]["outside_box"] = To("deliver", "noop", "synth_2_down_3")
        /\ kdInputMachine["synth_2_down_3"]["keyboard"] = To("noop", "noop", "synth_2_down_3")
        /\ kdInputMachine["synth_2_down_3"]["timeout"] = To("noop", "noop", "synth_2_down_3")
    BY DEF kdInputMachine, Row, InputClass
  <2> QED  BY <1>8, <2>1 DEF RowIs
<1>9. CASE s = "synth_2_down_1"
  <2>1. /\ kdInputMachine["synth_2_down_1"]["motion"] = To("deliver", "noop", "synth_2_down_1")
        /\ kdInputMachine["synth_2_down_1"]["outside_box"] = To("deliver", "noop", "synth_2_down_1")
        /\ kdInputMachine["synth_2_down_1"]["keyboard"] = To("noop", "noop", "synth_2_down_1")
        /\ kdInputMachine["synth_2_down_1"]["timeout"] = To("noop", "noop", "synth_2_down_1")
    BY DEF kdInputMachine, Row, InputClass
  <2> QED  BY <1>9, <2>1 DEF RowIs
<1> QED  BY <1>1, <1>2, <1>3, <1>4, <1>5, <1>6, <1>7, <1>8, <1>9 DEF State

LEMMA PendRows ==
    /\ RowIs("button_1_pend", "outside_box", "release", "deliver", "button_1_down")
    /\ RowIs("button_3_pend", "outside_box", "release", "deliver", "button_3_down")
    /\ RowIs("button_1_pend", "keyboard", "noop", "noop", "button_1_down")
    /\ RowIs("button_3_pend", "keyboard", "release", "noop", "button_3_down")
    /\ RowIs("button_1_pend", "timeout", "release", "noop", "button_1_down")
    /\ RowIs("button_3_pend", "timeout", "release", "noop", "button_3_down")
  BY DEF RowIs, kdInputMachine, Row, PendRow, To, InputClass

\* What is held back is reported, without any other event.
LEMMA ReleaseStep ==
    ASSUME NEW m, NEW B \in SUBSET (1..5), NEW late \in BOOLEAN, NEW p \in BOOLEAN, NEW c,
           Good(m, B, late, p), m.mouseState \in Pend,
           NEW a2 \in {"noop", "deliver"},
           RowIs(m.mouseState, c, "release", a2,
                 IF m.mouseState = "button_1_pend" THEN "button_1_down" ELSE "button_3_down")
    PROVE  Good(KdRunMouseMachine(m, c, NoButton), B, FALSE, p)
<1> DEFINE r == m.reported
           h == m.heldEvent
           w == m.timeoutPending
           x == m.matched /\ h \notin r
           n == KdRunMouseMachine(m, c, NoButton)
<1>1. /\ m \in Machine
      /\ Fits(m.mouseState, r, m.matched, h, w, B, late, p)
      /\ r \in SUBSET (1..5) /\ w \in BOOLEAN /\ m.matched \in BOOLEAN
  BY DEF Good, Machine
<1>2. CASE m.mouseState = "button_1_pend"
  <2>1. h \in 1..5 /\ "button_1_down" \in State
    BY <1>1, <1>2 DEF Fits, State
  <2>2. Result(n, "button_1_down", r \union {h}, x, h, FALSE)
    BY <1>1, <1>2, <2>1, ReleaseRun
  <2>3. Fits("button_1_down", r \union {h}, x, h, FALSE, B, FALSE, p)
    BY <1>1, <1>2 DEF Fits, Reportable, Pend
  <2> QED  BY <2>2, <2>3, Glue, Zenon
<1>3. CASE m.mouseState = "button_3_pend"
  <2>1. h \in 1..5 /\ "button_3_down" \in State
    BY <1>1, <1>3 DEF Fits, State
  <2>2. Result(n, "button_3_down", r \union {h}, x, h, FALSE)
    BY <1>1, <1>3, <2>1, ReleaseRun
  <2>3. Fits("button_3_down", r \union {h}, x, h, FALSE, B, FALSE, p)
    BY <1>1, <1>3 DEF Fits, Reportable, Pend
  <2> QED  BY <2>2, <2>3, Glue, Zenon
<1> QED  BY <1>2, <1>3 DEF Pend

\* Nothing is, and the state stays.
LEMMA QuietStep ==
    ASSUME NEW m, NEW B \in SUBSET (1..5), NEW late \in BOOLEAN, NEW p \in BOOLEAN, NEW c,
           Good(m, B, late, p), NEW a1 \in {"noop", "deliver"},
           RowIs(m.mouseState, c, a1, "noop", m.mouseState)
    PROVE  Good(KdRunMouseMachine(m, c, NoButton), B, late, p)
<1>1. m \in Machine /\ m.mouseState \in State
  BY DEF Good, Machine
<1>2. Fits(m.mouseState, m.reported, m.matched, m.heldEvent, m.timeoutPending, B, late, p)
  BY DEF Good
<1>3. Result(KdRunMouseMachine(m, c, NoButton), m.mouseState, m.reported, m.matched,
             m.heldEvent, m.timeoutPending)
  BY <1>1, QuietRun
<1> QED  BY <1>2, <1>3, Glue, Zenon

\* Good is monotone in the moment and in the history.
LEMMA Weaken ==
    ASSUME NEW m, NEW B, NEW late, NEW p, NEW late2, NEW p2, Good(m, B, late, p),
           late => late2, p2 => p
    PROVE  Good(m, B, late2, p2)
  BY DEF Good, Fits

LEMMA MotionStep ==
    ASSUME NEW m, NEW B \in SUBSET (1..5), NEW late \in BOOLEAN, NEW p \in BOOLEAN,
           NEW outside, Good(m, B, late, p)
    PROVE  Good(Motion(m, outside), B, late, p)
<1>1. m.mouseState \in State
  BY DEF Good, Machine
<1>2. Good(KdRunMouseMachine(m, "motion", NoButton), B, late, p)
  BY <1>1, OtherRows, QuietStep
<1>3. Good(KdRunMouseMachine(m, "outside_box", NoButton), B, late, p)
  <2>1. CASE m.mouseState \notin Pend
    BY <1>1, <2>1, OtherRows, QuietStep
  <2>2. CASE m.mouseState \in Pend
    <3>1. Good(KdRunMouseMachine(m, "outside_box", NoButton), B, FALSE, p)
      BY <2>2, PendRows, ReleaseStep DEF Pend
    <3> QED  BY <3>1, Weaken
  <2> QED  BY <2>1, <2>2
<1> QED  BY <1>2, <1>3 DEF Motion

LEMMA KeyStep ==
    ASSUME NEW m, NEW B \in SUBSET (1..5), NEW late \in BOOLEAN, NEW p \in BOOLEAN,
           Good(m, B, late, p)
    PROVE  Good(KdRunMouseMachine(m, "keyboard", NoButton), B, late, FALSE)
<1> DEFINE n == KdRunMouseMachine(m, "keyboard", NoButton)
<1>1. m \in Machine /\ m.mouseState \in State
  BY DEF Good, Machine
<1>2. CASE m.mouseState \notin Pend
  <2>1. Good(n, B, late, p)
    BY <1>1, <1>2, OtherRows, QuietStep
  <2> QED  BY <2>1, Weaken
<1>3. CASE m.mouseState = "button_1_pend"
  <2>1. Result(n, "button_1_down", m.reported, m.matched, m.heldEvent, m.timeoutPending)
    BY <1>1, <1>3, PendRows, QuietRun DEF State
  <2>2. Fits("button_1_down", m.reported, m.matched, m.heldEvent, m.timeoutPending, B, late, FALSE)
    BY <1>3 DEF Good, Fits, Reportable, Pend
  <2> QED  BY <2>1, <2>2, Glue, Zenon
<1>4. CASE m.mouseState = "button_3_pend"
  <2>1. Good(n, B, FALSE, p)
    BY <1>4, PendRows, ReleaseStep DEF Pend
  <2> QED  BY <2>1, Weaken
<1> QED  BY <1>2, <1>3, <1>4 DEF Pend

\* The timeout that the server passes on ends the moment it was late.
LEMMA TimeoutStep ==
    ASSUME NEW m, NEW B \in SUBSET (1..5), NEW late \in BOOLEAN, NEW p \in BOOLEAN,
           Good(m, B, late, p)
    PROVE  Good(KdRunMouseMachine(m, "timeout", NoButton), B, FALSE, p)
<1> DEFINE n == KdRunMouseMachine(m, "timeout", NoButton)
<1>1. m.mouseState \in State
  BY DEF Good, Machine
<1>2. CASE m.mouseState \notin Pend
  <2>1. Good(m, B, FALSE, p)
    BY <1>2 DEF Good, Fits
  <2> QED  BY <1>1, <1>2, <2>1, OtherRows, QuietStep
<1>3. CASE m.mouseState \in Pend
  BY <1>3, PendRows, ReleaseStep DEF Pend
<1> QED  BY <1>2, <1>3

\* The machine does not touch the history `plain`.
Keeps(n, m) == DOMAIN n = DOMAIN m /\ n.plain = m.plain

Action == {"noop", "hold", "setto", "deliver", "release", "clearto", "gen_down_2", "gen_up_2"}

Entry == [actions : Action \X Action, nextState : State]

\* The table has a row for every state and an entry for every class.
LEMMA Entries ==
    ASSUME NEW s \in State
    PROVE  kdInputMachine[s] \in [InputClass -> Entry]
<1>1. ASSUME NEW a1 \in Action, NEW a2 \in Action, NEW t \in State
      PROVE  To(a1, a2, t) \in Entry
  BY DEF To, Entry
<1>2. Row(s) \in [InputClass -> Entry]
  BY <1>1 DEF Row, Action
<1>3. ASSUME NEW t \in State
      PROVE  PendRow(s, t) \in [InputClass -> Entry]
  BY <1>1 DEF PendRow, Action, InputClass
<1>4. CASE s = "start"
  BY <1>1, <1>2, <1>4 DEF kdInputMachine, Action, State
<1>5. CASE s = "button_1_pend"
  BY <1>1, <1>3, <1>5 DEF kdInputMachine, Action, State
<1>6. CASE s = "button_1_down"
  BY <1>1, <1>2, <1>6 DEF kdInputMachine, Action, State
<1>7. CASE s = "button_2_down"
  BY <1>1, <1>2, <1>7 DEF kdInputMachine, Action, State
<1>8. CASE s = "button_3_pend"
  BY <1>1, <1>3, <1>8 DEF kdInputMachine, Action, State
<1>9. CASE s = "button_3_down"
  BY <1>1, <1>2, <1>9 DEF kdInputMachine, Action, State
<1>10. CASE s = "synth_2_down_13"
  BY <1>1, <1>10 DEF kdInputMachine, Action, State, InputClass
<1>11. CASE s = "synth_2_down_3"
  BY <1>1, <1>2, <1>11 DEF kdInputMachine, Action, State
<1>12. CASE s = "synth_2_down_1"
  BY <1>1, <1>2, <1>12 DEF kdInputMachine, Action, State
<1> QED  BY <1>4, <1>5, <1>6, <1>7, <1>8, <1>9, <1>10, <1>11, <1>12 DEF State

LEMMA QueueKeeps ==
    ASSUME NEW m, "plain" \in DOMAIN m, NEW ev
    PROVE  Keeps(KdQueueEvent(m, ev), m)
  BY DEF Keeps, KdQueueEvent

LEMMA DoKeeps ==
    ASSUME NEW m, "plain" \in DOMAIN m, NEW a \in Action, NEW ev
    PROVE  Keeps(Do(m, a, ev), m)
<1> DEFINE k == [m EXCEPT !.eventHeld = FALSE, !.timeoutPending = FALSE]
           q == [m EXCEPT !.eventHeld = FALSE]
<1>1. Keeps(k, m) /\ Keeps(q, m)
  BY DEF Keeps
<1>2. \A ev2 : Keeps(KdQueueEvent(k, ev2), k) /\ Keeps(KdQueueEvent(q, ev2), q)
  BY <1>1, QueueKeeps DEF Keeps
<1>3. CASE a = "noop"
  BY <1>3 DEF Do, Keeps
<1>4. CASE a = "hold"
  BY <1>4 DEF Do, Keeps
<1>5. CASE a = "setto"
  BY <1>5 DEF Do, Keeps
<1>6. CASE a = "deliver"
  BY <1>6, QueueKeeps DEF Do
<1>7. CASE a = "release"
  <2>1. Do(m, a, ev) = KdQueueEvent(k, Press(m.heldEvent))
    BY <1>7 DEF Do
  <2> HIDE DEF k
  <2> QED  BY <1>1, <1>2, <2>1 DEF Keeps
<1>8. CASE a = "clearto"
  BY <1>8 DEF Do, Keeps
<1>9. CASE a = "gen_down_2"
  <2>1. Do(m, a, ev) = KdQueueEvent(q, Press(2))
    BY <1>9 DEF Do
  <2> HIDE DEF q
  <2> QED  BY <1>1, <1>2, <2>1 DEF Keeps
<1>10. CASE a = "gen_up_2"
  BY <1>10, QueueKeeps DEF Do, GenUp2
<1> QED
  BY <1>3, <1>4, <1>5, <1>6, <1>7, <1>8, <1>9, <1>10 DEF Action

LEMMA PlainKept ==
    ASSUME NEW m \in Machine, NEW c \in InputClass, NEW ev
    PROVE  KdRunMouseMachine(m, c, ev).plain = m.plain
<1>1. m.mouseState \in State /\ "plain" \in DOMAIN m
  BY DEF Machine
<1> DEFINE e == kdInputMachine[m.mouseState][c]
           a1 == e.actions[1]
           a2 == e.actions[2]
<1>2. a1 \in Action /\ a2 \in Action
  <2>1. e \in Entry
    BY <1>1, Entries
  <2> HIDE DEF e
  <2> QED  BY <2>1 DEF Entry
<1> DEFINE n == Do(m, a1, ev)
           k == Do(n, a2, ev)
<1>3. Keeps(n, m)
  <2> HIDE DEF a1
  <2> QED  BY <1>1, <1>2, DoKeeps
<1>4. Keeps(k, n)
  <2>1. "plain" \in DOMAIN n
    BY <1>1, <1>3 DEF Keeps
  <2> HIDE DEF n, a2
  <2> QED  BY <1>2, <2>1, DoKeeps
<1>5. KdRunMouseMachine(m, c, ev) = [k EXCEPT !.mouseState = e.nextState]
  BY Zenon DEF KdRunMouseMachine
<1> HIDE DEF n, k
<1> QED  BY <1>1, <1>3, <1>4, <1>5 DEF Keeps

-----------------------------------------------------------------------------
\* A report of the mouse: the motion, then its buttons one after the other.
LEMMA MotionKept ==
    ASSUME NEW m \in Machine, NEW outside
    PROVE  Motion(m, outside).plain = m.plain
  BY PlainKept DEF Motion, InputClass

LEMMA ButtonKept ==
    ASSUME NEW m \in Machine, NEW b \in 1..5, NEW buttons
    PROVE  Button(m, b, buttons).plain = m.plain
<1>1. ASSUME NEW d \in BOOLEAN
      PROVE  KdRunMouseMachine(m, KdClassifyInput(Ev(b, d)), Ev(b, d)).plain = m.plain
  <2>1. Class(b, d) \in InputClass
    BY Classes DEF InputClass
  <2> QED  BY <2>1, PlainKept DEF Class
<1>2. CASE b \in buttons
  BY <1>2, <1>1 DEF Button, Press, Ev
<1>3. CASE b \notin buttons
  BY <1>3, <1>1 DEF Button, Release, Ev
<1> QED  BY <1>2, <1>3

LEMMA ButtonCall ==
    ASSUME NEW m, NEW B \in SUBSET (1..5), NEW b \in 1..5, NEW late \in BOOLEAN,
           NEW p \in BOOLEAN, NEW buttons, Good(m, B, late, p),
           b \in B <=> b \in buttonState, p => 2 \notin buttons
    PROVE  Good(Button(m, b, buttons), After(B, b, b \in buttons), late, p)
<1> DEFINE d == b \in buttons
<1>1. CASE d <=> b \in B
  <2>1. Button(m, b, buttons) = m
    BY <1>1 DEF Button
  <2>2. After(B, b, d) = B
    BY <1>1 DEF After
  <2> QED  BY <2>1, <2>2
<1>2. CASE ~(d <=> b \in B)
  <2>1. Button(m, b, buttons) = Run(m, b, d)
    <3>1. CASE b \in buttons
      <4>1. Press(b) = Ev(b, d)
        BY <3>1 DEF Press, Ev
      <4> QED  BY <1>2, <3>1, <4>1 DEF Button, Run, Class
    <3>2. CASE b \notin buttons
      <4>1. Release(b) = Ev(b, d)
        <5>1. d = FALSE
          BY <3>2
        <5> QED  BY <5>1 DEF Release, Ev
      <4> QED  BY <1>2, <3>2, <4>1 DEF Button, Run, Class
    <3> QED  BY <3>1, <3>2
  <2>2. Change(B, b, d, p)
    <3>1. p => 2 \notin B
      BY DEF Good, Fits
    <3> QED  BY <1>2, <3>1 DEF Change
  <2>3. d \in BOOLEAN
    OBVIOUS
  <2> HIDE DEF d
  <2>4. Good(Run(m, b, d), After(B, b, d), late, p)
    BY <2>2, <2>3, ButtonStep
  <2>5. Good(Button(m, b, buttons), After(B, b, d), late, p)
    BY <2>1, <2>4
  <2> QED  BY <2>5 DEF d
<1> QED  BY <1>1, <1>2

\* The buttons that the machine has been told of, up to k.
Told(k, buttons) == {b \in 1..5 : IF b <= k THEN b \in buttons ELSE b \in buttonState}

LEMMA ToldEnds ==
    ASSUME NEW buttons \in SUBSET (1..5), buttonState \in SUBSET (1..5)
    PROVE  Told(0, buttons) = buttonState /\ Told(5, buttons) = buttons
<1>1. \A b \in 1..5 : ~(b <= 0) /\ b <= 5
  OBVIOUS
<1>2. Told(0, buttons) = {b \in 1..5 : b \in buttonState}
  BY <1>1 DEF Told
<1>3. Told(5, buttons) = {b \in 1..5 : b \in buttons}
  BY <1>1 DEF Told
<1> QED  BY <1>2, <1>3, Zenon

LEMMA ToldStep ==
    ASSUME NEW k \in 0..4, NEW buttons, NEW m, NEW late \in BOOLEAN, NEW p \in BOOLEAN,
           Good(m, Told(k, buttons), late, p), p => 2 \notin buttons
    PROVE  /\ Good(Button(m, k + 1, buttons), Told(k + 1, buttons), late, p)
           /\ Button(m, k + 1, buttons).plain = m.plain
<1>1. m \in Machine /\ k + 1 \in 1..5
  BY DEF Good
<1>2. /\ Told(k, buttons) \in SUBSET (1..5)
      /\ k + 1 \in Told(k, buttons) <=> k + 1 \in buttonState
  BY DEF Told
<1>3. Told(k + 1, buttons) = After(Told(k, buttons), k + 1, k + 1 \in buttons)
  BY DEF Told, After
<1>4. Good(Button(m, k + 1, buttons), After(Told(k, buttons), k + 1, k + 1 \in buttons), late, p)
  BY <1>1, <1>2, ButtonCall
<1> QED  BY <1>1, <1>3, <1>4, ButtonKept

LEMMA ReportedStep ==
    ASSUME NEW outside, NEW buttons \in SUBSET (1..5), NEW late \in BOOLEAN, NEW p \in BOOLEAN,
           buttonState \in SUBSET (1..5), Good(mi, buttonState, late, p), p => 2 \notin buttons
    PROVE  /\ Good(Reported(outside, buttons), buttons, late, p)
           /\ Reported(outside, buttons).plain = mi.plain
<1> DEFINE m0 == Motion(mi, outside)
           m1 == Button(m0, 1, buttons)
           m2 == Button(m1, 2, buttons)
           m3 == Button(m2, 3, buttons)
           m4 == Button(m3, 4, buttons)
           m5 == Button(m4, 5, buttons)
<1>1. Told(0, buttons) = buttonState /\ Told(5, buttons) = buttons
  BY ToldEnds, Zenon
<1>2. Good(m0, Told(0, buttons), late, p) /\ m0.plain = mi.plain
  <2>1. mi \in Machine
    BY DEF Good
  <2> QED  BY <1>1, <2>1, MotionStep, MotionKept
<1> HIDE DEF m0
<1>3. Good(m1, Told(1, buttons), late, p) /\ m1.plain = m0.plain
  <2>1. 0 \in 0..4 /\ 0 + 1 = 1
    OBVIOUS
  <2> QED  BY <1>2, <2>1, ToldStep
<1> HIDE DEF m1
<1>4. Good(m2, Told(2, buttons), late, p) /\ m2.plain = m1.plain
  <2>1. 1 \in 0..4 /\ 1 + 1 = 2
    OBVIOUS
  <2> QED  BY <1>3, <2>1, ToldStep
<1> HIDE DEF m2
<1>5. Good(m3, Told(3, buttons), late, p) /\ m3.plain = m2.plain
  <2>1. 2 \in 0..4 /\ 2 + 1 = 3
    OBVIOUS
  <2> QED  BY <1>4, <2>1, ToldStep
<1> HIDE DEF m3
<1>6. Good(m4, Told(4, buttons), late, p) /\ m4.plain = m3.plain
  <2>1. 3 \in 0..4 /\ 3 + 1 = 4
    OBVIOUS
  <2> QED  BY <1>5, <2>1, ToldStep
<1> HIDE DEF m4
<1>7. Good(m5, Told(5, buttons), late, p) /\ m5.plain = m4.plain
  <2>1. 4 \in 0..4 /\ 4 + 1 = 5
    OBVIOUS
  <2> QED  BY <1>6, <2>1, ToldStep
<1>8. Reported(outside, buttons) = m5
  BY DEF Reported, m4, m3, m2, m1, m0
<1> HIDE DEF m5
<1> QED  BY <1>1, <1>2, <1>3, <1>4, <1>5, <1>6, <1>7, <1>8

-----------------------------------------------------------------------------
(***************************************************************************)
(* The inductive invariant.                                                *)
(***************************************************************************)
IInv ==
    /\ Good(mi, buttonState, pc = "receive", mi.plain)
    /\ buttonState \in SUBSET (1..5)

\* A change of the fields that Good says nothing of.
LEMMA SetPlain ==
    ASSUME NEW m, NEW B, NEW late, NEW p, Good(m, B, late, p), NEW x \in BOOLEAN
    PROVE  Good([m EXCEPT !.plain = x], B, late, p)
  BY DEF Good, Machine

LEMMA InitIInv == Init => IInv
<1> SUFFICES ASSUME Init PROVE IInv
  OBVIOUS
<1>1. mi \in Machine
  BY DEF Init, Machine, State
<1>2. Fits("start", {}, TRUE, 0, FALSE, {}, pc = "receive", TRUE)
  BY DEF Fits, Reportable, Pend
<1> QED  BY <1>1, <1>2 DEF Init, IInv, Good

LEMMA MouseIInv ==
    ASSUME IInv, NEW outside, NEW buttons \in SUBSET Buttons,
           KdEnqueueMouseEvent(outside, buttons)
    PROVE  IInv'
<1> DEFINE late == pc = "receive"
           p == mi.plain /\ 2 \notin buttons
           m == Reported(outside, buttons)
<1>1. buttons \in SUBSET (1..5)
  BY EmulationAssumption
<1>2. mi \in Machine /\ mi.plain \in BOOLEAN /\ buttonState \in SUBSET (1..5)
  BY DEF IInv, Good, Machine
<1>3. Good(mi, buttonState, late, p)
  BY Weaken DEF IInv
<1>4. late \in BOOLEAN /\ p \in BOOLEAN /\ (p => 2 \notin buttons)
  BY <1>2
<1>5. /\ mi' = [m EXCEPT !.plain = @ /\ 2 \notin buttons]
      /\ buttonState' = buttons
      /\ (pc = "receive") = (pc' = "receive")
  BY DEF KdEnqueueMouseEvent, Interrupt
<1>6. Good(m, buttons, late, p) /\ m.plain = mi.plain
  <2> HIDE DEF late, p
  <2> QED  BY <1>1, <1>2, <1>3, <1>4, ReportedStep
<1> HIDE DEF m
<1>7. mi' = [m EXCEPT !.plain = p]
  BY <1>5, <1>6
<1>8. mi'.plain = p
  BY <1>6, <1>7 DEF Good, Machine
<1>9. Good(mi', buttons, late, p)
  <2> HIDE DEF p, late
  <2> QED  BY <1>4, <1>6, <1>7, SetPlain
<1>10. Good(mi', buttonState', pc' = "receive", mi'.plain)
  BY <1>5, <1>8, <1>9
<1> QED  BY <1>1, <1>5, <1>10 DEF IInv

LEMMA KeyIInv ==
    ASSUME IInv, KdHandleKeyboardEvent
    PROVE  IInv'
<1> DEFINE late == pc = "receive"
           m == KdRunMouseMachine(mi, "keyboard", NoButton)
<1>1. mi.plain \in BOOLEAN /\ buttonState \in SUBSET (1..5) /\ Good(mi, buttonState, late, mi.plain)
  BY DEF IInv, Good, Machine
<1>2. Good(m, buttonState, late, FALSE)
  BY <1>1, KeyStep
<1>3. /\ mi' = [m EXCEPT !.plain = FALSE] /\ buttonState' = buttonState
      /\ (pc = "receive") = (pc' = "receive")
  BY DEF KdHandleKeyboardEvent, Interrupt
<1> HIDE DEF m
<1>4. Good(mi', buttonState, late, FALSE)
  BY <1>2, <1>3, SetPlain
<1>5. mi'.plain = FALSE
  BY <1>2, <1>3 DEF Good, Machine
<1> QED  BY <1>1, <1>3, <1>4, <1>5 DEF IInv

LEMMA ServerIInv ==
    ASSUME IInv, Server \/ Wake \/ Expire
    PROVE  IInv'
<1> USE DEF IInv
<1>1. CASE KdBlockHandler \/ Select \/ Wake \/ Pending \/ Compare
  BY <1>1 DEF KdBlockHandler, Select, Wake, Pending, Compare, Good, Fits
<1>2. CASE Expire
  <2>1. mi' = [mi EXCEPT !.due = TRUE] /\ buttonState' = buttonState /\ pc' = pc
    BY <1>2 DEF Expire
  <2>2. mi'.plain = mi.plain
    BY <2>1 DEF Good, Machine
  <2>3. Good(mi', buttonState, pc = "receive", mi.plain)
    BY <2>1 DEF Good, Machine
  <2> QED  BY <2>1, <2>2, <2>3
<1>3. CASE Clear
  <2>1. mi' = [mi EXCEPT !.timeoutPending = FALSE] /\ buttonState' = buttonState /\ pc' = "receive"
    BY <1>3 DEF Clear
  <2>2. mi'.plain = mi.plain
    BY <2>1 DEF Good, Machine
  <2>3. Good(mi', buttonState, TRUE, mi.plain)
    BY <2>1 DEF Good, Machine, Fits
  <2> QED  BY <2>1, <2>2, <2>3
<1>4. CASE KdReceiveTimeout
  <2>1. /\ mi' = KdRunMouseMachine(mi, "timeout", NoButton) /\ buttonState' = buttonState
        /\ pc' = "run" /\ pc = "receive"
    BY <1>4 DEF KdReceiveTimeout
  <2>2. mi \in Machine /\ mi.plain \in BOOLEAN
    BY DEF Good, Machine
  <2>3. Good(mi', buttonState, FALSE, mi.plain)
    BY <2>1, <2>2, TimeoutStep
  <2>4. mi'.plain = mi.plain
    BY <2>1, <2>2, PlainKept DEF InputClass
  <2> QED  BY <2>1, <2>3, <2>4
<1> QED  BY <1>1, <1>2, <1>3, <1>4 DEF Server

LEMMA NextIInv == IInv /\ [Next]_vars => IInv'
<1> SUFFICES ASSUME IInv, [Next]_vars PROVE IInv'
  OBVIOUS
<1>1. CASE Server \/ Wake \/ Expire
  BY <1>1, ServerIInv
<1>2. CASE Mouse
  BY <1>2, MouseIInv DEF Mouse
<1>3. CASE KdHandleKeyboardEvent
  BY <1>3, KeyIInv
<1>4. CASE UNCHANGED vars
  BY <1>4 DEF vars, IInv
<1> QED  BY <1>1, <1>2, <1>3, <1>4 DEF Next

LEMMA Invariance == Spec => []IInv
<1>1. Init => IInv
  BY InitIInv
<1>2. IInv /\ [Next]_vars => IInv'
  BY NextIInv
<1> QED  BY <1>1, <1>2, PTL DEF Spec

\* For every set of buttons, with or without keys: when all buttons of the mouse
\* are up, none is down for the rest of the server.
THEOREM NeverStuck == Spec => []NoStuckButton
<1>1. IInv => NoStuckButton
  BY DEF IInv, Good, Fits, Reportable, NoStuckButton, Machine, State
<1> QED  BY <1>1, Invariance, PTL

\* As long as neither a middle button nor a key was pressed, presses and
\* releases that are reported match, whenever timeout and signal meet.
THEOREM AlwaysMatched == Spec => []MatchedEvents
<1>1. IInv => MatchedEvents
  BY DEF IInv, Good, Fits, MatchedEvents
<1> QED  BY <1>1, Invariance, PTL

\* A press that is held back is always going to be timed out.
THEOREM HeldStaysPending == Spec => []HeldIsPending
<1>1. IInv => HeldIsPending
  BY DEF IInv, Good, Fits, HeldIsPending, Holding, Pend
<1> QED  BY <1>1, Invariance, PTL
=============================================================================
