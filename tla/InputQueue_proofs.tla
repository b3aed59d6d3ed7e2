------------------------- MODULE InputQueue_proofs -------------------------
(***************************************************************************)
(* Proofs about the input event queue, for every size of the queue, any    *)
(* number of screens and however many events come in.                      *)
(*                                                                         *)
(* IInv says of the slots in use that their numbers count the keys and     *)
(* buttons, from the one that left the queue last (InHand) to the one      *)
(* accepted last, and where the reader is that its slot is in use and that *)
(* its copy is still of the event in that slot.  There is one lemma for    *)
(* what an enqueued event does to the slots, and one for the advance of    *)
(* the head; the actions are composed of these.                            *)
(***************************************************************************)
EXTENDS InputQueue, TLAPS

-----------------------------------------------------------------------------
(***************************************************************************)
(* The inductive invariant.                                                *)
(***************************************************************************)
\* Is slot i in use, with the head at h and the tail at t?
Used(h, t, i) == IF h <= t THEN h <= i /\ i < t ELSE h <= i \/ i < t

K(e) == IF e.kind = "key" THEN 1 ELSE 0

\* The numbers of the events in the queue count on from o, that of the last
\* event that has left it, to a, the number of keys accepted.
Counted(h, t, ev, o, a) ==
    /\ h = t => a = o
    /\ h # t => ev[h].number = o + K(ev[h]) /\ ev[Pred(t)].number = a
    /\ \A i \in Slots : Used(h, t, i) => ev[i].number <= a
    /\ \A i \in Slots : Used(h, t, i) /\ Used(h, t, Succ(i)) =>
                          ev[Succ(i)].number = ev[i].number + K(ev[Succ(i)])

\* What was enqueued last may be replaced only if it is a motion.
LastIs(h, t, ev, motion) == motion /\ h # t => ev[Pred(t)].kind = "motion"

\* The number of the last event that has left the queue: one that is about to
\* be delivered has.
InHand == IF pc = "deliver" THEN xe.number ELSE taken

Reading ==
    /\ pc \in {"compare", "switch", "place", "skip", "copy", "half", "advance"} => head # tail
    /\ pc \in {"switch", "place", "skip"} => NumScreens > 1
    /\ pc \in {"half", "advance"} => xe.kind = here.kind /\ xe.number = here.number
    /\ pc = "deliver" => xe.number = taken + K(xe)
    /\ delivered <= taken /\ InHand <= accepted

IInv ==
    /\ TypeOK /\ Reading
    /\ Counted(head, tail, events, InHand, accepted)
    /\ LastIs(head, tail, events, lastMotion)

\* The times of the events in the queue grow, up to that of the last one.
Sorted(h, t, ev, last) ==
    /\ \A i \in Slots : Used(h, t, i) => ev[i].time <= last
    /\ \A i \in Slots : Used(h, t, i) /\ Used(h, t, Succ(i)) => ev[i].time <= ev[Succ(i)].time

\* The reader's copy may be older than what is in its slot now.
Stamps ==
    /\ Sorted(head, tail, events, lastTime)
    /\ pc \in {"half", "advance"} => xe.time <= here.time
    /\ pc = "deliver" => xe.time <= lastTime /\ (head # tail => xe.time <= here.time)

-----------------------------------------------------------------------------
(***************************************************************************)
(* The ring of slots.                                                      *)
(***************************************************************************)
LEMMA Neighbours ==
    ASSUME NEW i \in Slots
    PROVE  /\ Succ(i) \in Slots /\ Pred(i) \in Slots
           /\ Pred(Succ(i)) = i /\ Succ(Pred(i)) = i
           /\ Succ(i) # i /\ Pred(i) # i
  BY QueueAssumption DEF Slots, Succ, Pred

LEMMA UsedSlots ==
    ASSUME NEW h \in Slots, NEW t \in Slots
    PROVE  /\ ~Used(h, t, t)
           /\ h # t => Used(h, t, h) /\ Used(h, t, Pred(t))
           /\ \A i \in Slots : h = t => ~Used(h, t, i)
  BY QueueAssumption DEF Slots, Pred, Used

LEMMA UsedMore ==
    ASSUME NEW h \in Slots, NEW t \in Slots, Succ(t) # h, NEW i \in Slots
    PROVE  Used(h, Succ(t), i) <=> Used(h, t, i) \/ i = t
  BY QueueAssumption DEF Slots, Succ, Used

LEMMA UsedLess ==
    ASSUME NEW h \in Slots, NEW t \in Slots, h # t, NEW i \in Slots
    PROVE  Used(Succ(h), t, i) <=> Used(h, t, i) /\ i # h
  BY QueueAssumption DEF Slots, Succ, Used

\* The event after one in use is in use, unless that is the last one.
LEMMA UsedNext ==
    ASSUME NEW h \in Slots, NEW t \in Slots, NEW i \in Slots, Used(h, t, i)
    PROVE  i = Pred(t) \/ Used(h, t, Succ(i))
  BY QueueAssumption DEF Slots, Succ, Pred, Used

LEMMA InUse ==
    ASSUME NEW i \in Slots
    PROVE  InQueue(i) <=> Used(head, tail, i)
  BY DEF InQueue, Used

-----------------------------------------------------------------------------
(***************************************************************************)
(* What is done to the slots.                                              *)
(***************************************************************************)
LEMMA Numbers ==
    ASSUME NEW e \in Event
    PROVE  /\ e.number \in Nat /\ e.number \in 0..MaxKeys
           /\ e.kind \in {"motion", "key"} /\ e.time \in Times /\ e.time \in Nat
           /\ e.pos \in Positions /\ e.screen \in Screens
           /\ K(e) \in {0, 1} /\ (K(e) = 1 <=> e.kind = "key")
<1>1. /\ e.kind \in {"motion", "key"} /\ e.pos \in Positions /\ e.time \in Times
      /\ e.screen \in Screens /\ e.number \in 0..MaxKeys
  BY DEF Event
<1>2. e.number \in Nat
  BY <1>1, QueueAssumption
<1>3. e.time \in Nat
  BY <1>1, QueueAssumption
<1>4. K(e) \in {0, 1} /\ (K(e) = 1 <=> e.kind = "key")
  BY DEF K
<1> QED  BY <1>1, <1>2, <1>3, <1>4

\* An event is added.
LEMMA CountedMore ==
    ASSUME NEW h \in Slots, NEW t \in Slots, Succ(t) # h,
           NEW ev \in [Slots -> Event], NEW o \in Nat, NEW a \in Nat, Counted(h, t, ev, o, a),
           NEW e \in Event, e.number = a + K(e)
    PROVE  Counted(h, Succ(t), [ev EXCEPT ![t] = e], o, a + K(e))
<1> DEFINE w == [ev EXCEPT ![t] = e]
           u == Succ(t)
<1>1. /\ u \in Slots /\ Pred(u) = t /\ u # t /\ h # u
      /\ K(e) \in {0, 1}
      /\ \A i \in Slots : ev[i].number \in Nat /\ K(ev[i]) \in {0, 1}
  BY Neighbours, Numbers
<1>2. \A i \in Slots : w[i] = IF i = t THEN e ELSE ev[i]
  OBVIOUS
<1>3. \A i \in Slots : Used(h, u, i) <=> Used(h, t, i) \/ i = t
  BY UsedMore
<1>4. \A i \in Slots : Succ(i) \in Slots /\ Pred(Succ(i)) = i
  BY Neighbours
<1> HIDE DEF w, u
<1>5. w[h].number = o + K(w[h]) /\ w[t].number = a + K(e)
  BY <1>1, <1>2 DEF Counted
<1>6. \A i \in Slots : Used(h, u, i) => w[i].number <= a + K(e)
  BY <1>1, <1>2, <1>3 DEF Counted
<1>7. ASSUME NEW i \in Slots, Used(h, u, i), Used(h, u, Succ(i))
      PROVE  w[Succ(i)].number = w[i].number + K(w[Succ(i)])
  <2>1. i # t
    BY <1>3, <1>4, UsedSlots, <1>1, <1>7 DEF u
  <2>2. CASE Succ(i) = t
    <3>1. i = Pred(t) /\ h # t
      BY <1>3, <1>4, <1>7, <2>1, <2>2, UsedSlots
    <3> QED  BY <1>2, <2>1, <2>2, <3>1 DEF Counted
  <2>3. CASE Succ(i) # t
    <3>1. Used(h, t, i) /\ Used(h, t, Succ(i))
      BY <1>3, <1>4, <1>7, <2>1, <2>3
    <3> QED  BY <1>2, <1>4, <2>1, <2>3, <3>1 DEF Counted
  <2> QED  BY <2>2, <2>3
<1>8. Counted(h, u, w, o, a + K(e))
  BY <1>1, <1>5, <1>6, <1>7 DEF Counted
<1> QED  BY <1>8 DEF w, u

\* A motion replaces the last event, a motion.
LEMMA CountedReplaced ==
    ASSUME NEW h \in Slots, NEW t \in Slots, h # t,
           NEW ev \in [Slots -> Event], NEW o \in Nat, NEW a \in Nat, Counted(h, t, ev, o, a),
           ev[Pred(t)].kind = "motion", NEW e \in Event, e.kind = "motion", e.number = a
    PROVE  Counted(h, t, [ev EXCEPT ![Pred(t)] = e], o, a)
<1> DEFINE w == [ev EXCEPT ![Pred(t)] = e]
<1>1. \A i \in Slots : w[i] = IF i = Pred(t) THEN e ELSE ev[i]
  OBVIOUS
<1>2. \A i \in Slots : w[i].number = ev[i].number /\ K(w[i]) = K(ev[i])
  BY <1>1 DEF Counted, K
<1>3. \A i \in Slots : Succ(i) \in Slots
  BY Neighbours
<1>4. Pred(t) \in Slots
  BY Neighbours
<1> HIDE DEF w
<1>5. Counted(h, t, w, o, a)
  BY <1>2, <1>3, <1>4 DEF Counted
<1> QED  BY <1>5 DEF w

\* The head advances.
LEMMA CountedLess ==
    ASSUME NEW h \in Slots, NEW t \in Slots, h # t,
           NEW ev \in [Slots -> Event], NEW o \in Nat, NEW a \in Nat, Counted(h, t, ev, o, a)
    PROVE  Counted(Succ(h), t, ev, ev[h].number, a)
<1> DEFINE u == Succ(h)
<1>1. u \in Slots /\ Pred(u) = h
  BY Neighbours
<1>2. \A i \in Slots : Used(u, t, i) <=> Used(h, t, i) /\ i # h
  BY UsedLess
<1>3. \A i \in Slots : Succ(i) \in Slots
  BY Neighbours
<1>4. u # t => Used(u, t, u)
  BY <1>1, UsedSlots
<1>5. u = t => ev[h].number = a
  BY <1>1 DEF Counted
<1>6. u # t => ev[u].number = ev[h].number + K(ev[u])
  <2>1. Used(h, t, h)
    BY UsedSlots
  <2>2. u # t => Used(h, t, u)
    BY <1>1, <1>2, <1>4
  <2> QED  BY <2>1, <2>2 DEF Counted
<1> HIDE DEF u
<1>7. Counted(u, t, ev, ev[h].number, a)
  BY <1>1, <1>2, <1>3, <1>5, <1>6 DEF Counted
<1> QED  BY <1>7 DEF u

LEMMA SortedMore ==
    ASSUME NEW h \in Slots, NEW t \in Slots, Succ(t) # h,
           NEW ev \in [Slots -> Event], NEW last \in Nat, Sorted(h, t, ev, last),
           NEW e \in Event, last <= e.time
    PROVE  Sorted(h, Succ(t), [ev EXCEPT ![t] = e], e.time)
<1> DEFINE w == [ev EXCEPT ![t] = e]
           u == Succ(t)
<1>1. /\ u \in Slots /\ e.time \in Nat
      /\ \A i \in Slots : ev[i].time \in Nat
  BY Neighbours, Numbers
<1>2. \A i \in Slots : w[i] = IF i = t THEN e ELSE ev[i]
  OBVIOUS
<1>3. \A i \in Slots : Used(h, u, i) <=> Used(h, t, i) \/ i = t
  BY UsedMore
<1>4. \A i \in Slots : Succ(i) \in Slots
  BY Neighbours
<1>5. ~Used(h, u, u)
  BY <1>1, UsedSlots
<1>6. \A i \in Slots : Used(h, u, i) => w[i].time <= e.time
  BY <1>1, <1>2, <1>3 DEF Sorted
<1>7. ASSUME NEW i \in Slots, Used(h, u, i), Used(h, u, Succ(i))
      PROVE  w[i].time <= w[Succ(i)].time
  <2>1. i # t
    BY <1>5, <1>7
  <2>2. CASE Succ(i) = t
    BY <1>2, <1>6, <1>7, <2>2
  <2>3. CASE Succ(i) # t
    BY <1>2, <1>3, <1>4, <1>7, <2>1, <2>3 DEF Sorted
  <2> QED  BY <2>2, <2>3
<1> HIDE DEF w, u
<1>8. Sorted(h, u, w, e.time)
  BY <1>6, <1>7 DEF Sorted
<1> QED  BY <1>8 DEF w, u

LEMMA SortedReplaced ==
    ASSUME NEW h \in Slots, NEW t \in Slots,
           NEW ev \in [Slots -> Event], NEW last \in Nat, Sorted(h, t, ev, last),
           NEW e \in Event, last <= e.time
    PROVE  Sorted(h, t, [ev EXCEPT ![Pred(t)] = e], e.time)
<1> DEFINE w == [ev EXCEPT ![Pred(t)] = e]
<1>1. e.time \in Nat /\ \A i \in Slots : ev[i].time \in Nat
  BY Numbers
<1>2. \A i \in Slots : w[i] = IF i = Pred(t) THEN e ELSE ev[i]
  OBVIOUS
<1>3. \A i \in Slots : Succ(i) \in Slots /\ (Succ(i) = t <=> i = Pred(t))
  BY Neighbours
<1>4. ~Used(h, t, t)
  BY UsedSlots
<1>5. \A i \in Slots : Used(h, t, i) => w[i].time <= e.time
  BY <1>1, <1>2 DEF Sorted
<1>6. ASSUME NEW i \in Slots, Used(h, t, i), Used(h, t, Succ(i))
      PROVE  w[i].time <= w[Succ(i)].time
  <2>1. i # Pred(t)
    BY <1>3, <1>4, <1>6
  <2>2. w[i].time <= last /\ w[i].time <= ev[Succ(i)].time
    BY <1>2, <1>6, <2>1 DEF Sorted
  <2> QED  BY <1>1, <1>2, <1>3, <2>1, <2>2
<1> HIDE DEF w
<1>7. Sorted(h, t, w, e.time)
  BY <1>5, <1>6 DEF Sorted
<1> QED  BY <1>7 DEF w

LEMMA SortedLess ==
    ASSUME NEW h \in Slots, NEW t \in Slots, h # t,
           NEW ev \in [Slots -> Event], NEW last \in Nat, Sorted(h, t, ev, last)
    PROVE  /\ Sorted(Succ(h), t, ev, last)
           /\ ev[h].time <= last
           /\ Succ(h) # t => ev[h].time <= ev[Succ(h)].time
<1> DEFINE u == Succ(h)
<1>1. u \in Slots
  BY Neighbours
<1>2. \A i \in Slots : Used(u, t, i) <=> Used(h, t, i) /\ i # h
  BY UsedLess
<1>3. \A i \in Slots : Succ(i) \in Slots
  BY Neighbours
<1>4. u # t => Used(u, t, u)
  BY <1>1, UsedSlots
<1>5. Used(h, t, h)
  BY UsedSlots
<1> HIDE DEF u
<1>6. Sorted(u, t, ev, last) /\ ev[h].time <= last
  BY <1>2, <1>3, <1>5 DEF Sorted
<1>7. u # t => ev[h].time <= ev[u].time
  BY <1>1, <1>2, <1>4, <1>5 DEF Sorted, u
<1> QED  BY <1>6, <1>7 DEF u


-----------------------------------------------------------------------------
(***************************************************************************)
(* An event is enqueued, by the handler or by a change of screen, while    *)
(* the head of the queue stays where it is.                                *)
(***************************************************************************)
\* The types of what mieqEnqueue changes.
LEMMA EnqueueTypes ==
    ASSUME TypeOK, NEW kind \in {"motion", "key"}, NEW pos \in Positions, NEW time \in Times,
           enqScreen' \in Screens, kind = "key" => accepted < MaxKeys,
           Enqueue(kind, pos, time)
    PROVE  /\ tail' \in Slots /\ events' \in [Slots -> Event]
           /\ lastMotion' \in BOOLEAN /\ lastTime' \in Times /\ accepted' \in 0..MaxKeys
<1>1. tail \in Slots /\ Succ(tail) \in Slots /\ Pred(tail) \in Slots
  BY Neighbours DEF TypeOK
<1>2. ASSUME NEW slot \in Slots, Put(slot, kind, pos, time)
      PROVE  /\ events' \in [Slots -> Event]
             /\ lastMotion' \in BOOLEAN /\ lastTime' \in Times /\ accepted' \in 0..MaxKeys
  <2>1. lastTime' \in Times
    BY <1>2 DEF Put, Clamp, TypeOK
  <2>2. accepted' \in 0..MaxKeys
    BY <1>2, QueueAssumption DEF Put, TypeOK
  <2> DEFINE e == [kind |-> kind, pos |-> pos, time |-> lastTime',
                   screen |-> enqScreen', number |-> accepted']
  <2>3. e \in Event
    BY <2>1, <2>2 DEF Event
  <2>4. events' = [events EXCEPT ![slot] = e] /\ events \in [Slots -> Event]
    BY <1>2 DEF Put, TypeOK
  <2> HIDE DEF e
  <2>5. events' \in [Slots -> Event]
    BY <2>3, <2>4
  <2>6. lastMotion' \in BOOLEAN
    BY <1>2 DEF Put
  <2> QED  BY <2>1, <2>2, <2>5, <2>6
<1>3. CASE Replaces(kind) /\ Put(Pred(tail), kind, pos, time) /\ UNCHANGED tail
  BY <1>1, <1>2, <1>3
<1>4. CASE Put(tail, kind, pos, time) /\ tail' = Succ(tail)
  BY <1>1, <1>2, <1>4
<1>5. CASE UNCHANGED slotVars
  BY <1>5 DEF TypeOK, slotVars
<1> QED  BY <1>3, <1>4, <1>5 DEF Enqueue

\* The slots in use still count the keys, and the event at the head is still
\* of the same kind and number: at most it is a motion that a later one has
\* replaced.
LEMMA EnqueueSlots ==
    ASSUME IInv, NEW kind \in {"motion", "key"}, NEW pos \in Positions, NEW time \in Times,
           enqScreen' \in Screens, kind = "key" => accepted < MaxKeys,
           Enqueue(kind, pos, time)
    PROVE  /\ Counted(head, tail', events', InHand, accepted')
           /\ LastIs(head, tail', events', lastMotion')
           /\ accepted' \in {accepted, accepted + 1}
           /\ head # tail => /\ head # tail'
                             /\ events'[head].kind = events[head].kind
                             /\ events'[head].number = events[head].number
<1> DEFINE e == [kind |-> kind, pos |-> pos, time |-> lastTime',
                 screen |-> enqScreen', number |-> accepted']
<1>1. /\ head \in Slots /\ tail \in Slots /\ events \in [Slots -> Event]
      /\ accepted \in Nat /\ InHand \in Nat
      /\ Counted(head, tail, events, InHand, accepted)
      /\ LastIs(head, tail, events, lastMotion)
  <2>1. taken \in Nat /\ accepted \in Nat /\ xe \in Event
    BY QueueAssumption DEF IInv, TypeOK
  <2>2. InHand \in Nat
    BY <2>1, Numbers DEF InHand
  <2> QED  BY <2>1, <2>2 DEF IInv, TypeOK
<1>2. Pred(tail) \in Slots /\ Succ(tail) \in Slots /\ Pred(Succ(tail)) = tail
  BY <1>1, Neighbours
<1>3. ASSUME NEW slot \in Slots, Put(slot, kind, pos, time)
      PROVE  /\ e \in Event /\ e.kind = kind /\ e.number = accepted'
             /\ accepted' = accepted + K(e)
             /\ events' = [events EXCEPT ![slot] = e]
             /\ lastMotion' = (e.kind = "motion")
  <2>1. lastTime' \in Times /\ accepted' \in 0..MaxKeys
    BY <1>3, QueueAssumption DEF Put, Clamp, TypeOK, IInv
  <2>2. e \in Event
    BY <2>1 DEF Event
  <2>3. e.kind = kind /\ e.number = accepted'
    OBVIOUS
  <2>4. K(e) = IF kind = "key" THEN 1 ELSE 0
    BY <2>3 DEF K
  <2> QED  BY <1>3, <2>2, <2>3, <2>4 DEF Put
<1> HIDE DEF e
<1>4. CASE Replaces(kind) /\ Put(Pred(tail), kind, pos, time) /\ UNCHANGED tail
  <2>1. /\ e \in Event /\ e.kind = "motion" /\ e.number = accepted' /\ K(e) = 0
        /\ accepted' = accepted
        /\ events' = [events EXCEPT ![Pred(tail)] = e]
    BY <1>1, <1>2, <1>3, <1>4 DEF Replaces, K
  <2>2. head # tail /\ events[Pred(tail)].kind = "motion"
    BY <1>1, <1>4 DEF Replaces, LastIs
  <2>3. Counted(head, tail, [events EXCEPT ![Pred(tail)] = e], InHand, accepted)
    BY <1>1, <2>1, <2>2, CountedReplaced
  <2>4. Counted(head, tail', events', InHand, accepted')
    BY <2>1, <2>3, <1>4
  <2>5. LastIs(head, tail', events', lastMotion')
    BY <1>1, <1>2, <1>4, <2>1 DEF LastIs
  <2>6. events'[head].kind = events[head].kind
    BY <1>1, <2>1, <2>2
  <2>7. events[Pred(tail)].number = accepted
    BY <1>1, <2>2 DEF Counted
  <2>8. events'[head].number = events[head].number
    BY <1>1, <2>1, <2>7
  <2> QED  BY <1>4, <2>1, <2>2, <2>4, <2>5, <2>6, <2>8
<1>5. CASE Room /\ Put(tail, kind, pos, time) /\ tail' = Succ(tail)
  <2>1. /\ e \in Event /\ e.number = accepted' /\ accepted' = accepted + K(e)
        /\ events' = [events EXCEPT ![tail] = e]
        /\ lastMotion' = (e.kind = "motion")
    BY <1>1, <1>3, <1>5
  <2>2. Succ(tail) # head
    BY <1>5 DEF Room
  <2>3. Counted(head, Succ(tail), [events EXCEPT ![tail] = e], InHand, accepted + K(e))
    BY <1>1, <2>1, <2>2, CountedMore
  <2>4. Counted(head, tail', events', InHand, accepted')
    BY <2>1, <2>3, <1>5
  <2>5. LastIs(head, tail', events', lastMotion')
    BY <1>1, <1>2, <1>5, <2>1 DEF LastIs
  <2>6. head # tail => events'[head] = events[head]
    BY <1>1, <2>1
  <2>7. accepted' \in {accepted, accepted + 1}
    BY <2>1, <1>1, Numbers
  <2> QED  BY <1>5, <2>2, <2>4, <2>5, <2>6, <2>7
<1>6. CASE UNCHANGED slotVars
  BY <1>1, <1>6 DEF slotVars
<1> QED  BY <1>4, <1>5, <1>6 DEF Enqueue

\* ... and so the invariant, but for the types, holds after it, wherever the
\* reader is.
LEMMA EnqueueInv ==
    ASSUME IInv, NEW kind \in {"motion", "key"}, NEW pos \in Positions, NEW time \in Times,
           enqScreen' \in Screens, kind = "key" => accepted < MaxKeys,
           Enqueue(kind, pos, time),
           UNCHANGED <<head, xe, takenVars>>,
           pc' = pc \/ (pc = "newscreen" /\ pc' = "loop")
    PROVE  /\ Reading'
           /\ Counted(head, tail, events, InHand, accepted)'
           /\ LastIs(head, tail, events, lastMotion)'
<1>1. /\ Counted(head, tail', events', InHand, accepted')
      /\ LastIs(head, tail', events', lastMotion')
      /\ accepted' \in {accepted, accepted + 1}
      /\ head # tail => /\ head # tail'
                        /\ events'[head].kind = events[head].kind
                        /\ events'[head].number = events[head].number
  BY EnqueueSlots
<1>2. InHand' = InHand
  BY DEF InHand, takenVars
<1>3. InHand \in Nat /\ accepted \in Nat
  <2>1. taken \in Nat /\ accepted \in Nat /\ xe \in Event
    BY QueueAssumption DEF IInv, TypeOK
  <2> QED  BY <2>1, Numbers DEF InHand
<1>4. InHand <= accepted'
  BY <1>1, <1>3 DEF IInv, Reading
<1>5. head # tail => here'.kind = here.kind /\ here'.number = here.number
  BY <1>1 DEF here
<1>6. head' = head /\ xe' = xe /\ taken' = taken /\ delivered' = delivered
  BY DEF takenVars
<1>7. Reading'
  <2>1. CASE pc' = pc
    BY <2>1, <1>1, <1>2, <1>4, <1>5, <1>6 DEF IInv, Reading
  <2>2. CASE pc = "newscreen" /\ pc' = "loop"
    BY <2>2, <1>2, <1>4, <1>6 DEF IInv, Reading
  <2> QED  BY <2>1, <2>2
<1> QED  BY <1>1, <1>2, <1>6, <1>7

-----------------------------------------------------------------------------
(***************************************************************************)
(* The invariant is kept by every action.                                  *)
(***************************************************************************)
LEMMA InitInv == Init => IInv
<1> SUFFICES ASSUME Init PROVE IInv
  OBVIOUS
<1>1. /\ 0 \in Slots /\ 0 \in Positions /\ 0 \in Times /\ 1 \in Screens /\ 0 \in 0..MaxKeys
  BY QueueAssumption DEF Slots, Positions, Screens
<1>2. xe \in Event /\ events \in [Slots -> Event]
  BY <1>1 DEF Init, Event
<1>3. ptr \in Place /\ sprite \in Place /\ dix \in Place
  BY <1>1 DEF Init, Place
<1>4. TypeOK
  BY <1>1, <1>2, <1>3 DEF Init, TypeOK
<1>5. head = 0 /\ tail = 0 /\ InHand = 0 /\ accepted = 0
  BY DEF Init, InHand
<1>6. Counted(head, tail, events, InHand, accepted)
  BY <1>1, <1>5, UsedSlots DEF Counted
<1>7. Reading
  BY <1>5 DEF Reading, Init
<1>8. LastIs(head, tail, events, lastMotion)
  BY DEF Init, LastIs
<1> QED  BY <1>4, <1>6, <1>7, <1>8 DEF IInv

LEMMA KeyInv == ASSUME IInv, NEW t \in Times, Key(t) PROVE IInv'
<1>1. /\ enqScreen' \in Screens /\ ptr.pos \in Positions
      /\ accepted < MaxKeys /\ Enqueue("key", ptr.pos, t)
      /\ UNCHANGED <<head, xe, takenVars>> /\ pc' = pc
  BY DEF Key, IInv, TypeOK, Place, readerVars
<1>2. /\ tail' \in Slots /\ events' \in [Slots -> Event]
      /\ lastMotion' \in BOOLEAN /\ lastTime' \in Times /\ accepted' \in 0..MaxKeys
  BY <1>1, EnqueueTypes DEF IInv
<1>3. TypeOK'
  BY <1>1, <1>2 DEF Key, IInv, TypeOK, readerVars, takenVars
<1>4. /\ Reading'
      /\ Counted(head, tail, events, InHand, accepted)'
      /\ LastIs(head, tail, events, lastMotion)'
  BY <1>1, EnqueueInv
<1> QED  BY <1>3, <1>4 DEF IInv

LEMMA MotionInv == ASSUME IInv, NEW s \in Screens, NEW t \in Times, Motion(s, t) PROVE IInv'
<1>1. /\ enqScreen' \in Screens /\ moves' \in Positions
      /\ Enqueue("motion", moves', t)
      /\ UNCHANGED <<head, xe, takenVars>> /\ pc' = pc
  BY QueueAssumption DEF Motion, IInv, TypeOK, Positions, readerVars
<1>2. /\ tail' \in Slots /\ events' \in [Slots -> Event]
      /\ lastMotion' \in BOOLEAN /\ lastTime' \in Times /\ accepted' \in 0..MaxKeys
  BY <1>1, EnqueueTypes DEF IInv
<1>3. ptr' \in Place
  BY <1>1 DEF Motion, Place
<1>4. TypeOK'
  BY <1>1, <1>2, <1>3 DEF Motion, IInv, TypeOK, readerVars, takenVars
<1>5. /\ Reading'
      /\ Counted(head, tail, events, InHand, accepted)'
      /\ LastIs(head, tail, events, lastMotion)'
  BY <1>1, EnqueueInv
<1> QED  BY <1>4, <1>5 DEF IInv

\* A warp of the pointer, a change of screen with it or not.
LEMMA WarpInv ==
    ASSUME IInv, NEW s \in Screens, NEW pos \in Positions, NEW t \in Times,
           WarpCursor(s, pos, t), dix' \in Place, moves' \in Positions,
           UNCHANGED <<head, xe, seen, takenVars, sprite>>,
           pc' = pc \/ (pc = "newscreen" /\ pc' = "loop")
    PROVE  IInv'
<1>1. /\ enqScreen' \in Screens /\ deqScreen' \in Screens
      /\ Enqueue("motion", pos, t)
  BY DEF WarpCursor, IInv, TypeOK
<1>2. /\ tail' \in Slots /\ events' \in [Slots -> Event]
      /\ lastMotion' \in BOOLEAN /\ lastTime' \in Times /\ accepted' \in 0..MaxKeys
  BY <1>1, EnqueueTypes DEF IInv
<1>3. ptr' \in Place
  BY DEF WarpCursor, Place
<1>4. TypeOK'
  BY <1>1, <1>2, <1>3 DEF IInv, TypeOK, takenVars
<1>5. /\ Reading'
      /\ Counted(head, tail, events, InHand, accepted)'
      /\ LastIs(head, tail, events, lastMotion)'
  BY <1>1, EnqueueInv
<1> QED  BY <1>4, <1>5 DEF IInv

LEMMA NewCurrentScreenInv ==
    ASSUME IInv, NEW s \in Screens, NEW pos \in Positions, NEW t \in Times,
           NewCurrentScreen(s, pos, t), moves' \in Positions,
           UNCHANGED <<head, xe, seen, takenVars, sprite>>,
           pc' = pc \/ (pc = "newscreen" /\ pc' = "loop")
    PROVE  IInv'
<1>1. CASE s # dix.screen
  <2>1. dix' \in Place /\ WarpCursor(s, pos, t)
    BY <1>1 DEF NewCurrentScreen, Place
  <2> QED  BY <2>1, WarpInv
<1>2. CASE s = dix.screen
  <2>1. dix' \in Place /\ UNCHANGED <<slotVars, enqScreen, deqScreen, ptr>>
    BY <1>2 DEF NewCurrentScreen, Place, IInv, TypeOK
  <2>2. TypeOK'
    BY <2>1 DEF IInv, TypeOK, slotVars, takenVars
  <2>3. InHand' = InHand
    BY DEF InHand, takenVars
  <2>4. Reading'
    BY <2>1, <2>3 DEF IInv, Reading, here, slotVars, takenVars
  <2>5. /\ Counted(head, tail, events, InHand, accepted)'
        /\ LastIs(head, tail, events, lastMotion)'
    BY <2>1, <2>3 DEF IInv, slotVars
  <2> QED  BY <2>2, <2>4, <2>5 DEF IInv
<1> QED  BY <1>1, <1>2

LEMMA WarpPointerInv ==
    ASSUME IInv, NEW s \in Screens, NEW t \in Times, WarpPointer(s, t)
    PROVE  IInv'
<1>1. /\ moves' \in Positions /\ pc' = pc
      /\ UNCHANGED <<head, xe, seen, takenVars, sprite>>
  BY QueueAssumption DEF WarpPointer, IInv, TypeOK, Positions, readerVars
<1>2. CASE NewCurrentScreen(s, moves', t)
  BY <1>1, <1>2, NewCurrentScreenInv
<1>3. CASE WarpCursor(s, moves', t) /\ UNCHANGED dix
  <2>1. dix' \in Place
    BY <1>3 DEF IInv, TypeOK
  <2> QED  BY <1>1, <1>3, <2>1, WarpInv
<1> QED  BY <1>2, <1>3 DEF WarpPointer

LEMMA NewScreenInv == ASSUME IInv, NewScreen PROVE IInv'
<1>1. PICK t \in Times : NewCurrentScreen(deqScreen, xe.pos, t)
  BY DEF NewScreen
<1>2. deqScreen \in Screens /\ xe.pos \in Positions /\ moves' \in Positions
  BY DEF NewScreen, IInv, TypeOK, Event
<1>3. UNCHANGED <<head, xe, seen, takenVars, sprite>> /\ pc = "newscreen" /\ pc' = "loop"
  BY DEF NewScreen
<1> QED  BY <1>1, <1>2, <1>3, NewCurrentScreenInv

\* The steps of the reader that leave the slots and the head alone.
LEMMA SlotsKept ==
    ASSUME IInv, UNCHANGED <<slotVars, head>>, InHand' = InHand
    PROVE  /\ Counted(head, tail, events, InHand, accepted)'
           /\ LastIs(head, tail, events, lastMotion)'
           /\ here' = here
  BY DEF IInv, slotVars, here

LEMMA StepsInv ==
    ASSUME IInv, Begin \/ Loop \/ Compare \/ Switch \/ ReadScreen \/ MoveSprite
    PROVE  IInv'
<1>1. InHand' = InHand /\ UNCHANGED <<slotVars, head>>
  BY DEF InHand, takenVars, Begin, Loop, Compare, Switch, ReadScreen, MoveSprite
<1>2. here \in Event
  BY DEF IInv, TypeOK, here
<1>3. TypeOK'
  <2>1. CASE Begin \/ Loop \/ Compare
    BY <2>1 DEF IInv, TypeOK, slotVars, placeVars, takenVars, Begin, Loop, Compare
  <2>2. CASE Switch
    BY <2>2, <1>2 DEF IInv, TypeOK, slotVars, takenVars, Switch, Event
  <2>3. CASE ReadScreen
    BY <2>3 DEF IInv, TypeOK, slotVars, placeVars, takenVars, ReadScreen, Place
  <2>4. CASE MoveSprite
    BY <2>4 DEF IInv, TypeOK, slotVars, placeVars, takenVars, MoveSprite, Place
  <2> QED  BY <2>1, <2>2, <2>3, <2>4
<1>4. Reading'
  <2>1. here' = here
    BY <1>1, SlotsKept
  <2>2. CASE Begin \/ Loop \/ ReadScreen \/ MoveSprite
    BY <2>2, <1>1, <2>1 DEF IInv, Reading, slotVars, takenVars, Begin, Loop, ReadScreen, MoveSprite
  <2>3. CASE Compare
    <3>1. here.screen # deqScreen => NumScreens > 1
      BY <1>2, QueueAssumption DEF IInv, TypeOK, Event, Screens
    <3> QED  BY <2>3, <1>1, <2>1, <3>1 DEF IInv, Reading, slotVars, takenVars, Compare
  <2>4. CASE Switch
    BY <2>4, <1>1, <2>1 DEF IInv, Reading, slotVars, takenVars, Switch
  <2> QED  BY <2>2, <2>3, <2>4
<1> QED  BY <1>1, <1>3, <1>4, SlotsKept DEF IInv

LEMMA ReadInv == ASSUME IInv, ReadPlace \/ Copy \/ CopyRest PROVE IInv'
<1>1. /\ InHand' = InHand /\ UNCHANGED <<slotVars, head, seen, takenVars, sprite, placeVars>>
      /\ pc' \in {"skip", "half", "advance"}
  BY DEF InHand, takenVars, ReadPlace, Copy, CopyRest
<1>2. here \in Event /\ xe \in Event /\ here' = here
  BY <1>1, SlotsKept DEF IInv, TypeOK, here
<1>3. xe' \in Event /\ (Copy \/ CopyRest => xe'.kind = here.kind /\ xe'.number = here.number)
  <2>1. CASE ReadPlace
    BY <2>1, <1>2 DEF ReadPlace, Copy, CopyRest, Event
  <2>2. CASE Copy
    BY <2>2, <1>2 DEF Copy
  <2>3. CASE CopyRest
    <3>1. xe.kind = here.kind /\ xe.number = here.number
      BY <2>3 DEF IInv, Reading, CopyRest
    <3> QED  BY <2>3, <3>1, <1>2 DEF CopyRest, Event
  <2> QED  BY <2>1, <2>2, <2>3
<1>4. TypeOK'
  BY <1>1, <1>3 DEF IInv, TypeOK, slotVars, placeVars, takenVars
<1>5. Reading'
  <2>1. CASE ReadPlace
    BY <2>1, <1>1, <1>2 DEF ReadPlace, IInv, Reading, slotVars, takenVars
  <2>2. CASE Copy \/ CopyRest
    BY <2>2, <1>1, <1>2, <1>3 DEF Copy, CopyRest, IInv, Reading, slotVars, takenVars
  <2> QED  BY <2>1, <2>2
<1> QED  BY <1>1, <1>4, <1>5, SlotsKept DEF IInv

\* The number of the event at the head is next.
LEMMA HeadNext ==
    ASSUME IInv, head # tail
    PROVE  /\ here \in Event /\ here.number = InHand + K(here) /\ here.number <= accepted
           /\ InHand \in Nat /\ taken \in Nat /\ accepted \in Nat
           /\ Counted(Succ(head), tail, events, here.number, accepted)
           /\ LastIs(Succ(head), tail, events, lastMotion)
           /\ Succ(head) \in Slots
<1>1. /\ head \in Slots /\ tail \in Slots /\ events \in [Slots -> Event] /\ xe \in Event
      /\ taken \in Nat /\ accepted \in Nat
      /\ Counted(head, tail, events, InHand, accepted)
      /\ LastIs(head, tail, events, lastMotion)
  BY QueueAssumption DEF IInv, TypeOK
<1>2. InHand \in Nat
  BY <1>1, Numbers DEF InHand
<1>3. here = events[head] /\ here \in Event
  BY <1>1 DEF here
<1>4. Used(head, tail, head)
  BY <1>1, UsedSlots
<1>5. here.number = InHand + K(here) /\ here.number <= accepted
  BY <1>1, <1>3, <1>4 DEF Counted
<1>6. Counted(Succ(head), tail, events, events[head].number, accepted)
  BY <1>1, <1>2, CountedLess
<1>7. LastIs(Succ(head), tail, events, lastMotion)
  BY <1>1 DEF LastIs
<1> QED  BY <1>1, <1>2, <1>3, <1>5, <1>6, <1>7, Neighbours

LEMMA SkipInv == ASSUME IInv, Skip PROVE IInv'
<1>1. /\ head # tail /\ pc = "skip" /\ pc' = "newscreen" /\ head' = Succ(head)
      /\ UNCHANGED <<slotVars, xe, seen, delivered, sprite, placeVars>>
      /\ InHand = taken
  BY DEF Skip, IInv, Reading, InHand
<1>2. /\ here \in Event /\ here.number = InHand + K(here) /\ here.number <= accepted
      /\ InHand \in Nat /\ taken \in Nat /\ accepted \in Nat
      /\ Counted(Succ(head), tail, events, here.number, accepted)
      /\ LastIs(Succ(head), tail, events, lastMotion)
      /\ Succ(head) \in Slots
  BY <1>1, HeadNext
<1>3. /\ here.number \in Nat /\ here.number \in 0..MaxKeys
      /\ K(here) \in {0, 1} /\ (K(here) = 1 <=> here.kind = "key")
  BY <1>2, Numbers
<1>4. taken' = here.number /\ taken <= taken'
  BY <1>1, <1>2, <1>3 DEF Skip
<1>5. TypeOK'
  BY <1>1, <1>2, <1>3, <1>4 DEF IInv, TypeOK, slotVars, placeVars
<1>6. InHand' = here.number
  BY <1>1, <1>4 DEF InHand
<1>7. Reading'
  <2>1. delivered \in Nat /\ delivered <= taken
    BY QueueAssumption DEF IInv, TypeOK, Reading
  <2>2. delivered' <= taken' /\ InHand' <= accepted'
    BY <2>1, <1>1, <1>2, <1>3, <1>4, <1>6 DEF slotVars
  <2> QED  BY <2>2, <1>1 DEF Reading
<1>8. /\ Counted(head, tail, events, InHand, accepted)'
      /\ LastIs(head, tail, events, lastMotion)'
  BY <1>1, <1>2, <1>6 DEF slotVars
<1> QED  BY <1>5, <1>7, <1>8 DEF IInv

LEMMA AdvanceInv == ASSUME IInv, Advance PROVE IInv'
<1>1. /\ head # tail /\ pc = "advance" /\ pc' = "deliver" /\ head' = Succ(head)
      /\ UNCHANGED <<slotVars, xe, seen, takenVars, sprite, placeVars>>
      /\ InHand = taken /\ xe.kind = here.kind /\ xe.number = here.number
  BY DEF Advance, IInv, Reading, InHand
<1>2. /\ here \in Event /\ here.number = InHand + K(here) /\ here.number <= accepted
      /\ InHand \in Nat /\ taken \in Nat /\ accepted \in Nat
      /\ Counted(Succ(head), tail, events, here.number, accepted)
      /\ LastIs(Succ(head), tail, events, lastMotion)
      /\ Succ(head) \in Slots
  BY <1>1, HeadNext
<1>3. TypeOK'
  BY <1>1, <1>2 DEF IInv, TypeOK, slotVars, placeVars, takenVars
<1>4. InHand' = here.number /\ K(xe') = K(here)
  BY <1>1 DEF InHand, K
<1>5. Reading'
  BY <1>1, <1>2, <1>4 DEF IInv, Reading, slotVars, takenVars
<1>6. /\ Counted(head, tail, events, InHand, accepted)'
      /\ LastIs(head, tail, events, lastMotion)'
  BY <1>1, <1>2, <1>4 DEF slotVars
<1> QED  BY <1>3, <1>5, <1>6 DEF IInv

LEMMA DeliverInv == ASSUME IInv, Deliver PROVE IInv'
<1>1. /\ pc = "deliver" /\ pc' = "loop"
      /\ UNCHANGED <<slotVars, head, xe, seen, sprite, enqScreen, deqScreen, ptr, moves>>
      /\ InHand = xe.number /\ xe.number = taken + K(xe) /\ delivered <= taken
      /\ xe.number <= accepted
  BY DEF Deliver, IInv, Reading, InHand
<1>2. xe \in Event /\ taken \in Nat /\ delivered \in Nat
  BY QueueAssumption DEF IInv, TypeOK
<1>3. /\ xe.number \in Nat /\ xe.number \in 0..MaxKeys /\ xe.pos \in Positions
      /\ K(xe) \in {0, 1} /\ (K(xe) = 1 <=> xe.kind = "key")
  BY <1>2, Numbers
<1>4. taken' = xe.number /\ delivered' <= taken' /\ delivered' \in Nat
  BY <1>1, <1>2, <1>3 DEF Deliver
<1>5. delivered' \in 0..MaxKeys
  BY <1>3, <1>4, QueueAssumption
<1>6. dix' \in Place
  BY <1>3 DEF Deliver, IInv, TypeOK, Place
<1>7. TypeOK'
  BY <1>1, <1>3, <1>4, <1>5, <1>6 DEF IInv, TypeOK, slotVars
<1>8. InHand' = InHand
  BY <1>1, <1>4 DEF InHand
<1>9. Reading'
  BY <1>1, <1>4, <1>8 DEF Reading, slotVars
<1> QED  BY <1>1, <1>7, <1>8, <1>9, SlotsKept DEF IInv

LEMMA IdleInv == ASSUME IInv, UNCHANGED vars PROVE IInv'
<1>1. TypeOK'
  BY DEF vars, readerVars, placeVars, slotVars, takenVars, IInv, TypeOK
<1>2. InHand' = InHand /\ UNCHANGED <<slotVars, head>>
  BY DEF vars, readerVars, takenVars, InHand
<1>3. Reading'
  BY <1>2 DEF vars, readerVars, slotVars, takenVars, IInv, Reading, here
<1> QED  BY <1>1, <1>2, <1>3, SlotsKept DEF IInv

LEMMA StepInv == IInv /\ [Next]_vars => IInv'
<1> SUFFICES ASSUME IInv, [Next]_vars PROVE IInv'
  OBVIOUS
<1>1. CASE Signal
  BY <1>1, KeyInv, MotionInv DEF Signal
<1>2. CASE \E s \in Screens, t \in Times : WarpPointer(s, t)
  BY <1>2, WarpPointerInv
<1>3. CASE Reader
  BY <1>3, StepsInv, ReadInv, SkipInv, NewScreenInv, AdvanceInv, DeliverInv DEF Reader
<1>4. CASE UNCHANGED vars
  BY <1>4, IdleInv
<1> QED  BY <1>1, <1>2, <1>3, <1>4 DEF Next

\* At every moment each variable has its type, the numbers of the keys and
\* buttons in the queue count on from the last one that has left it, and the
\* slot that the reader reads is in use.
THEOREM Invariant == Spec => []IInv
  BY InitInv, StepInv, PTL DEF Spec

\* At every moment each variable has its type: the queue is accessed within
\* its bounds and every event in it belongs to a screen there is.
THEOREM TypeCorrect == Spec => []TypeOK
  BY Invariant, PTL DEF IInv

-----------------------------------------------------------------------------
(***************************************************************************)
(* Keys and buttons.                                                       *)
(***************************************************************************)
\* An event that is enqueued is at most accepted.
LEMMA AcceptStep ==
    ASSUME IInv, NEW kind \in {"motion", "key"}, NEW pos \in Positions, NEW time \in Times,
           enqScreen' \in Screens, kind = "key" => accepted < MaxKeys,
           Enqueue(kind, pos, time), UNCHANGED takenVars
    PROVE  [KS!Next]_(KS!vars)
<1>1. accepted' \in {accepted, accepted + 1}
  BY EnqueueSlots
<1> QED  BY <1>1 DEF takenVars, KS!Next, KS!Accept, KS!vars

LEMMA SignalAccepts == ASSUME IInv, Signal PROVE [KS!Next]_(KS!vars)
<1>1. ASSUME NEW t \in Times, Key(t) PROVE [KS!Next]_(KS!vars)
  <2>1. /\ enqScreen' \in Screens /\ ptr.pos \in Positions
        /\ accepted < MaxKeys /\ Enqueue("key", ptr.pos, t) /\ UNCHANGED takenVars
    BY <1>1 DEF Key, IInv, TypeOK, Place, readerVars
  <2> QED  BY <2>1, AcceptStep
<1>2. ASSUME NEW t \in Times, NEW s \in Screens, Motion(s, t) PROVE [KS!Next]_(KS!vars)
  <2>1. /\ enqScreen' \in Screens /\ moves' \in Positions
        /\ Enqueue("motion", moves', t) /\ UNCHANGED takenVars
    BY <1>2, QueueAssumption DEF Motion, IInv, TypeOK, Positions, readerVars
  <2> QED  BY <2>1, AcceptStep
<1> QED  BY <1>1, <1>2 DEF Signal

\* A warp enqueues a motion, or nothing.
LEMMA WarpAccepts ==
    ASSUME IInv, NEW s \in Screens, NEW pos \in Positions, NEW t \in Times,
           WarpCursor(s, pos, t) \/ NewCurrentScreen(s, pos, t), UNCHANGED takenVars
    PROVE  [KS!Next]_(KS!vars)
<1>1. CASE WarpCursor(s, pos, t)
  <2>1. enqScreen' \in Screens /\ Enqueue("motion", pos, t)
    BY <1>1 DEF WarpCursor, IInv, TypeOK
  <2> QED  BY <2>1, AcceptStep
<1>2. CASE UNCHANGED slotVars
  BY <1>2 DEF slotVars, takenVars, KS!vars
<1> QED  BY <1>1, <1>2 DEF NewCurrentScreen

\* An event that leaves the queue is the next one, or a motion.
LEMMA TakeStep ==
    ASSUME NEW e \in Event, taken \in Nat, accepted \in Nat,
           e.number = taken + K(e), e.number <= accepted,
           taken' = IF e.kind = "key" THEN e.number ELSE taken,
           \/ delivered' = delivered + K(e)
           \/ NumScreens > 1 /\ UNCHANGED delivered,
           delivered \in Nat, UNCHANGED accepted
    PROVE  [KS!Next]_(KS!vars)
<1>1. K(e) \in {0, 1} /\ (K(e) = 1 <=> e.kind = "key")
  BY Numbers
<1>2. CASE e.kind = "key"
  <2>1. taken' = taken + 1 /\ taken < accepted
    BY <1>1, <1>2
  <2>2. KS!Take
    BY <1>1, <1>2, <2>1 DEF KS!Take
  <2> QED  BY <2>2 DEF KS!Next
<1>3. CASE e.kind # "key"
  <2>1. UNCHANGED <<accepted, taken, delivered>>
    BY <1>1, <1>3
  <2> QED  BY <2>1 DEF KS!vars
<1> QED  BY <1>2, <1>3

LEMMA KeysStep == IInv /\ [Next]_vars => [KS!Next]_(KS!vars)
<1> SUFFICES ASSUME IInv, [Next]_vars PROVE [KS!Next]_(KS!vars)
  OBVIOUS
<1>1. CASE Signal
  BY <1>1, SignalAccepts
<1>2. ASSUME NEW s \in Screens, NEW t \in Times, WarpPointer(s, t)
      PROVE  [KS!Next]_(KS!vars)
  <2>1. /\ moves' \in Positions /\ UNCHANGED takenVars
        /\ WarpCursor(s, moves', t) \/ NewCurrentScreen(s, moves', t)
    BY <1>2, QueueAssumption DEF WarpPointer, IInv, TypeOK, Positions, readerVars
  <2> QED  BY <2>1, WarpAccepts
<1>3. CASE NewScreen
  <2>1. PICK t \in Times : NewCurrentScreen(deqScreen, xe.pos, t)
    BY <1>3 DEF NewScreen
  <2>2. deqScreen \in Screens /\ xe.pos \in Positions /\ UNCHANGED takenVars
    BY <1>3 DEF NewScreen, IInv, TypeOK, Event
  <2> QED  BY <2>1, <2>2, WarpAccepts
<1>4. CASE Skip
  <2>1. head # tail /\ NumScreens > 1 /\ InHand = taken
    BY <1>4 DEF Skip, IInv, Reading, InHand
  <2>2. /\ here \in Event /\ here.number = taken + K(here) /\ here.number <= accepted
        /\ taken \in Nat /\ accepted \in Nat /\ delivered \in Nat
    BY <2>1, HeadNext, QueueAssumption DEF IInv, TypeOK
  <2>3. /\ taken' = IF here.kind = "key" THEN here.number ELSE taken
        /\ UNCHANGED delivered /\ UNCHANGED accepted
    BY <1>4 DEF Skip, slotVars
  <2> QED  BY <2>1, <2>2, <2>3, TakeStep
<1>5. CASE Deliver
  <2>1. /\ xe \in Event /\ xe.number = taken + K(xe) /\ xe.number <= accepted
        /\ taken \in Nat /\ accepted \in Nat /\ delivered \in Nat
    BY <1>5, QueueAssumption DEF Deliver, IInv, TypeOK, Reading, InHand
  <2>2. /\ taken' = IF xe.kind = "key" THEN xe.number ELSE taken
        /\ delivered' = delivered + K(xe) /\ UNCHANGED accepted
    BY <1>5, <2>1 DEF Deliver, slotVars, K
  <2> QED  BY <2>1, <2>2, TakeStep
<1>6. CASE \/ Begin \/ Loop \/ Compare \/ Switch \/ ReadPlace \/ Copy \/ CopyRest
           \/ Advance \/ ReadScreen \/ MoveSprite
  BY <1>6 DEF Begin, Loop, Compare, Switch, ReadPlace, Copy, CopyRest, Advance, ReadScreen,
              MoveSprite, slotVars, takenVars, KS!vars
<1>7. CASE UNCHANGED vars
  BY <1>7 DEF vars, slotVars, readerVars, takenVars, KS!vars
<1> QED  BY <1>1, <1>2, <1>3, <1>4, <1>5, <1>6, <1>7 DEF Next, Reader

\* However the handler and the reader interleave, keys and buttons leave the
\* queue in the order they were accepted in, each once and none overwritten;
\* on one screen each is delivered.
THEOREM KeysFollow == Spec => KeysInOrder
<1>1. Init => KS!Init
  BY DEF Init, KS!Init
<1> QED  BY <1>1, KeysStep, Invariant, PTL DEF Spec, KeysInOrder, KS!Spec

-----------------------------------------------------------------------------
(***************************************************************************)
(* Times, as long as the clock takes no step back of Jump or more.         *)
(***************************************************************************)
SmallSteps == \A t, u \in Times : u < t + Jump

LEMMA EnqueueStamps ==
    ASSUME SmallSteps, IInv, Sorted(head, tail, events, lastTime),
           NEW kind \in {"motion", "key"}, NEW pos \in Positions, NEW time \in Times,
           enqScreen' \in Screens, kind = "key" => accepted < MaxKeys,
           Enqueue(kind, pos, time)
    PROVE  /\ Sorted(head, tail', events', lastTime')
           /\ lastTime \in Nat /\ lastTime' \in Nat /\ lastTime <= lastTime'
           /\ head # tail => events[head].time <= events'[head].time
           /\ head = tail /\ head # tail' => events'[head].time = lastTime'
<1> DEFINE e == [kind |-> kind, pos |-> pos, time |-> lastTime',
                 screen |-> enqScreen', number |-> accepted']
<1>1. /\ head \in Slots /\ tail \in Slots /\ events \in [Slots -> Event]
      /\ lastTime \in Times /\ lastTime \in Nat /\ time \in Nat /\ Jump \in Nat
      /\ \A i \in Slots : events[i].time \in Nat
  BY Numbers, QueueAssumption DEF IInv, TypeOK
<1>2. lastTime' \in Times /\ accepted' \in 0..MaxKeys
  BY EnqueueTypes DEF IInv
<1>3. e \in Event /\ e.time = lastTime' /\ lastTime' \in Nat
  BY <1>2, QueueAssumption DEF Event
<1>4. Pred(tail) \in Slots
  BY <1>1, Neighbours
<1>5. ASSUME Clamp(time) = lastTime' PROVE lastTime <= lastTime'
  <2>1. lastTime < time + Jump
    BY <1>1 DEF SmallSteps
  <2> QED  BY <1>1, <1>5, <2>1 DEF Clamp
<1>6. ASSUME NEW slot \in Slots, Put(slot, kind, pos, time)
      PROVE  events' = [events EXCEPT ![slot] = e] /\ lastTime <= lastTime'
  BY <1>5, <1>6 DEF Put
<1> HIDE DEF e
<1>7. CASE Replaces(kind) /\ Put(Pred(tail), kind, pos, time) /\ UNCHANGED tail
  <2>1. events' = [events EXCEPT ![Pred(tail)] = e] /\ lastTime <= e.time /\ head # tail
    BY <1>3, <1>4, <1>6, <1>7 DEF Replaces
  <2>2. Sorted(head, tail, [events EXCEPT ![Pred(tail)] = e], e.time)
    BY <1>1, <1>3, <2>1, SortedReplaced
  <2>3. Used(head, tail, head)
    BY <1>1, <2>1, UsedSlots
  <2>4. events[head].time <= lastTime
    BY <1>1, <2>3 DEF Sorted
  <2>5. events'[head].time \in {events[head].time, lastTime'}
    BY <1>1, <1>3, <2>1
  <2>6. events[head].time <= events'[head].time
    BY <1>1, <1>3, <2>1, <2>4, <2>5
  <2> QED  BY <1>1, <1>3, <1>7, <2>1, <2>2, <2>6
<1>8. CASE Room /\ Put(tail, kind, pos, time) /\ tail' = Succ(tail)
  <2>1. /\ events' = [events EXCEPT ![tail] = e] /\ lastTime <= e.time
        /\ Succ(tail) # head
    BY <1>1, <1>3, <1>6, <1>8 DEF Room
  <2>2. Sorted(head, Succ(tail), [events EXCEPT ![tail] = e], e.time)
    BY <1>1, <1>3, <2>1, SortedMore
  <2>3. head # tail => events'[head] = events[head]
    BY <1>1, <2>1
  <2>4. head = tail => events'[head] = e
    BY <1>1, <2>1
  <2> QED  BY <1>1, <1>3, <1>8, <2>1, <2>2, <2>3, <2>4
<1>9. CASE UNCHANGED slotVars
  BY <1>1, <1>9 DEF slotVars
<1> QED  BY <1>7, <1>8, <1>9 DEF Enqueue

LEMMA InitStamps == Init => Stamps
<1> SUFFICES ASSUME Init PROVE Stamps
  OBVIOUS
<1>1. 0 \in Slots
  BY QueueAssumption DEF Slots
<1>2. Sorted(head, tail, events, lastTime)
  BY <1>1, UsedSlots DEF Init, Sorted
<1> QED  BY <1>2 DEF Init, Stamps

\* An event comes in, wherever the reader is.
LEMMA ComesStamps ==
    ASSUME SmallSteps, IInv, Stamps,
           NEW kind \in {"motion", "key"}, NEW pos \in Positions, NEW time \in Times,
           enqScreen' \in Screens, kind = "key" => accepted < MaxKeys,
           Enqueue(kind, pos, time), UNCHANGED <<head, xe>>,
           pc' = pc \/ (pc = "newscreen" /\ pc' = "loop")
    PROVE  Stamps'
<1>1. /\ Sorted(head, tail', events', lastTime')
      /\ lastTime \in Nat /\ lastTime' \in Nat /\ lastTime <= lastTime'
      /\ head # tail => events[head].time <= events'[head].time
      /\ head = tail /\ head # tail' => events'[head].time = lastTime'
  BY EnqueueStamps DEF Stamps
<1>2. here = events[head] /\ here' = events'[head] /\ xe' = xe
  BY DEF here
<1>3. here \in Event /\ xe \in Event /\ here' \in Event
  BY <1>2, EnqueueTypes DEF IInv, TypeOK
<1>4. here.time \in Nat /\ xe.time \in Nat /\ here'.time \in Nat
  BY <1>3, Numbers
<1>5. pc' \in {"half", "advance"} => xe'.time <= here'.time
  <2> SUFFICES ASSUME pc' \in {"half", "advance"} PROVE xe.time <= here'.time
    BY <1>2
  <2>1. head # tail /\ xe.time <= here.time
    BY DEF IInv, Reading, Stamps
  <2> QED  BY <1>1, <1>2, <1>4, <2>1
<1>6. pc' = "deliver" => xe'.time <= lastTime' /\ (head' # tail' => xe'.time <= here'.time)
  <2> SUFFICES ASSUME pc' = "deliver"
               PROVE  xe.time <= lastTime' /\ (head # tail' => xe.time <= here'.time)
    BY <1>2
  <2>1. xe.time <= lastTime /\ (head # tail => xe.time <= here.time)
    BY DEF Stamps
  <2>2. xe.time <= lastTime'
    BY <1>1, <1>4, <2>1
  <2> QED  BY <1>1, <1>2, <1>4, <2>1, <2>2
<1> QED  BY <1>1, <1>5, <1>6 DEF Stamps

LEMMA WarpStamps ==
    ASSUME SmallSteps, IInv, Stamps,
           NEW s \in Screens, NEW pos \in Positions, NEW t \in Times,
           WarpCursor(s, pos, t) \/ NewCurrentScreen(s, pos, t), UNCHANGED <<head, xe>>,
           pc' = pc \/ (pc = "newscreen" /\ pc' = "loop")
    PROVE  Stamps'
<1>1. CASE WarpCursor(s, pos, t)
  <2>1. enqScreen' \in Screens /\ Enqueue("motion", pos, t)
    BY <1>1 DEF WarpCursor, IInv, TypeOK
  <2> QED  BY <2>1, ComesStamps
<1>2. CASE UNCHANGED slotVars
  BY <1>2 DEF slotVars, Stamps, here
<1> QED  BY <1>1, <1>2 DEF NewCurrentScreen

LEMMA StepStamps ==
    ASSUME SmallSteps
    PROVE  IInv /\ Stamps /\ [Next]_vars => Stamps'
<1> SUFFICES ASSUME IInv, Stamps, [Next]_vars PROVE Stamps'
  OBVIOUS
<1>1. ASSUME NEW t \in Times, Key(t) PROVE Stamps'
  <2>1. /\ enqScreen' \in Screens /\ ptr.pos \in Positions /\ UNCHANGED <<head, xe>>
        /\ accepted < MaxKeys /\ Enqueue("key", ptr.pos, t) /\ pc' = pc
    BY <1>1 DEF Key, IInv, TypeOK, Place, readerVars
  <2> QED  BY <2>1, ComesStamps
<1>2. ASSUME NEW t \in Times, NEW s \in Screens, Motion(s, t) PROVE Stamps'
  <2>1. /\ enqScreen' \in Screens /\ moves' \in Positions /\ UNCHANGED <<head, xe>>
        /\ Enqueue("motion", moves', t) /\ pc' = pc
    BY <1>2, QueueAssumption DEF Motion, IInv, TypeOK, Positions, readerVars
  <2> QED  BY <2>1, ComesStamps
<1>3. ASSUME NEW s \in Screens, NEW t \in Times, WarpPointer(s, t) PROVE Stamps'
  <2>1. /\ moves' \in Positions /\ UNCHANGED <<head, xe>> /\ pc' = pc
        /\ WarpCursor(s, moves', t) \/ NewCurrentScreen(s, moves', t)
    BY <1>3, QueueAssumption DEF WarpPointer, IInv, TypeOK, Positions, readerVars
  <2> QED  BY <2>1, WarpStamps
<1>4. CASE NewScreen
  <2>1. PICK t \in Times : NewCurrentScreen(deqScreen, xe.pos, t)
    BY <1>4 DEF NewScreen
  <2>2. /\ deqScreen \in Screens /\ xe.pos \in Positions /\ UNCHANGED <<head, xe>>
        /\ pc = "newscreen" /\ pc' = "loop"
    BY <1>4 DEF NewScreen, IInv, TypeOK, Event
  <2> QED  BY <2>1, <2>2, WarpStamps
<1>5. CASE Copy \/ CopyRest
  <2>1. /\ UNCHANGED <<slotVars, head>> /\ pc' \in {"half", "advance"}
        /\ xe'.time \in {xe.time, here.time}
        /\ CopyRest => xe'.time = xe.time /\ xe.time <= here.time
        /\ Copy => xe'.time = here.time
    BY <1>5 DEF Copy, CopyRest, IInv, TypeOK, Event, Stamps
  <2>2. here' = here /\ here \in Event
    BY <2>1 DEF here, slotVars, IInv, TypeOK
  <2>3. xe'.time <= here'.time
    BY <1>5, <2>1, <2>2, Numbers
  <2> QED  BY <2>1, <2>3 DEF Stamps, slotVars
<1>6. CASE Skip \/ Advance
  <2>1. /\ head \in Slots /\ tail \in Slots /\ head # tail /\ head' = Succ(head)
        /\ UNCHANGED slotVars /\ UNCHANGED xe
        /\ events \in [Slots -> Event] /\ lastTime \in Nat
        /\ Sorted(head, tail, events, lastTime)
        /\ xe \in Event /\ here \in Event
    BY <1>6, QueueAssumption DEF Skip, Advance, IInv, TypeOK, Reading, Stamps, here
  <2>2. /\ Sorted(Succ(head), tail, events, lastTime)
        /\ events[head].time <= lastTime
        /\ Succ(head) # tail => events[head].time <= events[Succ(head)].time
    BY <2>1, SortedLess
  <2>3. Sorted(head, tail, events, lastTime)'
    BY <2>1, <2>2 DEF slotVars
  <2>4. CASE Skip
    BY <2>3, <2>4 DEF Skip, Stamps
  <2>5. CASE Advance
    <3>1. xe.time <= here.time /\ pc' = "deliver"
      BY <2>5 DEF Stamps, Advance
    <3>2. /\ xe.time \in Nat /\ here.time \in Nat
          /\ events[Succ(head)].time \in Nat
      BY <2>1, Numbers, Neighbours
    <3>3. here = events[head] /\ here' = events[Succ(head)]
      BY <2>1 DEF here, slotVars
    <3>4. xe'.time <= lastTime' /\ (head' # tail' => xe'.time <= here'.time)
      BY <2>1, <2>2, <3>1, <3>2, <3>3 DEF slotVars
    <3> QED  BY <2>3, <3>1, <3>4 DEF Stamps
  <2> QED  BY <1>6, <2>4, <2>5
<1>7. CASE \/ Begin \/ Loop \/ Compare \/ Switch \/ ReadPlace \/ Deliver
           \/ ReadScreen \/ MoveSprite
  <2>1. /\ UNCHANGED slotVars /\ UNCHANGED head
        /\ pc' \notin {"half", "advance", "deliver"}
    BY <1>7 DEF Begin, Loop, Compare, Switch, ReadPlace, Deliver, ReadScreen, MoveSprite
  <2> QED  BY <2>1 DEF Stamps, slotVars
<1>8. CASE UNCHANGED vars
  BY <1>8 DEF vars, slotVars, readerVars, Stamps, here
<1> QED  BY <1>1, <1>2, <1>3, <1>4, <1>5, <1>6, <1>7, <1>8 DEF Next, Signal, Reader

LEMMA StampsOrdered == IInv /\ Stamps => TimesOrdered
<1> SUFFICES ASSUME IInv, Stamps PROVE TimesOrdered
  OBVIOUS
<1>1. \A i \in Slots : Succ(i) \in Slots
  BY Neighbours
<1> QED  BY <1>1, InUse DEF IInv, Stamps, Sorted, TimesOrdered, here

\* If the clock never takes a step back of Jump or more, the events in the
\* queue are in the order of their times, and the one that is being delivered
\* comes before them.
THEOREM TimesFollow == ASSUME SmallSteps PROVE Spec => []TimesOrdered
<1>1. IInv /\ Stamps /\ [Next]_vars => Stamps'
  BY StepStamps
<1> QED  BY <1>1, InitStamps, StampsOrdered, Invariant, PTL DEF Spec
=============================================================================
