----------------------------- MODULE InputQueue -----------------------------
(***************************************************************************)
(* The input event queue (mi/mieq.c) and the pointer (mi/mipointer.c).     *)
(*                                                                         *)
(* The SIGIO handler of kdrive reads the devices and enqueues events.  It  *)
(* can interrupt the server between any two steps of ProcessInputEvents,   *)
(* which dequeues them; nothing interrupts the handler, so that each event *)
(* it reports is one action here.  A motion that follows a motion replaces *)
(* it in the queue.  When the event at the head belongs to another screen  *)
(* than the one events are dispatched to, the screen is changed instead of *)
(* delivering the event.                                                   *)
(*                                                                         *)
(* A position of the pointer is represented by the number of the motion    *)
(* that led to it, and "key" stands for every event that is not a motion.  *)
(***************************************************************************)
EXTENDS Naturals

CONSTANTS
    QueueSize,  \* QUEUE_SIZE (256)
    NumScreens, \* screenInfo.numScreens
    Times,      \* what GetTimeInMillis may return, as far as it matters
    Jump,       \* a step back in time that is not evened out (10000)
    MaxKeys,    \* bound on the number of key and button events accepted
    MaxMoves    \* bound on the number of motions

ASSUME QueueAssumption ==
    /\ QueueSize \in Nat /\ QueueSize > 1
    /\ NumScreens \in Nat \ {0}
    /\ Times \subseteq Nat /\ 0 \in Times
    /\ Jump \in Nat /\ MaxKeys \in Nat /\ MaxMoves \in Nat

Screens == 1..NumScreens
Slots == 0..QueueSize-1
Positions == 0..MaxMoves

Place == [screen : Screens, pos : Positions]
Event == [kind : {"motion", "key"}, pos : Positions, time : Times,
          screen : Screens, number : 0..MaxKeys]

VARIABLES
    head, tail,  \* of the queue
    events,      \* the slots
    lastMotion,  \* the event enqueued last is a motion
    lastTime,    \* lastEventTime
    enqScreen,   \* pEnqueueScreen
    deqScreen,   \* pDequeueScreen
    ptr,         \* miPointer.pScreen, x, y
    sprite,      \* miPointer.pSpriteScreen, devx, devy: what is displayed
    dix,         \* sprite.hotPhys of dix/events.c
    pc,          \* where ProcessInputEvents is
    xe,          \* its local copy of the event
    seen,        \* miPointerUpdate's local copy of miPointer.pScreen
    accepted,    \* key and button events accepted so far (history)
    taken,       \* key and button events that have left the queue (history)
    delivered,   \* of those, the ones delivered to a device (history)
    moves        \* motions so far (history)

slotVars == <<tail, events, lastMotion, lastTime, accepted>>
takenVars == <<taken, delivered>>
readerVars == <<head, pc, xe, seen, takenVars, sprite>>
placeVars == <<enqScreen, deqScreen, ptr, dix, moves>>
vars == <<slotVars, readerVars, placeVars>>

Succ(i) == IF i = QueueSize - 1 THEN 0 ELSE i + 1
Pred(i) == IF i = 0 THEN QueueSize - 1 ELSE i - 1

Init ==
    /\ head = 0 /\ tail = 0
    /\ lastMotion = FALSE /\ lastTime = 0
    /\ xe = [kind |-> "key", pos |-> 0, time |-> 0, screen |-> 1, number |-> 0]
    /\ events = [i \in Slots |-> xe]
    /\ enqScreen = 1 /\ deqScreen = 1 /\ seen = 1
    /\ ptr = [screen |-> 1, pos |-> 0] /\ sprite = ptr /\ dix = ptr
    /\ pc = "idle"
    /\ accepted = 0 /\ taken = 0 /\ delivered = 0 /\ moves = 0

(***************************************************************************)
(* mieqEnqueue.  The number of a key or button is its place among those    *)
(* accepted; a motion carries the number of the last one before it.        *)
(***************************************************************************)
ClampNever(t) == t \* broken: times may go backwards
Clamp(t) == IF t < lastTime /\ lastTime - t < Jump THEN lastTime ELSE t

Put(slot, kind, pos, time) ==
    /\ lastMotion' = (kind = "motion")
    /\ lastTime' = Clamp(time)
    /\ accepted' = accepted + (IF kind = "key" THEN 1 ELSE 0)
    /\ events' = [events EXCEPT ![slot] =
         [kind |-> kind, pos |-> pos, time |-> lastTime',
          screen |-> enqScreen', number |-> accepted']]

\* Broken: the event enqueued last is overwritten whatever it is.
ReplacesAny(kind) == kind = "motion" /\ tail # head
Replaces(kind) == kind = "motion" /\ lastMotion /\ tail # head

\* Broken: does not notice that the queue is full.
RoomAlways == TRUE
Room == Succ(tail) # head

Enqueue(kind, pos, time) ==
    \/ /\ Replaces(kind)
       /\ Put(Pred(tail), kind, pos, time)
       /\ UNCHANGED tail
    \/ /\ ~Replaces(kind) /\ Room
       /\ Put(tail, kind, pos, time)
       /\ tail' = Succ(tail)
    \/ /\ ~Replaces(kind) /\ ~Room \* toss events which come in late
       /\ UNCHANGED slotVars

(***************************************************************************)
(* The SIGIO handler.                                                      *)
(***************************************************************************)
\* KdQueueEvent for a key or button.  `pos` only records where the pointer
\* is: the event's own coordinates are not meaningful.
Key(t) ==
    /\ accepted < MaxKeys
    /\ UNCHANGED enqScreen
    /\ Enqueue("key", ptr.pos, t)
    /\ UNCHANGED <<readerVars, deqScreen, ptr, dix, moves>>

\* miPointerAbsoluteCursor: the pointer moves, maybe to another screen.
Motion(s, t) ==
    /\ moves < MaxMoves
    /\ moves' = moves + 1
    /\ enqScreen' = IF s # ptr.screen THEN s ELSE enqScreen
    /\ ptr' = [screen |-> s, pos |-> moves']
    /\ Enqueue("motion", moves', t)
    /\ UNCHANGED <<readerVars, deqScreen, dix>>

(***************************************************************************)
(* miPointerWarpCursor with an event, SIGIO blocked.                       *)
(***************************************************************************)
\* Broken: events are enqueued for the screen that the pointer has left.
WarpCursorLate(s, pos, t) ==
    /\ IF s # ptr.screen
         THEN enqScreen' = ptr.screen /\ deqScreen' = s
         ELSE UNCHANGED <<enqScreen, deqScreen>>
    /\ ptr' = [screen |-> s, pos |-> pos]
    /\ Enqueue("motion", pos, t)

WarpCursor(s, pos, t) ==
    /\ IF s # ptr.screen
         THEN enqScreen' = s /\ deqScreen' = s
         ELSE UNCHANGED <<enqScreen, deqScreen>>
    /\ ptr' = [screen |-> s, pos |-> pos]
    /\ Enqueue("motion", pos, t)

\* NewCurrentScreen in dix/events.c.
NewCurrentScreen(s, pos, t) ==
    IF s # dix.screen
      THEN /\ dix' = [screen |-> s, pos |-> pos]
           /\ WarpCursor(s, pos, t)
      ELSE /\ dix' = [dix EXCEPT !.pos = pos]
           /\ UNCHANGED <<slotVars, enqScreen, deqScreen, ptr>>

\* A client's WarpPointer, between two calls of ProcessInputEvents.
WarpPointer(s, t) ==
    /\ pc = "idle"
    /\ moves < MaxMoves
    /\ moves' = moves + 1
    /\ IF s # dix.screen
         THEN NewCurrentScreen(s, moves', t)
         ELSE WarpCursor(s, moves', t) /\ UNCHANGED dix
    /\ UNCHANGED readerVars

(***************************************************************************)
(* ProcessInputEvents.                                                     *)
(***************************************************************************)
here == events[head]

\* The dispatch loop sees that head and tail differ.
Begin ==
    /\ pc = "idle"
    /\ head # tail
    /\ pc' = "loop"
    /\ UNCHANGED <<slotVars, head, xe, seen, takenVars, sprite, placeVars>>

\* The head of the loop of mieqProcessInputEvents.
Loop ==
    /\ pc = "loop"
    /\ pc' = IF head # tail THEN "compare" ELSE "update"
    /\ UNCHANGED <<slotVars, head, xe, seen, takenVars, sprite, placeVars>>

Compare ==
    /\ pc = "compare"
    /\ pc' = IF here.screen # deqScreen THEN "switch" ELSE "copy"
    /\ UNCHANGED <<slotVars, head, xe, seen, takenVars, sprite, placeVars>>

\* The event belongs to another screen: remember screen and coordinates ...
Switch ==
    /\ pc = "switch"
    /\ deqScreen' = here.screen
    /\ pc' = "place"
    /\ UNCHANGED <<slotVars, head, xe, seen, takenVars, sprite, enqScreen, ptr, dix, moves>>

ReadPlace ==
    /\ pc = "place"
    /\ \E p \in Positions :
         /\ here.kind = "motion" => p = here.pos
         /\ xe' = [here EXCEPT !.pos = p]
    /\ pc' = "skip"
    /\ UNCHANGED <<slotVars, head, seen, takenVars, sprite, placeVars>>

\* ... drop the event ...
Skip ==
    /\ pc = "skip"
    /\ head' = Succ(head)
    /\ taken' = IF here.kind = "key" THEN here.number ELSE taken
    /\ pc' = "newscreen"
    /\ UNCHANGED <<slotVars, xe, seen, delivered, sprite, placeVars>>

\* ... and change the screen.
NewScreen ==
    /\ pc = "newscreen"
    /\ \E t \in Times : NewCurrentScreen(deqScreen, xe.pos, t)
    /\ pc' = "loop"
    /\ UNCHANGED <<head, xe, seen, takenVars, sprite, moves>>

\* Otherwise the event is copied, which a signal may interrupt half way ...
Copy ==
    /\ pc = "copy"
    /\ xe' = here
    /\ pc' = "half"
    /\ UNCHANGED <<slotVars, head, seen, takenVars, sprite, placeVars>>

CopyRest ==
    /\ pc = "half"
    /\ xe' = [xe EXCEPT !.pos = here.pos]
    /\ pc' = "advance"
    /\ UNCHANGED <<slotVars, head, seen, takenVars, sprite, placeVars>>

\* ... its slot is given back ...
Advance ==
    /\ pc = "advance"
    /\ head' = Succ(head)
    /\ pc' = "deliver"
    /\ UNCHANGED <<slotVars, xe, seen, takenVars, sprite, placeVars>>

\* ... and it is passed to its device; a motion moves the pointer of DIX.
Deliver ==
    /\ pc = "deliver"
    /\ IF xe.kind = "key"
         THEN /\ taken' = xe.number
              /\ delivered' = delivered + 1
              /\ UNCHANGED dix
         ELSE /\ dix' = [dix EXCEPT !.pos = xe.pos]
              /\ UNCHANGED <<taken, delivered>>
    /\ pc' = "loop"
    /\ UNCHANGED <<slotVars, head, xe, seen, sprite, enqScreen, deqScreen, ptr, moves>>

\* miPointerUpdate, after the loop.
ReadScreen ==
    /\ pc = "update"
    /\ seen' = ptr.screen
    /\ pc' = "sprite"
    /\ UNCHANGED <<slotVars, head, xe, takenVars, sprite, placeVars>>

\* Broken: moves the sprite only when the screen has changed.
MoveSpriteAcross ==
    /\ pc = "sprite"
    /\ sprite' = IF seen # sprite.screen THEN [screen |-> seen, pos |-> ptr.pos] ELSE sprite
    /\ pc' = "idle"
    /\ UNCHANGED <<slotVars, head, xe, seen, takenVars, placeVars>>

MoveSprite ==
    /\ pc = "sprite"
    /\ sprite' = [screen |-> seen, pos |-> ptr.pos]
    /\ pc' = "idle"
    /\ UNCHANGED <<slotVars, head, xe, seen, takenVars, placeVars>>

Signal ==
    \E t \in Times : Key(t) \/ \E s \in Screens : Motion(s, t)

Reader ==
    \/ Begin \/ Loop \/ Compare \/ Switch \/ ReadPlace \/ Skip \/ NewScreen
    \/ Copy \/ CopyRest \/ Advance \/ Deliver \/ ReadScreen \/ MoveSprite

Next ==
    \/ Signal
    \/ \E s \in Screens, t \in Times : WarpPointer(s, t)
    \/ Reader

Spec == Init /\ [][Next]_vars

\* The dispatch loop always comes back to the input queue, and the signal
\* handler returns: the server process is never stopped for ever.
FairSpec == Spec /\ WF_vars(Reader)

-----------------------------------------------------------------------------
(***************************************************************************)
(* Properties.                                                             *)
(***************************************************************************)
InQueue(i) == IF head <= tail THEN head <= i /\ i < tail ELSE head <= i \/ i < tail

TypeOK ==
    /\ head \in Slots /\ tail \in Slots
    /\ events \in [Slots -> Event]
    /\ lastMotion \in BOOLEAN /\ lastTime \in Times
    /\ enqScreen \in Screens /\ deqScreen \in Screens /\ seen \in Screens
    /\ ptr \in Place /\ sprite \in Place /\ dix \in Place
    /\ pc \in {"idle", "loop", "compare", "switch", "place", "skip", "newscreen",
               "copy", "half", "advance", "deliver", "update", "sprite"}
    /\ xe \in Event
    /\ accepted \in 0..MaxKeys /\ taken \in 0..MaxKeys /\ delivered \in 0..MaxKeys
    /\ moves \in Positions

\* Keys and buttons leave the queue in the order they were accepted, none
\* twice, none overwritten by the handler, whatever the handler interrupts;
\* with one screen each reaches its device.
KS == INSTANCE KeyStream WITH Several <- NumScreens > 1
KeysInOrder == KS!Spec

\* ... and none is left behind in the queue.
KeysTaken == KS!Taken

\* As long as the clock takes no step back of Jump or more, no event is ahead
\* of an older one in time, neither in the queue nor between the event being
\* delivered and those still queued, although motions are overwritten in
\* place.
TimesOrdered ==
    /\ TypeOK
    /\ \A i \in Slots : InQueue(i) => events[i].time <= lastTime
    /\ \A i \in Slots : InQueue(i) /\ InQueue(Succ(i)) =>
                           events[i].time <= events[Succ(i)].time
    /\ pc = "deliver" /\ head # tail => xe.time <= events[head].time

\* ProcessInputEvents returns, although every change of screen it makes may
\* queue a further event, unless the devices keep it busy.
ReaderReturns == pc # "idle" ~> pc = "idle"

\* The displayed sprite catches up with the pointer: also a motion that comes
\* while the queue is being emptied, or that is lost or tossed, is shown.
SpriteCatchesUp == sprite # ptr ~> sprite = ptr

\* mieq.c:85: "Must be reentrant with ProcessInputEvents".  A button event
\* finds the pointer of DIX where it was when the button was pressed.
ClicksWherePointed ==
    pc = "deliver" /\ xe.kind = "key" => dix.pos = xe.pos

\* mieq.c:159: "Assumption - screen switching can only occur on motion events".
OnlyMotionsSwitch == pc = "switch" => here.kind = "motion"
=============================================================================
