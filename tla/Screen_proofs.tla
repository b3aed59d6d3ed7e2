---------------------------- MODULE Screen_proofs ----------------------------
(***************************************************************************)
(* Proofs about the life cycle of a screen (Screen): in every geometry and *)
(* with any memory, commands go through a ring that is the driver's, a     *)
(* screen that is down holds nothing, and another program's terminal is    *)
(* left alone.                                                             *)
(*                                                                         *)
(* The inductive invariant says what the routine that is under way may     *)
(* rely on, call by call: in what state the screen is for each list of     *)
(* calls that is still to be made.                                         *)
(***************************************************************************)
EXTENDS Screen, SequenceTheorems, TLAPS

Names == {"swapOut", "waitSync", "wait", "markSync", "flush", "teardown", "disable",
          "enable", "accel", "geometry", "suspended", "fini", "init"}

\* The ring's area, the driver's record of it and the chip's base agree.
RingUp ==
    /\ "ring" \in DOMAIN areas
    /\ cmd_queue.record = "live" /\ cmd_queue.offset = areas["ring"].offset
    /\ chip.base = cmd_queue.offset

Quiet == cache # "full" /\ ~chip.active
Lit == enabled /\ kdEnabled /\ mapped /\ vt # "away"
Up == Lit /\ cache # "none" /\ RingUp
Down == ~enabled /\ areas = <<>> /\ cache = "none" /\ ~mapped /\ ~chip.active /\ ~needSync

\* What is left to do, once the screen is disabled, of the routines that
\* disable it: RandR's, the switch's, and the end of the server.
Ends == {<<"geometry", "enable">>, <<"suspended">>, <<"fini", "init">>}

Disabling(end) == <<"swapOut", "waitSync", "wait", "teardown", "disable">> \o end

\* A request has filled the cache, and will wait.
Drawing == todo = <<"waitSync", "flush", "markSync">> /\ needSync /\ Up
Awaiting == todo \in {<<"wait">>, <<"wait", "flush">>, <<"wait", "flush", "markSync">>} /\ Up

Serving ==
    /\ todo \in {<<>>, <<"waitSync">>, <<"waitSync", "flush">>, <<"flush">>,
                 <<"flush", "markSync">>, <<"markSync">>}
    /\ Up /\ Quiet

Swapping ==
    \E end \in Ends :
      /\ todo = Disabling(end) \/ todo = <<"wait">> \o Disabling(end)
      /\ Lit /\ Quiet

Emptied ==
    \E end \in Ends :
      /\ \/ todo = <<"waitSync", "wait", "teardown", "disable">> \o end
         \/ /\ ~needSync
            /\ \/ todo = <<"wait", "wait", "teardown", "disable">> \o end
               \/ todo = <<"wait", "teardown", "disable">> \o end
               \/ todo = <<"teardown", "disable">> \o end
               \/ todo = <<"disable">> \o end /\ cache = "none"
      /\ Lit /\ Quiet /\ areas = <<>>

\* Down, and to stay so until the server asks for the screen: if it has, it
\* could not have it.
Dark ==
    /\ todo \in {<<>>, <<"waitSync">>, <<"geometry">>}
    /\ Down /\ (kdEnabled => failed)

\* Down, and about to come up.
Reviving ==
    /\ todo \in {<<"geometry", "enable">>, <<"enable">>}
    /\ Down /\ kdEnabled /\ vt # "away"

Leaving ==
    /\ todo \in {<<"suspended">>, <<"fini", "init">>, <<"init">>}
    /\ Down

Starting == todo = <<"accel", "wait">> /\ Lit /\ Quiet /\ areas = <<>>

Phase ==
    \/ Drawing \/ Awaiting \/ Serving \/ Swapping \/ Emptied
    \/ Dark \/ Reviving \/ Leaving \/ Starting

IInv == TypeOK /\ Phase

\* The type invariant without the list of calls, in two parts.
AreasTyped ==
    /\ DOMAIN areas \subseteq User
    /\ \A u \in DOMAIN areas : areas[u].size > 0 /\ Held(u) \subseteq base..Memory - 1

OtherTyped ==
    /\ failed \in BOOLEAN /\ crashed \in BOOLEAN
    /\ enabled \in BOOLEAN /\ kdEnabled \in BOOLEAN /\ kdSwitchPending \in BOOLEAN
    /\ vt \in {"ours", "leaving", "away", "back"}
    /\ geometry \in Bases /\ base \in Bases
    /\ cmd_queue \in Record /\ video \in Record
    /\ cache \in {"none", "empty", "full"} /\ needSync \in BOOLEAN /\ mapped \in BOOLEAN
    /\ chip \in [base : 0..Memory, active : BOOLEAN]

-----------------------------------------------------------------------------
(***************************************************************************)
(* The lists of calls.                                                     *)
(***************************************************************************)
\* What is called first, and what is left then, in each phase.
LEMMA DrawingList ==
    ASSUME Drawing
    PROVE  todo # <<>> /\ Head(todo) = "waitSync" /\ Tail(todo) = <<"flush", "markSync">>
BY DEF Drawing

LEMMA AwaitingList ==
    ASSUME Awaiting
    PROVE  /\ todo # <<>> /\ Head(todo) = "wait"
           /\ Tail(todo) \in {<<>>, <<"flush">>, <<"flush", "markSync">>}
<1>1. CASE todo = <<"wait">>
  BY <1>1
<1>2. CASE todo = <<"wait", "flush">>
  BY <1>2
<1>3. CASE todo = <<"wait", "flush", "markSync">>
  BY <1>3
<1> QED  BY <1>1, <1>2, <1>3 DEF Awaiting

LEMMA ServingList ==
    ASSUME Serving, todo # <<>>
    PROVE  \/ Head(todo) = "waitSync" /\ Tail(todo) \in {<<>>, <<"flush">>}
           \/ Head(todo) = "flush" /\ Tail(todo) \in {<<>>, <<"markSync">>}
           \/ Head(todo) = "markSync" /\ Tail(todo) = <<>>
<1>1. CASE todo = <<"waitSync">>
  BY <1>1
<1>2. CASE todo = <<"waitSync", "flush">>
  BY <1>2
<1>3. CASE todo = <<"flush">>
  BY <1>3
<1>4. CASE todo = <<"flush", "markSync">>
  BY <1>4
<1>5. CASE todo = <<"markSync">>
  BY <1>5
<1> QED  BY <1>1, <1>2, <1>3, <1>4, <1>5 DEF Serving

LEMMA Joined ==
    /\ <<"wait">> \o <<>> = <<"wait">>
    /\ <<"wait">> \o <<"flush">> = <<"wait", "flush">>
    /\ <<"wait">> \o <<"flush", "markSync">> = <<"wait", "flush", "markSync">>
    /\ <<"waitSync">> \o <<>> = <<"waitSync">>
    /\ <<"waitSync">> \o <<"flush">> = <<"waitSync", "flush">>
    /\ <<"geometry">> \o <<>> = <<"geometry">>
    /\ <<"geometry">> \o <<"enable">> = <<"geometry", "enable">>
    /\ <<"accel", "wait">> \o <<>> = <<"accel", "wait">>
<1>1. ASSUME NEW a \in Names PROVE <<a>> \in Seq(Names)
  BY <1>1
<1>2. ASSUME NEW a \in Names, NEW b \in Names PROVE <<a>> \o <<b>> = <<a, b>>
  <2>1. <<a>> \in Seq(Names) /\ <<b>> \in Seq(Names) /\ <<a, b>> \in Seq(Names)
    BY <1>2
  <2>2. <<a>> \o <<b>> \in Seq(Names) /\ Len(<<a>> \o <<b>>) = 2
    BY <2>1, ConcatProperties
  <2>3. \A i \in 1..2 : (<<a>> \o <<b>>)[i] = <<a, b>>[i]
    BY <2>1
  <2> QED  BY <2>1, <2>2, <2>3, SeqEqual
<1>3. ASSUME NEW a \in Names, NEW b \in Names, NEW c \in Names
      PROVE  <<a>> \o <<b, c>> = <<a, b, c>>
  <2>1. <<a>> \in Seq(Names) /\ <<b, c>> \in Seq(Names) /\ <<a, b, c>> \in Seq(Names)
    BY <1>3
  <2>2. <<a>> \o <<b, c>> \in Seq(Names) /\ Len(<<a>> \o <<b, c>>) = 3
    BY <2>1, ConcatProperties
  <2>3. \A i \in 1..3 : (<<a>> \o <<b, c>>)[i] = <<a, b, c>>[i]
    BY <2>1
  <2> QED  BY <2>1, <2>2, <2>3, SeqEqual
<1>4. {"wait", "flush", "markSync", "waitSync", "geometry", "enable", "accel"} \subseteq Names
  BY DEF Names
<1>5. <<"wait">> \o <<"flush">> = <<"wait", "flush">>
  BY <1>2, <1>4
<1>6. <<"wait">> \o <<"flush", "markSync">> = <<"wait", "flush", "markSync">>
  BY <1>3, <1>4
<1>7. <<"waitSync">> \o <<"flush">> = <<"waitSync", "flush">>
  BY <1>2, <1>4
<1>8. <<"geometry">> \o <<"enable">> = <<"geometry", "enable">>
  BY <1>2, <1>4
<1>9. \A s \in Seq(Names) : s \o <<>> = s
  BY ConcatEmptySeq
<1>10. /\ <<"wait">> \in Seq(Names) /\ <<"waitSync">> \in Seq(Names)
       /\ <<"geometry">> \in Seq(Names) /\ <<"accel", "wait">> \in Seq(Names)
  BY <1>4
<1> QED  BY <1>5, <1>6, <1>7, <1>8, <1>9, <1>10

LEMMA ShortLists == <<>> \in Seq(Names) /\ <<"flush">> \in Seq(Names)
BY DEF Names

LEMMA EndIsList ==
    ASSUME NEW end \in Ends
    PROVE  end \in Seq(Names)
<1>1. <<"geometry", "enable">> \in Seq(Names)
  BY DEF Names
<1>2. <<"suspended">> \in Seq(Names)
  BY DEF Names
<1>3. <<"fini", "init">> \in Seq(Names)
  BY DEF Names
<1> QED  BY <1>1, <1>2, <1>3 DEF Ends

LEMMA SwappingList ==
    ASSUME NEW end \in Ends
    PROVE  /\ Disabling(end) # <<>> /\ Head(Disabling(end)) = "swapOut"
           /\ Tail(Disabling(end)) = <<"waitSync", "wait", "teardown", "disable">> \o end
           /\ <<"wait">> \o Disabling(end) # <<>>
           /\ Head(<<"wait">> \o Disabling(end)) = "wait"
           /\ Tail(<<"wait">> \o Disabling(end)) = Disabling(end)
           /\ Disabling(end) \in Seq(Names) /\ <<"wait">> \o Disabling(end) \in Seq(Names)
<1>1. end \in Seq(Names)
  BY EndIsList
<1>2. <<"swapOut", "waitSync", "wait", "teardown", "disable">> \in Seq(Names)
  BY DEF Names
<1>3. Disabling(end) \in Seq(Names)
  BY <1>1, <1>2, ConcatProperties DEF Disabling
<1>4. <<"wait">> \in Seq(Names)
  BY DEF Names
<1>5. <<"wait">> \o Disabling(end) \in Seq(Names)
  BY <1>3, <1>4, ConcatProperties
<1>6. /\ Disabling(end) # <<>> /\ Head(Disabling(end)) = "swapOut"
      /\ Tail(Disabling(end)) = <<"waitSync", "wait", "teardown", "disable">> \o end
  BY <1>1 DEF Disabling
<1>7. /\ <<"wait">> \o Disabling(end) # <<>>
      /\ Head(<<"wait">> \o Disabling(end)) = "wait"
      /\ Tail(<<"wait">> \o Disabling(end)) = Disabling(end)
  BY <1>3
<1> QED  BY <1>3, <1>5, <1>6, <1>7

LEMMA EmptiedList ==
    ASSUME NEW end \in Ends
    PROVE  LET a == <<"waitSync", "wait", "teardown", "disable">> \o end
               b == <<"wait", "wait", "teardown", "disable">> \o end
               c == <<"wait", "teardown", "disable">> \o end
               d == <<"teardown", "disable">> \o end
               e == <<"disable">> \o end
           IN  /\ a # <<>> /\ Head(a) = "waitSync" /\ Tail(a) = c
               /\ b # <<>> /\ Head(b) = "wait" /\ Tail(b) = c
               /\ c # <<>> /\ Head(c) = "wait" /\ Tail(c) = d
               /\ d # <<>> /\ Head(d) = "teardown" /\ Tail(d) = e
               /\ e # <<>> /\ Head(e) = "disable" /\ Tail(e) = end
               /\ <<"wait">> \o c = b
               /\ {a, b, c, d, e} \subseteq Seq(Names)
<1>1. end \in Seq(Names)
  BY EndIsList
<1>2. /\ <<"waitSync", "wait", "teardown", "disable">> \in Seq(Names)
      /\ <<"wait", "wait", "teardown", "disable">> \in Seq(Names)
      /\ <<"wait", "teardown", "disable">> \in Seq(Names)
      /\ <<"teardown", "disable">> \in Seq(Names)
      /\ <<"disable">> \in Seq(Names)
  BY DEF Names
<1> DEFINE a == <<"waitSync", "wait", "teardown", "disable">> \o end
           b == <<"wait", "wait", "teardown", "disable">> \o end
           c == <<"wait", "teardown", "disable">> \o end
           d == <<"teardown", "disable">> \o end
           e == <<"disable">> \o end
<1>3. {a, b, c, d, e} \subseteq Seq(Names)
  BY <1>1, <1>2, ConcatProperties
<1>4. a # <<>> /\ Head(a) = "waitSync" /\ Tail(a) = c
  BY <1>1
<1>5. b # <<>> /\ Head(b) = "wait" /\ Tail(b) = c
  BY <1>1
<1>6. c # <<>> /\ Head(c) = "wait" /\ Tail(c) = d
  BY <1>1
<1>7. d # <<>> /\ Head(d) = "teardown" /\ Tail(d) = e
  BY <1>1
<1>8. e # <<>> /\ Head(e) = "disable" /\ Tail(e) = end
  BY <1>1
<1>9. <<"wait">> \o c = b
  BY <1>1
<1> QED  BY <1>3, <1>4, <1>5, <1>6, <1>7, <1>8, <1>9

\* The lists that requests begin with.
LEMMA Chained ==
    /\ <<"swapOut", "waitSync", "wait", "teardown", "disable">> \o <<"geometry">> \o <<"enable">>
         = Disabling(<<"geometry", "enable">>)
    /\ <<>> \o <<"geometry">> \o <<>> = <<"geometry">>
    /\ <<>> \o <<"suspended">> = <<"suspended">>
    /\ <<>> \o <<"fini", "init">> = <<"fini", "init">>
<1>1. /\ <<"swapOut", "waitSync", "wait", "teardown", "disable">> \in Seq(Names)
      /\ <<"geometry">> \in Seq(Names) /\ <<"enable">> \in Seq(Names)
      /\ <<"suspended">> \in Seq(Names) /\ <<"fini", "init">> \in Seq(Names)
  BY DEF Names
<1>2. <<"swapOut", "waitSync", "wait", "teardown", "disable">> \o <<"geometry">> \o <<"enable">>
        = <<"swapOut", "waitSync", "wait", "teardown", "disable">> \o (<<"geometry">> \o <<"enable">>)
  BY <1>1, ConcatAssociative
<1>3. \A s \in Seq(Names) : <<>> \o s = s /\ s \o <<>> = s
  BY ConcatEmptySeq
<1> QED  BY <1>1, <1>2, <1>3, Joined DEF Disabling

\* In every phase the calls are calls.
LEMMA ListTyped == Phase => todo \in Seq(Names)
<1> SUFFICES ASSUME Phase PROVE todo \in Seq(Names)
  OBVIOUS
<1>1. CASE Drawing
  BY <1>1 DEF Drawing, Names
<1>2. CASE Awaiting
  <2>1. /\ <<"wait">> \in Seq(Names) /\ <<"wait", "flush">> \in Seq(Names)
        /\ <<"wait", "flush", "markSync">> \in Seq(Names)
    BY DEF Names
  <2> QED  BY <1>2, <2>1 DEF Awaiting
<1>3. CASE Serving
  <2>1. /\ <<>> \in Seq(Names) /\ <<"waitSync">> \in Seq(Names)
        /\ <<"waitSync", "flush">> \in Seq(Names) /\ <<"flush">> \in Seq(Names)
        /\ <<"flush", "markSync">> \in Seq(Names) /\ <<"markSync">> \in Seq(Names)
    BY DEF Names
  <2> QED  BY <1>3, <2>1 DEF Serving
<1>4. CASE Swapping
  BY <1>4, SwappingList DEF Swapping
<1>5. CASE Emptied
  BY <1>5, EmptiedList DEF Emptied
<1>6. CASE Dark
  <2>1. <<>> \in Seq(Names) /\ <<"waitSync">> \in Seq(Names) /\ <<"geometry">> \in Seq(Names)
    BY DEF Names
  <2> QED  BY <1>6, <2>1 DEF Dark
<1>7. CASE Reviving
  <2>1. <<"geometry", "enable">> \in Seq(Names) /\ <<"enable">> \in Seq(Names)
    BY DEF Names
  <2> QED  BY <1>7, <2>1 DEF Reviving
<1>8. CASE Leaving
  <2>1. <<"suspended">> \in Seq(Names) /\ <<"fini", "init">> \in Seq(Names)
        /\ <<"init">> \in Seq(Names)
    BY DEF Names
  <2> QED  BY <1>8, <2>1 DEF Leaving
<1>9. CASE Starting
  BY <1>9 DEF Starting, Names
<1> QED  BY <1>1, <1>2, <1>3, <1>4, <1>5, <1>6, <1>7, <1>8, <1>9 DEF Phase

LEMMA DownList ==
    ASSUME Dark \/ Reviving \/ Leaving \/ Starting, todo # <<>>
    PROVE  \/ Dark /\ Head(todo) \in {"waitSync", "geometry"} /\ Tail(todo) = <<>>
           \/ Reviving /\ Head(todo) = "geometry" /\ Tail(todo) = <<"enable">>
           \/ Reviving /\ Head(todo) = "enable" /\ Tail(todo) = <<>>
           \/ Leaving /\ Head(todo) = "suspended" /\ Tail(todo) = <<>>
           \/ Leaving /\ Head(todo) = "fini" /\ Tail(todo) = <<"init">>
           \/ Leaving /\ Head(todo) = "init" /\ Tail(todo) = <<>>
           \/ Starting /\ Head(todo) = "accel" /\ Tail(todo) = <<"wait">>
<1>1. CASE Dark
  <2>1. \/ todo = <<"waitSync">> \/ todo = <<"geometry">>
    BY <1>1 DEF Dark
  <2>2. CASE todo = <<"waitSync">>
    BY <1>1, <2>2
  <2>3. CASE todo = <<"geometry">>
    BY <1>1, <2>3
  <2> QED  BY <2>1, <2>2, <2>3
<1>2. CASE Reviving
  <2>1. todo = <<"geometry", "enable">> \/ todo = <<"enable">>
    BY <1>2 DEF Reviving
  <2>2. CASE todo = <<"geometry", "enable">>
    BY <1>2, <2>2
  <2>3. CASE todo = <<"enable">>
    BY <1>2, <2>3
  <2> QED  BY <2>1, <2>2, <2>3
<1>3. CASE Leaving
  <2>1. todo = <<"suspended">> \/ todo = <<"fini", "init">> \/ todo = <<"init">>
    BY <1>3 DEF Leaving
  <2>2. CASE todo = <<"suspended">>
    BY <1>3, <2>2
  <2>3. CASE todo = <<"fini", "init">>
    BY <1>3, <2>3
  <2>4. CASE todo = <<"init">>
    BY <1>3, <2>4
  <2> QED  BY <2>1, <2>2, <2>3, <2>4
<1>4. CASE Starting
  <2>1. todo = <<"accel", "wait">>
    BY <1>4 DEF Starting
  <2> QED  BY <1>4, <2>1
<1> QED  BY <1>1, <1>2, <1>3, <1>4

\* Every list of a phase, by its first call: the phase and what is left.
LEMMA Calls ==
    ASSUME Phase, todo # <<>>
    PROVE  \/ Drawing /\ Head(todo) = "waitSync" /\ Tail(todo) = <<"flush", "markSync">>
           \/ /\ Awaiting /\ Head(todo) = "wait"
              /\ Tail(todo) \in {<<>>, <<"flush">>, <<"flush", "markSync">>}
           \/ Serving /\ Head(todo) = "waitSync" /\ Tail(todo) \in {<<>>, <<"flush">>}
           \/ Serving /\ Head(todo) = "flush" /\ Tail(todo) \in {<<>>, <<"markSync">>}
           \/ Serving /\ Head(todo) = "markSync" /\ Tail(todo) = <<>>
           \/ Swapping /\ Head(todo) = "swapOut"
           \/ /\ Swapping /\ Head(todo) = "wait"
              /\ \E end \in Ends : Tail(todo) = Disabling(end)
           \/ /\ Emptied /\ Head(todo) = "waitSync"
              /\ \E end \in Ends : Tail(todo) = <<"wait", "teardown", "disable">> \o end
           \/ /\ Emptied /\ Head(todo) = "wait" /\ ~needSync
              /\ \E end \in Ends : \/ Tail(todo) = <<"wait", "teardown", "disable">> \o end
                                   \/ Tail(todo) = <<"teardown", "disable">> \o end
           \/ /\ Emptied /\ Head(todo) = "teardown" /\ ~needSync
              /\ \E end \in Ends : Tail(todo) = <<"disable">> \o end
           \/ Emptied /\ Head(todo) = "disable" /\ ~needSync /\ cache = "none" /\ Tail(todo) \in Ends
           \/ Dark /\ Head(todo) \in {"waitSync", "geometry"} /\ Tail(todo) = <<>>
           \/ Reviving /\ Head(todo) = "geometry" /\ Tail(todo) = <<"enable">>
           \/ Reviving /\ Head(todo) = "enable" /\ Tail(todo) = <<>>
           \/ Leaving /\ Head(todo) = "suspended" /\ Tail(todo) = <<>>
           \/ Leaving /\ Head(todo) = "fini" /\ Tail(todo) = <<"init">>
           \/ Leaving /\ Head(todo) = "init" /\ Tail(todo) = <<>>
           \/ Starting /\ Head(todo) = "accel" /\ Tail(todo) = <<"wait">>
<1>1. CASE Drawing
  BY <1>1, DrawingList
<1>2. CASE Awaiting
  BY <1>2, AwaitingList
<1>3. CASE Serving
  BY <1>3, ServingList
<1>4. CASE Swapping
  <2>1. PICK end \in Ends : todo = Disabling(end) \/ todo = <<"wait">> \o Disabling(end)
    BY <1>4 DEF Swapping
  <2>2. CASE todo = Disabling(end)
    BY <1>4, <2>2, SwappingList
  <2>3. CASE todo = <<"wait">> \o Disabling(end)
    BY <1>4, <2>3, SwappingList
  <2> QED  BY <2>1, <2>2, <2>3
<1>5. CASE Emptied
  <2>1. PICK end \in Ends :
          \/ todo = <<"waitSync", "wait", "teardown", "disable">> \o end
          \/ ~needSync /\ todo = <<"wait", "wait", "teardown", "disable">> \o end
          \/ ~needSync /\ todo = <<"wait", "teardown", "disable">> \o end
          \/ ~needSync /\ todo = <<"teardown", "disable">> \o end
          \/ ~needSync /\ todo = <<"disable">> \o end /\ cache = "none"
    BY <1>5 DEF Emptied
  <2>2. CASE todo = <<"waitSync", "wait", "teardown", "disable">> \o end
    <3>1. todo # <<>> /\ Head(todo) = "waitSync" /\ Tail(todo) = <<"wait", "teardown", "disable">> \o end
      BY <2>2, EmptiedList
    <3> QED  BY <1>5, <2>2, <3>1
  <2>3. CASE ~needSync /\ todo = <<"wait", "wait", "teardown", "disable">> \o end
    <3>1. todo # <<>> /\ Head(todo) = "wait" /\ Tail(todo) = <<"wait", "teardown", "disable">> \o end
      BY <2>3, EmptiedList
    <3> QED  BY <1>5, <2>3, <3>1
  <2>4. CASE ~needSync /\ todo = <<"wait", "teardown", "disable">> \o end
    <3>1. todo # <<>> /\ Head(todo) = "wait" /\ Tail(todo) = <<"teardown", "disable">> \o end
      BY <2>4, EmptiedList
    <3> QED  BY <1>5, <2>4, <3>1
  <2>5. CASE ~needSync /\ todo = <<"teardown", "disable">> \o end
    <3>1. todo # <<>> /\ Head(todo) = "teardown" /\ Tail(todo) = <<"disable">> \o end
      BY <2>5, EmptiedList
    <3> QED  BY <1>5, <2>5, <3>1
  <2>6. CASE ~needSync /\ todo = <<"disable">> \o end /\ cache = "none"
    <3>1. todo # <<>> /\ Head(todo) = "disable" /\ Tail(todo) = end
      BY <2>6, EmptiedList
    <3> QED  BY <1>5, <2>6, <3>1
  <2> QED  BY <2>1, <2>2, <2>3, <2>4, <2>5, <2>6
<1>6. CASE Dark \/ Reviving \/ Leaving \/ Starting
  BY <1>6, DownList
<1> QED  BY <1>1, <1>2, <1>3, <1>4, <1>5, <1>6 DEF Phase

LEMMA TypeParts == TypeOK <=> todo \in Seq(Names) /\ AreasTyped /\ OtherTyped
BY DEF TypeOK, AreasTyped, OtherTyped, Names

\* What has to be shown of a step.
LEMMA Parts == IInv <=> Phase /\ AreasTyped /\ OtherTyped
BY ListTyped, TypeParts DEF IInv

LEMMA PartsNext ==
    ASSUME Phase', AreasTyped', OtherTyped'
    PROVE  IInv'
BY Parts, PTL

-----------------------------------------------------------------------------
(***************************************************************************)
(* Memory.                                                                 *)
(***************************************************************************)
LEMMA Users ==
    /\ "ring" \in User /\ "video" \in User /\ "ring" # "video"
    /\ \A p \in Pixmaps : p \in User /\ p # "ring" /\ p # "video"
BY ScreenAssumption DEF User

\* A new area, where the allocator may put it.
LEMMA Allocated ==
    ASSUME NEW u \in User, NEW size \in Nat \ {0}, NEW used, used \subseteq DOMAIN areas,
           AreasTyped, OtherTyped, Alloc(u, size, used), UNCHANGED base
    PROVE  /\ AreasTyped' /\ DOMAIN areas' = used \cup {u}
           /\ areas'[u].size = size /\ areas'[u].offset \in 0..Memory
           /\ \A v \in used \ {u} : areas'[v] = areas[v]
<1>1. PICK o \in Places(size, used) :
        areas' = [v \in used \cup {u} |->
                    IF v = u THEN [offset |-> o, size |-> size] ELSE areas[v]]
  BY DEF Alloc
<1>2. DOMAIN areas' = used \cup {u} /\ areas'[u] = [offset |-> o, size |-> size]
  BY <1>1
<1>3. \A v \in used \ {u} : areas'[v] = areas[v]
  BY <1>1
<1>4. base \in Nat /\ Memory \in Nat /\ o \in Int /\ base <= o /\ o + size <= Memory
  BY ScreenAssumption DEF OtherTyped, Places
<1>5. o \in 0..Memory
  BY <1>4
<1>6. ASSUME NEW v \in DOMAIN areas'
      PROVE  areas'[v].size > 0 /\ Held(v)' \subseteq base'..Memory - 1
  <2>1. CASE v = u
    <3>1. areas'[v].size = size /\ areas'[v].offset = o
      BY <1>2, <2>1
    <3>2. Held(v)' = o..o + size - 1
      BY <3>1 DEF Held
    <3>3. o..o + size - 1 \subseteq base..Memory - 1
      BY <1>4
    <3> QED  BY <3>1, <3>2, <3>3
  <2>2. CASE v # u
    <3>1. v \in used /\ v \in DOMAIN areas /\ areas'[v] = areas[v]
      BY <1>2, <1>3, <2>2
    <3>2. Held(v)' = Held(v)
      BY <3>1 DEF Held
    <3> QED  BY <3>1, <3>2 DEF AreasTyped
  <2> QED  BY <2>1, <2>2
<1>7. DOMAIN areas' \subseteq User
  BY <1>2 DEF AreasTyped
<1>8. AreasTyped'
  BY <1>6, <1>7 DEF AreasTyped
<1> QED  BY <1>2, <1>3, <1>5, <1>8

LEMMA NoAreas ==
    ASSUME areas' = <<>>
    PROVE  AreasTyped'
<1>1. DOMAIN <<>> = {}
  OBVIOUS
<1>2. DOMAIN areas' = {}
  BY <1>1
<1> QED  BY <1>2 DEF AreasTyped

LEMMA AreasKept ==
    ASSUME AreasTyped, areas' = areas, base' = base
    PROVE  AreasTyped'
BY DEF AreasTyped, Held

\* Areas given back.
LEMMA Fewer ==
    ASSUME NEW us, areas' = [u \in DOMAIN areas \ us |-> areas[u]], AreasTyped, UNCHANGED base
    PROVE  /\ AreasTyped' /\ DOMAIN areas' = DOMAIN areas \ us
           /\ \A u \in DOMAIN areas \ us : areas'[u] = areas[u]
<1>1. DOMAIN areas' = DOMAIN areas \ us /\ \A u \in DOMAIN areas \ us : areas'[u] = areas[u]
  OBVIOUS
<1>2. ASSUME NEW v \in DOMAIN areas'
      PROVE  areas'[v].size > 0 /\ Held(v)' \subseteq base'..Memory - 1
  <2>1. v \in DOMAIN areas /\ areas'[v] = areas[v]
    BY <1>1
  <2>2. Held(v)' = Held(v)
    BY <2>1 DEF Held
  <2> QED  BY <2>1, <2>2 DEF AreasTyped
<1> QED  BY <1>1, <1>2 DEF AreasTyped

LEMMA FreedRecord ==
    ASSUME NEW r \in Record, NEW u, NEW us
    PROVE  Freed(r, u, us) \in Record /\ (u \notin us => Freed(r, u, us) = r)
BY DEF Freed, Record


\* A batch goes to the ring, or the ring starts anew: with the ring up the
\* chip stays where the ring is.
LEMMA Dispatched ==
    ASSUME OtherTyped, RingUp, Dispatch
    PROVE  /\ cache' = "empty" /\ chip' \in [base : 0..Memory, active : BOOLEAN]
           /\ chip'.base = cmd_queue.offset
<1>1. cache' = "empty" /\ (chip' = [chip EXCEPT !.active = TRUE] \/ ResetCP)
  BY DEF Dispatch
<1>2. CASE chip' = [chip EXCEPT !.active = TRUE]
  BY <1>1, <1>2 DEF OtherTyped, RingUp
<1>3. CASE ResetCP
  <2>1. chip' = [base |-> areas["ring"].offset, active |-> TRUE]
    BY <1>3 DEF ResetCP, RingUp
  <2>2. areas["ring"].offset = cmd_queue.offset /\ cmd_queue.offset \in 0..Memory
    BY DEF RingUp, OtherTyped, Record
  <2> QED  BY <1>1, <2>1, <2>2
<1> QED  BY <1>1, <1>2, <1>3

-----------------------------------------------------------------------------
(***************************************************************************)
(* Every call preserves the invariant.                                     *)
(***************************************************************************)
LEMMA KaaWaitSyncOK ==
    ASSUME IInv, KaaWaitSync
    PROVE  IInv'
<1>1. Phase /\ AreasTyped /\ OtherTyped
  BY Parts
<1>2. todo # <<>> /\ Head(todo) = "waitSync"
  BY DEF KaaWaitSync, Calling
<1>3. /\ todo' = (IF needSync THEN <<"wait">> ELSE <<>>) \o Tail(todo)
      /\ needSync' = FALSE
      /\ UNCHANGED <<failed, crashed, mode, memory, cache, mapped, chip>>
  BY DEF KaaWaitSync, Then
<1>4. AreasTyped' /\ OtherTyped'
  <2>1. UNCHANGED <<failed, crashed, mode, memory, cache, mapped, chip>> /\ needSync' = FALSE
    BY <1>3
  <2>2. UNCHANGED <<enabled, kdEnabled, vt, kdSwitchPending, geometry, base, areas, cmd_queue, video>>
    BY <2>1 DEF mode, memory
  <2>3. AreasTyped'
    BY <1>1, <2>2, AreasKept
  <2>4. OtherTyped'
    BY <1>1, <2>1, <2>2 DEF OtherTyped
  <2> QED  BY <2>3, <2>4
<1>5. ASSUME Tail(todo) \in Seq(Names), ~needSync PROVE todo' = Tail(todo)
  BY <1>3, <1>5, ConcatEmptySeq
<1>6. ASSUME Up PROVE Up'
  BY <1>3, <1>6 DEF Up, Lit, RingUp, mode, memory
<1>7. CASE Drawing /\ Tail(todo) = <<"flush", "markSync">>
  <2>1. todo' = <<"wait">> \o <<"flush", "markSync">>
    BY <1>3, <1>7 DEF Drawing
  <2>2. <<"wait">> \o <<"flush", "markSync">> = <<"wait", "flush", "markSync">>
    BY Joined
  <2>3. Awaiting'
    BY <1>6, <1>7, <2>1, <2>2 DEF Drawing, Awaiting
  <2> QED  BY <1>4, <2>3, PartsNext DEF Phase
<1>8. CASE Serving /\ Tail(todo) \in {<<>>, <<"flush">>}
  <2>1. Up'
    BY <1>6, <1>8 DEF Serving
  <2>2. CASE needSync
    <3>1. <<"wait">> \o <<>> = <<"wait">> /\ <<"wait">> \o <<"flush">> = <<"wait", "flush">>
      BY Joined
    <3>2. Awaiting'
      BY <1>3, <1>8, <2>1, <2>2, <3>1 DEF Awaiting
    <3> QED  BY <1>4, <3>2, PartsNext DEF Phase
  <2>3. CASE ~needSync
    <3>1. Tail(todo) \in Seq(Names)
      BY <1>8, ShortLists
    <3>2. todo' \in {<<>>, <<"flush">>}
      BY <1>5, <1>8, <2>3, <3>1
    <3>3. Serving'
      BY <1>3, <1>8, <2>1, <3>2 DEF Serving, Quiet
    <3> QED  BY <1>4, <3>3, PartsNext DEF Phase
  <2> QED  BY <1>1, <2>2, <2>3 DEF OtherTyped
<1>9. CASE Emptied /\ \E end \in Ends : Tail(todo) = <<"wait", "teardown", "disable">> \o end
  <2>1. PICK end \in Ends : Tail(todo) = <<"wait", "teardown", "disable">> \o end
    BY <1>9
  <2>2. (Lit /\ Quiet /\ areas = <<>>)'
    BY <1>3, <1>9 DEF Emptied, Lit, Quiet, mode, memory
  <2>3. CASE needSync
    <3>1. todo' = <<"wait", "wait", "teardown", "disable">> \o end
      BY <1>3, <2>1, <2>3, EmptiedList
    <3>2. Emptied'
      BY <1>3, <2>2, <3>1 DEF Emptied
    <3> QED  BY <1>4, <3>2, PartsNext DEF Phase
  <2>4. CASE ~needSync
    <3>1. todo' = <<"wait", "teardown", "disable">> \o end
      BY <1>5, <2>1, <2>4, EmptiedList
    <3>2. Emptied'
      BY <1>3, <2>2, <3>1 DEF Emptied
    <3> QED  BY <1>4, <3>2, PartsNext DEF Phase
  <2> QED  BY <1>1, <2>3, <2>4 DEF OtherTyped
<1>10. CASE Dark /\ Tail(todo) = <<>>
  <2>1. todo' = <<>>
    <3>1. Tail(todo) \in Seq(Names) /\ ~needSync
      BY <1>10, ShortLists DEF Dark, Down
    <3> QED  BY <1>5, <1>10, <3>1
  <2>2. Dark'
    BY <1>3, <1>10, <2>1 DEF Dark, Down, mode, memory
  <2> QED  BY <1>4, <2>2, PartsNext DEF Phase
<1> QED  BY <1>1, <1>2, <1>7, <1>8, <1>9, <1>10, Calls

LEMMA MarkSyncOK ==
    ASSUME IInv, MarkSync
    PROVE  IInv'
<1>1. Phase /\ AreasTyped /\ OtherTyped
  BY Parts
<1>2. todo # <<>> /\ Head(todo) = "markSync"
  BY DEF MarkSync, Calling
<1>3. /\ todo' = Tail(todo) /\ needSync' = TRUE
      /\ UNCHANGED <<failed, crashed, mode, memory, cache, mapped, chip>>
  BY DEF MarkSync, Done
<1>4. AreasTyped' /\ OtherTyped'
  BY <1>1, <1>3, AreasKept DEF OtherTyped, mode, memory
<1>5. Serving /\ Tail(todo) = <<>>
  BY <1>1, <1>2, Calls
<1>6. Serving'
  BY <1>3, <1>5 DEF Serving, Up, Lit, RingUp, Quiet, mode, memory
<1> QED  BY <1>4, <1>6, PartsNext DEF Phase

\* When a wait has ended the chip is idle and the cache flushed.
LEMMA Waited ==
    ASSUME IInv, Calling("wait"), Done, cache # "full", UNCHANGED <<mode, memory, cache, needSync, mapped>>,
           chip' = [chip EXCEPT !.active = FALSE]
    PROVE  IInv'
<1>1. Phase /\ AreasTyped /\ OtherTyped
  BY Parts
<1>2. todo # <<>> /\ Head(todo) = "wait"
  BY DEF Calling
<1>3. todo' = Tail(todo) /\ UNCHANGED <<failed, crashed>>
  BY DEF Done
<1>4. chip' \in [base : 0..Memory, active : BOOLEAN] /\ chip'.base = chip.base /\ ~chip'.active
  BY <1>1 DEF OtherTyped
<1>5. AreasTyped' /\ OtherTyped'
  BY <1>1, <1>3, <1>4, AreasKept DEF OtherTyped, mode, memory
<1>6. Quiet'
  BY <1>4 DEF Quiet
<1>7. CASE Awaiting /\ Tail(todo) \in {<<>>, <<"flush">>, <<"flush", "markSync">>}
  <2>1. Serving'
    BY <1>3, <1>4, <1>6, <1>7 DEF Awaiting, Serving, Up, Lit, RingUp, mode, memory
  <2> QED  BY <1>5, <2>1, PartsNext DEF Phase
<1>8. CASE Swapping /\ \E end \in Ends : Tail(todo) = Disabling(end)
  <2>1. Swapping'
    BY <1>3, <1>6, <1>8 DEF Swapping, Lit, mode
  <2> QED  BY <1>5, <2>1, PartsNext DEF Phase
<1>9. CASE /\ Emptied /\ ~needSync
           /\ \E end \in Ends : \/ Tail(todo) = <<"wait", "teardown", "disable">> \o end
                                \/ Tail(todo) = <<"teardown", "disable">> \o end
  <2>1. PICK end \in Ends : \/ Tail(todo) = <<"wait", "teardown", "disable">> \o end
                            \/ Tail(todo) = <<"teardown", "disable">> \o end
    BY <1>9
  <2>2. (Lit /\ areas = <<>>)' /\ ~needSync'
    BY <1>3, <1>9 DEF Emptied, Lit, mode, memory
  <2>3. Emptied'
    BY <1>3, <1>6, <2>1, <2>2 DEF Emptied
  <2> QED  BY <1>5, <2>3, PartsNext DEF Phase
<1> QED  BY <1>1, <1>2, <1>7, <1>8, <1>9, Calls

LEMMA WaitFlushOK ==
    ASSUME IInv, WaitFlush
    PROVE  IInv'
<1>1. Phase /\ AreasTyped /\ OtherTyped
  BY Parts
<1>2. todo # <<>> /\ Head(todo) = "wait" /\ cache = "full"
  BY DEF WaitFlush, Calling
<1>3. Dispatch /\ UNCHANGED <<control, mode, memory, needSync, mapped>>
  BY DEF WaitFlush
<1>4. Awaiting
  BY <1>1, <1>2, Calls DEF Swapping, Emptied, Quiet
<1>5. /\ cache' = "empty" /\ chip' \in [base : 0..Memory, active : BOOLEAN]
      /\ chip'.base = cmd_queue.offset
  BY <1>1, <1>3, <1>4, Dispatched DEF Awaiting, Up
<1>6. AreasTyped' /\ OtherTyped'
  BY <1>1, <1>3, <1>5, AreasKept DEF OtherTyped, control, mode, memory
<1>7. Awaiting'
  BY <1>3, <1>4, <1>5 DEF Awaiting, Up, Lit, RingUp, control, mode, memory
<1> QED  BY <1>6, <1>7, PartsNext DEF Phase

LEMMA EngineWaitOK ==
    ASSUME IInv, EngineWait
    PROVE  IInv'
<1>1. Phase /\ AreasTyped /\ OtherTyped
  BY Parts
<1>2. /\ Calling("wait") /\ Done /\ (mapped => cache # "full" /\ ~chip.active)
      /\ UNCHANGED <<mode, memory, driver>>
  BY DEF EngineWait
<1>3. Lit
  BY <1>1, <1>2, Calls DEF Calling, Awaiting, Swapping, Emptied, Up
<1>4. cache # "full" /\ ~chip.active
  BY <1>2, <1>3 DEF Lit
<1>5. chip' = [chip EXCEPT !.active = FALSE]
  BY <1>1, <1>2, <1>4 DEF OtherTyped, driver
<1>6. UNCHANGED <<mode, memory, cache, needSync, mapped>>
  BY <1>2 DEF driver
<1> QED  BY <1>2, <1>4, <1>5, <1>6, Waited

LEMMA TimeoutOK ==
    ASSUME IInv, Timeout
    PROVE  IInv'
BY Waited DEF Timeout

LEMMA FlushCMDQCacheOK ==
    ASSUME IInv, FlushCMDQCache
    PROVE  IInv'
<1>1. Phase /\ AreasTyped /\ OtherTyped
  BY Parts
<1>2. todo # <<>> /\ Head(todo) = "flush"
  BY DEF FlushCMDQCache, Calling
<1>3. Serving /\ Tail(todo) \in {<<>>, <<"markSync">>}
  BY <1>1, <1>2, Calls
<1>4. todo' = Tail(todo) /\ UNCHANGED <<failed, crashed, mode, memory, needSync, mapped, cache, chip>>
  BY <1>3 DEF FlushCMDQCache, Done, Serving, Quiet
<1>5. AreasTyped' /\ OtherTyped'
  BY <1>1, <1>4, AreasKept DEF OtherTyped, mode, memory
<1>6. Serving'
  BY <1>3, <1>4 DEF Serving, Up, Lit, RingUp, Quiet, mode, memory
<1> QED  BY <1>5, <1>6, PartsNext DEF Phase

LEMMA SwapOutOK ==
    ASSUME IInv, SwapOut
    PROVE  IInv'
<1>1. Phase /\ AreasTyped /\ OtherTyped
  BY Parts
<1>2. todo # <<>> /\ Head(todo) = "swapOut"
  BY DEF SwapOut, Calling
<1>3. Swapping
  BY <1>1, <1>2, Calls
<1>4. PICK end \in Ends : todo = Disabling(end) \/ todo = <<"wait">> \o Disabling(end)
  BY <1>3 DEF Swapping
<1>5. /\ todo = Disabling(end)
      /\ Tail(todo) = <<"waitSync", "wait", "teardown", "disable">> \o end
  BY <1>2, <1>4, SwappingList
<1>6. Lit' /\ Quiet' /\ UNCHANGED <<mode, geometry, base, cache, mapped, chip>>
  BY <1>3 DEF SwapOut, Swapping, Lit, Quiet, mode
<1> DEFINE u == CHOOSE u \in DOMAIN areas :
                  \A v \in DOMAIN areas : areas[u].offset <= areas[v].offset
<1>7. \/ areas = <<>> /\ Done /\ UNCHANGED <<needSync, areas, cmd_queue, video>>
      \/ First(<<"wait">>) /\ needSync' = FALSE /\ UNCHANGED <<areas, cmd_queue, video>>
      \/ Free({u}) /\ UNCHANGED <<control, needSync>>
  BY DEF SwapOut
<1> HIDE DEF u
<1>8. CASE areas = <<>> /\ Done /\ UNCHANGED <<needSync, areas, cmd_queue, video>>
  <2>1. AreasTyped' /\ OtherTyped'
    BY <1>1, <1>6, <1>8, AreasKept DEF OtherTyped, mode, Done
  <2>2. Emptied'
    <3>1. todo' = <<"waitSync", "wait", "teardown", "disable">> \o end /\ areas' = <<>>
      BY <1>5, <1>8 DEF Done
    <3> QED  BY <1>6, <3>1 DEF Emptied
  <2> QED  BY <2>1, <2>2, PartsNext DEF Phase
<1>9. CASE First(<<"wait">>) /\ needSync' = FALSE /\ UNCHANGED <<areas, cmd_queue, video>>
  <2>1. AreasTyped' /\ OtherTyped'
    <3>1. UNCHANGED <<failed, crashed, areas, cmd_queue, video>> /\ needSync' = FALSE
      BY <1>9 DEF First
    <3>2. AreasTyped'
      BY <1>1, <1>6, <3>1, AreasKept
    <3>3. OtherTyped'
      BY <1>1, <1>6, <3>1 DEF OtherTyped, mode
    <3> QED  BY <3>2, <3>3
  <2>2. Swapping'
    BY <1>5, <1>6, <1>9 DEF Swapping, First
  <2> QED  BY <2>1, <2>2, PartsNext DEF Phase
<1>10. CASE Free({u}) /\ UNCHANGED <<control, needSync>>
  <2>1. AreasTyped'
    BY <1>1, <1>6, <1>10, Fewer DEF Free
  <2>2. OtherTyped'
    BY <1>1, <1>6, <1>10, FreedRecord DEF Free, OtherTyped, mode, control
  <2>3. Swapping'
    BY <1>5, <1>6, <1>10 DEF Swapping, control
  <2> QED  BY <2>1, <2>2, <2>3, PartsNext DEF Phase
<1> QED  BY <1>7, <1>8, <1>9, <1>10

LEMMA CacheTeardownOK ==
    ASSUME IInv, CacheTeardown
    PROVE  IInv'
<1>1. Phase /\ AreasTyped /\ OtherTyped
  BY Parts
<1>2. todo # <<>> /\ Head(todo) = "teardown"
  BY DEF CacheTeardown, Calling
<1>3. /\ todo' = Tail(todo) /\ cache' = "none"
      /\ UNCHANGED <<failed, crashed, mode, memory, needSync, mapped, chip>>
  BY DEF CacheTeardown, Done
<1>4. AreasTyped' /\ OtherTyped'
  BY <1>1, <1>3, AreasKept DEF OtherTyped, mode, memory
<1>5. PICK end \in Ends : Emptied /\ ~needSync /\ Tail(todo) = <<"disable">> \o end
  BY <1>1, <1>2, Calls
<1>6. Emptied'
  BY <1>3, <1>5 DEF Emptied, Lit, Quiet, mode, memory
<1> QED  BY <1>4, <1>6, PartsNext DEF Phase

LEMMA GLAMODisableOK ==
    ASSUME IInv, GLAMODisable
    PROVE  IInv'
<1>1. Phase /\ AreasTyped /\ OtherTyped
  BY Parts
<1>2. todo # <<>> /\ Head(todo) = "disable"
  BY DEF GLAMODisable, Calling
<1>3. /\ todo' = Tail(todo) /\ enabled' = FALSE /\ mapped' = FALSE
      /\ UNCHANGED <<failed, crashed, kdEnabled, vt, kdSwitchPending, memory, cache, needSync, chip>>
  BY DEF GLAMODisable, Done
<1>4. AreasTyped' /\ OtherTyped'
  BY <1>1, <1>3, AreasKept DEF OtherTyped, memory
<1>5. Emptied /\ ~needSync /\ cache = "none" /\ Tail(todo) \in Ends
  BY <1>1, <1>2, Calls
<1>6. Down' /\ kdEnabled' /\ vt' # "away"
  BY <1>3, <1>5 DEF Emptied, Down, Lit, Quiet, memory
<1>7. Reviving' \/ Leaving'
  BY <1>3, <1>5, <1>6 DEF Reviving, Leaving, Ends
<1> QED  BY <1>4, <1>7, PartsNext DEF Phase

LEMMA KdEnableScreenOK ==
    ASSUME IInv, KdEnableScreen
    PROVE  IInv'
<1>1. Phase /\ AreasTyped /\ OtherTyped
  BY Parts
<1>2. todo # <<>> /\ Head(todo) = "enable"
  BY DEF KdEnableScreen, Calling
<1>3. Reviving /\ Tail(todo) = <<>>
  BY <1>1, <1>2, Calls
<1>4. UNCHANGED <<crashed, kdEnabled, vt, kdSwitchPending, geometry, cmd_queue, video, cache, needSync, chip>>
  BY DEF KdEnableScreen
<1>5. CASE /\ enabled' = TRUE /\ mapped' = TRUE /\ base' = geometry /\ areas' = <<>>
           /\ Then(<<"accel", "wait">>) /\ failed' = FALSE
  <2>1. todo' = <<"accel", "wait">>
    BY <1>3, <1>5, Joined DEF Then
  <2>2. AreasTyped' /\ OtherTyped'
    BY <1>1, <1>4, <1>5, NoAreas DEF OtherTyped
  <2>3. Starting'
    BY <1>3, <1>4, <1>5, <2>1 DEF Reviving, Down, Starting, Lit, Quiet
  <2> QED  BY <2>2, <2>3, PartsNext DEF Phase
<1>6. CASE failed' = TRUE /\ todo' = Tail(todo) /\ UNCHANGED <<enabled, mapped, base, areas>>
  <2>1. AreasTyped' /\ OtherTyped'
    BY <1>1, <1>4, <1>6, AreasKept DEF OtherTyped
  <2>2. Dark'
    BY <1>3, <1>4, <1>6 DEF Reviving, Down, Dark
  <2> QED  BY <2>1, <2>2, PartsNext DEF Phase
<1> QED  BY <1>3, <1>5, <1>6 DEF KdEnableScreen, Reviving, Down

LEMMA CMDQCacheSetupOK ==
    ASSUME IInv, CMDQCacheSetup
    PROVE  IInv'
<1>1. Phase /\ AreasTyped /\ OtherTyped
  BY Parts
<1>2. todo # <<>> /\ Head(todo) = "accel"
  BY DEF CMDQCacheSetup, Calling
<1>3. Starting /\ Tail(todo) = <<"wait">>
  BY <1>1, <1>2, Calls
<1>4. /\ Alloc("ring", RingSize, DOMAIN areas)
      /\ cmd_queue' = [record |-> "live", offset |-> areas'["ring"].offset, size |-> RingSize]
      /\ chip' = [base |-> areas'["ring"].offset, active |-> FALSE]
      /\ cache' = (IF cache = "none" THEN "empty" ELSE cache)
      /\ todo' = Tail(todo)
      /\ UNCHANGED <<failed, crashed, mode, geometry, base, video, needSync, mapped>>
  BY DEF CMDQCacheSetup, Done
<1>5. /\ AreasTyped' /\ DOMAIN areas' = DOMAIN areas \cup {"ring"}
      /\ areas'["ring"].offset \in 0..Memory
  BY <1>1, <1>4, Allocated, Users, ScreenAssumption
<1>6. OtherTyped'
  BY <1>1, <1>4, <1>5, ScreenAssumption DEF OtherTyped, Record, mode
<1>7. RingUp' /\ cache' # "none" /\ Lit'
  BY <1>3, <1>4, <1>5 DEF RingUp, Starting, Lit, mode
<1>8. Awaiting'
  BY <1>3, <1>4, <1>7 DEF Awaiting, Up
<1> QED  BY <1>5, <1>6, <1>8, PartsNext DEF Phase

LEMMA SetScannoutGeometryOK ==
    ASSUME IInv, SetScannoutGeometry
    PROVE  IInv'
<1>1. Phase /\ AreasTyped /\ OtherTyped
  BY Parts
<1>2. todo # <<>> /\ Head(todo) = "geometry"
  BY DEF SetScannoutGeometry, Calling
<1>3. /\ UNCHANGED <<mode, base, areas, cmd_queue, video, driver>> /\ UNCHANGED crashed
      /\ \/ geometry' \in Bases /\ todo' = Tail(todo) /\ UNCHANGED failed
         \/ geometry' = geometry /\ todo' = <<>> /\ failed' = (failed \/ Tail(todo) # <<>>)
  BY DEF SetScannoutGeometry, Done
<1>4. failed' \in BOOLEAN
  <2>1. failed \in BOOLEAN
    BY <1>1 DEF OtherTyped
  <2>2. failed' = failed \/ failed' = (failed \/ Tail(todo) # <<>>)
    BY <1>3
  <2> QED  BY <2>1, <2>2
<1>5. geometry' \in Bases
  BY <1>1, <1>3 DEF OtherTyped
<1>6. AreasTyped' /\ OtherTyped'
  BY <1>1, <1>3, <1>4, <1>5, AreasKept DEF OtherTyped, mode, driver
<1>7. (Dark /\ Tail(todo) = <<>>) \/ (Reviving /\ Tail(todo) = <<"enable">>)
  BY <1>1, <1>2, Calls
<1>8. Down' /\ UNCHANGED <<kdEnabled, vt>>
  BY <1>3, <1>7 DEF Dark, Reviving, Down, mode, driver
<1>9. CASE Dark /\ Tail(todo) = <<>>
  BY <1>3, <1>6, <1>8, <1>9, PartsNext DEF Phase, Dark
<1>10. CASE Reviving /\ Tail(todo) = <<"enable">>
  <2>1. <<"enable">> # <<>>
    OBVIOUS
  <2>2. Reviving' \/ Dark'
    BY <1>3, <1>8, <1>10, <2>1 DEF Reviving, Dark
  <2> QED  BY <1>6, <2>2, PartsNext DEF Phase
<1> QED  BY <1>7, <1>9, <1>10

LEMMA SuspendedOK ==
    ASSUME IInv, Suspended
    PROVE  IInv'
<1>1. Phase /\ AreasTyped /\ OtherTyped
  BY Parts
<1>2. todo # <<>> /\ Head(todo) = "suspended"
  BY DEF Suspended, Calling
<1>3. /\ todo' = Tail(todo) /\ kdEnabled' = FALSE /\ LinuxDisable
      /\ UNCHANGED <<failed, crashed, enabled, memory, driver>>
  BY DEF Suspended, Done
<1>4. AreasTyped' /\ OtherTyped'
  BY <1>1, <1>3, AreasKept DEF OtherTyped, memory, driver, LinuxDisable
<1>5. Leaving /\ Tail(todo) = <<>>
  BY <1>1, <1>2, Calls
<1>6. Dark'
  BY <1>3, <1>5 DEF Leaving, Dark, Down, memory, driver
<1> QED  BY <1>4, <1>6, PartsNext DEF Phase

LEMMA ScreenFiniOK ==
    ASSUME IInv, ScreenFini
    PROVE  IInv'
<1>1. Phase /\ AreasTyped /\ OtherTyped
  BY Parts
<1>2. todo # <<>> /\ Head(todo) = "fini"
  BY DEF ScreenFini, Calling
<1>3. /\ todo' = Tail(todo) /\ kdEnabled' = FALSE /\ mapped' = FALSE
      /\ vt' \in {vt, "away"} /\ kdSwitchPending' \in {kdSwitchPending, FALSE}
      /\ cmd_queue' = NoRecord /\ video' = NoRecord /\ crashed' \in BOOLEAN
      /\ UNCHANGED <<failed, enabled, geometry, base, areas, cache, needSync, chip>>
  BY DEF ScreenFini, LinuxDisable
<1>4. NoRecord \in Record
  BY ScreenAssumption DEF NoRecord, Record
<1>5. AreasTyped' /\ OtherTyped'
  BY <1>1, <1>3, <1>4, AreasKept DEF OtherTyped
<1>6. Leaving /\ Tail(todo) = <<"init">>
  BY <1>1, <1>2, Calls
<1>7. Leaving'
  BY <1>3, <1>6 DEF Leaving, Down
<1> QED  BY <1>5, <1>7, PartsNext DEF Phase

LEMMA KdScreenInitOK ==
    ASSUME IInv, KdScreenInit
    PROVE  IInv'
<1>1. Phase /\ AreasTyped /\ OtherTyped
  BY Parts
<1>2. todo # <<>> /\ Head(todo) = "init"
  BY DEF KdScreenInit, Calling
<1>3. /\ todo' = <<"accel", "wait">> \o Tail(todo) /\ vt' = "ours" /\ kdSwitchPending' = FALSE
      /\ kdEnabled' = TRUE /\ enabled' = TRUE /\ mapped' = TRUE /\ base' = geometry
      /\ failed' = FALSE
      /\ UNCHANGED <<crashed, geometry, areas, cmd_queue, video, cache, needSync, chip>>
  BY DEF KdScreenInit, Then, LinuxEnable
<1>4. Leaving /\ Tail(todo) = <<>>
  BY <1>1, <1>2, Calls
<1>5. areas' = <<>>
  BY <1>3, <1>4 DEF Leaving, Down
<1>6. AreasTyped' /\ OtherTyped'
  BY <1>1, <1>3, <1>5, NoAreas DEF OtherTyped
<1>7. todo' = <<"accel", "wait">>
  BY <1>3, <1>4, Joined
<1>8. Starting'
  BY <1>3, <1>4, <1>5, <1>7 DEF Leaving, Down, Starting, Lit, Quiet
<1> QED  BY <1>6, <1>8, PartsNext DEF Phase

-----------------------------------------------------------------------------
(***************************************************************************)
(* Requests, handlers, the chip and the user.                              *)
(***************************************************************************)
\* Between two requests the screen serves or is dark.
LEMMA Resting ==
    ASSUME IInv, Rest
    PROVE  (Serving /\ enabled) \/ (Dark /\ ~enabled)
<1>1. todo = <<>> /\ Phase
  BY Parts DEF Rest
<1>2. ~Swapping /\ ~Emptied
  BY <1>1, SwappingList, EmptiedList DEF Swapping, Emptied
<1>3. ~Drawing /\ ~Awaiting /\ ~Reviving /\ ~Leaving /\ ~Starting
  BY <1>1 DEF Drawing, Awaiting, Reviving, Leaving, Starting
<1> QED  BY <1>1, <1>2, <1>3 DEF Phase, Serving, Dark, Up, Lit, Down

LEMMA DrawOK ==
    ASSUME IInv, Draw
    PROVE  IInv'
<1>1. Phase /\ AreasTyped /\ OtherTyped
  BY Parts
<1>2. /\ Rest /\ enabled /\ todo' = <<"waitSync", "flush", "markSync">>
      /\ cache' = "full" /\ needSync' = TRUE
      /\ UNCHANGED <<failed, crashed, mode, memory, mapped, chip>>
  BY DEF Draw, Begin
<1>3. AreasTyped' /\ OtherTyped'
  BY <1>1, <1>2, AreasKept DEF OtherTyped, mode, memory
<1>4. Serving
  BY <1>2, Resting
<1>5. Drawing'
  BY <1>2, <1>4 DEF Serving, Drawing, Up, Lit, RingUp, mode, memory
<1> QED  BY <1>3, <1>5, PartsNext DEF Phase

LEMMA BlockHandlerOK ==
    ASSUME IInv, BlockHandler
    PROVE  IInv'
<1>1. Phase /\ AreasTyped /\ OtherTyped
  BY Parts
<1>2. /\ Rest /\ todo' = <<"waitSync">> \o IF cache # "none" THEN <<"flush">> ELSE <<>>
      /\ UNCHANGED <<failed, crashed, mode, memory, driver>>
  BY DEF BlockHandler, Begin
<1>3. todo' = IF cache # "none" THEN <<"waitSync", "flush">> ELSE <<"waitSync">>
  BY <1>2, Joined
<1>4. AreasTyped' /\ OtherTyped'
  BY <1>1, <1>2, AreasKept DEF OtherTyped, mode, memory, driver
<1>5. CASE Serving
  <2>1. Serving'
    BY <1>2, <1>3, <1>5 DEF Serving, Up, Lit, RingUp, Quiet, mode, memory, driver
  <2> QED  BY <1>4, <2>1, PartsNext DEF Phase
<1>6. CASE Dark
  <2>1. Dark'
    BY <1>2, <1>3, <1>6 DEF Dark, Down, mode, memory, driver
  <2> QED  BY <1>4, <2>1, PartsNext DEF Phase
<1> QED  BY <1>2, <1>5, <1>6, Resting

LEMMA MoveInOK ==
    ASSUME IInv, NEW p \in Pixmaps, MoveIn(p)
    PROVE  IInv'
<1>1. Phase /\ AreasTyped /\ OtherTyped
  BY Parts
<1>2. /\ Rest /\ enabled /\ Alloc(p, PixmapSize, DOMAIN areas) /\ todo' = <<>>
      /\ UNCHANGED <<failed, crashed, mode, geometry, base, cmd_queue, video, driver>>
  BY DEF MoveIn, Begin
<1>3. p \in User /\ p # "ring" /\ PixmapSize \in Nat \ {0}
  BY Users, ScreenAssumption
<1>4. /\ AreasTyped' /\ DOMAIN areas' = DOMAIN areas \cup {p}
      /\ \A v \in DOMAIN areas \ {p} : areas'[v] = areas[v]
  BY <1>1, <1>2, <1>3, Allocated
<1>5. OtherTyped'
  BY <1>1, <1>2 DEF OtherTyped, mode, driver
<1>6. Serving
  BY <1>2, Resting
<1>7. RingUp'
  BY <1>2, <1>3, <1>4, <1>6 DEF Serving, Up, RingUp, driver
<1>8. Serving'
  BY <1>2, <1>6, <1>7 DEF Serving, Up, Lit, Quiet, mode, driver
<1> QED  BY <1>4, <1>5, <1>8, PartsNext DEF Phase

LEMMA MoveOutOK ==
    ASSUME IInv, NEW p \in Pixmaps, MoveOut(p)
    PROVE  IInv'
<1>1. Phase /\ AreasTyped /\ OtherTyped
  BY Parts
<1>2. /\ Rest /\ p \in DOMAIN areas /\ todo' = <<>>
      /\ areas' = [u \in DOMAIN areas \ {p} |-> areas[u]]
      /\ cmd_queue' = Freed(cmd_queue, "ring", {p}) /\ video' = Freed(video, "video", {p})
      /\ UNCHANGED <<failed, crashed, mode, geometry, base, driver>>
  BY DEF MoveOut, Begin, Free
<1>3. p # "ring"
  BY Users
<1>4. /\ AreasTyped' /\ DOMAIN areas' = DOMAIN areas \ {p}
      /\ \A u \in DOMAIN areas \ {p} : areas'[u] = areas[u]
  BY <1>1, <1>2, Fewer
<1>5. cmd_queue' = cmd_queue /\ video' \in Record
  BY <1>1, <1>2, <1>3, FreedRecord DEF OtherTyped
<1>6. OtherTyped'
  BY <1>1, <1>2, <1>5 DEF OtherTyped, mode, driver
<1>7. Serving
  <2>1. areas # <<>>
    BY <1>2
  <2> QED  BY <1>2, <2>1, Resting DEF Dark, Down
<1>8. RingUp'
  BY <1>2, <1>3, <1>4, <1>5, <1>7 DEF Serving, Up, RingUp, driver
<1>9. Serving'
  BY <1>2, <1>7, <1>8 DEF Serving, Up, Lit, Quiet, mode, driver
<1> QED  BY <1>4, <1>6, <1>9, PartsNext DEF Phase

LEMMA PutImageOK ==
    ASSUME IInv, NEW size \in FrameSizes, PutImage(size)
    PROVE  IInv'
<1>1. Phase /\ AreasTyped /\ OtherTyped
  BY Parts
<1>2. /\ Rest /\ enabled /\ cache' = "full" /\ todo' = <<"wait">>
      /\ UNCHANGED <<failed, crashed, mode, geometry, base, cmd_queue, needSync, mapped, chip>>
  BY DEF PutImage, Begin, Rest4
<1>3. size \in Nat \ {0}
  BY ScreenAssumption
<1>4. Serving
  BY <1>2, Resting
<1>5. AreasTyped' /\ RingUp' /\ video' \in Record
  <2>1. CASE NewBuffer(size)
    <3>1. /\ Alloc("video", size, DOMAIN areas \ {"video"})
          /\ video' = [record |-> "live", offset |-> areas'["video"].offset, size |-> size]
      BY <2>1 DEF PutImage
    <3> DEFINE used == DOMAIN areas \ {"video"}
    <3>2. used \subseteq DOMAIN areas /\ UNCHANGED base /\ "video" \in User
      BY <1>2, Users
    <3>3. Alloc("video", size, used)
      BY <3>1
    <3>4. used = DOMAIN areas \ {"video"}
      OBVIOUS
    <3> HIDE DEF used
    <3>5. /\ AreasTyped' /\ DOMAIN areas' = used \cup {"video"}
          /\ areas'["video"].offset \in 0..Memory
          /\ \A v \in used \ {"video"} : areas'[v] = areas[v]
      BY <1>1, <1>3, <3>2, <3>3, Allocated
    <3>6. "ring" # "video"
      BY Users
    <3>7. RingUp'
      BY <1>2, <1>4, <3>5, <3>6, <3>4 DEF Serving, Up, RingUp
    <3> QED  BY <1>3, <3>1, <3>5, <3>7 DEF Record
  <2>2. CASE ~NewBuffer(size)
    <3>1. UNCHANGED <<areas, video>>
      BY <2>2 DEF PutImage
    <3> QED  BY <1>1, <1>2, <1>4, <3>1, AreasKept DEF OtherTyped, Serving, Up, RingUp
  <2> QED  BY <2>1, <2>2
<1>6. OtherTyped'
  BY <1>1, <1>2, <1>5 DEF OtherTyped, mode
<1>7. Awaiting'
  BY <1>2, <1>4, <1>5 DEF Serving, Awaiting, Up, Lit, mode
<1> QED  BY <1>5, <1>6, <1>7, PartsNext DEF Phase

LEMMA PutFailsOK ==
    ASSUME IInv, NEW size \in FrameSizes, PutFails(size)
    PROVE  IInv'
<1>1. Phase /\ AreasTyped /\ OtherTyped
  BY Parts
<1>2. /\ Rest /\ enabled /\ todo' = <<>> /\ video' = NoRecord
      /\ areas' = [u \in DOMAIN areas \ {"video"} |-> areas[u]]
      /\ UNCHANGED <<failed, crashed, cache, mode, geometry, base, cmd_queue, needSync, mapped, chip>>
  BY DEF PutFails, Begin, Rest4
<1>3. NoRecord \in Record
  BY ScreenAssumption DEF NoRecord, Record
<1>4. /\ AreasTyped' /\ DOMAIN areas' = DOMAIN areas \ {"video"}
      /\ \A u \in DOMAIN areas \ {"video"} : areas'[u] = areas[u]
  BY <1>1, <1>2, Fewer
<1>5. OtherTyped'
  BY <1>1, <1>2, <1>3 DEF OtherTyped, mode
<1>6. Serving
  BY <1>2, Resting
<1>7. RingUp'
  BY <1>2, <1>4, <1>6, Users DEF Serving, Up, RingUp
<1>8. Serving'
  BY <1>2, <1>6, <1>7 DEF Serving, Up, Lit, Quiet, mode
<1> QED  BY <1>4, <1>5, <1>8, PartsNext DEF Phase

LEMMA PutCrashesOK ==
    ASSUME IInv, NEW size \in FrameSizes, PutCrashes(size)
    PROVE  IInv'
<1>1. Phase /\ AreasTyped /\ OtherTyped
  BY Parts
<1>2. Rest /\ enabled /\ crashed' = TRUE /\ UNCHANGED <<todo, failed, mode, memory, driver>>
  BY DEF PutCrashes
<1>3. AreasTyped' /\ OtherTyped'
  BY <1>1, <1>2, AreasKept DEF OtherTyped, mode, memory, driver
<1>4. Serving
  BY <1>2, Resting
<1>5. Serving'
  BY <1>2, <1>4 DEF Serving, Up, Lit, RingUp, Quiet, mode, memory, driver
<1> QED  BY <1>3, <1>5, PartsNext DEF Phase

LEMMA SetConfigOK ==
    ASSUME IInv, SetConfig
    PROVE  IInv'
<1>1. Phase /\ AreasTyped /\ OtherTyped
  BY Parts
<1>2. /\ Rest /\ UNCHANGED <<failed, crashed, mode, memory, driver>>
      /\ todo' = DisableCalls \o <<"geometry">> \o IF enabled THEN <<"enable">> ELSE <<>>
  BY DEF SetConfig, Begin
<1>3. AreasTyped' /\ OtherTyped'
  BY <1>1, <1>2, AreasKept DEF OtherTyped, mode, memory, driver
<1>4. CASE Serving /\ enabled
  <2>1. todo' = Disabling(<<"geometry", "enable">>)
    BY <1>2, <1>4, Chained DEF DisableCalls
  <2>2. Swapping'
    BY <1>2, <1>4, <2>1 DEF Serving, Swapping, Up, Lit, Quiet, Ends, mode, driver
  <2> QED  BY <1>3, <2>2, PartsNext DEF Phase
<1>5. CASE Dark /\ ~enabled
  <2>1. todo' = <<"geometry">>
    BY <1>2, <1>5, Chained DEF DisableCalls
  <2>2. Dark'
    BY <1>2, <1>5, <2>1 DEF Dark, Down, mode, memory, driver
  <2> QED  BY <1>3, <2>2, PartsNext DEF Phase
<1> QED  BY <1>2, <1>4, <1>5, Resting

LEMMA ProcessSwitchOK ==
    ASSUME IInv, ProcessSwitch
    PROVE  IInv'
<1>1. Phase /\ AreasTyped /\ OtherTyped
  BY Parts
<1>2. Rest /\ UNCHANGED <<failed, crashed, enabled, memory, driver>>
  BY DEF ProcessSwitch, Begin
<1>3. CASE kdEnabled
  <2>1. todo' = DisableCalls \o <<"suspended">> /\ UNCHANGED <<kdEnabled, vt, kdSwitchPending>>
    BY <1>3 DEF ProcessSwitch, Begin
  <2>2. AreasTyped' /\ OtherTyped'
    BY <1>1, <1>2, <2>1, AreasKept DEF OtherTyped, memory, driver
  <2>3. CASE Serving /\ enabled
    <3>1. todo' = Disabling(<<"suspended">>)
      BY <2>1, <2>3 DEF DisableCalls, Disabling
    <3>2. Swapping'
      BY <1>2, <2>1, <2>3, <3>1 DEF Serving, Swapping, Up, Lit, Quiet, Ends, driver
    <3> QED  BY <2>2, <3>2, PartsNext DEF Phase
  <2>4. CASE Dark /\ ~enabled
    <3>1. todo' = <<"suspended">>
      BY <2>1, <2>4, Chained DEF DisableCalls
    <3>2. Leaving'
      BY <1>2, <2>4, <3>1 DEF Dark, Leaving, Down, memory, driver
    <3> QED  BY <2>2, <3>2, PartsNext DEF Phase
  <2> QED  BY <1>2, <2>3, <2>4, Resting
<1>4. CASE ~kdEnabled
  <2>1. todo' = <<"enable">> /\ kdEnabled' = TRUE /\ vt' = "ours" /\ kdSwitchPending' = FALSE
    BY <1>4 DEF ProcessSwitch, Begin, LinuxEnable
  <2>2. AreasTyped' /\ OtherTyped'
    BY <1>1, <1>2, <2>1, AreasKept DEF OtherTyped, memory, driver
  <2>3. Dark
    BY <1>2, <1>4, Resting DEF Serving, Up, Lit
  <2>4. Reviving'
    BY <1>2, <2>1, <2>3 DEF Dark, Reviving, Down, memory, driver
  <2> QED  BY <2>2, <2>4, PartsNext DEF Phase
<1> QED  BY <1>3, <1>4

LEMMA KdCloseScreenOK ==
    ASSUME IInv, KdCloseScreen
    PROVE  IInv'
<1>1. Phase /\ AreasTyped /\ OtherTyped
  BY Parts
<1>2. /\ Rest /\ todo' = DisableCalls \o <<"fini", "init">>
      /\ areas' = [u \in DOMAIN areas \ DOMAIN areas |-> areas[u]]
      /\ cmd_queue' = Freed(cmd_queue, "ring", DOMAIN areas)
      /\ video' = Freed(video, "video", DOMAIN areas)
      /\ UNCHANGED <<failed, crashed, mode, geometry, base, driver>>
  BY DEF KdCloseScreen, Begin, Free
<1>3. AreasTyped'
  BY <1>1, <1>2, Fewer
<1>4. OtherTyped'
  <2>1. cmd_queue' \in Record /\ video' \in Record
    BY <1>1, <1>2, FreedRecord DEF OtherTyped
  <2> QED  BY <1>1, <1>2, <2>1 DEF OtherTyped, mode, driver
<1>5. CASE Serving /\ enabled
  <2>1. todo' = Disabling(<<"fini", "init">>)
    BY <1>2, <1>5 DEF DisableCalls, Disabling
  <2>2. Swapping'
    BY <1>2, <1>5, <2>1 DEF Serving, Swapping, Up, Lit, Quiet, Ends, mode, driver
  <2> QED  BY <1>3, <1>4, <2>2, PartsNext DEF Phase
<1>6. CASE Dark /\ ~enabled
  <2>1. todo' = <<"fini", "init">>
    BY <1>2, <1>6, Chained DEF DisableCalls
  <2>2. areas' = <<>>
    <3>1. areas = <<>>
      BY <1>6 DEF Dark, Down
    <3>2. DOMAIN areas \ DOMAIN areas = {} /\ DOMAIN areas = {}
      BY <3>1
    <3>3. areas' = [u \in {} |-> areas[u]] /\ areas = [u \in {} |-> areas[u]]
      BY <1>2, <3>1, <3>2
    <3> QED  BY <3>1, <3>3
  <2>3. Leaving'
    BY <1>2, <1>6, <2>1, <2>2 DEF Dark, Leaving, Down, mode, driver
  <2> QED  BY <1>3, <1>4, <2>3, PartsNext DEF Phase
<1> QED  BY <1>2, <1>5, <1>6, Resting

LEMMA IdleOK ==
    ASSUME IInv, Idle
    PROVE  IInv'
<1>1. Phase /\ AreasTyped /\ OtherTyped
  BY Parts
<1>2. /\ chip.active /\ chip' = [chip EXCEPT !.active = FALSE]
      /\ UNCHANGED <<control, mode, memory, cache, needSync, mapped>>
  BY DEF Idle
<1>3. chip' \in [base : 0..Memory, active : BOOLEAN] /\ chip'.base = chip.base
  BY <1>1, <1>2 DEF OtherTyped
<1>4. AreasTyped' /\ OtherTyped'
  BY <1>1, <1>2, <1>3, AreasKept DEF OtherTyped, control, mode, memory
<1>5. Drawing \/ Awaiting
  BY <1>1, <1>2 DEF Phase, Serving, Swapping, Emptied, Dark, Reviving, Leaving, Starting, Quiet, Down
<1>6. Drawing' \/ Awaiting'
  BY <1>2, <1>3, <1>5 DEF Drawing, Awaiting, Up, Lit, RingUp, control, mode, memory
<1> QED  BY <1>4, <1>6, PartsNext DEF Phase

LEMMA VTRequestOK ==
    ASSUME IInv, VTRequest
    PROVE  IInv'
<1>1. Phase /\ AreasTyped /\ OtherTyped
  BY Parts
<1>2. /\ vt' \in {"leaving", "back"} /\ kdSwitchPending' = TRUE
      /\ UNCHANGED <<todo, failed, crashed, enabled, kdEnabled, memory, driver>>
  BY DEF VTRequest, Leave, Return, control
<1>3. AreasTyped' /\ OtherTyped'
  BY <1>1, <1>2, AreasKept DEF OtherTyped, memory, driver
<1>4. (Lit => Lit') /\ (Up => Up') /\ (Quiet => Quiet') /\ (Down => Down')
  BY <1>2 DEF Up, Lit, RingUp, Quiet, Down, memory, driver
<1>5. UNCHANGED <<needSync, areas, cache>> /\ vt' # "away"
  BY <1>2 DEF memory, driver
<1>6. Phase'
  <2>1. CASE Drawing
    BY <1>2, <1>4, <1>5, <2>1 DEF Drawing, Phase
  <2>2. CASE Awaiting
    BY <1>2, <1>4, <2>2 DEF Awaiting, Phase
  <2>3. CASE Serving
    BY <1>2, <1>4, <2>3 DEF Serving, Phase
  <2>4. CASE Swapping
    BY <1>2, <1>4, <2>4 DEF Swapping, Phase
  <2>5. CASE Emptied
    BY <1>2, <1>4, <1>5, <2>5 DEF Emptied, Phase
  <2>6. CASE Dark
    BY <1>2, <1>4, <2>6 DEF Dark, Phase
  <2>7. CASE Reviving
    BY <1>2, <1>4, <1>5, <2>7 DEF Reviving, Phase
  <2>8. CASE Leaving
    BY <1>2, <1>4, <2>8 DEF Leaving, Phase
  <2>9. CASE Starting
    BY <1>2, <1>4, <1>5, <2>9 DEF Starting, Phase
  <2> QED  BY <1>1, <2>1, <2>2, <2>3, <2>4, <2>5, <2>6, <2>7, <2>8, <2>9 DEF Phase
<1> QED  BY <1>3, <1>6, PartsNext

-----------------------------------------------------------------------------
(***************************************************************************)
(* Theorems.                                                               *)
(***************************************************************************)
LEMMA CallOK ==
    ASSUME IInv, Call
    PROVE  IInv'
BY KaaWaitSyncOK, MarkSyncOK, WaitFlushOK, EngineWaitOK, TimeoutOK, FlushCMDQCacheOK,
   SwapOutOK, CacheTeardownOK, GLAMODisableOK, KdEnableScreenOK, CMDQCacheSetupOK,
   SetScannoutGeometryOK, SuspendedOK, ScreenFiniOK, KdScreenInitOK
   DEF Call

LEMMA RequestOK ==
    ASSUME IInv, Request
    PROVE  IInv'
BY DrawOK, BlockHandlerOK, SetConfigOK, ProcessSwitchOK, KdCloseScreenOK, MoveInOK,
   MoveOutOK, PutImageOK, PutFailsOK, PutCrashesOK
   DEF Request

LEMMA Unchanged ==
    ASSUME IInv, UNCHANGED vars
    PROVE  IInv'
<1>1. /\ UNCHANGED <<todo, failed, crashed, enabled, kdEnabled, vt, kdSwitchPending>>
      /\ UNCHANGED <<geometry, base, areas, cmd_queue, video, cache, needSync, mapped, chip>>
  BY DEF vars, control, mode, memory, driver
<1>2. Phase /\ AreasTyped /\ OtherTyped
  BY Parts
<1>3. AreasTyped' /\ OtherTyped'
  BY <1>1, <1>2, AreasKept DEF OtherTyped
<1>4. (Lit => Lit') /\ (Up => Up') /\ (Quiet => Quiet') /\ (Down => Down')
  BY <1>1 DEF Up, Lit, RingUp, Quiet, Down
<1>5. Phase'
  <2>1. CASE Drawing
    BY <1>1, <1>4, <2>1 DEF Drawing, Phase
  <2>2. CASE Awaiting
    BY <1>1, <1>4, <2>2 DEF Awaiting, Phase
  <2>3. CASE Serving
    BY <1>1, <1>4, <2>3 DEF Serving, Phase
  <2>4. CASE Swapping
    BY <1>1, <1>4, <2>4 DEF Swapping, Phase
  <2>5. CASE Emptied
    BY <1>1, <1>4, <2>5 DEF Emptied, Phase
  <2>6. CASE Dark
    BY <1>1, <1>4, <2>6 DEF Dark, Phase
  <2>7. CASE Reviving
    BY <1>1, <1>4, <2>7 DEF Reviving, Phase
  <2>8. CASE Leaving
    BY <1>1, <1>4, <2>8 DEF Leaving, Phase
  <2>9. CASE Starting
    BY <1>1, <1>4, <2>9 DEF Starting, Phase
  <2> QED  BY <1>2, <2>1, <2>2, <2>3, <2>4, <2>5, <2>6, <2>7, <2>8, <2>9 DEF Phase
<1> QED  BY <1>3, <1>5, PartsNext

LEMMA InitOK == Init => IInv
<1> SUFFICES ASSUME Init PROVE IInv
  OBVIOUS
<1>1. AreasTyped
  <2>1. DOMAIN <<>> = {}
    OBVIOUS
  <2>2. DOMAIN areas = {}
    BY <2>1 DEF Init
  <2> QED  BY <2>2 DEF AreasTyped
<1>2. OtherTyped
  <2>1. NoRecord \in Record /\ 0 \in 0..Memory
    BY ScreenAssumption DEF NoRecord, Record
  <2> QED  BY <2>1 DEF Init, OtherTyped
<1>3. Leaving
  BY DEF Init, Leaving, Down
<1> QED  BY <1>1, <1>2, <1>3, Parts DEF Phase

\* What a routine may rely on at each of its calls, and the types.
THEOREM Invariant == Spec => []IInv
<1>1. ASSUME IInv, [Next]_vars PROVE IInv'
  BY <1>1, CallOK, RequestOK, IdleOK, VTRequestOK, Unchanged DEF Next
<1> QED  BY <1>1, InitOK, PTL DEF Spec

\* In every geometry, whatever fails: while there are commands in the cache or
\* with the chip, the ring they go through is an area of the driver's, which
\* the chip and the driver agree upon, and the registers are mapped.
THEOREM RingIsServed == Spec => []RingServed
<1>1. IInv => RingServed
  <2> SUFFICES ASSUME IInv PROVE RingServed
    OBVIOUS
  <2>1. TypeOK /\ Phase
    BY DEF IInv
  <2>2. ASSUME cache = "full" \/ chip.active PROVE Drawing \/ Awaiting
    BY <2>1, <2>2 DEF Phase, Serving, Swapping, Emptied, Dark, Reviving, Leaving, Starting,
                      Quiet, Down
  <2>3. Drawing \/ Awaiting => RingUp /\ mapped
    BY DEF Drawing, Awaiting, Up, Lit
  <2> QED  BY <2>1, <2>2, <2>3 DEF RingServed, RingUp
<1> QED  BY <1>1, Invariant, PTL

\* Between two requests a screen that is down holds no memory, no cache and
\* no registers, and the chip is idle, however it went down.
THEOREM DownIsReleased == Spec => []DownReleased
<1>1. IInv => DownReleased
  BY Resting DEF DownReleased, Dark, Down
<1> QED  BY <1>1, Invariant, PTL

\* Another program's terminal is left alone; on its own one the server has its
\* screen, unless it could not enable it.
THEOREM TerminalRespected == Spec => []OnOwnTerminal
<1>1. IInv => OnOwnTerminal
  <2> SUFFICES ASSUME IInv PROVE OnOwnTerminal
    OBVIOUS
  <2>1. Phase
    BY DEF IInv
  <2>2. Lit \/ Down
    BY <2>1 DEF Phase, Drawing, Awaiting, Serving, Swapping, Emptied, Dark, Reviving, Leaving,
                Starting, Up
  <2>3. vt = "away" => ~enabled /\ ~mapped /\ ~chip.active
    BY <2>2 DEF Lit, Down
  <2>4. Rest /\ kdEnabled /\ ~failed => enabled
    BY Resting DEF Dark
  <2> QED  BY <2>3, <2>4 DEF OnOwnTerminal
<1> QED  BY <1>1, Invariant, PTL

-----------------------------------------------------------------------------
(***************************************************************************)
(* Where the video port writes.                                            *)
(***************************************************************************)
\* The lists of calls that neither a switch nor RandR nor the end of the
\* server has begun.
Steady ==
    /\ ~kdSwitchPending
    /\ todo \in {<<>>, <<"waitSync">>, <<"waitSync", "flush">>, <<"waitSync", "flush", "markSync">>,
                 <<"wait">>, <<"wait", "flush">>, <<"wait", "flush", "markSync">>,
                 <<"flush">>, <<"flush", "markSync">>, <<"markSync">>,
                 <<"accel", "wait">>, <<"init">>}

\* The port's record is of the area it has.
BufferHeld ==
    /\ video.record # "freed"
    /\ video.record = "live" =>
         /\ "video" \in DOMAIN areas /\ areas["video"].offset = video.offset
         /\ areas["video"].size = video.size /\ video.size \in FrameSizes

LEMMA SteadyCalls ==
    ASSUME Steady, todo # <<>>
    PROVE  \/ /\ Head(todo) = "waitSync"
              /\ Tail(todo) \in {<<>>, <<"flush">>, <<"flush", "markSync">>}
           \/ /\ Head(todo) = "wait"
              /\ Tail(todo) \in {<<>>, <<"flush">>, <<"flush", "markSync">>}
           \/ Head(todo) = "flush" /\ Tail(todo) \in {<<>>, <<"markSync">>}
           \/ Head(todo) = "markSync" /\ Tail(todo) = <<>>
           \/ Head(todo) = "accel" /\ Tail(todo) = <<"wait">>
           \/ Head(todo) = "init" /\ Tail(todo) = <<>>
<1>1. CASE todo = <<"waitSync">>
  BY <1>1
<1>2. CASE todo = <<"waitSync", "flush">>
  BY <1>2
<1>3. CASE todo = <<"waitSync", "flush", "markSync">>
  BY <1>3
<1>4. CASE todo = <<"wait">>
  BY <1>4
<1>5. CASE todo = <<"wait", "flush">>
  BY <1>5
<1>6. CASE todo = <<"wait", "flush", "markSync">>
  BY <1>6
<1>7. CASE todo = <<"flush">>
  BY <1>7
<1>8. CASE todo = <<"flush", "markSync">>
  BY <1>8
<1>9. CASE todo = <<"markSync">>
  BY <1>9
<1>10. CASE todo = <<"accel", "wait">>
  BY <1>10
<1>11. CASE todo = <<"init">>
  BY <1>11
<1> QED  BY <1>1, <1>2, <1>3, <1>4, <1>5, <1>6, <1>7, <1>8, <1>9, <1>10, <1>11 DEF Steady

LEMMA SteadyCall ==
    ASSUME IInv, Steady, BufferHeld, Call
    PROVE  Steady' /\ BufferHeld'
<1>1. AreasTyped /\ OtherTyped
  BY Parts
<1>2. todo # <<>>
  BY DEF Call, KaaWaitSync, MarkSync, WaitFlush, EngineWait, Timeout, FlushCMDQCache, SwapOut,
         CacheTeardown, GLAMODisable, KdEnableScreen, CMDQCacheSetup, SetScannoutGeometry,
         Suspended, ScreenFini, KdScreenInit, Calling
<1>3. \/ KaaWaitSync \/ MarkSync \/ WaitFlush \/ EngineWait \/ Timeout \/ FlushCMDQCache
      \/ CMDQCacheSetup \/ KdScreenInit
  <2>1. Head(todo) \in {"waitSync", "wait", "flush", "markSync", "accel", "init"}
    BY <1>2, SteadyCalls
  <2>2. ~(SwapOut \/ CacheTeardown \/ GLAMODisable \/ KdEnableScreen \/ SetScannoutGeometry
          \/ Suspended \/ ScreenFini)
    BY <2>1 DEF SwapOut, CacheTeardown, GLAMODisable, KdEnableScreen, SetScannoutGeometry,
                Suspended, ScreenFini, Calling
  <2> QED  BY <2>2 DEF Call
<1>4. CASE KaaWaitSync
  <2>1. /\ Head(todo) = "waitSync"
        /\ todo' = (IF needSync THEN <<"wait">> ELSE <<>>) \o Tail(todo)
        /\ UNCHANGED <<mode, memory>>
    BY <1>4 DEF KaaWaitSync, Calling, Then
  <2>2. Tail(todo) \in {<<>>, <<"flush">>, <<"flush", "markSync">>}
    BY <1>2, <2>1, SteadyCalls
  <2>3. Steady'
    <3>1. Tail(todo) \in Seq(Names)
      <4>1. <<"flush", "markSync">> \in Seq(Names)
        BY DEF Names
      <4> QED  BY <2>2, <4>1, ShortLists
    <3>2. <<>> \o Tail(todo) = Tail(todo)
      BY <3>1, ConcatEmptySeq
    <3>3. todo' = Tail(todo) \/ todo' = <<"wait">> \o Tail(todo)
      BY <2>1, <3>2
    <3> QED  BY <2>1, <2>2, <3>3, Joined DEF Steady, mode
  <2> QED  BY <2>1, <2>3 DEF BufferHeld, memory
<1>5. CASE MarkSync \/ EngineWait \/ Timeout \/ FlushCMDQCache
  <2>1. /\ Head(todo) \in {"markSync", "wait", "flush"} /\ todo' = Tail(todo)
        /\ UNCHANGED <<mode, memory>>
    BY <1>5 DEF MarkSync, EngineWait, Timeout, FlushCMDQCache, Calling, Done
  <2>2. Steady'
    BY <1>2, <2>1, SteadyCalls DEF Steady, mode
  <2> QED  BY <2>1, <2>2 DEF BufferHeld, memory
<1>6. CASE WaitFlush
  <2>1. UNCHANGED <<todo, mode, memory>>
    BY <1>6 DEF WaitFlush, control
  <2> QED  BY <2>1 DEF Steady, BufferHeld, mode, memory
<1>7. CASE CMDQCacheSetup
  <2>1. /\ Head(todo) = "accel" /\ todo' = Tail(todo) /\ Alloc("ring", RingSize, DOMAIN areas)
        /\ UNCHANGED <<mode, base, video>>
    BY <1>7 DEF CMDQCacheSetup, Calling, Done
  <2>2. Steady'
    BY <1>2, <2>1, SteadyCalls DEF Steady, mode
  <2>3. /\ DOMAIN areas' = DOMAIN areas \cup {"ring"}
        /\ \A v \in DOMAIN areas \ {"ring"} : areas'[v] = areas[v]
    BY <1>1, <2>1, Allocated, Users, ScreenAssumption
  <2>4. BufferHeld'
    BY <2>1, <2>3, Users DEF BufferHeld
  <2> QED  BY <2>2, <2>4
<1>8. CASE KdScreenInit
  <2>1. /\ Head(todo) = "init" /\ todo' = <<"accel", "wait">> \o Tail(todo)
        /\ kdSwitchPending' = FALSE /\ UNCHANGED <<areas, video>>
    BY <1>8 DEF KdScreenInit, Calling, Then, LinuxEnable
  <2>2. todo' = <<"accel", "wait">>
    BY <1>2, <2>1, SteadyCalls, Joined
  <2> QED  BY <2>1, <2>2 DEF Steady, BufferHeld
<1> QED  BY <1>3, <1>4, <1>5, <1>6, <1>7, <1>8

\* A frame goes to the area that the port has, or to a new one.
LEMMA FrameHeld ==
    ASSUME IInv, BufferHeld, NEW size \in FrameSizes, PutImage(size)
    PROVE  /\ BufferHeld' /\ video'.record = "live"
           /\ video'.size = size \/ (UNCHANGED <<areas, video>> /\ video.size <= size)
<1>1. AreasTyped /\ OtherTyped
  BY Parts
<1>2. UNCHANGED base
  BY DEF PutImage, Rest4
<1>3. CASE NewBuffer(size)
  <2> DEFINE used == DOMAIN areas \ {"video"}
  <2>1. /\ Alloc("video", size, used)
        /\ video' = [record |-> "live", offset |-> areas'["video"].offset, size |-> size]
    BY <1>3 DEF PutImage
  <2>2. size \in Nat \ {0} /\ used \subseteq DOMAIN areas /\ "video" \in User
    BY ScreenAssumption, Users
  <2> HIDE DEF used
  <2>3. "video" \in DOMAIN areas' /\ areas'["video"].size = size
    <3>1. DOMAIN areas' = used \cup {"video"} /\ areas'["video"].size = size
      BY <1>1, <1>2, <2>1, <2>2, Allocated
    <3> QED  BY <3>1
  <2> QED  BY <2>1, <2>3 DEF BufferHeld
<1>4. CASE ~NewBuffer(size)
  <2>1. UNCHANGED <<areas, video>>
    BY <1>4 DEF PutImage
  <2>2. video.record = "live"
    BY <1>1, <1>4 DEF NewBuffer, BufferHeld, OtherTyped, Record
  <2>3. video.size <= size
    <3>1. video.size \in Nat /\ size \in Nat
      BY <1>1, ScreenAssumption DEF OtherTyped, Record
    <3> QED  BY <1>4, <3>1 DEF NewBuffer
  <2> QED  BY <2>1, <2>2, <2>3 DEF BufferHeld
<1> QED  BY <1>3, <1>4

LEMMA SteadyRequest ==
    ASSUME IInv, Steady, BufferHeld, ~Switching, Request
    PROVE  Steady' /\ BufferHeld'
<1>1. AreasTyped /\ OtherTyped
  BY Parts
<1>2. ~SetConfig /\ ~ProcessSwitch /\ ~KdCloseScreen
  BY DEF SetConfig, ProcessSwitch, KdCloseScreen, Steady
<1>3. CASE Draw \/ BlockHandler
  <2>1. UNCHANGED <<mode, memory>>
    BY <1>3 DEF Draw, BlockHandler
  <2>2. todo' \in {<<"waitSync">>, <<"waitSync", "flush">>, <<"waitSync", "flush", "markSync">>}
    BY <1>3, Joined DEF Draw, BlockHandler, Begin
  <2> QED  BY <2>1, <2>2 DEF Steady, BufferHeld, mode, memory
<1>4. ASSUME NEW p \in Pixmaps, MoveIn(p) PROVE Steady' /\ BufferHeld'
  <2>1. /\ Alloc(p, PixmapSize, DOMAIN areas) /\ todo' = <<>> /\ UNCHANGED <<mode, base, video>>
    BY <1>4 DEF MoveIn, Begin
  <2>2. p \in User /\ p # "video" /\ PixmapSize \in Nat \ {0}
    BY Users, ScreenAssumption
  <2>3. /\ DOMAIN areas' = DOMAIN areas \cup {p}
        /\ \A v \in DOMAIN areas \ {p} : areas'[v] = areas[v]
    BY <1>1, <2>1, <2>2, Allocated
  <2>4. BufferHeld'
    BY <2>1, <2>2, <2>3 DEF BufferHeld
  <2> QED  BY <2>1, <2>4 DEF Steady, mode
<1>5. ASSUME NEW p \in Pixmaps, MoveOut(p) PROVE Steady' /\ BufferHeld'
  <2>1. /\ areas' = [u \in DOMAIN areas \ {p} |-> areas[u]] /\ todo' = <<>>
        /\ video' = Freed(video, "video", {p}) /\ UNCHANGED <<mode, base>>
    BY <1>5 DEF MoveOut, Begin, Free
  <2>2. p # "video"
    BY Users
  <2>3. /\ DOMAIN areas' = DOMAIN areas \ {p}
        /\ \A u \in DOMAIN areas \ {p} : areas'[u] = areas[u]
    BY <1>1, <2>1, Fewer
  <2>4. video' = video
    BY <1>1, <2>1, <2>2, FreedRecord DEF OtherTyped
  <2>5. BufferHeld'
    BY <2>2, <2>3, <2>4 DEF BufferHeld
  <2> QED  BY <2>1, <2>5 DEF Steady, mode
<1>6. ASSUME NEW size \in FrameSizes, PutImage(size) PROVE Steady' /\ BufferHeld'
  <2>1. todo' = <<"wait">> /\ UNCHANGED mode
    BY <1>6 DEF PutImage, Begin, Rest4
  <2> QED  BY <1>6, <2>1, FrameHeld DEF Steady, mode
<1>7. ASSUME NEW size \in FrameSizes, PutFails(size) PROVE Steady' /\ BufferHeld'
  <2>1. todo' = <<>> /\ video' = NoRecord /\ UNCHANGED mode
    BY <1>7 DEF PutFails, Begin, Rest4
  <2> QED  BY <2>1 DEF Steady, BufferHeld, NoRecord, mode
<1>8. ASSUME NEW size \in FrameSizes, PutCrashes(size) PROVE Steady' /\ BufferHeld'
  BY <1>8 DEF PutCrashes, BufferHeld
<1> QED  BY <1>2, <1>3, <1>4, <1>5, <1>6, <1>7, <1>8 DEF Request

\* Without terminal switches, RandR and restarts, and with frames of one size,
\* the video port writes each frame into memory it has, and all of it: what
\* the runs refute is due to these two.
THEOREM UploadsWithoutSwitching ==
    ASSUME ~Switching, \A s, t \in FrameSizes : s = t
    PROVE  Spec => UploadsToOwn
<1> DEFINE J == Steady /\ BufferHeld
           Own == \A s \in FrameSizes :
                    PutImage(s) =>
                      /\ "video" \in DOMAIN areas' /\ areas'["video"].offset = video'.offset
                      /\ s <= areas'["video"].size
<1>1. Init => J
  BY DEF Init, Steady, BufferHeld, NoRecord
<1>2. ASSUME IInv, J, [Next]_vars PROVE J' /\ Own
  <2>1. J'
    <3>1. CASE Call
      BY <1>2, <3>1, SteadyCall
    <3>2. CASE Request
      BY <1>2, <3>2, SteadyRequest
    <3>3. CASE Idle
      BY <1>2, <3>3 DEF Idle, Steady, BufferHeld, control, mode, memory
    <3>4. CASE VTRequest
      BY <3>4 DEF VTRequest
    <3>5. CASE UNCHANGED vars
      BY <1>2, <3>5 DEF vars, Steady, BufferHeld, control, mode, memory
    <3> QED  BY <1>2, <3>1, <3>2, <3>3, <3>4, <3>5 DEF Next
  <2>2. Own
    <3> SUFFICES ASSUME NEW s \in FrameSizes, PutImage(s)
                 PROVE  /\ "video" \in DOMAIN areas' /\ areas'["video"].offset = video'.offset
                        /\ s <= areas'["video"].size
      OBVIOUS
    <3>1. BufferHeld' /\ video'.record = "live"
      BY <1>2, FrameHeld
    <3>2. /\ "video" \in DOMAIN areas' /\ areas'["video"].offset = video'.offset
          /\ areas'["video"].size = video'.size /\ video'.size \in FrameSizes
      BY <3>1 DEF BufferHeld
    <3>3. video'.size = s /\ s \in Nat
      BY <3>2, ScreenAssumption
    <3> QED  BY <3>2, <3>3
  <2> QED  BY <2>1, <2>2
<1> QED  BY <1>1, <1>2, Invariant, PTL DEF Spec, UploadsToOwn
=============================================================================
