----------------------------- MODULE Kaa_proofs ------------------------------
(***************************************************************************)
(* Proofs about KAA, for any number of pixmaps, slots of video memory,     *)
(* queued operations and scores, and for both kinds of driver.             *)
(*                                                                         *)
(* The first half is about places: IInv, which does not look into any      *)
(* drawable's content.  The second is about contents: what an engine's     *)
(* queue does to a memory (Carried, a recursive function, so that its      *)
(* lemmas are proved by induction on the length of the queue), StoreInv,   *)
(* and that every step ends the request it is part of, with the effect     *)
(* asked for, or changes nothing that clients can see.                     *)
(***************************************************************************)
EXTENDS Kaa, SequenceTheorems, WellFoundedInduction, TLAPS

Here == alive \cup {"screen"}

StateTypes ==
    /\ alive \subseteq Pixmaps
    /\ place \in [Pixmaps -> Slots \cup {System}]
    /\ held \in [Pixmaps -> SUBSET Slots]
    /\ needSync \in BOOLEAN /\ up \in BOOLEAN
    /\ gcFor \in Drawables \cup {"none"} /\ gcOps \in {"kaa", "async"}

\* The calls of a request concern pixmaps that exist as long as it runs.
RequestCalls ==
    [call : {"UseScreen", "UseMemory"}, src : alive, dst : alive]
    \cup [call : {"Fill"}, src : Colors, dst : Here]
    \cup [call : {"Tile", "Copy", "Check", "TrySolid"}, src : Here, dst : Here]
    \cup [call : {"SwapOut"}, src : {"screen"}, dst : {"screen"}]

TodoInv ==
    \/ todo \in Seq(RequestCalls)
    \/ todo = <<todo[1]>> /\ todo[1].call = "Reply"

IInv == StateTypes /\ TodoInv /\ AreasOwned /\ SyncFlagged /\ OpsCurrent

-----------------------------------------------------------------------------
LEMMA SystemFacts ==
    /\ System \notin Slots /\ 0 \in Slots /\ Slots \subseteq Int
    /\ "screen" \notin Pixmaps /\ "none" \notin Drawables
BY KaaAssumption DEF System, Slots, Drawables

LEMMA ScreenStays == IsOffscreen("screen") /\ IsOffscreen("screen")'
BY SystemFacts DEF IsOffscreen, At, System

\* Where a pixmap is depends on its own pointer only.
LEMMA PixmapPlace ==
    ASSUME NEW p \in Pixmaps
    PROVE  /\ IsOffscreen(p) <=> place[p] # System
           /\ IsOffscreen(p)' <=> place'[p] # System
BY SystemFacts DEF IsOffscreen, At

-----------------------------------------------------------------------------
\* The sequences of calls requests are made of.
LEMMA UseCalls ==
    ASSUME StateTypes, NEW c \in {"UseScreen", "UseMemory"}, NEW d \in Here
    PROVE  Use(c, d) \in Seq(RequestCalls)
<1>1. CASE d \in Pixmaps
  <2>1. d \in alive
    BY <1>1, SystemFacts DEF Here
  <2>2. Call(c, d, d) \in RequestCalls
    BY <2>1 DEF RequestCalls, Call
  <2> QED  BY <1>1, <2>2 DEF Use
<1> QED  BY <1>1 DEF Use

LEMMA DrawCall ==
    ASSUME NEW c \in {"Tile", "Copy", "Check", "TrySolid"}, NEW s \in Here, NEW d \in Here
    PROVE  <<Call(c, s, d)>> \in Seq(RequestCalls)
<1>1. Call(c, s, d) \in RequestCalls
  BY DEF RequestCalls, Call
<1> QED  BY <1>1

LEMMA Joined ==
    ASSUME NEW S, NEW s \in Seq(S), NEW t \in Seq(S)
    PROVE  s \o t \in Seq(S)
BY ConcatProperties

LEMMA CopyCalls ==
    ASSUME StateTypes, NEW s \in Here, NEW d \in Here
    PROVE  CopyNtoN(s, d) \in Seq(RequestCalls)
<1> DEFINE first == IF up THEN Use(IF IsOffscreen(d) THEN "UseScreen" ELSE "UseMemory", s) ELSE <<>>
<1>1. first \in Seq(RequestCalls)
  BY UseCalls
<1>2. <<Call("Copy", s, d)>> \in Seq(RequestCalls)
  BY DrawCall
<1> HIDE DEF first
<1>3. first \o <<Call("Copy", s, d)>> \in Seq(RequestCalls)
  BY <1>1, <1>2, Joined
<1> QED  BY <1>3 DEF CopyNtoN, first

LEMMA FallbackCalls ==
    ASSUME StateTypes, NEW s \in Here, NEW d \in Here
    PROVE  Fallback(s, d) \in Seq(RequestCalls)
<1>1. Use("UseMemory", s) \in Seq(RequestCalls) /\ Use("UseMemory", d) \in Seq(RequestCalls)
  BY UseCalls
<1>2. Use("UseMemory", s) \o Use("UseMemory", d) \in Seq(RequestCalls)
  BY <1>1, Joined
<1>3. <<Call("Check", s, d)>> \in Seq(RequestCalls)
  BY DrawCall
<1> QED  BY <1>2, <1>3, Joined DEF Fallback

LEMMA SolidCalls ==
    ASSUME StateTypes, NEW s \in Here, NEW d \in Here
    PROVE  Use("UseMemory", s) \o Use("UseScreen", d) \o <<Call("TrySolid", s, d)>>
             \in Seq(RequestCalls)
<1>1. Use("UseMemory", s) \in Seq(RequestCalls) /\ Use("UseScreen", d) \in Seq(RequestCalls)
  BY UseCalls
<1>2. Use("UseMemory", s) \o Use("UseScreen", d) \in Seq(RequestCalls)
  BY <1>1, Joined
<1>3. <<Call("TrySolid", s, d)>> \in Seq(RequestCalls)
  BY DrawCall
<1> QED  BY <1>2, <1>3, Joined

\* What the call about to be made concerns.
LEMMA HeadCall ==
    ASSUME TodoInv, todo # <<>>
    PROVE  /\ Head(todo).call # "Reply" => Head(todo) \in RequestCalls
           /\ Tail(todo) \in Seq(RequestCalls)
<1>1. CASE todo \in Seq(RequestCalls)
  BY <1>1
<1>2. CASE todo = <<todo[1]>> /\ todo[1].call = "Reply"
  <2> DEFINE c == todo[1]
  <2>1. todo = <<c>> /\ c.call = "Reply"
    BY <1>2
  <2> HIDE DEF c
  <2>2. Head(todo) = c /\ Tail(todo) = <<>>
    BY <2>1
  <2> QED  BY <2>1, <2>2
<1> QED  BY <1>1, <1>2 DEF TodoInv

LEMMA UseHead ==
    ASSUME TodoInv, StateTypes, InCall("UseScreen") \/ InCall("UseMemory")
    PROVE  Head(todo).dst \in alive /\ Head(todo).dst \in Pixmaps
<1>1. Head(todo) \in RequestCalls
  BY HeadCall DEF InCall
<1> QED  BY <1>1 DEF RequestCalls, InCall, StateTypes

LEMMA SolidHead ==
    ASSUME TodoInv, InCall("TrySolid")
    PROVE  Head(todo).src \in Here /\ Head(todo).dst \in Here
<1>1. Head(todo) \in RequestCalls
  BY HeadCall DEF InCall
<1> QED  BY <1>1 DEF RequestCalls, InCall

-----------------------------------------------------------------------------
LEMMA TodoStep ==
    ASSUME StateTypes, TodoInv, [Next]_vars
    PROVE  TodoInv'
<1> DEFINE S == RequestCalls
<1>1. alive' = alive => RequestCalls' = S
  BY DEF RequestCalls, Here
<1>2. todo' = <<>> => TodoInv'
  BY DEF TodoInv
<1>3. alive' = alive /\ todo' \in Seq(S) => TodoInv'
  BY <1>1 DEF TodoInv
<1> HIDE DEF S
<1>4. alive' = alive /\ todo' = todo => TodoInv'
  BY <1>1 DEF TodoInv, S
<1>5. todo # <<>> /\ Return /\ alive' = alive => TodoInv'
  BY <1>3, HeadCall DEF Return, S
<1>6. CASE \E p \in Pixmaps : Create(p) \/ Destroy(p)
  BY <1>6, <1>2 DEF Create, Destroy, Ready
<1>7. ASSUME NEW d \in Drawables, NEW c \in Colors, PolyFillRect(d, c)
      PROVE  TodoInv'
  <2>1. d \in Here
    BY <1>7 DEF PolyFillRect, Request, Usable, Here
  <2>2. Call("Fill", c, d) \in S
    BY <2>1 DEF S, RequestCalls, Call
  <2>3. todo' = <<Call("Fill", c, d)>> /\ alive' = alive
    BY <1>7 DEF PolyFillRect, Request, pixVars
  <2> QED  BY <1>3, <2>2, <2>3
<1>8. ASSUME NEW d \in Drawables, NEW tile \in Pixmaps, FillTiled(tile, d)
      PROVE  TodoInv'
  <2>1. tile \in Here /\ d \in Here
    BY <1>8 DEF FillTiled, Request, Usable, Here
  <2>2. todo' = <<Call("Tile", tile, d)>> /\ alive' = alive
    BY <1>8 DEF FillTiled, Request, pixVars
  <2> QED  BY <1>3, <2>1, <2>2, DrawCall DEF S
<1>9. ASSUME NEW d \in Drawables, NEW s \in Drawables, CopyArea(s, d)
      PROVE  TodoInv'
  <2>1. s \in Here /\ d \in Here /\ alive' = alive
    BY <1>9 DEF CopyArea, Request, Usable, Here, pixVars
  <2>2. todo' = CopyNtoN(s, d) \/ todo' = <<Call("Check", s, d)>>
    BY <1>9 DEF CopyArea, Request
  <2> QED  BY <1>3, <2>1, <2>2, DrawCall, CopyCalls DEF S
<1>10. ASSUME NEW d \in Drawables, NEW s \in Drawables, Composite(s, d)
       PROVE  TodoInv'
  <2>1. s \in Here /\ d \in Here /\ alive' = alive
    BY <1>10 DEF Composite, Request, Usable, Here, pixVars
  <2>2. \/ todo' = CopyNtoN(s, d)
        \/ todo' = Fallback(s, d)
        \/ todo' = Use("UseMemory", s) \o Use("UseScreen", d) \o <<Call("TrySolid", s, d)>>
    BY <1>10 DEF Composite, Request
  <2> QED  BY <1>3, <2>1, <2>2, CopyCalls, FallbackCalls, SolidCalls DEF S
<1>11. ASSUME NEW d \in Drawables, GetImage(d)
       PROVE  TodoInv'
  BY <1>11 DEF GetImage, TodoInv, Call
<1>12. CASE FillRect \/ Tile \/ Copy \/ Check \/ Reply \/ UseScreen \/ UseMemory
  BY <1>12, <1>5 DEF FillRect, Tile, Copy, Check, Reply, UseScreen, UseMemory, InCall, pixVars
<1>13. CASE TrySolid
  <2>1. todo # <<>> /\ alive' = alive
    BY <1>13 DEF TrySolid, InCall, pixVars
  <2> DEFINE s == Head(todo).src  d == Head(todo).dst
  <2>2. Return \/ todo' = <<Call("Check", s, d)>> \/ todo' = Fallback(s, d)
    BY <1>13 DEF TrySolid
  <2>3. s \in Here /\ d \in Here
    BY <1>13, SolidHead DEF TrySolid
  <2> HIDE DEF s, d
  <2> QED  BY <1>3, <1>5, <2>1, <2>2, <2>3, DrawCall, FallbackCalls DEF S
<1>14. CASE Disable
  <2>1. Call("SwapOut", "screen", "screen") \in S
    BY DEF S, RequestCalls, Call
  <2> QED  BY <1>3, <1>14, <2>1 DEF Disable, pixVars
<1>15. CASE (\E p \in Pixmaps : KickOut(p)) \/ Enable \/ Execute \/ UNCHANGED vars
  BY <1>15, <1>4 DEF KickOut, Enable, Execute, vars, pixVars
<1>16. CASE SwappedOut
  BY <1>16, <1>5 DEF SwappedOut, InCall, pixVars
<1> QED  BY <1>6, <1>7, <1>8, <1>9, <1>10, <1>11, <1>12, <1>13, <1>14, <1>15, <1>16
         DEF Next, Requests, Calls, Switch

-----------------------------------------------------------------------------
\* Moving a pixmap between video memory and system memory.
LEMMA MoveStep ==
    ASSUME StateTypes, AreasOwned, OpsCurrent, NEW p \in Pixmaps,
           NEW slot \in Slots \cup {System}, Moved(p, slot),
           held' = [held EXCEPT ![p] = IF slot = System THEN {} ELSE {slot}],
           UNCHANGED up, alive' \subseteq Pixmaps, alive \ {p} \subseteq alive',
           slot # System => p \in alive' /\ up /\ \A r \in Pixmaps : slot \notin held[r]
    PROVE  /\ place' \in [Pixmaps -> Slots \cup {System}]
           /\ held' \in [Pixmaps -> SUBSET Slots]
           /\ gcFor' \in Drawables \cup {"none"} /\ gcOps' \in {"kaa", "async"}
           /\ AreasOwned' /\ OpsCurrent'
<1>1. place' = [place EXCEPT ![p] = slot] /\ place' \in [Pixmaps -> Slots \cup {System}]
  BY DEF Moved, StateTypes
<1>2. held' \in [Pixmaps -> SUBSET Slots]
  BY DEF StateTypes
<1>3. gcFor' \in Drawables \cup {"none"} /\ gcOps' \in {"kaa", "async"}
  BY DEF Moved, gcVars, StateTypes
<1>4. AreasOwned'
  <2> SUFFICES ASSUME NEW q \in Pixmaps
               PROVE  /\ held'[q] = (IF IsOffscreen(q)' THEN {place'[q]} ELSE {})
                      /\ IsOffscreen(q)' => q \in alive' /\ up'
                      /\ \A r \in Pixmaps \ {q} : held'[q] \cap held'[r] = {}
    BY DEF AreasOwned
  <2>1. held'[p] = (IF slot = System THEN {} ELSE {slot})
    BY DEF StateTypes
  <2>2. \A r \in Pixmaps \ {p} : held'[r] = held[r] /\ place'[r] = place[r]
    BY <1>1 DEF StateTypes
  <2>3. place'[p] = slot
    BY <1>1 DEF StateTypes
  <2>4. \A r \in Pixmaps \ {p} : held'[p] \cap held'[r] = {}
    BY <2>1, <2>2
  <2>5. CASE q = p
    BY <2>1, <2>3, <2>4, <2>5, PixmapPlace
  <2>6. CASE q # p
    BY <2>2, <2>4, <2>6, PixmapPlace DEF AreasOwned
  <2> QED  BY <2>5, <2>6
<1>5. OpsCurrent'
  <2>1. CASE gcFor = p
    BY <2>1 DEF Moved, OpsCurrent
  <2>2. CASE gcFor # p
    <3>1. gcFor' = gcFor /\ gcOps' = gcOps
      BY <2>2 DEF Moved, gcVars
    <3>2. gcFor \in Pixmaps => place'[gcFor] = place[gcFor]
      BY <1>1, <2>2 DEF StateTypes
    <3>3. gcFor \in Pixmaps \/ gcFor \in {"screen", "none"}
      BY DEF StateTypes, Drawables
    <3> QED  BY <3>1, <3>2, <3>3, PixmapPlace, ScreenStays DEF OpsCurrent
  <2> QED  BY <2>1, <2>2
<1> QED  BY <1>1, <1>2, <1>3, <1>4, <1>5

\* An area is granted where nobody holds one.
LEMMA FreeSlotFacts ==
    ASSUME StateTypes, NEW slot \in FreeSlots
    PROVE  up /\ slot \in Slots \ {0} /\ \A r \in Pixmaps : slot \notin held[r]
<1>1. up /\ slot \in Mem!Bytes /\ Mem!Stretch(slot, 1, Mem!Unheld)
  BY DEF FreeSlots
<1>2. slot \in 1..MemorySize-1
  BY <1>1 DEF Mem!Bytes
<1>3. slot \in slot..slot+1-1
  BY <1>2
<1>4. slot \in Mem!Unheld
  BY <1>1, <1>3 DEF Mem!Stretch
<1> QED  BY <1>1, <1>2, <1>4, KaaAssumption DEF Mem!Unheld, Slots

PlaceInv == StateTypes /\ AreasOwned /\ OpsCurrent

\* Steps that move nothing and validate no GC.
LEMMA PlaceKept ==
    ASSUME PlaceInv, UNCHANGED <<alive, place, held, up, gcFor, gcOps>>, needSync' \in BOOLEAN
    PROVE  PlaceInv'
<1>1. StateTypes'
  BY DEF PlaceInv, StateTypes
<1>2. \A d : IsOffscreen(d)' <=> IsOffscreen(d)
  BY DEF IsOffscreen, At
<1> QED  BY <1>1, <1>2 DEF PlaceInv, AreasOwned, OpsCurrent

\* A GC is validated for the place its drawable has.
LEMMA PlaceValidated ==
    ASSUME PlaceInv, NEW d \in Drawables, ValidateGC(d),
           UNCHANGED <<alive, place, held, up, needSync>>
    PROVE  PlaceInv'
<1>1. \A e : IsOffscreen(e)' <=> IsOffscreen(e)
  BY DEF IsOffscreen, At
<1>2. d # "none"
  BY SystemFacts
<1>3. gcFor' = d /\ gcOps' \in {"kaa", "async"} /\ (gcOps' = "kaa" <=> IsOffscreen(d))
  BY <1>2 DEF ValidateGC, Ops, PlaceInv, StateTypes, OpsCurrent
<1> QED  BY <1>1, <1>3 DEF PlaceInv, StateTypes, AreasOwned, OpsCurrent

LEMMA PlaceMoveOut ==
    ASSUME PlaceInv, NEW p \in Pixmaps, MoveOut(p), UNCHANGED alive
    PROVE  PlaceInv'
<1>1. /\ Moved(p, System) /\ UNCHANGED up
      /\ held' = [held EXCEPT ![p] = IF System = System THEN {} ELSE {System}]
  BY DEF MoveOut, Free
<1>2. /\ place' \in [Pixmaps -> Slots \cup {System}]
      /\ held' \in [Pixmaps -> SUBSET Slots]
      /\ gcFor' \in Drawables \cup {"none"} /\ gcOps' \in {"kaa", "async"}
      /\ AreasOwned' /\ OpsCurrent'
  BY <1>1, MoveStep DEF PlaceInv, StateTypes
<1> QED  BY <1>1, <1>2 DEF PlaceInv, StateTypes, MoveOut, WaitSync

LEMMA PlaceMoveIn ==
    ASSUME PlaceInv, NEW p \in Pixmaps, p \in alive, MoveIn(p), UNCHANGED alive
    PROVE  PlaceInv'
<1>1. needSync' \in BOOLEAN
  BY DEF PlaceInv, StateTypes, MoveIn, Stay, gpuVars, Upload, WaitSync
<1>2. CASE Stay
  BY <1>1, <1>2, PlaceKept DEF Stay, memVars, gcVars, areaVars
<1>3. CASE ~Stay
  <2>1. PICK slot \in FreeSlots : held' = [held EXCEPT ![p] = {slot}] /\ Moved(p, slot)
    BY <1>3 DEF MoveIn
  <2>2. UNCHANGED up
    BY <1>3 DEF MoveIn
  <2>3. up /\ slot \in Slots /\ slot # System /\ \A r \in Pixmaps : slot \notin held[r]
    BY FreeSlotFacts, SystemFacts DEF PlaceInv
  <2>4. held' = [held EXCEPT ![p] = IF slot = System THEN {} ELSE {slot}]
    BY <2>1, <2>3
  <2>5. /\ place' \in [Pixmaps -> Slots \cup {System}]
        /\ held' \in [Pixmaps -> SUBSET Slots]
        /\ gcFor' \in Drawables \cup {"none"} /\ gcOps' \in {"kaa", "async"}
        /\ AreasOwned' /\ OpsCurrent'
    BY <2>1, <2>2, <2>3, <2>4, MoveStep DEF PlaceInv, StateTypes
  <2> QED  BY <1>1, <2>2, <2>5 DEF PlaceInv, StateTypes
<1> QED  BY <1>2, <1>3

LEMMA PlaceStep ==
    ASSUME TodoInv, PlaceInv, [Next]_vars
    PROVE  PlaceInv'
<1> USE DEF vars, pixVars, memVars, gpuVars, gcVars, areaVars
<1>1. CASE \E p \in Pixmaps : Create(p)
  <2>1. PICK p \in Pixmaps : Create(p)
    BY <1>1
  <2>2. \A d : IsOffscreen(d)' <=> IsOffscreen(d)
    BY <2>1 DEF Create, IsOffscreen, At
  <2> QED  BY <2>1, <2>2 DEF Create, PlaceInv, StateTypes, AreasOwned, OpsCurrent
<1>2. CASE \E p \in Pixmaps : Destroy(p)
  <2>1. PICK p \in Pixmaps : Destroy(p)
    BY <1>2
  <2>2. /\ Moved(p, System) /\ UNCHANGED <<up, needSync>> /\ alive' = alive \ {p}
        /\ held' = [held EXCEPT ![p] = IF System = System THEN {} ELSE {System}]
    BY <2>1 DEF Destroy, Free
  <2>3. alive' \subseteq Pixmaps /\ alive \ {p} \subseteq alive'
    BY <2>2 DEF PlaceInv, StateTypes
  <2>4. /\ place' \in [Pixmaps -> Slots \cup {System}]
        /\ held' \in [Pixmaps -> SUBSET Slots]
        /\ gcFor' \in Drawables \cup {"none"} /\ gcOps' \in {"kaa", "async"}
        /\ AreasOwned' /\ OpsCurrent'
    BY <2>2, <2>3, MoveStep DEF PlaceInv
  <2> QED  BY <2>2, <2>3, <2>4 DEF PlaceInv, StateTypes
<1>3. CASE \E d \in Drawables : \E c \in Colors : PolyFillRect(d, c)
  BY <1>3, PlaceValidated DEF PolyFillRect, Request
<1>4. CASE \E d \in Drawables : \E tile \in Pixmaps : FillTiled(tile, d)
  BY <1>4, PlaceValidated DEF FillTiled, Request
<1>5. CASE \E d \in Drawables : \E s \in Drawables : CopyArea(s, d)
  BY <1>5, PlaceValidated DEF CopyArea, Request
<1>6. CASE \E d \in Drawables : \E s \in Drawables : Composite(s, d)
  <2>1. UNCHANGED <<alive, place, held, up, gcFor, gcOps, needSync>>
    BY <1>6 DEF Composite, Request
  <2> QED  BY <2>1, PlaceKept DEF PlaceInv, StateTypes
<1>7. CASE \E d \in Drawables : GetImage(d)
  BY <1>7, PlaceKept DEF GetImage, WaitSync
<1>8. CASE FillRect \/ Tile \/ Copy \/ Check \/ Reply \/ TrySolid
  <2>1. UNCHANGED <<alive, place, held, up, gcFor, gcOps>>
    BY <1>8 DEF FillRect, Tile, Copy, Check, Reply, TrySolid, PlainDraw, CheckDraw,
                CheckCopy, Write, Accelerate
  <2>2. needSync' \in BOOLEAN
    BY <1>8 DEF FillRect, Tile, Copy, Check, Reply, TrySolid, PlainDraw, CheckDraw,
                CheckCopy, WaitSync, Accelerate, PlaceInv, StateTypes
  <2> QED  BY <2>1, <2>2, PlaceKept
<1>9. CASE UseScreen
  <2>1. Head(todo).dst \in alive /\ Head(todo).dst \in Pixmaps
    BY <1>9, UseHead DEF UseScreen, PlaceInv
  <2>2. alive' = alive /\ (MoveIn(Head(todo).dst) \/ Stay)
    BY <1>9 DEF UseScreen
  <2>3. CASE MoveIn(Head(todo).dst)
    BY <2>1, <2>2, <2>3, PlaceMoveIn
  <2>4. CASE Stay
    BY <2>2, <2>4, PlaceKept DEF Stay, PlaceInv, StateTypes
  <2> QED  BY <2>2, <2>3, <2>4
<1>10. CASE UseMemory
  <2>1. Head(todo).dst \in alive /\ Head(todo).dst \in Pixmaps
    BY <1>10, UseHead DEF UseMemory, PlaceInv
  <2>2. alive' = alive /\ (MoveOut(Head(todo).dst) \/ Stay)
    BY <1>10 DEF UseMemory
  <2>3. CASE MoveOut(Head(todo).dst)
    BY <2>1, <2>2, <2>3, PlaceMoveOut
  <2>4. CASE Stay
    BY <2>2, <2>4, PlaceKept DEF Stay, PlaceInv, StateTypes
  <2> QED  BY <2>2, <2>3, <2>4
<1>11. CASE \E p \in Pixmaps : KickOut(p)
  BY <1>11, PlaceMoveOut DEF KickOut
<1>12. CASE SwappedOut
  <2>1. UNCHANGED <<alive, place, held, gcFor, gcOps>> /\ up' = FALSE /\ needSync' = FALSE
    BY <1>12 DEF SwappedOut, WaitSync
  <2>2. \A p \in Pixmaps : held[p] = {}
    BY <1>12 DEF SwappedOut
  <2>3. \A d : IsOffscreen(d)' <=> IsOffscreen(d)
    BY <2>1 DEF IsOffscreen, At
  <2>4. \A p \in Pixmaps : ~IsOffscreen(p)
    BY <2>2 DEF PlaceInv, AreasOwned
  <2> QED  BY <2>1, <2>3, <2>4 DEF PlaceInv, StateTypes, AreasOwned, OpsCurrent
<1>13. CASE Enable
  <2>1. UNCHANGED <<alive, place, held, gcFor, gcOps, needSync>> /\ up' = TRUE
    BY <1>13 DEF Enable
  <2>2. \A d : IsOffscreen(d)' <=> IsOffscreen(d)
    BY <2>1 DEF IsOffscreen, At
  <2> QED  BY <2>1, <2>2 DEF PlaceInv, StateTypes, AreasOwned, OpsCurrent
<1>14. CASE Disable \/ Execute \/ UNCHANGED vars
  <2>1. UNCHANGED <<alive, place, held, up, gcFor, gcOps, needSync>>
    BY <1>14 DEF Disable, Execute
  <2> QED  BY <2>1, PlaceKept DEF PlaceInv, StateTypes
<1> QED  BY <1>1, <1>2, <1>3, <1>4, <1>5, <1>6, <1>7, <1>8, <1>9, <1>10, <1>11, <1>12,
            <1>13, <1>14
         DEF Next, Requests, Calls, Switch

-----------------------------------------------------------------------------
\* The engine gets work only from routines that set the flag, and waiting
\* empties the queue if the flag is set.
LEMMA WaitFlagged ==
    ASSUME SyncFlagged, WaitSync
    PROVE  SyncFlagged'
BY DEF SyncFlagged, WaitSync, Unwaited

LEMMA SyncStep ==
    ASSUME SyncFlagged, needSync \in BOOLEAN, [Next]_vars
    PROVE  SyncFlagged'
<1> USE DEF vars, pixVars, memVars, gpuVars, gcVars, areaVars
<1>1. UNCHANGED <<queue, needSync>> => SyncFlagged'
  BY DEF SyncFlagged
<1>2. CASE \/ \E p \in Pixmaps : Create(p) \/ Destroy(p)
           \/ Disable \/ Enable \/ Reply \/ UNCHANGED vars
  BY <1>1, <1>2 DEF Create, Destroy, Disable, Enable, Reply
<1>3. CASE \E d \in Drawables :
             \/ \E c \in Colors : PolyFillRect(d, c)
             \/ \E s \in Drawables : CopyArea(s, d) \/ Composite(s, d)
             \/ \E tile \in Pixmaps : FillTiled(tile, d)
  BY <1>1, <1>3 DEF PolyFillRect, FillTiled, CopyArea, Composite, Request
<1>4. CASE (\E d \in Drawables : GetImage(d)) \/ Check \/ SwappedOut
           \/ \E p \in Pixmaps : KickOut(p)
  BY <1>4, WaitFlagged DEF GetImage, Check, CheckCopy, CheckDraw, SwappedOut, KickOut, MoveOut
<1>5. CASE FillRect \/ Tile \/ Copy
  <2>1. \/ UNCHANGED <<queue, needSync>>
        \/ WaitSync
        \/ needSync' = TRUE
    BY <1>5 DEF FillRect, Tile, Copy, PlainDraw, CheckCopy, CheckDraw, Accelerate
  <2> QED  BY <1>1, <2>1, WaitFlagged DEF SyncFlagged
<1>6. CASE TrySolid
  BY <1>6 DEF TrySolid, Accelerate, SyncFlagged
<1>7. CASE UseScreen \/ UseMemory
  <2>1. UNCHANGED <<queue, needSync>> \/ WaitSync
    BY <1>7 DEF UseScreen, UseMemory, MoveIn, MoveOut, Stay, Upload
  <2> QED  BY <1>1, <2>1, WaitFlagged
<1>8. CASE Execute
  BY <1>8 DEF Execute, SyncFlagged
<1> QED  BY <1>2, <1>3, <1>4, <1>5, <1>6, <1>7, <1>8 DEF Next, Requests, Calls, Switch

-----------------------------------------------------------------------------
LEMMA InitInv == Init => IInv
<1> SUFFICES ASSUME Init PROVE IInv
  OBVIOUS
<1>1. StateTypes
  BY DEF Init, StateTypes, Drawables
<1>2. \A p \in Pixmaps : ~IsOffscreen(p)
  BY PixmapPlace DEF Init
<1>3. TodoInv
  BY DEF Init, TodoInv
<1> QED  BY <1>1, <1>2, <1>3 DEF Init, IInv, AreasOwned, SyncFlagged, OpsCurrent

LEMMA IInvStep == IInv /\ [Next]_vars => IInv'
BY TodoStep, PlaceStep, SyncStep DEF IInv, PlaceInv, StateTypes

THEOREM Invariance == Spec => []IInv
BY InitInv, IInvStep, PTL DEF Spec

\* No two pixmaps share video memory, none is lost, and a pixmap's pointer
\* and area agree (kaaMoveInPixmap, kaaMoveOutPixmap, kaaDestroyPixmap,
\* KdOffscreenSwapOut).
THEOREM AreasStayOwned == Spec => []AreasOwned
<1>1. IInv => AreasOwned
  BY DEF IInv
<1> QED  BY <1>1, Invariance, PTL

\* kaaWaitSync waits whenever the engine has work left.
THEOREM SyncStaysFlagged == Spec => []SyncFlagged
<1>1. IInv => SyncFlagged
  BY DEF IInv
<1> QED  BY <1>1, Invariance, PTL

\* A GC's operations fit the place its drawable is in, through every
\* migration (kaaValidateGC and the serial number).
THEOREM OpsStayCurrent == Spec => []OpsCurrent
<1>1. IInv => OpsCurrent
  BY DEF IInv
<1> QED  BY <1>1, Invariance, PTL

-----------------------------------------------------------------------------
\* What holds of 0, and of n + 1 where it holds of n, holds always.
LEMMA LessThan ==
    \E R : IsWellFoundedOn(R, Nat) /\ \A x, y \in Nat : <<x, y>> \in R <=> x < y
<1> DEFINE R == OpToRel(<, Nat)
<1>1. IsWellFoundedOn(R, Nat)
  BY NatLessThanWellFounded
<1>2. \A x, y \in Nat : <<x, y>> \in R <=> x < y
  BY DEF OpToRel
<1> HIDE DEF R
<1> QED  BY <1>1, <1>2

LEMMA Inductive ==
    ASSUME NEW S, 0 \in S, \A n \in Nat : n \in S => n + 1 \in S
    PROVE  Nat \subseteq S
<1>1. PICK R : IsWellFoundedOn(R, Nat) /\ \A x, y \in Nat : <<x, y>> \in R <=> x < y
  BY LessThan
<1> DEFINE T == Nat \ S
<1>2. CASE T # {}
  <2>1. IsWellFoundedOn(R, Nat) /\ T \subseteq Nat /\ T # {}
    BY <1>1, <1>2
  <2>2. PICK m \in T : \A y \in T : ~(<<y, m>> \in R)
    <3> HIDE DEF T
    <3>1. \E m \in T : \A y \in T : ~(<<y, m>> \in R)
      BY <2>1, WFMin, Zenon
    <3> QED  BY <3>1
  <2>3. m \in Nat /\ m \notin S /\ \A y \in Nat \ S : ~(y < m)
    BY <1>1, <2>2 DEF T
  <2>4. m # 0 /\ m - 1 \in Nat /\ m - 1 < m /\ m - 1 + 1 = m
    BY <2>3
  <2>5. m - 1 \in S
    BY <2>3, <2>4
  <2> QED  BY <2>3, <2>4, <2>5
<1> QED  BY <1>2

-----------------------------------------------------------------------------
\* f holds what memory is after each of the first n operations of q.
Runs(f, mem, q, n) ==
    f = [k \in 0..n |-> IF k = 0 THEN mem ELSE Apply(f[k-1], q[k])]

\* Such an f exists, so that Carried is what its last value is.
LEMMA RunExists ==
    ASSUME NEW mem, NEW q
    PROVE  \A n \in Nat : \E f : Runs(f, mem, q, n)
<1> DEFINE S == {n \in Nat : \E f : Runs(f, mem, q, n)}
<1>1. 0 \in S
  <2> DEFINE f == [k \in 0..0 |-> mem]
  <2>1. f = [k \in 0..0 |-> IF k = 0 THEN mem ELSE Apply(f[k-1], q[k])]
    OBVIOUS
  <2> QED  BY <2>1 DEF Runs
<1>2. ASSUME NEW n \in Nat, n \in S PROVE n + 1 \in S
  <2>1. PICK f : Runs(f, mem, q, n)
    BY <1>2
  <2> DEFINE g == [k \in 0..n+1 |-> IF k = n + 1 THEN Apply(f[n], q[n+1]) ELSE f[k]]
             h == [k \in 0..n+1 |-> IF k = 0 THEN mem ELSE Apply(g[k-1], q[k])]
  <2>2. \A k \in 0..n : g[k] = f[k]
    OBVIOUS
  <2>3. \A k \in 0..n : f[k] = IF k = 0 THEN mem ELSE Apply(f[k-1], q[k])
    BY <2>1 DEF Runs
  <2>4. ASSUME NEW k \in 0..n+1 PROVE g[k] = h[k]
    <3>1. CASE k = n + 1
      <4>1. h[k] = Apply(g[n], q[n+1]) /\ g[k] = Apply(f[n], q[n+1])
        BY <3>1
      <4> QED  BY <2>2, <4>1
    <3>2. CASE k \in 1..n
      <4>1. k - 1 \in 0..n /\ k # 0
        BY <3>2
      <4>2. h[k] = Apply(g[k-1], q[k])
        BY <4>1
      <4> HIDE DEF g, h
      <4> QED  BY <2>2, <2>3, <3>2, <4>1, <4>2
    <3>3. CASE k = 0
      BY <2>2, <2>3, <3>3
    <3> QED  BY <3>1, <3>2, <3>3
  <2>5. g = h
    BY <2>4
  <2>6. Runs(g, mem, q, n + 1)
    BY <2>5 DEF Runs
  <2> HIDE DEF g
  <2> QED  BY <2>6
<1> HIDE DEF S
<1>3. Nat \subseteq S
  BY <1>1, <1>2, Inductive
<1> QED  BY <1>3 DEF S

After(mem, q) == CHOOSE f : Runs(f, mem, q, Len(q))

\* f goes on from what it begins with by the first n operations of q.
Follows(f, q, n) == \A k \in 1..n : f[k] = Apply(f[k-1], q[k])

LEMMA CarriedRun ==
    \A n \in Nat : \A mem, q : n = Len(q) =>
      /\ Carried(mem, q) = After(mem, q)[n] /\ After(mem, q)[0] = mem
      /\ Follows(After(mem, q), q, n)
<1> TAKE n \in Nat
<1> TAKE mem, q
<1> HAVE n = Len(q)
<1> DEFINE f == After(mem, q)
<1>1. Runs(f, mem, q, n)
  BY RunExists DEF After
<1>2. Carried(mem, q) = f[n]
  BY DEF Carried, Runs, After
<1> HIDE DEF f
<1>3. f[0] = mem /\ \A k \in 1..n : f[k] = Apply(f[k-1], q[k])
  BY <1>1 DEF Runs
<1> QED  BY <1>2, <1>3 DEF f, Follows

\* Two runs of the same n operations that begin with the same memory end with
\* the same.
LEMMA RunsAgree ==
    \A n \in Nat : \A f, g, q :
      Follows(f, q, n) /\ Follows(g, q, n) /\ f[0] = g[0] => f[n] = g[n]
<1> TAKE n \in Nat
<1> TAKE f, g, q
<1> HAVE Follows(f, q, n) /\ Follows(g, q, n) /\ f[0] = g[0]
<1> DEFINE S == {k \in Nat : k <= n => f[k] = g[k]}
<1>1. 0 \in S
  OBVIOUS
<1>2. ASSUME NEW k \in Nat, k \in S PROVE k + 1 \in S
  <2>1. SUFFICES ASSUME k + 1 <= n PROVE f[k+1] = g[k+1]
    OBVIOUS
  <2>2. k + 1 \in 1..n /\ (k + 1) - 1 = k /\ k <= n
    BY <2>1
  <2>3. f[k] = g[k]
    BY <1>2, <2>2
  <2>4. f[k+1] = Apply(f[k], q[k+1]) /\ g[k+1] = Apply(g[k], q[k+1])
    BY <2>2 DEF Follows
  <2> QED  BY <2>3, <2>4
<1> HIDE DEF S
<1>3. n \in S
  BY <1>1, <1>2, Inductive
<1> QED  BY <1>3 DEF S

-----------------------------------------------------------------------------
\* What Carried is when there is nothing to do, when an operation is queued
\* and when the first is carried out, and that it is a memory.
LEMMA CarriedNothing ==
    ASSUME NEW mem
    PROVE  Carried(mem, <<>>) = mem
<1>1. Len(<<>>) = 0
  OBVIOUS
<1> QED  BY <1>1, CarriedRun

LEMMA CarriedAppend ==
    ASSUME NEW mem, NEW S, NEW q \in Seq(S), NEW o \in S
    PROVE  Carried(mem, Append(q, o)) = Apply(Carried(mem, q), o)
<1> DEFINE r == Append(q, o)
           n == Len(q)
           i == n + 1
           f == After(mem, q)
           g == After(mem, r)
<1>1. n \in Nat /\ Len(r) = i /\ r[i] = o /\ \A k \in 1..n : r[k] = q[k]
  BY AppendProperties, LenProperties
<1>2. n = Len(q)
  OBVIOUS
<1> HIDE DEF r, n
<1>3. i \in Nat /\ i \in 1..i /\ i - 1 = n /\ \A k \in 1..n : k \in 1..i
  BY <1>1
<1> HIDE DEF i
<1>4. Carried(mem, q) = f[n] /\ f[0] = mem /\ Follows(f, q, n)
  BY <1>1, <1>2, CarriedRun
<1>5. Carried(mem, r) = g[i] /\ g[0] = mem /\ Follows(g, r, i)
  BY <1>1, <1>3, CarriedRun
<1> HIDE DEF f, g
<1>6. Follows(g, q, n)
  BY <1>1, <1>3, <1>5 DEF Follows
<1>7. f[n] = g[n]
  BY <1>1, <1>4, <1>5, <1>6, RunsAgree
<1>8. g[i] = Apply(g[n], o)
  BY <1>1, <1>3, <1>5 DEF Follows
<1> QED  BY <1>4, <1>5, <1>7, <1>8 DEF r

LEMMA CarriedFirst ==
    ASSUME NEW mem, NEW S, NEW q \in Seq(S), q # <<>>
    PROVE  Carried(Apply(mem, Head(q)), Tail(q)) = Carried(mem, q)
<1> DEFINE r == Tail(q)
           n == Len(r)
           i == n + 1
           m == Apply(mem, Head(q))
           f == After(m, r)
           g == After(mem, q)
           h == [k \in 0..n |-> g[k+1]]
<1>1. n \in Nat /\ Len(q) = i /\ Head(q) = q[1] /\ \A k \in 1..n : r[k] = q[k+1]
  BY HeadTailProperties, LenProperties
<1>2. n = Len(r)
  OBVIOUS
<1> HIDE DEF r, n
<1>3. i \in Nat /\ 1 \in 1..i /\ 1 - 1 = 0
  BY <1>1
<1>4. Carried(m, r) = f[n] /\ f[0] = m /\ Follows(f, r, n)
  <2> HIDE DEF m
  <2> QED  BY <1>1, <1>2, CarriedRun
<1>5. Carried(mem, q) = g[i] /\ g[0] = mem /\ Follows(g, q, i)
  <2> HIDE DEF i
  <2> QED  BY <1>1, <1>3, CarriedRun
<1> HIDE DEF f, g
<1>6. g[1] = m
  BY <1>1, <1>3, <1>5 DEF Follows
<1> HIDE DEF m
<1>7. h[0] = m /\ h[n] = g[i]
  <2>1. 0 \in 0..n /\ 0 + 1 = 1 /\ n \in 0..n
    BY <1>1
  <2> QED  BY <1>6, <2>1
<1>8. Follows(h, r, n)
  <2> SUFFICES ASSUME NEW k \in 1..n PROVE h[k] = Apply(h[k-1], r[k])
    BY DEF Follows
  <2>1. k \in 0..n /\ k - 1 \in 0..n /\ k - 1 + 1 = k /\ k + 1 - 1 = k /\ k + 1 \in 1..i
    BY <1>1
  <2>2. h[k] = g[k+1] /\ h[k-1] = g[k]
    BY <2>1
  <2>3. g[k+1] = Apply(g[k], q[k+1])
    BY <1>5, <2>1 DEF Follows
  <2> HIDE DEF h
  <2> QED  BY <1>1, <2>2, <2>3
<1> HIDE DEF h
<1>9. f[n] = h[n]
  BY <1>1, <1>4, <1>7, <1>8, RunsAgree
<1> QED  BY <1>4, <1>5, <1>7, <1>9 DEF r, m

Memory == [Slots -> Colors]

LEMMA ApplyType ==
    ASSUME NEW mem \in Memory, NEW o \in Operation
    PROVE  Apply(mem, o) \in Memory
<1>1. CASE o \in [to : Slots, color : Colors]
  <2>1. o.color \in Colors /\ DOMAIN o = {"to", "color"}
    BY <1>1
  <2> QED  BY <2>1 DEF Apply, Memory
<1>2. CASE o \in [to : Slots, from : Slots]
  <2>1. mem[o.from] \in Colors /\ DOMAIN o = {"to", "from"}
    BY <1>2 DEF Memory
  <2> QED  BY <2>1 DEF Apply, Memory
<1> QED  BY <1>1, <1>2 DEF Operation

LEMMA CarriedType ==
    ASSUME NEW mem \in Memory, NEW q \in Seq(Operation)
    PROVE  Carried(mem, q) \in Memory
<1> DEFINE n == Len(q)
<1>1. n \in Nat /\ \A k \in 1..n : q[k] \in Operation
  BY LenProperties, ElementOfSeq
<1>2. n = Len(q)
  OBVIOUS
<1> HIDE DEF n
<1> DEFINE f == After(mem, q)
<1>3. Carried(mem, q) = f[n] /\ f[0] = mem /\ Follows(f, q, n)
  BY <1>1, <1>2, CarriedRun
<1> HIDE DEF f
<1> DEFINE S == {k \in Nat : k <= n => f[k] \in Memory}
<1>4. 0 \in S
  BY <1>3
<1>5. ASSUME NEW k \in Nat, k \in S PROVE k + 1 \in S
  <2>1. SUFFICES ASSUME k + 1 <= n PROVE f[k+1] \in Memory
    OBVIOUS
  <2>2. k + 1 \in 1..n /\ (k + 1) - 1 = k /\ k <= n
    BY <1>1, <2>1
  <2>3. f[k] \in Memory
    BY <1>5, <2>2
  <2>4. f[k+1] = Apply(f[k], q[k+1]) /\ q[k+1] \in Operation
    BY <1>1, <1>3, <2>2 DEF Follows
  <2> QED  BY <2>3, <2>4, ApplyType
<1> HIDE DEF S
<1>6. n \in S
  BY <1>1, <1>4, <1>5, Inductive
<1> QED  BY <1>3, <1>6 DEF S

-----------------------------------------------------------------------------
\* The engine's memory and its queue, and the memory of pixmaps.
Engine ==
    /\ vram \in Memory /\ queue \in Seq(Operation)
    /\ DoneWaits => queue = <<>>

Contents ==
    /\ Engine
    /\ sys \in [Pixmaps -> Colors \cup {"none"}]
    /\ \A p \in alive : sys[p] \in Colors
    /\ \A p \in Pixmaps : place[p] # 0

LEMMA SettledType ==
    ASSUME Engine
    PROVE  Settled \in Memory
BY CarriedType DEF Engine, Settled

LEMMA SettledIdle == /\ queue = <<>> => Settled = vram
                     /\ queue' = <<>> => Settled' = vram'
BY CarriedNothing DEF Settled

\* After kaaWaitSync the engine has nothing to do.
LEMMA AfterWait ==
    ASSUME SyncFlagged
    PROVE  Waited = Settled /\ Unwaited = <<>>
BY SettledIdle DEF SyncFlagged, Waited, Unwaited

LEMMA Waiting ==
    ASSUME Engine, SyncFlagged, WaitSync, vram' = Waited
    PROVE  Engine' /\ Settled' = Settled
<1>1. vram' = Settled /\ queue' = <<>>
  BY AfterWait DEF WaitSync
<1>2. Settled' = Settled
  BY <1>1, SettledIdle
<1> QED  BY <1>1, <1>2, SettledType DEF Engine

\* An accelerated operation is carried out sooner or later.
LEMMA Accelerated ==
    ASSUME Engine, NEW mem \in Memory, NEW q \in Seq(Operation), Carried(mem, q) = Settled,
           NEW o \in Operation, Accelerate(mem, q, o)
    PROVE  Engine' /\ Settled' = Apply(Settled, o) /\ UNCHANGED <<place, sys>>
<1>1. UNCHANGED <<place, sys>> /\ Done(mem, q, o)
  BY DEF Accelerate
<1>2. CASE DoneWaits
  <2>1. vram' = Apply(Settled, o) /\ queue' = <<>>
    BY <1>1, <1>2 DEF Done
  <2>2. Apply(Settled, o) \in Memory
    BY SettledType, ApplyType
  <2>3. Settled' = vram'
    BY <2>1, SettledIdle
  <2> QED  BY <1>1, <2>1, <2>2, <2>3 DEF Engine
<1>3. CASE ~DoneWaits
  <2>1. vram' = mem /\ queue' = Append(q, o)
    BY <1>1, <1>3 DEF Done
  <2>2. Append(q, o) \in Seq(Operation)
    BY AppendProperties
  <2>3. Carried(mem, Append(q, o)) = Apply(Settled, o)
    BY CarriedAppend
  <2>4. Settled' = Carried(vram', queue')
    BY DEF Settled
  <2> QED  BY <1>1, <1>3, <2>1, <2>2, <2>3, <2>4 DEF Engine
<1> QED  BY <1>2, <1>3

LEMMA Executed ==
    ASSUME Engine, Execute
    PROVE  Engine' /\ Settled' = Settled
<1>1. vram' = Apply(vram, Head(queue)) /\ queue' = Tail(queue) /\ queue # <<>>
  BY DEF Execute
<1>2. Head(queue) \in Operation /\ Tail(queue) \in Seq(Operation)
  BY <1>1, HeadTailProperties DEF Engine
<1>3. Apply(vram, Head(queue)) \in Memory
  BY <1>2, ApplyType DEF Engine
<1>4. Carried(Apply(vram, Head(queue)), Tail(queue)) = Carried(vram, queue)
  BY <1>1, CarriedFirst DEF Engine
<1>5. Settled' = Settled
  BY <1>1, <1>4 DEF Settled
<1> QED  BY <1>1, <1>2, <1>3, <1>5 DEF Engine

-----------------------------------------------------------------------------
\* Drawable d is drawn in colour c, now or once the engine has got there.
Drawn(d, c) ==
    /\ UNCHANGED place
    /\ IF IsOffscreen(d) THEN Settled' = [Settled EXCEPT ![At(d)] = c] /\ UNCHANGED sys
                         ELSE Settled' = Settled /\ sys' = [sys EXCEPT ![d] = c]

LEMMA PlaceOf ==
    ASSUME StateTypes, NEW d \in Here
    PROVE  /\ At(d) \in Slots \cup {System}
           /\ IsOffscreen(d) => At(d) \in Slots
           /\ ~IsOffscreen(d) => d \in alive /\ d \in Pixmaps
BY SystemFacts DEF StateTypes, Here, IsOffscreen, At

LEMMA ColorType ==
    ASSUME StateTypes, Contents, NEW mem \in Memory, NEW d \in Here
    PROVE  ColorIn(mem, d) \in Colors
BY PlaceOf DEF ColorIn, Contents, Memory

LEMMA Checked ==
    ASSUME StateTypes, SyncFlagged, Engine, NEW d \in Here, NEW c \in Colors, CheckDraw(d, c)
    PROVE  Engine' /\ Drawn(d, c)
<1>1. Waited = Settled /\ queue' = <<>> /\ Settled' = vram'
  BY AfterWait, SettledIdle DEF CheckDraw, WaitSync
<1>2. Write(Settled, d, c)
  BY <1>1 DEF CheckDraw
<1>3. vram' \in Memory /\ Drawn(d, c)
  <2>1. CASE IsOffscreen(d)
    <3>1. vram' = [Settled EXCEPT ![At(d)] = c] /\ UNCHANGED <<place, sys>>
      BY <1>2, <2>1 DEF Write
    <3>2. At(d) \in Slots
      BY <2>1, PlaceOf
    <3>3. vram' \in Memory
      BY <3>1, <3>2, SettledType DEF Memory
    <3> QED  BY <1>1, <2>1, <3>1, <3>3 DEF Drawn
  <2>2. CASE ~IsOffscreen(d)
    BY <1>1, <1>2, <2>2, SettledType DEF Write, Drawn
  <2> QED  BY <2>1, <2>2
<1> QED  BY <1>1, <1>3 DEF Engine

LEMMA Filled ==
    ASSUME StateTypes, Engine, NEW d \in Here, NEW c \in Colors, IsOffscreen(d),
           NEW mem \in Memory, NEW q \in Seq(Operation), Carried(mem, q) = Settled,
           Accelerate(mem, q, Fill(At(d), c))
    PROVE  Engine' /\ Drawn(d, c)
<1>1. At(d) \in Slots
  BY PlaceOf
<1>2. Fill(At(d), c) \in Operation
  BY <1>1 DEF Fill, Operation
<1>3. Engine' /\ Settled' = Apply(Settled, Fill(At(d), c)) /\ UNCHANGED <<place, sys>>
  BY <1>2, Accelerated
<1>4. Apply(Settled, Fill(At(d), c)) = [Settled EXCEPT ![At(d)] = c]
  BY DEF Apply, Fill
<1> QED  BY <1>3, <1>4 DEF Drawn

LEMMA Blitted ==
    ASSUME StateTypes, Engine, NEW d \in Here, NEW s \in Here, IsOffscreen(d), IsOffscreen(s),
           Accelerate(vram, queue, Blit(At(d), At(s)))
    PROVE  Engine' /\ Drawn(d, ColorIn(Settled, s))
<1>1. At(d) \in Slots /\ At(s) \in Slots
  BY PlaceOf
<1>2. Blit(At(d), At(s)) \in Operation
  BY <1>1 DEF Blit, Operation
<1>3. Engine' /\ Settled' = Apply(Settled, Blit(At(d), At(s))) /\ UNCHANGED <<place, sys>>
  BY <1>2, Accelerated DEF Engine, Settled
<1>4. Apply(Settled, Blit(At(d), At(s))) = [Settled EXCEPT ![At(d)] = Settled[At(s)]]
  BY DEF Apply, Blit
<1> QED  BY <1>3, <1>4 DEF Drawn, ColorIn

LEMMA DrawnInMemory ==
    ASSUME Engine, NEW d, NEW c, ~IsOffscreen(d), PlainDraw(d, c)
    PROVE  Engine' /\ Drawn(d, c)
<1>1. UNCHANGED <<place, vram, queue>> /\ sys' = [sys EXCEPT ![d] = c]
  BY DEF PlainDraw, Write, gpuVars
<1> QED  BY <1>1 DEF Drawn, Engine, Settled

\* What a pixmap holds goes with it.
LEMMA SentOut ==
    ASSUME Engine, SyncFlagged, NEW p \in Pixmaps, MoveOut(p)
    PROVE  /\ Engine' /\ Settled' = Settled
           /\ sys' = [sys EXCEPT ![p] = Settled[place[p]]]
           /\ place' = [place EXCEPT ![p] = System]
<1>1. Waited = Settled
  BY AfterWait
<1>2. Engine' /\ Settled' = Settled
  BY Waiting DEF MoveOut
<1> QED  BY <1>1, <1>2 DEF MoveOut, Moved

LEMMA TakenIn ==
    ASSUME StateTypes, Contents, SyncFlagged, NEW p \in alive, NEW slot \in Slots,
           Upload(p, slot)
    PROVE  Engine' /\ Settled' = [Settled EXCEPT ![slot] = sys[p]]
<1>1. queue' = <<>>
  BY AfterWait, KaaAssumption DEF Upload, WaitSync, gpuVars, Contents, Engine
<1>2. vram' = [Settled EXCEPT ![slot] = sys[p]]
  <2>1. CASE UploadHook
    <3>1. queue = <<>>
      BY <2>1, KaaAssumption DEF Contents, Engine
    <3> QED  BY <2>1, <3>1, SettledIdle DEF Upload
  <2>2. CASE ~UploadHook
    BY <2>2, AfterWait DEF Upload
  <2> QED  BY <2>1, <2>2
<1>3. sys[p] \in Colors /\ Settled \in Memory
  BY SettledType DEF Contents
<1>4. vram' \in Memory
  BY <1>2, <1>3 DEF Memory
<1> QED  BY <1>1, <1>2, <1>4, SettledIdle DEF Engine

-----------------------------------------------------------------------------
\* The calls that move a pixmap come first, and one that draws or replies comes
\* last.  Fills come alone, with a GC validated for their drawable.
Moving == [call : {"UseScreen", "UseMemory"}, src : Pixmaps, dst : Pixmaps]

Ends(calls, u, c) ==
    /\ u \in Seq(Moving) /\ calls = u \o <<c>>
    /\ c.call \notin {"UseScreen", "UseMemory"}

LastDraws ==
    todo # <<>> =>
      \E u, c : /\ Ends(todo, u, c)
                /\ c.call \in {"Fill", "Tile"} => u = <<>> /\ gcFor = c.dst
                /\ c.call = "Tile" => Tiles

LEMMA EndsFacts ==
    ASSUME NEW calls, NEW u, NEW c, Ends(calls, u, c)
    PROVE  /\ calls # <<>> /\ Last(calls) = c
           /\ u = <<>> => calls = <<c>>
           /\ u # <<>> => /\ Head(calls) \in Moving
                          /\ Ends(Tail(calls), Tail(u), c)
<1>1. u \in Seq(Moving) /\ Len(u) \in Nat /\ calls = u \o <<c>>
  BY LenProperties DEF Ends
<1> DEFINE n == Len(u)
<1>2. /\ n \in Nat /\ Len(calls) = n + 1 /\ calls[n+1] = c
      /\ \A i \in 1..n : calls[i] = u[i]
  BY <1>1
<1>3. Last(calls) = c /\ calls # <<>>
  BY <1>2 DEF Last
<1>4. ASSUME u = <<>> PROVE calls = <<c>>
  BY <1>1, <1>4
<1>5. ASSUME u # <<>> PROVE Head(calls) \in Moving /\ Ends(Tail(calls), Tail(u), c)
  <2>1. Head(u) \in Moving /\ Tail(u) \in Seq(Moving)
    BY <1>1, <1>5, HeadTailProperties
  <2>2. Head(calls) = Head(u)
    BY <1>1, <1>5
  <2>3. Tail(calls) = Tail(u) \o <<c>>
    BY <1>1, <1>5
  <2> QED  BY <2>1, <2>2, <2>3 DEF Ends
<1> QED  BY <1>3, <1>4, <1>5

LEMMA EndsWith ==
    ASSUME NEW u \in Seq(Moving), NEW k, k \notin {"UseScreen", "UseMemory"}, NEW s, NEW d
    PROVE  Ends(u \o <<Call(k, s, d)>>, u, Call(k, s, d))
BY DEF Ends, Call

LEMMA EndsAlone ==
    \A k, s, d :
      k \notin {"UseScreen", "UseMemory"} => Ends(<<Call(k, s, d)>>, <<>>, Call(k, s, d))
<1> TAKE k, s, d
<1> HAVE k \notin {"UseScreen", "UseMemory"}
<1>1. <<Call(k, s, d)>> = <<>> \o <<Call(k, s, d)>> /\ <<>> \in Seq(Moving)
  OBVIOUS
<1> QED  BY <1>1 DEF Ends, Call

LEMMA CallFields ==
    \A k, s, d : Call(k, s, d).call = k /\ Call(k, s, d).src = s /\ Call(k, s, d).dst = d
BY DEF Call

LEMMA UseMoving ==
    ASSUME NEW c \in {"UseScreen", "UseMemory"}, NEW d
    PROVE  Use(c, d) \in Seq(Moving)
<1>1. d \in Pixmaps => Call(c, d, d) \in Moving
  BY DEF Moving, Call
<1> QED  BY <1>1 DEF Use

\* What the requests that may move pixmaps end with.
LEMMA CopyEnds ==
    ASSUME NEW s, NEW d
    PROVE  \E u : Ends(CopyNtoN(s, d), u, Call("Copy", s, d))
<1> DEFINE first == IF up THEN Use(IF IsOffscreen(d) THEN "UseScreen" ELSE "UseMemory", s) ELSE <<>>
<1>1. first \in Seq(Moving)
  BY UseMoving
<1> HIDE DEF first
<1>2. Ends(first \o <<Call("Copy", s, d)>>, first, Call("Copy", s, d))
  BY <1>1, EndsWith
<1> QED  BY <1>2 DEF CopyNtoN, first

LEMMA FallbackEnds ==
    ASSUME NEW s, NEW d
    PROVE  \E u : Ends(Fallback(s, d), u, Call("Check", s, d))
<1> DEFINE first == Use("UseMemory", s) \o Use("UseMemory", d)
<1>1. first \in Seq(Moving)
  BY UseMoving, Joined
<1> HIDE DEF first
<1>2. Ends(first \o <<Call("Check", s, d)>>, first, Call("Check", s, d))
  BY <1>1, EndsWith
<1> QED  BY <1>2 DEF Fallback, first

LEMMA SolidEnds ==
    ASSUME NEW s, NEW d
    PROVE  \E u : Ends(Use("UseMemory", s) \o Use("UseScreen", d) \o <<Call("TrySolid", s, d)>>,
                       u, Call("TrySolid", s, d))
<1> DEFINE first == Use("UseMemory", s) \o Use("UseScreen", d)
<1>1. first \in Seq(Moving)
  BY UseMoving, Joined
<1> HIDE DEF first
<1>2. Ends(first \o <<Call("TrySolid", s, d)>>, first, Call("TrySolid", s, d))
  BY <1>1, EndsWith
<1> QED  BY <1>2 DEF first

-----------------------------------------------------------------------------
\* What is asked of the store depends on the last call only.
Asked(c) ==
    CASE c.call = "Fill" -> <<"draw", c.src, c.dst>>
      [] c.call \in {"Tile", "Copy", "Check", "TrySolid"} -> <<"copy", c.src, c.dst>>
      [] c.call = "Reply" -> <<"reply", c.src, c.dst>>
      [] OTHER -> <<>>

LEMMA RequestedNow ==
    /\ todo = <<>> => Requested = <<>>
    /\ \A u, c : Ends(todo, u, c) => Requested = Asked(c)
<1>1. todo = <<>> => Requested = <<>>
  BY DEF Requested
<1>2. ASSUME NEW u, NEW c, Ends(todo, u, c) PROVE Requested = Asked(c)
  <2>1. todo # <<>> /\ Last(todo) = c
    BY <1>2, EndsFacts
  <2> QED  BY <2>1 DEF Requested, Asked
<1> QED  BY <1>1, <1>2

LEMMA RequestedNext ==
    /\ todo' = <<>> => Requested' = <<>>
    /\ \A u, c : Ends(todo', u, c) => Requested' = Asked(c)
<1>1. todo' = <<>> => Requested' = <<>>
  BY DEF Requested
<1>2. ASSUME NEW u, NEW c, Ends(todo', u, c) PROVE Requested' = Asked(c)
  <2>1. todo' # <<>> /\ Last(todo') = c
    BY <1>2, EndsFacts
  <2> QED  BY <2>1 DEF Requested, Asked
<1> QED  BY <1>1, <1>2

LEMMA AskedKinds ==
    \A s, d : /\ Asked(Call("Fill", s, d)) = <<"draw", s, d>>
              /\ \A k \in {"Tile", "Copy", "Check", "TrySolid"} : Asked(Call(k, s, d)) = <<"copy", s, d>>
              /\ Asked(Call("Reply", s, d)) = <<"reply", s, d>>
              /\ Asked(Call("SwapOut", s, d)) = <<>>
BY DEF Asked, Call

\* A call that moves a pixmap leaves the rest of the request to be made; one
\* that does not ends it.
LEMMA MovingHead ==
    ASSUME LastDraws, InCall("UseScreen") \/ InCall("UseMemory"), Return
    PROVE  LastDraws' /\ Requested' = Requested
<1>1. PICK u, c : /\ Ends(todo, u, c)
                  /\ c.call \in {"Fill", "Tile"} => u = <<>>
  BY DEF LastDraws, InCall
<1>2. Head(todo).call \in {"UseScreen", "UseMemory"}
  BY DEF InCall
<1>3. u # <<>>
  <2>1. u = <<>> => todo = <<c>>
    BY <1>1, EndsFacts
  <2>2. todo = <<c>> => Head(todo) = c
    OBVIOUS
  <2> QED  BY <1>1, <1>2, <2>1, <2>2 DEF Ends
<1>4. Ends(todo', Tail(u), c)
  BY <1>1, <1>3, EndsFacts DEF Return
<1> QED  BY <1>1, <1>3, <1>4, RequestedNow, RequestedNext DEF LastDraws

LEMMA LastHead ==
    ASSUME LastDraws, todo # <<>>, Head(todo).call \notin {"UseScreen", "UseMemory"}
    PROVE  /\ Ends(todo, <<>>, Head(todo)) /\ Tail(todo) = <<>>
           /\ Requested = Asked(Head(todo))
           /\ Head(todo).call \in {"Fill", "Tile"} => gcFor = Head(todo).dst
           /\ Head(todo).call = "Tile" => Tiles
<1>1. PICK u, c : /\ Ends(todo, u, c)
                  /\ c.call \in {"Fill", "Tile"} => gcFor = c.dst
                  /\ c.call = "Tile" => Tiles
  BY DEF LastDraws
<1>2. u = <<>>
  <2>1. u # <<>> => Head(todo) \in Moving
    BY <1>1, EndsFacts
  <2> QED  BY <2>1 DEF Moving
<1>3. todo = <<c>>
  BY <1>1, <1>2, EndsFacts
<1>4. Head(todo) = c /\ Tail(todo) = <<>>
  BY <1>3
<1> QED  BY <1>1, <1>2, <1>4, RequestedNow

\* Requests end as they should when they begin and when they are carried out.
LEMMA LastDrawsStep ==
    ASSUME LastDraws, [Next]_vars
    PROVE  LastDraws'
<1> USE DEF vars, pixVars, memVars, gpuVars, gcVars, areaVars
<1>1. todo' = <<>> => LastDraws'
  BY DEF LastDraws
<1>2. \A u, k, s, d :
        Ends(todo', u, Call(k, s, d)) /\ k \notin {"Fill", "Tile"} => LastDraws'
  BY CallFields DEF LastDraws
<1>3. todo' = todo /\ gcFor' = gcFor => LastDraws'
  BY DEF LastDraws
<1>4. CASE \E p \in Pixmaps : Create(p) \/ Destroy(p)
  BY <1>1, <1>4 DEF Create, Destroy, Ready
<1>5. ASSUME NEW d \in Drawables, NEW c \in Colors, PolyFillRect(d, c)
      PROVE  LastDraws'
  <2>1. todo' = <<Call("Fill", c, d)>> /\ gcFor' = d
    BY <1>5 DEF PolyFillRect, Request, ValidateGC
  <2>2. Ends(todo', <<>>, Call("Fill", c, d))
    BY <2>1, EndsAlone
  <2>3. Call("Fill", c, d).dst = d /\ Call("Fill", c, d).call = "Fill"
    BY CallFields
  <2> QED  BY <2>1, <2>2, <2>3 DEF LastDraws
<1>6. ASSUME NEW d \in Drawables, NEW tile \in Pixmaps, FillTiled(tile, d)
      PROVE  LastDraws'
  <2>1. todo' = <<Call("Tile", tile, d)>> /\ gcFor' = d /\ Tiles
    BY <1>6 DEF FillTiled, Request, ValidateGC
  <2>2. Ends(todo', <<>>, Call("Tile", tile, d)) /\ Call("Tile", tile, d).dst = d
    BY <2>1, EndsAlone, CallFields
  <2> QED  BY <2>1, <2>2 DEF LastDraws
<1>7. ASSUME NEW d \in Drawables, NEW s \in Drawables, CopyArea(s, d) \/ Composite(s, d)
      PROVE  LastDraws'
  <2>1. \/ todo' = CopyNtoN(s, d)
        \/ todo' = <<Call("Check", s, d)>>
        \/ todo' = Fallback(s, d)
        \/ todo' = Use("UseMemory", s) \o Use("UseScreen", d) \o <<Call("TrySolid", s, d)>>
    BY <1>7 DEF CopyArea, Composite, Request
  <2>2. Ends(<<Call("Check", s, d)>>, <<>>, Call("Check", s, d))
    BY EndsAlone
  <2>3. \E u : \/ Ends(todo', u, Call("Copy", s, d))
              \/ Ends(todo', u, Call("Check", s, d))
              \/ Ends(todo', u, Call("TrySolid", s, d))
    BY <2>1, <2>2, CopyEnds, FallbackEnds, SolidEnds
  <2> QED  BY <1>2, <2>3
<1>8. ASSUME NEW d \in Drawables, GetImage(d)
      PROVE  LastDraws'
  <2>1. todo' = <<Call("Reply", ColorIn(Waited, d), d)>>
    BY <1>8 DEF GetImage
  <2>2. Ends(todo', <<>>, Call("Reply", ColorIn(Waited, d), d))
    BY <2>1, EndsAlone
  <2> QED  BY <1>2, <2>2
<1>9. CASE UseScreen \/ UseMemory
  BY <1>9, MovingHead DEF UseScreen, UseMemory
<1>10. CASE FillRect \/ Tile \/ Copy \/ Check \/ Reply \/ SwappedOut
  BY <1>1, <1>10, LastHead DEF FillRect, Tile, Copy, Check, Reply, SwappedOut, InCall, Return
<1>11. CASE TrySolid
  <2> DEFINE s == Head(todo).src  d == Head(todo).dst
  <2>1. Return \/ todo' = <<Call("Check", s, d)>> \/ todo' = Fallback(s, d)
    BY <1>11 DEF TrySolid
  <2>2. Return => todo' = <<>>
    BY <1>11, LastHead DEF TrySolid, InCall, Return
  <2> HIDE DEF s, d
  <2>3. todo' = <<>> \/ \E u : Ends(todo', u, Call("Check", s, d))
    BY <2>1, <2>2, FallbackEnds, EndsAlone
  <2> QED  BY <1>1, <1>2, <2>3
<1>12. CASE Disable
  <2>1. todo' = <<Call("SwapOut", "screen", "screen")>>
    BY <1>12 DEF Disable
  <2>2. Ends(todo', <<>>, Call("SwapOut", "screen", "screen"))
    BY <2>1, EndsAlone
  <2> QED  BY <1>2, <2>2
<1>13. CASE \E p \in Pixmaps : KickOut(p)
  <2>1. todo' = todo /\ InCall("SwapOut")
    BY <1>13 DEF KickOut
  <2>2. Ends(todo, <<>>, Head(todo)) /\ Head(todo).call = "SwapOut"
    BY <2>1, LastHead DEF InCall
  <2> QED  BY <2>1, <2>2 DEF LastDraws
<1>14. CASE Enable \/ Execute \/ UNCHANGED vars
  BY <1>3, <1>14 DEF Enable, Execute
<1> QED  BY <1>4, <1>5, <1>6, <1>7, <1>8, <1>9, <1>10, <1>11, <1>12, <1>13, <1>14
         DEF Next, Requests, Calls, Switch

-----------------------------------------------------------------------------
\* What clients see of each drawable.
Content ==
    [d \in Drawables |-> IF d \in alive \cup {"screen"} THEN ColorIn(Settled, d) ELSE "none"]

\* Drawables that are in video memory are in different places.
LEMMA Apart ==
    ASSUME StateTypes, AreasOwned, Contents, NEW d \in Here, NEW e \in Here, d # e,
           IsOffscreen(d), IsOffscreen(e)
    PROVE  At(d) # At(e)
<1>1. \A p \in Here : (p \in Pixmaps /\ p # "screen") \/ p = "screen"
  BY SystemFacts DEF Here, StateTypes
<1>2. CASE d = "screen" \/ e = "screen"
  BY <1>1, <1>2 DEF At, Contents
<1>3. CASE d # "screen" /\ e # "screen"
  <2>1. d \in Pixmaps /\ e \in Pixmaps /\ At(d) = place[d] /\ At(e) = place[e]
    BY <1>1, <1>3 DEF At
  <2>2. held[d] = {place[d]} /\ held[e] = {place[e]} /\ held[d] \cap held[e] = {}
    BY <2>1 DEF AreasOwned
  <2> QED  BY <2>1, <2>2
<1> QED  BY <1>2, <1>3

LEMMA ContentOf ==
    ASSUME StateTypes
    PROVE  /\ Here \subseteq Drawables
           /\ \A d \in Here : Content[d] = ColorIn(Settled, d)
           /\ \A d \in Drawables \ Here : Content[d] = "none"
<1>1. Here \subseteq Drawables
  BY DEF Here, Drawables, StateTypes
<1> QED  BY <1>1 DEF Content, Here

LEMMA SameContent ==
    ASSUME UNCHANGED alive, \A d \in Here : ColorIn(Settled, d)' = ColorIn(Settled, d)
    PROVE  Content' = Content
BY DEF Content, Here

LEMMA OneContent ==
    ASSUME UNCHANGED alive, NEW d \in Here, NEW c, ColorIn(Settled, d)' = c,
           \A e \in Here \ {d} : ColorIn(Settled, e)' = ColorIn(Settled, e)
    PROVE  Content' = [Content EXCEPT ![d] = c]
BY DEF Content, Here

LEMMA NothingShown ==
    ASSUME UNCHANGED <<alive, place, sys>>, Settled' = Settled
    PROVE  Content' = Content
<1>1. \A d \in Here : ColorIn(Settled, d)' = ColorIn(Settled, d)
  BY DEF ColorIn, IsOffscreen, At
<1> QED  BY <1>1, SameContent

LEMMA DrawnShown ==
    ASSUME StateTypes, AreasOwned, Contents, UNCHANGED alive,
           NEW d \in Here, NEW c \in Colors, Drawn(d, c)
    PROVE  Content' = [Content EXCEPT ![d] = c]
<1>1. \A e : (IsOffscreen(e)' <=> IsOffscreen(e)) /\ At(e)' = At(e)
  BY DEF Drawn, IsOffscreen, At
<1>2. CASE IsOffscreen(d)
  <2>1. Settled' = [Settled EXCEPT ![At(d)] = c] /\ sys' = sys
    BY <1>2 DEF Drawn
  <2>2. At(d) \in Slots /\ Settled \in Memory
    BY <1>2, PlaceOf, SettledType DEF Contents
  <2>3. Settled'[At(d)] = c /\ \A i \in Slots \ {At(d)} : Settled'[i] = Settled[i]
    BY <2>1, <2>2 DEF Memory
  <2>4. ColorIn(Settled, d)' = c
    BY <1>1, <1>2, <2>3 DEF ColorIn
  <2>5. ASSUME NEW e \in Here \ {d} PROVE ColorIn(Settled, e)' = ColorIn(Settled, e)
    <3>1. IsOffscreen(e) => At(e) \in Slots \ {At(d)}
      BY <1>2, PlaceOf, Apart
    <3> QED  BY <1>1, <2>1, <2>3, <3>1 DEF ColorIn
  <2> QED  BY <2>4, <2>5, OneContent
<1>3. CASE ~IsOffscreen(d)
  <2>1. Settled' = Settled /\ sys' = [sys EXCEPT ![d] = c] /\ d \in Pixmaps
    BY <1>3, PlaceOf DEF Drawn
  <2>2. sys'[d] = c /\ \A e \in Pixmaps \ {d} : sys'[e] = sys[e]
    BY <2>1 DEF Contents
  <2>3. ColorIn(Settled, d)' = c
    BY <1>1, <1>3, <2>2 DEF ColorIn
  <2>4. ASSUME NEW e \in Here \ {d} PROVE ColorIn(Settled, e)' = ColorIn(Settled, e)
    <3>1. ~IsOffscreen(e) => e \in Pixmaps \ {d}
      BY PlaceOf
    <3> QED  BY <1>1, <2>1, <2>2, <3>1 DEF ColorIn
  <2> QED  BY <2>3, <2>4, OneContent
<1> QED  BY <1>2, <1>3

\* A pixmap that moves takes its content with it, and shows no other's.
LEMMA OutShown ==
    ASSUME StateTypes, AreasOwned, Contents, UNCHANGED alive,
           NEW p \in alive, IsOffscreen(p), Settled' = Settled,
           sys' = [sys EXCEPT ![p] = Settled[place[p]]], place' = [place EXCEPT ![p] = System]
    PROVE  Content' = Content
<1>1. p \in Pixmaps /\ p # "screen"
  BY SystemFacts DEF StateTypes
<1>2. /\ place'[p] = System /\ sys'[p] = Settled[place[p]]
      /\ \A e \in Pixmaps \ {p} : place'[e] = place[e] /\ sys'[e] = sys[e]
  BY <1>1 DEF StateTypes, Contents
<1>3. ColorIn(Settled, p)' = ColorIn(Settled, p)
  BY <1>1, <1>2 DEF ColorIn, IsOffscreen, At
<1>4. ASSUME NEW e \in Here \ {p} PROVE ColorIn(Settled, e)' = ColorIn(Settled, e)
  <2>1. e = "screen" \/ e \in Pixmaps \ {p}
    BY DEF Here, StateTypes
  <2>2. At(e)' = At(e) /\ (e # "screen" => sys'[e] = sys[e])
    BY <1>2, <2>1 DEF At
  <2> QED  BY <2>2, ScreenStays DEF ColorIn, IsOffscreen
<1> QED  BY <1>3, <1>4, SameContent

LEMMA InShown ==
    ASSUME StateTypes, AreasOwned, Contents, UNCHANGED <<alive, sys>>,
           NEW p \in alive, ~IsOffscreen(p), NEW slot \in Slots, slot # 0,
           \A r \in Pixmaps : slot \notin held[r],
           Settled' = [Settled EXCEPT ![slot] = sys[p]], place' = [place EXCEPT ![p] = slot]
    PROVE  Content' = Content
<1>1. p \in Pixmaps /\ p # "screen" /\ slot # System
  BY SystemFacts DEF StateTypes
<1>2. place'[p] = slot /\ \A e \in Pixmaps \ {p} : place'[e] = place[e]
  BY <1>1 DEF StateTypes
<1>3. Settled'[slot] = sys[p] /\ \A i \in Slots \ {slot} : Settled'[i] = Settled[i]
  BY SettledType DEF Contents, Memory
<1>4. ColorIn(Settled, p)' = ColorIn(Settled, p)
  BY <1>1, <1>2, <1>3 DEF ColorIn, IsOffscreen, At
<1>5. ASSUME NEW e \in Here \ {p} PROVE ColorIn(Settled, e)' = ColorIn(Settled, e)
  <2>1. e = "screen" \/ e \in Pixmaps \ {p}
    BY DEF Here, StateTypes
  <2>2. At(e)' = At(e)
    BY <1>2, <2>1 DEF At
  <2>3. IsOffscreen(e) => At(e) \in Slots \ {slot}
    <3>1. CASE e = "screen"
      BY <3>1, PlaceOf DEF At
    <3>2. CASE e # "screen"
      <4>1. IsOffscreen(e) => held[e] = {place[e]} /\ At(e) = place[e]
        BY <2>1, <3>2 DEF AreasOwned, At
      <4> QED  BY <2>1, <3>2, <4>1, PlaceOf
    <3> QED  BY <3>1, <3>2
  <2> QED  BY <1>3, <2>2, <2>3 DEF ColorIn, IsOffscreen
<1> QED  BY <1>4, <1>5, SameContent

-----------------------------------------------------------------------------
\* A pixmap that has not been used yet is in system memory, so that it is only
\* moved in from there.
Scores ==
    /\ score \in [Pixmaps -> -ScoreLimit..ScoreLimit \cup {ScoreInit}]
    /\ \A p \in Pixmaps : score[p] = ScoreInit => place[p] = System

StoreInv == IInv /\ Scores /\ Contents /\ LastDraws

\* The steps that draw nothing and move nothing, those that draw, and those that
\* move a pixmap.
Kept == Engine' /\ Settled' = Settled /\ UNCHANGED <<alive, place, sys>>

Draws(d, c) == Engine' /\ Drawn(d, c) /\ UNCHANGED alive

Sent(p) ==
    /\ Engine' /\ Settled' = Settled /\ UNCHANGED alive
    /\ IsOffscreen(p)
    /\ sys' = [sys EXCEPT ![p] = Settled[place[p]]] /\ place' = [place EXCEPT ![p] = System]

Taken(p, slot) ==
    /\ Engine' /\ Settled' = [Settled EXCEPT ![slot] = sys[p]] /\ UNCHANGED <<alive, sys>>
    /\ ~IsOffscreen(p) /\ slot \in Slots \ {0} /\ \A r \in Pixmaps : slot \notin held[r]
    /\ place' = [place EXCEPT ![p] = slot]

LEMMA FillDraws ==
    ASSUME StoreInv, FillRect
    PROVE  /\ Head(todo).dst \in Here /\ Head(todo).src \in Colors
           /\ Draws(Head(todo).dst, Head(todo).src)
           /\ Requested = <<"draw", Head(todo).src, Head(todo).dst>> /\ todo' = <<>>
<1> DEFINE c == Head(todo).src  d == Head(todo).dst
<1>1. todo # <<>> /\ Head(todo).call = "Fill" /\ todo' = Tail(todo) /\ alive' = alive
  BY DEF FillRect, InCall, Return, pixVars
<1>2. Head(todo) \in RequestCalls
  BY <1>1, HeadCall DEF StoreInv, IInv
<1>3. d \in Here /\ c \in Colors
  BY <1>1, <1>2 DEF RequestCalls
<1>4. /\ Tail(todo) = <<>> /\ Requested = Asked(Head(todo)) /\ gcFor = d
  BY <1>1, LastHead DEF StoreInv
<1>5. Requested = <<"draw", c, d>>
  BY <1>1, <1>4 DEF Asked
<1>6. \/ gcOps = "async" /\ PlainDraw(d, c)
      \/ CheckDraw(d, c)
      \/ IsOffscreen(d) /\ Accelerate(vram, queue, Fill(At(d), c))
  BY DEF FillRect
<1>7. gcOps = "async" => ~IsOffscreen(d)
  BY <1>3, <1>4, SystemFacts DEF StoreInv, IInv, OpsCurrent, StateTypes, Here, Drawables
<1> HIDE DEF c, d
<1>8. StateTypes /\ Engine /\ SyncFlagged /\ vram \in Memory /\ queue \in Seq(Operation)
      /\ Carried(vram, queue) = Settled
  BY DEF StoreInv, IInv, Contents, Engine, Settled
<1>9. Engine' /\ Drawn(d, c)
  BY <1>3, <1>6, <1>7, <1>8, DrawnInMemory, Checked, Filled
<1> QED  BY <1>1, <1>3, <1>4, <1>5, <1>9 DEF Draws, c, d

LEMMA CopyHead ==
    ASSUME StoreInv, InCall("Tile") \/ InCall("Copy") \/ InCall("Check") \/ InCall("TrySolid")
    PROVE  /\ Head(todo).dst \in Here /\ Head(todo).src \in Here
           /\ Requested = <<"copy", Head(todo).src, Head(todo).dst>> /\ Tail(todo) = <<>>
<1>1. todo # <<>> /\ Head(todo).call \in {"Tile", "Copy", "Check", "TrySolid"}
  BY DEF InCall
<1>2. Head(todo) \in RequestCalls
  BY <1>1, HeadCall DEF StoreInv, IInv
<1>3. Head(todo).dst \in Here /\ Head(todo).src \in Here
  BY <1>1, <1>2 DEF RequestCalls
<1>4. Tail(todo) = <<>> /\ Requested = Asked(Head(todo))
  BY <1>1, LastHead DEF StoreInv
<1> QED  BY <1>1, <1>3, <1>4 DEF Asked

LEMMA CopiedByCheck ==
    ASSUME StoreInv, NEW s \in Here, NEW d \in Here, CheckCopy(s, d)
    PROVE  Engine' /\ Drawn(d, ColorIn(Settled, s))
<1>1. StateTypes /\ Contents /\ Engine /\ SyncFlagged
  BY DEF StoreInv, IInv, Contents
<1>2. CheckDraw(d, ColorIn(Settled, s))
  BY <1>1, AfterWait DEF CheckCopy
<1>3. ColorIn(Settled, s) \in Colors
  BY <1>1, SettledType, ColorType
<1> QED  BY <1>1, <1>2, <1>3, Checked

LEMMA CopyDraws ==
    ASSUME StoreInv, Copy \/ Check
    PROVE  Draws(Head(todo).dst, ColorIn(Settled, Head(todo).src)) /\ todo' = Tail(todo)
<1> DEFINE s == Head(todo).src  d == Head(todo).dst
<1>1. s \in Here /\ d \in Here
  BY CopyHead DEF Copy, Check
<1>2. todo' = Tail(todo) /\ alive' = alive
  BY DEF Copy, Check, Return, pixVars
<1>3. \/ CheckCopy(s, d)
      \/ IsOffscreen(s) /\ IsOffscreen(d) /\ Accelerate(vram, queue, Blit(At(d), At(s)))
  BY DEF Copy, Check
<1> HIDE DEF s, d
<1>4. StateTypes /\ Engine
  BY DEF StoreInv, IInv, Contents
<1>5. Engine' /\ Drawn(d, ColorIn(Settled, s))
  BY <1>1, <1>3, <1>4, CopiedByCheck, Blitted
<1> QED  BY <1>2, <1>5 DEF Draws, s, d

\* What fb reads without waiting is up to date only if nothing is ever queued.
LEMMA TileDraws ==
    ASSUME StoreInv, Tile
    PROVE  /\ \E c \in Colors : Draws(Head(todo).dst, c)
           /\ DoneWaits => Draws(Head(todo).dst, ColorIn(Settled, Head(todo).src))
           /\ todo' = Tail(todo)
<1> DEFINE s == Head(todo).src  d == Head(todo).dst
<1>1. s \in Here /\ d \in Here
  BY CopyHead DEF Tile
<1>2. todo' = Tail(todo) /\ alive' = alive /\ gcFor = d
  BY LastHead DEF Tile, InCall, Return, pixVars, StoreInv
<1>3. \/ gcOps = "async" /\ PlainDraw(d, ColorIn(vram, s))
      \/ CheckCopy(s, d)
  BY DEF Tile
<1>4. gcOps = "async" => ~IsOffscreen(d)
  BY <1>1, <1>2, SystemFacts DEF StoreInv, IInv, OpsCurrent, StateTypes, Here, Drawables
<1> HIDE DEF s, d
<1>5. StateTypes /\ Contents /\ Engine /\ vram \in Memory
  BY DEF StoreInv, IInv, Contents, Engine
<1>6. ColorIn(vram, s) \in Colors /\ ColorIn(Settled, s) \in Colors
  BY <1>1, <1>5, SettledType, ColorType
<1>7. DoneWaits => vram = Settled
  BY <1>5, SettledIdle DEF Engine
<1>8. CASE gcOps = "async" /\ PlainDraw(d, ColorIn(vram, s))
  <2>1. Engine' /\ Drawn(d, ColorIn(vram, s))
    BY <1>4, <1>5, <1>8, DrawnInMemory
  <2>2. Draws(d, ColorIn(vram, s))
    BY <1>2, <2>1 DEF Draws
  <2>3. DoneWaits => Draws(d, ColorIn(Settled, s))
    BY <1>7, <2>2
  <2> QED  BY <1>2, <1>6, <2>2, <2>3 DEF s, d
<1>9. CASE CheckCopy(s, d)
  <2>1. Engine' /\ Drawn(d, ColorIn(Settled, s))
    BY <1>1, <1>9, CopiedByCheck
  <2>2. Draws(d, ColorIn(Settled, s))
    BY <1>2, <2>1 DEF Draws
  <2> QED  BY <1>2, <1>6, <2>2 DEF s, d
<1> QED  BY <1>3, <1>8, <1>9

LEMMA SolidDraws ==
    ASSUME StoreInv, TrySolid
    PROVE  \/ /\ Draws(Head(todo).dst, ColorIn(Settled, Head(todo).src))
              /\ todo' = Tail(todo)
           \/ /\ Kept
              /\ \/ todo' = Fallback(Head(todo).src, Head(todo).dst)
                 \/ todo' = <<Call("Check", Head(todo).src, Head(todo).dst)>>
<1> DEFINE s == Head(todo).src  d == Head(todo).dst
           waits == IsOffscreen(s) /\ needSync
           mem == IF waits THEN Settled ELSE vram
           q == IF waits THEN <<>> ELSE queue
<1>1. s \in Here /\ d \in Here
  BY CopyHead DEF TrySolid
<1>2. alive' = alive
  BY DEF TrySolid, pixVars
<1>3. StateTypes /\ Contents /\ Engine /\ SyncFlagged
  BY DEF StoreInv, IInv, Contents
<1>4. mem \in Memory /\ q \in Seq(Operation) /\ Carried(mem, q) = Settled
      /\ (DoneWaits => q = <<>>)
  BY <1>3, SettledType, CarriedNothing DEF Engine, Settled
<1>5. ColorIn(mem, s) = ColorIn(Settled, s)
  <2>1. IsOffscreen(s) /\ ~needSync => vram = Settled
    BY <1>3, SettledIdle DEF SyncFlagged
  <2> QED  BY <2>1 DEF ColorIn
<1>6. \/ /\ ~IsOffscreen(d)
         /\ todo' = <<Call("Check", s, d)>>
         /\ UNCHANGED <<memVars, gpuVars>>
      \/ /\ IsOffscreen(d)
         /\ Accelerate(mem, q, Fill(At(d), ColorIn(mem, s)))
         /\ Return
      \/ /\ IsOffscreen(d)
         /\ vram' = mem /\ queue' = q
         /\ todo' = Fallback(s, d)
         /\ UNCHANGED <<place, sys>>
  BY DEF TrySolid
<1> HIDE DEF s, d, mem, q
<1>7. ColorIn(Settled, s) \in Colors
  BY <1>1, <1>3, SettledType, ColorType
<1>8. CASE UNCHANGED <<memVars, gpuVars>> /\ todo' = <<Call("Check", s, d)>>
  BY <1>2, <1>3, <1>8 DEF Kept, Engine, Settled, memVars, gpuVars, s, d
<1>9. CASE IsOffscreen(d) /\ Accelerate(mem, q, Fill(At(d), ColorIn(mem, s))) /\ Return
  <2>1. Engine' /\ Drawn(d, ColorIn(Settled, s))
    BY <1>1, <1>3, <1>4, <1>5, <1>7, <1>9, Filled
  <2> QED  BY <1>2, <1>9, <2>1 DEF Draws, Return, s, d
<1>10. CASE vram' = mem /\ queue' = q /\ todo' = Fallback(s, d) /\ UNCHANGED <<place, sys>>
  <2>1. Settled' = Settled /\ Engine'
    BY <1>4, <1>10 DEF Settled, Engine
  <2> QED  BY <1>2, <1>10, <2>1 DEF Kept, s, d
<1> QED  BY <1>6, <1>8, <1>9, <1>10

LEMMA StayKept ==
    ASSUME Engine, Stay, UNCHANGED alive
    PROVE  Kept
BY DEF Kept, Engine, Settled, Stay, memVars, gpuVars

LEMMA OutSent ==
    ASSUME StoreInv, NEW p \in Pixmaps, held[p] # {}, MoveOut(p), UNCHANGED alive
    PROVE  Sent(p) /\ p \in alive
<1>1. Engine /\ SyncFlagged /\ AreasOwned
  BY DEF StoreInv, IInv, Contents
<1>2. IsOffscreen(p) /\ p \in alive
  BY <1>1 DEF AreasOwned
<1> QED  BY <1>1, <1>2, SentOut DEF Sent

LEMMA UseScreenMoves ==
    ASSUME StoreInv, UseScreen
    PROVE  Kept \/ \E slot \in Slots : Head(todo).dst \in alive /\ Taken(Head(todo).dst, slot)
<1> DEFINE p == Head(todo).dst
<1>1. p \in alive /\ p \in Pixmaps
  BY UseHead DEF UseScreen, StoreInv, IInv
<1>2. alive' = alive
  BY DEF UseScreen
<1>3. \/ Stay
      \/ MoveIn(p) /\ (score[p] = ScoreInit \/ ~IsOffscreen(p))
  BY DEF UseScreen
<1> HIDE DEF p
<1>4. StateTypes /\ Contents /\ Engine /\ SyncFlagged
  BY DEF StoreInv, IInv, Contents
<1>5. CASE Stay
  BY <1>2, <1>4, <1>5, StayKept
<1>6. CASE ~Stay
  <2>1. ~IsOffscreen(p)
    BY <1>1, <1>3, <1>6, PixmapPlace DEF StoreInv, Scores
  <2>2. PICK slot \in FreeSlots : Moved(p, slot) /\ Upload(p, slot) /\ UNCHANGED sys
    BY <1>3, <1>6 DEF MoveIn
  <2>3. slot \in Slots /\ slot # 0 /\ \A r \in Pixmaps : slot \notin held[r]
    BY <1>4, FreeSlotFacts
  <2>4. Engine' /\ Settled' = [Settled EXCEPT ![slot] = sys[p]]
    BY <1>1, <1>4, <2>2, <2>3, TakenIn
  <2>5. place' = [place EXCEPT ![p] = slot]
    BY <2>2 DEF Moved
  <2> QED  BY <1>1, <1>2, <2>1, <2>2, <2>3, <2>4, <2>5 DEF Taken, p
<1> QED  BY <1>5, <1>6

LEMMA UseMemoryMoves ==
    ASSUME StoreInv, UseMemory
    PROVE  Kept \/ (Head(todo).dst \in alive /\ Sent(Head(todo).dst))
<1> DEFINE p == Head(todo).dst
<1>1. p \in alive /\ p \in Pixmaps
  BY UseHead DEF UseMemory, StoreInv, IInv
<1>2. alive' = alive /\ (Stay \/ (held[p] # {} /\ MoveOut(p)))
  BY DEF UseMemory
<1> HIDE DEF p
<1>3. Engine
  BY DEF StoreInv, Contents
<1> QED  BY <1>1, <1>2, <1>3, StayKept, OutSent DEF p

LEMMA KickOutMoves ==
    ASSUME StoreInv, NEW p \in Pixmaps, KickOut(p)
    PROVE  p \in alive /\ Sent(p)
BY OutSent DEF KickOut, pixVars

\* Waiting for the engine, and its work, are not to be seen.
LEMMA EngineKept ==
    ASSUME StoreInv, Execute \/ SwappedOut \/ \E d \in Drawables : GetImage(d)
    PROVE  Kept
<1>1. Engine /\ SyncFlagged
  BY DEF StoreInv, IInv, Contents
<1>2. CASE Execute
  BY <1>1, <1>2, Executed DEF Kept, Execute, pixVars
<1>3. CASE SwappedOut \/ \E d \in Drawables : GetImage(d)
  <2>1. WaitSync /\ vram' = Waited /\ UNCHANGED <<alive, place, sys>>
    BY <1>3 DEF SwappedOut, GetImage, pixVars
  <2> QED  BY <1>1, <2>1, Waiting DEF Kept
<1> QED  BY <1>2, <1>3

LEMMA OthersKept ==
    ASSUME StoreInv,
           \/ Reply \/ Disable \/ Enable \/ UNCHANGED vars
           \/ \E d \in Drawables :
                \/ \E c \in Colors : PolyFillRect(d, c)
                \/ \E s \in Drawables : CopyArea(s, d) \/ Composite(s, d)
                \/ \E tile \in Pixmaps : FillTiled(tile, d)
    PROVE  Kept
<1>1. UNCHANGED <<alive, place, sys, vram, queue>>
  BY DEF Reply, Disable, Enable, vars, PolyFillRect, CopyArea, Composite, FillTiled, Request,
         pixVars, memVars, gpuVars
<1>2. Settled' = Settled
  BY <1>1 DEF Settled
<1>3. Engine
  BY DEF StoreInv, Contents
<1> QED  BY <1>1, <1>2, <1>3 DEF Kept, Engine

-----------------------------------------------------------------------------
LEMMA ContentsStep ==
    ASSUME StoreInv, [Next]_vars
    PROVE  Contents'
<1>1. StateTypes /\ Contents /\ Engine /\ AreasOwned /\ Settled \in Memory
  BY SettledType DEF StoreInv, IInv, Contents
<1>2. Kept => Contents'
  BY <1>1 DEF Kept, Contents
<1>3. ASSUME NEW d \in Here, NEW c \in Colors, Draws(d, c)
      PROVE  Contents'
  <2>1. UNCHANGED <<alive, place>> /\ Engine'
    BY <1>3 DEF Draws, Drawn
  <2>2. \/ sys' = sys
        \/ sys' = [sys EXCEPT ![d] = c]
    BY <1>3 DEF Draws, Drawn
  <2>3. /\ sys' \in [Pixmaps -> Colors \cup {"none"}]
        /\ \A p \in Pixmaps : sys'[p] = sys[p] \/ sys'[p] = c
    BY <1>1, <2>2 DEF Contents
  <2> QED  BY <1>1, <2>1, <2>3 DEF Contents, StateTypes
<1>4. ASSUME NEW p \in alive, Sent(p)
      PROVE  Contents'
  <2>1. p \in Pixmaps /\ place[p] \in Slots
    BY <1>1, <1>4, PixmapPlace DEF Sent, StateTypes
  <2>2. Settled[place[p]] \in Colors /\ System # 0
    BY <1>1, <2>1, SystemFacts DEF Memory
  <2>3. Engine' /\ alive' = alive /\ sys' = [sys EXCEPT ![p] = Settled[place[p]]]
        /\ place' = [place EXCEPT ![p] = System]
    BY <1>4 DEF Sent
  <2> QED  BY <1>1, <2>1, <2>2, <2>3 DEF Contents, StateTypes
<1>5. ASSUME NEW p \in alive, NEW slot \in Slots, Taken(p, slot)
      PROVE  Contents'
  <2>1. p \in Pixmaps /\ slot # 0 /\ Engine' /\ UNCHANGED <<alive, sys>>
        /\ place' = [place EXCEPT ![p] = slot]
    BY <1>1, <1>5 DEF Taken, StateTypes
  <2> QED  BY <1>1, <2>1 DEF Contents, StateTypes
<1>6. ASSUME NEW p \in Pixmaps, Create(p)
      PROVE  Contents'
  <2>1. PICK c \in Colors : sys' = [sys EXCEPT ![p] = c]
    BY <1>6 DEF Create
  <2>2. UNCHANGED <<place, vram, queue>> /\ alive' = alive \cup {p}
    BY <1>6 DEF Create, gpuVars
  <2> QED  BY <1>1, <2>1, <2>2 DEF Contents, Engine
<1>7. ASSUME NEW p \in Pixmaps, Destroy(p)
      PROVE  Contents'
  <2>1. /\ sys' = [sys EXCEPT ![p] = "none"] /\ place' = [place EXCEPT ![p] = System]
        /\ UNCHANGED <<vram, queue>> /\ alive' = alive \ {p}
    BY <1>7 DEF Destroy, Moved, gpuVars
  <2>2. System # 0
    BY SystemFacts
  <2> QED  BY <1>1, <2>1, <2>2 DEF Contents, Engine, StateTypes
<1>8. CASE FillRect
  BY <1>3, <1>8, FillDraws
<1>9. CASE Copy \/ Check
  <2>1. Head(todo).dst \in Here /\ Head(todo).src \in Here
    BY <1>9, CopyHead DEF Copy, Check
  <2>2. ColorIn(Settled, Head(todo).src) \in Colors
    BY <1>1, <2>1, ColorType
  <2> QED  BY <1>3, <1>9, <2>1, <2>2, CopyDraws
<1>10. CASE Tile
  BY <1>3, <1>10, CopyHead, TileDraws DEF Tile
<1>11. CASE TrySolid
  <2>1. Head(todo).dst \in Here /\ Head(todo).src \in Here
    BY <1>11, CopyHead DEF TrySolid
  <2>2. ColorIn(Settled, Head(todo).src) \in Colors
    BY <1>1, <2>1, ColorType
  <2> QED  BY <1>2, <1>3, <1>11, <2>1, <2>2, SolidDraws
<1>12. CASE UseScreen
  BY <1>2, <1>5, <1>12, UseScreenMoves
<1>13. CASE UseMemory
  BY <1>2, <1>4, <1>13, UseMemoryMoves
<1>14. CASE \E p \in Pixmaps : KickOut(p)
  BY <1>4, <1>14, KickOutMoves
<1>15. CASE Execute \/ SwappedOut \/ \E d \in Drawables : GetImage(d)
  BY <1>2, <1>15, EngineKept
<1>16. CASE \/ Reply \/ Disable \/ Enable \/ UNCHANGED vars
            \/ \E d \in Drawables :
                 \/ \E c \in Colors : PolyFillRect(d, c)
                 \/ \E s \in Drawables : CopyArea(s, d) \/ Composite(s, d)
                 \/ \E tile \in Pixmaps : FillTiled(tile, d)
  BY <1>2, <1>16, OthersKept
<1> QED  BY <1>6, <1>7, <1>8, <1>9, <1>10, <1>11, <1>12, <1>13, <1>14, <1>15, <1>16
         DEF Next, Requests, Calls, Switch

\* A pixmap's score leaves its first value when the pixmap is used, and has it
\* again when the pixmap is gone.
LEMMA ScoreRange ==
    ASSUME NEW n \in -ScoreLimit..ScoreLimit \cup {ScoreInit}
    PROVE  /\ ScoreUp(n) \in -ScoreLimit..ScoreLimit
           /\ ScoreDown(n) \in -ScoreLimit..ScoreLimit
           /\ ScoreInit \notin -ScoreLimit..ScoreLimit
BY KaaAssumption DEF ScoreUp, ScoreDown, ScoreInit

LEMMA ScoresStep ==
    ASSUME StoreInv, [Next]_vars
    PROVE  Scores'
<1> USE DEF vars, pixVars, memVars, gpuVars, gcVars, areaVars
<1>1. Scores /\ StateTypes
  BY DEF StoreInv, IInv
<1>2. UNCHANGED <<score, place>> => Scores'
  BY <1>1 DEF Scores
<1>3. ASSUME NEW p \in Pixmaps, UNCHANGED score, place' = [place EXCEPT ![p] = System]
      PROVE  Scores'
  BY <1>1, <1>3 DEF Scores, StateTypes
<1>4. ASSUME NEW p \in Pixmaps, NEW n \in -ScoreLimit..ScoreLimit, NEW to,
             score' = [score EXCEPT ![p] = n], place' = [place EXCEPT ![p] = to]
      PROVE  Scores'
  <2>1. n # ScoreInit
    BY <1>1, ScoreRange DEF Scores
  <2> QED  BY <1>1, <1>4, <2>1 DEF Scores, StateTypes
<1>5. ASSUME NEW p \in Pixmaps, NEW n \in -ScoreLimit..ScoreLimit,
             score' = [score EXCEPT ![p] = n], place' = place
      PROVE  Scores'
  <2>1. place' = [place EXCEPT ![p] = place[p]]
    BY <1>1, <1>5 DEF StateTypes
  <2> QED  BY <1>4, <1>5, <2>1
<1>6. ASSUME NEW p \in Pixmaps, Create(p) \/ Destroy(p)
      PROVE  Scores'
  <2>1. score' = [score EXCEPT ![p] = ScoreInit]
    BY <1>6 DEF Create, Destroy
  <2>2. Create(p) => place[p] = System
    BY PixmapPlace DEF Create, StoreInv, IInv, AreasOwned
  <2>3. place' = place \/ place' = [place EXCEPT ![p] = System]
    BY <1>6 DEF Create, Destroy, Moved
  <2>4. place'[p] = System /\ \A r \in Pixmaps \ {p} : place'[r] = place[r]
    BY <1>1, <1>6, <2>2, <2>3 DEF Create, Destroy, Moved, StateTypes
  <2> QED  BY <1>1, <2>1, <2>4 DEF Scores
<1>7. CASE UseScreen
  <2> DEFINE p == Head(todo).dst
  <2>1. p \in Pixmaps
    BY <1>7, UseHead DEF UseScreen, StoreInv, IInv
  <2>2. score' = [score EXCEPT ![p] = ScoreUp(score[p])]
    BY <1>7 DEF UseScreen
  <2>3. place' = place \/ \E slot \in Slots : place' = [place EXCEPT ![p] = slot]
    BY <1>7, UseScreenMoves DEF Kept, Taken
  <2> HIDE DEF p
  <2>4. score[p] \in -ScoreLimit..ScoreLimit \cup {ScoreInit}
    BY <1>1, <2>1 DEF Scores
  <2>5. ScoreUp(score[p]) \in -ScoreLimit..ScoreLimit
    BY <2>4, ScoreRange
  <2> QED  BY <1>4, <1>5, <2>1, <2>2, <2>3, <2>5
<1>8. CASE UseMemory
  <2> DEFINE p == Head(todo).dst
  <2>1. p \in Pixmaps
    BY <1>8, UseHead DEF UseMemory, StoreInv, IInv
  <2>2. score' = [score EXCEPT ![p] = ScoreDown(score[p])]
    BY <1>8 DEF UseMemory
  <2>3. place' = place \/ place' = [place EXCEPT ![p] = System]
    BY <1>8, UseMemoryMoves DEF Kept, Sent
  <2> HIDE DEF p
  <2>4. score[p] \in -ScoreLimit..ScoreLimit \cup {ScoreInit}
    BY <1>1, <2>1 DEF Scores
  <2>5. ScoreDown(score[p]) \in -ScoreLimit..ScoreLimit
    BY <2>4, ScoreRange
  <2> QED  BY <1>4, <1>5, <2>1, <2>2, <2>3, <2>5
<1>9. CASE \E p \in Pixmaps : KickOut(p)
  BY <1>3, <1>9 DEF KickOut, MoveOut, Moved
<1>10. CASE FillRect \/ Tile \/ Copy \/ Check \/ Reply \/ TrySolid
  BY <1>2, <1>10 DEF FillRect, Tile, Copy, Check, Reply, TrySolid, PlainDraw, CheckDraw,
                     CheckCopy, Write, Accelerate
<1>11. CASE \E d \in Drawables :
              \/ \E c \in Colors : PolyFillRect(d, c)
              \/ \E s \in Drawables : CopyArea(s, d) \/ Composite(s, d)
              \/ \E tile \in Pixmaps : FillTiled(tile, d)
              \/ GetImage(d)
  BY <1>2, <1>11 DEF PolyFillRect, CopyArea, Composite, FillTiled, GetImage, Request
<1>12. CASE Disable \/ SwappedOut \/ Enable \/ Execute \/ UNCHANGED vars
  BY <1>2, <1>12 DEF Disable, SwappedOut, Enable, Execute
<1> QED  BY <1>6, <1>7, <1>8, <1>9, <1>10, <1>11, <1>12
         DEF Next, Requests, Calls, Switch

LEMMA InitStoreInv == Init => StoreInv
<1> SUFFICES ASSUME Init PROVE StoreInv
  OBVIOUS
<1>1. IInv
  BY InitInv
<1>2. Scores
  BY DEF Init, Scores
<1>3. Contents
  BY SystemFacts DEF Init, Contents, Engine, Memory
<1>4. LastDraws
  BY DEF Init, LastDraws
<1> QED  BY <1>1, <1>2, <1>3, <1>4 DEF StoreInv

LEMMA StoreInvStep == StoreInv /\ [Next]_vars => StoreInv'
<1> SUFFICES ASSUME StoreInv, [Next]_vars PROVE StoreInv'
  OBVIOUS
<1>1. IInv /\ LastDraws
  BY DEF StoreInv
<1>2. IInv'
  BY <1>1, IInvStep
<1> QED  BY <1>1, <1>2, ScoresStep, ContentsStep, LastDrawsStep DEF StoreInv

THEOREM StoreInvariance == Spec => []StoreInv
BY InitStoreInv, StoreInvStep, PTL DEF Spec

\* Scores stay within KAA_PIXMAP_SCORE_MIN and _MAX, and through migrations,
\* failed allocations and the engine's delays every pixmap that exists has a
\* content and the engine's operations stay within video memory.
THEOREM TypeCorrect == Spec => []TypeOK
<1>1. StoreInv => TypeOK
  BY DEF StoreInv, IInv, StateTypes, Scores, Contents, Engine, Memory, TypeOK
<1> QED  BY <1>1, StoreInvariance, PTL

-----------------------------------------------------------------------------
(***************************************************************************)
(* Clients see the store.  An action either ends the request that it is    *)
(* part of, with the effect asked for, or is not to be seen.               *)
(***************************************************************************)
LEMMA StoreContent == Store!vars = <<Content, Requested>>
BY DEF Store!vars, Content

LEMMA StoreStutters ==
    ASSUME Content' = Content, Requested' = Requested
    PROVE  UNCHANGED Store!vars
BY StoreContent DEF Store!vars, Content

LEMMA StoreDraws ==
    ASSUME NEW c, NEW d, Requested = <<"draw", c, d>>, Requested' = <<>>,
           Content' = [Content EXCEPT ![d] = c]
    PROVE  Store!Finish
BY DEF Store!Finish, Content

LEMMA StoreCopies ==
    ASSUME NEW s, NEW d, Requested = <<"copy", s, d>>, Requested' = <<>>,
           Content' = [Content EXCEPT ![d] = Content[s]]
    PROVE  Store!Finish
BY DEF Store!Finish, Content

LEMMA StoreReplies ==
    ASSUME NEW c, NEW d, Requested = <<"reply", c, d>>, Requested' = <<>>,
           Content' = Content
    PROVE  Store!Finish
BY DEF Store!Finish, Content

LEMMA StoreExists ==
    ASSUME StoreInv, NEW d \in Here
    PROVE  /\ d \in Store!Drawables /\ Content[d] = ColorIn(Settled, d)
           /\ Content[d] \in Colors /\ Store!Exists(d)
<1>1. StateTypes /\ Contents /\ Settled \in Memory
  BY SettledType DEF StoreInv, IInv, Contents
<1>2. d \in Drawables /\ Content[d] = ColorIn(Settled, d) /\ ColorIn(Settled, d) \in Colors
  BY <1>1, ContentOf, ColorType
<1>3. Content[d] # "none"
  BY <1>2, KaaAssumption
<1> QED  BY <1>2, <1>3 DEF Store!Drawables, Store!Exists, Drawables, Content

LEMMA StoreAsks ==
    ASSUME StoreInv, NEW d \in Here, Requested = <<>>, Content' = Content,
           \/ \E c \in Colors : Requested' = <<"draw", c, d>>
           \/ \E s \in Here : Requested' = <<"copy", s, d>>
           \/ Requested' = <<"reply", Content[d], d>>
    PROVE  Store!Ask
<1>1. \A e \in Here : e \in Store!Drawables /\ Store!Exists(e)
  BY StoreExists
<1> QED  BY <1>1 DEF Store!Ask, Content

\* The step that ends a request, and one that only goes on with it.
LEMMA ShownBy ==
    ASSUME StoreInv, NEW d \in Here, NEW c \in Colors, Draws(d, c)
    PROVE  Content' = [Content EXCEPT ![d] = c]
BY DrawnShown DEF Draws, StoreInv, IInv

LEMMA KeptHidden ==
    ASSUME Kept
    PROVE  Content' = Content
BY NothingShown DEF Kept

LEMMA MovesHidden ==
    ASSUME StoreInv, NEW p \in alive, Sent(p) \/ \E slot \in Slots : Taken(p, slot)
    PROVE  Content' = Content
<1>1. StateTypes /\ AreasOwned /\ Contents
  BY DEF StoreInv, IInv
<1>2. CASE Sent(p)
  BY <1>1, <1>2, OutShown DEF Sent
<1>3. CASE \E slot \in Slots : Taken(p, slot)
  BY <1>1, <1>3, InShown DEF Taken
<1> QED  BY <1>2, <1>3

LEMMA CreateImplements ==
    ASSUME StoreInv, NEW p \in Pixmaps, Create(p) \/ Destroy(p)
    PROVE  Store!Create(p) \/ Store!Destroy(p)
<1>1. Requested = <<>> /\ Requested' = <<>>
  BY RequestedNow, RequestedNext DEF Create, Destroy, Ready
<1>2. StateTypes /\ AreasOwned /\ Contents /\ p # "screen" /\ Settled \in Memory
  BY SystemFacts, SettledType DEF StoreInv, IInv, Contents
<1>3. Settled' = Settled
  BY DEF Create, Destroy, Settled, gpuVars
<1>4. CASE Create(p)
  <2>1. PICK c \in Colors : sys' = [sys EXCEPT ![p] = c]
    BY <1>4 DEF Create
  <2>2. place' = place /\ alive' = alive \cup {p} /\ p \notin alive
    BY <1>4 DEF Create
  <2>3. \A d : At(d)' = At(d)
    BY <2>2 DEF At
  <2>4. ~IsOffscreen(p) /\ sys'[p] = c
    BY <1>2, <2>1, <2>2 DEF AreasOwned, Contents
  <2>5. ColorIn(Settled, p)' = c
    BY <2>3, <2>4 DEF ColorIn, IsOffscreen
  <2>6. \A d \in Drawables \ {p} : ColorIn(Settled, d)' = ColorIn(Settled, d)
    <3>1. \A d \in Drawables \ {p} : d # "screen" => sys'[d] = sys[d]
      BY <1>2, <2>1 DEF Contents, Drawables
    <3> QED  BY <1>3, <2>3, <3>1, ScreenStays DEF ColorIn, IsOffscreen
  <2>7. Content' = [Content EXCEPT ![p] = c]
    BY <2>2, <2>5, <2>6 DEF Content, Drawables
  <2>8. Content[p] = "none"
    BY <1>2, <2>2 DEF Content, Drawables
  <2> QED  BY <1>1, <2>7, <2>8 DEF Store!Create, Store!Exists, Content
<1>5. CASE Destroy(p)
  <2>1. /\ sys' = [sys EXCEPT ![p] = "none"] /\ place' = [place EXCEPT ![p] = System]
        /\ alive' = alive \ {p} /\ p \in alive
    BY <1>5 DEF Destroy, Moved
  <2>2. \A d \in Drawables \ {p} : At(d)' = At(d) /\ (d # "screen" => sys'[d] = sys[d])
    BY <1>2, <2>1 DEF At, Drawables, StateTypes, Contents
  <2>3. \A d \in Drawables \ {p} : ColorIn(Settled, d)' = ColorIn(Settled, d)
    BY <1>3, <2>2, ScreenStays DEF ColorIn, IsOffscreen
  <2>4. Content' = [Content EXCEPT ![p] = "none"]
    <3>1. p \notin alive' \cup {"screen"}
      BY <1>2, <2>1
    <3>2. \A d \in Drawables \ {p} :
            d \in alive' \cup {"screen"} <=> d \in alive \cup {"screen"}
      BY <2>1
    <3> QED  BY <2>3, <3>1, <3>2 DEF Content
  <2>5. Store!Exists(p)
    BY <2>1, StoreExists DEF Here
  <2> QED  BY <1>1, <2>4, <2>5 DEF Store!Destroy, Content
<1> QED  BY <1>4, <1>5

LEMMA RequestsImplement ==
    ASSUME StoreInv, NEW d \in Drawables,
           \/ \E c \in Colors : PolyFillRect(d, c)
           \/ \E s \in Drawables : CopyArea(s, d) \/ Composite(s, d)
           \/ \E tile \in Pixmaps : FillTiled(tile, d)
           \/ GetImage(d)
    PROVE  Store!Ask
<1>1. Kept
  BY OthersKept, EngineKept
<1>2. Content' = Content
  BY <1>1, KeptHidden
<1>3. Requested = <<>> /\ d \in Here
  BY RequestedNow DEF PolyFillRect, CopyArea, Composite, FillTiled, GetImage, Request, Ready,
                      Usable, Here
<1>4. ASSUME NEW c \in Colors, PolyFillRect(d, c) PROVE Store!Ask
  <2>1. Ends(todo', <<>>, Call("Fill", c, d))
    BY <1>4, EndsAlone DEF PolyFillRect, Request
  <2>2. Requested' = <<"draw", c, d>>
    BY <2>1, RequestedNext, AskedKinds
  <2> QED  BY <1>2, <1>3, <2>2, StoreAsks
<1>5. ASSUME NEW s \in Drawables, CopyArea(s, d) \/ Composite(s, d) PROVE Store!Ask
  <2>1. s \in Here
    BY <1>5 DEF CopyArea, Composite, Usable, Here
  <2>2. \/ todo' = CopyNtoN(s, d)
        \/ todo' = <<Call("Check", s, d)>>
        \/ todo' = Fallback(s, d)
        \/ todo' = Use("UseMemory", s) \o Use("UseScreen", d) \o <<Call("TrySolid", s, d)>>
    BY <1>5 DEF CopyArea, Composite, Request
  <2>3. Ends(<<Call("Check", s, d)>>, <<>>, Call("Check", s, d))
    BY EndsAlone
  <2>4. \E u : \/ Ends(todo', u, Call("Copy", s, d))
              \/ Ends(todo', u, Call("Check", s, d))
              \/ Ends(todo', u, Call("TrySolid", s, d))
    BY <2>2, <2>3, CopyEnds, FallbackEnds, SolidEnds
  <2>5. Requested' = <<"copy", s, d>>
    BY <2>4, RequestedNext, AskedKinds
  <2> QED  BY <1>2, <1>3, <2>1, <2>5, StoreAsks
<1>6. ASSUME NEW tile \in Pixmaps, FillTiled(tile, d) PROVE Store!Ask
  <2>1. tile \in Here
    BY <1>6 DEF FillTiled, Here
  <2>2. Ends(todo', <<>>, Call("Tile", tile, d))
    BY <1>6, EndsAlone DEF FillTiled, Request
  <2>3. Requested' = <<"copy", tile, d>>
    BY <2>2, RequestedNext, AskedKinds
  <2> QED  BY <1>2, <1>3, <2>1, <2>3, StoreAsks
<1>7. ASSUME GetImage(d) PROVE Store!Ask
  <2>1. ColorIn(Waited, d) = Content[d]
    BY <1>3, AfterWait, StoreExists DEF StoreInv, IInv
  <2>2. Ends(todo', <<>>, Call("Reply", Content[d], d))
    BY <1>7, <2>1, EndsAlone DEF GetImage
  <2>3. Requested' = <<"reply", Content[d], d>>
    BY <2>2, RequestedNext, AskedKinds
  <2> QED  BY <1>2, <1>3, <2>3, StoreAsks
<1> QED  BY <1>4, <1>5, <1>6, <1>7

LEMMA CallsImplement ==
    ASSUME StoreInv, Tiles => DoneWaits, Calls
    PROVE  Store!Finish \/ UNCHANGED Store!vars
<1> DEFINE s == Head(todo).src  d == Head(todo).dst
<1>1. Contents /\ StateTypes /\ Settled \in Memory
  BY SettledType DEF StoreInv, IInv, Contents
<1>2. ASSUME s \in Here, d \in Here, Draws(d, ColorIn(Settled, s)), todo' = Tail(todo),
             Requested = <<"copy", s, d>>, Tail(todo) = <<>>
      PROVE  Store!Finish
  <2> HIDE DEF s, d
  <2>1. ColorIn(Settled, s) \in Colors /\ Content[s] = ColorIn(Settled, s)
    BY <1>1, <1>2, ColorType, StoreExists
  <2>2. Content' = [Content EXCEPT ![d] = Content[s]]
    BY <1>2, <2>1, ShownBy
  <2> QED  BY <1>2, <2>2, RequestedNext, StoreCopies
<1>3. CASE FillRect
  <2>1. Content' = [Content EXCEPT ![d] = s]
    BY <1>3, FillDraws, ShownBy
  <2> QED  BY <1>3, <2>1, FillDraws, RequestedNext, StoreDraws
<1>4. CASE Copy \/ Check
  BY <1>2, <1>4, CopyHead, CopyDraws DEF Copy, Check
<1>5. CASE Tile
  <2>1. DoneWaits
    BY <1>5, LastHead DEF Tile, InCall, StoreInv
  <2> QED  BY <1>2, <1>5, <2>1, CopyHead, TileDraws DEF Tile
<1>6. CASE TrySolid
  <2>1. s \in Here /\ d \in Here /\ Requested = <<"copy", s, d>> /\ Tail(todo) = <<>>
    BY <1>6, CopyHead DEF TrySolid
  <2>2. CASE Draws(d, ColorIn(Settled, s)) /\ todo' = Tail(todo)
    BY <1>2, <2>1, <2>2
  <2>3. CASE Kept /\ (todo' = Fallback(s, d) \/ todo' = <<Call("Check", s, d)>>)
    <3> HIDE DEF s, d
    <3>1. \E u : Ends(todo', u, Call("Check", s, d))
      BY <2>3, FallbackEnds, EndsAlone
    <3>2. Requested' = <<"copy", s, d>>
      BY <3>1, RequestedNext, AskedKinds
    <3> QED  BY <2>1, <2>3, <3>2, KeptHidden, StoreStutters
  <2> QED  BY <1>6, <2>2, <2>3, SolidDraws
<1>7. CASE Reply
  <2>1. Head(todo).call = "Reply" /\ todo # <<>> /\ todo' = Tail(todo)
    BY <1>7 DEF Reply, InCall, Return
  <2>2. Tail(todo) = <<>> /\ Requested = Asked(Head(todo))
    BY <2>1, LastHead DEF StoreInv
  <2>3. Requested = <<"reply", s, d>> /\ Requested' = <<>>
    BY <2>1, <2>2, RequestedNext DEF Asked
  <2>4. Content' = Content
    BY <1>7, OthersKept, KeptHidden
  <2> QED  BY <2>3, <2>4, StoreReplies
<1>8. CASE UseScreen \/ UseMemory
  <2>1. Requested' = Requested
    BY <1>8, MovingHead DEF UseScreen, UseMemory, StoreInv
  <2>2. Content' = Content
    BY <1>8, UseScreenMoves, UseMemoryMoves, KeptHidden, MovesHidden
  <2> QED  BY <2>1, <2>2, StoreStutters
<1> QED  BY <1>3, <1>4, <1>5, <1>6, <1>7, <1>8 DEF Calls

LEMMA SwitchHidden ==
    ASSUME StoreInv, Switch \/ Execute \/ UNCHANGED vars
    PROVE  UNCHANGED Store!vars
<1>1. CASE Disable \/ Enable \/ Execute \/ UNCHANGED vars
  <2>1. Content' = Content
    BY <1>1, OthersKept, EngineKept, KeptHidden
  <2>2. CASE Disable
    <3>1. Ends(todo', <<>>, Call("SwapOut", "screen", "screen")) /\ todo = <<>>
      BY <2>2, EndsAlone DEF Disable, Ready
    <3>2. Requested = <<>> /\ Requested' = <<>>
      BY <3>1, RequestedNow, RequestedNext, AskedKinds
    <3> QED  BY <2>1, <3>2, StoreStutters
  <2>3. CASE Enable \/ Execute \/ UNCHANGED vars
    <3>1. todo' = todo
      BY <2>3 DEF Enable, Execute, vars
    <3>2. Requested' = Requested
      BY <3>1 DEF Requested
    <3> QED  BY <2>1, <3>2, StoreStutters
  <2> QED  BY <1>1, <2>2, <2>3
<1>2. CASE \E p \in Pixmaps : KickOut(p)
  <2>1. Content' = Content
    BY <1>2, KickOutMoves, MovesHidden
  <2>2. Requested' = Requested
    BY <1>2 DEF KickOut, Requested
  <2> QED  BY <2>1, <2>2, StoreStutters
<1>3. CASE SwappedOut
  <2>1. Content' = Content
    BY <1>3, EngineKept, KeptHidden
  <2>2. Head(todo).call = "SwapOut" /\ todo # <<>> /\ todo' = Tail(todo)
    BY <1>3 DEF SwappedOut, InCall, Return
  <2>3. Tail(todo) = <<>> /\ Requested = Asked(Head(todo))
    BY <2>2, LastHead DEF StoreInv
  <2>4. Requested = <<>> /\ Requested' = <<>>
    BY <2>2, <2>3, RequestedNext DEF Asked
  <2> QED  BY <2>1, <2>4, StoreStutters
<1> QED  BY <1>1, <1>2, <1>3 DEF Switch

LEMMA InitImplements == Init => Store!Init
<1> SUFFICES ASSUME Init PROVE Store!Init
  OBVIOUS
<1>1. StoreInv
  BY InitStoreInv
<1>2. Requested = <<>>
  BY RequestedNow DEF Init
<1>3. Store!Exists("screen")
  BY <1>1, StoreExists DEF Here
<1>4. \A p \in Pixmaps : Content[p] = "none"
  BY SystemFacts DEF Init, Content, Drawables
<1>5. Content \in [Drawables -> Colors \cup {"none"}]
  <2>1. \A d \in Here : ColorIn(Settled, d) \in Colors
    BY <1>1, StoreExists
  <2> QED  BY <2>1 DEF Content, Here
<1> QED  BY <1>2, <1>3, <1>4, <1>5
         DEF Store!Init, Store!Exists, Store!Drawables, Drawables, Content

LEMMA StepImplements ==
    ASSUME StoreInv, Tiles => DoneWaits, [Next]_vars
    PROVE  [Store!Next]_(Store!vars)
<1>1. CASE \E p \in Pixmaps : Create(p) \/ Destroy(p)
  BY <1>1, CreateImplements DEF Store!Next
<1>2. CASE \E d \in Drawables :
             \/ \E c \in Colors : PolyFillRect(d, c)
             \/ \E s \in Drawables : CopyArea(s, d) \/ Composite(s, d)
             \/ \E tile \in Pixmaps : FillTiled(tile, d)
             \/ GetImage(d)
  BY <1>2, RequestsImplement DEF Store!Next
<1>3. CASE Calls
  BY <1>3, CallsImplement DEF Store!Next
<1>4. CASE Switch \/ Execute \/ UNCHANGED vars
  BY <1>4, SwitchHidden
<1> QED  BY <1>1, <1>2, <1>3, <1>4 DEF Next, Requests

\* Clients see every drawable as they drew it, through migrations, failed
\* allocations, swap-outs and an engine that draws behind the server's back,
\* with any driver if no tiles are used, and with tiles if the driver's Done
\* hooks wait, as the Glamo's (GLAMODoneSolid, GLAMODoneCopy).
THEOREM StoreImplemented ==
    ASSUME Tiles => DoneWaits
    PROVE  Spec => StoreSpec
<1>1. StoreInv /\ [Next]_vars => [Store!Next]_(Store!vars)
  BY StepImplements
<1> QED  BY <1>1, InitImplements, StoreInvariance, PTL DEF Spec, StoreSpec, Store!Spec
=============================================================================
