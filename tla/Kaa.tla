-------------------------------- MODULE Kaa ---------------------------------
(***************************************************************************)
(* KAA, the acceleration layer of kdrive (hw/kdrive/src/kaa.c, kasync.c,   *)
(* kaapict.c): pixmaps migrate between system memory and off-screen video  *)
(* memory according to a score, an engine draws asynchronously in video    *)
(* memory, and everything the driver cannot do is drawn by the processor   *)
(* after kaaWaitSync.  The screen may be disabled, which moves all pixmaps *)
(* out, and enabled again.                                                 *)
(*                                                                         *)
(* The allocator is represented by its specification, OffscreenMap, which  *)
(* Offscreen implements.  Video memory has slots of the size of a pixmap;  *)
(* slot 0 is the visible screen, at which the root and all windows are     *)
(* drawn.  A drawable's content is one colour.                             *)
(*                                                                         *)
(* A request is a sequence of calls, in `todo`; the engine may get on with *)
(* its work between any two of them.                                       *)
(***************************************************************************)
EXTENDS Integers, SequencesExt

CONSTANTS
    Pixmaps, Colors,
    MemorySize,   \* slots of video memory, the screen included
    DoneWaits,    \* the driver's Done hooks wait for the engine, as the Glamo's
    UploadHook,   \* it has an UploadToScreen hook, which does not wait
    Tiles,        \* clients fill with tiles
    ScoreMove,    \* KAA_PIXMAP_SCORE_MOVE_IN (10), minus _MOVE_OUT
    ScoreLimit,   \* KAA_PIXMAP_SCORE_MAX (20), minus _MIN
    MaxQueue      \* bound on the operations the engine has queued

ScoreInit == 1001

ASSUME KaaAssumption ==
    /\ MemorySize \in Nat \ {0} /\ MaxQueue \in Nat
    /\ DoneWaits \in BOOLEAN /\ UploadHook \in BOOLEAN /\ Tiles \in BOOLEAN
    /\ UploadHook => DoneWaits
    /\ ScoreLimit \in Nat /\ ScoreLimit < ScoreInit /\ ScoreMove \in 2..ScoreLimit
    /\ "screen" \notin Pixmaps /\ "none" \notin Pixmaps \cup Colors

Drawables == Pixmaps \cup {"screen"}
Slots == 0..MemorySize-1
System == -1

VARIABLES
    alive,     \* the pixmaps that exist
    score,     \* pKaaPixmap->score
    place,     \* devPrivate.ptr: a slot of video memory or System
    sys,       \* content of the pixmap's system memory, while it exists
    vram,      \* content of video memory
    queue,     \* drawing the engine has still to do
    needSync,  \* card->needSync
    gcFor,     \* drawable whose serial number the GC holds, or "none"
    gcOps,     \* pGC->ops: kaaOps or kdAsyncPixmapGCOps
    todo,      \* calls the current request has still to make
    held,      \* pKaaPixmap->area, as the memory it stands for
    up         \* pScreenPriv->enabled, and the area list exists

pixVars == <<alive, score>>
memVars == <<place, sys, vram>>
gpuVars == <<queue, needSync>>
gcVars == <<gcFor, gcOps>>
areaVars == <<held, up>>
vars == <<pixVars, memVars, gpuVars, gcVars, todo, areaVars>>

Mem == INSTANCE OffscreenMap WITH
         Users <- Pixmaps, Base <- 1, Align <- 1, answer <- "none"

At(d) == IF d = "screen" THEN 0 ELSE place[d]
IsOffscreen(d) == At(d) # System
Usable(d) == d \in alive \/ (d = "screen" /\ up)

(***************************************************************************)
(* The engine: it carries out its queue in order.                          *)
(***************************************************************************)
Fill(slot, c) == [to |-> slot, color |-> c]
Blit(slot, from) == [to |-> slot, from |-> from]

Apply(mem, o) ==
    [mem EXCEPT ![o.to] = IF "from" \in DOMAIN o THEN mem[o.from] ELSE o.color]

\* A memory once the operations of q have been carried out on it.
Carried(mem, q) ==
    LET after[n \in 0..Len(q)] == IF n = 0 THEN mem ELSE Apply(after[n-1], q[n])
    IN after[Len(q)]

\* Video memory once the engine is idle, and what kaaWaitSync leaves behind.
Settled == Carried(vram, queue)
Waited == IF needSync THEN Settled ELSE vram
Unwaited == IF needSync THEN <<>> ELSE queue

WaitSync == queue' = Unwaited /\ needSync' = FALSE

\* The driver's Solid or Copy and its Done hook, on a memory and a queue.
\* Broken: GLAMODoneSolid does not wait, but the upload hook relies on it.
DoneNoWait(mem, q, o) == vram' = mem /\ queue' = Append(q, o)
Done(mem, q, o) ==
    IF DoneWaits
      THEN vram' = Apply(Carried(mem, q), o) /\ queue' = <<>>
      ELSE vram' = mem /\ queue' = Append(q, o)

\* Broken: no kaaMarkSync after the Done hook.
AccelerateUnmarked(mem, q, o) ==
    /\ Len(q) < MaxQueue
    /\ Done(mem, q, o)
    /\ UNCHANGED <<needSync, place, sys>>
Accelerate(mem, q, o) ==
    /\ Len(q) < MaxQueue
    /\ Done(mem, q, o)
    /\ needSync' = TRUE
    /\ UNCHANGED <<place, sys>>

Execute ==
    /\ queue # <<>>
    /\ vram' = Apply(vram, Head(queue))
    /\ queue' = Tail(queue)
    /\ UNCHANGED <<pixVars, place, sys, needSync, gcVars, todo, areaVars>>

(***************************************************************************)
(* Drawing by the processor.                                               *)
(***************************************************************************)
ColorIn(mem, d) == IF IsOffscreen(d) THEN mem[At(d)] ELSE sys[d]

Write(mem, d, c) ==
    /\ UNCHANGED place
    /\ IF IsOffscreen(d)
         THEN vram' = [mem EXCEPT ![At(d)] = c] /\ UNCHANGED sys
         ELSE vram' = mem /\ sys' = [sys EXCEPT ![d] = c]

\* The KdCheck routines wait for the engine first; fb does not.
CheckDraw(d, c) == WaitSync /\ Write(Waited, d, c)
CheckCopy(s, d) == CheckDraw(d, ColorIn(Waited, s))
PlainDraw(d, c) == Write(vram, d, c) /\ UNCHANGED gpuVars

(***************************************************************************)
(* Requests.                                                               *)
(***************************************************************************)
Ready == todo = <<>>
InCall(c) == todo # <<>> /\ Head(todo).call = c
Return == todo' = Tail(todo)

Call(c, s, d) == [call |-> c, src |-> s, dst |-> d]
Use(c, d) == IF d \in Pixmaps THEN <<Call(c, d, d)>> ELSE <<>>

\* What the allocator may grant.  With no memory left it returns NULL, or
\* crashes, where the behaviours of this module end (see Offscreen).
FreeSlots == IF up THEN {o \in Mem!Bytes : Mem!Stretch(o, 1, Mem!Unheld)} ELSE {}
Free(p) == held' = [held EXCEPT ![p] = {}] /\ UNCHANGED up
Stay == UNCHANGED <<memVars, gpuVars, gcVars, areaVars>>

\* Broken: the serial number is left as it was.
MovedNoSerial(p, slot) ==
    /\ place' = [place EXCEPT ![p] = slot]
    /\ UNCHANGED gcVars
\* A move gives the pixmap a new serial number, so that a GC is validated
\* again before it draws there.
Moved(p, slot) ==
    /\ place' = [place EXCEPT ![p] = slot]
    /\ IF gcFor = p THEN gcFor' = "none" /\ gcOps' = "async"
                    ELSE UNCHANGED gcVars

\* VALIDATE_DRAWABLE_AND_GC and kaaValidateGC
Ops(d) ==
    IF gcFor = d THEN gcOps ELSE IF IsOffscreen(d) THEN "kaa" ELSE "async"
ValidateGC(d) == gcFor' = d /\ gcOps' = Ops(d)

Create(p) ==
    /\ Ready /\ p \notin alive
    /\ alive' = alive \cup {p}
    /\ score' = [score EXCEPT ![p] = ScoreInit]
    /\ \E c \in Colors : sys' = [sys EXCEPT ![p] = c]
    /\ UNCHANGED <<place, vram, gpuVars, gcVars, todo, areaVars>>

\* Broken: the area is not freed.
DestroyLeaks(p) ==
    /\ Ready /\ p \in alive
    /\ alive' = alive \ {p}
    /\ score' = [score EXCEPT ![p] = ScoreInit]
    /\ sys' = [sys EXCEPT ![p] = "none"]
    /\ Moved(p, System)
    /\ UNCHANGED <<vram, gpuVars, todo, areaVars>>
\* kaaDestroyPixmap: the area is freed, without waiting for the engine.
Destroy(p) ==
    /\ Ready /\ p \in alive
    /\ alive' = alive \ {p}
    /\ score' = [score EXCEPT ![p] = ScoreInit]
    /\ Free(p)
    /\ sys' = [sys EXCEPT ![p] = "none"]
    /\ Moved(p, System)
    /\ UNCHANGED <<vram, gpuVars, todo>>

\* kaaCopyNtoN first moves the source to where the destination is.
CopyNtoN(s, d) ==
    (IF up THEN Use(IF IsOffscreen(d) THEN "UseScreen" ELSE "UseMemory", s) ELSE <<>>)
    \o <<Call("Copy", s, d)>>

Fallback(s, d) == Use("UseMemory", s) \o Use("UseMemory", d) \o <<Call("Check", s, d)>>

\* What a request calls; nothing is drawn before the next step.
Request(d, calls) ==
    /\ Ready /\ Usable(d)
    /\ todo' = calls
    /\ UNCHANGED <<pixVars, memVars, gpuVars, areaVars>>

PolyFillRect(d, c) ==
    /\ Request(d, <<Call("Fill", c, d)>>)
    /\ ValidateGC(d)

\* The same with a pixmap as the GC's tile.
FillTiled(tile, d) ==
    /\ Tiles /\ tile \in alive
    /\ Request(d, <<Call("Tile", tile, d)>>)
    /\ ValidateGC(d)

\* kaaCopyArea or KdCheckCopyArea
CopyArea(s, d) ==
    /\ Usable(s)
    /\ Request(d, IF Ops(d) = "kaa" THEN CopyNtoN(s, d) ELSE <<Call("Check", s, d)>>)
    /\ ValidateGC(d)

\* kaaComposite with no mask: a copy, a source of one pixel, or nothing the
\* driver can do.
Composite(s, d) ==
    /\ Usable(s)
    /\ \/ Request(d, CopyNtoN(s, d))
       \/ Request(d, Fallback(s, d))
       \/ /\ up
          /\ Request(d, Use("UseMemory", s) \o Use("UseScreen", d)
                         \o <<Call("TrySolid", s, d)>>)
    /\ UNCHANGED gcVars

\* KdCheckGetImage
GetImage(d) ==
    /\ Ready /\ Usable(d)
    /\ WaitSync
    /\ vram' = Waited
    /\ todo' = <<Call("Reply", ColorIn(Waited, d), d)>>
    /\ UNCHANGED <<pixVars, place, sys, gcVars, areaVars>>

(***************************************************************************)
(* Calls a request makes.                                                  *)
(***************************************************************************)
Reply ==
    /\ InCall("Reply") /\ Return
    /\ UNCHANGED <<pixVars, memVars, gpuVars, gcVars, areaVars>>

\* The GC's operation: fb's on a pixmap in system memory, otherwise
\* kaaPolyFillRect, kaaFillSpans and those of KdCheck, which never try the
\* driver.
FillRect ==
    /\ InCall("Fill") /\ Return
    /\ LET c == Head(todo).src  d == Head(todo).dst IN
         \/ gcOps = "async" /\ PlainDraw(d, c)
         \/ gcOps = "kaa" /\ CheckDraw(d, c)
         \/ /\ gcOps = "kaa" /\ up /\ IsOffscreen(d)
            /\ Accelerate(vram, queue, Fill(At(d), c))
    /\ UNCHANGED <<pixVars, gcVars, areaVars>>

\* KAA does not accelerate tiles; fb reads the tile where it is.
Tile ==
    /\ InCall("Tile") /\ Return
    /\ LET tile == Head(todo).src  d == Head(todo).dst IN
         \/ gcOps = "async" /\ PlainDraw(d, ColorIn(vram, tile))
         \/ gcOps = "kaa" /\ CheckCopy(tile, d)
    /\ UNCHANGED <<pixVars, gcVars, areaVars>>

Copy ==
    /\ InCall("Copy") /\ Return
    /\ LET s == Head(todo).src  d == Head(todo).dst IN
         \/ CheckCopy(s, d)
         \/ /\ up /\ IsOffscreen(s) /\ IsOffscreen(d)
            /\ Accelerate(vram, queue, Blit(At(d), At(s)))
    /\ UNCHANGED <<pixVars, gcVars, areaVars>>

Check ==
    /\ InCall("Check") /\ Return
    /\ CheckCopy(Head(todo).src, Head(todo).dst)
    /\ UNCHANGED <<pixVars, gcVars, areaVars>>

\* kaaTryDriverSolidFill: the processor reads the source's only pixel, after
\* waiting if it is in video memory.
TrySolid ==
    /\ InCall("TrySolid")
    /\ LET s == Head(todo).src
           d == Head(todo).dst
           waits == IsOffscreen(s) /\ needSync
           mem == IF waits THEN Settled ELSE vram
           q == IF waits THEN <<>> ELSE queue
       IN \/ /\ ~IsOffscreen(d)
             /\ todo' = <<Call("Check", s, d)>>
             /\ UNCHANGED <<memVars, gpuVars>>
          \/ /\ IsOffscreen(d)
             /\ Accelerate(mem, q, Fill(At(d), ColorIn(mem, s)))
             /\ Return
          \/ /\ IsOffscreen(d)
             /\ vram' = mem /\ queue' = q
             /\ needSync' = (needSync /\ ~waits)
             /\ todo' = Fallback(s, d)
             /\ UNCHANGED <<place, sys>>
    /\ UNCHANGED <<pixVars, gcVars, areaVars>>

\* Broken: kaaMoveInPixmap does not wait.
UploadNoWait(p, slot) ==
    /\ vram' = [vram EXCEPT ![slot] = sys[p]]
    /\ UNCHANGED gpuVars
\* kaaMoveInPixmap: the upload waits for the engine unless a hook does it.
Upload(p, slot) ==
    IF UploadHook
      THEN vram' = [vram EXCEPT ![slot] = sys[p]] /\ UNCHANGED gpuVars
      ELSE vram' = [Waited EXCEPT ![slot] = sys[p]] /\ WaitSync

MoveIn(p) ==
    \/ /\ \E slot \in FreeSlots :
            /\ held' = [held EXCEPT ![p] = {slot}]
            /\ Moved(p, slot)
            /\ Upload(p, slot)
       /\ UNCHANGED <<sys, up>>
    \/ Stay

\* kaaMoveOutPixmap and KdOffscreenKickOut: kaaPixmapSave, KdOffscreenFree.
MoveOut(p) ==
    /\ WaitSync
    /\ vram' = Waited
    /\ sys' = [sys EXCEPT ![p] = Waited[place[p]]]
    /\ Moved(p, System)
    /\ Free(p)

\* Broken: no upper limit.
ScoreUpUncapped(n) == IF n = ScoreInit THEN 1 ELSE n + 1
ScoreUp(n) ==
    IF n = ScoreInit THEN 1 ELSE IF n < ScoreLimit THEN n + 1 ELSE n

ScoreDown(n) ==
    IF n = ScoreInit THEN -1 ELSE IF n > -ScoreLimit THEN n - 1 ELSE n

UseScreen ==
    /\ InCall("UseScreen") /\ Return
    /\ LET p == Head(todo).dst
           wants == \/ score[p] = ScoreInit
                    \/ score[p] < ScoreLimit /\ ~IsOffscreen(p) /\ score[p] + 1 >= ScoreMove
       IN /\ score' = [score EXCEPT ![p] = ScoreUp(score[p])]
          /\ IF wants THEN MoveIn(p) ELSE Stay
    /\ UNCHANGED alive

UseMemory ==
    /\ InCall("UseMemory") /\ Return
    /\ LET p == Head(todo).dst
           n == ScoreDown(score[p])
           wants == n < score[p] /\ held[p] # {} /\ n <= -ScoreMove
       IN /\ score' = [score EXCEPT ![p] = n]
          /\ IF wants THEN MoveOut(p) ELSE Stay
    /\ UNCHANGED alive

(***************************************************************************)
(* KdDisableScreen and KdEnableScreen.                                     *)
(***************************************************************************)
Disable ==
    /\ Ready /\ up
    /\ todo' = <<Call("SwapOut", "screen", "screen")>>
    /\ UNCHANGED <<pixVars, memVars, gpuVars, gcVars, areaVars>>

KickOut(p) ==
    /\ InCall("SwapOut") /\ held[p] # {}
    /\ MoveOut(p)
    /\ UNCHANGED <<pixVars, todo>>

SwappedOut ==
    /\ InCall("SwapOut") /\ Return
    /\ \A p \in Pixmaps : held[p] = {}
    /\ up' = FALSE
    /\ WaitSync
    /\ vram' = Waited
    /\ UNCHANGED <<pixVars, place, sys, gcVars, held>>

Enable ==
    /\ Ready /\ ~up
    /\ up' = TRUE
    /\ UNCHANGED <<pixVars, memVars, gpuVars, gcVars, todo, held>>

Init ==
    /\ alive = {}
    /\ score = [p \in Pixmaps |-> ScoreInit]
    /\ place = [p \in Pixmaps |-> System]
    /\ sys = [p \in Pixmaps |-> "none"]
    /\ vram \in [Slots -> Colors]
    /\ queue = <<>> /\ needSync = FALSE
    /\ gcFor = "none" /\ gcOps = "async"
    /\ todo = <<>>
    /\ held = [p \in Pixmaps |-> {}] /\ up = TRUE

Requests ==
    \/ \E p \in Pixmaps : Create(p) \/ Destroy(p)
    \/ \E d \in Drawables :
         \/ \E c \in Colors : PolyFillRect(d, c)
         \/ \E s \in Drawables : CopyArea(s, d) \/ Composite(s, d)
         \/ \E tile \in Pixmaps : FillTiled(tile, d)
         \/ GetImage(d)

Calls == FillRect \/ Tile \/ Copy \/ Check \/ Reply \/ TrySolid \/ UseScreen \/ UseMemory

Switch == Disable \/ (\E p \in Pixmaps : KickOut(p)) \/ SwappedOut \/ Enable

Next == Requests \/ Calls \/ Switch \/ Execute

Spec == Init /\ [][Next]_vars

-----------------------------------------------------------------------------
(***************************************************************************)
(* Properties.                                                             *)
(***************************************************************************)
Operation == [to : Slots, color : Colors] \cup [to : Slots, from : Slots]

TypeOK ==
    /\ alive \subseteq Pixmaps
    /\ score \in [Pixmaps -> -ScoreLimit..ScoreLimit \cup {ScoreInit}]
    /\ place \in [Pixmaps -> Slots \cup {System}]
    /\ sys \in [Pixmaps -> Colors \cup {"none"}] /\ vram \in [Slots -> Colors]
    /\ queue \in Seq(Operation) /\ needSync \in BOOLEAN
    /\ gcFor \in Drawables \cup {"none"} /\ gcOps \in {"kaa", "async"}
    /\ held \in [Pixmaps -> SUBSET Slots] /\ up \in BOOLEAN

\* A pixmap's pointer and its area always agree, no two pixmaps share video
\* memory, and what a destroyed pixmap held is given back: through failed
\* allocations, migrations back and forth and swap-outs.
AreasOwned ==
    \A p \in Pixmaps :
      /\ held[p] = (IF IsOffscreen(p) THEN {place[p]} ELSE {})
      /\ IsOffscreen(p) => p \in alive /\ up
      /\ \A r \in Pixmaps \ {p} : held[p] \cap held[r] = {}

\* Whenever the engine has work left, kaaWaitSync will not be fooled.
SyncFlagged == queue # <<>> => needSync

\* A GC that need not be validated again has the operations for where its
\* drawable is now: plain fb routines never draw in video memory.
OpsCurrent == gcFor # "none" => (gcOps = "kaa" <=> IsOffscreen(gcFor))

\* kasync.c:353, "Only need to stall for copyarea/copyplane": what fb reads
\* without waiting for the engine is up to date.
OnlyCopiesStall ==
    InCall("Tile") /\ gcOps = "async" =>
        ColorIn(vram, Head(todo).src) = ColorIn(Settled, Head(todo).src)

\* Clients see nothing of all this: a drawable's content is what they drew
\* there, wherever it is and whatever the engine has still to do.
Requested ==
    IF todo = <<>> THEN <<>>
    ELSE LET c == Last(todo) IN
         CASE c.call = "Fill" -> <<"draw", c.src, c.dst>>
           [] c.call \in {"Tile", "Copy", "Check", "TrySolid"} -> <<"copy", c.src, c.dst>>
           [] c.call = "Reply" -> <<"reply", c.src, c.dst>>
           [] OTHER -> <<>>

Store == INSTANCE PixmapStore WITH
           content <- [d \in Drawables |->
                         IF d \in alive \cup {"screen"} THEN ColorIn(Settled, d)
                                                        ELSE "none"],
           request <- Requested
StoreSpec == Store!Spec
=============================================================================
