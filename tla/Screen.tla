------------------------------- MODULE Screen -------------------------------
(***************************************************************************)
(* The life cycle of a screen of the Glamo server: virtual terminal        *)
(* switches, RandR, close and restart (hw/kdrive/src/kdrive.c,             *)
(* linux/linux.c, glamo/glamo.c), with what keeps memory or registers      *)
(* across it: the ring and the cache of the command queue                  *)
(* (glamo-cmdq.c), the buffer of the video port (glamo-video.c), pixmaps.  *)
(*                                                                         *)
(* The allocator is represented by what it promises (OffscreenMap), the    *)
(* command queue by whether anything is in the cache or being executed     *)
(* (GlamoCmdq).  A routine is the list of calls it has still to make; the  *)
(* chip and the user may act between any two.                              *)
(***************************************************************************)
EXTENDS Integers, Sequences, SequencesExt

CONSTANTS
    Memory,    \* size of video memory
    Bases,     \* off_screen_base, the size of the frame buffer, by geometry
    RingSize,
    FrameSizes, \* of the video frames that clients put
    Pixmaps, PixmapSize, \* of clients
    Switching  \* do terminal switches, RandR and restarts happen?

ASSUME ScreenAssumption ==
    /\ Memory \in Nat /\ RingSize \in Nat \ {0} /\ PixmapSize \in Nat \ {0}
    /\ FrameSizes \subseteq Nat \ {0} /\ Switching \in BOOLEAN
    /\ Bases # {} /\ \A b \in Bases : b \in Nat /\ b + RingSize <= Memory
    /\ {"ring", "video"} \cap Pixmaps = {}

VARIABLES
    todo,      \* the calls still to make; empty: between two requests
    enabled, kdEnabled, \* of the screen, and of the server
    failed,    \* the last attempt to enable the screen has failed, or a
               \* change of the configuration of an enabled one
    crashed,   \* a record that had been freed was freed again
    vt,        \* the kernel's view of our terminal: "ours", "leaving" (it
               \* waits for our consent), "away", "back"
    kdSwitchPending,
    geometry, base, \* off_screen_base as it will be set, and as it is
    areas,     \* the records of allocated areas: offset and size by user
    cmd_queue, \* the ring: whether its record exists, and ring_addr
    video,     \* off_screen_yuv_buf: the same, and what the record says
    cache,     \* the cache of commands: "none", "empty" or "full"
    needSync,
    mapped,    \* reg_base # NULL
    chip       \* base of the ring it fetches from; has it commands to do?

control == <<todo, failed, crashed>>
mode == <<enabled, kdEnabled, vt, kdSwitchPending>>
memory == <<geometry, base, areas, cmd_queue, video>>
driver == <<cache, needSync, mapped, chip>>
vars == <<control, mode, memory, driver>>

User == Pixmaps \union {"ring", "video"}
Held(u) == areas[u].offset..areas[u].offset + areas[u].size - 1

NoRecord == [record |-> "none", offset |-> 0, size |-> 0]

-----------------------------------------------------------------------------
(***************************************************************************)
(* Memory and the command queue.                                           *)
(***************************************************************************)
Places(size, used) ==
    {o \in base..Memory - size : \A u \in used : o..o + size - 1 \cap Held(u) = {}}

Alloc(u, size, used) ==
    \E o \in Places(size, used) :
      areas' = [v \in used \union {u} |->
                  IF v = u THEN [offset |-> o, size |-> size] ELSE areas[v]]

\* The owners of ring and buffer are not told.
Freed(record, u, us) ==
    IF u \in us /\ record.record = "live" THEN [record EXCEPT !.record = "freed"] ELSE record

Free(us) ==
    /\ areas' = [u \in DOMAIN areas \ us |-> areas[u]]
    /\ cmd_queue' = Freed(cmd_queue, "ring", us)
    /\ video' = Freed(video, "video", us)

\* Of a record that has been freed anything may be read.
ResetCP ==
    chip' \in {[base |-> b, active |-> TRUE] :
                 b \in IF cmd_queue.record = "live" THEN {areas["ring"].offset} ELSE 0..Memory}

\* When the batch does not fit in the rest of the ring, it is reset.
Dispatch ==
    /\ cache' = "empty"
    /\ chip' = [chip EXCEPT !.active = TRUE] \/ ResetCP

-----------------------------------------------------------------------------
(***************************************************************************)
(* Calls.                                                                  *)
(***************************************************************************)
Calling(c) == ~crashed /\ todo # <<>> /\ Head(todo) = c
Done == todo' = Tail(todo) /\ UNCHANGED <<failed, crashed>>
First(calls) == todo' = calls \o todo /\ UNCHANGED <<failed, crashed>>
Then(calls) == todo' = calls \o Tail(todo)

DisableCalls ==
    IF enabled THEN <<"swapOut", "waitSync", "wait", "teardown", "disable">> ELSE <<>>

KaaWaitSync ==
    /\ Calling("waitSync")
    /\ Then(IF needSync THEN <<"wait">> ELSE <<>>) /\ UNCHANGED <<failed, crashed>>
    /\ needSync' = FALSE
    /\ UNCHANGED <<mode, memory, cache, mapped, chip>>

MarkSync ==
    /\ Calling("markSync")
    /\ Done
    /\ needSync' = TRUE
    /\ UNCHANGED <<mode, memory, cache, mapped, chip>>

\* GLAMOEngineWait flushes the cache and waits for the chip.
WaitFlush ==
    /\ Calling("wait") /\ mapped /\ cache = "full"
    /\ Dispatch
    /\ UNCHANGED <<control, mode, memory, needSync, mapped>>

EngineWait ==
    /\ Calling("wait")
    /\ mapped => cache # "full" /\ ~chip.active
    /\ Done
    /\ UNCHANGED <<mode, memory, driver>>

NoTimeout == FALSE /\ UNCHANGED vars \* broken: waits for ever

Timeout ==
    /\ Calling("wait") /\ mapped /\ cache # "full" /\ chip.active
    /\ chip' = [chip EXCEPT !.active = FALSE]
    /\ Done
    /\ UNCHANGED <<mode, memory, cache, needSync, mapped>>

FlushCMDQCache ==
    /\ Calling("flush")
    /\ IF cache = "full" THEN Dispatch ELSE UNCHANGED <<cache, chip>>
    /\ Done
    /\ UNCHANGED <<mode, memory, needSync, mapped>>

\* KdOffscreenSwapOut, one area; a pixmap is saved first, which waits.
SwapOut ==
    /\ Calling("swapOut")
    /\ IF areas = <<>>
         THEN Done /\ UNCHANGED <<needSync, areas, cmd_queue, video>>
         ELSE LET u == CHOOSE u \in DOMAIN areas :
                         \A v \in DOMAIN areas : areas[u].offset <= areas[v].offset
              IN IF u \in Pixmaps /\ needSync
                   THEN First(<<"wait">>) /\ needSync' = FALSE
                        /\ UNCHANGED <<areas, cmd_queue, video>>
                   ELSE Free({u}) /\ UNCHANGED <<control, needSync>>
    /\ UNCHANGED <<mode, geometry, base, cache, mapped, chip>>

\* Broken: the pointer is not reset.
TeardownDangling ==
    /\ Calling("teardown")
    /\ Done
    /\ UNCHANGED <<mode, memory, driver>>

CacheTeardown ==
    /\ Calling("teardown")
    /\ cache' = "none"
    /\ Done
    /\ UNCHANGED <<mode, memory, needSync, mapped, chip>>

GLAMODisable ==
    /\ Calling("disable")
    /\ enabled' = FALSE /\ mapped' = FALSE
    /\ Done
    /\ UNCHANGED <<kdEnabled, vt, kdSwitchPending, memory, cache, needSync, chip>>

\* KdEnableScreen, up to enableAccel.  The frame buffer device or the mapping
\* of the registers may fail.
KdEnableScreen ==
    /\ Calling("enable")
    /\ \/ /\ ~enabled
          /\ enabled' = TRUE /\ mapped' = TRUE /\ base' = geometry
          /\ areas' = <<>>
          /\ Then(<<"accel", "wait">>) /\ failed' = FALSE
       \/ /\ ~enabled
          /\ failed' = TRUE /\ todo' = Tail(todo)
          /\ UNCHANGED <<enabled, mapped, base, areas>>
       \/ /\ enabled
          /\ todo' = Tail(todo)
          /\ UNCHANGED <<enabled, mapped, base, areas, failed>>
    /\ UNCHANGED <<crashed, kdEnabled, vt, kdSwitchPending>>
    /\ UNCHANGED <<geometry, cmd_queue, video, cache, needSync, chip>>

\* Broken: not forced to set the ring up anew.
CMDQInitOnce ==
    /\ Calling("accel")
    /\ IF cmd_queue.record = "none"
         THEN /\ Alloc("ring", RingSize, DOMAIN areas)
              /\ cmd_queue' = [record |-> "live", offset |-> areas'["ring"].offset, size |-> RingSize]
              /\ chip' = [base |-> areas'["ring"].offset, active |-> FALSE]
         ELSE UNCHANGED <<areas, cmd_queue, chip>>
    /\ cache' = IF cache = "none" THEN "empty" ELSE cache
    /\ Done
    /\ UNCHANGED <<mode, geometry, base, video, needSync, mapped>>

\* GLAMODrawEnable.  Memory is empty: there is room for the ring.  Here it is
\* about where the ring is; the read and write indices are GlamoCmdq's.
CMDQCacheSetup ==
    /\ Calling("accel")
    /\ Alloc("ring", RingSize, DOMAIN areas)
    /\ cmd_queue' = [record |-> "live", offset |-> areas'["ring"].offset, size |-> RingSize]
    /\ chip' = [base |-> areas'["ring"].offset, active |-> FALSE]
    /\ cache' = IF cache = "none" THEN "empty" ELSE cache
    /\ Done
    /\ UNCHANGED <<mode, geometry, base, video, needSync, mapped>>

\* glamoSetScannoutGeometry, which may fail: the rest is not done then.
SetScannoutGeometry ==
    /\ Calling("geometry")
    /\ \/ geometry' \in Bases /\ Done
       \/ /\ todo' = <<>> /\ failed' = (failed \/ Tail(todo) # <<>>)
          /\ UNCHANGED <<geometry, crashed>>
    /\ UNCHANGED <<mode, base, areas, cmd_queue, video, driver>>

\* LinuxDisable gives the terminal away if it was asked for.
LinuxDisable ==
    /\ vt' = IF kdSwitchPending /\ vt = "leaving" THEN "away" ELSE vt
    /\ kdSwitchPending' = FALSE

\* LinuxEnable activates our terminal and waits until it is.
LinuxEnable == vt' = "ours" /\ kdSwitchPending' = FALSE

Suspended ==
    /\ Calling("suspended")
    /\ LinuxDisable
    /\ kdEnabled' = FALSE
    /\ Done
    /\ UNCHANGED <<enabled, memory, driver>>

\* The end of KdCloseScreen.  GLAMOFiniVideo frees the buffer's record, which
\* has been freed: it may crash, or not.
ScreenFini ==
    /\ Calling("fini")
    /\ IF kdEnabled THEN LinuxDisable ELSE UNCHANGED <<vt, kdSwitchPending>>
    /\ kdEnabled' = FALSE
    /\ cmd_queue' = NoRecord /\ video' = NoRecord
    /\ mapped' = FALSE
    /\ todo' = Tail(todo)
    /\ crashed' \in IF video.record = "freed" THEN BOOLEAN ELSE {FALSE}
    /\ UNCHANGED <<failed, enabled, geometry, base, areas, cache, needSync, chip>>

\* The next generation of the server, which gives up if the screen cannot be
\* enabled.
KdScreenInit ==
    /\ Calling("init")
    /\ LinuxEnable
    /\ kdEnabled' = TRUE /\ enabled' = TRUE /\ mapped' = TRUE
    /\ base' = geometry
    /\ Then(<<"accel", "wait">>) /\ failed' = FALSE
    /\ UNCHANGED <<crashed, geometry, areas, cmd_queue, video, cache, needSync, chip>>

Call ==
    \/ KaaWaitSync \/ MarkSync \/ WaitFlush \/ EngineWait \/ Timeout \/ FlushCMDQCache
    \/ SwapOut \/ CacheTeardown \/ GLAMODisable \/ KdEnableScreen \/ CMDQCacheSetup
    \/ SetScannoutGeometry \/ Suspended \/ ScreenFini \/ KdScreenInit

-----------------------------------------------------------------------------
(***************************************************************************)
(* Requests and handlers.                                                  *)
(***************************************************************************)
Init ==
    /\ todo = <<"init">> /\ failed = FALSE /\ crashed = FALSE
    /\ enabled = FALSE /\ kdEnabled = FALSE /\ vt = "ours" /\ kdSwitchPending = FALSE
    /\ geometry \in Bases /\ base = geometry
    /\ areas = <<>> /\ cmd_queue = NoRecord /\ video = NoRecord
    /\ cache = "none" /\ needSync = FALSE /\ mapped = FALSE
    /\ chip = [base |-> 0, active |-> FALSE]

Rest == todo = <<>> /\ ~crashed
Begin(calls) == Rest /\ todo' = calls /\ UNCHANGED <<failed, crashed>>

\* An accelerated drawing request: Prepare, Solid, Done.
Draw ==
    /\ enabled
    /\ cache' = "full" /\ needSync' = TRUE
    /\ Begin(<<"waitSync", "flush", "markSync">>)
    /\ UNCHANGED <<mode, memory, mapped, chip>>

BlockHandler ==
    /\ Begin(<<"waitSync">> \o IF cache # "none" THEN <<"flush">> ELSE <<>>)
    /\ UNCHANGED <<mode, memory, driver>>

\* A pixmap is moved in (kaaPixmapAllocArea), or out, or destroyed.
MoveIn(p) ==
    /\ enabled /\ p \notin DOMAIN areas
    /\ Alloc(p, PixmapSize, DOMAIN areas)
    /\ Begin(<<>>)
    /\ UNCHANGED <<mode, geometry, base, cmd_queue, video, driver>>

MoveOut(p) ==
    /\ p \in DOMAIN areas
    /\ Free({p})
    /\ Begin(<<>>)
    /\ UNCHANGED <<mode, geometry, base, driver>>

\* GLAMOVideoUploadFrameToOffscreen: a new buffer when there is none, or when
\* the frame is smaller.  Freeing a record that has been freed may crash.
NewBuffer(size) == video.record = "none" \/ size < video.size

Rest4 == <<mode, geometry, base, cmd_queue, needSync, mapped, chip>>

\* ... and display of the frame.
PutImage(size) ==
    /\ enabled
    /\ IF NewBuffer(size)
         THEN /\ video.record # "freed"
              /\ Alloc("video", size, DOMAIN areas \ {"video"})
              /\ video' = [record |-> "live", offset |-> areas'["video"].offset, size |-> size]
         ELSE UNCHANGED <<areas, video>>
    /\ cache' = "full"
    /\ Begin(<<"wait">>)
    /\ UNCHANGED Rest4

\* There is no room for the buffer.  With a pixmap to evict the allocator
\* crashes instead (Offscreen), where the behaviours of this module just end.
PutFails(size) ==
    /\ enabled
    /\ NewBuffer(size) /\ video.record # "freed"
    /\ Places(size, DOMAIN areas \ {"video"}) = {}
    /\ areas' = [u \in DOMAIN areas \ {"video"} |-> areas[u]]
    /\ video' = NoRecord
    /\ Begin(<<>>)
    /\ UNCHANGED <<cache, Rest4>>

PutCrashes(size) ==
    /\ enabled /\ Rest
    /\ NewBuffer(size) /\ video.record = "freed"
    /\ crashed' = TRUE
    /\ UNCHANGED <<todo, failed, mode, memory, driver>>

\* Broken: enables a screen that was not.
SetConfigAlways ==
    /\ Switching
    /\ Begin(DisableCalls \o <<"geometry", "enable">>)
    /\ UNCHANGED <<mode, memory, driver>>

\* GLAMORandRSetConfig.
SetConfig ==
    /\ Switching
    /\ Begin(DisableCalls \o <<"geometry">> \o IF enabled THEN <<"enable">> ELSE <<>>)
    /\ UNCHANGED <<mode, memory, driver>>

\* KdProcessSwitch, from the wakeup handler.
ProcessSwitch ==
    /\ kdSwitchPending
    /\ IF kdEnabled
         THEN Begin(DisableCalls \o <<"suspended">>) /\ UNCHANGED <<kdEnabled, vt, kdSwitchPending>>
         ELSE Begin(<<"enable">>) /\ kdEnabled' = TRUE /\ LinuxEnable
    /\ UNCHANGED <<enabled, memory, driver>>

\* The clients are gone, and their pixmaps.  KdOffscreenFini drops the records
\* of all areas before the screen is disabled.
KdCloseScreen ==
    /\ Switching
    /\ DOMAIN areas \cap Pixmaps = {}
    /\ Free(DOMAIN areas)
    /\ Begin(DisableCalls \o <<"fini", "init">>)
    /\ UNCHANGED <<mode, geometry, base, driver>>

-----------------------------------------------------------------------------
(***************************************************************************)
(* The chip, and the user at the keyboard.                                 *)
(***************************************************************************)
Idle ==
    /\ chip.active /\ ~crashed
    /\ chip' = [chip EXCEPT !.active = FALSE]
    /\ UNCHANGED <<control, mode, memory, cache, needSync, mapped>>

\* Each asks by a signal.
Leave == vt \in {"ours", "back"} /\ vt' = "leaving"
Return == vt = "away" /\ vt' = "back"

VTRequest ==
    /\ Switching /\ ~crashed
    /\ Leave \/ Return
    /\ kdSwitchPending' = TRUE
    /\ UNCHANGED <<control, enabled, kdEnabled, memory, driver>>

Request ==
    \/ Draw \/ BlockHandler \/ SetConfig \/ ProcessSwitch \/ KdCloseScreen
    \/ \E p \in Pixmaps : MoveIn(p) \/ MoveOut(p)
    \/ \E s \in FrameSizes : PutImage(s) \/ PutFails(s) \/ PutCrashes(s)

Next == Call \/ Request \/ Idle \/ VTRequest

Spec == Init /\ [][Next]_vars

\* Every routine goes on, with a limit to each wait, and the wakeup handler
\* is called again and again.
FairSpec == Spec /\ WF_vars(Call) /\ SF_vars(ProcessSwitch)

-----------------------------------------------------------------------------
(***************************************************************************)
(* Properties.                                                             *)
(***************************************************************************)
Record == [record : {"none", "live", "freed"}, offset : 0..Memory, size : Nat]

TypeOK ==
    /\ todo \in Seq({"swapOut", "waitSync", "wait", "markSync", "flush", "teardown", "disable",
                     "enable", "accel", "geometry", "suspended", "fini", "init"})
    /\ failed \in BOOLEAN /\ crashed \in BOOLEAN
    /\ enabled \in BOOLEAN /\ kdEnabled \in BOOLEAN /\ kdSwitchPending \in BOOLEAN
    /\ vt \in {"ours", "leaving", "away", "back"}
    /\ geometry \in Bases /\ base \in Bases
    /\ DOMAIN areas \subseteq User
    /\ \A u \in DOMAIN areas : areas[u].size > 0 /\ Held(u) \subseteq base..Memory - 1
    /\ cmd_queue \in Record /\ video \in Record
    /\ cache \in {"none", "empty", "full"} /\ needSync \in BOOLEAN /\ mapped \in BOOLEAN
    /\ chip \in [base : 0..Memory, active : BOOLEAN]

\* The ring's area is given back before the driver is told that the screen
\* goes down, and its pointers are kept.  Still, whenever there are commands
\* in the cache or with the chip, the ring they go through is an area that
\* belongs to the driver, the chip and the driver have the same base address
\* for it, and the registers are mapped.
RingServed ==
  /\ TypeOK
  /\ cache = "full" \/ chip.active =>
      /\ "ring" \in DOMAIN areas /\ mapped
      /\ cmd_queue.record = "live" /\ cmd_queue.offset = areas["ring"].offset
      /\ chip.base = cmd_queue.offset

\* Between two requests a screen that is disabled, also by a change of its
\* configuration that failed half way, holds no memory, no cache and no
\* registers, and the chip is idle.
DownReleased ==
    Rest /\ ~enabled => areas = <<>> /\ cache = "none" /\ ~mapped /\ ~chip.active /\ ~needSync

\* While the terminal is another program's, so are the chip and its memory,
\* whatever clients ask for meanwhile; while it is ours the screen is up,
\* unless enabling it has failed.
OnOwnTerminal ==
    /\ vt = "away" => ~enabled /\ ~mapped /\ ~chip.active
    /\ Rest /\ kdEnabled /\ ~failed => enabled

\* A request to leave the terminal is granted, although the chip may hang.
LeaveGranted == vt = "leaving" ~> (vt # "leaving" \/ crashed)

\* glamo-video.c:564: "upload the YUV frame to offscreen vram so that GLAMO
\* can later have access to it": the frame is written where the port has
\* memory, and all of it.
UploadsToOwn ==
    [][\A s \in FrameSizes :
         PutImage(s) =>
           /\ "video" \in DOMAIN areas' /\ areas'["video"].offset = video'.offset
           /\ s <= areas'["video"].size]_vars
=============================================================================
