# Verifying the Glamo X server

TLA+ models of the kdrive X server for the SMedia Glamo 3362 (the graphics chip
of the Openmoko phones), the TLC configurations that check them and proofs for
TLAPS. Paths below are relative to the repository's `src/`.

The repository is the whole X.Org server tree of its time. What is its own is
`hw/kdrive/glamo`, a driver with a hardware command queue, on top of the kdrive
core (`hw/kdrive/src`): acceleration (KAA), the allocator of video memory, the
screen life cycle and input. The models follow those first, together with the
parts of the device-independent server they cannot be understood without.

## 1. Inventory

### 1.1 The parts, their state and what they do

| Part | Source | State | Operations |
| --- | --- | --- | --- |
| Command queue | `hw/kdrive/glamo/glamo-cmdq.[ch]` | cache (`used`), ring in video memory, `ring_write`; in the chip `READ_ADDR`, `WRITE_ADDR`, engine status | `BEGIN_CMDQ`/`OUT_REG`/`END_CMDQ`, `GLAMOFlushCMDQCache`, `GLAMODispatchCMDQCache`, `GLAMOCMDQResetCP`, `GLAMOEngineWait`, `GLAMOEngineReset` |
| Drawing hooks | `glamo-draw.c`, `glamo-funcs.c` | the operation being prepared | Prepare/Solid/Copy/Done, upload, block handler, YUV frame display |
| KAA | `hw/kdrive/src/kaa.c`, `kasync.c`, `kaapict.c` | `needSync`; per pixmap: score, area, dirty flag, system copy | migrate in and out, save, fall back to software, mark and wait for sync |
| Off-screen memory | `hw/kdrive/src/koffscreen.c` | the list of areas: offset, size, state, owner | alloc, free, mark used, kick out, swap out, swap in |
| Screen life cycle | `hw/kdrive/src/kdrive.c`, `vga.c`, `hw/kdrive/glamo/glamo.c` | enabled, closed, switch pending, `kdEnabled` | enable, disable, suspend, resume, close, RandR set-config |
| Xv overlay | `hw/kdrive/glamo/glamo-video.c`, `kxv.c` | video status, off-screen buffer, clip, timers | put image, stop, block handler, save |
| Input queue, pointer | `mi/mieq.c`, `mi/mipointer.c`, part of `dix/events.c` | circular buffer, `lastMotion`, `lastEventTime`, enqueue and dequeue screen; pointer, sprite | enqueue (in SIGIO), process, warp, update sprite |
| Input drivers | `hw/kdrive/src/kinput.c`, `hw/kdrive/linux` | emulation state, timeouts, event held back, SIGIO block count | read, enqueue, three-button emulation, timeout |
| Timers, wait loop | `os/WaitFor.c` | sorted list of timers, ready sets | set, cancel, force, run, wait |
| Connections, I/O | `os/connection.c`, `os/io.c` | descriptor sets, input and output buffers | accept, read a request, write, flush, close, ignore |
| Dispatch | `dix/dispatch.c` | clients, priorities, smart-schedule slice, `dispatchException` | schedule, execute, close down, reset |
| Resources | `dix/resource.c` | hash table per client | add, change, free, free by type, free client |
| Events and grabs | `dix/events.c`, `dix/grabs.c` | sprite, grabs, frozen devices, queue of held events | deliver, freeze, thaw, replay |
| SYNC, screen saver, DPMS | `Xext/sync.c`, `saver.c`, `dpms.c` | counters, triggers; saver state | change, await; activate, reset |
| Regions | `mi/miregion.c` | - (pure) | union, intersect, subtract, validate |

### 1.2 How they interact

- A request reaches KAA, which moves pixmaps into video memory through the
  allocator, calls the driver's Prepare / Solid or Copy / Done, and falls back to
  software after `kaaWaitSync`. The driver writes packets to the cache; a
  dispatch copies them to the ring, from which **the chip fetches concurrently**.
- The ring is itself an area of the allocator's, locked; so is the video buffer.
  `KdOffscreenSwapOut` takes all areas back when the screen is disabled, calling
  the owner's `save` callback.
- Input devices are read in the **SIGIO handler**, which may interrupt the server
  anywhere outside `KdBlockSigio`; it puts events in the queue and moves the
  pointer. `Dispatch` calls `ProcessInputEvents`, which empties the queue and
  updates the sprite; a change of screen found in the queue can queue a motion.
- `WaitForSomething` runs the timers, the block handlers (which flush the command
  queue) and the wakeup handlers (which time the button emulation out).

### 1.3 What is hard, and what would make each part correct

- Command queue: the chip runs on its own, the ring is reused, every wait has a
  time limit after which the engine is reset with words still queued. *Every
  command reaches the chip once and in order; the ring never becomes ambiguous
  (full looks like empty); software never touches video memory that the chip is
  drawing to; a dead chip does not hang the server.*
- Allocator: splitting, padding for alignment and merging must agree over any
  sequence of calls. *Areas tile the memory, free ones are merged, nobody shares
  a byte, a request that fits is granted, swap-out ends.*
- Input: the handler interrupts the reader between any two steps, the queue
  overflows, motions are merged in place, the clock steps back, screens are
  switched from three places. *Keys and buttons are delivered once, in order;
  the reader returns; the displayed pointer catches up.*
- KAA: *a pixmap's content survives every migration, and is not read in one place
  while it is newer in the other.*
- Screen life cycle: *nobody keeps using video memory that was taken back; a
  screen that is down holds nothing, also after a change that failed half way;
  the terminal is given away when it is asked for.*
- Timers: *a callback that sets or frees timers does not disturb the walk over
  the list; a timer set is run, and not early, although times wrap around.*
- Three-button emulation: *every press reported is released; nothing is held back
  for ever.*
- Connections and dispatch: *a grab keeps the others out and nobody is forgotten
  after it; a complete request that is buffered is not overlooked.*
- Request reader: *requests are handed out whole and in order, however the reads
  cut the stream; an input buffer has one user.*

`PROJECT.json` lists the hazards with their lines and the property that covers
each.

## 2. The modules

| Module | Stands for | Abstract specification |
| --- | --- | --- |
| `GlamoCmdq` | command queue, drawing hooks, `needSync`, command processor | `CmdStream` |
| `GlamoCmdq_proofs` | the proofs about it | |
| `Kaa_proofs` | the proofs about KAA | |
| `Offscreen` | allocator of video memory | `OffscreenMap` |
| `Offscreen_proofs` | the proofs about it | |
| `Kaa`, `MCKaa` | KAA: migration of pixmaps, drawing by engine and processor, GC validation, disable and enable | `PixmapStore` |
| `InputQueue` | input event queue, pointer, `ProcessInputEvents`, the SIGIO handler | `KeyStream` |
| `InputQueue_proofs` | the proofs about it | |
| `Timers` | timers and `WaitForSomething` | |
| `Emulation` | three-button emulation with its timeout | |
| `Emulation_proofs` | the proofs about it | |
| `Screen` | screen life cycle, with the ring, the cache and the video port | |
| `Screen_proofs` | the proofs about it | |
| `ServerGrab` | dispatch loop, sets of clients, server grabs | |
| `ServerGrab_proofs` | the proofs about it, and about `Timers` | |
| `RequestReader` | requests and input buffers | |
| `RequestReader_proofs` | the proofs about it | |

In each, operators whose comment begins with *Broken:* are variants of the code
with a plausible bug. No specification uses them; each is the counterpart of one
property in `PROJECT.json`, "mutants", that the variant breaks. A constant that
only bounds the model is named `Max...`.

### 2.1 GlamoCmdq

**State.** A command word is represented by its number in the order of emission.
The cache always holds the last words emitted, so it is just its length `used`
(in 16-bit words; the code counts bytes). `ring` maps a slot to the number of
the word in it, 0 after the `memset` of a reset. `ring_write` is the driver's
index; `hwRead`, `hwWrite` are the chip's address registers and `busy` its 2D and
ISP engines. The server is somewhere in one of its routines: `prog` names it, and
`Program` lists, for each, the calls that matter here in the code's order (for
instance `solid`, the call of `GLAMODoneSolid`: wait for the marker, flush, mark
sync). `pc` is the call being made and `phase` how far it has come: about to be
made, clearing the ring, resetting, copying, draining, waiting for the engine.
`emitted`, `executed`, `exact` and `blank` are history; `blank` is the index
`ring_write` had when the ring was last cleared.

**Actions.** One per step at which the chip can get in between: `Prepare`,
`Draw`, `Done`, `DisplayFrame`, `Block`, `Fallback`, `Disable` and `Enable` are what
the server asks for;
`FlushForRoom` and `EmitPacket` are `BEGIN_CMDQ` (flush if the packet does not
fit); `Flush` ends in `BeginDispatch` (reset first if the batch would hit the end
of the ring), `ResetCP`/`ResetDone`, `CopyWord`, `Publish`, `DispatchDone`;
`WaitFlush`, `WaitPoll`, `WaitDone` are `GLAMOEngineWaitReal`. `Fetch` and `Finish`
are the chip. Each time limit is an action (`CopyTimeout`, `DrainTimeout`,
`ResetTimeout`, `WaitTimeout`) enabled while the loop it bounds still waits.

**What is assumed of the chip** (marked external in the map): it latches the
write address when the low half is written, after the high one; it fetches words
in order from `READ_ADDR` up to `WRITE_ADDR`; after `GLAMOEngineReset` its address
registers may be kept or cleared, and both are explored; a full `GLAMOCMDQResetCP`
sets both to 0; it passes over a cleared word, which starts no engine (the driver
clears the ring to "make the decoder happy", `glamo-cmdq.c:397`).

**Start, disable and enable.** The model starts after `GLAMOScreenInit`, with the
driver's record zeroed and the screen down. `Enable` is `GLAMODrawEnable`: `Setup`
(`GLAMOCMDQCacheSetup`, `GLAMOCMDQInit`) creates the cache, clears the ring and goes
through `GLAMOCMDQResetCP`, and the engine is waited for. `Disable` is
`GLAMODrawDisable`. Both happen any number of times, as on a terminal switch or a RandR
change, and all properties are about such histories. Setting the ring up again
puts the chip at offset 0 and **keeps the driver's `ring_write`**: only the reset in
`GLAMODispatchCMDQCache` sets that to 0. The next dispatch after a resume therefore
copies at the old index, and the chip passes over as many cleared words before it comes
to the new ones. That is in the model (`IndexAfterReset`), and `NoBlankAhead` says
exactly which cleared slots the chip can be led through.

`cmd_queue_cache_start` is never changed by the code and left out. Not modelled
here: where the ring is allocated and that this may fail (part of the life cycle,
2.7), register contents, and the EXA build, which runs the same queue.

### 2.2 Offscreen

**State.** `areas`, the list in memory order, each with `offset`, `save_offset`,
`size` and its user; `answer`, what became of the last request (with `crashed`
for a null pointer followed); `swapping`, that `KdOffscreenSwapOut` is under way.

**Actions.** `Alloc` is the whole of `KdOffscreenAlloc`: first fit with padding,
else the search for a run of areas to evict, split, padding. `Free` frees and merges
with the next, then with the previous area. `SwapOut`, `KickOut` (one round of the
loop, calling the `save` callback) and `SwappedOut`; `SwapIn` starts over.
`Starve` is the failure of `xalloc` while splitting. The search always runs to the
end of its loop with `begin` null, so an allocation in need of a victim ends in
`SearchCrashes` (section 5). For the same reason scores and `KdOffscreenMarkUsed`
are left out: they choose victims only. Locked areas (the ring) are not freed by a
swap-out's search for victims but are freed by their owners.

### 2.3 Kaa

**State.** A drawable's content is one colour. Video memory `vram` has slots of the
size of a pixmap; slot 0 is the screen, where the root and all windows are.
`place` is a pixmap's `devPrivate.ptr` (a slot or system memory), `held` its
`area`, `sys` its system memory, `score` its score. `queue` is what the drawing
engine has still to do (`Carried` is the memory after it), `needSync` the card's
flag. `gcFor` and `gcOps` are a GC:
the drawable it was validated for, while that one's serial number is unchanged,
and its operations. `up` is `enabled`. A request is a sequence of calls `todo`
(`kaaPixmapUseScreen`, `kaaPixmapUseMemory`, a drawing routine); the engine may
carry out an operation (`Execute`) between any two.

**Actions.** `Create`, `Destroy`; the requests `PolyFillRect`, `FillTiled`,
`CopyArea`, `Composite`, `GetImage`, each with its own list of calls; the calls
`FillRect`, `Tile`, `Copy`, `Check`, `TrySolid`, `Reply`, and `UseScreen` and
`UseMemory`, which count the score and move the pixmap in (`MoveIn`) or out
(`MoveOut`). `Disable`, `KickOut` (one round of `KdOffscreenSwapOut`), `SwappedOut`
and `Enable`.

The allocator is represented by its specification: `FreeSlots` is where
`OffscreenMap` allows an area. With no memory left `KdOffscreenAlloc` returns null
(`Stay`) or crashes, where the behaviours of this module just end.

**Two kinds of driver.** The Glamo's Done hooks wait for the engine (this is what
`GlamoCmdq` shows as `VideoMemoryQuiet`), and its upload hook relies on it:
`DoneWaits`, `UploadHook`. Other KAA drivers leave the engine drawing and have no
upload hook, so that `kaaMoveInPixmap` waits. The assumption
`UploadHook => DoneWaits` names this dependency.

Left out: masks, the blend and composite hooks of other drivers, partial
rectangles, the dirty flag (its only use is under `#if 0`), pinned pixmaps, time
limits of the engine, and reading windows while the screen is disabled (what is
in video memory then belongs to somebody else).

### 2.4 InputQueue

**State.** `events`, `head`, `tail`, `lastMotion`, `lastTime`, `enqScreen`,
`deqScreen` are the fields of `miEventQueue`; `ptr` and `sprite` are the pointer of
`mipointer.c` and where it is displayed, `dix` the position in `dix/events.c`.
A position is the number of the motion that reported it, so "where the button
was pressed" is comparable. The reader's `pc`, `seen`, `here` and `xe` are its
position in `mieqProcessInputEvents` and its locals.

**Actions.** The SIGIO handler runs to completion between two steps of the
reader, so `Key` and `Motion` are atomic; each includes the whole of
`mieqEnqueue`. The reader is divided where a signal can change what it does:
the comparison of screens, the reads of the place, the copy of the event (in two
halves: a signal can interrupt the structure assignment), the advance of
`head`, the delivery, the two reads of `miPointerUpdate`. `WarpPointer` is a
client's `WarpPointer` request, made when the reader is not running.

Left out: cursor shapes, confinement, the motion history, a warp without an
event.

### 2.5 Timers

**State.** `timers` is the sorted list; an entry keeps the time it expires, its
delay, and `owed`, how much of the delay has not passed (history). Times are
modulo `Modulus`. `clock` is `GetTimeInMillis`; `pc` where the server is: in its
other work (`dispatch`), in `select`, between two calls of a pass (`run`), in
`CheckAllTimers` (`rewind`), or in a callback, of which `cur`, `caller` and `back`
say whose it is, who called it and where it returns to. `now` and `left` are
the time `WaitForSomething` read and the timeout of its sleep.

**Actions.** `Set`, `Cancel`, `Free`, `TimerForce` are the calls of the rest of the
server and of callbacks; `Return` and `ReturnDelay` the two ends of a callback, the
second of which sets the timer anew. `Wait` computes the sleep or enters
`CheckAllTimers`; `WakeUp` and `WakeBusy` end it; `Run` is one step of the pass. `Tick`
and `Step` are the clock, going on or being set. A callback of `TimerSet` that asks
to be called again has `Link` compare with the delay instead of a time, as the
code does.

### 2.6 Emulation

**State.** `mi` holds the fields of `KdMouseInfo` that concern the emulation, `due`
that the timeout is over, and three histories: `reported` (the buttons down
according to what was queued), `matched` (each report was of a change) and
`plain` (no key and no real button 2 so far). `buttonState` is the mouse's.
`pc` is where the server is between its block handler, `select` and the steps of
`KdWakeupHandler`; `armed` that the sleep has a timeout for the emulation.

**Actions.** `kdInputMachine` is the table of the code, written as a few default rows
with the entries that differ. `KdEnqueueMouseEvent` runs the machine for the motion
and then for each button that changed; `KdHandleKeyboardEvent` is a key; both are
the signal handler's and may come between any two steps of the server.
`KdBlockHandler`, `Select`, `Wake`, `Pending`, `Compare`, `Clear` and
`KdReceiveTimeout` are the server's; `Expire` is time. Whether a motion leaves the
box around the held press is nondeterministic.

### 2.7 Screen

**State.** `todo` is the list of calls that the routine in progress has still to
make. `enabled`, `kdEnabled`, `vt`, `kdSwitchPending` are the screen's and the
terminal's mode. `areas` is what the allocator gave out, `cmd_queue` and `video`
what the driver and the video port believe about theirs (a record may be live, freed
or none). `cache`, `needSync`, `mapped`, `chip` are the driver's. The allocator is
its specification; the queue is whether anything is in it. Of the addresses the chip
and the driver have, only the ring's base is here: `RingServed` says that they mean
the same ring, not the same place in it. The indices are `GlamoCmdq`'s, where
`ring_write` survives the set-up.

**Actions.** One per call (`SwapOut`, `CacheTeardown`, `GLAMODisable`,
`KdEnableScreen`, `CMDQCacheSetup`, `SetScannoutGeometry`, `Suspended`, `ScreenFini`,
`KdScreenInit`, waits and flushes) and one per request or handler that lists them
(`Draw`, `BlockHandler`, `MoveIn`, `MoveOut`, `PutImage`, `SetConfig`,
`ProcessSwitch`, `KdCloseScreen`). `EngineWait` without mapped registers returns at
once. Enabling and the geometry may fail; a chip that hangs is a `Timeout`. Freeing a
record that was freed before crashes, or goes unnoticed in `KdCloseScreen`.

### 2.8 ServerGrab

**State.** `server` holds the static sets of `connection.c` and `dispatch.c` under
their own names; `buffered` and `sent` count the complete requests in a client's
buffer and in its socket; `again` marks a `GrabServer` that was put back. `current` and
`request` are the turn. What a request is shows when it is executed.
`controlled` records that a client has used XTestGrabControl.

**Actions.** `Schedule` is a round of `WaitForSomething` and the scheduler's choice;
`ReadBuffered`, `ReadSocket`, `ReadNothing`, `ReadFails` the read; `Other`,
`GrabServer`, `AwaitGrab`, `ProcUngrabServer`, `Impervious`, `Pervious`, `Sleep`,
`KillClient` the requests; `Wake` a trigger; `Connect`, `Send`, `HangUp` the clients.
Every routine of `connection.c` is an operator from the old sets to the new.
The end of a grab hands it to the next of those that wait as the code finds it
(`NextWaiter`): from the highest word of their mask down, its lowest bit first.

### 2.9 RequestReader

**State.** `os` holds the input buffers, who has which, the free ones and
`AvailableInput`. A unit of data is two bytes and knows which request of which
client it is part of, so a cut in the wrong place shows. `turn` and `req_len` are
the request being executed; `sent` is what a client has sent, `socket` what of it has
not been read, and `done` how many requests have been executed. Lengths may be any
numbers; `Noise` is what the reader finds if it takes something else for a length.
`lost` is history: the clients whose streams the server may have lost track of, since a
Big Request was shorter than its header (`Short`) or was put back.

**Actions.** `ReadBuffered`, `ReadSocket` (any number of units that fit) and
`ReadNothing` are `ReadRequestFromClient`, and `ReadFails` its end for a request that
is larger than the limit, whose client is killed; `Execute` and `ResetCurrentRequest`
what a handler does with the request; `Close` and `Send` the clients.

### 2.10 The abstract specifications

`CmdStream`: words are received once, in order, until a reset after a time-out.
`OffscreenMap`: users hold disjoint aligned runs of bytes; a request is refused
only if no aligned run is free; the screen goes down only when nobody holds any.
`PixmapStore`: a drawable's content changes only as requests ask; reading returns it.
`KeyStream`: keys and buttons accepted leave in order, once (`Spec`), and eventually
(`Taken`); with one screen each is delivered. Each detailed module instantiates its own with a
refinement mapping and the result is checked as a property.

## 3. What is checked

| Run | Question | Properties |
| --- | --- | --- |
| `cmdq_stream` | Does a working chip get everything, in order, with resets at the end of the ring and the ring set up again at any time? | `StreamSpec` (refinement), `AllReceived` (liveness), `VideoMemoryQuiet` |
| `cmdq_timeouts` | Does everything stay consistent if the chip may hang anywhere? | `TypeOK`, `RingNeverWraps`, `NoBlankAhead`, `UnfetchedKept` (action), `ServerReturns` (liveness) |
| `offscreen_map` | Does any sequence of calls keep the memory tiled, merged and disjoint? | `Tiled`, `Coalesced`, `MapSpec` (refinement), `SwapOutEnds` (liveness) |
| `kaa_glamo` | With the Glamo's hooks, do clients see what they drew, wherever it is? | `TypeOK`, `AreasOwned`, `StoreSpec` (refinement) |
| `kaa_async` | And with an engine that draws while the server goes on? | `SyncFlagged`, `OpsCurrent`, `StoreSpec` (refinement) |
| `input_order` | With two screens, overflow, clock steps and signals anywhere: keys, times, the reader, the sprite? | `TimesOrdered`, `KeysInOrder` (refinement), `KeysTaken`, `ReaderReturns`, `SpriteCatchesUp` (liveness) |
| `timers` | Does the list survive its callbacks and the clock, and is each timer called when it should be? | `ListSound`, `NotEarly` (action), `TimerRuns` (liveness) |
| `emulation` | Are presses and releases matched, and is nothing held back for ever, when signals and the timeout meet? | `MatchedEvents`, `NoStuckButton`, `HeldIsPending`, `SleepEnds` (liveness) |
| `screen_cycle` | Who holds what across switches, RandR, restarts and failures? | `RingServed`, `DownReleased`, `OnOwnTerminal`, `LeaveGranted` (liveness) |
| `grab` | Are the right clients heard during a grab and after it? | `GrabExclusive`, `HeardWhenFree`, `InputNoticed` |
| `reader` | Are requests cut out of shared buffers correctly and never overlooked? | `RequestsFramed`, `BuffersOwned`, `BufferedNoticed` |
| `screen_video` | Does the video port write to its own memory? | `UploadsToOwn`, violated: section 5 |

The type invariants of `Offscreen`, `InputQueue`, `Timers`, `Screen`, `ServerGrab` and
`RequestReader` are conjuncts of `Tiled`, `TimesOrdered`, `ListSound`, `RingServed`,
`GrabExclusive` and `BuffersOwned`.

**Bounds.**

- Command queue: the ring has 7 slots (5 with time limits) and packets of 2, 3
  and 4 words stand for the 26, 34 and 38 of the code. No packet divides the ring,
  as in the code (2^17 words is a multiple of neither 26 nor 34, and a frame starts
  with an empty cache), and several batches fit, so that every alignment of a
  batch to the end of the ring occurs. `MaxWords` is 20, three times round the
  ring (8 with time limits, where one time round, a reset and a further batch
  suffice, since a time-out leaves the ring in an arbitrary phase). The ring is set
  up again without a bound, at every index it can be left at.
- Allocator: 9 bytes of memory with base 1 and alignment 2, so that the first
  area needs padding and three pixmaps and one locked user can be arranged with
  holes in every way; requests from 1 to more than the whole.
- KAA: two pixmaps (a source and a destination, and one that takes the place of
  the other) and the screen, two colours; video memory for both pixmaps
  (`kaa_glamo`) or for one (`kaa_async`, so that allocations fail). A score of 2
  moves a pixmap and is the highest, for 10 and 20 in the code: the threshold and
  the limit are each reached and left again. One queued operation (`MaxQueue`) is
  enough for a race with the processor, since the engine keeps the order of its
  own. Pixmaps and colours are interchangeable; `MCKaa` declares the symmetry, and
  the properties checked with it are safety properties. `kaa_async` has no tiles
  (`Tiles`), because of the disagreement in section 5.
- Input: a queue of 4 slots holds three events; 3 keys and 2 motions overflow it
  and let a key between two motions be merged, on either screen and in every
  position of the reader. Times 0 and 1 with `Jump` 10 let the clock step back by
  less than the 10 s the code accepts; a larger step is passed through by design.
  With two screens a key may be consumed as a change of screen; that none is with
  one screen is not in this run, and is a case of `KeysFollow`.
- Timers: two timers, one in the list while the callback of the other runs; three
  calls, so that one can be set, set again and freed. `Modulus` 10 stands for 2^32:
  all delays, with `Lag`, stay well below half of it, as the code's do, and the
  clock starts anywhere, so every comparison also happens across the wrap. One
  step of 8 sets the clock back by 2, more than a delay with its `Slack`. With such
  delays no timer is called by `TimerSet`, so that `NotEarly` is about the passes
  here; what `TimerSet` does with longer ones is in section 5.
- Emulation: the model is finite; buttons 1 and 3 are emulated, 2 is a real
  middle button, 4 stands for all others.
- Screen: memory of 5 (6 where there is room for a video frame beside the rest),
  two sizes of the frame buffer, a ring of 2, frames of 1 and 2, one pixmap: the
  ring's place after a change of geometry may be another one or overlap the old.
  The ring always fits in memory that is otherwise empty (`ScreenAssumption`).
- Server grab: two clients, each of which may take either side, and two requests
  in a socket, so that one stays in the buffer while the other is executed. Their
  indices, 1 and 33, are in different words of the mask of those that wait.
- Request reader: a buffer of 6 units, water mark 7 and limit 8 for 4096, 8192 and
  2^22 bytes, and 9 for 2^32 - 1; plain requests of one word and Big Requests of one,
  shorter than their header, and of four, longer than a buffer; `Noise` 5, a length
  above the limit, so that a stream that is lost track of also kills its client; two
  clients that have sent up to three requests between them, all by one or two by one
  and the third by the other, and clients that come back begin again. Requests of any
  kind may be put back (`Restart`).
  Big Requests of no words are in the proofs, and differ from those of one in
  `req_len` only.

Deadlock is checked for the command queue, for KAA and for the emulation. The others
may stop: an idle server waits for input when the bounds are used up, and a
crash (of the allocator, of the video port) is an end.

**Fairness.** `ServerFairness`: the server goes on with the routine it is in, a
drawing request has finitely many rectangles (`Done`), and a time limit expires if
what it waits for does not happen; the code is single-threaded and each loop is
bounded by a time limit. `AllReceived` also trusts the chip to fetch and to finish
(`FairSpec`), `ServerReturns` does not. For the allocator, a `KdOffscreenSwapOut`
once entered runs on. For the input queue, `WF(Reader)`: `Dispatch` comes back to
`ProcessInputEvents` for as long as the server runs; nothing is assumed of devices
or signals. For the timers, the server goes on, time passes (`SF(Tick)`: it does so
although the server has something else to do in between) and the server comes
to the pass again and again (`SF(Wake)`); input and buffered requests come before
the timers in the code, so that nothing could be said of a server which always has
some. For the emulation, the server goes on, time passes, and a sleep *with a
timeout* ends (`WF(armed /\ Wake)`); one without may last for ever. For the screen,
routines go on, and the wakeup handler comes again and again (`SF(ProcessSwitch)`):
strong, because the switch is looked at between two requests only and other
requests come in between. `ServerGrab` and `RequestReader` are checked for safety
only: the scheduler's choice is nondeterministic in them.

## 4. What is proved

`GlamoCmdq_proofs` holds for every ring size and every packet size satisfying
`CmdqAssumption`: positive packet sizes smaller than the ring, no whole number of
equal packets fills the ring exactly, and the ring has at most 2^17 words (the
address register is written in two halves that hold 18 bits).

- `TypeCorrect`: `TypeOK`.
- `NeverWraps`: `RingNeverWraps`, also when waits time out.
- `QuietForSoftware`: `VideoMemoryQuiet`.
- `ImplementsStream`: `StreamSpec`, the safety of the refinement of `CmdStream`.
- `KeepsUnfetched`: `UnfetchedKept`, and `NeverBlankAhead`: `NoBlankAhead`, with
  time-outs.

All of them hold however often the screen is disabled and enabled.

None of these is inductive by itself. `IInv` adds:

- `ControlInv`, which operation is in progress where in which program;
- `CacheInv`, the cache holds whole packets of one kind. With the assumption on
  sizes it is therefore never *exactly* full, so a batch that forces a reset
  always leaves room below the end of the ring: this is where `RingNeverWraps`
  comes from, and why the assumption is needed;
- `RingInv`, `hwRead <= hwWrite <= ring_write`, no wrap between resets;
- `StreamInv`, until the first reset after a time-out the slots from `Base` to
  `ring_write` hold the words after `executed` in order, and with the rest of the
  cache they make up everything emitted. `Base` is `hwRead`, or `blank` as long as
  the chip is still among the slots below it, which are cleared. This is the
  refinement;
- `SyncInv` and `QuietInv`, `needSync` is set until the wait of the `Done` hook,
  and nothing but cleared words is on its way after it.

`NextInv` treats the actions in five groups (requests, dispatch, calls, ends of
calls, chip), one lemma each. `AddrExact` shows that splitting the address in two
16-bit halves and joining it again loses nothing below 2^17 words.

`KeepsUnfetched` follows from `RingInv` (the copy loop writes at `ring_write`, and no
address given to the chip lies beyond). `NeverBlankAhead` adds `BlankInv`, that
between resets every slot from `blank` to `ring_write` has been written; `RingStep`
lists what a step can do to the ring. With `ring_write` reset at every set-up, `blank`
would be 0 and the chip led into no cleared slot at all; as the code is, it is.

`Kaa_proofs` holds for any pixmaps, sizes, scores and queue lengths under
`KaaAssumption`, for both kinds of driver, with and without tiles.

- `AreasStayOwned`: `AreasOwned`. Inductive only together with `TodoInv`, that the
  calls a request has still to make concern pixmaps that exist.
- `SyncStaysFlagged`: `SyncFlagged`.
- `OpsStayCurrent`: `OpsCurrent`.
- `TypeCorrect`: `TypeOK`.
- `StoreImplemented`: `StoreSpec`, the refinement of `PixmapStore`: whatever is moved,
  drawn by the engine later or by the processor at once, swapped out or
  evicted in between, each drawable's content changes as requests ask and is
  read as it is. It assumes `Tiles => DoneWaits`, and `Kaa_tiles.cfg` shows that it
  has to (section 5). Among drivers whose hooks wait, and among those that never fill with
  tiles, there is no exception.

The first three are about places (`IInv`). `MoveStep` is the heart of it: any change
of place, in or out, by a request, a destruction or a swap-out, keeps areas and GC
operations right, provided that the slot was free and the pixmap exists.

The last two are about contents (`StoreInv`), and need `IInv`, since it is because no
two pixmaps share a slot that drawing to one leaves the others alone. `Contents`
says that the engine's queue and memory are well formed, that with drivers that wait
nothing is queued between calls, and that every pixmap has a content in system memory
to begin with; `Scores` keeps a pixmap that was not used yet in system memory; `LastDraws` says of a request's remaining calls
which of them is the one that the abstract request stands for, so that moving the
pixmaps before it is a stutter. What a drawable will contain is its memory after
the queue, `Carried`, a recursive function. The facts about it (an operation appended
acts last, one carried out acts first, and memory stays memory) are inductions on the length of the queue, each made as the argument
that there is no least length at which it fails.

`Emulation_proofs` holds for every set of buttons out of 1..5, with or without
keys. `NeverStuck`: with all buttons of the mouse up, none is down for the rest of
the server. `AlwaysMatched`: as long as neither a middle button nor a key was
pressed, reported presses and releases match. `HeldStaysPending`: a press that is
held back has its timeout pending, or the server is about to pass it on. None of the
three is inductive. `IInv` relates the state of the machine, the buttons it was told
of and what it reported: in each state what is reported lies in `Reportable` (a held
press is missing from it, and while the middle button stands for two it replaces
them), and is exactly that while the history is plain; the buttons a state is named
after are down; and in the two pending states the timeout is pending, or was just
cleared by a server that passes it on next. Without the last part, the moment
between `Clear` and `KdReceiveTimeout` in which a report of the mouse comes in would
break it. One lemma per state of the table (`...Step`) shows that a button that
changes keeps this; a report of the mouse is a motion and five such steps, chained
over the buttons told so far (`Told`).

`ServerGrab_proofs` holds for every set of clients, where TLC has two:
`GrabsExclude`, `AllHeardWhenFree` and `InputStaysNoticed`. `IInv` has three parts.
`Sets` ties the server's sets to the connected clients and, during a grab, to the
client that has it and those that are impervious. `InTurn` says that the client whose
turn it is is one of these: it is what keeps a turn that began before a grab from
running into it. `Calm` holds until somebody uses grab control: everybody who does
not sleep is heard, or saved for the time after the grab; nobody who sleeps is,
except that the client with the grab remains among the saved ones; and every full
request is noted in a set that some operation goes back to. The proof shows by the
way that without grab control nobody ever waits for a grab (`grabWaiters` stays
empty): others are not heard at all. That `UngrabServer` lets in one of those that
wait takes a last word of the mask and a least bit in it, both from `WFMin`.

`Offscreen_proofs` holds for every amount of memory, base, alignment and set of users
under `OffscreenAssumption`: `MemoryTiled` (`Tiled`), `AlwaysCoalesced` (`Coalesced`)
and `MapImplemented` (`MapSpec`, the whole refinement of `OffscreenMap`). `IInv` has
three parts besides the types. `Tiling`: areas follow each other without a gap,
every byte is in one of them, an area's aligned part lies within it, and a free
area has no padding. `Alone`: a user has at most one area. `NoPair`: no two
neighbours are free. The first is local to neighbours; that every area lies before
every later one, and that each byte is in some area, are facts about the whole
list, which are carried along by each change (`Split`, `Merge`, change of owner)
and need no induction of their own; the first fit is the least index that fits, from
`WFMin`. That a refused request had no room follows from `NoPair`: a stretch of
free bytes cannot extend over two areas, so it lies in one, which first fit would
have taken. The proof showed that `OffscreenMap` had to consider requests of up to
one byte more than the memory, which are refused like any other that does not fit
(with a base of 0 this is the only size that always is).

`InputQueue_proofs` holds for any queue size of at least two slots and any number of
screens, keys and motions. `KeysFollow` (`KeysInOrder`): the queue implements the
safety of `KeyStream`, with signals between any two steps of the reader and in the
middle of its copy of an event. `IInv`: the slot the reader is using is still in use,
and what it has copied of a key is still the event there, since only motions
are merged and only into the last slot (`Reading`, `LastIs`); and the numbers of the
keys in the queue count on, without a gap, from the one the reader holds to the last
accepted (`Counted`). `TimesFollow` (`TimesOrdered`): the times in the queue never
decrease, in any state, if the clock never goes back by `Jump` or more
(`SmallSteps`, a hypothesis of the theorem and the code's own condition: at
`mieq.c:122` it corrects a time that steps back by less than ten seconds and lets a
larger step through).

`Screen_proofs` holds for every amount of memory, ring size, set of frame and pixmap
sizes under `ScreenAssumption`: `RingIsServed` (`RingServed`), `DownIsReleased`
(`DownReleased`) and `TerminalRespected` (`OnOwnTerminal`). What is hard here is
that a routine is a list of calls, between which much is temporarily untrue. `Phase`
says, for every list of calls that can be left (`Drawing`, `Awaiting`, `Serving`,
`Swapping`, `Emptied`, `Dark`, `Reviving`, `Leaving`, `Starting`), what is true of the
screen while it is: for instance, in `Emptied` nobody holds memory any more although the screen
is still enabled and the driver still has its record of the ring. It also says why it is harmless that
`KdOffscreenSwapOut` takes the ring away before the driver is told: the chip is only
ever busy while a drawing request is in progress, since its hooks wait.
`UploadsWithoutSwitching` shows under which conditions the property that
`screen_video` finds violated does hold: if the screen is never disabled
(`~Switching`) and all frames have the same size, the video port writes to its own
memory only. So the two causes named in section 5 are the only ones.

`RequestReader_proofs` holds for any number of clients, any sizes of buffers and any
requests under `ReaderAssumption`. There are three invariants, each of which needs
the one before.

- `Safe`, for `BuffersHaveOneUser` (`BuffersOwned`). A buffer is taken from the client
  that has nothing left in it, from the free ones, or allocated; that there is
  always one for whoever needs it is a pigeonhole argument on
  cardinalities (`BufferLeft`). It needs no assumption on what clients send, and
  holds also for requests that are put back wrongly.
- `Framed`, for `RequestsStayFramed` (`RequestsFramed`): what a client has left in its
  buffer, followed by what is in its socket, is the stream of its requests from the
  next one on, and the request being executed lies at `bufptr`, without the length of a
  Big Request. "Is the stream of" would be a recursive definition and its proofs
  inductions; `IsStream` says instead that there is a function from requests to the
  places where they begin (`Marks`), and a step only shifts, shortens or extends it.
- `Noticed`, for `BufferedStaysNoticed` (`BufferedNoticed`): whoever has a full request
  left is in `ClientsWithInput`, unless its turn goes on. The reader, its look ahead
  (`io.c:428`) and `ResetCurrentRequest` test for a full request in three different
  ways; `NextNoticed` says that the second finds what the first would, and
  `NoticedReset` the same of the third.

`BuffersHaveOneUser` and `RequestsStayFramed` have no hypothesis. What the second says of
a client ends where the code loses track of its stream (`lost`), and there are two ways
to get there, both in section 5: a Big Request shorter than its header, and a Big Request
that is put back. `RequestReader_short.cfg` and `RequestReader_reset.cfg` show that each
does break `AlwaysFramed`, the property without the exceptions. That there is no third
way is what the theorem says: plain requests may be put back as often as one
likes, and whatever becomes of one stream, the others are not affected.
`BufferedStaysNoticed` speaks of the same clients and assumes, besides, that only Big
Requests have a length of 0 (`0 \notin Plain`); `RequestReader_zero.cfg` shows that
it has to.

`ServerGrab_proofs` also has the proofs about `Timers` (`TimersSpec`), for any timers,
any even range of the clock, any delays and any steps by which the clock is set.

- `ListStaysLinked`: types, and that the list has no record twice and none that was
  freed. Not inductive alone: a timer that `TimerSet` calls (because its delay is half
  the range or more) is linked without a search for it when its callback asks for
  another call, and must not be in the list then (`Pending`).
- `ListStaysSound`: `ListSound`, that is, the list is sorted too.
- `NeverEarly`: `NotEarly`. Until the clock is set, what is left of a delay is the
  time to its end or nothing (`OwedIs`), which makes a timer that looks due really
  due, provided that no expiry time is passed by half the range before it is looked
  at. That is `PassInv`: a pass calls each timer once at most, since one that is set
  meanwhile expires later, so it lasts no longer than the callbacks of all timers.

The last two assume that all delays are less than half the range; a longer one is called
at once (section 5). `NeverEarly` assumes a little more of the constants, for which the
code relies on the range being 50 days: that the callbacks of all timers together,
and a delay, take less than half the range (`ShortCallbacks`). `ListStaysSound` has a
hypothesis about the course of time instead, that the expiry times in the
list always lie within half the range (`CloseTogether`), since the comparison of
times is not transitive without it. It does not follow from the constants: how late a
timer may get is not bounded by the code, as `CheckAllTimers` starts over for as long
as callbacks take longer than the delays they ask for, and the sleep is then computed
from a time read before. It holds in every state of `Timers.cfg`, as TLC shows if it
is added to it as an invariant.

Only model-checked: liveness (`AllReceived`, `ServerReturns`, `SwapOutEnds`,
`KeysTaken`, `ReaderReturns`, `SpriteCatchesUp`, `TimerRuns`, `SleepEnds`,
`LeaveGranted`), which is out of the prover's reach. Every other property of a run
that passes has a theorem. Where a proof needs induction over a list, it takes the
least counterexample (`WFMin`) instead.

## 5. Where code and comments disagree

One of these is a run of the project, `screen_video`. The others marked with a
configuration can be shown by giving that file to TLC, which finds the
property in it violated; they are not part of what is checked regularly.

- `glamo-video.c:104`: `GLAMOVideoSave` does nothing. After a swap-out the port keeps
  the record of an area that was given back: the next frame is written to memory
  that may be the ring's or a pixmap's, and the record may be freed twice.
- `glamo-video.c:353`: a frame larger than the one before is written past the end
  of the buffer (the comparison is the wrong way round). `Screen_frame.cfg`.
- `glamo-cmdq.c:425`: `GLAMOCMDQInit` starts the chip at offset 0 and leaves
  `ring_write`, the "index of write ptr in ring" (`glamo.h:241`), where it was before
  the screen was disabled. After a resume the next dispatch leads the chip through up
  to a whole ring of cleared words. Nothing is lost if the chip passes over them,
  which `GLAMOCMDQResetCP` assumes without saying so. `GlamoCmdq_resume.cfg`.
- `koffscreen.c:171`: an allocation that needs to "kick out existing users to make
  space" (line 115) dereferences `begin`, which is null there; the area chosen is
  `best`. `Offscreen_eviction.cfg`.
- `koffscreen.c:49`: the assertion of the debugging check
  `prev->offset + prev->size == area->offset` does not hold for padded areas.
  `Offscreen_validate.cfg`; `Tiled` is what does hold.
- `kasync.c:353`: "Only need to stall for copyarea/copyplane". A fill with a tile
  also reads: when the destination is in system memory and the tile in video
  memory, fb reads the tile without waiting. With the Glamo nothing is queued then;
  with drivers whose Done hooks do not wait the old content is used.
  `Kaa_tiles.cfg`.
- `mieq.c:85`: `mieqEnqueue` "must be reentrant with ProcessInputEvents"; a motion
  that comes between the copy of the event at the head and the advance of the head
  is merged into the slot just copied and lost, and a click after it is delivered
  at the old position. `InputQueue_reentrant.cfg`; `KeysInOrder` shows that keys are
  never lost that way, and `SpriteCatchesUp` that the displayed pointer recovers.
- `mieq.c:159`: "screen switching can only occur on motion events"; a key queued
  before a client warps the pointer to another screen is consumed as a switch.
  `InputQueue_switch.cfg`.
- `WaitFor.c:439`: "If time has rewound, re-run every affected timer", but the
  test is made for the first timer of the list only, and is not made if that one was
  set after the clock was. `Timers_rewind.cfg`; `TimerRuns` holds all the same, later.
- `WaitFor.c:508`: a delay of half the range of the clock (25 days) or more is taken
  for one that is over; `TimerSet` calls the callback at once.
- `kinput.c:1531`: a press held back by a signal that comes after the block handler
  and before `select` waits until something else happens. `Emulation_wakeup.cfg`;
  `SleepEnds` is what holds.
- `kinput.c:843`: a key drops the press of button 1 that was held back (the table
  says noop), against the comment at line 704. `Emulation_key.cfg`; `NoStuckButton`
  holds with keys too.
- `connection.c:1150`: a client that listens during a grab (the grabbing one, or an
  impervious one) and goes to sleep is woken by the end of the grab, since
  `SavedAllClients` still has it. `connection.c:1236`: a client that became
  impervious after it slept, and pervious again, is in neither set after the grab.
  `dispatch.c:1188`: when the next of those that wait for the grab is killed before
  it takes it, the hand-over is lost for the others. The first two are why
  `GrabExclusive` and `HeardWhenFree` speak of sleepers and of everybody only as long
  as no client has used XTestGrabControl (`controlled`).
- `io.c:592`: a Big Request that is put back is read again one word shorter, since
  `req_len` has lost the length's own word. `RequestReader_reset.cfg`.
- `io.c:288`: the length of a Big Request is taken as it is. A length of 1 is less than
  its header: what is taken for the next request begins with the length's own word. A
  length of 0 leaves `req_len` at 2^32 - 1 (line 473). Neither "returns one request",
  with its length "in client->req_len" (line 166). `RequestReader_short.cfg`.
- `io.c:433`: a request whose length is 0, without Big Requests, in the buffer behind
  another is not noticed until the client sends more. `RequestReader_zero.cfg`.

## 6. Plan, and what is not modelled

In this order:

1. `Resources`: the hash table of resources and deletion by callbacks that add or
   free others; the close-down modes of clients.
2. Synchronous grabs (freeze, thaw, replay) and SYNC counters and triggers, which
   compose with `ServerGrab` (sleepers) and `Timers`.
3. Output buffers of `os/io.c`, the smart scheduler's slices, with liveness.

Left out of the parts that are modelled:

- of the video port, `GLAMOReputImage`: the adaptor's flags lack
  VIDEO_OVERLAID_IMAGES, so it is never reached; clips, attributes and formats;
- of the screen, AbortDDX, DPMS, cursors, colormaps and other cards; a RandR change
  that fails leaves the screen disabled until the terminal is switched away and
  back, which `OnOwnTerminal` allows for (`failed`); a signal for a switch that
  arrives just before `select` waits for the next event;
- of the timers, the flags of `TimerSet`, which no call of the server uses;
- of the clients, authorization, `InsertFakeRequest`, byte swapping and output; Big
  Requests of 2^30 words and more, whose length in bytes wraps around (`io.c:295`); what
  is taken for a length by mistake is one number, `Noise`;
- of the scheduler, priorities: any client that is ready may be chosen.

Not planned: rasterisers, protocol formatting, keyboard tables (data, no
history); EXA, damage, composite, RandR core (generic extensions the Glamo server
uses unchanged); the other servers of the tree.
