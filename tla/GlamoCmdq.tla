----------------------------- MODULE GlamoCmdq -----------------------------
(***************************************************************************)
(* The Glamo command queue (hw/kdrive/glamo/glamo-cmdq.[ch]) as the KAA    *)
(* drawing routines (glamo-draw.c), the Xv frame display (glamo-funcs.c)   *)
(* and the KAA sync flag (hw/kdrive/src/kaa.c) drive it, together with the *)
(* chip's command processor, which runs concurrently.                      *)
(*                                                                         *)
(* Drawing routines write packets to a cache in system memory.  A dispatch *)
(* copies the cache word by word to a ring in video memory, publishes the  *)
(* ring's new write address and waits until the command processor has      *)
(* drained the ring.  If a dispatch would reach the end of the ring, the   *)
(* ring and the command processor are first reset to offset 0.             *)
(*                                                                         *)
(* The screen is disabled and enabled again any number of times.  Enabling *)
(* clears the ring and sets the command processor to offset 0, but leaves  *)
(* the driver's write index where it was: the next dispatch leads the chip *)
(* through cleared words before it comes to the new ones.                  *)
(*                                                                         *)
(* A command word is represented by its number in emission order, so the   *)
(* cache, which always holds the words emitted last, is just `used`.       *)
(* Everything is counted in 16-bit words; the code's `used` and `size` are *)
(* bytes, twice as much.                                                   *)
(***************************************************************************)
EXTENDS Naturals, Sequences

CONSTANTS
    RingCount,  \* ring_len / 2: words in the ring, and in the cache
    SolidWords, \* BEGIN_CMDQ argument of GLAMOSolid (26)
    CopyWords,  \* BEGIN_CMDQ argument of GLAMOCopy (34)
    FrameWords, \* BEGIN_CMDQ argument of GLAMOISPDisplayYUVPlanarFrame (38)
    MaxWords,   \* bound on the number of words ever emitted
    Timeouts    \* whether the .5 s and 5 s time limits may expire

Kinds == {"solid", "copy", "frame"}

Words == [solid |-> SolidWords, copy |-> CopyWords, frame |-> FrameWords]

\* No whole number of equal packets fills the ring: 131072 = 2^17 words is a
\* multiple of neither 26 nor 34.  The write address has 18 bits of bytes.
ASSUME CmdqAssumption ==
    /\ RingCount \in Nat /\ RingCount <= 131072
    /\ MaxWords \in Nat
    /\ Timeouts \in BOOLEAN
    /\ \A k \in Kinds : Words[k] \in Nat \ {0} /\ Words[k] < RingCount
    /\ \A k \in Kinds : \A n \in 1..RingCount : n * Words[k] # RingCount

VARIABLES
    emitted,    \* words written to the cache since the start (history)
    used,       \* cmd_queue_cache->used: words now in the cache
    copied,     \* words of the running dispatch already in the ring
    ring,       \* ring_addr: the ring in video memory, 0 for a cleared word
    ring_write, \* the driver's write index
    blank,      \* ring_write when the ring was last cleared (history): the
                \* driver has written no slot below it since
    needSync,   \* card->needSync
    op,         \* the operation prepared and not yet done
    prog,       \* the routine the server is in
    pc,         \* index of the call of Program[prog] being made
    phase,      \* how far that call has got
    hwRead,     \* READ_ADDR register, as a word index
    hwWrite,    \* WRITE_ADDR register, as a word index
    busy,       \* the 2D or ISP engine is executing
    executed,   \* the last command word the chip has fetched (history)
    exact       \* no reset after a timeout has happened (history)

cpuVars == <<op, prog, pc, phase>>
cacheVars == <<emitted, used, copied>>
ringVars == <<ring, ring_write, blank>>
hwVars == <<hwRead, hwWrite, busy, executed, exact>>
vars == <<cacheVars, ringVars, needSync, cpuVars, hwVars>>

(***************************************************************************)
(* The routines, as the sequences of calls they make that matter here.     *)
(* disable is GLAMODrawDisable and enable GLAMODrawEnable; while the       *)
(* server is down nothing draws.                                           *)
(***************************************************************************)
Program == [
    emit   |-> <<"BeginCmdq">>,
    solid  |-> <<"WaitSync", "Flush", "MarkSync">>,
    copy   |-> <<"WaitSync", "MarkSync", "Flush", "WaitSync", "MarkSync">>,
    frame  |-> <<"BeginCmdq", "EngineWait">>,
    block  |-> <<"WaitSync", "Flush">>,
    touch  |-> <<"WaitSync", "Touch">>,
    disable |-> <<"WaitSync", "EngineWait">>,
    enable  |-> <<"Setup", "EngineWait">> ]

\* Where the server is once a routine has returned.
Back(p) ==
    CASE p = "emit" -> "session" [] p = "disable" -> "down" [] OTHER -> "server"

Programs == DOMAIN Program
Phases == {"call", "clear", "reset", "copy", "drain", "idle"}

InCall(c) == prog \in Programs /\ Program[prog][pc] = c

\* The call returns: the next one follows, or the routine itself returns.
Return ==
    /\ phase' = "call"
    /\ IF pc < Len(Program[prog])
         THEN /\ pc' = pc + 1
              /\ UNCHANGED <<prog, op>>
         ELSE /\ pc' = 1
              /\ prog' = Back(prog)
              /\ op' = IF prog = "emit" THEN op ELSE "none"

Start(p) ==
    /\ prog' = p
    /\ pc' = 1
    /\ phase' = "call"

Drained == hwRead = hwWrite
Idle == Drained /\ ~busy

\* The two halves of the write address, as the dispatch writes them, and
\* the word index the command processor makes of them.
WriteAddr(w) == [h |-> (w \div 32768) % 8, l |-> (2 * w) % 65536]
AddrWord(a) == (65536 * a.h + a.l) \div 2

ClearedRing == [i \in 0..RingCount-1 |-> 0]

\* GLAMOScreenInit: the driver's record is zeroed, the screen not yet enabled.
Init ==
    /\ emitted = 0 /\ used = 0 /\ copied = 0
    /\ ring = ClearedRing
    /\ ring_write = 0 /\ blank = 0
    /\ needSync = FALSE
    /\ op = "none" /\ prog = "down" /\ pc = 1 /\ phase = "call"
    /\ hwRead = 0 /\ hwWrite = 0 /\ busy = FALSE
    /\ executed = 0 /\ exact = TRUE

(***************************************************************************)
(* The server asks for drawing.                                            *)
(***************************************************************************)
\* Broken: no kaaMarkSync, so GLAMODoneSolid does not wait.
PrepareNoMark(k) ==
    /\ prog = "server"
    /\ op' = k
    /\ prog' = "session"
    /\ UNCHANGED <<cacheVars, ringVars, needSync, pc, phase, hwVars>>

\* GLAMOPrepareSolid and GLAMOPrepareCopy.
Prepare(k) ==
    /\ prog = "server"
    /\ op' = k
    /\ needSync' = TRUE
    /\ prog' = "session"
    /\ UNCHANGED <<cacheVars, ringVars, pc, phase, hwVars>>

\* One rectangle: GLAMOSolid or GLAMOCopy.
Draw ==
    /\ prog = "session"
    /\ emitted + Words[op] <= MaxWords
    /\ Start("emit")
    /\ UNCHANGED <<cacheVars, ringVars, needSync, op, hwVars>>

\* GLAMODoneSolid or GLAMODoneCopy, and the kaaMarkSync of its caller.
Done ==
    /\ prog = "session"
    /\ Start(op)
    /\ UNCHANGED <<cacheVars, ringVars, needSync, op, hwVars>>

\* GLAMOISPDisplayYUVPlanarFrame.
DisplayFrame ==
    /\ prog = "server"
    /\ emitted + FrameWords <= MaxWords
    /\ op' = "frame"
    /\ Start("frame")
    /\ UNCHANGED <<cacheVars, ringVars, needSync, hwVars>>

\* GLAMOBlockHandler, and a software fallback (KdCheck*, kaaPixmapSave): sync
\* first, then the processor itself reads and writes video memory.
Block ==
    /\ prog = "server"
    /\ Start("block")
    /\ UNCHANGED <<cacheVars, ringVars, needSync, op, hwVars>>

Fallback ==
    /\ prog = "server"
    /\ Start("touch")
    /\ UNCHANGED <<cacheVars, ringVars, needSync, op, hwVars>>

\* GLAMODrawDisable and GLAMODrawEnable, on a terminal switch or RandR.
Disable ==
    /\ prog = "server"
    /\ Start("disable")
    /\ UNCHANGED <<cacheVars, ringVars, needSync, op, hwVars>>

Enable ==
    /\ prog = "down"
    /\ Start("enable")
    /\ UNCHANGED <<cacheVars, ringVars, needSync, op, hwVars>>

(***************************************************************************)
(* GLAMODispatchCMDQCache, called at the head of a flush.                  *)
(***************************************************************************)
HitsRingEndLate == used + ring_write > RingCount \* broken: off by one
HitsRingEnd == used + ring_write >= RingCount

\* Broken: starts over without resetting the command processor.
BeginDispatchNoReset ==
    /\ copied' = 0
    /\ ring_write' = IF HitsRingEnd THEN 0 ELSE ring_write
    /\ phase' = "copy"
    /\ UNCHANGED <<emitted, used, ring, blank, needSync, op, prog, pc, hwVars>>

BeginDispatch ==
    /\ copied' = 0
    /\ IF HitsRingEnd
         THEN \* GLAMOCMDQResetCP begins by clearing the ring
              /\ ring' = ClearedRing
              /\ phase' = "clear"
         ELSE /\ phase' = "copy"
              /\ UNCHANGED ring
    /\ UNCHANGED <<emitted, used, ring_write, blank, needSync, op, prog, pc, hwVars>>

\* The driver's index the chip starts over with: GLAMODispatchCMDQCache
\* resets it after the reset, GLAMOCMDQInit does not.
IndexAfterReset == IF InCall("Setup") THEN ring_write ELSE 0

\* Broken: a dispatch does not reset the write index either.
ResetCPKeepIndex ==
    /\ phase = "clear"
    /\ blank' = IndexAfterReset
    /\ hwRead' = 0
    /\ hwWrite' = 0
    /\ phase' = "reset"
    /\ UNCHANGED <<cacheVars, ring, ring_write, needSync, op, prog, pc, busy,
                   executed, exact>>

\* The rest of GLAMOCMDQResetCP, up to its wait.
ResetCP ==
    /\ phase = "clear"
    /\ ring_write' = IndexAfterReset
    /\ blank' = IndexAfterReset
    /\ hwRead' = 0
    /\ hwWrite' = 0
    /\ phase' = "reset"
    /\ UNCHANGED <<cacheVars, ring, needSync, op, prog, pc, busy, executed, exact>>

\* GLAMOCMDQResetCP returns to the dispatch, or to GLAMOCMDQCacheSetup.
AfterReset ==
    IF InCall("Setup") THEN Return ELSE phase' = "copy" /\ UNCHANGED <<op, prog, pc>>

ResetDone ==
    /\ phase = "reset"
    /\ Idle
    /\ AfterReset
    /\ UNCHANGED <<cacheVars, ringVars, needSync, hwVars>>

CopyWord ==
    /\ phase = "copy"
    /\ copied < used
    /\ ring' = [ring EXCEPT ![ring_write] = emitted - used + copied + 1]
    /\ ring_write' = IF ring_write + 1 >= RingCount THEN 0 ELSE ring_write + 1
    /\ copied' = copied + 1
    /\ UNCHANGED <<emitted, used, blank, needSync, cpuVars, hwVars>>

\* Broken: the chip is not told.
PublishNothing ==
    /\ phase = "copy"
    /\ copied = used
    /\ phase' = "drain"
    /\ UNCHANGED <<cacheVars, ringVars, needSync, op, prog, pc, hwVars>>

Publish ==
    /\ phase = "copy"
    /\ copied = used
    /\ hwWrite' = AddrWord(WriteAddr(ring_write))
    /\ phase' = "drain"
    /\ UNCHANGED <<cacheVars, ringVars, needSync, op, prog, pc, hwRead, busy, executed, exact>>

\* The end of GLAMOFlushCMDQCache: the cache is empty again, and whoever
\* asked for the flush goes on.
AfterFlush ==
    \/ InCall("BeginCmdq") /\ phase' = "call" /\ UNCHANGED <<op, prog, pc>>
    \/ InCall("Flush") /\ Return
    \/ /\ InCall("WaitSync") \/ InCall("EngineWait")
       /\ phase' = "idle" /\ UNCHANGED <<op, prog, pc>>

\* Broken: buf->used is not reset.
FlushDoneNotEmptied ==
    /\ AfterFlush
    /\ copied' = 0
    /\ UNCHANGED <<emitted, used>>

FlushDone ==
    /\ AfterFlush
    /\ used' = 0
    /\ copied' = 0
    /\ UNCHANGED emitted

DispatchDone ==
    /\ phase = "drain"
    /\ Drained
    /\ FlushDone
    /\ UNCHANGED <<ringVars, needSync, hwVars>>

(***************************************************************************)
(* The calls.                                                              *)
(***************************************************************************)
FitsWithoutPacket == used <= RingCount \* broken: ignores the packet's own size
Fits == used + Words[op] <= RingCount

\* BEGIN_CMDQ: flush first if the packet does not fit ...
FlushForRoom ==
    /\ phase = "call" /\ InCall("BeginCmdq")
    /\ ~Fits
    /\ BeginDispatch

\* ... and END_CMDQ, once the packet has been written.
EmitPacket ==
    /\ phase = "call" /\ InCall("BeginCmdq")
    /\ Fits
    /\ used' = used + Words[op]
    /\ emitted' = emitted + Words[op]
    /\ Return
    /\ UNCHANGED <<copied, ringVars, needSync, hwVars>>

\* GLAMOFlushCMDQCache(glamos, 1): dispatches even an empty cache.
Flush ==
    /\ phase = "call" /\ InCall("Flush")
    /\ BeginDispatch

MarkSync ==
    /\ phase = "call" /\ InCall("MarkSync")
    /\ needSync' = TRUE
    /\ Return
    /\ UNCHANGED <<cacheVars, ringVars, hwVars>>

\* kaaWaitSync when there is nothing to wait for.
WaitSyncSkip ==
    /\ phase = "call" /\ InCall("WaitSync")
    /\ ~needSync
    /\ Return
    /\ UNCHANGED <<cacheVars, ringVars, needSync, hwVars>>

Waiting == InCall("EngineWait") \/ (InCall("WaitSync") /\ needSync)

\* GLAMOEngineWait flushes a cache that is not empty and then polls.
WaitFlush ==
    /\ phase = "call" /\ Waiting
    /\ used # 0
    /\ BeginDispatch

WaitPoll ==
    /\ phase = "call" /\ Waiting
    /\ used = 0
    /\ phase' = "idle"
    /\ UNCHANGED <<cacheVars, ringVars, needSync, op, prog, pc, hwVars>>

EndWait ==
    /\ needSync' = (needSync /\ ~InCall("WaitSync"))
    /\ Return
    /\ UNCHANGED <<cacheVars, ringVars>>

WaitDone ==
    /\ phase = "idle"
    /\ Idle
    /\ EndWait
    /\ UNCHANGED hwVars

\* GLAMOCMDQCacheSetup: a new, empty cache, and a reset that begins by
\* clearing the ring.
Setup ==
    /\ phase = "call" /\ InCall("Setup")
    /\ used' = 0
    /\ ring' = ClearedRing
    /\ phase' = "clear"
    /\ UNCHANGED <<emitted, copied, ring_write, blank, needSync, op, prog, pc, hwVars>>

\* The processor's own access to video memory.
Touch ==
    /\ phase = "call" /\ InCall("Touch")
    /\ Return
    /\ UNCHANGED <<cacheVars, ringVars, needSync, hwVars>>

(***************************************************************************)
(* The time limits.  The engines are reset: whatever executed is dropped,  *)
(* and the command processor either keeps its addresses or clears them.    *)
(***************************************************************************)
EngineReset ==
    /\ Timeouts
    /\ exact' = FALSE
    /\ busy' = FALSE
    /\ UNCHANGED executed

KeptOrCleared ==
    \/ UNCHANGED <<hwRead, hwWrite>>
    \/ hwRead' = 0 /\ hwWrite' = 0

\* .5 s passed in the copy loop.  The write address is published all the same.
CopyTimeout ==
    /\ phase = "copy"
    /\ EngineReset
    /\ hwRead' \in {hwRead, 0}
    /\ hwWrite' = AddrWord(WriteAddr(ring_write))
    /\ phase' = "drain"
    /\ UNCHANGED <<cacheVars, ringVars, needSync, op, prog, pc>>

ResetTimeout ==
    /\ phase = "reset"
    /\ EngineReset
    /\ KeptOrCleared
    /\ AfterReset
    /\ UNCHANGED <<cacheVars, ringVars, needSync>>

DrainNoTimeout == phase = "drain" /\ UNCHANGED vars \* broken: polls for ever

DrainTimeout ==
    /\ phase = "drain"
    /\ EngineReset
    /\ KeptOrCleared
    /\ FlushDone
    /\ UNCHANGED <<ringVars, needSync>>

WaitTimeout ==
    /\ phase = "idle"
    /\ EngineReset
    /\ KeptOrCleared
    /\ EndWait

(***************************************************************************)
(* The chip.  It passes over a cleared word, which starts no engine: the   *)
(* driver relies on it when it clears the ring (glamo-cmdq.c:397).         *)
(***************************************************************************)
Fetch ==
    /\ hwRead # hwWrite
    /\ hwRead' = (hwRead + 1) % RingCount
    /\ executed' = IF exact /\ ring[hwRead] # 0 THEN ring[hwRead] ELSE executed
    /\ busy' = (busy \/ ring[hwRead] # 0)
    /\ UNCHANGED <<cacheVars, ringVars, needSync, cpuVars, hwWrite, exact>>

Finish ==
    /\ busy
    /\ busy' = FALSE
    /\ UNCHANGED <<cacheVars, ringVars, needSync, cpuVars, hwRead, hwWrite, executed, exact>>

Request ==
    \/ \E k \in {"solid", "copy"} : Prepare(k)
    \/ DisplayFrame \/ Block \/ Fallback
    \/ Disable \/ Enable

Timeout == CopyTimeout \/ ResetTimeout \/ DrainTimeout \/ WaitTimeout

Progress ==
    \/ FlushForRoom \/ EmitPacket \/ Flush \/ MarkSync \/ Touch \/ Setup
    \/ WaitSyncSkip \/ WaitFlush \/ WaitPoll \/ WaitDone
    \/ ResetCP \/ ResetDone \/ CopyWord \/ Publish \/ DispatchDone

Hardware == Fetch \/ Finish

Next == Request \/ Draw \/ Done \/ Progress \/ Timeout \/ Hardware

Spec == Init /\ [][Next]_vars

(***************************************************************************)
(* Fairness.  The server runs on, a drawing request has finitely many      *)
(* rectangles, and a time limit that is still being waited for expires.    *)
(* Only the second specification trusts the chip.                          *)
(***************************************************************************)
ServerFairness == WF_vars(Progress \/ Timeout) /\ WF_vars(Done)
ServerSpec == Spec /\ ServerFairness
FairSpec == ServerSpec /\ WF_vars(Fetch) /\ WF_vars(Finish)

-----------------------------------------------------------------------------
(***************************************************************************)
(* Properties.                                                             *)
(***************************************************************************)
Unfetched == {i \in 0..RingCount-1 : hwRead <= i /\ i < hwWrite}

TypeOK ==
    /\ emitted \in Nat /\ used \in 0..RingCount /\ copied \in 0..used
    /\ ring \in [0..RingCount-1 -> Nat]
    /\ ring_write \in 0..RingCount-1 /\ blank \in 0..ring_write
    /\ needSync \in BOOLEAN
    /\ op \in Kinds \cup {"none"}
    /\ prog \in Programs \cup {"server", "session", "down"}
    /\ pc \in 1..5
    /\ phase \in Phases
    /\ hwRead \in 0..RingCount-1 /\ hwWrite \in 0..RingCount-1
    /\ busy \in BOOLEAN /\ executed \in Nat /\ exact \in BOOLEAN

\* The copy loop of GLAMODispatchCMDQCache never takes its "wrapped over
\* ring_write" branch: what is left of the batch always fits below the end of
\* the ring, also after timeouts, so a full batch is never published as an
\* address equal to the one the command processor already has.
RingNeverWraps ==
    phase \in {"reset", "copy"} => ring_write + (used - copied) < RingCount

\* Where the processor may touch video memory without looking at needSync
\* (GLAMOUploadToScreen, KdOffscreenFree on a destroyed pixmap) or just after
\* kaaWaitSync, and while the screen is disabled and the memory not the
\* server's, the cache is empty, the ring drained and the engine idle.
VideoMemoryQuiet ==
    exact /\ (prog \in {"server", "down"} \/ InCall("Touch")) => Idle /\ used = 0

\* The cleared slots the command processor may be led through are those below
\* the write index at which the screen was last enabled, which GLAMOCMDQInit
\* does not reset (none once a dispatch has started over at offset 0, which
\* resets it).  Any other slot ahead of it holds a word, except while
\* GLAMOCMDQResetCP clears the ring it is about to reset, and then only if a
\* wait was given up before.
NoBlankAhead ==
    \A i \in Unfetched : ring[i] # 0 \/ i < blank \/ (phase = "clear" /\ ~exact)

\* "Index of write ptr in ring" (glamo.h:241): while nothing is queued the
\* driver's index is the chip's.  It is not between the moment the screen is
\* enabled again and the next dispatch.
WritePtrIsIndex == exact /\ prog = "server" => hwWrite = ring_write

\* A slot still to be fetched is never overwritten by the copy loop, also if
\* the dispatch before gave up waiting for the ring to drain.
UnfetchedKept ==
    [][\A i \in Unfetched : ring'[i] = ring[i] \/ phase' = "clear"]_vars

\* Every word reaches the command processor exactly once and in order until
\* the first reset: the abstract stream.
CS == INSTANCE CmdStream
StreamSpec == CS!SafeSpec

\* Every word reaches it eventually, if the chip works.
AllReceived == CS!AllReceived

\* A dead chip cannot hang the server: every routine returns, enabling and
\* disabling the screen among them.
ServerReturns == prog \notin {"server", "down"} ~> prog \in {"server", "down"}
=============================================================================
