-------------------------- MODULE GlamoCmdq_proofs --------------------------
(***************************************************************************)
(* Proofs about the Glamo command queue, for every ring size and packet    *)
(* size allowed by CmdqAssumption.                                         *)
(*                                                                         *)
(* The inductive invariant says where in its program the server can be,    *)
(* when the cache may hold words and how many, and, until the first reset  *)
(* after a timeout, which words lie between the command processor's read   *)
(* address and the driver's write index.                                   *)
(***************************************************************************)
EXTENDS GlamoCmdq, TLAPS

\* The operation in progress is the one the running routine belongs to.
ControlInv ==
    /\ prog \in {"server", "block", "touch", "down", "disable", "enable"} => op = "none"
    /\ prog \in {"session", "emit"} => op \in {"solid", "copy"}
    /\ prog \in {"solid", "copy", "frame"} => op = prog
    /\ prog \in {"server", "session", "emit", "down"} => pc = 1
    /\ prog \in {"frame", "block", "touch", "disable", "enable"} => pc <= 2
    /\ prog = "solid" => pc <= 3
    /\ prog \in {"server", "session", "down"} => phase = "call"
    /\ prog \in {"touch", "disable"} => phase \in {"call", "idle"}
    /\ prog = "enable" /\ pc = 1 => phase \in {"call", "clear", "reset"}
    /\ phase = "idle" => \/ prog \in {"frame", "disable", "enable"} /\ pc = 2
                         \/ prog \in {"solid", "block", "touch", "disable"} /\ pc = 1
                         \/ prog = "copy" /\ pc \in {1, 4}

WholePackets(u, o) == o # "none" => \E k \in 0..RingCount : u = k * Words[o]

\* The cache holds whole packets of the operation in progress, and none once
\* a routine has flushed it.
CacheInv ==
    /\ used <= emitted
    /\ op = "none" => used = 0
    /\ WholePackets(used, op)
    /\ phase = "idle" => used = 0
    /\ prog = "frame" /\ pc = 1 => used = 0
    /\ prog = "solid" /\ pc > 2 => used = 0
    /\ prog = "copy" /\ pc > 3 => used = 0

\* The addresses are ordered: the ring never wraps between two resets.
RingInv ==
    /\ RingNeverWraps
    /\ phase \in {"call", "clear", "reset", "idle"} => copied = 0
    /\ hwRead <= hwWrite /\ hwWrite <= ring_write
    /\ phase = "clear" => \A i \in 0..RingCount-1 : ring[i] = 0

\* Where the words the chip has still to fetch begin: it may first have to
\* pass over slots that were cleared below the driver's index.
Base == IF hwRead < blank THEN blank ELSE hwRead

\* Outside the copy loop and the drain wait nothing is on its way, and what
\* is on its way is the right words in the right order.
StreamInv ==
    exact =>
      /\ phase # "drain" => hwRead = hwWrite /\ ring_write = Base + copied
      /\ phase = "drain" => hwWrite = ring_write /\ copied = used
      /\ executed + (ring_write - Base) + (used - copied) = emitted
      /\ \A i \in 0..RingCount-1 :
            Base <= i /\ i < ring_write => ring[i] = executed + 1 + (i - Base)
      /\ \A i \in 0..RingCount-1 : hwRead <= i /\ i < blank => ring[i] = 0

\* needSync stays set until the wait of GLAMODoneSolid or GLAMODoneCopy.
SyncInv ==
    \/ prog \in {"session", "emit"}
    \/ prog \in {"solid", "copy"} /\ pc = 1
    => needSync

\* Routines other than drawing find the engine idle, and leave it so: all
\* that is left to fetch are cleared words.
QuietInv ==
    exact /\ (\/ prog \in {"server", "block", "touch", "down", "disable", "enable"}
              \/ prog \in {"solid", "copy"} /\ pc > 1)
    => ~busy /\ used = 0 /\ ring_write = Base

IInv ==
    /\ TypeOK
    /\ ControlInv
    /\ CacheInv
    /\ RingInv
    /\ StreamInv
    /\ SyncInv
    /\ QuietInv

-----------------------------------------------------------------------------
\* The programs, spelled out.
LEMMA ProgramSet ==
    Programs = {"emit", "solid", "copy", "frame", "block", "touch", "disable", "enable"}
BY DEF Programs, Program

LEMMA ProgramLengths ==
    /\ Len(Program["emit"]) = 1 /\ Len(Program["solid"]) = 3
    /\ Len(Program["copy"]) = 5 /\ Len(Program["frame"]) = 2
    /\ Len(Program["block"]) = 2 /\ Len(Program["touch"]) = 2
    /\ Len(Program["disable"]) = 2 /\ Len(Program["enable"]) = 2
BY DEF Program

\* Where each call can be made from.
LEMMA CallFacts ==
    ASSUME TypeOK, ControlInv
    PROVE  /\ InCall("BeginCmdq") => prog \in {"emit", "frame"} /\ pc = 1
           /\ InCall("EngineWait") => prog \in {"frame", "disable", "enable"} /\ pc = 2
           /\ InCall("Flush") => \/ prog \in {"solid", "block"} /\ pc = 2
                                 \/ prog = "copy" /\ pc = 3
           /\ InCall("MarkSync") => \/ prog = "solid" /\ pc = 3
                                    \/ prog = "copy" /\ pc \in {2, 5}
           /\ InCall("WaitSync") => \/ prog \in {"solid", "block", "touch", "disable"}
                                       /\ pc = 1
                                    \/ prog = "copy" /\ pc \in {1, 4}
           /\ InCall("Touch") => prog = "touch" /\ pc = 2
           /\ InCall("Setup") <=> prog = "enable" /\ pc = 1
<1>1. prog \notin Programs => \A c : ~InCall(c)
  BY DEF InCall
<1>2. CASE prog \in {"emit", "frame"}
  BY <1>2, ProgramSet DEF TypeOK, ControlInv, InCall, Program
<1>3. CASE prog \in {"block", "touch"}
  BY <1>3, ProgramSet DEF TypeOK, ControlInv, InCall, Program
<1>4. CASE prog = "solid"
  BY <1>4, ProgramSet DEF TypeOK, ControlInv, InCall, Program
<1>5. CASE prog = "copy"
  <2>1. pc \in 1..5 /\ prog \in Programs
    BY <1>5, ProgramSet DEF TypeOK
  <2>2. Program[prog] = <<"WaitSync", "MarkSync", "Flush", "WaitSync", "MarkSync">>
    BY <1>5 DEF Program
  <2> QED  BY <1>5, <2>1, <2>2 DEF InCall
<1>6. CASE prog \in {"disable", "enable"}
  BY <1>6, ProgramSet DEF TypeOK, ControlInv, InCall, Program
<1> QED  BY <1>1, <1>2, <1>3, <1>4, <1>5, <1>6, ProgramSet

\* Where a call returns to.
LEMMA ReturnFacts ==
    ASSUME TypeOK, ControlInv, prog \in Programs, Return
    PROVE  /\ phase' = "call" /\ pc' \in 1..5
           /\ prog' \in Programs \cup {"server", "session", "down"}
           /\ op' = op \/ (op' = "none" /\ prog' \in {"server", "down"})
           /\ prog = "emit" => prog' = "session" /\ pc' = 1 /\ op' = op
           /\ \/ prog = "solid" /\ pc < 3
              \/ prog = "copy" /\ pc < 5
              \/ prog \in {"frame", "block", "touch", "disable", "enable"} /\ pc = 1
              => prog' = prog /\ pc' = pc + 1 /\ op' = op
           /\ \/ prog = "solid" /\ pc = 3
              \/ prog = "copy" /\ pc = 5
              \/ prog \in {"frame", "block", "touch", "enable"} /\ pc = 2
              => prog' = "server" /\ pc' = 1 /\ op' = "none"
           /\ prog = "disable" /\ pc = 2 => prog' = "down" /\ pc' = 1 /\ op' = "none"
<1> DEFINE n == Len(Program[prog])
<1>1. prog \in {"emit", "solid", "copy", "frame", "block", "touch", "disable", "enable"}
  BY ProgramSet
<1>2. /\ prog = "emit" => n = 1
      /\ prog = "solid" => n = 3
      /\ prog = "copy" => n = 5
      /\ prog \in {"frame", "block", "touch", "disable", "enable"} => n = 2
  BY ProgramLengths
<1>3. pc \in 1..n
  <2>1. pc \in 1..5 /\ n \in Nat
    BY <1>1, <1>2 DEF TypeOK
  <2> HIDE DEF n
  <2> QED  BY <1>1, <1>2, <2>1 DEF ControlInv
<1>4. /\ phase' = "call"
      /\ pc < n => pc' = pc + 1 /\ prog' = prog /\ op' = op
      /\ pc >= n /\ prog = "emit" => pc' = 1 /\ prog' = "session" /\ op' = op
      /\ pc >= n /\ prog = "disable" => pc' = 1 /\ prog' = "down" /\ op' = "none"
      /\ pc >= n /\ prog \notin {"emit", "disable"} => pc' = 1 /\ prog' = "server" /\ op' = "none"
  <2> HIDE DEF n
  <2>1. n \in Nat
    BY <1>1, <1>2
  <2> QED  BY <1>3, <2>1 DEF Return, Back, n
<1> HIDE DEF n
<1> QED  BY <1>1, <1>2, <1>3, <1>4, ProgramSet

\* Packets are not empty and each fits in the ring.
LEMMA RingPositive ==
    /\ RingCount \in Nat /\ RingCount > 0
    /\ 0 \in 0..RingCount-1
    /\ \A n \in Nat : 0 \in 0..n
BY CmdqAssumption DEF Kinds

LEMMA WordsFacts ==
    ASSUME NEW k \in Kinds
    PROVE  /\ Words[k] \in Nat /\ 0 < Words[k] /\ Words[k] < RingCount
           /\ \A n \in 1..RingCount : n * Words[k] # RingCount
BY CmdqAssumption

LEMMA EmptyWhole ==
    ASSUME NEW o \in Kinds \cup {"none"}
    PROVE  WholePackets(0, o)
<1> SUFFICES ASSUME o \in Kinds
             PROVE  \E k \in 0..RingCount : 0 = k * Words[o]
  BY DEF WholePackets
<1>1. Words[o] \in Nat
  BY WordsFacts
<1>2. 0 = 0 * Words[o] /\ 0 \in 0..RingCount
  BY <1>1, RingPositive
<1> QED  BY <1>2

LEMMA PacketAdded ==
    ASSUME NEW o \in Kinds, NEW u \in Nat, WholePackets(u, o), u + Words[o] <= RingCount
    PROVE  WholePackets(u + Words[o], o)
<1> DEFINE w == Words[o]
<1>1. w \in Nat /\ w > 0
  BY WordsFacts
<1>2. PICK k \in 0..RingCount : u = k * w
  BY DEF WholePackets, Kinds
<1>0. u + w <= RingCount
  OBVIOUS
<1> HIDE DEF w
<1>3. u + w = (k + 1) * w /\ k + 1 <= u + w /\ k + 1 \in Nat
  BY <1>1, <1>2
<1>4. \E j \in 0..RingCount : u + w = j * w
  <2> DEFINE j == k + 1
  <2>1. j \in 0..RingCount
    BY <1>0, <1>1, <1>3, RingPositive
  <2>2. u + w = j * w
    BY <1>3
  <2> HIDE DEF j
  <2> QED  BY <2>1, <2>2
<1> QED  BY <1>4 DEF WholePackets, w

\* A cache of whole packets is never exactly as long as the ring.
LEMMA NeverFull ==
    ASSUME TypeOK, CacheInv
    PROVE  used < RingCount
<1>1. CASE op = "none"
  BY <1>1, RingPositive DEF CacheInv
<1>2. CASE op # "none"
  <2>1. op \in Kinds
    BY <1>2 DEF TypeOK
  <2>2. PICK k \in 0..RingCount : used = k * Words[op]
    BY <1>2 DEF CacheInv, WholePackets
  <2>3. CASE k = 0
    BY <2>1, <2>2, <2>3, WordsFacts, RingPositive
  <2>4. CASE k # 0
    <3>1. k * Words[op] # RingCount
      BY <2>1, <2>4, WordsFacts
    <3> QED  BY <2>2, <3>1, RingPositive DEF TypeOK
  <2> QED  BY <2>3, <2>4
<1> QED  BY <1>1, <1>2

\* The address the command processor reads back is the one written: the
\* split over two 16-bit registers loses no bit of an 18-bit byte address.
LEMMA AddrExact ==
    ASSUME NEW w \in 0..RingCount-1
    PROVE  AddrWord(WriteAddr(w)) = w
<1>1. w \in Nat /\ w < 131072
  BY CmdqAssumption
<1>2. (65536 * ((w \div 32768) % 8) + ((2 * w) % 65536)) \div 2 = w
  BY <1>1
<1> QED  BY <1>2 DEF AddrWord, WriteAddr

\* The initial states satisfy the invariant.
LEMMA InitInv == Init => IInv
<1> SUFFICES ASSUME Init PROVE IInv
  OBVIOUS
<1> USE DEF Init
<1>1. TypeOK
  <2>1. ring \in [0..RingCount-1 -> Nat] 
    BY RingPositive DEF ClearedRing
  <2>2. /\ used \in 0..RingCount /\ copied \in 0..used /\ ring_write \in 0..RingCount-1
        /\ hwRead \in 0..RingCount-1 /\ hwWrite \in 0..RingCount-1
        /\ blank \in 0..ring_write
    BY RingPositive
  <2>3. /\ emitted \in Nat /\ executed \in Nat /\ pc \in 1..5 /\ phase \in Phases
        /\ op \in Kinds \cup {"none"} /\ prog \in Programs \cup {"server", "session", "down"}
    BY DEF Phases
  <2>4. needSync \in BOOLEAN /\ busy \in BOOLEAN /\ exact \in BOOLEAN
    BY Zenon
  <2> QED  BY ONLY <2>1, <2>2, <2>3, <2>4 DEF TypeOK
<1>2. ControlInv /\ CacheInv /\ SyncInv
  BY EmptyWhole DEF ControlInv, CacheInv, SyncInv, Kinds
<1>3. RingInv /\ StreamInv /\ QuietInv
  BY RingPositive DEF RingInv, RingNeverWraps, StreamInv, Base, QuietInv, Idle, Drained
<1> QED  BY <1>1, <1>2, <1>3 DEF IInv

\* The server enters a routine.
LEMMA RequestStep ==
    ASSUME IInv, \/ \E k \in {"solid", "copy"} : Prepare(k)
           \/ Draw
           \/ Done
           \/ DisplayFrame
           \/ Block
           \/ Fallback
           \/ Disable
           \/ Enable
    PROVE  IInv'
<1> USE DEF IInv, vars, cacheVars, ringVars, cpuVars, hwVars
<1>1. CASE \E k \in {"solid", "copy"} : Prepare(k)
  <2> USE <1>1 DEF Prepare
  <2>1. TypeOK'
    BY RingPositive, ProgramSet DEF TypeOK, Phases, Kinds
  <2>2. ControlInv'
    BY DEF ControlInv, TypeOK
  <2>3. CacheInv'
    BY EmptyWhole DEF CacheInv, TypeOK, ControlInv, Kinds
  <2>4. RingInv'
    BY RingPositive DEF RingInv, RingNeverWraps, TypeOK, ControlInv
  <2>5. StreamInv'
    BY DEF StreamInv, Base, RingInv, ControlInv, TypeOK
  <2>6. SyncInv'
    BY DEF SyncInv, ControlInv, TypeOK
  <2>7. QuietInv'
    BY DEF QuietInv, Idle, Drained, StreamInv, Base, RingInv, ControlInv, TypeOK
  <2> QED  BY <2>1, <2>2, <2>3, <2>4, <2>5, <2>6, <2>7
<1>2. CASE Draw
  <2> USE <1>2 DEF Draw, Start
  <2>1. TypeOK'
    BY RingPositive, ProgramSet DEF TypeOK, Phases, Kinds
  <2>2. ControlInv'
    BY DEF ControlInv, TypeOK
  <2>3. CacheInv'
    BY EmptyWhole DEF CacheInv, TypeOK, ControlInv, Kinds
  <2>4. RingInv'
    BY RingPositive DEF RingInv, RingNeverWraps, TypeOK, ControlInv
  <2>5. StreamInv'
    BY DEF StreamInv, Base, RingInv, ControlInv, TypeOK
  <2>6. SyncInv'
    BY DEF SyncInv, ControlInv, TypeOK
  <2>7. QuietInv'
    BY DEF QuietInv, Idle, Drained, StreamInv, Base, RingInv, ControlInv, TypeOK
  <2> QED  BY <2>1, <2>2, <2>3, <2>4, <2>5, <2>6, <2>7
<1>3. CASE Done
  <2> USE <1>3 DEF Done, Start
  <2>1. TypeOK'
    BY ProgramSet DEF TypeOK, ControlInv, Start
  <2>2. ControlInv'
    BY DEF ControlInv, TypeOK
  <2>3. CacheInv'
    BY EmptyWhole DEF CacheInv, TypeOK, ControlInv, Kinds
  <2>4. RingInv'
    BY RingPositive DEF RingInv, RingNeverWraps, TypeOK, ControlInv
  <2>5. StreamInv'
    BY DEF StreamInv, Base, RingInv, ControlInv, TypeOK
  <2>6. SyncInv'
    BY DEF SyncInv, ControlInv, TypeOK
  <2>7. QuietInv'
    BY DEF QuietInv, Idle, Drained, StreamInv, Base, RingInv, ControlInv, TypeOK
  <2> QED  BY <2>1, <2>2, <2>3, <2>4, <2>5, <2>6, <2>7
<1>4. CASE DisplayFrame
  <2> USE <1>4 DEF DisplayFrame, Start
  <2>1. TypeOK'
    BY RingPositive, ProgramSet DEF TypeOK, Phases, Kinds
  <2>2. ControlInv'
    BY DEF ControlInv, TypeOK
  <2>3. CacheInv'
    BY EmptyWhole DEF CacheInv, TypeOK, ControlInv, Kinds
  <2>4. RingInv'
    BY RingPositive DEF RingInv, RingNeverWraps, TypeOK, ControlInv
  <2>5. StreamInv'
    BY DEF StreamInv, Base, RingInv, ControlInv, TypeOK
  <2>6. SyncInv'
    BY DEF SyncInv, ControlInv, TypeOK
  <2>7. QuietInv'
    BY DEF QuietInv, Idle, Drained, StreamInv, Base, RingInv, ControlInv, TypeOK
  <2> QED  BY <2>1, <2>2, <2>3, <2>4, <2>5, <2>6, <2>7
<1>5. CASE Block
  <2> USE <1>5 DEF Block, Start
  <2>1. TypeOK'
    BY RingPositive, ProgramSet DEF TypeOK, Phases, Kinds
  <2>2. ControlInv'
    BY DEF ControlInv, TypeOK
  <2>3. CacheInv'
    BY EmptyWhole DEF CacheInv, TypeOK, ControlInv, Kinds
  <2>4. RingInv'
    BY RingPositive DEF RingInv, RingNeverWraps, TypeOK, ControlInv
  <2>5. StreamInv'
    BY DEF StreamInv, Base, RingInv, ControlInv, TypeOK
  <2>6. SyncInv'
    BY DEF SyncInv, ControlInv, TypeOK
  <2>7. QuietInv'
    BY DEF QuietInv, Idle, Drained, StreamInv, Base, RingInv, ControlInv, TypeOK
  <2> QED  BY <2>1, <2>2, <2>3, <2>4, <2>5, <2>6, <2>7
<1>6. CASE Fallback
  <2> USE <1>6 DEF Fallback, Start
  <2>1. TypeOK'
    BY RingPositive, ProgramSet DEF TypeOK, Phases, Kinds
  <2>2. ControlInv'
    BY DEF ControlInv, TypeOK
  <2>3. CacheInv'
    BY EmptyWhole DEF CacheInv, TypeOK, ControlInv, Kinds
  <2>4. RingInv'
    BY RingPositive DEF RingInv, RingNeverWraps, TypeOK, ControlInv
  <2>5. StreamInv'
    BY DEF StreamInv, Base, RingInv, ControlInv, TypeOK
  <2>6. SyncInv'
    BY DEF SyncInv, ControlInv, TypeOK
  <2>7. QuietInv'
    BY DEF QuietInv, Idle, Drained, StreamInv, Base, RingInv, ControlInv, TypeOK
  <2> QED  BY <2>1, <2>2, <2>3, <2>4, <2>5, <2>6, <2>7
<1>7. CASE Disable
  <2> USE <1>7 DEF Disable, Start
  <2>1. TypeOK'
    BY RingPositive, ProgramSet DEF TypeOK, Phases, Kinds
  <2>2. ControlInv'
    BY DEF ControlInv, TypeOK
  <2>3. CacheInv'
    BY EmptyWhole DEF CacheInv, TypeOK, ControlInv, Kinds
  <2>4. RingInv'
    BY RingPositive DEF RingInv, RingNeverWraps, TypeOK, ControlInv
  <2>5. StreamInv'
    BY DEF StreamInv, Base, RingInv, ControlInv, TypeOK
  <2>6. SyncInv'
    BY DEF SyncInv, ControlInv, TypeOK
  <2>7. QuietInv'
    BY DEF QuietInv, Idle, Drained, StreamInv, Base, RingInv, ControlInv, TypeOK
  <2> QED  BY <2>1, <2>2, <2>3, <2>4, <2>5, <2>6, <2>7
<1>8. CASE Enable
  <2> USE <1>8 DEF Enable, Start
  <2>1. TypeOK'
    BY RingPositive, ProgramSet DEF TypeOK, Phases, Kinds
  <2>2. ControlInv'
    BY DEF ControlInv, TypeOK
  <2>3. CacheInv'
    BY EmptyWhole DEF CacheInv, TypeOK, ControlInv, Kinds
  <2>4. RingInv'
    BY RingPositive DEF RingInv, RingNeverWraps, TypeOK, ControlInv
  <2>5. StreamInv'
    BY DEF StreamInv, Base, RingInv, ControlInv, TypeOK
  <2>6. SyncInv'
    BY DEF SyncInv, ControlInv, TypeOK
  <2>7. QuietInv'
    BY DEF QuietInv, Idle, Drained, StreamInv, Base, RingInv, ControlInv, TypeOK
  <2> QED  BY <2>1, <2>2, <2>3, <2>4, <2>5, <2>6, <2>7
<1> QED  BY <1>1, <1>2, <1>3, <1>4, <1>5, <1>6, <1>7, <1>8

\* A dispatch is begun, clears the ring, copies, publishes.
LEMMA DispatchStep ==
    ASSUME IInv, \/ FlushForRoom \/ Flush \/ WaitFlush
           \/ ResetCP
           \/ ResetDone
           \/ CopyWord
           \/ Publish
    PROVE  IInv'
<1> USE DEF IInv, vars, cacheVars, ringVars, cpuVars, hwVars
<1>1. CASE FlushForRoom \/ Flush \/ WaitFlush
  <2> USE <1>1 DEF FlushForRoom, Flush, WaitFlush, BeginDispatch, Waiting, HitsRingEnd
  <2>1. TypeOK'
    <3>a. ring' = ring \/ ring' = ClearedRing
      OBVIOUS
    <3>b. ClearedRing \in [0..RingCount-1 -> Nat]
      BY DEF ClearedRing
    <3>1. ring' \in [0..RingCount-1 -> Nat]
      BY ONLY TypeOK, <3>a, <3>b DEF TypeOK
    <3>2. copied' \in 0..used'
      BY RingPositive DEF TypeOK
    <3>3. phase' \in Phases
      BY DEF TypeOK, Phases
    <3> QED  BY <3>1, <3>2, <3>3 DEF TypeOK
  <2>2. ControlInv'
    BY CallFacts DEF ControlInv, CacheInv, TypeOK
  <2>3. CacheInv'
    BY EmptyWhole, CallFacts DEF CacheInv, TypeOK, ControlInv, Kinds
  <2>4. RingInv'
    <3>1. phase' = "clear" => \A i \in 0..RingCount-1 : ring'[i] = 0
      BY DEF ClearedRing
    <3>2. phase' \in {"clear", "copy"} /\ copied' = 0 /\ used' = used
      OBVIOUS
    <3>3. /\ hwRead' = hwRead /\ hwWrite' = hwWrite /\ ring_write' = ring_write
          /\ phase' = "copy" => ~(used + ring_write >= RingCount)
      OBVIOUS
    <3>4. phase' = "copy" => ring_write + (used - 0) < RingCount
      BY ONLY <3>3, TypeOK, RingPositive DEF TypeOK
    <3> QED  BY <3>1, <3>2, <3>3, <3>4 DEF RingInv, RingNeverWraps
  <2>5. StreamInv'
    <3>1. phase = "call" /\ copied = 0 /\ phase' \in {"clear", "copy"} /\ copied' = 0
      BY DEF RingInv
    <3> SUFFICES ASSUME exact PROVE StreamInv'
      BY DEF StreamInv
    <3>2. ring_write = Base /\ Base' = Base
      <4>0. hwRead' = hwRead /\ blank' = blank
        OBVIOUS
      <4>1. Base \in Nat /\ Base' = Base
        BY ONLY <4>0, TypeOK, RingPositive DEF Base, TypeOK
      <4>2. ring_write = Base + copied
        BY <3>1 DEF StreamInv
      <4> QED  BY <3>1, <4>1, <4>2
    <3>3. \A i \in 0..RingCount-1 : hwRead <= i /\ i < blank => ring'[i] = 0
      BY DEF StreamInv, ClearedRing
    <3>4. \A i \in 0..RingCount-1 : ~(Base <= i /\ i < ring_write)
      BY <3>2, RingPositive DEF TypeOK
    <3> QED  BY <3>1, <3>2, <3>3, <3>4 DEF StreamInv, TypeOK
  <2>6. SyncInv'
    BY CallFacts DEF SyncInv, ControlInv, TypeOK
  <2>7. QuietInv'
    BY CallFacts DEF QuietInv, Idle, Drained, StreamInv, Base, RingInv, ControlInv, TypeOK
  <2> QED  BY <2>1, <2>2, <2>3, <2>4, <2>5, <2>6, <2>7
<1>2. CASE ResetCP
  <2> USE <1>2 DEF ResetCP
  <2>a. \/ InCall("Setup") /\ ring_write' = ring_write /\ blank' = ring_write
        \/ ~InCall("Setup") /\ ring_write' = 0 /\ blank' = 0
    BY DEF IndexAfterReset
  <2>b. ring_write' \in 0..RingCount-1 /\ blank' = ring_write'
    BY <2>a, RingPositive DEF TypeOK
  <2>1. TypeOK'
    BY <2>b, RingPositive, ProgramSet DEF TypeOK, Phases, Kinds
  <2>2. ControlInv'
    BY CallFacts DEF ControlInv, TypeOK
  <2>3. CacheInv'
    BY EmptyWhole DEF CacheInv, TypeOK, ControlInv, Kinds
  <2>4. RingInv'
    <3>1. InCall("Setup") => used = 0
      BY CallFacts DEF ControlInv, CacheInv
    <3>2. copied = 0 /\ used < RingCount /\ used \in Nat
      BY NeverFull DEF RingInv, TypeOK
    <3>3. ring_write' + (used - copied) < RingCount
      BY <2>a, <2>b, <3>1, <3>2, RingPositive
    <3> QED  BY <2>b, <3>2, <3>3, RingPositive DEF RingInv, RingNeverWraps
  <2>5. StreamInv'
    <3> SUFFICES ASSUME exact PROVE StreamInv'
      BY DEF StreamInv
    <3>1. copied = 0 /\ ring_write = Base /\ executed + used = emitted
      BY DEF RingInv, StreamInv, Base, TypeOK
    <3>2. Base' = ring_write'
      BY <2>b DEF Base
    <3>3. \A i \in 0..RingCount-1 : ring'[i] = 0
      BY DEF RingInv
    <3>4. executed' + (ring_write' - Base') + (used' - copied') = emitted'
      BY <2>b, <3>1, <3>2, RingPositive DEF TypeOK
    <3>5. ring_write' = Base' + copied'
      BY <2>b, <3>1, <3>2, RingPositive
    <3>6. \A i \in 0..RingCount-1 : ~(Base' <= i /\ i < ring_write')
      BY <2>b, <3>2, RingPositive
    <3> QED  BY <3>3, <3>4, <3>5, <3>6 DEF StreamInv
  <2>6. SyncInv'
    BY DEF SyncInv, ControlInv, TypeOK
  <2>7. QuietInv'
    BY <2>b DEF QuietInv, Base
  <2> QED  BY <2>1, <2>2, <2>3, <2>4, <2>5, <2>6, <2>7
<1>3. CASE ResetDone
  <2> USE <1>3 DEF ResetDone, Idle, Drained, AfterReset
  <2>1. TypeOK'
    BY RingPositive, ProgramSet, CallFacts, ReturnFacts DEF TypeOK, Phases, Kinds
  <2>2. ControlInv'
    BY CallFacts, ReturnFacts, ProgramSet DEF ControlInv, TypeOK
  <2>3. CacheInv'
    BY EmptyWhole, CallFacts, ReturnFacts, ProgramSet DEF CacheInv, TypeOK, ControlInv, Kinds
  <2>4. RingInv'
    BY RingPositive, CallFacts, ReturnFacts, ProgramSet DEF RingInv, RingNeverWraps, TypeOK, ControlInv
  <2>5. StreamInv'
    BY CallFacts, ReturnFacts, ProgramSet DEF StreamInv, Base, RingInv, ControlInv, TypeOK
  <2>6. SyncInv'
    BY CallFacts, ReturnFacts, ProgramSet DEF SyncInv, ControlInv, TypeOK
  <2>7. QuietInv'
    BY CallFacts, ReturnFacts, ProgramSet DEF QuietInv, Base, ControlInv, TypeOK
  <2> QED  BY <2>1, <2>2, <2>3, <2>4, <2>5, <2>6, <2>7
<1>4. CASE CopyWord
  <2> USE <1>4 DEF CopyWord
  <2>a. ring_write + 1 < RingCount
    BY RingPositive DEF RingInv, RingNeverWraps, TypeOK
  <2>b. ring_write' = ring_write + 1
    BY <2>a, RingPositive DEF TypeOK
  <2>1. TypeOK'
    <3>1. emitted - used + copied + 1 \in Nat
      BY DEF TypeOK, CacheInv
    <3>2. ring' \in [0..RingCount-1 -> Nat]
      BY <3>1 DEF TypeOK
    <3>3. /\ ring_write' \in 0..RingCount-1 /\ blank' \in 0..ring_write'
          /\ copied' \in 0..used'
      BY <2>a, <2>b, RingPositive DEF TypeOK
    <3> QED  BY <3>2, <3>3 DEF TypeOK
  <2>2. ControlInv'
    BY DEF ControlInv, TypeOK
  <2>3. CacheInv'
    BY EmptyWhole DEF CacheInv, TypeOK, ControlInv, Kinds
  <2>4. RingInv'
    BY RingPositive, <2>a, <2>b DEF RingInv, RingNeverWraps, TypeOK, ControlInv
  <2>5. StreamInv'
    <3> SUFFICES ASSUME exact PROVE StreamInv'
      BY DEF StreamInv, Base
    <3>0. Base \in Nat /\ Base' = Base /\ blank <= Base
      BY RingPositive DEF Base, TypeOK
    <3>1. hwRead = hwWrite /\ ring_write = Base + copied
      BY DEF StreamInv
    <3>2. emitted - used + copied + 1 = executed + 1 + (ring_write - Base)
      BY <3>0 DEF StreamInv, TypeOK
    <3>3. executed' + (ring_write' - Base') + (used' - copied') = emitted'
      BY <2>b, <3>0, RingPositive DEF StreamInv, TypeOK
    <3>4. ASSUME NEW i \in 0..RingCount-1, Base <= i, i < ring_write + 1
          PROVE  ring'[i] = executed + 1 + (i - Base)
      <4>1. CASE i = ring_write
        BY <4>1, <3>2 DEF TypeOK
      <4>2. CASE i # ring_write
        <5>1. i < ring_write
          BY <4>2, <3>4 DEF TypeOK
        <5> QED  BY <4>2, <5>1, <3>4 DEF StreamInv, Base, TypeOK
      <4> QED  BY <4>1, <4>2
    <3>5. phase' = "copy" /\ ring_write' = Base' + copied' /\ hwRead' = hwWrite'
      BY <2>b, <3>0, <3>1, RingPositive DEF TypeOK
    <3>6. \A i \in 0..RingCount-1 : hwRead <= i /\ i < blank => ring'[i] = 0
      BY RingPositive DEF StreamInv, TypeOK
    <3> QED  BY <2>b, <3>0, <3>3, <3>4, <3>5, <3>6 DEF StreamInv
  <2>6. SyncInv'
    BY DEF SyncInv, ControlInv, TypeOK
  <2>7. QuietInv'
    BY DEF QuietInv, Idle, Drained, StreamInv, Base, RingInv, ControlInv, TypeOK
  <2> QED  BY <2>1, <2>2, <2>3, <2>4, <2>5, <2>6, <2>7
<1>5. CASE Publish
  <2> USE <1>5 DEF Publish
  <2>a. AddrWord(WriteAddr(ring_write)) = ring_write
    BY AddrExact DEF TypeOK
  <2>1. TypeOK'
    BY <2>a DEF TypeOK, Phases
  <2>2. ControlInv'
    BY <2>a DEF ControlInv, TypeOK
  <2>3. CacheInv'
    BY EmptyWhole, <2>a DEF CacheInv, TypeOK, ControlInv, Kinds
  <2>4. RingInv'
    BY RingPositive, <2>a DEF RingInv, RingNeverWraps, TypeOK, ControlInv
  <2>5. StreamInv'
    BY <2>a DEF StreamInv, Base, RingInv, ControlInv, TypeOK
  <2>6. SyncInv'
    BY <2>a DEF SyncInv, ControlInv, TypeOK
  <2>7. QuietInv'
    BY <2>a DEF QuietInv, Idle, Drained, StreamInv, Base, RingInv, ControlInv, TypeOK
  <2> QED  BY <2>1, <2>2, <2>3, <2>4, <2>5, <2>6, <2>7
<1> QED  BY <1>1, <1>2, <1>3, <1>4, <1>5

\* A call that does not dispatch is made.
LEMMA CallStep ==
    ASSUME IInv, \/ EmitPacket
           \/ MarkSync
           \/ WaitSyncSkip
           \/ Touch
           \/ WaitPoll
           \/ Setup
    PROVE  IInv'
<1> USE DEF IInv, vars, cacheVars, ringVars, cpuVars, hwVars
<1>1. CASE EmitPacket
  <2> USE <1>1 DEF EmitPacket, Fits
  <2>a. prog \in Programs
    BY ProgramSet DEF InCall, ControlInv, TypeOK
  <2>b. Return
    OBVIOUS
  <2>c. op \in Kinds /\ Words[op] \in Nat
    BY CallFacts, WordsFacts DEF ControlInv, Kinds
  <2>1. TypeOK'
    <3>1. used' \in 0..RingCount' /\ emitted' \in Nat /\ copied' \in 0..used'
      <4>1. used' = used + Words[op] /\ used' <= RingCount /\ emitted' = emitted + Words[op]
        BY <2>c, RingPositive DEF TypeOK
      <4>2. copied' = copied
        OBVIOUS
      <4>3. used \in Nat /\ RingCount \in Nat /\ copied \in 0..used /\ emitted \in Nat
        BY ONLY TypeOK, RingPositive DEF TypeOK
      <4> QED  BY ONLY <2>c, <4>1, <4>2, <4>3
    <3>2. op' \in Kinds \cup {"none"} /\ phase' \in Phases
      BY <2>a, <2>b, <2>c, ReturnFacts DEF Phases
    <3> QED  BY <2>a, <2>b, <3>1, <3>2, ReturnFacts DEF TypeOK
  <2>2. ControlInv'
    BY <2>a, <2>b, CallFacts, ReturnFacts DEF ControlInv, TypeOK
  <2>3. CacheInv'
    <3>1. WholePackets(used', op)
      BY <2>c, PacketAdded DEF CacheInv, TypeOK
    <3>2. op' = op /\ phase' = "call" /\ (prog' = "frame" => pc' = 2) /\ prog' \notin {"solid", "copy"}
      BY <2>a, <2>b, CallFacts, ReturnFacts
    <3>3. op # "none" /\ used' <= emitted'
      BY <2>c DEF Kinds, CacheInv, TypeOK
    <3> QED  BY <3>1, <3>2, <3>3 DEF CacheInv
  <2>4. RingInv'
    BY RingPositive, <2>a, <2>b, CallFacts, ReturnFacts DEF RingInv, RingNeverWraps, TypeOK, ControlInv
  <2>5. StreamInv'
    <3>1. phase' = "call" /\ phase = "call" /\ copied = 0
      BY <2>a, <2>b, ReturnFacts DEF RingInv
    <3>2. exact => executed + (ring_write - Base) + (used' - copied') = emitted'
      <4> SUFFICES ASSUME exact
                   PROVE  executed + (ring_write - Base) + (used' - copied') = emitted'
        OBVIOUS
      <4>1. /\ emitted \in Nat /\ used \in Nat /\ copied \in Nat /\ executed \in Nat
            /\ ring_write \in Nat /\ Base \in Nat
            /\ emitted' \in Nat /\ used' \in Nat /\ copied' \in Nat
        BY <2>c, RingPositive DEF Base, TypeOK
      <4>2. executed + (ring_write - Base) + (used - copied) = emitted
        BY DEF StreamInv, Base
      <4>3. /\ emitted' = emitted + Words[op] /\ used' = used + Words[op]
            /\ copied' = copied /\ Words[op] \in Nat
        BY <2>c
      <4> QED  BY ONLY <4>1, <4>2, <4>3
    <3> QED  BY <3>1, <3>2 DEF StreamInv, Base
  <2>6. SyncInv'
    BY <2>a, <2>b, CallFacts, ReturnFacts DEF SyncInv, ControlInv, TypeOK
  <2>7. QuietInv'
    BY <2>a, <2>b, CallFacts, ReturnFacts DEF QuietInv, Idle, Drained, StreamInv, Base, RingInv, ControlInv, TypeOK
  <2> QED  BY <2>1, <2>2, <2>3, <2>4, <2>5, <2>6, <2>7
<1>2. CASE MarkSync
  <2> USE <1>2 DEF MarkSync
  <2>a. prog \in Programs
    BY ProgramSet DEF InCall, ControlInv, TypeOK
  <2>b. Return
    OBVIOUS
  <2>1. TypeOK'
    BY RingPositive, ProgramSet, <2>a, <2>b, CallFacts, ReturnFacts DEF TypeOK, Phases, Kinds
  <2>2. ControlInv'
    BY <2>a, <2>b, CallFacts, ReturnFacts DEF ControlInv, TypeOK
  <2>3. CacheInv'
    BY EmptyWhole, <2>a, <2>b, CallFacts, ReturnFacts DEF CacheInv, TypeOK, ControlInv, Kinds
  <2>4. RingInv'
    BY RingPositive, <2>a, <2>b, CallFacts, ReturnFacts DEF RingInv, RingNeverWraps, TypeOK, ControlInv
  <2>5. StreamInv'
    BY <2>a, <2>b, CallFacts, ReturnFacts DEF StreamInv, Base, RingInv, ControlInv, TypeOK
  <2>6. SyncInv'
    BY <2>a, <2>b, CallFacts, ReturnFacts DEF SyncInv, ControlInv, TypeOK
  <2>7. QuietInv'
    BY <2>a, <2>b, CallFacts, ReturnFacts DEF QuietInv, Idle, Drained, StreamInv, Base, RingInv, ControlInv, TypeOK
  <2> QED  BY <2>1, <2>2, <2>3, <2>4, <2>5, <2>6, <2>7
<1>3. CASE WaitSyncSkip
  <2> USE <1>3 DEF WaitSyncSkip
  <2>a. prog \in Programs
    BY ProgramSet DEF InCall, ControlInv, TypeOK
  <2>b. Return
    OBVIOUS
  <2>1. TypeOK'
    BY RingPositive, ProgramSet, <2>a, <2>b, CallFacts, ReturnFacts DEF TypeOK, Phases, Kinds
  <2>2. ControlInv'
    BY <2>a, <2>b, CallFacts, ReturnFacts DEF ControlInv, TypeOK
  <2>3. CacheInv'
    BY EmptyWhole, <2>a, <2>b, CallFacts, ReturnFacts DEF CacheInv, TypeOK, ControlInv, Kinds
  <2>4. RingInv'
    BY RingPositive, <2>a, <2>b, CallFacts, ReturnFacts DEF RingInv, RingNeverWraps, TypeOK, ControlInv
  <2>5. StreamInv'
    BY <2>a, <2>b, CallFacts, ReturnFacts DEF StreamInv, Base, RingInv, ControlInv, TypeOK
  <2>6. SyncInv'
    BY <2>a, <2>b, CallFacts, ReturnFacts DEF SyncInv, ControlInv, TypeOK
  <2>7. QuietInv'
    BY <2>a, <2>b, CallFacts, ReturnFacts DEF QuietInv, Base, Idle, Drained, SyncInv
  <2> QED  BY <2>1, <2>2, <2>3, <2>4, <2>5, <2>6, <2>7
<1>4. CASE Touch
  <2> USE <1>4 DEF Touch
  <2>a. prog \in Programs
    BY ProgramSet DEF InCall, ControlInv, TypeOK
  <2>b. Return
    OBVIOUS
  <2>1. TypeOK'
    BY RingPositive, ProgramSet, <2>a, <2>b, CallFacts, ReturnFacts DEF TypeOK, Phases, Kinds
  <2>2. ControlInv'
    BY <2>a, <2>b, CallFacts, ReturnFacts DEF ControlInv, TypeOK
  <2>3. CacheInv'
    BY EmptyWhole, <2>a, <2>b, CallFacts, ReturnFacts DEF CacheInv, TypeOK, ControlInv, Kinds
  <2>4. RingInv'
    BY RingPositive, <2>a, <2>b, CallFacts, ReturnFacts DEF RingInv, RingNeverWraps, TypeOK, ControlInv
  <2>5. StreamInv'
    BY <2>a, <2>b, CallFacts, ReturnFacts DEF StreamInv, Base, RingInv, ControlInv, TypeOK
  <2>6. SyncInv'
    BY <2>a, <2>b, CallFacts, ReturnFacts DEF SyncInv, ControlInv, TypeOK
  <2>7. QuietInv'
    BY <2>a, <2>b, CallFacts, ReturnFacts DEF QuietInv, Idle, Drained, StreamInv, Base, RingInv, ControlInv, TypeOK
  <2> QED  BY <2>1, <2>2, <2>3, <2>4, <2>5, <2>6, <2>7
<1>5. CASE WaitPoll
  <2> USE <1>5 DEF WaitPoll, Waiting
  <2>1. TypeOK'
    BY RingPositive, ProgramSet, CallFacts DEF TypeOK, Phases, Kinds
  <2>2. ControlInv'
    BY CallFacts DEF ControlInv, TypeOK
  <2>3. CacheInv'
    BY EmptyWhole, CallFacts DEF CacheInv, TypeOK, ControlInv, Kinds
  <2>4. RingInv'
    BY RingPositive, CallFacts DEF RingInv, RingNeverWraps, TypeOK, ControlInv
  <2>5. StreamInv'
    BY CallFacts DEF StreamInv, Base, RingInv, ControlInv, TypeOK
  <2>6. SyncInv'
    BY CallFacts DEF SyncInv, ControlInv, TypeOK
  <2>7. QuietInv'
    BY CallFacts DEF QuietInv, Idle, Drained, StreamInv, Base, RingInv, ControlInv, TypeOK
  <2> QED  BY <2>1, <2>2, <2>3, <2>4, <2>5, <2>6, <2>7
<1>6. CASE Setup
  <2> USE <1>6 DEF Setup
  <2>a. prog = "enable" /\ pc = 1 /\ used = 0 /\ copied = 0 /\ op = "none"
    BY CallFacts DEF ControlInv, CacheInv, RingInv
  <2>b. ClearedRing \in [0..RingCount-1 -> Nat] /\ \A i \in 0..RingCount-1 : ClearedRing[i] = 0
    BY DEF ClearedRing
  <2>1. TypeOK'
    BY <2>a, <2>b, RingPositive DEF TypeOK, Phases
  <2>2. ControlInv'
    BY <2>a DEF ControlInv, TypeOK
  <2>3. CacheInv'
    BY <2>a DEF CacheInv, WholePackets, TypeOK
  <2>4. RingInv'
    BY <2>a, <2>b, RingPositive DEF RingInv, RingNeverWraps, TypeOK
  <2>5. StreamInv'
    <3> SUFFICES ASSUME exact PROVE StreamInv'
      BY DEF StreamInv
    <3>1. ring_write = Base /\ Base' = Base /\ hwRead = hwWrite
      BY <2>a DEF StreamInv, Base, TypeOK
    <3>2. \A i \in 0..RingCount-1 : ~(Base <= i /\ i < ring_write)
      BY <3>1, RingPositive DEF TypeOK
    <3> QED  BY <2>a, <2>b, <3>1, <3>2 DEF StreamInv
  <2>6. SyncInv'
    BY <2>a DEF SyncInv
  <2>7. QuietInv'
    BY <2>a DEF QuietInv, Base
  <2> QED  BY <2>1, <2>2, <2>3, <2>4, <2>5, <2>6, <2>7
<1> QED  BY <1>1, <1>2, <1>3, <1>4, <1>5, <1>6

\* A dispatch or a wait ends, in time or by its time limit.
LEMMA EndStep ==
    ASSUME IInv, \/ DispatchDone
           \/ WaitDone
           \/ CopyTimeout
           \/ ResetTimeout
           \/ DrainTimeout
           \/ WaitTimeout
    PROVE  IInv'
<1> USE DEF IInv, vars, cacheVars, ringVars, cpuVars, hwVars
<1>1. CASE DispatchDone
  <2> USE <1>1 DEF DispatchDone, FlushDone, AfterFlush, Drained
  <2>1. TypeOK'
    BY RingPositive, ProgramSet, CallFacts, ReturnFacts DEF TypeOK, Phases, Kinds
  <2>2. ControlInv'
    BY CallFacts, ReturnFacts DEF ControlInv, TypeOK
  <2>3. CacheInv'
    BY EmptyWhole, CallFacts, ReturnFacts DEF CacheInv, TypeOK, ControlInv, Kinds
  <2>4. RingInv'
    BY RingPositive, CallFacts, ReturnFacts DEF RingInv, RingNeverWraps, TypeOK, ControlInv
  <2>5. StreamInv'
    BY CallFacts, ReturnFacts DEF StreamInv, Base, RingInv, ControlInv, TypeOK
  <2>6. SyncInv'
    BY CallFacts, ReturnFacts DEF SyncInv, ControlInv, TypeOK
  <2>7. QuietInv'
    BY CallFacts, ReturnFacts DEF QuietInv, Idle, Drained, StreamInv, Base, RingInv, ControlInv, TypeOK
  <2> QED  BY <2>1, <2>2, <2>3, <2>4, <2>5, <2>6, <2>7
<1>2. CASE WaitDone
  <2> USE <1>2 DEF WaitDone, EndWait, Idle, Drained
  <2>a. prog \in Programs
    BY ProgramSet DEF InCall, ControlInv, TypeOK
  <2>b. Return
    OBVIOUS
  <2>1. TypeOK'
    BY RingPositive, ProgramSet, <2>a, <2>b, CallFacts, ReturnFacts DEF TypeOK, Phases, Kinds
  <2>2. ControlInv'
    BY <2>a, <2>b, CallFacts, ReturnFacts DEF ControlInv, TypeOK
  <2>3. CacheInv'
    BY EmptyWhole, <2>a, <2>b, CallFacts, ReturnFacts DEF CacheInv, TypeOK, ControlInv, Kinds
  <2>4. RingInv'
    BY RingPositive, <2>a, <2>b, CallFacts, ReturnFacts DEF RingInv, RingNeverWraps, TypeOK, ControlInv
  <2>5. StreamInv'
    BY <2>a, <2>b, CallFacts, ReturnFacts DEF StreamInv, Base, RingInv, ControlInv, TypeOK
  <2>6. SyncInv'
    BY <2>a, <2>b, CallFacts, ReturnFacts DEF SyncInv, ControlInv, TypeOK
  <2>7. QuietInv'
    <3>1. exact => ring_write = Base
      <4>1. copied = 0 /\ phase = "idle"
        BY DEF RingInv
      <4>2. Base \in Nat
        BY RingPositive DEF Base, TypeOK
      <4> QED  BY <4>1, <4>2 DEF StreamInv
    <3>2. Base' = Base /\ used = 0
      BY DEF Base, CacheInv
    <3> QED  BY <3>1, <3>2 DEF QuietInv
  <2> QED  BY <2>1, <2>2, <2>3, <2>4, <2>5, <2>6, <2>7
<1>3. CASE CopyTimeout
  <2> USE <1>3 DEF CopyTimeout, EngineReset
  <2>a. AddrWord(WriteAddr(ring_write)) = ring_write
    BY AddrExact DEF TypeOK
  <2>1. TypeOK'
    BY <2>a, RingPositive DEF TypeOK, Phases
  <2>2. ControlInv'
    BY <2>a DEF ControlInv, TypeOK
  <2>3. CacheInv'
    BY EmptyWhole, <2>a DEF CacheInv, TypeOK, ControlInv, Kinds
  <2>4. RingInv'
    BY RingPositive, <2>a DEF RingInv, RingNeverWraps, TypeOK, ControlInv
  <2>5. StreamInv'
    BY <2>a DEF StreamInv, Base, RingInv, ControlInv, TypeOK
  <2>6. SyncInv'
    BY <2>a DEF SyncInv, ControlInv, TypeOK
  <2>7. QuietInv'
    BY <2>a DEF QuietInv, Idle, Drained, StreamInv, Base, RingInv, ControlInv, TypeOK
  <2> QED  BY <2>1, <2>2, <2>3, <2>4, <2>5, <2>6, <2>7
<1>4. CASE ResetTimeout
  <2> USE <1>4 DEF ResetTimeout, EngineReset, KeptOrCleared, AfterReset
  <2>1. TypeOK'
    <3>1. /\ hwRead' \in 0..RingCount-1 /\ hwWrite' \in 0..RingCount-1
          /\ busy' \in BOOLEAN /\ exact' \in BOOLEAN
      BY RingPositive DEF TypeOK
    <3>2. /\ prog' \in Programs \cup {"server", "session", "down"} /\ pc' \in 1..5
          /\ op' \in Kinds \cup {"none"} /\ phase' \in Phases
      BY CallFacts, ReturnFacts, ProgramSet DEF TypeOK, Phases
    <3> QED  BY <3>1, <3>2 DEF TypeOK
  <2>2. ControlInv'
    BY CallFacts, ReturnFacts, ProgramSet DEF ControlInv, TypeOK
  <2>3. CacheInv'
    BY EmptyWhole, CallFacts, ReturnFacts, ProgramSet DEF CacheInv, TypeOK, ControlInv, Kinds
  <2>4. RingInv'
    BY RingPositive, CallFacts, ReturnFacts, ProgramSet DEF RingInv, RingNeverWraps, TypeOK, ControlInv
  <2>5. StreamInv'
    BY DEF StreamInv
  <2>6. SyncInv'
    BY CallFacts, ReturnFacts, ProgramSet DEF SyncInv, ControlInv, TypeOK
  <2>7. QuietInv'
    BY DEF QuietInv
  <2> QED  BY <2>1, <2>2, <2>3, <2>4, <2>5, <2>6, <2>7
<1>5. CASE DrainTimeout
  <2> USE <1>5 DEF DrainTimeout, EngineReset, KeptOrCleared, FlushDone, AfterFlush
  <2>1. TypeOK'
    <3>1. used' \in 0..RingCount /\ copied' \in 0..used'
      BY RingPositive
    <3>2. /\ hwRead' \in 0..RingCount-1 /\ hwWrite' \in 0..RingCount-1
          /\ busy' \in BOOLEAN /\ exact' \in BOOLEAN
      BY RingPositive DEF TypeOK
    <3>3. /\ prog' \in Programs \cup {"server", "session", "down"} /\ pc' \in 1..5
          /\ op' \in Kinds \cup {"none"} /\ phase' \in Phases
      BY CallFacts, ReturnFacts, ProgramSet DEF TypeOK, Phases
    <3> QED  BY <3>1, <3>2, <3>3 DEF TypeOK
  <2>2. ControlInv'
    BY CallFacts, ReturnFacts DEF ControlInv, TypeOK
  <2>3. CacheInv'
    BY EmptyWhole, CallFacts, ReturnFacts DEF CacheInv, TypeOK, ControlInv, Kinds
  <2>4. RingInv'
    BY RingPositive, CallFacts, ReturnFacts DEF RingInv, RingNeverWraps, TypeOK, ControlInv
  <2>5. StreamInv'
    BY CallFacts, ReturnFacts DEF StreamInv, Base, RingInv, ControlInv, TypeOK
  <2>6. SyncInv'
    BY CallFacts, ReturnFacts DEF SyncInv, ControlInv, TypeOK
  <2>7. QuietInv'
    BY CallFacts, ReturnFacts DEF QuietInv, Idle, Drained, StreamInv, Base, RingInv, ControlInv, TypeOK
  <2> QED  BY <2>1, <2>2, <2>3, <2>4, <2>5, <2>6, <2>7
<1>6. CASE WaitTimeout
  <2> USE <1>6 DEF WaitTimeout, EngineReset, KeptOrCleared, EndWait
  <2>a. prog \in Programs
    BY ProgramSet DEF InCall, ControlInv, TypeOK
  <2>b. Return
    OBVIOUS
  <2>1. TypeOK'
    <3>1. /\ hwRead' \in 0..RingCount-1 /\ hwWrite' \in 0..RingCount-1
          /\ busy' \in BOOLEAN /\ exact' \in BOOLEAN
      BY RingPositive DEF TypeOK
    <3>2. /\ op' \in Kinds \cup {"none"} /\ phase' \in Phases
          /\ needSync' \in BOOLEAN
      BY <2>a, <2>b, ReturnFacts DEF TypeOK, Phases
    <3> QED  BY <2>a, <2>b, <3>1, <3>2, ReturnFacts DEF TypeOK
  <2>2. ControlInv'
    BY <2>a, <2>b, CallFacts, ReturnFacts DEF ControlInv, TypeOK
  <2>3. CacheInv'
    BY EmptyWhole, <2>a, <2>b, CallFacts, ReturnFacts DEF CacheInv, TypeOK, ControlInv, Kinds
  <2>4. RingInv'
    BY RingPositive, <2>a, <2>b, CallFacts, ReturnFacts DEF RingInv, RingNeverWraps, TypeOK, ControlInv
  <2>5. StreamInv'
    BY <2>a, <2>b, CallFacts, ReturnFacts DEF StreamInv, Base, RingInv, ControlInv, TypeOK
  <2>6. SyncInv'
    BY <2>a, <2>b, CallFacts, ReturnFacts DEF SyncInv, ControlInv, TypeOK
  <2>7. QuietInv'
    BY <2>a, <2>b, CallFacts, ReturnFacts DEF QuietInv, Idle, Drained, StreamInv, Base, RingInv, ControlInv, TypeOK
  <2> QED  BY <2>1, <2>2, <2>3, <2>4, <2>5, <2>6, <2>7
<1> QED  BY <1>1, <1>2, <1>3, <1>4, <1>5, <1>6

\* The chip fetches a word or finishes a command.
LEMMA ChipStep ==
    ASSUME IInv, \/ Fetch
           \/ Finish
    PROVE  IInv'
<1> USE DEF IInv, vars, cacheVars, ringVars, cpuVars, hwVars
<1>1. CASE Fetch
  <2> USE <1>1 DEF Fetch
  <2>a. hwRead < hwWrite /\ hwRead' = hwRead + 1
    BY RingPositive DEF RingInv, TypeOK
  <2>1. TypeOK'
    BY RingPositive, ProgramSet, <2>a DEF TypeOK, Phases, Kinds
  <2>2. ControlInv'
    BY <2>a DEF ControlInv, TypeOK
  <2>3. CacheInv'
    BY EmptyWhole, <2>a DEF CacheInv, TypeOK, ControlInv, Kinds
  <2>4. RingInv'
    BY RingPositive, <2>a DEF RingInv, RingNeverWraps, TypeOK, ControlInv
  <2>5. StreamInv'
    <3> SUFFICES ASSUME exact PROVE StreamInv'
      BY DEF StreamInv, Base
    <3>1. phase = "drain" /\ hwWrite = ring_write /\ copied = used
      BY <2>a DEF StreamInv, Base, TypeOK
    <3>2. CASE hwRead < blank
      <4>1. ring[hwRead] = 0 /\ executed' = executed
        BY <3>2, RingPositive DEF StreamInv, TypeOK
      <4>2. Base' = Base
        BY <2>a, <3>2, RingPositive DEF Base, TypeOK
      <4>3. \A i \in 0..RingCount-1 : hwRead' <= i /\ i < blank => ring[i] = 0
        BY <2>a, RingPositive DEF StreamInv, TypeOK
      <4> QED  BY <3>1, <4>1, <4>2, <4>3 DEF StreamInv
    <3>3. CASE ~(hwRead < blank)
      <4>1. Base = hwRead /\ Base' = hwRead + 1
        BY <2>a, <3>3, RingPositive DEF Base, TypeOK
      <4>2. executed' = executed + 1
        <5>1. ring[hwRead] = executed + 1
          BY <2>a, <3>1, <4>1, RingPositive DEF StreamInv, TypeOK
        <5> QED  BY <5>1 DEF TypeOK
      <4>3. \A i \in 0..RingCount-1 :
               Base' <= i /\ i < ring_write => ring[i] = executed' + 1 + (i - Base')
        <5>1. \A i \in 0..RingCount-1 :
                 hwRead <= i /\ i < ring_write => ring[i] = executed + 1 + (i - hwRead)
          BY <4>1 DEF StreamInv
        <5>2. executed \in Nat /\ hwRead \in Nat
          BY RingPositive DEF TypeOK
        <5> QED  BY ONLY <4>1, <4>2, <5>1, <5>2
      <4>4. executed' + (ring_write - Base') + (used - copied) = emitted
        <5>1. executed + (ring_write - hwRead) + (used - copied) = emitted
          BY <4>1 DEF StreamInv
        <5>2. /\ executed \in Nat /\ hwRead \in Nat /\ ring_write \in Nat
              /\ used \in Nat /\ copied \in Nat /\ emitted \in Nat
          BY RingPositive DEF TypeOK
        <5> QED  BY ONLY <4>1, <4>2, <5>1, <5>2
      <4>5. \A i \in 0..RingCount-1 : ~(hwRead' <= i /\ i < blank)
        BY <2>a, <3>3, RingPositive DEF TypeOK
      <4> QED  BY <3>1, <4>3, <4>4, <4>5 DEF StreamInv
    <3> QED  BY <3>2, <3>3
  <2>6. SyncInv'
    BY <2>a DEF SyncInv, ControlInv, TypeOK
  <2>7. QuietInv'
    <3> SUFFICES ASSUME QuietInv!1 PROVE QuietInv!2'
      BY DEF QuietInv
    <3>1. ~busy /\ used = 0 /\ ring_write = Base
      BY DEF QuietInv
    <3>2. hwRead < ring_write /\ hwRead < blank
      BY <2>a, <3>1, RingPositive DEF RingInv, Base, TypeOK
    <3>3. ring[hwRead] = 0
      BY <3>2, RingPositive DEF StreamInv, TypeOK
    <3>4. Base' = Base
      BY <2>a, <3>2, RingPositive DEF Base, TypeOK
    <3> QED  BY <3>1, <3>3, <3>4
  <2> QED  BY <2>1, <2>2, <2>3, <2>4, <2>5, <2>6, <2>7
<1>2. CASE Finish
  <2> USE <1>2 DEF Finish
  <2>1. TypeOK'
    BY RingPositive, ProgramSet DEF TypeOK, Phases, Kinds
  <2>2. ControlInv'
    BY DEF ControlInv, TypeOK
  <2>3. CacheInv'
    BY EmptyWhole DEF CacheInv, TypeOK, ControlInv, Kinds
  <2>4. RingInv'
    BY RingPositive DEF RingInv, RingNeverWraps, TypeOK, ControlInv
  <2>5. StreamInv'
    BY DEF StreamInv, Base, RingInv, ControlInv, TypeOK
  <2>6. SyncInv'
    BY DEF SyncInv, ControlInv, TypeOK
  <2>7. QuietInv'
    BY DEF QuietInv, Idle, Drained, StreamInv, Base, RingInv, ControlInv, TypeOK
  <2> QED  BY <2>1, <2>2, <2>3, <2>4, <2>5, <2>6, <2>7
<1> QED  BY <1>1, <1>2

\* Every step preserves the invariant.
LEMMA NextInv == IInv /\ [Next]_vars => IInv'
<1> SUFFICES ASSUME IInv, [Next]_vars PROVE IInv'
  OBVIOUS
<1>1. CASE Request \/ Draw \/ Done
  BY <1>1, RequestStep DEF Request
<1>2. CASE Progress
  BY <1>2, DispatchStep, CallStep, EndStep DEF Progress
<1>3. CASE Timeout
  BY <1>3, EndStep DEF Timeout
<1>4. CASE Hardware
  BY <1>4, ChipStep DEF Hardware
<1>5. CASE UNCHANGED vars
  <2> USE <1>5 DEF IInv, vars, cacheVars, ringVars, cpuVars, hwVars
  <2>1. TypeOK' /\ ControlInv' /\ SyncInv'
    BY DEF TypeOK, ControlInv, SyncInv
  <2>2. CacheInv' /\ RingInv'
    BY DEF CacheInv, RingInv, RingNeverWraps
  <2>3. StreamInv' /\ QuietInv'
    BY DEF StreamInv, Base, QuietInv, Idle, Drained
  <2> QED  BY <2>1, <2>2, <2>3
<1> QED  BY <1>1, <1>2, <1>3, <1>4, <1>5 DEF Next

\* The invariant holds throughout, with or without timeouts.
THEOREM Invariance == Spec => []IInv
BY InitInv, NextInv, PTL DEF Spec

\* The driver's and the chip's indices and the cache stay within their bounds
\* (GLAMODispatchCMDQCache, BEGIN_CMDQ, END_CMDQ).
THEOREM TypeCorrect == Spec => []TypeOK
<1>1. IInv => TypeOK
  BY DEF IInv
<1> QED  BY <1>1, Invariance, PTL

\* The copy loop never runs over the end of the ring, whatever the packet
\* sizes, as long as no number of equal packets is exactly a ring.
THEOREM NeverWraps == Spec => []RingNeverWraps
<1>1. IInv => RingNeverWraps
  BY DEF IInv, RingInv
<1> QED  BY <1>1, Invariance, PTL

\* What a step can do to the ring: clear it, append a word, start over, or
\* nothing.
LEMMA RingStep ==
    ASSUME IInv, [Next]_vars
    PROVE  \/ phase' = "clear" /\ (phase = "clear" => UNCHANGED <<ring, blank>>)
           \/ CopyWord
           \/ ResetCP
           \/ UNCHANGED ringVars /\ phase' # "clear" /\ phase # "clear"
<1> USE DEF vars, cacheVars, ringVars, cpuVars, hwVars
<1>1. CASE Request \/ Draw \/ Done
  BY <1>1 DEF Request, Prepare, DisplayFrame, Block, Fallback, Disable, Enable, Draw,
              Done, Start, IInv, ControlInv
<1>2. CASE FlushForRoom \/ Flush \/ WaitFlush \/ Setup
  BY <1>2 DEF FlushForRoom, Flush, WaitFlush, BeginDispatch, Setup
<1>3. CASE EmitPacket \/ MarkSync \/ Touch \/ WaitSyncSkip \/ WaitPoll
  BY <1>3 DEF EmitPacket, MarkSync, Touch, WaitSyncSkip, WaitPoll, Return
<1>4. CASE WaitDone \/ DispatchDone
  BY <1>4 DEF WaitDone, EndWait, DispatchDone, FlushDone, AfterFlush, Return
<1>5. CASE ResetDone \/ Publish
  BY <1>5 DEF ResetDone, AfterReset, Return, Publish
<1>6. CASE Timeout
  BY <1>6 DEF Timeout, CopyTimeout, ResetTimeout, DrainTimeout, WaitTimeout, EndWait,
              FlushDone, AfterFlush, AfterReset, Return
<1>7. CASE Hardware
  BY <1>7 DEF Hardware, Fetch, Finish
<1>8. CASE UNCHANGED vars
  BY <1>8
<1> QED  BY <1>1, <1>2, <1>3, <1>4, <1>5, <1>6, <1>7, <1>8 DEF Next, Progress

\* The copy loop writes at ring_write, which no address the chip has been
\* given lies beyond: words on their way are not overwritten.
THEOREM KeepsUnfetched == Spec => UnfetchedKept
<1>1. ASSUME IInv, [Next]_vars
      PROVE  \A i \in Unfetched : ring'[i] = ring[i] \/ phase' = "clear"
  <2>1. CASE CopyWord
    <3>1. \A i \in Unfetched : i # ring_write
      BY <1>1, RingPositive DEF Unfetched, IInv, RingInv, TypeOK
    <3> QED  BY <2>1, <3>1 DEF CopyWord, IInv, TypeOK, Unfetched
  <2> QED  BY <1>1, <2>1, RingStep DEF ResetCP, ringVars
<1>2. IInv /\ [Next]_vars => [\A i \in Unfetched : ring'[i] = ring[i] \/ phase' = "clear"]_vars
  BY <1>1
<1> QED  BY <1>2, Invariance, PTL DEF Spec, UnfetchedKept

\* Between resets every slot before the write index has been written, but
\* for those below the index the last one left.
BlankInv ==
    phase # "clear" =>
      \A i \in 0..RingCount-1 : blank <= i /\ i < ring_write => ring[i] # 0

LEMMA BlankStep == IInv /\ BlankInv /\ [Next]_vars => BlankInv'
<1> SUFFICES ASSUME IInv, BlankInv, [Next]_vars PROVE BlankInv'
  OBVIOUS
<1>1. CASE CopyWord
  <2>1. emitted - used + copied + 1 # 0 /\ phase # "clear"
    BY <1>1 DEF CopyWord, IInv, TypeOK, CacheInv
  <2>2. ring_write' <= ring_write + 1
    BY <1>1 DEF CopyWord, IInv, TypeOK
  <2>3. ring_write \in Nat /\ ring_write' \in Nat /\ blank' = blank
    BY <1>1, RingPositive DEF CopyWord, IInv, TypeOK
  <2>4. ASSUME NEW i \in 0..RingCount-1, blank <= i, i < ring_write' PROVE ring'[i] # 0
    <3>1. CASE i = ring_write
      BY <1>1, <2>1, <3>1 DEF CopyWord, IInv, TypeOK
    <3>2. CASE i # ring_write
      <4>1. i < ring_write
        BY <2>2, <2>3, <2>4, <3>2
      <4> QED  BY <1>1, <2>1, <2>4, <3>2, <4>1 DEF CopyWord, IInv, TypeOK, BlankInv
    <3> QED  BY <3>1, <3>2
  <2> QED  BY <2>3, <2>4 DEF BlankInv
<1>2. CASE ResetCP
  <2>1. blank' = ring_write' /\ ring_write' \in Nat
    BY <1>2, RingPositive DEF ResetCP, IndexAfterReset, IInv, TypeOK
  <2> QED  BY <2>1 DEF BlankInv
<1> QED  BY <1>1, <1>2, RingStep DEF BlankInv, ringVars

\* The chip is led through no cleared slot but those below the write index
\* that setting the ring up again left (GLAMOCMDQInit): however often the
\* screen is disabled and enabled, and also after waits that were given up.
THEOREM NeverBlankAhead == Spec => []NoBlankAhead
<1>1. Init => BlankInv
  BY DEF Init, BlankInv
<1>2. IInv /\ BlankInv => NoBlankAhead
  <2> SUFFICES ASSUME IInv, BlankInv, NEW i \in Unfetched
               PROVE  ring[i] # 0 \/ i < blank \/ (phase = "clear" /\ ~exact)
    BY DEF NoBlankAhead
  <2>1. i \in 0..RingCount-1 /\ i < ring_write /\ hwRead # hwWrite
    BY RingPositive DEF Unfetched, IInv, RingInv, TypeOK
  <2>2. blank \in Nat /\ i \in Nat
    BY <2>1, RingPositive DEF IInv, TypeOK
  <2> QED  BY <2>1, <2>2 DEF BlankInv, IInv, StreamInv
<1> QED  BY <1>1, <1>2, BlankStep, Invariance, PTL DEF Spec

\* Software rendering and uploads find the chip idle and nothing queued.
THEOREM QuietForSoftware == Spec => []VideoMemoryQuiet
<1>1. ASSUME IInv, exact, prog \in {"server", "down"} \/ InCall("Touch")
      PROVE  Idle /\ used = 0
  <2>1. prog \in {"server", "down", "touch"} /\ phase = "call"
    BY <1>1, CallFacts DEF IInv, ControlInv
  <2> QED  BY <1>1, <2>1 DEF IInv, QuietInv, StreamInv, Idle, Drained
<1>2. IInv => VideoMemoryQuiet
  BY <1>1 DEF VideoMemoryQuiet
<1> QED  BY <1>2, Invariance, PTL

\* The queue implements the abstract stream: what the command processor
\* fetches is what was emitted, each word once and in order.
LEMMA StreamInit == Init => CS!Init
BY DEF Init, CS!Init

LEMMA StreamStep == IInv /\ [Next]_vars => [CS!Next]_CS!vars
<1> SUFFICES ASSUME IInv, [Next]_vars PROVE [CS!Next]_CS!vars
  OBVIOUS
<1> USE DEF CS!Next, CS!vars, vars, cacheVars, ringVars, cpuVars, hwVars
<1>1. CASE EmitPacket
  <2>1. op \in Kinds
    BY <1>1, CallFacts DEF EmitPacket, IInv, ControlInv, Kinds
  <2>2. Words[op] \in Nat /\ Words[op] > 0
    BY <2>1, WordsFacts
  <2>3. CS!Emit
    BY <1>1, <2>2 DEF EmitPacket, CS!Emit, IInv, TypeOK
  <2> QED  BY <2>3
<1>2. CASE Fetch
  <2>1. CASE ~exact
    BY <1>2, <2>1 DEF Fetch
  <2>2. CASE exact /\ hwRead < blank
    <3>1. ring[hwRead] = 0
      BY <2>2, RingPositive DEF IInv, StreamInv, TypeOK
    <3> QED  BY <1>2, <3>1 DEF Fetch
  <2>3. CASE exact /\ ~(hwRead < blank)
    <3>1. hwRead < hwWrite /\ hwWrite <= ring_write /\ Base = hwRead
      BY <1>2, <2>3, RingPositive DEF Fetch, IInv, RingInv, TypeOK, Base
    <3>2. ring[hwRead] = executed + 1
      BY <2>3, <3>1, RingPositive DEF IInv, StreamInv, TypeOK
    <3>3. executed < emitted
      BY <2>3, <3>1, RingPositive DEF IInv, StreamInv, TypeOK
    <3>4. executed + 1 # 0
      BY DEF IInv, TypeOK
    <3>5. CS!Execute
      BY <1>2, <2>3, <3>2, <3>3, <3>4 DEF Fetch, CS!Execute
    <3> QED  BY <3>5
  <2> QED  BY <2>1, <2>2, <2>3 DEF IInv, TypeOK
<1>3. CASE Timeout
  <2>1. CS!Fault
    BY <1>3 DEF Timeout, CopyTimeout, ResetTimeout, DrainTimeout, WaitTimeout,
                EngineReset, FlushDone, EndWait, CS!Fault
  <2> QED  BY <2>1
<1>4. CASE Request \/ Draw \/ Done \/ Finish
  BY <1>4 DEF Request, Prepare, DisplayFrame, Block, Fallback, Disable, Enable, Draw, Done, Finish
<1>5. CASE Progress /\ ~EmitPacket
  BY <1>5 DEF Progress, FlushForRoom, Flush, MarkSync, Touch, Setup, WaitSyncSkip, WaitFlush,
              WaitPoll, WaitDone, ResetCP, ResetDone, CopyWord, Publish, DispatchDone,
              BeginDispatch, FlushDone, EndWait
<1>6. CASE UNCHANGED vars
  BY <1>6
<1> QED  BY <1>1, <1>2, <1>3, <1>4, <1>5, <1>6 DEF Next, Hardware

THEOREM ImplementsStream == Spec => StreamSpec
<1>1. Spec => CS!Init
  BY StreamInit DEF Spec
<1>2. Spec => [][CS!Next]_CS!vars
  BY Invariance, StreamStep, PTL DEF Spec
<1> QED  BY <1>1, <1>2, PTL DEF StreamSpec, CS!SafeSpec
=============================================================================
