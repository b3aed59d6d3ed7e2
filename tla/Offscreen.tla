----------------------------- MODULE Offscreen ------------------------------
(***************************************************************************)
(* The allocator of off-screen video memory (hw/kdrive/src/koffscreen.c).  *)
(*                                                                         *)
(* The memory from off_screen_base up to memory_size is a list of areas,   *)
(* free ones and ones in use.  An allocation takes the first free area it  *)
(* fits in and splits off what it does not need; if there is none it looks *)
(* for users to kick out.  A free merges the area with free neighbours.    *)
(* Disabling the screen kicks everybody out, one area after the other.     *)
(*                                                                         *)
(* The list is a sequence.  An area is known to its user by the user's     *)
(* name.  The score is left out: it only picks the victims of an eviction, *)
(* and the code does not survive an eviction, whoever the victims are.     *)
(***************************************************************************)
EXTENDS Naturals, Sequences, SequencesExt

CONSTANTS
    Pixmaps,    \* users whose areas may be kicked out
    Locked,     \* users whose areas are locked
    Base,       \* screen->off_screen_base
    MemorySize, \* screen->memory_size
    Align       \* the alignment requested

Users == Pixmaps \cup Locked
Total == MemorySize - Base

ASSUME OffscreenAssumption ==
    /\ Base \in Nat /\ MemorySize \in Nat /\ Base < MemorySize
    /\ Align \in Nat \ {0}
    /\ Pixmaps \cap Locked = {}
    /\ "nobody" \notin Users

VARIABLES
    areas,    \* off_screen_areas
    answer,   \* what became of the last allocation
    swapping  \* whether KdOffscreenSwapOut is running

vars == <<areas, answer, swapping>>

FreeArea(offset, size) ==
    [user |-> "nobody", offset |-> offset, save_offset |-> offset, size |-> size]

\* KdOffscreenInit
WholeMemory == <<FreeArea(Base, Total)>>

Init ==
    /\ areas = WholeMemory
    /\ answer = "none"
    /\ swapping = FALSE

Avail(i) == areas[i].user = "nobody"
IsLocked(i) == areas[i].user \in Locked
Holds(u) == \E i \in DOMAIN areas : areas[i].user = u

Padding(offset) == (Align - (offset % Align)) % Align
RealSize(size, i) == size + Padding(areas[i].offset)

(***************************************************************************)
(* KdOffscreenAlloc.                                                       *)
(***************************************************************************)
\* Broken: forgets the padding.
FitsUnpadded(size, i) == Avail(i) /\ size <= areas[i].size
Fits(size, i) == Avail(i) /\ RealSize(size, i) <= areas[i].size

FirstFit(size) ==
    CHOOSE i \in DOMAIN areas : Fits(size, i) /\ \A j \in 1..i-1 : ~Fits(size, j)

InUse(u, size, i) ==
    [user |-> u, offset |-> areas[i].offset + Padding(areas[i].offset),
     save_offset |-> areas[i].offset, size |-> RealSize(size, i)]

\* Broken: the remainder starts at the wrong place.
RemainderAtSize(size, i) ==
    FreeArea(areas[i].offset + size, areas[i].size - RealSize(size, i))
Remainder(size, i) ==
    FreeArea(areas[i].offset + RealSize(size, i), areas[i].size - RealSize(size, i))

LeavesSpace(size, i) == RealSize(size, i) < areas[i].size

Grant(u, size) ==
    LET i == FirstFit(size) IN
    /\ areas' = IF LeavesSpace(size, i)
                  THEN InsertAt(ReplaceAt(areas, i, InUse(u, size, i)), i + 1, Remainder(size, i))
                  ELSE ReplaceAt(areas, i, InUse(u, size, i))
    /\ answer' = "granted"

\* No memory for the record of what is split off.
Starve(size) ==
    /\ LeavesSpace(size, FirstFit(size))
    /\ answer' = "starved"
    /\ UNCHANGED areas

\* How far a scan for victims gets that starts at area b: to the first locked
\* area, to where there is enough room, or to the end of the list.
RoomUpTo(b, e) == SumFunction([i \in b..e |-> areas[i].size])
Stops(size, b) == {e \in b..Len(areas) : IsLocked(e) \/ RoomUpTo(b, e) >= RealSize(size, b)}
Stop(size, b) == CHOOSE e \in Stops(size, b) : \A f \in Stops(size, b) : e <= f

\* Whether the search for victims that has come to area b crashes: `begin` is
\* null when the loop is through, and it is dereferenced if somebody could be
\* kicked out; and the loop itself dereferences it after a scan that ended at
\* a locked area at the end of the list.
SearchCrashes(size) ==
    LET n == Len(areas)
        crashes[b \in 1..n+1] ==
          IF b > n THEN FALSE
          ELSE IF IsLocked(b) \/ Stops(size, b) = {} THEN crashes[b + 1]
          ELSE IF IsLocked(Stop(size, b))
                 THEN Stop(size, b) = n \/ crashes[Stop(size, b) + 2]
          ELSE TRUE
    IN crashes[1]

Alloc(u, size) ==
    /\ answer # "crashed" /\ ~swapping
    /\ ~Holds(u)
    /\ IF size > Total
         THEN answer' = "null" /\ UNCHANGED areas
       ELSE IF \E i \in DOMAIN areas : Fits(size, i)
         THEN Grant(u, size) \/ Starve(size)
         ELSE /\ answer' = IF SearchCrashes(size) THEN "crashed" ELSE "null"
              /\ UNCHANGED areas
    /\ UNCHANGED swapping

(***************************************************************************)
(* KdOffscreenFree.                                                        *)
(***************************************************************************)
\* KdOffscreenMerge of area i with the next one.
Merge(list, i) ==
    RemoveAt(ReplaceAt(list, i, [list[i] EXCEPT !.size = @ + list[i + 1].size]), i + 1)

\* Broken: does not look back.
FreedForward(i) ==
    LET a == ReplaceAt(areas, i, FreeArea(areas[i].save_offset, areas[i].size))
    IN IF i < Len(a) /\ Avail(i + 1) THEN Merge(a, i) ELSE a

Freed(i) ==
    LET a == ReplaceAt(areas, i, FreeArea(areas[i].save_offset, areas[i].size))
        b == IF i < Len(a) /\ Avail(i + 1) THEN Merge(a, i) ELSE a
    IN IF i > 1 /\ Avail(i - 1) THEN Merge(b, i - 1) ELSE b

\* A pixmap is destroyed or moved out, or a locked buffer is given up.
Free(u) ==
    /\ answer # "crashed" /\ ~swapping
    /\ \E i \in DOMAIN areas :
         /\ areas[i].user = u
         /\ areas' = Freed(i)
    /\ UNCHANGED <<answer, swapping>>

(***************************************************************************)
(* KdOffscreenSwapOut, one round of its loop at a time, and SwapIn.        *)
(***************************************************************************)
SwapOut ==
    /\ answer # "crashed" /\ ~swapping /\ areas # <<>>
    /\ swapping' = TRUE
    /\ UNCHANGED <<areas, answer>>

\* Broken: takes the second area, without looking at the first.
VictimSecond == IF Len(areas) > 1 THEN 2 ELSE 1
Victim == IF Avail(1) THEN 2 ELSE 1

KickOut ==
    /\ swapping /\ areas # <<>>
    /\ Victim <= Len(areas)
    /\ areas' = Freed(Victim)
    /\ UNCHANGED <<answer, swapping>>

\* KdOffscreenFini
SwappedOut ==
    /\ swapping
    /\ Victim > Len(areas)
    /\ areas' = <<>>
    /\ swapping' = FALSE
    /\ UNCHANGED answer

SwapIn ==
    /\ answer # "crashed"
    /\ areas = <<>>
    /\ areas' = WholeMemory
    /\ UNCHANGED <<answer, swapping>>

Next ==
    \/ \E u \in Users, size \in 1..Total+1 : Alloc(u, size)
    \/ \E u \in Users : Free(u)
    \/ SwapOut \/ KickOut \/ SwappedOut \/ SwapIn

Spec == Init /\ [][Next]_vars

\* A loop that has been entered is run to its end.
FairSpec == Spec /\ WF_vars(KickOut \/ SwappedOut)

-----------------------------------------------------------------------------
(***************************************************************************)
(* Properties.                                                             *)
(***************************************************************************)
Area == [user : Users \cup {"nobody"}, offset : Nat, save_offset : Nat,
         size : Nat \ {0}]

TypeOK ==
    /\ areas \in Seq(Area)
    /\ answer \in {"none", "granted", "null", "starved", "crashed"}
    /\ swapping \in BOOLEAN

\* After any sequence of allocations, frees and kick-outs the areas still
\* cover the memory from off_screen_base to memory_size without gap or
\* overlap, and the aligned part of one in use lies inside it.
Tiled ==
  /\ TypeOK
  /\ areas # <<>> =>
      /\ areas[1].save_offset = Base
      /\ \A i \in 1..Len(areas)-1 :
            areas[i].save_offset + areas[i].size = areas[i + 1].save_offset
      /\ areas[Len(areas)].save_offset + areas[Len(areas)].size = MemorySize
      /\ \A i \in DOMAIN areas :
            /\ areas[i].save_offset <= areas[i].offset
            /\ areas[i].offset < areas[i].save_offset + areas[i].size

\* Free neighbours are always merged, so that memory never stays fragmented
\* after it has been given back; KdOffscreenSwapOut relies on it to end.
Coalesced ==
    \A i \in 1..Len(areas)-1 : ~(Avail(i) /\ Avail(i + 1))

\* The allocator gives disjoint aligned memory to its users, and refuses, or
\* goes looking for victims, only if no aligned stretch is free.
Bytes(i) == areas[i].save_offset..areas[i].save_offset+areas[i].size-1
HeldBy(u) == UNION {Bytes(i) : i \in {j \in DOMAIN areas : areas[j].user = u}}
Map == INSTANCE OffscreenMap WITH
         held <- [u \in Users |-> HeldBy(u)], up <- areas # <<>>
MapSpec == Map!Spec

\* Disabling the screen comes to an end with nobody left in video memory.
SwapOutEnds == swapping ~> areas = <<>>

\* koffscreen.c:115: "Kick out existing users to make space."
EvictionMakesSpace == answer # "crashed"

\* koffscreen.c:49: assert (prev->offset + prev->size == area->offset)
Validate ==
    \A i \in 1..Len(areas)-1 : areas[i].offset + areas[i].size = areas[i + 1].offset
=============================================================================
