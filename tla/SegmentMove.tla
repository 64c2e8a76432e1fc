----------------------------- MODULE SegmentMove -----------------------------
(***************************************************************************)
(* reiserfs_segment_move of libreiserfs/segment.c: a run of blocks is      *)
(* copied block by block to another place, of the same device or of        *)
(* another one.  The two runs may overlap, so the direction of the copy    *)
(* depends on which starts first; any read or write may fail, and so may   *)
(* the caller's function, which ends the move where it stands.             *)
(* What every module has is named MoveInit, MoveNext ..., so that one      *)
(* module can extend this one and another.                                 *)
(***************************************************************************)
EXTENDS Integers

CONSTANTS
  Devices,   \* the devices
  DevLen,    \* blocks of each device
  Contents,  \* what a block can hold
  Original,  \* Original[d, b]: what block b of device d holds before the move
  Starts,    \* the block numbers a segment may start at
  Lens       \* the lengths of the segments

ASSUME DevLenAssumption == DevLen \in Nat
ASSUME OriginalAssumption == Original \in [Devices \X (0..(DevLen - 1)) -> Contents]
ASSUME StartsAssumption == Starts \subseteq Nat
ASSUME LensAssumption == Lens \subseteq Nat \ {0}

VARIABLES
  src, dst,   \* the devices of src_segment and dst_segment
  from, to,   \* their starts
  len,        \* the length of src_segment
  disk,       \* the devices
  i,          \* the loop's counter
  block,      \* the block just read
  pc          \* "read", "write", "call"; the move has ended in "done", "failed", "refused"

job == <<src, dst, from, to, len>>
moveVars == <<job, disk, i, block, pc>>

(* Slip: the copy runs upwards whatever the order of the segments.         *)
NeverDownwards == FALSE

Downwards == from < to

MoveInit ==
  /\ src \in Devices /\ dst \in Devices
  /\ from \in Starts /\ to \in Starts /\ len \in Lens
  /\ from + len <= DevLen /\ to + len <= DevLen
  /\ disk = Original
  /\ i = IF Downwards THEN len - 1 ELSE 0
  /\ block \in Contents
  /\ pc = "read"

-----------------------------------------------------------------------------
Read ==
  /\ pc = "read"
  /\ block' = disk[src, from + i]
  /\ pc' = "write"
  /\ UNCHANGED <<job, disk, i>>

Write ==
  /\ pc = "write"
  /\ disk' = [disk EXCEPT ![<<dst, to + i>>] = block]
  /\ pc' = "call"
  /\ UNCHANGED <<job, i, block>>

(* Slip: the upward copy ends one block early.                             *)
LastTooEarly == IF Downwards THEN i = 0 ELSE i + 2 >= len

(* Slip: the counter is compared after it has moved on.                    *)
LastTooLate == IF Downwards THEN i = 0 ELSE i = len

Last == IF Downwards THEN i = 0 ELSE i = len - 1

(* Slip: the counter stays where it is.                                    *)
CalledStays ==
  /\ pc = "call"
  /\ IF Last THEN pc' = "done" ELSE pc' = "read"
  /\ UNCHANGED <<job, disk, i, block>>

Called ==
  /\ pc = "call"
  /\ IF Last THEN pc' = "done" /\ UNCHANGED i
     ELSE pc' = "read" /\ i' = IF Downwards THEN i - 1 ELSE i + 1
  /\ UNCHANGED <<job, disk, block>>

Fails ==
  /\ pc \in {"read", "write"}
  /\ pc' = "failed"
  /\ UNCHANGED <<job, disk, i, block>>

Refused ==
  /\ pc = "call"
  /\ pc' = "refused"
  /\ UNCHANGED <<job, disk, i, block>>

MoveNext == Read \/ Write \/ Called \/ Fails \/ Refused

MoveSpec == MoveInit /\ [][MoveNext]_moveVars /\ WF_moveVars(MoveNext)

-----------------------------------------------------------------------------
(* The segments lie on their devices and the counter in the segment, also  *)
(* when it runs down to 0 (segment.c:291-294).                             *)
MoveTypeOK ==
  /\ src \in Devices /\ dst \in Devices
  /\ from \in Nat /\ to \in Nat /\ len \in Nat \ {0}
  /\ from + len <= DevLen /\ to + len <= DevLen
  /\ disk \in [Devices \X (0..(DevLen - 1)) -> Contents]
  /\ i \in 0..(len - 1)
  /\ block \in Contents
  /\ pc \in {"read", "write", "call", "done", "failed", "refused"}

InPlace(k) == disk[src, from + k] = Original[src, from + k]
Moved(k) == disk[dst, to + k] = Original[src, from + k]

(* A move that succeeds leaves at the destination what the source held     *)
(* when it began, also when the two segments overlap (segment.c:262-263).  *)
AllMoved == pc = "done" => \A k \in 0..(len - 1) : Moved(k)

(* Wherever the move stops, each block of the segment is still in its old  *)
(* place or already in its new one: nothing is lost by a failure           *)
(* (segment.c:266-294).                                                    *)
NothingLost == \A k \in 0..(len - 1) : InPlace(k) \/ Moved(k)

(* Blocks outside the destination are not touched (segment.c:276-281).     *)
OthersKept ==
  \A d \in Devices, b \in 0..(DevLen - 1) :
    \/ d = dst /\ to <= b /\ b < to + len
    \/ disk[d, b] = Original[d, b]

(* The move ends, downwards through block 0 of the segment as well.        *)
Ends == <>(pc \in {"done", "failed", "refused"})
=============================================================================
