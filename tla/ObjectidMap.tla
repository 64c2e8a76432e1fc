----------------------------- MODULE ObjectidMap -----------------------------
(***************************************************************************)
(* The object id map of libreiserfs/object.c: the tail of the super block  *)
(* is an array objectids[0..cursize-1] of bounds.  The even entry i and    *)
(* the odd entry i+1 delimit one interval objectids[i] <= id <             *)
(* objectids[i+1] of ids in use.  reiserfs_object_use records one more id  *)
(* by growing, joining or inserting an interval; when the array is full it *)
(* widens an interval over ids nobody uses rather than lose one in use.    *)
(***************************************************************************)
EXTENDS Integers

CONSTANTS
  MaxId,    \* the largest id that keys carry; MaxId + 1 fits the entry's width
  MaxSize   \* sb_oid_maxsize: how many bounds the block has room for

ASSUME MaxIdAssumption == MaxId \in Nat
ASSUME MaxSizeAssumption == MaxSize \in Nat /\ MaxSize >= 2 /\ MaxSize % 2 = 0

Ids == 1..MaxId

VARIABLES
  cursize,    \* sb_oid_cursize
  objectids,  \* the array, its first cursize entries
  dirty,      \* the super block's dirty flag
  stored,     \* the array as the super block on the device has it
  used        \* history: every id reiserfs_object_use was called with

vars == <<cursize, objectids, dirty, stored, used>>

Pairs == {i \in 0..(cursize - 1) : i % 2 = 0}

Init ==
  /\ cursize = 0
  /\ objectids = [i \in {} |-> 0]
  /\ dirty = FALSE
  /\ stored = objectids
  /\ used = {}

-----------------------------------------------------------------------------
(* reiserfs_object_test scans upwards and gives up at the first interval   *)
(* that begins above the id.                                               *)
Test(id) ==
  \E i \in Pairs :
    /\ objectids[i] <= id
    /\ id = objectids[i] \/ id < objectids[i + 1]
    /\ \A j \in Pairs : j < i => id >= objectids[j]

(* The scan of reiserfs_object_use stops at pair i for this id.            *)
Stops(i, id) ==
  \/ id + 1 = objectids[i]
  \/ id = objectids[i + 1]
  \/ id < objectids[i]

StopsFirst(i, id) ==
  /\ ~Test(id)
  /\ Stops(i, id)
  /\ \A j \in Pairs : j < i => ~Stops(j, id)

MarkSuper(id) ==
  /\ dirty' = TRUE
  /\ used' = used \cup {id}
  /\ UNCHANGED stored

-----------------------------------------------------------------------------
(* The alternatives of reiserfs_object_use, one action each.               *)
AlreadyUsed(id) ==
  /\ Test(id)
  /\ used' = used \cup {id}
  /\ UNCHANGED <<cursize, objectids, dirty, stored>>

GrowDown(i, id) ==
  /\ StopsFirst(i, id)
  /\ id + 1 = objectids[i]
  /\ objectids' = [objectids EXCEPT ![i] = id]
  /\ MarkSuper(id)
  /\ UNCHANGED cursize

(* Slip: the neighbours are never joined.                                  *)
NeverReachesNext(i) == FALSE

ReachesNext(i) == i + 2 < cursize /\ objectids[i + 1] + 1 = objectids[i + 2]

GrowUp(i, id) ==
  /\ StopsFirst(i, id)
  /\ id + 1 # objectids[i]
  /\ id = objectids[i + 1]
  /\ ~ReachesNext(i)
  /\ objectids' = [objectids EXCEPT ![i + 1] = @ + 1]
  /\ MarkSuper(id)
  /\ UNCHANGED cursize

(* The interval that grows up meets the next one: both bounds between them *)
(* leave the array and the rest moves down by two.                         *)
Join(i, id) ==
  /\ StopsFirst(i, id)
  /\ id + 1 # objectids[i]
  /\ id = objectids[i + 1]
  /\ ReachesNext(i)
  /\ cursize' = cursize - 2
  /\ objectids' = [k \in 0..(cursize - 3) |->
                     IF k <= i THEN objectids[k] ELSE objectids[k + 2]]
  /\ MarkSuper(id)

(* Slip: the new pair reaches up to the interval it was inserted before.   *)
InsertUpToNext(i, id) ==
  /\ StopsFirst(i, id)
  /\ id + 1 # objectids[i]
  /\ id < objectids[i]
  /\ cursize # MaxSize
  /\ cursize' = cursize + 2
  /\ objectids' = [k \in 0..(cursize + 1) |->
                     IF k < i THEN objectids[k]
                     ELSE IF k = i THEN id
                     ELSE IF k = i + 1 THEN objectids[i] - 1
                     ELSE objectids[k - 2]]
  /\ MarkSuper(id)

Insert(i, id) ==
  /\ StopsFirst(i, id)
  /\ id + 1 # objectids[i]
  /\ id < objectids[i]
  /\ cursize # MaxSize
  /\ cursize' = cursize + 2
  /\ objectids' = [k \in 0..(cursize + 1) |->
                     IF k < i THEN objectids[k]
                     ELSE IF k = i THEN id
                     ELSE IF k = i + 1 THEN id + 1
                     ELSE objectids[k - 2]]
  /\ MarkSuper(id)

(* Slip: the full array gives the pair's place to the new id alone.        *)
WidenDownForgets(i, id) ==
  /\ StopsFirst(i, id)
  /\ id + 1 # objectids[i]
  /\ id < objectids[i]
  /\ cursize = MaxSize
  /\ objectids' = [objectids EXCEPT ![i] = id, ![i + 1] = id + 1]
  /\ MarkSuper(id)
  /\ UNCHANGED cursize

(* No room for a pair: the interval above takes in the gap down to id.     *)
WidenDown(i, id) ==
  /\ StopsFirst(i, id)
  /\ id + 1 # objectids[i]
  /\ id < objectids[i]
  /\ cursize = MaxSize
  /\ objectids' = [objectids EXCEPT ![i] = id]
  /\ MarkSuper(id)
  /\ UNCHANGED cursize

AboveAll(id) == ~Test(id) /\ \A i \in Pairs : ~Stops(i, id)

(* Slip: the array's size is not checked before the pair is appended.      *)
AppendPairUnchecked(id) ==
  /\ AboveAll(id)
  /\ cursize' = cursize + 2
  /\ objectids' = [k \in 0..(cursize + 1) |->
                     IF k < cursize THEN objectids[k]
                     ELSE IF k = cursize THEN id ELSE id + 1]
  /\ MarkSuper(id)

AppendPair(id) ==
  /\ AboveAll(id)
  /\ cursize < MaxSize
  /\ cursize' = cursize + 2
  /\ objectids' = [k \in 0..(cursize + 1) |->
                     IF k < cursize THEN objectids[k]
                     ELSE IF k = cursize THEN id ELSE id + 1]
  /\ MarkSuper(id)

WidenUp(id) ==
  /\ AboveAll(id)
  /\ cursize = MaxSize
  /\ objectids' = [objectids EXCEPT ![cursize - 1] = id + 1]
  /\ MarkSuper(id)
  /\ UNCHANGED cursize

(* reiserfs_fs_super_sync writes the super block when it is dirty.         *)
SyncSuper ==
  /\ dirty
  /\ stored' = objectids
  /\ dirty' = FALSE
  /\ UNCHANGED <<cursize, objectids, used>>

ObjectUse(id) ==
  \/ AlreadyUsed(id)
  \/ \E i \in Pairs : \/ GrowDown(i, id)
                      \/ GrowUp(i, id)
                      \/ Join(i, id)
                      \/ Insert(i, id)
                      \/ WidenDown(i, id)
  \/ AppendPair(id)
  \/ WidenUp(id)

Next == SyncSuper \/ \E id \in Ids : ObjectUse(id)

Spec == Init /\ [][Next]_vars

-----------------------------------------------------------------------------
(* The ids inside some interval of the array.                              *)
Covered ==
  {id \in Ids : \E i \in Pairs : objectids[i] <= id /\ id < objectids[i + 1]}

TypeOK ==
  /\ cursize \in 0..MaxSize
  /\ cursize % 2 = 0
  /\ objectids \in [0..(cursize - 1) -> 1..(MaxId + 1)]
  /\ dirty \in BOOLEAN
  /\ used \subseteq Ids

(* The bounds are strictly increasing: no interval is empty, touches the   *)
(* next one or overlaps it, whatever order the ids of the keys come in     *)
(* (object.c:116-155 keeps this by where its scan stops).                  *)
Increasing ==
  \A j, k \in 0..(cursize - 1) : j < k => objectids[j] < objectids[k]

(* Every id that was ever used is inside an interval, also when intervals  *)
(* were joined, moved or widened afterwards (object.c:121-160): an object  *)
(* created later never gets the id of an existing one.                     *)
NoIdLost == used \subseteq Covered

(* A clean super block has the same map on the device as in memory: every  *)
(* alternative that changes the map reaches mark_super (object.c:164).     *)
CleanIsStored == ~dirty => stored = objectids

(* The map keeps the promise of IdReservation: ids are reserved for good,  *)
(* and exactly the ids asked for while there is room (object.c:139, 155).  *)
Reservation ==
  INSTANCE IdReservation WITH
    reserved <- Covered, room <- cursize < MaxSize

ReservesIds == Reservation!Spec
=============================================================================
