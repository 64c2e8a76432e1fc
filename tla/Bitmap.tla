-------------------------------- MODULE Bitmap --------------------------------
(***************************************************************************)
(* The block bitmap of libreiserfs/bitmap.c as core.c uses it: one bit per *)
(* block of the filesystem, kept in memory as an array of bytes, counted   *)
(* in used_blocks, and written to the bitmap blocks, which are the block   *)
(* after the super block and then every block whose number is a multiple   *)
(* of the bits in a block.  The widths are constants so that TLC can use   *)
(* narrow ones; the code's are 8 bits, 8 bytes and the block size.         *)
(***************************************************************************)
EXTENDS Integers, FiniteSets

CONSTANTS
  ByteBits,    \* bits in a byte
  WordBytes,   \* bytes in the word reiserfs_bitmap_calc steps by
  BlockBytes,  \* bytes in a block of the device
  Start,       \* the number of the first bitmap block
  Lengths,     \* the filesystem lengths asked for; its largest bounds a run
  MaxUsed      \* bound of a run: no resize once used_blocks has drifted so far

ASSUME WidthAssumption ==
  /\ ByteBits \in Nat \ {0} /\ WordBytes \in Nat \ {0} /\ BlockBytes \in Nat \ {0}
ASSUME StartAssumption == Start \in 1..(BlockBytes * ByteBits - 1)
ASSUME MaxUsedAssumption == MaxUsed \in Nat
ASSUME LengthsAssumption == Lengths \subseteq Nat /\ \A n \in Lengths : n > Start

BlockBits == BlockBytes * ByteBits
WordBits == WordBytes * ByteBits

VARIABLES
  map,     \* the numbers of the bits set in bitmap->map
  total,   \* bitmap->total_blocks
  used,    \* bitmap->used_blocks
  disk,    \* the bits set in the bitmap blocks of the device
  len,     \* the block count in the super block
  clean,   \* the bitmap's dirty flag is not set
  lagged   \* history: a resize has kept the number of bytes and the bitmap's length

vars == <<map, total, used, disk, len, clean, lagged>>

-----------------------------------------------------------------------------
(* bitmap->size, in bytes, and the bitmap blocks that many bytes occupy.   *)
Size(n) == (n + ByteBits - 1) \div ByteBits
BlocksFor(n) == (n - 1) \div BlockBits + 1
ChunkOf(b) == b \div BlockBits

BitmapBlocks(n) == {Start} \cup {i * BlockBits : i \in 1..(BlocksFor(n) - 1)}
Reserved(n) == 0..(Start - 1) \cup BitmapBlocks(n)

(* reiserfs_tools_le_find_next_zero_bit: the rest of the first byte, then  *)
(* whole bytes up to the size rounded up to a byte, then the bits of the   *)
(* first byte that is not all ones.                                        *)
FullByte(m, byte) == \A k \in 0..(ByteBits - 1) : byte * ByteBits + k \in m
FirstZeroIn(m, byte, from) ==
  CHOOSE k \in from..(byte * ByteBits + ByteBits - 1) :
    k \notin m /\ \A j \in from..(k - 1) : j \in m

(* Slip: the bits left of a byte the search starts inside are skipped.     *)
FindFromNextByte(m, size, offset) ==
  LET rest == (offset + ByteBits - 1) \div ByteBits
      open == {byte \in rest..(Size(size) - 1) : ~FullByte(m, byte)}
      lowest == CHOOSE byte \in open : \A other \in open : byte <= other
  IN  IF open = {} THEN size ELSE FirstZeroIn(m, lowest, lowest * ByteBits)

FindNextZeroBit(m, size, offset) ==
  LET first == offset \div ByteBits
      rest  == IF offset % ByteBits = 0 THEN first ELSE first + 1
      open  == {byte \in rest..(Size(size) - 1) : ~FullByte(m, byte)}
      lowest == CHOOSE byte \in open : \A other \in open : byte <= other
  IN  IF offset >= size THEN size
      ELSE IF rest # first /\ \E k \in offset..(rest * ByteBits - 1) : k \notin m
      THEN FirstZeroIn(m, first, offset)
      ELSE IF open = {} THEN Size(size) * ByteBits
      ELSE FirstZeroIn(m, lowest, lowest * ByteBits)

(* reiserfs_bitmap_find_free: 0 stands for "none".                         *)
FindFree(start) ==
  IF start >= total THEN 0
  ELSE LET blk == FindNextZeroBit(map, total, start)
       IN  IF blk >= total THEN 0 ELSE blk

(* reiserfs_bitmap_calc(..., is_free): a full word (an empty one when      *)
(* is_free is 1) counts as a whole, any other bit adds is_free when it is  *)
(* set and the negation of is_free when it is clear.                       *)
Calc(m, end, isFree) ==
  LET Whole(i) ==
        /\ i % ByteBits = 0 /\ i + WordBits < end
        /\ \A k \in i..(i + WordBits - 1) : (k \in m) <=> isFree = 0
      From[i \in 0..end] ==
        IF i = end THEN 0
        ELSE IF Whole(i) THEN WordBits + From[i + WordBits]
        ELSE (IF i \in m THEN isFree ELSE 1 - isFree) + From[i + 1]
  IN  From[0]

CalcUsed(m, end) == Calc(m, end, 0)

(* What callback_bitmap_flush writes of the map into bitmap block number   *)
(* chunk: the block starts as all ones, takes the map's bytes, and the     *)
(* bits of the last byte beyond the end are set.                           *)
(* Slip: the last bitmap block is padded with zeros.                       *)
FlushedZeroPadded(chunk) ==
  {b \in (chunk * BlockBits)..((chunk + 1) * BlockBits - 1) : b \in map}

Flushed(chunk) ==
  {b \in (chunk * BlockBits)..((chunk + 1) * BlockBits - 1) :
     b \in map \/ b >= total}

-----------------------------------------------------------------------------
(* reiserfs_bitmap_create for a filesystem of n blocks, and the marking of *)
(* the skipped blocks and the super block by reiserfs_fs_super_create.     *)
Init ==
  \E n \in Lengths :
    /\ total = n /\ len = n
    /\ map = Reserved(n)
    /\ used = Cardinality(Reserved(n))
    /\ disk = {}
    /\ clean = FALSE
    /\ lagged = FALSE

(* reiserfs_fs_bitmap_use_block and _unuse_block mark the bitmap dirty     *)
(* also when the block is out of range or has that state already.          *)
UseBlock(b) ==
  /\ map' = IF b < total THEN map \cup {b} ELSE map
  /\ used' = IF b < total /\ b \notin map THEN used + 1 ELSE used
  /\ clean' = FALSE
  /\ UNCHANGED <<total, disk, len, lagged>>

(* Slip: a block is given back without marking the bitmap dirty.           *)
UnuseUnmarked(b) ==
  /\ map' = IF b < total THEN map \ {b} ELSE map
  /\ used' = IF b < total /\ b \in map THEN used - 1 ELSE used
  /\ UNCHANGED <<total, disk, len, clean, lagged>>

UnuseBlock(b) ==
  /\ map' = IF b < total THEN map \ {b} ELSE map
  /\ used' = IF b < total /\ b \in map THEN used - 1 ELSE used
  /\ clean' = FALSE
  /\ UNCHANGED <<total, disk, len, lagged>>

(* The callers take a block by find_free and use_block (segment.c:63-74).  *)
TakeFree(hint) == FindFree(hint) # 0 /\ UseBlock(FindFree(hint))

(* reiserfs_bitmap_resize with start 0, after which the callers store the  *)
(* new length in the super block.  Before a shrink they have moved every   *)
(* block out of the area that is cut off, except its bitmap blocks         *)
(* (core.c:1172-1182).                                                     *)
CutIsEmpty(end) == \A b \in map : b >= end => b \in BitmapBlocks(total)

(* Slip: the first bitmap block beyond the old ones is left out.           *)
AddedFromSecond(end) ==
  {i * BlockBits : i \in (Size(total) \div BlockBytes + 1)..(BlocksFor(end) - 1)}

(* The numbers of the bitmap blocks a resize to end marks.                 *)
Added(end) ==
  {i * BlockBits : i \in (Size(total) \div BlockBytes)..(BlocksFor(end) - 1)}

Resize(end) ==
  /\ end # len
  /\ used <= MaxUsed
  /\ CutIsEmpty(end)
  /\ len' = end
  /\ clean' = FALSE
  /\ lagged' = (lagged \/ Size(end) = Size(total))
  /\ IF Size(end) = Size(total)
     THEN UNCHANGED <<map, total, used>>
     ELSE LET kept  == {b \in map : b < Size(end) * ByteBits}
              added == Added(end) \ kept
          IN  /\ total' = end
              /\ map' = kept \cup added
              /\ used' = used + Cardinality(added)
  /\ UNCHANGED disk

(* reiserfs_fs_bitmap_sync: the blocks are written in order, and the first *)
(* write that fails ends it with the bitmap still dirty.                   *)
SyncBlocks(n) ==
  disk' = {b \in disk : ChunkOf(b) >= n} \cup UNION {Flushed(c) : c \in 0..(n - 1)}

Sync ==
  /\ SyncBlocks(BlocksFor(total))
  /\ clean' = TRUE
  /\ UNCHANGED <<map, total, used, len, lagged>>

SyncFails(n) ==
  /\ n < BlocksFor(total)
  /\ SyncBlocks(n)
  /\ UNCHANGED <<map, total, used, len, clean, lagged>>

(* reiserfs_bitmap_open: the bytes for len blocks are read and the bits of *)
(* the last byte beyond the end cleared.  A count of 0 is an error.        *)
Fetched == {b \in disk : b < len}

Open ==
  /\ clean
  /\ CalcUsed(Fetched, len) # 0
  /\ map' = Fetched
  /\ total' = len
  /\ used' = CalcUsed(Fetched, len)
  /\ UNCHANGED <<disk, len, clean, lagged>>

Blocks == UNION {0..(n - 1) : n \in Lengths}

Next ==
  \/ \E b \in Blocks : UseBlock(b) \/ TakeFree(b)
  \/ \E b \in Blocks \ Reserved(total) : UnuseBlock(b)
  \/ \E n \in Lengths : Resize(n)
  \/ Sync
  \/ \E n \in 0..(BlocksFor(total) - 1) : SyncFails(n)
  \/ Open

Spec == Init /\ [][Next]_vars

-----------------------------------------------------------------------------
TypeOK ==
  /\ total \in Lengths /\ len \in Lengths
  /\ used \in Int
  /\ map \subseteq Blocks
  /\ disk \subseteq Nat
  /\ clean \in BOOLEAN /\ lagged \in BOOLEAN

(* No bit at or beyond total_blocks is set in memory, through resizes and  *)
(* reads alike: the byte-wise search of find_free relies on it not to run  *)
(* past the map (tools.c:84-105, bitmap.c:268-272).                        *)
NoBitBeyondEnd == \A b \in map : b < total

(* find_free, with its scan of part of a byte, then whole bytes, returns   *)
(* the lowest free block from the hint on, and 0 exactly when there is     *)
(* none (bitmap.c:52-63).                                                  *)
FindFreeExact ==
  \A hint \in 0..(total - 1) :
    LET free == {b \in hint..(total - 1) : b \notin map}
    IN  FindFree(hint) = IF free = {} THEN 0
                         ELSE CHOOSE b \in free : \A c \in free : b <= c

(* A clean bitmap is on the device bit for bit, whatever writes failed and *)
(* whatever was read back before (bitmap.c:165-217, 427-433).              *)
CleanIsStored == clean => \A b \in 0..(total - 1) : b \in disk <=> b \in map

(* The bitmap blocks offer no block at or beyond the filesystem's end: the *)
(* rest of the last one is written as used (bitmap.c:171-184), as long as  *)
(* each resize has changed the number of bytes.                            *)
BeyondEndTaken ==
  clean /\ ~lagged => \A b \in len..(BlocksFor(len) * BlockBits - 1) : b \in disk

(* Whatever the sequence of resizes, each bitmap block of the filesystem   *)
(* is itself marked used, so nothing is ever placed over the bitmap        *)
(* (bitmap.c:297-303, 376-388).                                            *)
BitmapBlocksUsed == BitmapBlocks(total) \subseteq map

(* Everything is in its range, no bit at or beyond the end is set in       *)
(* memory, and the bitmap's own blocks are marked used, through resizes,   *)
(* failed syncs and reads alike (bitmap.c:268-303, 376-388).               *)
Inv == TypeOK /\ NoBitBeyondEnd /\ BitmapBlocksUsed

(* reiserfs_fs_copy compares used_blocks of the filesystem just opened     *)
(* with the length of the target; what is in use and fits is to be copied  *)
(* (cpfs.reiserfs.8:27-29, core.c:1627-1634).  It does not hold, as the    *)
(* README tells.                                                           *)
WhatFitsIsCopied ==
  [][Open => \A n \in Lengths : Cardinality(map') <= n => used' <= n]_vars
=============================================================================
