---------------------------- MODULE TreeRelocation ----------------------------
(***************************************************************************)
(* reiserfs_segment_relocate: the traversal of libreiserfs/tree.c with the *)
(* callbacks of segment.c moves every block of the tree that has to move,  *)
(* children before parents, for the three callers in core.c: a filesystem  *)
(* that shrinks, one that is copied to another device, and one whose area  *)
(* behind the super block becomes a standard journal.  A node lives in     *)
(* memory from the visit to the write; the device changes block by block,  *)
(* and every read and write may fail.  Block 0 stands for everything up to *)
(* the super block; one bitmap block follows it.                           *)
(***************************************************************************)
EXTENDS Integers, Sequences, FiniteSets

CONSTANTS
  Callers,     \* the callers: of "shrink", "copy" and "tune"
  HostSize,    \* HostSize[c]: the blocks of the filesystem caller c is given
  TargetSize,  \* the blocks of the device a copy goes to
  Meta,        \* Meta[d]: the first blocks of device d ("host" or "target"),
               \* taken by super block, bitmap and journal
  Tree,        \* the tree: Tree[name] = [kind, ptrs], ptrs a sequence of names
  Top,         \* the name of its root node
  Hole,        \* stands for a pointer to no block (0 on the device)
  Lengths,     \* Lengths[c]: for a shrink the new lengths, for a tuning the
               \* wished journal lengths, for a copy the target's lengths
  MinJournal,  \* JOURNAL_MIN_SIZE
  MaxJournal   \* what reiserfs_journal_max_len answers for the device

ASSUME CallersAssumption == Callers \subseteq {"shrink", "copy", "tune"}
ASSUME SizeAssumption ==
  /\ \A c \in Callers : HostSize[c] \in Nat /\ Meta["host"] \in 2..HostSize[c]
  /\ TargetSize \in Nat /\ Meta["target"] \in 2..TargetSize
ASSUME LengthsAssumption ==
  /\ \A c \in Callers : Lengths[c] \subseteq Nat
  /\ "copy" \in Callers => Lengths["copy"] \subseteq 0..TargetSize
  /\ MinJournal \in Nat /\ MaxJournal \in Nat

(* The tree is one: its nodes and blocks are of the three kinds, each name *)
(* but the root's is below one pointer of one node, and a node is higher   *)
(* than what is below it.                                                  *)
Names == DOMAIN Tree
Child(n, j) == Tree[n].ptrs[j]
Heights ==
  {h \in [Names -> 0..(Cardinality(Names) - 1)] :
     \A n \in Names : \A j \in DOMAIN Tree[n].ptrs :
       Child(n, j) # Hole => h[Child(n, j)] < h[n]}

ASSUME TreeAssumption ==
  /\ Top \in Names /\ Tree[Top].kind # "data" /\ Hole \notin Names /\ IsFiniteSet(Names)
  /\ \A n \in Names :
       /\ Tree[n].ptrs \in Seq(Names \cup {Hole})
       /\ \/ /\ Tree[n].kind = "internal"
             /\ \A j \in DOMAIN Tree[n].ptrs :
                  Child(n, j) # Hole /\ Tree[Child(n, j)].kind # "data"
          \/ /\ Tree[n].kind = "leaf"
             /\ \A j \in DOMAIN Tree[n].ptrs :
                  Child(n, j) # Hole => Tree[Child(n, j)].kind = "data"
          \/ Tree[n].kind = "data" /\ Tree[n].ptrs = <<>>
  /\ \A c \in Names \ {Top} : \E n \in Names : \E j \in DOMAIN Tree[n].ptrs : Child(n, j) = c
  /\ \A m, n \in Names : \A i \in DOMAIN Tree[m].ptrs, j \in DOMAIN Tree[n].ptrs :
       Child(m, i) \in Names /\ Child(m, i) = Child(n, j) => m = n /\ i = j /\ Child(m, i) # Top
  /\ Heights # {}

VARIABLES
  caller,  \* whose operation this is
  disk,    \* disk[d][b]: what block b of device d holds
  state,   \* the state in the target's super block: "none", "consistent", "corrupted"
  root,    \* the root block the target's super block names
  free,    \* its count of free blocks
  size,    \* its count of blocks
  ids,     \* the object ids its map has recorded
  used,    \* the target's bitmap in memory
  old,     \* the root block of the tree that is traversed
  len,     \* the length asked for: of the filesystem or of the journal
  area,    \* dst_segment
  stack,   \* the nodes being visited, the root first
  pc,      \* what reiserfs_tree_node_traverse does next
  arg,     \* the block to visit, or the block the visit returned
  placed   \* history: the blocks the relocation has written

super == <<state, root, free, size>>
vars == <<caller, disk, super, ids, used, old, len, area, stack, pc, arg, placed>>

(* Source and target are one device except for a copy.                     *)
SameDevice == caller # "copy"
Src == "host"
Dst == IF SameDevice THEN "host" ELSE "target"
Size == [d \in {"host", "target"} |-> IF d = "host" THEN HostSize[caller] ELSE TargetSize]

Blocks(d) == 0..(Size[d] - 1)
Empty == [kind |-> "none", id |-> Hole, ptrs |-> <<>>]
EmptyLeaf == [kind |-> "leaf", id |-> Hole, ptrs |-> <<>>]

(* The ways to lay the tree out on a device, and what the blocks hold.     *)
Layouts(d) ==
  {at \in [Names -> Meta[d]..(Size[d] - 1)] :
     \A m, n \in Names : at[m] = at[n] => m = n}

Stored(at, name) ==
  [kind |-> Tree[name].kind, id |-> name,
   ptrs |-> [k \in DOMAIN Tree[name].ptrs |->
               IF Tree[name].ptrs[k] = Hole THEN 0 ELSE at[Tree[name].ptrs[k]]]]

Formatted(d, at) ==
  [b \in Blocks(d) |-> IF \E n \in Names : at[n] = b
                       THEN Stored(at, CHOOSE n \in Names : at[n] = b)
                       ELSE Empty]

Init ==
  /\ caller \in Callers
  /\ \E at \in Layouts(Src) :
      /\ disk = [d \in {Src, Dst} |->
                   IF d = Src THEN Formatted(d, at) ELSE [b \in Blocks(d) |-> Empty]]
      /\ old = at[Top]
      /\ IF SameDevice
         THEN /\ state = "consistent" /\ root = old
              /\ size = Size[Src] /\ free = Size[Src] - Meta[Src] - Cardinality(Names)
              /\ used = 0..(Meta[Src] - 1) \cup {at[n] : n \in Names}
         ELSE state = "none" /\ root = 0 /\ size = 0 /\ free = 0 /\ used = {}
      /\ ids = {}
      /\ len = 0
      /\ area = [first |-> 0, last |-> 0]
      /\ stack = <<>> /\ pc = "idle" /\ arg = 0
      /\ placed = {}

-----------------------------------------------------------------------------
(* The callers: each refuses or marks the filesystem corrupted and starts  *)
(* the traversal at the root.                                              *)
Visit(first, last, newLen) ==
  /\ pc = "idle"
  /\ len' = newLen
  /\ area' = [first |-> first, last |-> last]
  /\ arg' = old
  /\ pc' = "enter"
  /\ state' = "corrupted"
  /\ UNCHANGED <<caller, ids, old, stack, placed>>

(* Slip: the comparison with the free blocks is off by one.                *)
BeginShrinkTight(n) ==
  /\ caller = "shrink" /\ n < size /\ n > Meta[Src]
  /\ size - n <= free + 1
  /\ Visit(Meta[Src], n, n)
  /\ UNCHANGED <<disk, root, free, size, used>>

(* reiserfs_fs_shrink; the bitmap keeps its one block.                     *)
BeginShrink(n) ==
  /\ caller = "shrink" /\ n < size /\ n > Meta[Src]
  /\ size - n <= free
  /\ Visit(Meta[Src], n, n)
  /\ UNCHANGED <<disk, root, free, size, used>>

(* The count of used blocks the opened source has: its clear bits, for a   *)
(* bitmap of at most a word (Calc of Bitmap.tla has words as well).        *)
CountedUsed == Size[Src] - Meta[Src] - Cardinality(Names)

(* reiserfs_fs_copy onto a device of n blocks: the filesystem created      *)
(* there has an empty root leaf, whose block is given back first.          *)
BeginCopy(n) ==
  /\ caller = "copy"
  /\ n > Meta[Dst] /\ n >= CountedUsed
  /\ Visit(Meta[Dst], n, n)
  /\ disk' = [disk EXCEPT ![Dst][Meta[Dst]] = EmptyLeaf]
  /\ root' = Meta[Dst]
  /\ size' = n
  /\ free' = n - Meta[Dst] - 1
  /\ used' = 0..(Meta[Dst] - 1)

(* reiserfs_fs_journal_switch_to_standard with nothing reserved: the       *)
(* length of the relocated journal, cut to what is free and to the longest *)
(* journal and raised to the shortest.                                     *)
JournalLength(wished) ==
  LET fits == IF wished >= free THEN free - 1 ELSE wished
      most == IF fits > MaxJournal THEN MaxJournal ELSE fits
  IN  IF most < MinJournal THEN MinJournal ELSE most

BeginTune(wished) ==
  /\ caller = "tune"
  /\ JournalLength(wished) < free
  /\ Visit(Meta[Src] + JournalLength(wished) + 1, size, JournalLength(wished))
  /\ UNCHANGED <<disk, root, free, size, used>>

-----------------------------------------------------------------------------
(* generic_node_write of what was read from block b: a block of the same   *)
(* device that is inside the target area stays; any other is given up and  *)
(* written to the lowest free block from the area's start on.              *)
Inside(b) == area.first <= b /\ b < area.last
Stays(b) == SameDevice /\ Inside(b)
Released(b) == IF SameDevice THEN used \ {b} ELSE used

(* Slip: a block is taken without a look at its bit.                       *)
VacantUntested(b) == area.first..(size - 1) \ {b}

Vacant(b) == {c \in area.first..(size - 1) : c \notin Released(b)}
Target(b) == CHOOSE c \in Vacant(b) : \A other \in Vacant(b) : c <= other

Place(b, content) ==
  /\ Vacant(b) # {}
  /\ used' = Released(b) \cup {Target(b)}
  /\ disk' = [disk EXCEPT ![Dst][Target(b)] = content]
  /\ placed' = placed \cup {Target(b)}

(* The call returns 0: nothing is free, or the write failed with the bits  *)
(* already changed.                                                        *)
PlaceFails(b) ==
  /\ \/ Vacant(b) = {} /\ pc' = "full" /\ used' = Released(b)
     \/ /\ Vacant(b) # {} /\ pc' = "failed"
        /\ used' = Released(b) \cup {Target(b)}
  /\ UNCHANGED <<caller, disk, super, ids, old, len, area, stack, arg, placed>>

-----------------------------------------------------------------------------
(* reiserfs_tree_node_traverse, step by step.                              *)
Depth == Len(stack)
Current == stack[Depth]
Pointer == Current.node.ptrs[Current.i]
AtEnd == Current.i > Len(Current.node.ptrs)
SetTop(frame) == stack' = [stack EXCEPT ![Depth] = frame]

(* Slip: the new place is always stored as the first pointer.              *)
PointFirstTo(b) == [Current EXCEPT !.node.ptrs[1] = b, !.i = @ + 1]

PointTo(b) == [Current EXCEPT !.node.ptrs[Current.i] = b, !.i = @ + 1]

(* callback_node_setup has the target's map record whose leaf it is.       *)
Recorded(node) ==
  IF ~SameDevice /\ node.kind = "leaf" THEN ids \cup {node.id} ELSE ids

(* The node is read; of a leaf on another device the object id is recorded *)
(* (callback_node_setup).                                                  *)
Enter ==
  /\ pc = "enter"
  /\ disk[Src][arg].kind \in {"internal", "leaf"}
  /\ stack' = Append(stack, [nr |-> arg, node |-> disk[Src][arg], i |-> 1, dirty |-> FALSE])
  /\ pc' = IF disk[Src][arg].kind = "leaf" THEN "pieces" ELSE "children"
  /\ ids' = Recorded(disk[Src][arg])
  /\ UNCHANGED <<caller, disk, super, used, old, len, area, arg, placed>>

(* Slip: the loop does not step over a hole.                               *)
KeepPieceStuck ==
  /\ pc = "pieces" /\ ~AtEnd
  /\ Pointer = 0 \/ Stays(Pointer)
  /\ SetTop(IF Pointer = 0 THEN Current ELSE PointTo(Pointer))
  /\ UNCHANGED <<caller, disk, super, ids, used, old, len, area, pc, arg, placed>>

(* The next pointer of the leaf's indirect item: a hole or a block that    *)
(* stays.                                                                  *)
KeepPiece ==
  /\ pc = "pieces" /\ ~AtEnd
  /\ Pointer = 0 \/ Stays(Pointer)
  /\ SetTop(PointTo(Pointer))
  /\ UNCHANGED <<caller, disk, super, ids, used, old, len, area, pc, arg, placed>>

MovePiece ==
  /\ pc = "pieces" /\ ~AtEnd
  /\ Pointer # 0 /\ ~Stays(Pointer)
  /\ Place(Pointer, disk[Src][Pointer])
  /\ SetTop(PointTo(Target(Pointer)))
  /\ UNCHANGED <<caller, super, ids, old, len, area, pc, arg>>

PieceFails ==
  /\ pc = "pieces" /\ ~AtEnd
  /\ Pointer # 0 /\ ~Stays(Pointer)
  /\ PlaceFails(Pointer)

(* Every leaf is marked dirty, whether a pointer changed or not.           *)
PiecesDone ==
  /\ pc = "pieces" /\ AtEnd
  /\ SetTop([Current EXCEPT !.dirty = TRUE])
  /\ pc' = "write"
  /\ UNCHANGED <<caller, disk, super, ids, used, old, len, area, arg, placed>>

Descend ==
  /\ pc = "children" /\ ~AtEnd
  /\ arg' = Pointer
  /\ pc' = "enter"
  /\ UNCHANGED <<caller, disk, super, ids, used, old, len, area, stack, placed>>

(* callback_chld_setup stores where the child went.                        *)
Ascend ==
  /\ pc = "return"
  /\ SetTop([PointTo(arg) EXCEPT !.dirty = TRUE])
  /\ pc' = "children"
  /\ UNCHANGED <<caller, disk, super, ids, used, old, len, area, arg, placed>>

ChildrenDone ==
  /\ pc = "children" /\ AtEnd
  /\ pc' = "write"
  /\ UNCHANGED <<caller, disk, super, ids, used, old, len, area, stack, arg, placed>>

Return(b) ==
  /\ stack' = SubSeq(stack, 1, Depth - 1)
  /\ arg' = b
  /\ pc' = IF Depth = 1 THEN "placed" ELSE "return"
  /\ UNCHANGED <<caller, super, ids, old, len, area>>

(* callback_node_write passes a dirty node on to generic_node_write, which *)
(* leaves whatever is inside the area where it is.                         *)
KeepNode ==
  /\ pc = "write"
  /\ Stays(Current.nr)
  /\ Return(Current.nr)
  /\ UNCHANGED <<disk, used, placed>>

MoveNode ==
  /\ pc = "write"
  /\ ~Stays(Current.nr)
  /\ Place(Current.nr, Current.node)
  /\ Return(Target(Current.nr))

NodeFails ==
  /\ pc = "write"
  /\ ~Stays(Current.nr)
  /\ PlaceFails(Current.nr)

(* A block cannot be read or, when a node is expected, is none.            *)
ReadFails ==
  /\ \/ pc = "enter"
     \/ pc = "pieces" /\ ~AtEnd /\ Pointer # 0
  /\ pc' = "failed"
  /\ UNCHANGED <<caller, disk, super, ids, used, old, len, area, stack, arg, placed>>

-----------------------------------------------------------------------------
(* The callers again, when the traversal has returned the root's block.    *)
Finished ==
  /\ pc = "placed"
  /\ state' = "consistent"
  /\ pc' = "done"
  /\ UNCHANGED <<caller, ids, old, len, area, stack, arg, placed>>

FinishShrink ==
  /\ caller = "shrink"
  /\ Finished
  /\ used' = {b \in used : b < len}
  /\ free' = free - (size - len)
  /\ size' = len
  /\ UNCHANGED <<disk, root>>

(* Slip: the super block keeps the root of the empty tree.                 *)
FinishCopyKeepsRoot ==
  /\ caller = "copy"
  /\ Finished
  /\ free' = size - Cardinality(used)
  /\ UNCHANGED <<disk, root, size, used>>

FinishCopy ==
  /\ caller = "copy"
  /\ Finished
  /\ root' = arg
  /\ free' = size - Cardinality(used)
  /\ UNCHANGED <<disk, size, used>>

(* The journal takes the area the tree has left and its header block.      *)
JournalBlocks == Meta[Src]..(Meta[Src] + len)
Zeroed(bs) == [disk EXCEPT ![Src] = [b \in Blocks(Src) |-> IF b \in bs THEN Empty ELSE @[b]]]

FinishTune ==
  /\ caller = "tune"
  /\ Finished
  /\ root' = arg
  /\ disk' = Zeroed(JournalBlocks)
  /\ used' = used \cup JournalBlocks
  /\ free' = free - (len + 1)
  /\ UNCHANGED size

(* The journal's blocks are written one by one.                            *)
JournalFails(n) ==
  /\ caller = "tune" /\ pc = "placed"
  /\ n \in JournalBlocks
  /\ disk' = Zeroed(Meta[Src]..(n - 1))
  /\ pc' = "lost"
  /\ UNCHANGED <<caller, super, ids, used, old, len, area, stack, arg, placed>>

(* The super block cannot be written.                                      *)
FinishFails ==
  /\ pc = "placed" /\ caller # "tune"
  /\ pc' = "failed"
  /\ UNCHANGED <<caller, disk, super, ids, used, old, len, area, stack, arg, placed>>

Begin == \E n \in Lengths[caller] : BeginShrink(n) \/ BeginCopy(n) \/ BeginTune(n)

Step ==
  \/ Enter \/ KeepPiece \/ MovePiece \/ PieceFails \/ PiecesDone
  \/ Descend \/ Ascend \/ ChildrenDone \/ KeepNode \/ MoveNode \/ NodeFails
  \/ ReadFails
  \/ FinishShrink \/ FinishCopy \/ FinishTune \/ FinishFails
  \/ \E n \in JournalBlocks : JournalFails(n)

Next == Begin \/ Step

Spec == Init /\ [][Next]_vars /\ WF_vars(Step)

-----------------------------------------------------------------------------
TypeOK ==
  /\ DOMAIN disk = {Src, Dst}
  /\ state \in {"none", "consistent", "corrupted"}
  /\ size \in 0..Size[Dst] /\ free \in 0..size /\ root \in Blocks(Dst)
  /\ ids \subseteq Names
  /\ used \subseteq 0..(size - 1) /\ placed \subseteq Blocks(Dst)
  /\ old \in Blocks(Src) /\ arg \in 0..(Size[Src] + Size[Dst])
  /\ pc \in {"idle", "enter", "pieces", "children", "write", "return", "placed",
             "done", "failed", "full", "lost"}

(* The tree below a name, and the tree a reader of the device finds below  *)
(* block b when the filesystem ends before block end.                      *)
Intended ==
  LET Whole[n \in Names \cup {Hole}] ==
        [id |-> n,
         sub |-> IF n = Hole THEN <<>>
                 ELSE [k \in DOMAIN Tree[n].ptrs |-> Whole[Tree[n].ptrs[k]]]]
  IN  Whole

TreeAt(d, b, end) ==
  LET Found[n \in 0..Cardinality(Names)] ==
        [p \in 0..(Size[Src] + Size[Dst]) |->
           IF p = 0 \/ p >= end \/ n = 0 THEN [id |-> Hole, sub |-> <<>>]
           ELSE [id |-> disk[d][p].id,
                 sub |-> [k \in DOMAIN disk[d][p].ptrs |-> Found[n - 1][disk[d][p].ptrs[k]]]]]
  IN  Found[Cardinality(Names)][b]

(* Until the caller has finished, whatever fails and wherever the machine  *)
(* stops, the tree that is being moved still reads whole from its old      *)
(* root: no block it needs is written over (segment.c:55-81).              *)
OldTreeKept ==
  pc \notin {"done", "lost"} => TreeAt(Src, old, Size[Src]) = Intended[Top]

(* A node is written only after everything below it: what a written block  *)
(* leads to is the whole subtree (tree.c:390-406).  A leaf is written on   *)
(* another device only after the object id map there knows its object      *)
(* (segment.c:113-117).                                                    *)
PlacedIsWhole ==
  pc \notin {"done", "lost"} =>
    \A b \in placed :
      /\ TreeAt(Dst, b, Size[Dst]) = Intended[disk[Dst][b].id]
      /\ disk[Dst][b].kind = "leaf" => SameDevice \/ disk[Dst][b].id \in ids

(* The checks of the callers leave exactly enough room: a relocation on    *)
(* one device never runs out of blocks and never places one outside the    *)
(* area it was given (core.c:145-167, 1155-1161).                          *)
RoomSuffices ==
  SameDevice => pc # "full" /\ \A b \in placed : Inside(b)

(* What was written is marked used, and a filesystem marked consistent has *)
(* the count of free blocks its bitmap has, without counting the bits      *)
(* (core.c:204-206, 1186-1188).                                            *)
FreeCountRight ==
  /\ placed \subseteq used
  /\ state = "consistent" => free = size - Cardinality(used)

(* The accounts of a relocation: everything in its range, the room that the*)
(* callers checked for suffices, and the count of free blocks is the       *)
(* bitmap's (core.c:145-167, 204-206, 1155-1161, 1186-1188).               *)
Inv == TypeOK /\ RoomSuffices /\ FreeCountRight

(* A filesystem whose super block says consistent holds the whole tree     *)
(* below the root its super block names (core.c:193-194, 1673-1680).       *)
ConsistentIsWhole ==
  state = "consistent" => TreeAt(Dst, root, size) = Intended[Top]

(* The same of what a copy leaves on the target (core.c:1673-1680).        *)
CopyIsWhole == caller = "copy" => ConsistentIsWhole

(* A filesystem marked consistent has its root within its block count:     *)
(* resizefs is to shrink the filesystem (resizefs.reiserfs.8:25).  It does *)
(* not hold, as the README tells.                                          *)
RootInside == state = "consistent" => root < size

(* Every relocation that was started ends.                                 *)
Ends == pc = "enter" ~> pc \in {"done", "failed", "full", "lost"}
=============================================================================
