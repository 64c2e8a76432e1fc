------------------------------ MODULE ObjectRead ------------------------------
(***************************************************************************)
(* Reading one file (libreiserfs/file.c) or one directory (dir.c) through  *)
(* the tree.  An open object keeps the path to the item it is in and       *)
(* positions inside it; it moves to another item by a new lookup.  Reads   *)
(* of the device may fail.  A byte of a file is named by its position in   *)
(* the file, an entry of a directory by its hash.                          *)
(***************************************************************************)
EXTENDS TreeLookup, SequencesExt

CONSTANTS
  BlockSize,    \* bytes in a block
  MaxDirect,    \* MAX_DIRECT_ITEM_LEN
  PointerSize,  \* bytes of a pointer in an indirect item
  StatWords,    \* pointers a stat item would hold if it were an indirect one
  Objects,      \* the objects to read: [kind, size, items, tree]; items are
                \* those of the object, tree has them and others
  Object,       \* the object's id in the keys
  Wants,        \* lengths a read asks for
  Places        \* places a seek asks for

ASSUME SizesAssumption ==
  /\ Wrap > 1 /\ BlockSize \in Nat \ {0} /\ PointerSize \in Nat \ {0} /\ MaxDirect \in Nat
  /\ StatWords \in Nat /\ StatWords * BlockSize < Wrap
ASSUME InputsAssumption == Wants \subseteq Nat \ {0} /\ Places \subseteq Nat

(* An object's items follow its stat item; only the last one of a file is a*)
(* direct item, and then the file ends in it or before it was padded.      *)
FileLaid(o) ==
  /\ o.size \in Nat
  /\ \A k \in 2..Len(o.items) :
       LET item == o.items[k]
       IN  \/ item.type = IT /\ item.ptrs \in Seq(BOOLEAN)
           \/ /\ item.type = DT /\ item.len \in Nat /\ k = Len(o.items)
              /\ o.size <= item.off - 1 + item.len

(* A leaf holds no two items of one directory: they would be one item.     *)
DirectoryLaid(o) ==
  /\ \A k \in 2..Len(o.items) :
       o.items[k].type = DR /\ o.items[k].entries \in Seq(Nat) \ {<<>>}
  /\ \A up \in Ways(o.tree, o.tree.height - 1, Len(o.stored)) :
       \A i, j \in DOMAIN LeafItems(o.tree, up) :
         LET leaf == LeafItems(o.tree, up)
         IN  leaf[i].obj = Object /\ leaf[j].obj = Object /\ leaf[i].type = DR /\ leaf[j].type = DR
               => i = j

Laid(o) ==
  /\ o.stored \in Seq({o.stored[k] : k \in DOMAIN o.stored}) /\ SearchTree(o.tree, o.stored)
  /\ o.items \in Seq({o.items[k] : k \in DOMAIN o.items}) \ {<<>>} /\ Sorted(o.items)
  /\ {o.items[k] : k \in DOMAIN o.items} =
       {o.stored[k] : k \in {i \in DOMAIN o.stored : o.stored[i].obj = Object}}
  /\ o.items[1].type = SD /\ o.items[1].off = 0
  /\ \A k \in 2..Len(o.items) : o.items[k].off # 0
  /\ \/ o.kind = "file" /\ FileLaid(o)
     \/ o.kind = "directory" /\ DirectoryLaid(o)

ASSUME ObjectsAssumption == \A o \in Objects : Laid(o)

VARIABLES
  object,   \* the object that is open
  path,     \* entity->path: positions from the root to the item
  offset,   \* of the file in bytes, of the directory in entries
  block,    \* offset_it: the next pointer of an indirect item
  byte,     \* offset_dt: the next byte of a direct item
  local,    \* the next entry of a directory item
  pc,       \* "closed", "ready", "read", "item", "seek", "next", "astray"
  want,     \* bytes the read asked for, or the entry the seek asked for
  got,      \* the bytes read so far, or all entries read since the rewind
            \* as long as no seek came between
  fresh,    \* history: nothing but reads of entries, or but the present
            \* read of bytes, has happened since the rewind
  ended     \* history: the last read found no further item and no failure

vars == <<object, path, offset, block, byte, local, pc, want, got, fresh, ended>>

tree == object.tree
IsFile == object.kind = "file"
Item == ItemAt(tree, path)
Whole == Len(path) = tree.height

(* get_ih_unfm_nr of an item of any type.                                  *)
Words(item) ==
  CASE item.type = IT -> Len(item.ptrs)
    [] item.type = DT -> item.len \div PointerSize
    [] OTHER -> StatWords

(* The first item of the data: what rewinding looks for.                   *)
FirstKey ==
  Key(Object, 1, IF ~IsFile THEN DR ELSE IF object.size > MaxDirect THEN IT ELSE DT)
FirstPath == PathTo(tree, FirstKey, tree.height, 4)
HasFirst == Found(tree, FirstPath, FirstKey, 4)

(* Opening ends with rewinding; a file whose first item is not of the type *)
(* its size lets expect cannot be opened.                                  *)
Init ==
  /\ object \in Objects
  /\ path = FirstPath
  /\ pc = IF HasFirst THEN "ready" ELSE "closed"
  /\ offset = 0 /\ block = 0 /\ byte = 0 /\ local = 0
  /\ want = 0 /\ got = <<>>
  /\ fresh = TRUE /\ ended = FALSE

(* A lookup that cannot read a node leaves a path that ends above the      *)
(* leaf; the callers go on with it: they take a key of an internal node    *)
(* for an item, or there is no node at all.                                *)
LookupFails(key, n) ==
  /\ \E depth \in 0..(tree.height - 1) : path' = PathTo(tree, key, depth, n)
  /\ pc' = "astray"
  /\ UNCHANGED <<object, offset, block, byte, local, want, got, fresh, ended>>

(* reiserfs_file_rewind, reiserfs_dir_rewind.                              *)
Rewind ==
  /\ pc = "ready"
  /\ \/ /\ path' = FirstPath
        /\ offset' = 0 /\ block' = 0 /\ byte' = 0 /\ local' = 0
        /\ got' = <<>> /\ fresh' = TRUE /\ ended' = FALSE
        /\ UNCHANGED <<object, pc, want>>
     \/ LookupFails(FirstKey, 4)

-----------------------------------------------------------------------------
(* reiserfs_file_seek.                                                     *)
Refused(place) == place >= object.size \/ block >= Words(Item)

SeekKey(place) == Key(Object, place + 1, SD)

Sought(place) ==
  LET to == PathTo(tree, SeekKey(place), tree.height, 3)
  IN  IF Found(tree, to, SeekKey(place), 3) THEN to ELSE StepBack(to)

(* The distance into the item is counted from its key, which starts at 1.  *)
(* An item of another object would be refused; SeekFindsItem says that it  *)
(* is never found.                                                         *)
MoveTo(place) ==
  \E to \in {Sought(place)} :
    LET start == KeyOffset(ItemAt(tree, to))
        delta == IF place > start THEN place - start ELSE 0
    IN  /\ ItemAt(tree, to).obj = Object
        /\ path' = to
        /\ offset' = place
        /\ block' = delta \div BlockSize
        /\ byte' = delta

FileSeek(place) ==
  /\ IsFile /\ pc = "ready" /\ ~Refused(place)
  /\ \/ /\ MoveTo(place)
        /\ fresh' = FALSE
        /\ UNCHANGED <<object, local, pc, want, got, ended>>
     \/ LookupFails(SeekKey(place), 3)

-----------------------------------------------------------------------------
(* reiserfs_file_read: a seek to the present offset, then as much of one   *)
(* item as is there, and so on.                                            *)
FileRead(n) ==
  /\ IsFile /\ pc = "ready" /\ offset < object.size
  /\ pc' = "read" /\ want' = n /\ got' = <<>> /\ ended' = FALSE
  /\ fresh' = (fresh /\ offset = 0)
  /\ UNCHANGED <<object, path, offset, block, byte, local>>

NextItem ==
  /\ pc = "read" /\ Len(got) < want /\ ~Refused(offset)
  /\ \/ /\ MoveTo(offset)
        /\ pc' = "item"
        /\ UNCHANGED <<object, local, want, got, fresh, ended>>
     \/ LookupFails(SeekKey(offset), 3)

(* Slip: a read goes on as long as something is missing, whatever the      *)
(* seek answers.                                                           *)
ReadDoneFull ==
  /\ pc = "read"
  /\ Len(got) >= want
  /\ pc' = "ready" /\ ended' = TRUE
  /\ UNCHANGED <<object, path, offset, block, byte, local, want, got, fresh>>

ReadDone ==
  /\ pc = "read"
  /\ Len(got) >= want \/ Refused(offset)
  /\ pc' = "ready" /\ ended' = TRUE
  /\ UNCHANGED <<object, path, offset, block, byte, local, want, got, fresh>>

(* The n bytes from byte first of what the item holds; a direct item may   *)
(* be padded beyond the end of the file.                                   *)
Bytes(item, first, n) ==
  [i \in 1..n |-> IF item.off - 1 + first + i - 1 < object.size
                  THEN item.off - 1 + first + i - 1 ELSE "pad"]

Least(a, b) == IF a < b THEN a ELSE b
Missing == want - Len(got)

Copy(first, n) ==
  /\ got' = got \o Bytes(Item, first, n)
  /\ offset' = offset + n

(* reiserfs_file_read_direct.                                              *)
ReadDirect ==
  /\ pc = "item" /\ Item.type = DT
  /\ LET chunk == Least(Item.len - byte, Missing)
     IN  Copy(byte, chunk) /\ byte' = byte + chunk
  /\ pc' = "read"
  /\ UNCHANGED <<object, path, block, local, want, fresh, ended>>

(* reiserfs_file_read_indirect, pointer by pointer.                        *)
(* Slip: the last pointer is left out.                                     *)
MoreButLast == block + 1 < Words(Item) /\ Missing > 0

More == block < Words(Item) /\ Missing > 0
IsHole == ~Item.ptrs[block + 1]

SkipHole ==
  /\ pc = "item" /\ Item.type # DT /\ More /\ IsHole
  /\ block' = block + 1
  /\ UNCHANGED <<object, path, offset, byte, local, pc, want, got, fresh, ended>>

ReadBlock ==
  /\ pc = "item" /\ Item.type # DT /\ More /\ ~IsHole
  /\ LET inside == offset % BlockSize
     IN  Copy(block * BlockSize + inside, Least(BlockSize - inside, Missing))
  /\ block' = block + 1
  /\ UNCHANGED <<object, path, byte, local, pc, want, fresh, ended>>

ReadBlockFails ==
  /\ pc = "item" /\ Item.type # DT /\ More /\ ~IsHole
  /\ pc' = "ready"
  /\ UNCHANGED <<object, path, offset, block, byte, local, want, got, fresh, ended>>

ItemDone ==
  /\ pc = "item" /\ Item.type # DT /\ ~More
  /\ pc' = "read"
  /\ UNCHANGED <<object, path, offset, block, byte, local, want, got, fresh, ended>>

-----------------------------------------------------------------------------
(* reiserfs_dir_seek.  A place behind the present one rewinds first: the   *)
(* unsigned difference is larger than any offset, and so the code's way    *)
(* backwards is never taken.                                               *)
DirSeek(place) ==
  /\ ~IsFile /\ pc = "ready"
  /\ \/ /\ IF place < offset
           THEN path' = FirstPath /\ local' = 0 /\ offset' = 0
           ELSE UNCHANGED <<path, local, offset>>
        /\ pc' = "seek" /\ want' = place
        /\ got' = <<>> /\ fresh' = FALSE /\ ended' = FALSE
        /\ UNCHANGED <<object, block, byte>>
     \/ place < offset /\ LookupFails(FirstKey, 4)

Seeking == pc \in {"seek", "next"} /\ offset # want

(* Within the item at most to its end.                                     *)
SeekInside ==
  /\ Seeking /\ local < Len(Item.entries)
  /\ LET step == Least(Len(Item.entries) - local, want - offset)
     IN  local' = local + step /\ offset' = offset + step
  /\ UNCHANGED <<object, path, block, byte, pc, want, got, fresh, ended>>

(* At its end the key right of it in the parent says whether the next leaf *)
(* goes on with this directory.  Right of the last child there is no key;  *)
(* what is read there is taken not to be a key of the directory.           *)
ParentKeys == NodeAt(tree, path, tree.height - 1).keys
ParentPos == path[tree.height - 1]
RightKey == ParentKeys[ParentPos + 1]

GoesOn ==
  /\ tree.height > 1 /\ ParentPos < Len(ParentKeys)
  /\ RightKey.obj = Object /\ RightKey.type = DR

SeekAcross ==
  /\ Seeking /\ local >= Len(Item.entries) /\ GoesOn
  /\ \/ /\ path' = PathTo(tree, RightKey, tree.height, 4)
        /\ local' = 0 /\ offset' = offset + 1
        /\ UNCHANGED <<object, block, byte, pc, want, got, fresh, ended>>
     \/ LookupFails(RightKey, 4)

SeekStuck ==
  /\ Seeking /\ local >= Len(Item.entries) /\ ~GoesOn
  /\ pc' = "ready" /\ ended' = (pc = "next")
  /\ UNCHANGED <<object, path, offset, block, byte, local, want, got, fresh>>

SeekDone ==
  /\ pc = "seek" /\ offset = want
  /\ pc' = "ready"
  /\ UNCHANGED <<object, path, offset, block, byte, local, want, got, fresh, ended>>

(* reiserfs_dir_read: from the end of an item it seeks the next entry.     *)
TakeEntry ==
  /\ got' = IF fresh THEN Append(got, Item.entries[local + 1]) ELSE <<>>
  /\ local' = local + 1 /\ offset' = offset + 1
  /\ pc' = "ready"
  /\ UNCHANGED <<object, path, block, byte, want, fresh, ended>>

DirReadHere ==
  /\ ~IsFile /\ pc = "ready" /\ local < Len(Item.entries)
  /\ TakeEntry

DirReadNext ==
  /\ ~IsFile /\ pc = "ready" /\ local >= Len(Item.entries)
  /\ pc' = "next" /\ want' = offset + 1 /\ ended' = FALSE
  /\ UNCHANGED <<object, path, offset, block, byte, local, got, fresh>>

DirReadFound == pc = "next" /\ offset = want /\ TakeEntry

-----------------------------------------------------------------------------
Step ==
  \/ NextItem \/ ReadDone \/ ReadDirect
  \/ SkipHole \/ ReadBlock \/ ReadBlockFails \/ ItemDone
  \/ SeekInside \/ SeekAcross \/ SeekStuck \/ SeekDone \/ DirReadFound

Next ==
  \/ Rewind
  \/ \E place \in Places : FileSeek(place) \/ DirSeek(place)
  \/ \E n \in Wants : FileRead(n)
  \/ DirReadHere \/ DirReadNext
  \/ Step

Spec == Init /\ [][Next]_vars /\ WF_vars(Step)

-----------------------------------------------------------------------------
(* While an object is read its path leads to one of its own items, and the *)
(* positions stay inside: in a direct item never past its end, where the   *)
(* length of a chunk would wrap around, and never more bytes than the read *)
(* asked for, whatever was read or sought before (file.c:94-102, 135-138). *)
TypeOK ==
  /\ pc \in {"closed", "ready", "read", "item", "seek", "next", "astray"}
  /\ offset \in Nat /\ block \in Nat /\ byte \in Nat /\ local \in Nat /\ want \in Nat
  /\ pc \notin {"closed", "astray"} =>
       /\ Whole /\ Item.obj = Object
       /\ Item.type = DR => local <= Len(Item.entries)
       /\ Item.type = DT => byte <= Item.len
  /\ IsFile => Len(got) <= want

(* The binary search and the keys of the internal nodes lead to every item *)
(* of the tree (tree.c:287-341, tools.c:282-318).                          *)
EveryItemFound ==
  offset = 0 /\ got = <<>> => \A k \in DOMAIN object.stored :
    LET item == object.stored[k]
        to == PathTo(tree, item, tree.height, 4)
    IN  Found(tree, to, item, 4) /\ ItemAt(tree, to) = item

(* A seek in a file comes to the last of its items that begins at or       *)
(* before the place, as long as the place fits the low half of an offset   *)
(* (file.c:249-257).                                                       *)
SeekFindsItem ==
  IsFile /\ offset = 0 /\ got = <<>> => \A place \in 0..(object.size - 1) : place + 1 < Wrap =>
    LET item == ItemAt(tree, Sought(place))
    IN  /\ item.obj = Object /\ item.off <= place + 1
        /\ \A k \in DOMAIN object.items :
             object.items[k].off > item.off => object.items[k].off > place + 1

(* Positions stay inside what they point into, every item of the tree is   *)
(* found by its key, and a seek in a file comes to the item that holds the *)
(* place (tree.c:287-341, tools.c:282-318, file.c:249-257).                *)
Inv == TypeOK /\ EveryItemFound /\ SeekFindsItem

Contiguous == \A k \in DOMAIN object.items :
  object.items[k].type = IT => \A i \in DOMAIN object.items[k].ptrs : object.items[k].ptrs[i]

(* The first read after opening or rewinding a file without holes returns  *)
(* its bytes from the first one on, and all that was asked for up to the   *)
(* end of the file's first item (file.c:110-148, 165-184).  Holes are      *)
(* skipped without a byte, a read that begins elsewhere takes positions    *)
(* that are off by one, a direct item shorter than a pointer is not read   *)
(* (file.c:246): no more than this holds.                                  *)
FirstRead ==
  IsFile /\ fresh /\ Contiguous =>
    LET first == object.items[2]
        there == IF first.type = DT THEN first.len ELSE Len(first.ptrs) * BlockSize
    IN  /\ \A i \in 1..Least(Len(got), object.size) : got[i] = i - 1
        /\ ended /\ Words(first) > 0 =>
             Len(got) >= Least(want, Least(object.size, there))

Entries == FlattenSeq([k \in 1..(Len(object.items) - 1) |-> object.items[k + 1].entries])

(* Reading a directory from its start returns its entries in order, none   *)
(* twice and none left out, and ends only after the last one unless the    *)
(* leaves have different parents (dir.c:102-145, 201-216).                  *)
DirectoryListed ==
  ~IsFile /\ fresh =>
    /\ IsPrefix(got, Entries)
    /\ ended /\ tree.height < 3 => got = Entries

(* The first read of a file returns its bytes, and a directory is listed   *)
(* entry by entry (file.c:110-184, dir.c:102-145, 201-216).                *)
ReadRight == FirstRead /\ DirectoryListed

(* Every read and every seek comes to an end.                              *)
ReadEnds == pc \in {"read", "item", "seek", "next"} ~> pc \in {"ready", "astray"}
=============================================================================
