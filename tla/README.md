# Verification of progsreiserfs

progsreiserfs 0.3.1 makes, resizes, tunes and copies reiserfs filesystems. It
is sequential C: no threads, no signals, no locks. What makes it hard is that
it changes a filesystem *in place*: a tree is moved under its own feet, block
by block, on a device every access to which may fail, with the super block,
the bitmap and the journal header held in memory and written back later. The
modules here model that core, the library's reading side, its devices and
messages, and the programs as its clients; TLC checks them on small instances,
and TLAPS proves every safety property that is checked for every size.

    tlc -config Bitmap.cfg Bitmap.tla          (the module of each run is in the table below)
    tlapm BitmapProofs.tla                     (and the other modules named ...Proofs)

## The system

| Part | Source | State it keeps | Operations | Interacts with |
|---|---|---|---|---|
| filesystem handle | `libreiserfs/core.c` | `fs->super`, `fs->bitmap`, `fs->journal`, three dirty flags | create, open, resize, copy, tune journal, label, sync, close | calls all parts below; the programs call it |
| object id map | `libreiserfs/object.c` | array of interval bounds at the end of the super block | `reiserfs_object_use`, `_test` | called by tree creation and by a copy for each stat item; marks the super block dirty |
| block bitmap | `libreiserfs/bitmap.c`, `tools.c` | `map`, `total_blocks`, `used_blocks`, `size`, `start` | use, unuse, find free, count, resize, sync, open, create | the handle wraps it and keeps its dirty flag |
| tree relocation | `libreiserfs/segment.c`, `tree.c` | the nodes on the path being visited | `reiserfs_segment_relocate` = traversal with four callbacks | takes blocks from the bitmap, writes the device |
| segment move | `libreiserfs/segment.c` | a counter | `reiserfs_segment_move`, `_fill` | smart resizing, journal creation |
| journal | `libreiserfs/journal.c` | header, parameters | search for transactions, read of a logged block, creation, sync, check before tuning | the kernel writes the log; the handle opens, tunes and closes it |
| tree lookup | `tree.c`, `path.c`, `key.c`, `tools.c` | a path of blocks and positions | lookup, neighbours, comparison of keys | files, directories, objects |
| names and links | `object.c`, `strsep.c`, `hashes.c` | the key and path found so far, the directory's key | search of a name, following links | tree lookup; files and directories open through it |
| file, directory | `file.c`, `dir.c` | an object's path, offset, cached entry | open, read, seek | tree lookup, names |
| block buffers, devices | `block.c`, `libdal/` | a buffer with its number and device; a descriptor, a block size | allocate, read, write, reopen | everything |
| exceptions, gauge | `exception.c`, `gauge.c`, `callback.c`, `libreiserfs.c` | the message thrown last, the installed gauge | throw, catch, fetch; start, touch, finish | everything; a message ends the gauge |
| programs, demos | `progsreiserfs/*`, `demos/` | options, opened devices and handles | command line to exit code | the handle, devices, messages |

The interaction that matters is this: an operation of the handle first writes
the super block with the state *corrupted*, then relocates blocks through the
bitmap in memory and the device, then changes sizes in memory, then writes the
super block with the state *consistent*; the bitmap and the journal's header
follow when the handle is closed (`reiserfs_fs_sync`).

### What is hard, and what must hold

* **A failure anywhere.** Each read and write may fail, and the machine may
  stop. Until a relocation is finished the old tree must stay readable; a
  filesystem left half way must stay marked; a failed sync must leave the dirty
  flag set.
* **Order.** A parent is written after its children; a leaf's object id is
  recorded before the leaf is written; the mark reaches the device before the
  first block moves; an overlapping move goes in the direction that does not
  overwrite what is still to be read.
* **Limits.** The last free block, the last bit of the last byte, the full
  object id array, the ring that wraps.
* **Ways out.** A program has up to ten, each closing what it knows of; the one
  with exit code 0 must not be taken with work undone. A link is followed from
  within the search of a name. A super block may be found in a block of another
  size than its own, and is changed by a log nobody has replayed.
* **Stale values.** A gauge that was freed, the number of a descriptor that was
  closed, free counts computed from old ones, a root block that
  moves, a block count that is taken from a bitmap of another length.

The full list, line by line and with the property that covers each entry, is
`hazards` in `PROJECT.json`.

## The modules

Each action is one operation, handler or loop step of the code; `map` in
`PROJECT.json` gives the lines. Definitions whose comment starts with *Slip*
are not part of a specification: each is a changed form of the definition after
it, which breaks the property `mutants` pairs it with and so shows that the
property depends on the code.

**ObjectidMap** — the map as an array `objectids[0..cursize-1]` with the
super block's dirty flag and the array on the device. `reiserfs_object_use` is
split at its early exits: `AlreadyUsed`, `GrowDown`, `GrowUp`, `Join`, `Insert`,
`WidenDown`, `AppendPair`, `WidenUp`. Where the scan stops (`StopsFirst`) is
translated with its order of tests, because that order is what keeps the array
sorted. **IdReservation** is what the map promises its callers: a set of
reserved ids which only grows, and by just the id asked for as long as there is
room. ObjectidMap implements it with `reserved` as the union of the intervals.

**Bitmap** — the bits as a set, with `total_blocks`, `used_blocks`, the bits
in the bitmap blocks on the device, the block count of the super block and the
dirty flag. The byte-wise search, the word-wise count, the byte-wise resize and
the padding of the last block are translated with the widths as constants, so
that boundaries of a byte, a word and a block all occur within nine blocks.
The environment is limited in two ways: blocks of the reserved set are not
released, and a shrink is asked for only when what it cuts off is empty
(`CutIsEmpty`), which is what the callers see to by relocating first.

**TreeRelocation** — `reiserfs_segment_relocate`. The recursion of
`reiserfs_tree_node_traverse` is the variable `stack`; `pc` says where in the
body it is. A device is a function from blocks to contents, a tree is laid out
on it in every possible way in `Init`. The three callers are the three kinds of
`Begin` and `Finish` action, chosen by `caller`; they differ in the area, the
checks before, and what they store after. Every read and write has a failing
alternative. Smart resizing's use of the same function (`reloc->smart`) is not
in it.

**SegmentMove** — `reiserfs_segment_move`: read, write, callback, step, over
two segments of one device or of two.

**JournalLog** — the ring as a function from offsets to description, data and
commit blocks; the kernel's commits, torn commits and flushes are the
environment (external). `Pipe`, `JournalRead` and `TuneCheck` are the code's.
The ring may have any length, as tuning leaves it. Where the code computes the
place of a logged block with a mask of the length less one, `Masked` is the
remainder for a power of two, and the bitwise *and* (`And`) otherwise.
`TuneCheck` contains a write through pointers that were never set, whose
outcomes are modelled as a choice.

**FsHandle** — the composition at the level of calls: an operation is the list
`todo` of the steps its function still has to do, and any step can fail or be
the last one before the machine stops. What a relocation or the bitmap does
inside is left to the modules above; here a relocation gives the tree a new
placement number and the question is which part of the filesystem reached the
device in which order. `half`, `lost`, `tuned` and `lagged` are history
variables; `lagged` says that a resize has kept the number of bytes of the
bitmap, where the code returns before it gives the bitmap its new length
(bitmap.c:372), so that the two lengths part until the filesystem is opened
again.

**Dal**, **Devices** — Dal has the pure part of a device: its length in blocks,
block sizes, and what `file_read` and `file_write` do with a device that ends
inside the blocks asked for (they do less and succeed). Devices has the handles
with their descriptors, which the system hands out again, the block buffer of
`block.c` with its byte offset, which outlives a change of block size, and an
image file that grows.

**Format** — the device unit by unit: creation (`reiserfs_fs_create` in its
order of writes, any of which may fail or be the last), the kernel that logs a
newer super block, probing with the two places and whatever block size the
device has, opening with all its checks, and the super block that is read again
through the journal. A block larger or smaller than the program's default is
where the units matter: what a buffer has behind its end is the value
`<<"behind">>`. What is no head of a journal is taken for one with zeros in it,
what is no block of a bitmap for one with all bits set or none, as the code
tells neither from another block. A read through the log (`LogReads`) gives the
newer super block, none, or some other block of the log (`Misread`), since the
place of a logged block comes out right only under the conditions JournalLog
gives; `stray` is the history of that.

**TreeLookup** — operators: keys, their comparisons, the binary search, the
path from the root to a leaf and the step to the next item. It keeps no state;
ObjectRead and NameLookup extend it. Its last part, `SearchTree`, states what a
tree has to be for that; ObjectRead assumes it of its objects, NameLookup of its
filesystems. **TreeLayouts** makes trees for their MC modules.

**NameLookup** — `reiserfs_object_find_path`: `frames` is the stack of its
calls, one for each link that is being followed, each with what is left of its
text; `objkey` (the code's `object->key`), `objpath` (`object->path`) and
`dirkey` are shared by all of them, as they are in the code, which is what makes
links hard. A name is a sequence of components, a hash a constant function of a
component, with collisions and a value that masks to 0. The reference is
`Meant`, the meaning of a name by induction over its components (`Walk`) and
over the depth of the links in it (`LinkEnds`); it is `Unclear` for the names
with which the code cannot be expected to agree.

**ObjectRead** — one open file or directory. Its state is that of
`reiserfs_file_t` or `reiserfs_dir_t` with the path of the object; `pc` says
where in a read or seek it is. Every turn of the loops of `reiserfs_file_read`,
`reiserfs_file_read_indirect` and `reiserfs_dir_seek` is an action, and every
read of a node or block may fail. After a lookup that failed the code goes on
with a path that ends above the leaf; the model stops there (`astray`).

**Messages**, **Programs** — Messages has the gauge and the thrown message as a
record and an operator for each function that changes it, with the allocator
that throws a message when it has no memory for anything else. Programs runs
one command line of one program: parsing, the checks of devices and sizes, the
question, the call of the library with its phases, and the ends. Which devices
and filesystems each way out closes is `Abandon`'s second argument, as the
labels of `main` have it. A call of the library is one step here; what it does
to the journal's place and to the mark (`fsys`) is what FsHandle and
TreeRelocation have inside. `fsys` is what the super block of the host says,
with two block sizes: the one it states, and the one the journal was last
written in. A failed sync at the end, of the filesystem or of a device, leaves
the state of what was written *unknown*.

The MC modules only give values: trees, devices, transactions, objects, names,
requests, command lines. The modules named `...Proofs` extend the module they
are about and are described under *Proofs*.

## Runs

Every run is exhaustive within its constants.

| Run | Module | Shows | Bounds, and why they are enough |
|---|---|---|---|
| ObjectidMap | ObjectidMap | `TypeOK`, `Increasing`, `NoIdLost`, `ReservesIds` | ids 1..8, three pairs: every alternative is taken, the array fills and drains by joining. The proofs remove the bounds. |
| Bitmap | Bitmap | `Inv`, `FindFreeExact`, `CleanIsStored`, `BeyondEndTaken` | bytes of 2 bits, blocks of 2 bytes, lengths 3, 5, 6, 9: one to three bitmap blocks, lengths at, before and after the end of a byte and of a block, two that share a byte. `MaxUsed` bounds the drift of `used_blocks`. |
| Relocation | MCTreeRelocation | `Inv`, `OldTreeKept`, `PlacedIsWhole`, `CopyIsWhole`, `Ends` | a root, two leaves, two blocks and a hole, in every layout on 8 to 10 blocks, shrinks that are refused and a target that runs full: any order of placing and releasing happens, and the area is filled to the last block. |
| SegmentMove | MCSegmentMove | `MoveTypeOK`, `AllMoved`, `NothingLost`, `Ends` | two devices of 7 blocks, lengths to 4: overlaps by one block to all, in both directions. The proofs remove the bounds. |
| JournalLog | MCJournalLog | `Inv`, `FirstLapRead` | ring of 8, five transactions of 3 or 4 blocks: the ring is overwritten once and a half, and a transaction wraps around its end. |
| FsHandle | FsHandle | `Inv`, `ConsistentFits`, `HalfStaysMarked`, `MovedWhileMarked` | three lengths of filesystem, two of which share a byte of the bitmap, two of the journal, four fresh numbers (`MaxFresh`): creation and two more operations that move blocks or make a journal, with any number of others between. |
| ObjectRead | MCObjectRead | `Inv`, `ReadRight`, `ReadEnds` | seven files and three directories of one to three items between items of others, in every division into leaves, under one node or two: blocks of 3 bytes, offsets that wrap at 8, so that items, blocks, holes and the wrap fall on each other in all ways. |
| NameLookup | MCNameLookup | `NamesInv`, `ResolvesRight`, `LookupEnds` | four filesystems with two links each (to a directory, to each other, through themselves, empty), cut into leaves at every place and put under one node or two, fifteen names: a link in the first, middle and last place, dots, empty components, a collision. `MaxNesting` is one more than there are links, so a nesting that goes on is told from one that ends. |
| Devices | MCDevices | `DevicesInv`, `OwnDescriptor` | a device of three units, an image of one that may grow to two, block sizes 1, 2 and 3 (refused), two alike handles (symmetry), two descriptors: blocks inside, across and behind the end, and a descriptor that is handed out again. |
| Format | MCFormat | `Inv`, `FreeRight`, `FoundAgain`, `SuperIsLast` | the default block has two units; creations with blocks of one, two and four, at both ends of the device and beyond it, standard and relocated journals, over nothing, over an old filesystem whose super block is at the other place, and over one whose journal has to be tuned first; a block of the log taken for the super block is one of zeros, one with a length beyond the device or one with another length. |
| Programs | MCPrograms | `Inv`, `RefusedLeavesAlone`, `SuccessIsWhole`, `JournalWhereAsked`, `Ends` | more than 200 command lines: each option right and wrong, a journal's device that is the host, the new one, a file or missing, sizes below, at and beyond the device and below 0, filesystems with the default block size and a smaller one, every answer to the question, and a failure in each call. |
| TuneTree | MCTreeRelocation | refutes `ConsistentIsWhole`, see below | as Relocation |

`Inv` is the type invariant of its module together with what is wanted at all
times of its parts: in Bitmap that no bit lies beyond the end and the bitmap's
own blocks stay taken, in TreeRelocation that the room suffices and the free
count is right, in JournalLog that the scan finds each unflushed transaction
and no torn one, in FsHandle that between calls what is not dirty is on the
device, in ObjectRead that lookups and seeks find what is there, in NameLookup
(`NamesInv`) that nesting is bounded, in Devices (`DevicesInv`) that transfers are whole, in Format that an
opened super block was read whole, in Programs that the gauge tells the truth.

`CHECK_DEADLOCK FALSE` is said where an operation really ends (a move, a
relocation), where the kernel's transactions are used up (`MaxId`), where
the fresh numbers are (`MaxFresh`), where a read or a search of a name has
ended without a result (`ObjectRead`, `NameLookup`) and where a program has
exited. `Bitmap`, `ObjectidMap`, `Devices` and `Format` never stop and are
checked for it.

**Fairness.** `SegmentMove`, `TreeRelocation`, `ObjectRead`, `NameLookup` and
`Programs` assume weak fairness of the program's own step: it is one sequential
process, nothing it waits for can block it (a question to a user whose input has
ended returns, and a failing access is also a step). The liveness properties
(`Ends`, `ReadEnds`, `LookupEnds`) say that the loops terminate: the counter that
runs down through 0, the traversal over holes and pieces, the components of a
name and its links, three prompts. The other modules need none.

## What does not hold

One run has a statement of the repository as its only property, and TLC finds
the behaviour that refutes it: `TuneTree`. A changed node inside the target
area of a relocation is not written, so after tuning a filesystem that says it
is consistent can have lost part of its tree (segment.c:46).

Four more statements are kept in the modules, at the end, and are not part of a
run; putting one in the place of a configuration's properties shows the
behaviour:

* `WhatFitsIsCopied` (Bitmap, a temporal property) — `reiserfs_bitmap_calc`
  adds the wrong thing for a single bit, so an opened bitmap counts its clear
  bits (and the set bits of full words) as used and `reiserfs_fs_copy` refuses
  copies that fit (bitmap.c:86, core.c:1628, against cpfs.reiserfs.8:28). The
  same count makes the assertion in `reiserfs_bitmap_unused` fail.
* `RootInside` (TreeRelocation) — a shrink never stores the new root block
  (core.c:1177).
* `CheckedIsReplayed` (JournalLog) — the check for transactions that still have
  to be replayed accepts a journal that could not be read or was never flushed
  (journal.c:484, core.c:124).
* `ReopenedIsNewest` (JournalLog) — the place of a logged block is computed with
  a mask that is wrong for every length but a power of two, and beyond the first
  lap for those too, and the search does not wrap (journal.c:245, 199).
  `FirstLapRead` says where it is right.

More weaknesses show up as conditions of properties that hold. A resize that
keeps the number of bytes of the bitmap does not change `total_blocks`
(bitmap.c:372), which is why `BeyondEndTaken` speaks of what happens before
(`lagged`), and why `BitmapFits` asks for the bytes of the bitmap always, but for
its length only without such a resize. After a shrink within a byte the bitmap
of the handle still offers the blocks behind the new end, and after a growth
within a byte the new blocks keep the set bits of the padding on the device.
The super block that says *consistent* is written before the bitmap
(core.c:1369), which is why `ConsistentFits` leaves out what a machine that
stopped left behind (`lost`); `HalfStaysMarked` has no such condition. Tuning a
standard journal to another length changes nothing and succeeds (core.c:292,
against tunefs.reiserfs.8:52-55), so `TuningKept` speaks of relocated journals.

Reading has most of them. `FirstRead` is all that holds of a file: the first
read after opening returns the right bytes up to the end of the first item. A
hole yields no bytes and does not move the offset (file.c:124); a seek counts the
place in an item from its key, one too few, so that a read at the start of the
second block returns the first block again (file.c:262); a read that used up its
item leaves a position that makes every further seek fail (file.c:246); a seek
from 4 GB on looks for the low half of the place (`Wrap`, key.c:116). A
directory that lies under two parents is not listed to its end (`DirectoryListed`
excludes it), and a place to seek is not the number of an entry once an item has
been crossed (`SeekAcross` counts one for the new item).

Names: a link in the last two components of a name or of a link's text is not
followed when it should be (object.c:327 looks for a separator one character too
far), a link to a link is followed one step only, the text of a link is read
from the leaf of its stat item even when it lies in the next one, of two names
with one hash the first is taken for both, and a link whose text leads through
itself, or ends at another link with a separator behind it, is followed without
bound (object.c:343). The test that refuses to open a file for writing on a
read-only filesystem can never be true, since `O_RDONLY` is 0 (file.c:33).

Devices: 0 passes for a power of two (dal.c); a reopen that fails has closed
the descriptor and keeps its number, which the next device to be opened gets
(file.c:211), so `OwnDescriptor` speaks of what happens before; `file_open`
follows the pointer `dal_open` answered before it looks at it; a plain file has
device number 0, so a journal on an image is never opened. A handle whose
reopen failed is therefore without any guarantee.

Opening: probing leaves the block size it believed to find behind, and with
`quiet` follows a null pointer when a block cannot be read (core.c:698); a super
block found in a smaller block is copied with what lies behind the buffer, unless
it is read again through the journal (core.c:776, which is why `OpenedWhole`
asks for that); the check that it is consistent is made before the newer version
is read from the log (core.c:1307). What the log gives for the super block
(core.c:749) may be another block of it, or nothing although a newer super block
is there: nothing but the number of blocks in it is compared with the device, so
a filesystem can be opened with a super block that is none, or refused, without
a read having failed. `FoundAgain`, `FreeRight` and the part of `TypeOK` about
the stated block size leave this out (`stray`); that what is opened lies inside
its device, has the right block size and journal, and was read whole holds even
then. Opening does not look at the head of a journal or at the blocks of the
bitmap closely either: zeros pass for a head (journal.c:292), and any block for
one of the bitmap (bitmap.c:213). A creation that fails over an old filesystem
with another block size may leave the old super block to be found with its
journal already zeroed (core.c:1494).

Programs: tunefs moves a relocated journal to the host whenever no new device
is named, also when only a label was asked for (tunefs.c:233), and takes a new
device that equals the old one for the host (tunefs.c:200). Whether anything is
to be tuned is decided from where the journals are and from the numbers given
(tunefs.c:234), so a new device alone does not move a journal that is already
relocated; and one tuned to another device with the same boundaries stays
(core.c:283). The length of a journal that comes back to the host is not the one
asked for (core.c:147). The new device is opened with the default block size
before the filesystem's is known (tunefs.c:204) and is never given the other:
with blocks of 1024, 2048 or 8192 bytes the journal is written to another place
than the super block says, and tunefs exits with 0. `JournalWhereAsked` therefore
asks for the right block size only in filesystems of the default one, and of a
relocated journal only when it was written anew with other boundaries.

A resize with a new begin (core.c:1065) marks the super block in its old place
and writes the one that says *consistent* further on; the old one stays marked,
and the bitmap that is synced at close goes to its old place, which for a begin
of 1 is where the new super block is (`LeftAs` says what the old place holds;
what lies at the new one is not modelled). A size below 0 is divided as an
unsigned number and so comes out as more blocks than there are (tools.c:163).
With one argument behind its options resizefs looks at the word before it, the
option or the program's own name, for a device (resizefs.c:123).

That a device could not be synchronised is a warning in tunefs, resizefs and
cpfs and nothing at all for mkfs's journal (mkfs.c:430), and the exit code is 0;
`SuccessIsWhole` leaves that out together with a filesystem whose last sync
failed, which `reiserfs_fs_close` tells nobody (`unsynced`).
`reiserfs_journal_max_len` wraps when the start is past the end of the device
(journal.c:123), and the call then fails only when it writes. resizefs exits with
0 when the journal's device is not there; a refused tunefs closes neither the
filesystem nor the new device; mkfs that refuses a size leaves the journal's
device open. Where memory is short for the message about that, the message is
thrown again until the stack is used up (`crashed`). lookup follows the last
node of an empty path; ls and traverse exit with 0 when a read failed.

## Proofs

Each proof module extends the module it is about and holds for every value of
its constants under the assumptions named there, which TLC evaluates on every
run. Nothing else is assumed. A theorem `XHolds` states the property `X` of the
run of that module as a theorem of its specification; `Sound` states the
inductive invariant `IInv`, which TLC has checked as well (that of TreeRelocation
for each caller alone, on smaller devices than its run has). What the runs are
bounded in (widths, lengths, numbers of handles and calls, trees, command lines)
is arbitrary in the proofs.

| Module | Proves | Assumes |
|---|---|---|
| ObjectSegmentProofs | of ObjectidMap: `TypeOK`, `Increasing`, `NoIdLost`, `CleanIsStored`, and that it implements IdReservation | an even capacity of at least two |
| | of SegmentMove: `MoveTypeOK`, `AllMoved`, `NothingLost`, `OthersKept` | lengths are not 0 |
| BitmapProofs | `Inv`, `FindFreeExact`, `CleanIsStored`, `BeyondEndTaken` | widths are not 0, the bitmap's first block lies in the part it describes, a filesystem reaches beyond it |
| JournalDevicesProofs | of JournalLog: `Inv`, `FirstLapRead` | the ring's length is not 0, a transaction logs something and fits in; that the length is a power of two is a condition of `FirstLapRead`, not of the module |
| | of Devices: `DevicesInv`, `OwnDescriptor` | a name stands for a device, some block size is a power of two |
| FsHandleProofs | `Inv`, `ConsistentFits`, `HalfStaysMarked`, `MovedWhileMarked` | lengths and the width of a byte are not 0 |
| TreeRelocationProofs | `Inv`, `OldTreeKept`, `PlacedIsWhole`, `CopyIsWhole` | the tree is one: every name but the root's has one parent, heights fall on the way down, kinds fit them; a copy is no longer than its target; the metadata takes at least two blocks |
| ProgramsProofs | `Inv`, `RefusedLeavesAlone`, `SuccessIsWhole`, `JournalWhereAsked` | a command line names one of the programs, there is a host |
| FormatProofs | `Inv`, `FreeRight`, `FoundAgain`, `SuperIsLast` | block sizes are powers of two that divide the super block's offset; the first bitmap block lies in the part it describes; a filesystem must have more blocks than a default block has units; what a device holds at first, see below |
| ReadProofs | of ObjectRead: `Inv`, `ReadRight` | the tree is a search tree, the object's items are all those with its id, laid out as the kernel does, see below |
| | of NameLookup: `NamesInv`, `ResolvesRight` | the tree is a search tree, every object has a stat and items that go with its mode, there is a root directory, hashes are numbers, see below |

**ObjectidMap.** None of the middle two is inductive alone: that no id is lost
when two intervals are joined needs the order of the bounds, and the order
needs to know where the scan stopped. `Inv` is the conjunction of the type, the
order and coverage; one lemma per alternative of `reiserfs_object_use` gives the
array after it, one says where an id that is not in the array lies between the
bounds. The refinement follows from what each alternative does to `Covered`.

**SegmentMove.** The strengthening (`Progress`) says which part of the segment
has been copied, which part of the source is still as it was, and what the
buffer holds; with overlapping segments its second part is true only in the
direction the code chooses, which is the whole point of it.

SegmentMove names what every module has `MoveInit`, `MoveNext` and so on, so
that one proof module can extend it beside ObjectidMap; the two have nothing to
do with each other. Devices (`DevicesInit`, ...) stands beside JournalLog in the
same way, and NameLookup (`NamesInit`, ...) beside ObjectRead, with which it
shares the lookup.

**Bitmap.** What is inductive is the type, the bits of the reserved set, that no
bit lies beyond the end of what the bitmap's size can hold (`Sized`) and that
before the first resize that left `total_blocks` behind it is the super block's
count (`Level`). The arithmetic is in lemmas about quotients: what the byte-wise
resize keeps and what the padding of the last block covers. The recursive count
and the byte-wise search are functions; that the one has numbers for values and
that the other finds the first clear bit, or none when there is none, is shown
by the least number for which it would not.

**TreeRelocation.** `IInv` speaks of two things no variable holds: the layout
`at` the tree had at first, and the set `moved` of the names the traversal is
through with. Both are existentially quantified. Of `at` it says that every old
block holds what it held (`Kept`), and which old blocks are still taken: those
that stay and those whose turn has not come (`Taken`). With what the callers
have asked for (`Asked`) and the bits counted (`Counted`) this gives the room:
the blocks inside the area that are still taken are no more than the free ones
outside, so the search for a place succeeds. A frame of the stack has new places
before the pointer it has come to and old ones behind it (`Framed`), the frames
are a way down the tree (`Chained`), and all that is below a name in `moved` is
in it (`Closed`). `moved` ends up with every name: the highest one left out
would lie below one that is in. That blocks with the right kinds and pointers
read as the intended tree is one lemma (`ReadsWhole`), by the lowest node that
would read otherwise.

**JournalLog.** Every offset is put at its distance ahead of the kernel's next
one (`Dist`), so that the ring is a line. `Described` says that a description
belongs to a complete transaction or to the torn one at the kernel's offset,
`Committed` that no commit block is newer than the kernel's next id, `Queued`
that the unflushed transactions lie one behind the other up to the kernel's
offset, `FirstLap` that before the ring wraps nothing complete lies ahead of
them. From these, the scan finds exactly the complete transactions and the pipe
hands out the unflushed ones in order, by the least one it would not. None of
this depends on the ring's length. In the first lap of a ring whose length is a
power of two, where the mask is the remainder, the search for a logged block
reads the newest.

**FsHandle.** `todo`, what a call has still to do, is one of some forty
sequences: the first part of FsHandleProofs names them and computes the first
step and the rest of each. The invariant says, plan by plan, what is marked on the device and in
memory (`MarkedRight`), which of the parts in memory already fit each other
(`OpenFits`, `MakeFits`), and, once a handle can only be closed, that what the
device will hold when everything dirty is written fits too (`FinalFits`).
`ConsistentFits` is not inductive without the last: a sync writes the super
block before the bitmap. Of the bitmap's length these say that it has the bytes
for the super block's, and that it is the super block's unless `lagged`.
`HalfMarked` is what keeps a filesystem marked from the step that failed to the
end; no condition about lost writes is needed there.

**Devices.** `OwnDescriptor` needs that the lowest free descriptor is free and
that a reopen which fails is the only thing that leaves a number behind
(`Apart`); that transfers are whole needs that a buffer belongs to an opened
device (`Owned`) and that a device which is not a plain file keeps its length
(`LengthsKept`).

**Programs.** The invariant goes along the program: which program can be where
(`Places`), that devices it may write are there (`Present`), that a gauge
exists exactly while something is followed and one ended by a message stays
ended (`Gauged`), that nothing is done before the question and no more without
a yes (`Asks`), that only a clean filesystem is changed and is left changed
until the end, what the work left it as (`Whole`, `Leaving`), and that the
device for the moving journal is open before the journal is there and the
journal is where the work put it (`Moves`, `Arrives`). One lemma per action; the
ways out are one lemma, since all they do is close.

**Format.** `IInv` has a part for each thing a later step relies on. `DiskRight`
says of the device that there is at most one super block, at one of the two
places, whole and with a block size that is a power of two; that a filesystem
which was made is laid out as it was asked for (`Laid`: the super block, the
journal's head, the blocks of the bitmap and the count of free blocks that
belongs to them); and that what the kernel has logged is that super block,
marked. `HandlesRight` bounds the block sizes a device can be left with to the
default one and those of super blocks that are there, which is why a probe that
begins with any of them ends at the right place. `CreationRight` says step by
step what a creation has done, `ReadRight` what a handle that is being opened
has read: the super block of its place, the log's, or (`stray`) another block of
the log, of which only its length is known to fit. None of the four properties is inductive without them: `FreeRight`
after an open needs that the bits read are those the creation stored, and those
need that no later write of the creation hits a block of the bitmap, the super
block or the journal's head (`BlocksDiffer`, `SyncLaid`). How many blocks a new
filesystem has taken is a sum over disjoint intervals (`TakenCount`). For
`SuperIsLast`, which compares a state with the next, each step either leaves a
unit that was no new super block (`StepIsSound`) or is the creation's last.

BeforeAssumption, of what the devices hold at first, is about the outside: a
device comes with no super block or with one, of either format, that is not cut
off by the device's end; where `made` says that there is a filesystem, it is
whole, as mkfs leaves it. MisreadAssumption says of a block that is taken for a
super block only that its count of blocks is a number. What else is on the device is arbitrary. That no
second super block is ever there later, and that what was made stays whole, are
part of what is proved.

**ObjectRead.** Most of the proof is about what never changes, the tree. The
binary search is a function of two bounds; that it answers the place of a key
that is there and otherwise the place it belongs is shown by the shortest
stretch of an array on which it would not (`SearchesExist`, `SearchIs`). From node to
node the position of the lookup is the child whose keys enclose the one that is
looked for (`Guided`), so the descent comes to the one leaf it can be in
(`LookupLeads`), and all items of the leaves left of that one are smaller, all
right of it larger (`LeavesOrdered`): two ways down are compared at the node
where they part (`Part`). With this a seek comes to the last item of the object
that begins at or before the place (`SoughtIs`), although its key carries no
type and its offset wraps, and the key right of a leaf leads to the next item of
a directory, whatever lies between (`AcrossIs`): the item after the last one in
a leaf is the first one in the next, by there being no third leaf between the
two (`Neighbours`).

The invariant then says where an open object stands (`Standing`: at one of its
items, inside it) and what was read: in a first read every byte before the place
(`FirstBytes`), with the place at the end of a block or of the item
(`FirstDirect`, `FirstIndirect`), and all there is when it ended (`FirstEnds`);
in a listing the joined entries of the items before the one it stands at and
those of this one before the place (`ListedAt`). `ReadRight` is not inductive
without these, since it says nothing of where the object stands; and the type
is not without `Underway`: that a seek for the next entry ends inside an item
needs that no item of a directory is empty.

ObjectsAssumption, of the objects, is what the code takes for granted of the
trees the kernel keeps. A tree is a search tree (`SearchTree`): nodes hold keys
in order, one child more than keys and no empty leaf; a key is larger than all
items left of it and is the key of the first item right of it; no two items of
an object begin at the same offset. An object has one stat item, which comes
first; no other begins at 0. Of a file only the last item may be a direct one,
and then the file ends in it; items of a directory have entries, and no leaf has
two of one directory. Lengths, heights, the items of others and how leaves are
cut are arbitrary.

**NameLookup.** The lookup is that of ObjectRead; what is added for names is
that the search for an entry sees all entries of the directory with the hash,
whichever of its items they are in (`EntriesFound`), and that what lies behind a
link's stat in its leaf is the link's text (`TextIs`).

That the nesting is bounded needs to know what the calls are for: `Nest` says
that each call but the outermost has what is left of the text of some link, and
that the text of the one before names an entry leading to that link. So the
links on the stack form a way through the texts; with more calls than links one
comes twice, and leads through itself (`ChainTurns`, by the pigeonhole
principle). A call whose text is used up and is still on the stack would break
the chain. It can only be there when a link's text ends at another link
(`EndsAtLink`), for then the code stops at the second link and goes on with it
as with a directory; that is why the property excludes it (`NoLinkIn`).

`ResolvesRight` compares a stack of calls with an induction over names. `Road`
says that they agree: there are a name and a first directory for every call
such that the call has read its name up to `Here`, where the call above it has
its end (`End`), and the topmost call has come to `objkey`. When a link is
followed, where it leads is by definition where its text leads from the
directory (`LinkLeads`), so the new call begins on the road; when a text is at
its end, the link it was for leads to where the search is, so the call below
goes on from there (`ReturnOnRoad`). Where one call has come to nothing that can
be opened, all below it lead to nothing (`RoadDead`), so a refusal is right.
The invariant (`OnRoad`) says this as long as `Meant` is not `Unclear`. The
depth at which a call's links are evaluated falls with the height of the call,
which ties the meaning to the nesting: a name whose links are nested deeper
than `MaxNesting` has no meaning.

WorldsAssumption, of the filesystems, is what the code takes for granted. The
tree is a search tree; every object has a stat, with offset 0, and every other
item goes with its object's mode: entries with a directory, one text, with
offset 1 and not empty, with a link, and with a regular file its data, which
begins with an indirect item when the file is large and with a direct one
otherwise (a file without that cannot be opened, as the code looks for the one
its size lets expect). Items of a directory have entries, none of
which lies before the item's own offset or behind the beginning of the next
item, and no two entries of a directory have the same name. Where entries lead
to is arbitrary (also to nothing), and so are hashes, collisions, texts, and how
items are cut into leaves.

Only model-checked:

* Liveness (`Ends`, `ReadEnds`, `LookupEnds`): the prover handles neither
  fairness nor `ENABLED`.

What a recursive function computes is within reach where the least input on
which it would go wrong leads to a contradiction; the library's theorems of
induction are not, since they take an operator as a parameter.

## Plan

Done: the core that changes a filesystem (ObjectidMap, Bitmap, TreeRelocation,
SegmentMove, JournalLog, FsHandle), the reading side (TreeLookup, ObjectRead,
NameLookup), devices and creation (Dal, Devices, Format), messages and programs
(Messages, Programs), and the proofs about ObjectidMap, SegmentMove, Bitmap,
TreeRelocation, JournalLog, FsHandle, Devices, Programs, Format, ObjectRead and
NameLookup: every invariant and every action property of a run is a theorem.

Left, most important first:

1. Smart resizing as a composition of SegmentMove, Bitmap (with a start) and
   TreeRelocation (`reloc->smart`).
2. An abstract "marked update" (mark, change, unmark) which FsHandle implements.

## Not modelled

Smart resizing (`reiserfs_fs_resize_smart`, with a start that is not 0) is one
step of Programs and nothing more. It rewrites the device for a partition that
will begin elsewhere: the bitmap is shifted in memory, while the blocks given up
are still counted from the old start (segment.c:55) and the bitmap is written at
its old place when the handle is closed (bitmap.c:231), after which the super
block's place is the default one again (core.c:1140); what Programs has of it is
that the super block in the old place stays marked. A model needs two places
for every part of the filesystem; that nothing in the repository says what the
result should be makes it the last of the list.

The mixing functions of `hashes.c` are a constant function with collisions. The
gettext and getopt sources are vendored. `debug/test.in` runs the programs.
`ASSERT` is taken as true: its conditions are what the callers see to.
Conversion between byte orders is left out: it is applied on each access and
undone on the next. Copy and clone of a bitmap have no caller. The way backwards
of `reiserfs_dir_seek` is dead code, since it rewinds before (dir.c:97).
That a super block may say of its journal that it has to be tuned first
(`JOURNAL_NEED_TUNE`, core.c:1318) is in Format, where such a filesystem is
opened without its journal, and not in Programs.
The kernel is an environment: it logs blocks in JournalLog and a newer super
block in Format, and nothing else.
