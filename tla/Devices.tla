------------------------------ MODULE Devices ------------------------------
(***************************************************************************)
(* Opened devices and the buffer of a block: libdal/dal.c and file.c over  *)
(* the descriptors of the process, libreiserfs/block.c over both.  The     *)
(* block size of an opened device may be changed at any time, and a buffer *)
(* remembers its place in bytes.                                           *)
(***************************************************************************)
EXTENDS Dal, FiniteSets

CONSTANTS
  Handles,     \* what file_open returns
  Names,       \* names of devices and files
  Target,      \* the device or file each name is for
  Regular,     \* the regular files: they grow when written at their end
  Contents,    \* what is on the devices at first, in units
  Sizes,       \* block sizes asked for
  Numbers,     \* block numbers asked for
  MaxFd,       \* descriptors of the process
  MaxLength,   \* bound: a regular file grows no longer
  MaxWrites    \* bound: writes of a behaviour

ASSUME SizesAssumption == Sizes \subseteq Nat \ {0} /\ \E size \in Sizes : PowOfTwo(size)
Closed == "closed"

Held == UNION {{Contents[device][i] : i \in DOMAIN Contents[device]} :
                 device \in DOMAIN Contents}

ASSUME NamesAssumption ==
  /\ Target \in [Names -> DOMAIN Contents]
  /\ Closed \notin Names \cup Handles \cup DOMAIN Contents
ASSUME ContentsAssumption == Contents \in [DOMAIN Contents -> Seq(Held)]
ASSUME BoundsAssumption == Numbers \subseteq Nat /\ MaxFd \in Nat /\ MaxLength \in Nat

VARIABLES
  content,  \* the units of each device
  fds,      \* the descriptors: what each is open on
  dals,     \* the opened devices: [data, fd, blocksize, flags], or NoDal
  block,    \* the buffer: [offset, dal, data], or NoBlock
  last,     \* history: the last transfer and whether it was inside the device
  lost,     \* history: a reopen failed
  writes

devicesVars == <<content, fds, dals, block, last, lost, writes>>

NoDal == [data |-> Closed, fd |-> 0, blocksize |-> 1, flags |-> Closed]
NoBlock == [offset |-> 0, dal |-> Closed, data |-> <<>>]
Nothing == [op |-> "none", dal |-> Closed, nr |-> 0, inside |-> FALSE]
Opened == {h \in Handles : dals[h].data # Closed}
HasBlock == block.dal # Closed
DeviceOf(h) == fds[dals[h].fd]

DevicesInit ==
  /\ content = Contents
  /\ fds = [fd \in 1..MaxFd |-> Closed]
  /\ dals = [h \in Handles |-> NoDal]
  /\ block = NoBlock
  /\ last = Nothing /\ lost = FALSE /\ writes = 0

(* open(): the lowest descriptor that is free.                             *)
Free(table) == {fd \in 1..MaxFd : table[fd] = Closed}
Lowest(table) == CHOOSE fd \in Free(table) : \A other \in Free(table) : fd <= other

-----------------------------------------------------------------------------
(* file_open; a block size that is no power of two is refused by dal_open, *)
(* which file_open does not expect: its callers give powers of two.        *)
FileOpen(h, name, blocksize, flags) ==
  /\ h \notin Opened /\ PowOfTwo(blocksize) /\ Free(fds) # {}
  /\ fds' = [fds EXCEPT ![Lowest(fds)] = Target[name]]
  /\ dals' = [dals EXCEPT ![h] = [data |-> name, fd |-> Lowest(fds),
                                  blocksize |-> blocksize, flags |-> flags]]
  /\ last' = Nothing
  /\ UNCHANGED <<content, block, lost, writes>>

(* file_reopen: the old descriptor is given up before there is a new one.  *)
(* Slip: the new one is opened first, and its number not stored.           *)
FileReopenFirst(h, flags) ==
  /\ h \in Opened
  /\ Free(fds) # {}
  /\ fds' = [fds EXCEPT ![Lowest(fds)] = Target[dals[h].data], ![dals[h].fd] = Closed]
  /\ dals' = [dals EXCEPT ![h].flags = flags]
  /\ last' = Nothing
  /\ UNCHANGED <<content, block, lost, writes>>

FileReopen(h, flags) ==
  /\ h \in Opened
  /\ LET closed == [fds EXCEPT ![dals[h].fd] = Closed]
     IN  \/ /\ fds' = [closed EXCEPT ![Lowest(closed)] = Target[dals[h].data]]
            /\ dals' = [dals EXCEPT ![h].fd = Lowest(closed), ![h].flags = flags]
            /\ UNCHANGED lost
         \/ /\ fds' = closed
            /\ lost' = TRUE
            /\ UNCHANGED dals
  /\ last' = Nothing
  /\ UNCHANGED <<content, block, writes>>

(* file_close; the owner has freed the buffers of the device.              *)
FileClose(h) ==
  /\ h \in Opened
  /\ HasBlock => block.dal # h
  /\ fds' = [fds EXCEPT ![dals[h].fd] = Closed]
  /\ dals' = [dals EXCEPT ![h] = NoDal]
  /\ last' = Nothing
  /\ UNCHANGED <<content, block, lost, writes>>

DalSetBlocksize(h, blocksize) ==
  /\ h \in Opened
  /\ dals' = [dals EXCEPT ![h] = SetBlocksize(@, blocksize)]
  /\ last' = Nothing
  /\ UNCHANGED <<content, fds, block, lost, writes>>

-----------------------------------------------------------------------------
(* reiserfs_block_alloc: a buffer of zeros for block nr.                   *)
Zeros(n) == [i \in 1..n |-> 0]
Allocated(h, nr) ==
  [offset |-> Offset(dals[h], nr), dal |-> h, data |-> Zeros(dals[h].blocksize)]

BlockAlloc(h, nr) ==
  /\ h \in Opened /\ ~HasBlock
  /\ block' = Allocated(h, nr)
  /\ last' = Nothing
  /\ UNCHANGED <<content, fds, dals, lost, writes>>

(* reiserfs_block_read.                                                    *)
(* Slip: the block at the end is inside.                                   *)
InsideOrAtEnd(h, nr) == DeviceOf(h) # Closed /\ nr <= DalLen(dals[h], content[DeviceOf(h)])

Inside(h, nr) == DeviceOf(h) # Closed /\ nr < DalLen(dals[h], content[DeviceOf(h)])

BlockRead(h, nr) ==
  /\ h \in Opened /\ ~HasBlock
  /\ Inside(h, nr)
  /\ LET r == FileRead(dals[h], content[DeviceOf(h)], Zeros(dals[h].blocksize), nr)
     IN  r.ok /\ block' = [Allocated(h, nr) EXCEPT !.data = r.buffer]
  /\ last' = [op |-> "read", dal |-> h, nr |-> nr, inside |-> TRUE]
  /\ UNCHANGED <<content, fds, dals, lost, writes>>

(* reiserfs_block_get_nr: by the block size the device has now.            *)
GetNr == block.offset \div dals[block.dal].blocksize

(* The buffer as write() sees it: what lies behind it when the block size  *)
(* of the device has grown.                                                *)
Written(h) ==
  LET size == dals[h].blocksize
  IN  [i \in 1..size |-> IF i <= Len(block.data) THEN block.data[i] ELSE "behind"]

(* How much of the write is stored: all that fits on a device; a regular   *)
(* file grows, or the disk it is on is full.                               *)
Fits(h, nr) ==
  LET off == Offset(dals[h], nr)
      size == dals[h].blocksize
      there == Len(content[DeviceOf(h)])
  IN  IF off + size <= there THEN {size}
      ELSE IF DeviceOf(h) \in Regular
      THEN {n \in 1..size : off + n >= there /\ off + n <= MaxLength}
      ELSE {n \in 1..size : off + n = there}

BlockWrite(h) ==
  /\ h \in Opened /\ HasBlock /\ dals[h].flags = "rw" /\ DeviceOf(h) # Closed
  /\ writes < MaxWrites
  /\ \E n \in Fits(h, GetNr) :
       content' = [content EXCEPT ![DeviceOf(h)] =
                     FileWrite(dals[h], @, Written(h), GetNr, n)]
  /\ last' = [op |-> "write", dal |-> h, nr |-> GetNr, inside |-> Inside(h, GetNr)]
  /\ writes' = writes + 1
  /\ UNCHANGED <<fds, dals, block, lost>>

(* reiserfs_block_set_nr, reiserfs_block_set_dal, reiserfs_block_realloc;  *)
(* only the last one looks at the size of the buffer.                      *)
BlockSetNr(nr) ==
  /\ HasBlock
  /\ block' = [block EXCEPT !.offset = Offset(dals[block.dal], nr)]
  /\ last' = Nothing
  /\ UNCHANGED <<content, fds, dals, lost, writes>>

BlockSetDal(h) ==
  /\ HasBlock /\ h \in Opened
  /\ block' = [block EXCEPT !.dal = h]
  /\ last' = Nothing
  /\ UNCHANGED <<content, fds, dals, lost, writes>>

BlockRealloc(nr) ==
  /\ HasBlock
  /\ LET size == dals[block.dal].blocksize
     IN  block' = [block EXCEPT
           !.data = [i \in 1..size |-> IF i <= Len(@) THEN @[i] ELSE "behind"],
           !.offset = Offset(dals[block.dal], nr)]
  /\ last' = Nothing
  /\ UNCHANGED <<content, fds, dals, lost, writes>>

BlockFree ==
  /\ HasBlock
  /\ block' = NoBlock
  /\ last' = Nothing
  /\ UNCHANGED <<content, fds, dals, lost, writes>>

DevicesNext ==
  \/ \E h \in Handles :
       \/ \E name \in Names, size \in Sizes, flags \in {"r", "rw"} :
            FileOpen(h, name, size, flags)
       \/ \E flags \in {"r", "rw"} : FileReopen(h, flags)
       \/ FileClose(h)
       \/ \E size \in Sizes : DalSetBlocksize(h, size)
       \/ \E nr \in Numbers : BlockAlloc(h, nr) \/ BlockRead(h, nr)
       \/ BlockWrite(h)
       \/ BlockSetDal(h)
  \/ \E nr \in Numbers : BlockSetNr(nr) \/ BlockRealloc(nr)
  \/ BlockFree

DevicesSpec == DevicesInit /\ [][DevicesNext]_devicesVars

-----------------------------------------------------------------------------
(* A buffer belongs to an opened device, a block size is a power of two,   *)
(* and only regular files change their length (dal.c:91-101, block.c:26).  *)
DevicesTypeOK ==
  /\ \A h \in Opened :
       /\ dals[h].data \in Names /\ dals[h].fd \in 1..MaxFd
       /\ dals[h].blocksize # 0 /\ PowOfTwo(dals[h].blocksize)
  /\ HasBlock => block.dal \in Opened /\ block.offset \in Nat
  /\ \A device \in DOMAIN content :
       Len(content[device]) # Len(Contents[device]) => device \in Regular

(* Neither read() nor write() is asked how much it did.  Through the buffer *)
(* of a block that shows in no result: what was read is all from the       *)
(* device, whatever block size it has been set to, and what was written    *)
(* inside the device from a buffer of the right size is there in full      *)
(* (file.c:46-49, 68-71, block.c:75-86).                                   *)
TransferIsWhole ==
  last.op # "none" =>
    LET units == UnitsAt(content[DeviceOf(last.dal)], Offset(dals[last.dal], last.nr),
                         dals[last.dal].blocksize)
    IN  /\ last.op = "read" => block.data = units
        /\ last.op = "write" /\ last.inside /\ Len(block.data) = dals[last.dal].blocksize
             => block.data = units

(* Block sizes stay powers of two and offsets inside their device, only    *)
(* plain files change their length, and transfers are whole (dal.c:91-101, *)
(* file.c:34-75, block.c:70-97).                                           *)
DevicesInv == DevicesTypeOK /\ TransferIsWhole

(* Each opened device has a descriptor of its own that is open on what its *)
(* name is for, as long as no reopen failed: one that fails leaves the     *)
(* number of a descriptor that the next open gets (file.c:205-224).        *)
OwnDescriptor ==
  ~lost => \A h \in Opened :
    /\ DeviceOf(h) = Target[dals[h].data]
    /\ \A other \in Opened \ {h} : dals[other].fd # dals[h].fd
=============================================================================
