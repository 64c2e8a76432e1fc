------------------------------ MODULE Format ------------------------------
(***************************************************************************)
(* Where things are on a device: creating a filesystem writes them with    *)
(* the block size that was asked for, and opening has to find them from    *)
(* the default block size on (libreiserfs/core.c, journal.c, tree.c).      *)
(*                                                                         *)
(* A device is a sequence of units of the smallest block size; the number  *)
(* of a unit in comments counts from 0 as in the code.  Between creating   *)
(* and opening the kernel may mount the filesystem: it marks the super     *)
(* block in place or in its log.                                           *)
(***************************************************************************)
EXTENDS Dal, FiniteSets

CONSTANTS
  Default,      \* DEFAULT_BLOCK_SIZE, in units
  BitsPerUnit,  \* blocks a unit of the bitmap stands for
  MinTree,      \* 100: blocks a new filesystem must have beside its metadata
  JournalMin,   \* JOURNAL_MIN_SIZE
  Before,       \* what may be on the devices at first: [host, other, made]
  Stat,         \* st_rdev of the two devices: 0 for an image file
  Requests,     \* what mkfs asks for: [blocksize, len, rel, start, jlen]
  Misread       \* what blocks of the log say that are no super block, taken for one

SuperOffset == 16 * Default

(* The first block of the bitmap lies in the part it describes, and what a *)
(* filesystem must have is more than a block of the default size.  mkfs    *)
(* cannot open a device with another block size (dal.c:72).                *)
ASSUME SizesAssumption ==
  /\ Default \in Nat \ {0} /\ PowOfTwo(Default)
  /\ BitsPerUnit \in Nat /\ SuperOffset + 2 < BitsPerUnit
  /\ MinTree \in Nat /\ Default <= MinTree + 3 /\ JournalMin \in Nat
  /\ Stat \in [{"host", "other"} -> Nat]
ASSUME RequestsAssumption ==
  /\ Requests \subseteq
       [blocksize : Nat \ {0}, len : Nat, rel : BOOLEAN, start : Nat, jlen : Nat]
  /\ \A r \in Requests : PowOfTwo(r.blocksize) /\ SuperOffset % r.blocksize = 0
ASSUME MisreadAssumption == \A super \in Misread : super.count \in Nat

Zero == <<"zero">>
NoJournal == [start |-> 0, len |-> 0, dev |-> 0]
NoRequest == [blocksize |-> 0, len |-> 0, rel |-> FALSE, start |-> 0, jlen |-> 0,
              bitmap |-> FALSE, first |-> 0]
Signed(units) == units[1][1] = "super"

(* reiserfs_journal_max_len for a device with so many blocks; the          *)
(* difference is unsigned.                                                 *)
MaxLenOf(blocks, blocksize, start, rel) ==
  LET whole == IF rel THEN blocks ELSE BitsPerUnit * blocksize
  IN  IF start + 1 > whole THEN 2^30 ELSE whole - start - 1

(* reiserfs_journal_params_check.                                          *)
ParamsFit(blocks, blocksize, start, len, rel) ==
  /\ ~rel => start \in {0, (SuperOffset \div blocksize) + 2}
  /\ len <= MaxLenOf(blocks, blocksize, start, rel)
  /\ len = 0 \/ len >= JournalMin

(* Where the blocks of the bitmap are: the first one right behind the super*)
(* block, the others at the first block they describe.                     *)
BitmapPlace(off, blocksize, k) == IF k = 0 THEN off + 1 ELSE k * blocksize * BitsPerUnit
BitmapBlocks(count, blocksize) == ((count - 1) \div (BitsPerUnit * blocksize)) + 1

-----------------------------------------------------------------------------
(* What the devices may hold at first: super blocks only at the places of  *)
(* the two formats, and only one, of which no part is cut off; if a        *)
(* filesystem is said to have been made then one that is whole.            *)
SuperPlaces == {SuperOffset, 2 * Default}
Supers == [jr : BOOLEAN, count : Nat, bs : Nat \ {0}, free : Int, clean : BOOLEAN, root : Nat,
           jp : [start : Nat, len : Nat, dev : Nat], tune : BOOLEAN]

Sequence(content) == content \in Seq({content[i] : i \in DOMAIN content})

SupersSound(host) ==
  /\ \A i \in DOMAIN host : host[i][1] # "behind"
  /\ \A i \in DOMAIN host : host[i][1] = "super" =>
       /\ i - 1 \in SuperPlaces /\ host[i] = <<"super", host[i][2]>>
       /\ host[i][2] \in Supers
       /\ PowOfTwo(host[i][2].bs) /\ (i - 1) % host[i][2].bs = 0
       /\ i - 1 + host[i][2].bs <= Len(host)
  /\ \A i, j \in DOMAIN host : host[i][1] = "super" /\ host[j][1] = "super" => i = j

(* The head of the journal has the parameters the super block has.         *)
HeadLaid(content, super) ==
  LET at == super.jp.start + super.jp.len
      head == content[at * super.bs + 1]
  IN  /\ (at + 1) * super.bs <= Len(content)
      /\ head[1] = "head" /\ head[2].len = super.jp.len
      /\ head[2] \in [start : Nat, len : Nat, dev : Nat]
      /\ ParamsFit(Len(content) \div super.bs, super.bs, head[2].start, head[2].len, super.jr)

(* The blocks of the bitmap have as many bits as the super block says.     *)
BitsLaid(content, off, super) ==
  LET Place(k) == BitmapPlace(off, super.bs, k) * super.bs + 1
      nrs == 0..(BitmapBlocks(super.count, super.bs) - 1)
  IN  /\ \A k \in nrs : Place(k) \in DOMAIN content /\ content[Place(k)][1] = "bits"
      /\ super.free = super.count - Cardinality(UNION {content[Place(k)][2] : k \in nrs})
      /\ UNION {content[Place(k)][2] : k \in nrs} # {}

Laid(content, request, place) ==
  LET super == content.host[place + 1][2]
  IN  /\ place + Default <= Len(content.host)
      /\ content.host[place + 1][1] = "super"
      /\ super.jr = request.rel /\ super.count = request.len
      /\ super.bs = request.blocksize /\ super.jp.len = request.jlen
      /\ super.count # 0 /\ ~super.tune
      /\ super.count * super.bs <= Len(content.host)
      /\ HeadLaid(content[IF super.jr THEN "other" ELSE "host"], super)
      /\ BitsLaid(content.host, place \div super.bs, super)

ASSUME BeforeAssumption ==
  \A before \in Before :
    /\ Sequence(before.host) /\ Sequence(before.other) /\ SupersSound(before.host)
    /\ before.made # NoRequest => \E place \in SuperPlaces :
         Laid([host |-> before.host, other |-> before.other], before.made, place)

VARIABLES
  disk,    \* [host, other]: the units of the two devices
  dals,    \* [host, journal]: the opened devices, data "" for none
  pc,
  fs,      \* the handle: the super block with its other units, where it is,
           \* the journal's parameters, what the bitmap has taken; history:
           \* stray, the super block is another block of the log
  asked,   \* the request that is being carried out
  logged,  \* the newer super block the kernel's log has, or NoSuper
  made,    \* history: what the filesystem was created as, NoRequest for none
  unread   \* history: a read failed since the devices were opened

vars == <<disk, dals, pc, fs, asked, logged, made, unread>>

NoDal == [data |-> "", blocksize |-> Default, flags |-> "r"]
NoSuper == [jr |-> FALSE, count |-> 0, bs |-> 1, free |-> 0, clean |-> FALSE, root |-> 0,
            jp |-> NoJournal, tune |-> FALSE]
NoFs == [super |-> NoSuper, rest |-> <<>>, off |-> 0, journal |-> NoJournal,
         opened |-> FALSE, used |-> {}, stray |-> FALSE]
Creation(r) == [NoRequest EXCEPT !.blocksize = r.blocksize, !.len = r.len, !.rel = r.rel,
                                 !.start = r.start, !.jlen = r.jlen]

Content(dal) == disk[dal.data]
Bs == dals.host.blocksize

Init ==
  /\ \E before \in Before :
       /\ disk = [host |-> before.host, other |-> before.other]
       /\ made = before.made
  /\ dals = [host |-> NoDal, journal |-> NoDal]
  /\ pc = "idle" /\ fs = NoFs /\ asked = NoRequest /\ logged = NoSuper
  /\ unread = FALSE

(* The units from the first one on replaced by a sequence.                 *)
Put(content, first, units) ==
  [i \in DOMAIN content |->
     IF i > first /\ i <= first + Len(units) THEN units[i - first] ELSE content[i]]

Fill(n, unit) == [i \in 1..n |-> unit]

-----------------------------------------------------------------------------
(* The parameters of a journal.                                            *)
Relocated(dal) == dal.data # "" /\ ~Equals(dals.host, dal)

ParamsCheck(dal, start, len, rel) ==
  ParamsFit(DalLen(dal, Content(dal)), dal.blocksize, start, len, rel)

-----------------------------------------------------------------------------
(* Creating.                                                               *)
SuperBlk == SuperOffset \div asked.blocksize
BitmapNr == BitmapBlocks(asked.len, asked.blocksize)

(* reiserfs_fs_create_check.                                               *)
TreeStart(r) ==
  (SuperOffset \div dals.host.blocksize) + 2 + (IF r.rel THEN 0 ELSE r.jlen + 1)
CreateCheck(r) ==
  /\ PowOfTwo(r.blocksize) /\ r.blocksize <= SuperOffset
  /\ r.len > 0 /\ r.len <= DalLen(dals.host, Content(dals.host))
  /\ r.len > TreeStart(r) + MinTree

(* mkfs opens the devices with the block size of the filesystem to be.     *)
OpenFor(r) ==
  [host |-> [data |-> "host", blocksize |-> r.blocksize, flags |-> "rw"],
   journal |-> [data |-> IF r.rel THEN "other" ELSE "host",
                blocksize |-> r.blocksize, flags |-> "rw"]]

OpenToCreate(r) ==
  /\ pc = "idle"
  /\ dals' = OpenFor(r) /\ asked' = Creation(r)
  /\ pc' = "create" /\ unread' = FALSE
  /\ UNCHANGED <<disk, fs, logged, made>>

(* reiserfs_bitmap_create: its own blocks are marked.                      *)
BitmapCreate ==
  /\ pc = "create"
  /\ IF CreateCheck(asked)
     THEN /\ pc' = "clobber"
          /\ fs' = [NoFs EXCEPT !.used =
               {SuperBlk + 1} \cup
               {i * asked.blocksize * BitsPerUnit : i \in 1..(BitmapNr - 1)}]
     ELSE pc' = "failed" /\ UNCHANGED fs
  /\ UNCHANGED <<disk, dals, asked, logged, made, unread>>

(* reiserfs_fs_super_create: zeros up to the super block, in blocks of one *)
(* unit, then the super block in memory.                                   *)
(* Slip: the journal is counted as used although it is elsewhere.          *)
NewFreeAll ==
  asked.len - SuperBlk - 1 - (asked.jlen + 1) - BitmapNr - 1

NewFree ==
  asked.len - SuperBlk - 1 - (IF asked.rel THEN 0 ELSE asked.jlen + 1) - BitmapNr - 1

NewSuper ==
  [jr |-> asked.rel, count |-> asked.len, bs |-> asked.blocksize, free |-> NewFree,
   clean |-> TRUE, root |-> 0,
   jp |-> [start |-> asked.start, len |-> asked.jlen, dev |-> IF asked.rel THEN 1 ELSE 0],
   tune |-> FALSE]

(* Slip: the new super block is written right behind.                      *)
ClobberedWithSuper(n) ==
  Put(disk.host, 0, Fill(SuperOffset, Zero) \o <<<<"super", NewSuper>>>>)

Clobbered(n) == Put(disk.host, 0, Fill(n, Zero))

SuperCreate ==
  /\ pc = "clobber"
  /\ disk' = [disk EXCEPT !.host = Clobbered(SuperOffset)]
  /\ fs' = [fs EXCEPT !.super = NewSuper, !.off = SuperBlk, !.used = @ \cup (0..SuperBlk),
                        !.rest = Fill(asked.blocksize - 1, <<"map">>)]
  /\ pc' = "journal"
  /\ logged' = NoSuper /\ made' = NoRequest
  /\ UNCHANGED <<dals, asked, unread>>

ClobberFails ==
  /\ pc = "clobber"
  /\ \E n \in {0, SuperOffset \div 2} : disk' = [disk EXCEPT !.host = Clobbered(n)]
  /\ pc' = "failed" /\ fs' = NoFs
  /\ made' = NoRequest
  /\ UNCHANGED <<dals, asked, logged, unread>>

(* reiserfs_journal_create for reiserfs_fs_journal_create.                 *)
JournalStart == IF asked.rel THEN asked.start ELSE fs.off + 2
NewParams == [start |-> JournalStart, len |-> asked.jlen,
              dev |-> IF asked.rel THEN Stat[dals.journal.data] ELSE 0]
Checked ==
  /\ ParamsCheck(dals.journal, JournalStart, asked.jlen, asked.rel)
  /\ (JournalStart + asked.jlen + 1) * dals.journal.blocksize <= Len(Content(dals.journal))
  /\ asked.rel => Stat[dals.journal.data] # 0

JournalCreate ==
  /\ pc = "journal" /\ Checked
  /\ disk' = [disk EXCEPT ![dals.journal.data] =
       Put(@, Offset(dals.journal, JournalStart),
           Fill(asked.jlen * dals.journal.blocksize, Zero) \o
           <<<<"head", NewParams>>>> \o Fill(dals.journal.blocksize - 1, Zero))]
  /\ fs' = [fs EXCEPT
       !.super.jp = NewParams, !.journal = NewParams, !.opened = TRUE,
       !.used = IF asked.rel THEN @ ELSE @ \cup (JournalStart..(JournalStart + asked.jlen))]
  /\ pc' = "tree"
  /\ UNCHANGED <<dals, asked, logged, made, unread>>

(* The blocks of the ring are zeroed first, and it may stop at any of them.*)
JournalFails ==
  /\ pc = "journal"
  /\ \E n \in 0..asked.jlen :
       /\ n > 0 => ParamsCheck(dals.journal, JournalStart, asked.jlen, asked.rel)
       /\ disk' = [disk EXCEPT ![dals.journal.data] =
            Put(@, Offset(dals.journal, JournalStart), Fill(n * dals.journal.blocksize, Zero))]
  /\ pc' = "failed" /\ fs' = NoFs
  /\ UNCHANGED <<dals, asked, logged, made, unread>>

(* reiserfs_tree_create: one leaf, with the stat and the entries "." and   *)
(* ".." of the root directory, in the first block that is free.            *)
FreeBlocks == (1..(asked.len - 1)) \ fs.used
EmptyRoot == <<"leaf", <<"stat", "dir">>, <<<<1, 2>>, <<2, 1>>>>>>

TreeCreate ==
  /\ pc = "tree" /\ FreeBlocks # {}
  /\ LET blk == CHOOSE b \in FreeBlocks : \A other \in FreeBlocks : b <= other
     IN  /\ disk' = [disk EXCEPT !.host =
                       Put(@, Offset(dals.host, blk), <<EmptyRoot>> \o Fill(Bs - 1, Zero))]
         /\ fs' = [fs EXCEPT !.super.root = blk, !.used = @ \cup {blk}]
  /\ pc' = "sync"
  /\ UNCHANGED <<dals, asked, logged, made, unread>>

TreeFails ==
  /\ pc = "tree"
  /\ pc' = "failed" /\ fs' = NoFs
  /\ UNCHANGED <<disk, dals, asked, logged, made, unread>>

(* reiserfs_fs_sync of what is dirty: super block, then bitmap.            *)
StoredSuper(content) ==
  Put(content, fs.off * Bs,
      <<<<"super", fs.super>>>> \o fs.rest)
BitmapAt(k) == BitmapPlace(fs.off, Bs, k)
StoredBits(content) ==
  [i \in DOMAIN content |->
     LET in == {k \in 0..(BitmapNr - 1) : i - 1 \in (BitmapAt(k) * Bs)..(BitmapAt(k) * Bs + Bs - 1)}
         nr == CHOOSE k \in in : TRUE
     IN  IF in = {} THEN content[i]
         ELSE IF i - 1 # BitmapAt(nr) * Bs THEN <<"more">>
         ELSE <<"bits", {b \in fs.used : b \div (Bs * BitsPerUnit) = nr}>>]

CreateSync ==
  /\ pc = "sync"
  /\ disk' = [disk EXCEPT !.host = StoredBits(StoredSuper(@))]
  /\ made' = asked
  /\ pc' = "open"
  /\ UNCHANGED <<dals, fs, asked, logged, unread>>

SyncFails ==
  /\ pc = "sync"
  /\ \/ UNCHANGED disk
     \/ disk' = [disk EXCEPT !.host = StoredSuper(@)]
  /\ pc' = "failed" /\ fs' = NoFs
  /\ UNCHANGED <<dals, asked, logged, made, unread>>

-----------------------------------------------------------------------------
(* Opening.                                                                *)
(* A program opens the devices with the default block size; there may be   *)
(* no device for the journal, or that of the filesystem itself.            *)
OpenDevices ==
  /\ pc = "idle"
  /\ \E flags \in {"r", "rw"}, data \in {"", "host", "other"} :
       dals' = [host |-> [data |-> "host", blocksize |-> Default, flags |-> flags],
                journal |-> [data |-> data, blocksize |-> Default, flags |-> flags]]
  /\ pc' = "devices" /\ unread' = FALSE /\ asked' = NoRequest
  /\ UNCHANGED <<disk, fs, logged, made>>

(* A block that is not there in full cannot be read.                       *)
There(dal, nr) == nr < DalLen(dal, Content(dal))
BlockUnits(dal, nr) == UnitsAt(Content(dal), Offset(dal, nr), dal.blocksize)
(* reiserfs_fs_super_open_check.                                           *)
SuperOpenCheck(super, dal) == super.count <= DalLen(dal, Content(dal))

(* One place of reiserfs_fs_super_probe.  The block size is set from what  *)
(* was found there and stays so when the check fails; a block read before  *)
(* has the number its place has in the new size.                           *)
Nothing == [found |-> FALSE, units |-> <<>>, off |-> 0, super |-> NoSuper]
ProbeAt(at, nr, fails) ==
  IF at.hit.found \/ nr \in fails \/ ~There(at.dal, nr) \/ ~Signed(BlockUnits(at.dal, nr))
  THEN at
  ELSE LET units == BlockUnits(at.dal, nr)
           super == units[1][2]
           dal == SetBlocksize(at.dal, super.bs)
       IN  [dal |-> dal,
            hit |-> IF SuperOpenCheck(super, dal)
                    THEN [found |-> TRUE, units |-> units, super |-> super,
                          off |-> Offset(at.dal, nr) \div dal.blocksize]
                    ELSE Nothing]

(* Slip: only the place of the old format is looked at.                    *)
SuperProbeOld(fails) == ProbeAt([dal |-> dals.host, hit |-> Nothing], 2, fails)

SuperProbe(fails) ==
  ProbeAt(ProbeAt([dal |-> dals.host, hit |-> Nothing], 16, fails), 2, fails)

(* The copy is of the size of a block now, the block of what was read: what*)
(* it has no units for is read from behind it.                             *)
Copied(units, blocksize) ==
  [i \in 1..(blocksize - 1) |-> IF i + 1 <= Len(units) THEN units[i + 1] ELSE <<"behind">>]

(* reiserfs_fs_super_open on a new handle.                                 *)
SuperOpen ==
  /\ pc = "devices"
  /\ \E fails \in SUBSET {16, 2}, bitmap \in BOOLEAN :
       LET at == SuperProbe(fails)
           bs == at.dal.blocksize
       IN  /\ dals' = [host |-> at.dal,
                       journal |-> IF at.hit.found /\ dals.journal.data # ""
                                   THEN SetBlocksize(dals.journal, at.hit.super.bs)
                                   ELSE dals.journal]
           /\ asked' = [NoRequest EXCEPT !.bitmap = bitmap, !.first = Bs]
           /\ unread' = (fails # {})
           /\ IF at.hit.found
              THEN /\ fs' = [NoFs EXCEPT !.super = at.hit.super, !.off = at.hit.off,
                                         !.rest = Copied(at.hit.units, bs)]
                   /\ pc' = "check"
              ELSE pc' = "failed" /\ UNCHANGED fs
  /\ UNCHANGED <<disk, logged, made>>

(* reiserfs_fs_open_as up to the journal.  The super block of the log is   *)
(* not known yet when it is asked whether the filesystem is consistent.  A *)
(* journal that has to be tuned first (JOURNAL_NEED_TUNE) is not opened.   *)
MayOpen ==
  /\ ~(asked.bitmap /\ ~fs.super.clean /\ dals.host.flags = "rw")
  /\ ~(fs.super.jr /\ ~fs.super.tune /\ dals.journal.data = "host")

Check ==
  /\ pc = "check"
  /\ pc' = IF ~MayOpen THEN "failed"
           ELSE IF dals.journal.data = "" \/ fs.super.tune THEN "bitmap" ELSE "head"
  /\ UNCHANGED <<disk, dals, fs, asked, logged, made, unread>>

(* reiserfs_fs_journal_open and reiserfs_journal_open.  Nothing tells a    *)
(* head from another block: what is no head is taken for one with zeros in *)
(* it, of which only the offset where replay begins may be too large (that *)
(* of a head lies in the ring).                                            *)
HeadBlk == fs.super.jp.start + fs.super.jp.len
HeadUnit == BlockUnits(dals.journal, HeadBlk)[1]
HeadParams == IF HeadUnit[1] = "head" THEN HeadUnit[2] ELSE NoJournal

KindsAgree == Relocated(dals.journal) = fs.super.jr

HeadSound ==
  /\ KindsAgree
  /\ There(dals.journal, HeadBlk)
  /\ ParamsCheck(dals.journal, HeadParams.start, HeadParams.len, fs.super.jr)
  /\ HeadUnit[1] = "head" \/ HeadBlk > 0
  /\ Stat[dals.journal.data] # 0

JournalOpen ==
  /\ pc = "head"
  /\ \E fails \in BOOLEAN :
       /\ unread' = (unread \/ fails)
       /\ IF HeadSound /\ ~fails
          THEN /\ fs' = [fs EXCEPT !.opened = TRUE,
                           !.journal = [HeadParams EXCEPT !.dev = Stat[dals.journal.data]]]
               /\ pc' = "reopen"
          ELSE pc' = "failed" /\ UNCHANGED fs
  /\ UNCHANGED <<disk, dals, asked, logged, made>>

(* reiserfs_journal_read for the place of the super block.  Where the block*)
(* lies is computed with a mask (JournalLog, FoundAt): beyond the first lap*)
(* of the ring, or with a length that is no power of two, another block is *)
(* read, or none.                                                          *)
LogReads(fails) ==
  IF logged = NoSuper \/ "log" \in fails THEN {NoSuper} ELSE {logged, NoSuper} \cup Misread

(* reiserfs_fs_super_reopen: what the log gives, or else the super block on*)
(* the device.                                                             *)
(* Slip: the copy is kept when the log has none.                           *)
RereadFromLog(read) ==
  IF read # NoSuper
  THEN [super |-> read, rest |-> Fill(Bs - 1, <<"map">>)]
  ELSE [super |-> fs.super, rest |-> fs.rest]

Reread(read) ==
  IF read # NoSuper
  THEN [super |-> read, rest |-> Fill(Bs - 1, <<"map">>)]
  ELSE LET units == BlockUnits(dals.host, fs.off)
       IN  [super |-> units[1][2], rest |-> Copied(units, Bs)]

SuperReopen ==
  /\ pc = "reopen"
  /\ \E fails \in SUBSET {"log", "device"} : \E read \in LogReads(fails) :
       /\ unread' = (unread \/ fails # {})
       /\ IF read = NoSuper /\ "device" \in fails
          THEN pc' = "failed" /\ UNCHANGED fs
          ELSE /\ fs' = [fs EXCEPT !.super = Reread(read).super, !.rest = Reread(read).rest,
                                   !.stray = read \notin {NoSuper, logged}]
               /\ pc' = IF SuperOpenCheck(fs'.super, dals.host) THEN "bitmap" ELSE "failed"
  /\ UNCHANGED <<disk, dals, asked, logged, made>>

(* reiserfs_bitmap_open over the blocks of the bitmap, which has to have   *)
(* blocks and one in use; without it only the tree's root is taken note of.*)
(* A block that is no bitmap is taken for one: zeros have no bit set,      *)
(* anything else is taken to have them all.                                *)
StoredNr == BitmapBlocks(fs.super.count, Bs)
BitsUnit(k) == BlockUnits(dals.host, BitmapAt(k))[1]
BitsOf(k) ==
  IF BitsUnit(k)[1] = "bits" THEN BitsUnit(k)[2]
  ELSE IF BitsUnit(k) = Zero THEN {}
  ELSE {b \in 0..(fs.super.count - 1) : b \div (Bs * BitsPerUnit) = k}
FoundBits == UNION {BitsOf(k) : k \in 0..(StoredNr - 1)}
BitsReadable == \A k \in 0..(StoredNr - 1) : There(dals.host, BitmapAt(k))

BitmapOpen ==
  /\ pc = "bitmap"
  /\ \/ /\ ~asked.bitmap
        /\ pc' = "open" /\ UNCHANGED <<fs, unread>>
     \/ /\ asked.bitmap /\ BitsReadable
        /\ IF fs.super.count # 0 /\ FoundBits # {}
           THEN fs' = [fs EXCEPT !.used = FoundBits] /\ pc' = "open"
           ELSE UNCHANGED fs /\ pc' = "failed"
        /\ UNCHANGED unread
     \/ /\ asked.bitmap
        /\ unread' = TRUE /\ pc' = "failed" /\ UNCHANGED fs
  /\ UNCHANGED <<disk, dals, asked, logged, made>>

(* The handle is closed, the devices may be used again or closed as well.  *)
Close ==
  /\ pc \in {"open", "failed"}
  /\ \/ pc' = "idle" /\ dals' = [host |-> NoDal, journal |-> NoDal] /\ unread' = FALSE
     \/ pc' = "devices" /\ asked.blocksize = 0 /\ UNCHANGED <<dals, unread>>
  /\ fs' = NoFs /\ asked' = NoRequest
  /\ UNCHANGED <<disk, logged, made>>

(* reiserfs_fs_probe: only the block size of the device remains.           *)
Probe ==
  /\ pc = "devices"
  /\ LET dal == [dals.host EXCEPT !.blocksize = Default]
     IN  /\ There(dal, 16)
         /\ dals' = [dals EXCEPT !.host =
              ProbeAt(ProbeAt([dal |-> dal, hit |-> Nothing], 16, {}), 2, {}).dal]
  /\ UNCHANGED <<disk, pc, fs, asked, logged, made, unread>>

(* reiserfs_fs_clobber: zeros at the two places, in blocks of the device.  *)
FsClobber ==
  /\ pc = "devices" /\ dals.host.flags = "rw" /\ Bs = Default
  /\ There(dals.host, 16)
  /\ disk' = [disk EXCEPT !.host =
       Put(Put(@, Offset(dals.host, 16), Fill(Bs, Zero)), Offset(dals.host, 2), Fill(Bs, Zero))]
  /\ made' = NoRequest /\ logged' = NoSuper
  /\ UNCHANGED <<dals, pc, fs, asked, unread>>

-----------------------------------------------------------------------------
(* The kernel (external): while the filesystem is mounted the super block  *)
(* in its log is marked; it reaches its place later, and is clean again    *)
(* when the filesystem has been unmounted.                                 *)
SuperAt ==
  IF SuperOffset < Len(disk.host) /\ Signed(<<disk.host[SuperOffset + 1]>>)
  THEN SuperOffset + 1 ELSE 2 * Default + 1
Stored == disk.host[SuperAt][2]

KernelMount ==
  /\ pc = "idle" /\ made # NoRequest /\ logged = NoSuper
  /\ logged' = [Stored EXCEPT !.clean = FALSE]
  /\ UNCHANGED <<disk, dals, pc, fs, asked, made, unread>>

KernelFlush ==
  /\ pc = "idle" /\ made # NoRequest /\ logged # NoSuper
  /\ \/ disk' = [disk EXCEPT !.host[SuperAt] = <<"super", logged>>]
     \/ disk' = [disk EXCEPT !.host[SuperAt] = <<"super", [logged EXCEPT !.clean = TRUE]>>]
  /\ logged' = NoSuper
  /\ UNCHANGED <<dals, pc, fs, asked, made, unread>>

Create == BitmapCreate \/ SuperCreate \/ ClobberFails \/ JournalCreate \/ JournalFails
          \/ TreeCreate \/ TreeFails \/ CreateSync \/ SyncFails
Open == OpenDevices \/ SuperOpen \/ Check \/ JournalOpen \/ SuperReopen \/ BitmapOpen

Next ==
  \/ \E r \in Requests : OpenToCreate(r)
  \/ Create \/ Open \/ Close \/ Probe \/ FsClobber
  \/ KernelMount \/ KernelFlush

Spec == Init /\ [][Next]_vars

-----------------------------------------------------------------------------
Opening == asked.first # 0

(* Every step of a creation or an opening leaves the handle well formed:   *)
(* the super block is as long as a block and inside the device.            *)
TypeOK ==
  /\ pc \in {"idle", "create", "clobber", "journal", "tree", "sync", "devices", "check",
             "head", "reopen", "bitmap", "open", "failed"}
  /\ DOMAIN disk.other = 1..Len(disk.other) /\ unread \in BOOLEAN
  /\ \A d \in {"host", "journal"} : PowOfTwo(dals[d].blocksize)
  /\ pc = "open" => /\ Len(fs.rest) = Bs - 1 /\ (fs.stray \/ fs.super.bs = Bs)
                    /\ fs.super.count * Bs <= Len(disk.host)

(* The free blocks of the super block are those the bitmap has not taken,  *)
(* when a filesystem was created and when it is opened, unless the log gave*)
(* another block for its super block (core.c:806).                         *)
FreeRight ==
  pc = "open" /\ made # NoRequest /\ (Opening => asked.bitmap) /\ ~fs.stray =>
    fs.super.free = fs.super.count - Cardinality(fs.used)

(* A filesystem that was created is found by a program that starts with    *)
(* the default block size, with the block size and journal it was created  *)
(* with, and opens with its length, unless a read fails, the journal's     *)
(* device is not a device, it has to be written and is marked, or the log  *)
(* gives another block for its super block (core.c:1288-1345).             *)
RightJournal == dals.journal.data \in {"", IF made.rel THEN "other" ELSE "host"}
FoundAgain ==
  Opening /\ asked.first = Default /\ made # NoRequest /\ ~unread =>
    /\ pc = "failed" => \/ ~RightJournal
                        \/ dals.journal.data # "" /\ Stat[dals.journal.data] = 0
                        \/ dals.host.flags = "rw" /\ ~Stored.clean
                        \/ fs.stray
    /\ pc = "open" => /\ RightJournal /\ Bs = made.blocksize
                      /\ fs.opened => fs.journal.len = made.jlen
                      /\ ~fs.stray => fs.super.count = made.len /\ fs.super.jr = made.rel

(* The super block of an open handle has all its units, however small the  *)
(* block was it was found in, once it was read again through the journal   *)
(* (core.c:728); without a journal only when a block is not larger than the*)
(* default one.                                                            *)
OpenedWhole ==
  pc = "open" /\ (fs.opened \/ Bs <= Default) => \A i \in DOMAIN fs.rest : fs.rest[i] # <<"behind">>

(* What is opened lies inside its device and has a super block that was    *)
(* read whole, whichever block of the log it is (core.c:689-785,           *)
(* 1288-1345).                                                             *)
Inv == TypeOK /\ OpenedWhole

(* A creation stores its super block last but the bitmap: when it is on    *)
(* the device, the root and the journal it names are there (core.c:1494).  *)
Backed(content, blocksize, super) ==
  /\ content.host[super.root * blocksize + 1] = EmptyRoot
  /\ content[IF super.jr THEN "other" ELSE "host"]
       [(super.jp.start + super.jp.len) * blocksize + 1] = <<"head", super.jp>>
SuperIsLast ==
  [][LET unit == disk'.host[SuperOffset + 1]
     IN  asked.blocksize # 0 /\ unit # disk.host[SuperOffset + 1] /\ unit[1] = "super" =>
           Backed(disk, asked.blocksize, unit[2])]_vars
=============================================================================
