------------------------------- MODULE FsHandle -------------------------------
(***************************************************************************)
(* A filesystem handle of libreiserfs/core.c: the super block, the bitmap  *)
(* and the journal's header are read into memory, changed there, marked    *)
(* dirty, and written back one after the other when the handle is closed;  *)
(* an operation that moves blocks marks the filesystem corrupted on the    *)
(* device first and consistent last.  Every device access may fail and the *)
(* machine may stop between any two of them.                               *)
(*                                                                         *)
(* An operation is the sequence "todo" of steps its function still has to  *)
(* do.  Where blocks go is the matter of TreeRelocation and Bitmap; here   *)
(* each relocation gives the tree a new placement number, and each set of  *)
(* journal parameters gets a new magic number.                             *)
(***************************************************************************)
EXTENDS Naturals, Sequences

CONSTANTS
  Lens,      \* the lengths of a filesystem
  ByteBits,  \* the blocks a byte of the bitmap describes
  JLens,     \* the lengths of a journal
  MaxFresh   \* bound of a run: the placement and magic numbers handed out

ASSUME LensAssumption == Lens \subseteq Nat /\ 0 \notin Lens
ASSUME ByteBitsAssumption == ByteBits \in Nat \ {0}
ASSUME JLensAssumption == JLens \subseteq Nat /\ 0 \notin JLens /\ JLens # {}
ASSUME MaxFreshAssumption == MaxFresh \in Nat

VARIABLES
  dsuper,     \* the super block on the device
  dbitmap,    \* what the bitmap blocks on the device describe
  heads,      \* heads[k, l]: the journal header behind a journal of length l
  placement,  \* where the blocks of the tree are
  handle,     \* "closed", "creating", "created", "open", "failed", "closing"
  super,      \* fs->super
  bitmap,     \* what fs->bitmap describes
  journal,    \* fs->journal->head, or None
  dirty,      \* fs->flags
  todo,       \* the steps left of the call that is running
  ask,        \* its arguments, and what it has to remember
  fresh,      \* the numbers handed out so far
  tuned,      \* history: the journal asked for by the last successful tuning
  half,       \* history: an operation failed, or the machine stopped in it, half way
  lost,       \* history: the machine stopped in a call or with parts dirty, or a
              \* sync failed
  lagged      \* history: a resize kept the bitmap's bytes, and so its length

device == <<dsuper, dbitmap, heads, placement>>
memory == <<super, bitmap, journal, dirty>>
history == <<tuned, half, lost, lagged>>
vars == <<device, handle, memory, todo, ask, fresh, history>>

Kinds == {"standard", "relocated"}
Parts == {"super", "bitmap", "journal"}
Zero == [len |-> 0, magic |-> 0]
None == [len |-> 0, magic |-> MaxFresh + 1]
NoSuper == [state |-> "none", len |-> 0, kind |-> "standard", jp |-> Zero,
            reserved |-> 0, label |-> FALSE]
NoBitmap == [len |-> 0, tree |-> 0, area |-> 0]
NoAsk == [len |-> 0, kind |-> "standard", jlen |-> 0, old |-> 0]
NoTuning == [kind |-> "standard", len |-> 0]

(* reiserfs_fs_journal_area: the blocks behind the bitmap block that the   *)
(* journal takes, or that its standard place keeps reserved.               *)
Area(s) == IF s.kind = "relocated" THEN s.reserved ELSE s.jp.len + 1

Init ==
  /\ dsuper = NoSuper /\ dbitmap = NoBitmap
  /\ heads = [at \in Kinds \X JLens |-> Zero]
  /\ placement = 0
  /\ handle = "closed"
  /\ super = NoSuper /\ bitmap = NoBitmap /\ journal = None /\ dirty = {}
  /\ todo = <<>> /\ ask = NoAsk
  /\ fresh = 0
  /\ tuned = NoTuning /\ half = FALSE /\ lost = FALSE /\ lagged = FALSE

-----------------------------------------------------------------------------
(* reiserfs_fs_sync writes the dirty parts in this order.                  *)
SyncSteps(flags) ==
  (IF "super" \in flags THEN <<"sync super">> ELSE <<>>) \o
  (IF "bitmap" \in flags THEN <<"sync bitmap">> ELSE <<>>) \o
  (IF "journal" \in flags /\ journal # None THEN <<"sync journal">> ELSE <<>>)

Idle(handles) == todo = <<>> /\ handle \in handles
MayTake(n) == fresh + n <= MaxFresh

(* reiserfs_fs_create: bitmap and super block are made in memory; the      *)
(* super block says consistent from the start.                             *)
Create(n, k, l) ==
  /\ Idle({"closed"}) /\ MayTake(2)
  /\ handle' = "creating"
  /\ super' = [state |-> "consistent", len |-> n, kind |-> k,
               jp |-> [len |-> l, magic |-> 0], reserved |-> 0, label |-> FALSE]
  /\ bitmap' = [len |-> n, tree |-> 0, area |-> 0]
  /\ journal' = None
  /\ dirty' = {"super", "bitmap"}
  /\ todo' = <<"fill journal", "write header", "plant tree">>
               \o SyncSteps({"super", "bitmap"}) \o <<"created">>
  /\ ask' = [len |-> n, kind |-> k, jlen |-> l, old |-> 0]
  /\ half' = FALSE /\ tuned' = NoTuning /\ lagged' = FALSE
  /\ UNCHANGED <<device, fresh, lost>>

(* reiserfs_fs_open for writing, with or without the journal.  The bitmap  *)
(* gets the super block's length, whatever it was written for; an all-zero *)
(* journal header passes the checks.                                       *)
Open(withJournal) ==
  /\ Idle({"closed"})
  /\ dsuper.state = "consistent"
  /\ handle' = "open"
  /\ super' = dsuper /\ bitmap' = [dbitmap EXCEPT !.len = dsuper.len]
  /\ journal' = IF withJournal THEN heads[dsuper.kind, dsuper.jp.len] ELSE None
  /\ dirty' = {}
  /\ UNCHANGED <<device, todo, ask, fresh, history>>

(* reiserfs_fs_expand and reiserfs_fs_shrink.                              *)
(* Slip: a shrink moves the tree before it marks the filesystem corrupted. *)
ResizeStepsLate(n) ==
  (IF n > super.len THEN <<"corrupted">> ELSE <<"relocate", "corrupted">>)
    \o <<"resize bitmap", "set length", "consistent">>

ResizeSteps(n) ==
  (IF n > super.len THEN <<"corrupted">> ELSE <<"corrupted", "relocate">>)
    \o <<"resize bitmap", "set length", "consistent">>

Resize(n) ==
  /\ Idle({"open"}) /\ MayTake(1)
  /\ n # super.len
  /\ todo' = ResizeSteps(n)
  /\ ask' = [NoAsk EXCEPT !.len = n]
  /\ UNCHANGED <<device, handle, memory, fresh, history>>

(* reiserfs_fs_copy, once it has created the target filesystem.            *)
Copy ==
  /\ Idle({"created"}) /\ MayTake(1)
  /\ handle' = "open"
  /\ todo' = <<"corrupted", "fill in", "consistent">>
  /\ UNCHANGED <<device, memory, ask, fresh, history>>

(* reiserfs_fs_journal_tune and the two functions it switches with.  A     *)
(* switch to the host device takes the length from the reserved area or    *)
(* from the old journal, cut to what is free; the length asked for does    *)
(* not matter to it.                                                       *)
NewJournal == <<"close journal", "fill journal", "write header">>

TuneSteps(k, l) ==
  IF k = "standard" /\ super.kind = "relocated" THEN
    (IF super.reserved = 0 THEN <<"relocate">> ELSE <<>>)
      \o NewJournal \o <<"use area", "consistent">>
  ELSE IF k = "relocated" /\ super.kind = "standard" THEN NewJournal \o <<"reserve area">>
  ELSE IF k = "relocated" /\ l # super.jp.len THEN NewJournal
  ELSE IF k = "standard" /\ l = super.jp.len THEN <<"new parameters">>
  ELSE <<>>

LengthsFor(k, l) ==
  IF k = "relocated" \/ super.kind = "standard" THEN {l}
  ELSE IF super.reserved = 0 THEN {n \in JLens : n <= super.jp.len}
  ELSE {super.reserved - 1}

Tune(k, l) ==
  /\ Idle({"open"})
  /\ MayTake(IF super.kind = "relocated" /\ super.reserved = 0 THEN 2 ELSE 1)
  /\ journal # None
  /\ todo' = <<"corrupted">> \o TuneSteps(k, l) \o <<"consistent", "mark all">>
  /\ \E n \in LengthsFor(k, l) :
       ask' = [len |-> 0, kind |-> k, jlen |-> n, old |-> super.jp.len]
  /\ tuned' = [kind |-> k, len |-> l]
  /\ UNCHANGED <<device, handle, memory, fresh, half, lost, lagged>>

(* reiserfs_fs_label_update and reiserfs_fs_uuid_update.                   *)
(* Slip: the super block is not marked dirty.                              *)
SetLabelUnmarked ==
  /\ Idle({"open"})
  /\ super' = [super EXCEPT !.label = ~@]
  /\ UNCHANGED <<device, handle, bitmap, journal, dirty, todo, ask, fresh, history>>

SetLabel ==
  /\ Idle({"open"})
  /\ super' = [super EXCEPT !.label = ~@]
  /\ dirty' = dirty \cup {"super"}
  /\ UNCHANGED <<device, handle, bitmap, journal, todo, ask, fresh, history>>

(* reiserfs_fs_close, which the programs also call after a failure.        *)
(* Slip: after a failure the filesystem is declared consistent again.      *)
CloseForgives ==
  /\ Idle({"open", "created", "failed"})
  /\ handle' = "closing"
  /\ super' = [super EXCEPT !.state = "consistent"]
  /\ todo' = SyncSteps(dirty \cup {"super"}) \o <<"release">>
  /\ UNCHANGED <<device, bitmap, journal, dirty, ask, fresh, history>>

Close ==
  /\ Idle({"open", "created", "failed"})
  /\ handle' = "closing"
  /\ todo' = SyncSteps(dirty) \o <<"release">>
  /\ UNCHANGED <<device, memory, ask, fresh, history>>

-----------------------------------------------------------------------------
(* The steps.                                                              *)
Do(step) == todo # <<>> /\ Head(todo) = step /\ todo' = Tail(todo)

(* reiserfs_fs_state_update: the state goes into the super block in memory *)
(* and all of that to the device.                                          *)
StateUpdate(state) ==
  /\ Do(state)
  /\ super' = [super EXCEPT !.state = state]
  /\ dsuper' = super'
  /\ dirty' = dirty \ {"super"}
  /\ UNCHANGED <<dbitmap, heads, placement, handle, bitmap, journal, ask, fresh, history>>

StateUpdates == \E s \in {"corrupted", "consistent"} : StateUpdate(s)

(* What becomes of the bitmap's account of the tree when blocks move: an   *)
(* account that was wrong stays wrong.                                     *)
Following(b, p) == [b EXCEPT !.tree = IF @ = placement THEN p ELSE 0]

(* reiserfs_segment_relocate: there may be nothing to move.                *)
Relocate ==
  /\ Do("relocate")
  /\ \/ UNCHANGED <<placement, bitmap, dirty, fresh>>
     \/ /\ fresh' = fresh + 1
        /\ placement' = fresh'
        /\ bitmap' = Following(bitmap, fresh')
        /\ dirty' = dirty \cup {"bitmap"}
  /\ UNCHANGED <<dsuper, dbitmap, heads, handle, super, journal, ask, history>>

(* The same for a copy, which also records the object ids of the tree, and *)
(* reiserfs_tree_create's root node.                                       *)
FillIn ==
  /\ Do("fill in") \/ Do("plant tree")
  /\ fresh' = fresh + 1
  /\ placement' = fresh'
  /\ bitmap' = [bitmap EXCEPT !.tree = fresh']
  /\ dirty' = dirty \cup {"super", "bitmap"}
  /\ UNCHANGED <<dsuper, dbitmap, heads, handle, super, journal, ask, history>>

(* reiserfs_bitmap_resize does nothing as long as the number of bytes      *)
(* stays: the bitmap then keeps the length it had.                         *)
Bytes(n) == (n + ByteBits - 1) \div ByteBits

ResizeBitmap ==
  /\ Do("resize bitmap")
  /\ IF Bytes(ask.len) = Bytes(bitmap.len)
     THEN UNCHANGED bitmap /\ lagged' = TRUE
     ELSE bitmap' = [bitmap EXCEPT !.len = ask.len] /\ UNCHANGED lagged
  /\ dirty' = dirty \cup {"bitmap"}
  /\ UNCHANGED <<device, handle, super, journal, ask, fresh, tuned, half, lost>>

SetLength ==
  /\ Do("set length")
  /\ super' = [super EXCEPT !.len = ask.len]
  /\ UNCHANGED <<device, handle, bitmap, journal, dirty, ask, fresh, history>>

CloseJournal ==
  /\ Do("close journal")
  /\ journal' = None
  /\ UNCHANGED <<device, handle, super, bitmap, dirty, ask, fresh, history>>

(* reiserfs_journal_create fills the area with zeros, which takes the      *)
(* header of a shorter journal with it, and writes the header behind it.   *)
Filled(end) ==
  [at \in DOMAIN heads |-> IF at[1] = ask.kind /\ at[2] < end THEN Zero ELSE heads[at]]

FillJournal ==
  /\ Do("fill journal")
  /\ heads' = Filled(ask.jlen)
  /\ UNCHANGED <<dsuper, dbitmap, placement, handle, memory, ask, fresh, history>>

WriteHeader ==
  /\ Do("write header")
  /\ fresh' = fresh + 1
  /\ journal' = [len |-> ask.jlen, magic |-> fresh']
  /\ heads' = [heads EXCEPT ![<<ask.kind, ask.jlen>>] = journal']
  /\ super' = [super EXCEPT !.jp = journal']
  /\ IF ask.kind = "standard"
     THEN /\ bitmap' = [bitmap EXCEPT !.area = ask.jlen + 1]
          /\ dirty' = (dirty \cup {"bitmap"}) \ {"journal"}
     ELSE /\ UNCHANGED bitmap
          /\ dirty' = dirty \ {"journal"}
  /\ UNCHANGED <<dsuper, dbitmap, placement, handle, ask, history>>

UseArea ==
  /\ Do("use area")
  /\ super' = [super EXCEPT !.kind = "standard", !.reserved = 0]
  /\ UNCHANGED <<device, handle, bitmap, journal, dirty, ask, fresh, history>>

ReserveArea ==
  /\ Do("reserve area")
  /\ super' = [super EXCEPT !.kind = "relocated", !.reserved = ask.old + 1]
  /\ UNCHANGED <<device, handle, bitmap, journal, dirty, ask, fresh, history>>

NewParameters ==
  /\ Do("new parameters")
  /\ fresh' = fresh + 1
  /\ journal' = [len |-> ask.jlen, magic |-> fresh']
  /\ super' = [super EXCEPT !.jp = journal']
  /\ UNCHANGED <<device, handle, bitmap, dirty, ask, history>>

(* Slip: the journal is left out.                                          *)
MarkSuperAndBitmap ==
  /\ Do("mark all")
  /\ dirty' = dirty \cup {"super", "bitmap"}
  /\ UNCHANGED <<device, handle, super, bitmap, journal, ask, fresh, history>>

MarkAll ==
  /\ Do("mark all")
  /\ dirty' = Parts
  /\ UNCHANGED <<device, handle, super, bitmap, journal, ask, fresh, history>>

(* reiserfs_fs_super_sync, _bitmap_sync and _journal_sync.                 *)
SyncSuper ==
  /\ Do("sync super")
  /\ dsuper' = super /\ dirty' = dirty \ {"super"}
  /\ UNCHANGED <<dbitmap, heads, placement, handle, super, bitmap, journal, ask, fresh, history>>

SyncBitmap ==
  /\ Do("sync bitmap")
  /\ dbitmap' = bitmap /\ dirty' = dirty \ {"bitmap"}
  /\ UNCHANGED <<dsuper, heads, placement, handle, super, bitmap, journal, ask, fresh, history>>

(* The header lies where its own parameters say; an all-zero one of a      *)
(* standard journal, whose start is 0, would go to block 0.                *)
SyncJournal ==
  /\ Do("sync journal")
  /\ heads' = [at \in DOMAIN heads |-> IF at = <<super.kind, journal.len>> THEN journal
                                       ELSE heads[at]]
  /\ dirty' = dirty \ {"journal"}
  /\ UNCHANGED <<dsuper, dbitmap, placement, handle, super, bitmap, journal, ask, fresh, history>>

Created ==
  /\ Do("created")
  /\ handle' = "created"
  /\ lost' = FALSE
  /\ UNCHANGED <<device, memory, ask, fresh, half, tuned, lagged>>

Forget ==
  /\ handle' = "closed"
  /\ super' = NoSuper /\ bitmap' = NoBitmap /\ journal' = None /\ dirty' = {}
  /\ ask' = NoAsk

Release ==
  /\ Do("release")
  /\ Forget
  /\ UNCHANGED <<device, fresh, history>>

-----------------------------------------------------------------------------
(* Failures.  An operation that fails is left where it stands, with what   *)
(* it has done to the memory; the state has been set there also when it    *)
(* could not be written.                                                   *)
Writing == {"corrupted", "consistent", "relocate", "fill in", "plant tree",
            "fill journal", "write header"}
Syncing == {"sync super", "sync bitmap", "sync journal"}

OperationFails ==
  /\ todo # <<>> /\ Head(todo) \in Writing
  /\ handle = "open"
  /\ handle' = "failed"
  /\ todo' = <<>>
  /\ super' = IF Head(todo) \in {"corrupted", "consistent"}
              THEN [super EXCEPT !.state = Head(todo)] ELSE super
  /\ IF Head(todo) \in {"relocate", "fill in"}
     THEN \/ bitmap' = [bitmap EXCEPT !.tree = 0] /\ dirty' = dirty \cup {"bitmap"}
          \/ UNCHANGED <<bitmap, dirty>>
     ELSE UNCHANGED <<bitmap, dirty>>
  /\ IF Head(todo) = "fill journal"
     THEN \E end \in 0..ask.jlen : heads' = Filled(end)
     ELSE UNCHANGED heads
  /\ half' = (half \/ (dsuper.state = "corrupted" /\ Head(todo) # "consistent"))
  /\ tuned' = NoTuning
  /\ UNCHANGED <<dsuper, dbitmap, placement, journal, ask, fresh, lost, lagged>>

CreateFails ==
  /\ todo # <<>> /\ Head(todo) \in Writing \cup Syncing
  /\ handle = "creating"
  /\ Forget
  /\ todo' = <<>>
  /\ lost' = TRUE
  /\ UNCHANGED <<device, fresh, tuned, half, lagged>>

(* The first part that cannot be written ends the sync; the handle is      *)
(* released all the same.                                                  *)
SyncFails ==
  /\ todo # <<>> /\ Head(todo) \in Syncing
  /\ handle = "closing"
  /\ todo' = <<"release">>
  /\ lost' = TRUE
  /\ UNCHANGED <<device, handle, memory, ask, fresh, tuned, half, lagged>>

(* The machine stops.                                                      *)
Crash ==
  /\ handle # "closed"
  /\ Forget
  /\ todo' = <<>>
  /\ lost' = (lost \/ dirty # {} \/ todo # <<>>)
  /\ half' = (half \/ (todo # <<>> /\ dsuper.state = "corrupted"))
  /\ tuned' = NoTuning
  /\ UNCHANGED <<device, fresh, lagged>>

Call ==
  \/ \E n \in Lens, k \in Kinds, l \in JLens : Create(n, k, l)
  \/ \E withJournal \in BOOLEAN : Open(withJournal)
  \/ \E n \in Lens : Resize(n)
  \/ Copy
  \/ \E k \in Kinds, l \in JLens : Tune(k, l)
  \/ SetLabel
  \/ Close

Step ==
  \/ StateUpdates \/ Relocate \/ FillIn \/ ResizeBitmap \/ SetLength
  \/ CloseJournal \/ FillJournal \/ WriteHeader \/ UseArea \/ ReserveArea
  \/ NewParameters \/ MarkAll
  \/ SyncSuper \/ SyncBitmap \/ SyncJournal \/ Created \/ Release

Next == Call \/ Step \/ OperationFails \/ CreateFails \/ SyncFails \/ Crash

Spec == Init /\ [][Next]_vars

-----------------------------------------------------------------------------
Supers ==
  [state : {"none", "consistent", "corrupted"}, len : Lens \cup {0}, kind : Kinds,
   jp : [len : JLens \cup {0}, magic : 0..MaxFresh],
   reserved : {0} \cup {l + 1 : l \in JLens}, label : BOOLEAN]
Bitmaps ==
  [len : Lens \cup {0}, tree : 0..MaxFresh, area : {0} \cup {l + 1 : l \in JLens}]
Heads == [len : JLens \cup {0}, magic : 0..MaxFresh]

TypeOK ==
  /\ dsuper \in Supers /\ super \in Supers
  /\ dbitmap \in Bitmaps /\ bitmap \in Bitmaps
  /\ heads \in [Kinds \X JLens -> Heads] /\ journal \in Heads \cup {None}
  /\ placement \in 0..MaxFresh /\ fresh \in 0..MaxFresh
  /\ handle \in {"closed", "creating", "created", "open", "failed", "closing"}
  /\ dirty \subseteq Parts
  /\ half \in BOOLEAN /\ lost \in BOOLEAN /\ lagged \in BOOLEAN

(* Bitmap and journal header on the device fit the super block there.  The *)
(* bitmap has the bytes for its length always, and was written for exactly *)
(* that length unless a resize kept the number of bytes.                   *)
BitmapFits ==
  /\ dbitmap.tree = placement
  /\ dbitmap.area = Area(dsuper)
  /\ Bytes(dbitmap.len) = Bytes(dsuper.len)
  /\ lagged \/ dbitmap.len = dsuper.len
HeaderFits == heads[dsuper.kind, dsuper.jp.len] = dsuper.jp

(* A journal that was last tuned to be a relocated one is there, as long   *)
(* as was asked for.  For a standard one this does not hold: another       *)
(* length alone changes nothing and succeeds (core.c:292).                 *)
TuningKept ==
  tuned.kind = "relocated" => dsuper.kind = "relocated" /\ dsuper.jp.len = tuned.len

(* A closed filesystem that says it is consistent is: bitmap and journal   *)
(* fit the super block, and the last tuning that succeeded is there,       *)
(* through every sequence of calls, unless the machine stopped or the last *)
(* sync failed before all was written (core.c:1366-1381, 1536-1553).       *)
ConsistentFits ==
  handle = "closed" /\ dsuper.state = "consistent" /\ ~lost =>
    BitmapFits /\ HeaderFits /\ TuningKept

(* A filesystem in which an operation stopped half way stays marked        *)
(* corrupted, whatever is synced when the handle is closed, so that it is  *)
(* not opened for writing again (core.c:1307-1312, 1805-1811).             *)
HalfStaysMarked == half => dsuper.state = "corrupted"

(* Between calls, a part that is not marked dirty is on the device as it   *)
(* is in memory (core.c:418-438, 602-614, 637-661).                        *)
CleanIsStored ==
  Idle({"created", "open"}) =>
    /\ "super" \notin dirty => dsuper = super
    /\ "bitmap" \notin dirty =>
         /\ bitmap = [dbitmap EXCEPT !.len = super.len]
         /\ lagged \/ lost \/ bitmap = dbitmap
    /\ "journal" \notin dirty /\ journal # None => heads[super.kind, super.jp.len] = journal

(* Everything is in its range, and between calls what is not marked dirty  *)
(* is on the device as it is in memory (core.c:418-438, 602-661).          *)
Inv == TypeOK /\ CleanIsStored

(* The blocks of the tree move, and a journal header is wiped out, only    *)
(* while the super block on the device says corrupted, except while a new  *)
(* filesystem is made (core.c:178, 265, 1169, 1656).                       *)
Wiped == \E at \in DOMAIN heads : heads[at] # Zero /\ heads'[at] = Zero

MovedWhileMarked ==
  [][(placement' # placement \/ Wiped) /\ handle # "creating"
       => dsuper.state = "corrupted"]_vars
=============================================================================
