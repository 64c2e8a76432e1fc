------------------------------ MODULE JournalLog ------------------------------
(***************************************************************************)
(* The transactions in a reiserfs journal and how libreiserfs/journal.c    *)
(* looks for them: reiserfs_journal_pipe visits the valid ones,            *)
(* reiserfs_journal_read finds the logged copy of a block, and the check   *)
(* before a journal is tuned asks whether all of them were flushed.  The   *)
(* kernel writes the journal, as a ring; it is the environment here and    *)
(* may stop at any time, also in the middle of a transaction.              *)
(***************************************************************************)
EXTENDS Integers, Sequences, FiniteSets

CONSTANTS
  JLen,      \* jp_len, the blocks of the ring: tuning takes any number
  JStart,    \* jp_start, the number of the ring's first block on its device
  Writes,    \* what a transaction may log: sequences of block names
  MaxId      \* bound of a run: the last transaction id

ASSUME LenAssumption == JLen \in Nat \ {0}
ASSUME JStartAssumption == JStart \in Nat \ {0}
Blocks == UNION {{w[k] : k \in DOMAIN w} : w \in Writes}

ASSUME WritesAssumption ==
  Writes \subseteq Seq(Blocks) /\ \A w \in Writes : Len(w) > 0 /\ Len(w) + 2 <= JLen
ASSUME MaxIdAssumption == MaxId \in Nat

VARIABLES
  log,        \* the ring: log[k] is what its block k holds
  replay,     \* jh_first_unflushed_offset
  flushed,    \* jh_last_flush_trans_id
  pos,        \* the kernel's next offset
  nextId,     \* the kernel's next transaction id
  unflushed,  \* the committed transactions not flushed yet, the oldest first
  wrapped,    \* history: the writes have reached the end of the ring
  verdict     \* what the check before tuning said last

kernel == <<log, replay, flushed, pos, nextId, unflushed, wrapped>>
vars == <<kernel, verdict>>

Offsets == 0..(JLen - 1)
Cell(kind, id, blocks) == [kind |-> kind, id |-> id, blocks |-> blocks]

Init ==
  /\ log = [k \in Offsets |-> Cell("empty", 0, <<>>)]
  /\ replay = 0 /\ flushed = 0
  /\ pos = 0 /\ nextId = 1 /\ unflushed = <<>>
  /\ wrapped = FALSE
  /\ verdict = "none"

-----------------------------------------------------------------------------
(* The kernel's part.  A transaction is a description block, the logged    *)
(* blocks and a commit block; WriteCells writes its first n blocks.        *)
Extent(w) == Len(w) + 2
InUse == LET Sum[k \in 0..Len(unflushed)] ==
               IF k = 0 THEN 0 ELSE Sum[k - 1] + Extent(unflushed[k].blocks)
         IN  Sum[Len(unflushed)]

CellOf(w, k) ==
  IF k = 0 THEN Cell("desc", nextId, w)
  ELSE IF k <= Len(w) THEN Cell("data", nextId, <<w[k]>>)
  ELSE Cell("comm", nextId, w)

WriteCells(w, n) ==
  log' = [k \in Offsets |->
            IF (k - pos) % JLen < n THEN CellOf(w, (k - pos) % JLen) ELSE log[k]]

Commit(w) ==
  /\ nextId <= MaxId
  /\ InUse + Extent(w) <= JLen
  /\ WriteCells(w, Extent(w))
  /\ unflushed' = Append(unflushed, [id |-> nextId, at |-> pos, blocks |-> w])
  /\ pos' = (pos + Extent(w)) % JLen
  /\ nextId' = nextId + 1
  /\ wrapped' = (wrapped \/ pos + Extent(w) >= JLen)
  /\ verdict' = "none"
  /\ UNCHANGED <<replay, flushed>>

Torn(w, n) ==
  /\ nextId <= MaxId
  /\ InUse + Extent(w) <= JLen
  /\ n < Extent(w)
  /\ WriteCells(w, n)
  /\ verdict' = "none"
  /\ UNCHANGED <<replay, flushed, pos, nextId, unflushed, wrapped>>

Flush ==
  /\ unflushed # <<>>
  /\ flushed' = Head(unflushed).id
  /\ replay' = (Head(unflushed).at + Extent(Head(unflushed).blocks)) % JLen
  /\ unflushed' = Tail(unflushed)
  /\ verdict' = "none"
  /\ UNCHANGED <<log, pos, nextId, wrapped>>

-----------------------------------------------------------------------------
(* reiserfs_journal_desc_comm and _desc_valid: of the block at the commit  *)
(* offset only the id and the length are compared; a logged data block is  *)
(* taken not to have both by chance.                                       *)
CommitOffset(k) == (k + Len(log[k].blocks) + 1) % JLen

Valid(k) ==
  /\ log[k].kind = "desc"
  /\ log[CommitOffset(k)].kind = "comm"
  /\ log[CommitOffset(k)].id = log[k].id
  /\ Len(log[CommitOffset(k)].blocks) = Len(log[k].blocks)

(* reiserfs_journal_pipe: the offsets of the transactions it hands to its  *)
(* function, in order; it steps over a valid transaction as a whole and    *)
(* stops at the end of the ring.                                           *)
(* Slip: the block after a transaction is stepped over as well.            *)
PipeOneFurther(from) ==
  LET Seen[k \in 0..(2 * JLen)] ==
        IF k >= JLen THEN <<>>
        ELSE IF Valid(k) THEN <<k>> \o Seen[k + Extent(log[k].blocks) + 1]
        ELSE Seen[k + 1]
  IN  Seen[from]

Pipe(from) ==
  LET Seen[k \in 0..(2 * JLen)] ==
        IF k >= JLen THEN <<>>
        ELSE IF Valid(k) THEN <<k>> \o Seen[k + Extent(log[k].blocks)]
        ELSE Seen[k + 1]
  IN  Seen[from]

Visited(from) == {Pipe(from)[n] : n \in DOMAIN Pipe(from)}

(* reiserfs_journal_read: of the copies of a block in the transactions     *)
(* from the replay offset on, the last one counts.  Its block number is    *)
(* masked with the length less one, which keeps the remainder only when    *)
(* the length is a power of two.  0 stands for "none".                     *)
And[m, n \in Nat] ==
  IF m = 0 THEN 0 ELSE (m % 2) * (n % 2) + 2 * And[m \div 2, n \div 2]

PowerOfTwo == \E k \in 0..JLen : JLen = 2^k

Masked(n) == IF PowerOfTwo THEN n % JLen ELSE And[n, JLen - 1]

(* Slip: the blocks are counted from the description block.                *)
FoundAtDescription(k, n) == Masked(JStart + k + n - 1)

FoundAt(k, n) == Masked(JStart + k + n)

Copies(k, b) == {n \in DOMAIN log[k].blocks : log[k].blocks[n] = b}

JournalRead(b) ==
  LET order == Pipe(replay)
      holding == {m \in DOMAIN order : Copies(order[m], b) # {}}
      m == CHOOSE x \in holding : \A y \in holding : y <= x
      n == CHOOSE x \in Copies(order[m], b) : \A y \in Copies(order[m], b) : y <= x
      found == FoundAt(order[m], n)
  IN  IF holding = {} \/ found > JStart + JLen - 1 THEN 0 ELSE found

(* What the device holds in the block that was found.                      *)
ReadBlock(found) ==
  IF found < JStart THEN Cell("outside", 0, <<>>) ELSE log[found - JStart]

(* reiserfs_fs_journal_tune_check.  The callback stores the transactions   *)
(* it meets through pointers nobody has set: the program crashes, or the   *)
(* check goes on with the id it started with, which is 0.                  *)
TuneCheck ==
  /\ verdict = "none"
  /\ verdict' \in
       (IF Visited(0) = {} THEN {"accepted"}
        ELSE {"crashed", IF flushed # 0 THEN "refused" ELSE "accepted"})
  /\ UNCHANGED kernel

(* The pipe cannot read a block: its 0 is taken for "no transactions".     *)
TuneCheckReadFails ==
  /\ verdict = "none"
  /\ verdict' = "unread"
  /\ UNCHANGED kernel

Next ==
  \/ \E w \in Writes : Commit(w) \/ \E n \in 1..JLen : Torn(w, n)
  \/ Flush
  \/ TuneCheck
  \/ TuneCheckReadFails

Spec == Init /\ [][Next]_vars

-----------------------------------------------------------------------------
TypeOK ==
  /\ \A k \in Offsets : log[k].kind \in {"empty", "desc", "data", "comm"}
  /\ \A k \in Offsets : log[k].kind = "desc" => CommitOffset(k) \in Offsets
  /\ replay \in Offsets /\ pos \in Offsets
  /\ flushed \in 0..MaxId /\ nextId \in 1..(MaxId + 1)
  /\ InUse <= JLen
  /\ wrapped \in BOOLEAN
  /\ verdict \in {"none", "accepted", "refused", "crashed", "unread"}

(* A scan from the start of the ring meets every committed transaction     *)
(* that was not flushed, whatever older ones, or half of one, lie between  *)
(* them (journal.c:195-220).                                               *)
ScanFindsUnflushed ==
  \A n \in DOMAIN unflushed : unflushed[n].at \in Visited(0)

(* What a scan from any offset hands on is one whole transaction: none of  *)
(* its blocks was overwritten by a later one, and no transaction that was  *)
(* cut short is taken for a committed one (journal.c:73-96).               *)
ScanFindsWhole ==
  \A from \in Offsets : \A k \in Visited(from) : \A n \in DOMAIN log[k].blocks :
    log[(k + n) % JLen] = Cell("data", log[k].id, <<log[k].blocks[n]>>)

(* The scan is exact, whatever stopped in the middle of a transaction: it  *)
(* meets every one that is committed and not flushed and hands on none that*)
(* is not whole (journal.c:73-96, 195-220).                                *)
Inv == TypeOK /\ ScanFindsUnflushed /\ ScanFindsWhole

(* In a ring whose length is a power of two, and until it is full for the  *)
(* first time, a block some unflushed transaction holds is read in its     *)
(* newest version, as long as the masked number stays in the ring          *)
(* (journal.c:235-276).  The mask is wrong for every other length.         *)
Newest(b) ==
  LET holding == {n \in DOMAIN unflushed : \E k \in DOMAIN unflushed[n].blocks :
                                             unflushed[n].blocks[k] = b}
  IN  IF holding = {} THEN 0
      ELSE unflushed[CHOOSE n \in holding : \A m \in holding : m <= n].id

FirstLapRead ==
  \A b \in Blocks :
    (PowerOfTwo /\ Newest(b) # 0 /\ ~wrapped /\ JStart + InUse + replay <= JLen) =>
      ReadBlock(JournalRead(b)) = Cell("data", Newest(b), <<b>>)

(* tunefs.reiserfs.8:36-37: the journal device is needed "to make sure     *)
(* that no non-replayed transactions found".  It does not hold, as the    *)
(* README tells.                                                           *)
CheckedIsReplayed == verdict \in {"accepted", "unread"} => unflushed = <<>>

(* "Reopening the superblock that can logged by the journal"               *)
(* (core.c:1331): what is read from the journal is the newest version.  It *)
(* does not hold, as the README tells.                                     *)
ReopenedIsNewest ==
  \A b \in Blocks : Newest(b) # 0 => ReadBlock(JournalRead(b)).id = Newest(b)
=============================================================================
