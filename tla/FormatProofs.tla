----------------------------- MODULE FormatProofs -----------------------------
(***************************************************************************)
(* Proofs about Format for devices and requests of every size.             *)
(***************************************************************************)
EXTENDS Format, TLAPS, FiniteSetTheorems, FunctionTheorems, SequenceTheorems, WellFoundedInduction

-----------------------------------------------------------------------------
(* The inductive invariant.                                                *)
Creating == pc \in {"create", "clobber", "journal", "tree", "sync"}
Reading == asked.blocksize = 0 /\ pc \in {"check", "head", "reopen", "bitmap", "open"}
Reread2 == pc \in {"bitmap", "open"} /\ fs.opened

(* The block sizes a device can have been left with.                       *)
SizesOn(host) ==
  {Default} \cup {host[i][2].bs : i \in {j \in DOMAIN host : host[j][1] = "super"}}

DiskRight ==
  /\ disk = [host |-> disk.host, other |-> disk.other]
  /\ Sequence(disk.host) /\ Sequence(disk.other) /\ SupersSound(disk.host)
  /\ made # NoRequest => \E place \in SuperPlaces : Laid(disk, made, place)
  /\ logged # NoSuper => \A i \in DOMAIN disk.host : disk.host[i][1] = "super" =>
       logged = [disk.host[i][2] EXCEPT !.clean = FALSE]

Devices ==
  [data : {"", "host", "other"}, blocksize : {b \in Nat \ {0} : PowOfTwo(b)}, flags : {"r", "rw"}]

HandlesRight ==
  /\ dals \in [host : Devices, journal : Devices]
  /\ pc # "idle" /\ asked.blocksize = 0 =>
       dals.host.data = "host" /\ dals.host.blocksize \in SizesOn(disk.host)

AskedRight ==
  /\ pc \in {"idle", "devices"} => asked = NoRequest
  /\ asked.blocksize # 0 =>
       /\ pc \in {"create", "clobber", "journal", "tree", "sync", "open", "failed"}
       /\ \E r \in Requests : asked = Creation(r) /\ (pc # "failed" => dals = OpenFor(r))
  /\ pc \in {"create", "clobber", "journal", "tree", "sync"} => asked.blocksize # 0
  /\ pc \in {"check", "head", "reopen", "bitmap"} => asked.blocksize = 0
  /\ asked.blocksize = 0 /\ pc \in {"check", "head", "reopen", "bitmap", "open", "failed"} =>
       asked.first # 0

(* What a new filesystem has taken before its tree.                        *)
OwnBits == {SuperBlk + 1} \cup {i * asked.blocksize * BitsPerUnit : i \in 1..(BitmapNr - 1)}
Taken == OwnBits \cup (0..SuperBlk)
JournalBlocks == IF asked.rel THEN {} ELSE JournalStart..(JournalStart + asked.jlen)

CreationRight ==
  /\ pc \in {"clobber", "journal", "tree", "sync"} => CreateCheck(asked)
  /\ pc = "clobber" => fs.used = OwnBits
  /\ pc \in {"journal", "tree", "sync"} =>
       /\ fs.off = SuperBlk /\ fs.rest = Fill(asked.blocksize - 1, <<"map">>)
       /\ made = NoRequest /\ logged = NoSuper
       /\ \A i \in DOMAIN disk.host : disk.host[i][1] = "super" => i = SuperOffset + 1
       /\ fs.super.jr = asked.rel /\ fs.super.count = asked.len
       /\ fs.super.bs = asked.blocksize /\ fs.super.free = NewFree /\ fs.super \in Supers
       /\ ~fs.super.tune
  /\ pc = "journal" => fs.used = Taken
  /\ pc \in {"tree", "sync"} =>
       /\ Checked /\ fs.super.jp = NewParams
       /\ disk[dals.journal.data][(JournalStart + asked.jlen) * asked.blocksize + 1]
            = <<"head", NewParams>>
  /\ pc = "tree" => fs.used = Taken \cup JournalBlocks
  /\ pc = "sync" =>
       /\ fs.super.root \in (1..(asked.len - 1)) \ (Taken \cup JournalBlocks)
       /\ fs.used = Taken \cup JournalBlocks \cup {fs.super.root}
       /\ disk.host[fs.super.root * asked.blocksize + 1] = EmptyRoot

(* A handle that is being opened, or that is open, has the super block from*)
(* its place on the device, or later one that came out of the log.         *)
ReadRight ==
  LET at == fs.off * Bs + 1
      there == disk.host[at][2]
  IN  Reading =>
        /\ at \in DOMAIN disk.host /\ disk.host[at][1] = "super"
        /\ there.bs = Bs /\ there.count * Bs <= Len(disk.host)
        /\ fs.off \in Nat /\ fs.stray \in BOOLEAN
        /\ fs.super # there /\ ~fs.stray => Reread2 /\ logged # NoSuper /\ fs.super = logged
        /\ fs.stray => Reread2 /\ fs.super.count * Bs <= Len(disk.host)
        /\ Len(fs.rest) = Bs - 1 /\ DOMAIN fs.rest = 1..(Bs - 1)
        /\ Bs <= asked.first \/ Reread2 => \A i \in DOMAIN fs.rest : fs.rest[i] # <<"behind">>
        /\ asked.first \in {Default, Bs}
        /\ dals.journal.data # "" => dals.journal.blocksize = Bs
        /\ pc = "head" => dals.journal.data # "" /\ MayOpen /\ ~there.tune
        /\ pc \in {"check", "head"} => ~fs.opened
        /\ pc = "reopen" => fs.opened
        /\ pc \in {"bitmap", "open"} => fs.opened \/ dals.journal.data = "" \/ there.tune
        /\ fs.opened => /\ dals.journal.data # "" /\ Relocated(dals.journal) = there.jr
                        /\ made # NoRequest => fs.journal.len = made.jlen

IInv ==
  /\ DiskRight /\ HandlesRight /\ AskedRight /\ CreationRight /\ ReadRight
  /\ TypeOK /\ OpenedWhole /\ FreeRight /\ FoundAgain

-----------------------------------------------------------------------------
(* Arithmetic.                                                             *)
(* A set of natural numbers that is not empty has a least element.         *)
LEMMA Least ==
  ASSUME NEW T, T \subseteq Nat, T # {}
  PROVE  \E m \in T : \A n \in T : m <= n
<1> DEFINE U == {0..n : n \in T}
<1>1. U \subseteq FiniteSubsetsOf(Nat) /\ U # {}
  <2>1. \A n \in T : IsFiniteSet(0..n)
    BY FS_Interval
  <2>2. \A n \in T : 0..n \in SUBSET Nat
    OBVIOUS
  <2>3. QED
    BY <2>1, <2>2 DEF FiniteSubsetsOf
<1>2. PICK u \in U : \A v \in U : <<v, u>> \notin StrictSubsetOrdering(Nat)
  BY <1>1, FS_StrictSubsetOrderingWellFounded, WFMin
<1>3. PICK m \in T : u = 0..m
  OBVIOUS
<1>4. ASSUME NEW n \in T, n < m  PROVE FALSE
  <2>1. 0..n \subseteq 0..m /\ m \in 0..m /\ m \notin 0..n
    BY <1>4
  <2>2. <<0..n, 0..m>> \in StrictSubsetOrdering(Nat)
    BY <2>1 DEF StrictSubsetOrdering
  <2>3. QED
    BY <1>2, <1>3, <2>2
<1>5. QED
  BY <1>4

(* Quotient and remainder.                                                 *)
LEMMA Division ==
  ASSUME NEW n \in Int, NEW d \in Nat \ {0}
  PROVE  /\ n \div d \in Int /\ n % d \in 0..(d - 1)
         /\ n = d * (n \div d) + (n % d)
OBVIOUS

(* A bound on a quotient is a bound on what is divided.                    *)
LEMMA DivBound ==
  ASSUME NEW n \in Int, NEW d \in Nat \ {0}, NEW q \in Int
  PROVE  /\ q <= n \div d <=> q * d <= n
         /\ n < q * d <=> n \div d < q
<1> DEFINE k == n \div d
           r == n % d
<1>1. k \in Int /\ r \in 0..(d-1) /\ n = d * k + r
  BY Division
<1> HIDE DEF k, r
<1>2. CASE q <= k
  <2>1. q * d <= k * d
    BY <1>1, <1>2
  <2>2. QED
    BY <1>1, <1>2, <2>1 DEF k
<1>3. CASE q >= k + 1
  <2>1. q * d >= (k + 1) * d
    BY <1>1, <1>3
  <2>2. (k + 1) * d = d * k + d
    BY <1>1
  <2>3. q * d \in Int
    OBVIOUS
  <2>4. QED
    BY <1>1, <1>3, <2>1, <2>2, <2>3 DEF k
<1>4. QED
  BY <1>1, <1>2, <1>3

(* Blocks of one size do not overlap.                                      *)
LEMMA BlocksApart ==
  ASSUME NEW a \in Nat, NEW b \in Nat, NEW bs \in Nat \ {0}, a < b
  PROVE  a * bs \in Nat /\ b * bs \in Nat /\ a * bs + bs <= b * bs
<1>1. (a + 1) * bs <= b * bs
  OBVIOUS
<1>2. (a + 1) * bs = a * bs + bs
  OBVIOUS
<1>3. QED
  BY <1>1, <1>2

(* Two blocks with different numbers do not overlap.                       *)
LEMMA BlocksDiffer ==
  ASSUME NEW a \in Nat, NEW b \in Nat, NEW bs \in Nat \ {0}, a # b
  PROVE  a * bs \in Nat /\ b * bs \in Nat /\ (a * bs + bs <= b * bs \/ b * bs + bs <= a * bs)
<1>1. CASE a < b
  BY <1>1, BlocksApart
<1>2. CASE b < a
  BY <1>2, BlocksApart
<1>3. QED
  BY <1>1, <1>2

(* The block a place that is a whole number of blocks begins.              *)
LEMMA WholeBlocks ==
  ASSUME NEW place \in Nat, NEW bs \in Nat \ {0}, place % bs = 0
  PROVE  place \div bs \in Nat /\ (place \div bs) * bs = place
<1> DEFINE k == place \div bs
<1>1. k \in Int /\ place = bs * k
  BY Division
<1>2. 0 <= k <=> 0 * bs <= place
  BY DivBound, 0 \in Int
<1>3. QED
  BY <1>1, <1>2

(* The block that begins where a block begins is that block.               *)
LEMMA BlockOf ==
  ASSUME NEW off \in Nat, NEW bs \in Nat \ {0}
  PROVE  (off * bs) \div bs = off
<1> DEFINE n == off * bs
           k == n \div bs
<1>1. n \in Nat /\ k \in Int
  BY Division
<1> HIDE DEF n
<1>2. off <= k <=> off * bs <= n
  BY <1>1, DivBound
<1>3. k < off + 1 <=> n < (off + 1) * bs
  BY <1>1, DivBound, off + 1 \in Int
<1>4. (off + 1) * bs = off * bs + bs
  OBVIOUS
<1>5. QED
  BY <1>1, <1>2, <1>3, <1>4 DEF n

-----------------------------------------------------------------------------
(* Contents of devices.                                                    *)
LEMMA SequenceIs ==
  ASSUME NEW c, Sequence(c)
  PROVE  Len(c) \in Nat /\ DOMAIN c = 1..Len(c)
BY DEF Sequence

(* A function on an interval from 1 is a sequence as long as the interval. *)
LEMMA MakeSequence ==
  ASSUME NEW n \in Nat, NEW c, c = [i \in 1..n |-> c[i]]
  PROVE  Sequence(c) /\ Len(c) = n /\ DOMAIN c = 1..n
<1> DEFINE S == {c[i] : i \in DOMAIN c}
<1>1. DOMAIN c = 1..n
  OBVIOUS
<1>2. c \in [1..n -> S]
  BY <1>1
<1>3. c \in Seq(S)
  BY <1>2
<1>4. QED
  BY <1>1, <1>3 DEF Sequence

(* A write replaces the units it covers, those on the device, and no other.*)
LEMMA PutIs ==
  ASSUME NEW c, Sequence(c), NEW first \in Nat, NEW units, Sequence(units)
  PROVE  /\ Sequence(Put(c, first, units)) /\ Len(Put(c, first, units)) = Len(c)
         /\ DOMAIN Put(c, first, units) = DOMAIN c
         /\ \A i \in DOMAIN c : Put(c, first, units)[i] =
              IF i > first /\ i <= first + Len(units) THEN units[i - first] ELSE c[i]
<1> DEFINE d == Put(c, first, units)
<1>1. d = [i \in DOMAIN c |-> IF i > first /\ i <= first + Len(units) THEN units[i - first] ELSE c[i]]
  BY DEF Put
<1>2. DOMAIN c = 1..Len(c) /\ Len(c) \in Nat
  BY SequenceIs
<1>3. d = [i \in 1..Len(c) |-> d[i]]
  BY <1>1, <1>2
<1>4. QED
  BY <1>1, <1>2, <1>3, MakeSequence

(* A fill is as long as asked for and the same throughout.                 *)
LEMMA FillIs ==
  ASSUME NEW n \in Nat, NEW u
  PROVE  /\ Sequence(Fill(n, u)) /\ Len(Fill(n, u)) = n
         /\ \A i \in 1..n : Fill(n, u)[i] = u
<1> DEFINE d == Fill(n, u)
<1>1. d = [i \in 1..n |-> u]
  BY DEF Fill
<1>2. d = [i \in 1..n |-> d[i]]
  BY <1>1
<1>3. QED
  BY <1>1, <1>2, MakeSequence

(* One unit is a sequence.                                                 *)
LEMMA OneIs ==
  ASSUME NEW u
  PROVE  Sequence(<<u>>) /\ Len(<<u>>) = 1 /\ <<u>>[1] = u
<1> DEFINE c == <<u>>
<1>1. c \in Seq({c[i] : i \in DOMAIN c})
  <2>1. DOMAIN c = {1} /\ c[1] = u
    OBVIOUS
  <2>2. QED
    BY <2>1
<1>2. QED
  BY <1>1 DEF Sequence

(* Two sequences one behind the other.                                     *)
LEMMA ConcatIs ==
  ASSUME NEW s, Sequence(s), NEW t, Sequence(t)
  PROVE  /\ Sequence(s \o t) /\ Len(s \o t) = Len(s) + Len(t)
         /\ \A i \in 1..(Len(s) + Len(t)) :
              (s \o t)[i] = IF i <= Len(s) THEN s[i] ELSE t[i - Len(s)]
<1> DEFINE A == {s[i] : i \in DOMAIN s} \cup {t[i] : i \in DOMAIN t}
           d == s \o t
<1>1. Len(s) \in Nat /\ Len(t) \in Nat /\ DOMAIN s = 1..Len(s) /\ DOMAIN t = 1..Len(t)
  BY SequenceIs
<1>2. s \in Seq(A) /\ t \in Seq(A)
  <2>1. s \in Seq({s[i] : i \in DOMAIN s}) /\ t \in Seq({t[i] : i \in DOMAIN t})
    BY DEF Sequence
  <2>2. QED
    BY <1>1, <2>1
<1> HIDE DEF A
<1>3. /\ d \in Seq(A) /\ Len(d) = Len(s) + Len(t)
      /\ \A i \in 1..(Len(s) + Len(t)) : d[i] = IF i <= Len(s) THEN s[i] ELSE t[i - Len(s)]
  BY <1>2, ConcatProperties
<1> HIDE DEF d
<1>4. d = [i \in 1..(Len(s) + Len(t)) |-> d[i]]
  <2>1. d \in [1..Len(d) -> A]
    BY <1>3
  <2>2. QED
    BY <1>3, <2>1
<1>5. Sequence(d)
  BY <1>1, <1>3, <1>4, MakeSequence
<1>6. QED
  BY <1>3, <1>5 DEF d

(* Blocks in front of others, in units.                                    *)
LEMMA Products ==
  ASSUME NEW a \in Nat, NEW b \in Nat, NEW n \in Nat, NEW bs \in Nat \ {0}, a + b <= n
  PROVE  /\ a * bs \in Nat /\ b * bs \in Nat /\ n * bs \in Nat
         /\ (a + b) * bs = a * bs + b * bs /\ a * bs + b * bs <= n * bs /\ b <= b * bs
<1>1. a * bs \in Nat /\ b * bs \in Nat /\ n * bs \in Nat
  OBVIOUS
<1>2. (a + b) * bs = a * bs + b * bs
  OBVIOUS
<1>3. (a + b) * bs <= n * bs
  OBVIOUS
<1>4. b * 1 <= b * bs
  OBVIOUS
<1>5. QED
  BY <1>1, <1>2, <1>3, <1>4

-----------------------------------------------------------------------------
(* The constants.                                                          *)
LEMMA PlacesAre ==
  /\ Default \in Nat \ {0} /\ SuperOffset \in Nat \ {0} /\ SuperOffset = 16 * Default
  /\ SuperPlaces \subseteq Nat \ {0} /\ 2 * Default \in SuperPlaces
  /\ SuperOffset \in SuperPlaces /\ \A p \in SuperPlaces : p <= SuperOffset
  /\ BitsPerUnit \in Nat \ {0} /\ MinTree \in Nat /\ JournalMin \in Nat
BY SizesAssumption DEF SuperOffset, SuperPlaces

(* What a request to create is made of.                                    *)
LEMMA RequestIs ==
  ASSUME NEW r \in Requests
  PROVE  /\ r.blocksize \in Nat \ {0} /\ r.len \in Nat /\ r.rel \in BOOLEAN
         /\ r.start \in Nat /\ r.jlen \in Nat /\ PowOfTwo(r.blocksize)
         /\ SuperOffset % r.blocksize = 0
BY RequestsAssumption

(* What a creation has asked for is what the request says.                 *)
LEMMA CreationIs ==
  ASSUME NEW r
  PROVE  /\ Creation(r).blocksize = r.blocksize /\ Creation(r).len = r.len
         /\ Creation(r).rel = r.rel /\ Creation(r).start = r.start
         /\ Creation(r).jlen = r.jlen /\ Creation(r).first = 0
         /\ Creation(r).bitmap = FALSE
BY DEF Creation, NoRequest

(* An open asks for no creation.                                           *)
LEMMA NoRequestIs ==
  /\ NoRequest.blocksize = 0 /\ NoRequest.first = 0
  /\ \A bitmap, first :
       LET a == [NoRequest EXCEPT !.bitmap = bitmap, !.first = first]
       IN  a.blocksize = 0 /\ a.first = first /\ a.bitmap = bitmap
BY DEF NoRequest

-----------------------------------------------------------------------------
(* Writes that leave the super blocks alone.                               *)
Plain(c) == Sequence(c) /\ \A i \in DOMAIN c : c[i][1] \notin {"super", "behind"}

(* A fill with something else holds no super block.                        *)
LEMMA PlainFill ==
  ASSUME NEW n \in Nat, NEW u, u[1] \notin {"super", "behind"}
  PROVE  Plain(Fill(n, u))
<1>1. Sequence(Fill(n, u)) /\ DOMAIN Fill(n, u) = 1..n /\ \A i \in 1..n : Fill(n, u)[i] = u
  BY FillIs, SequenceIs
<1>2. QED
  BY <1>1 DEF Plain

(* A unit that is something else is no super block.                        *)
LEMMA PlainOne ==
  ASSUME NEW u, u[1] \notin {"super", "behind"}
  PROVE  Plain(<<u>>)
<1>1. Sequence(<<u>>) /\ DOMAIN <<u>> = {1} /\ <<u>>[1] = u
  BY OneIs
<1>2. QED
  BY <1>1 DEF Plain

(* Nor is there one in two sequences without.                              *)
LEMMA PlainConcat ==
  ASSUME NEW s, Plain(s), NEW t, Plain(t)
  PROVE  Plain(s \o t)
<1> DEFINE d == s \o t
<1>1. /\ Sequence(d) /\ Len(d) = Len(s) + Len(t)
      /\ \A i \in 1..(Len(s) + Len(t)) : d[i] = IF i <= Len(s) THEN s[i] ELSE t[i - Len(s)]
  BY ConcatIs DEF Plain
<1> HIDE DEF d
<1>2. /\ Len(s) \in Nat /\ Len(t) \in Nat /\ DOMAIN s = 1..Len(s) /\ DOMAIN t = 1..Len(t)
      /\ DOMAIN d = 1..(Len(s) + Len(t))
  BY <1>1, SequenceIs DEF Plain
<1>3. \A i \in 1..(Len(s) + Len(t)) : d[i][1] \notin {"super", "behind"}
  <2> SUFFICES ASSUME NEW i \in 1..(Len(s) + Len(t))  PROVE d[i][1] \notin {"super", "behind"}
    OBVIOUS
  <2>1. CASE i <= Len(s)
    <3>1. i \in DOMAIN s /\ d[i] = s[i]
      BY <1>1, <1>2, <2>1
    <3>2. QED
      BY <3>1 DEF Plain
  <2>2. CASE ~(i <= Len(s))
    <3>1. i - Len(s) \in DOMAIN t /\ d[i] = t[i - Len(s)]
      BY <1>1, <1>2, <2>2
    <3>2. QED
      BY <3>1 DEF Plain
  <2>3. QED
    BY <2>1, <2>2
<1>4. Plain(d)
  BY <1>1, <1>2, <1>3 DEF Plain
<1>5. QED
  BY <1>4 DEF d

(* What was a super block afterwards was there before.                     *)
SupersFrom(new, old) ==
  /\ Sequence(new) /\ Len(new) = Len(old) /\ DOMAIN new = DOMAIN old
  /\ \A i \in DOMAIN old : new[i] = old[i] \/ new[i][1] \notin {"super", "behind"}

(* A write without a super block makes none.                               *)
LEMMA PutPlain ==
  ASSUME NEW c, Sequence(c), NEW first \in Nat, NEW units, Plain(units)
  PROVE  SupersFrom(Put(c, first, units), c)
<1> DEFINE d == Put(c, first, units)
<1>1. /\ Sequence(d) /\ Len(d) = Len(c) /\ DOMAIN d = DOMAIN c
      /\ \A i \in DOMAIN c : d[i] =
           IF i > first /\ i <= first + Len(units) THEN units[i - first] ELSE c[i]
  BY PutIs DEF Plain
<1>2. DOMAIN units = 1..Len(units) /\ Len(units) \in Nat /\ DOMAIN c = 1..Len(c) /\ Len(c) \in Nat
  BY SequenceIs DEF Plain
<1> HIDE DEF d
<1>3. ASSUME NEW i \in DOMAIN c  PROVE d[i] = c[i] \/ d[i][1] \notin {"super", "behind"}
  <2>1. CASE i > first /\ i <= first + Len(units)
    <3>1. i - first \in DOMAIN units /\ d[i] = units[i - first]
      BY <1>1, <1>2, <2>1
    <3>2. QED
      BY <3>1 DEF Plain
  <2>2. QED
    BY <1>1, <2>1
<1>4. SupersFrom(d, c)
  BY <1>1, <1>3 DEF SupersFrom
<1>5. QED
  BY <1>4 DEF d

(* Super blocks among those that were there are as sound as they were.     *)
LEMMA SupersStaySound ==
  ASSUME NEW old, SupersSound(old), NEW new, SupersFrom(new, old)
  PROVE  /\ SupersSound(new) /\ SizesOn(new) \subseteq SizesOn(old)
         /\ \A i \in DOMAIN new : new[i][1] = "super" => new[i] = old[i]
<1>1. /\ DOMAIN new = DOMAIN old
      /\ \A i \in DOMAIN new : new[i] = old[i] \/ new[i][1] \notin {"super", "behind"}
  BY DEF SupersFrom
<1>2. \A i \in DOMAIN new : new[i][1] = "super" => new[i] = old[i]
  BY <1>1
<1>3. \A i \in DOMAIN new : new[i][1] # "behind"
  BY <1>1 DEF SupersSound
<1>4. SupersSound(new)
  BY <1>1, <1>2, <1>3 DEF SupersSound
<1>5. SizesOn(new) \subseteq SizesOn(old)
  BY <1>1, <1>2 DEF SizesOn
<1>6. QED
  BY <1>2, <1>4, <1>5

(* Two such writes one after the other.                                    *)
LEMMA SupersFromTwice ==
  ASSUME NEW old, NEW mid, NEW new, SupersFrom(mid, old), SupersFrom(new, mid)
  PROVE  SupersFrom(new, old)
BY DEF SupersFrom

(* A device that stays as it is.                                           *)
LEMMA SupersFromSame ==
  ASSUME NEW c, Sequence(c)
  PROVE  SupersFrom(c, c)
BY DEF SupersFrom

(* What the units are that the steps write.                                *)
LEMMA TagsAre ==
  /\ Zero[1] = "zero" /\ <<"map">>[1] = "map" /\ <<"more">>[1] = "more"
  /\ <<"behind">>[1] = "behind" /\ EmptyRoot[1] = "leaf"
  /\ \A x : <<"head", x>>[1] = "head" /\ <<"head", x>>[2] = x
  /\ \A x : <<"super", x>>[1] = "super" /\ <<"super", x>>[2] = x
  /\ \A x : <<"bits", x>>[1] = "bits" /\ <<"bits", x>>[2] = x
BY DEF Zero, EmptyRoot

(* A unit that is written, and one that is not.                            *)
LEMMA PutAt ==
  ASSUME NEW c, Sequence(c), NEW first \in Nat, NEW units, Sequence(units),
         NEW j \in 1..Len(units), NEW i \in DOMAIN c, i = first + j
  PROVE  Put(c, first, units)[i] = units[j]
<1>1. Put(c, first, units)[i] =
        IF i > first /\ i <= first + Len(units) THEN units[i - first] ELSE c[i]
  BY PutIs
<1>2. Len(units) \in Nat
  BY SequenceIs
<1>3. i > first /\ i <= first + Len(units) /\ i - first = j
  BY <1>2
<1> HIDE DEF Put
<1>4. QED
  BY <1>1, <1>3

(* A write leaves a unit outside of it.                                    *)
LEMMA PutElsewhere ==
  ASSUME NEW c, Sequence(c), NEW first \in Nat, NEW units, Sequence(units),
         NEW i \in DOMAIN c, i <= first \/ i > first + Len(units)
  PROVE  Put(c, first, units)[i] = c[i]
<1>1. Put(c, first, units)[i] =
        IF i > first /\ i <= first + Len(units) THEN units[i - first] ELSE c[i]
  BY PutIs
<1>2. Len(units) \in Nat /\ Len(c) \in Nat /\ DOMAIN c = 1..Len(c)
  BY SequenceIs
<1>3. ~(i > first /\ i <= first + Len(units))
  BY <1>2
<1>4. QED
  BY <1>1, <1>3

-----------------------------------------------------------------------------
(* What follows from the invariant in most states.                         *)
Stages == {"idle", "create", "clobber", "journal", "tree", "sync", "devices", "check",
           "head", "reopen", "bitmap", "open", "failed"}

(* The devices are sequences, and these two.                               *)
LEMMA DiskIs ==
  ASSUME DiskRight
  PROVE  /\ Len(disk.host) \in Nat /\ DOMAIN disk.host = 1..Len(disk.host)
         /\ Len(disk.other) \in Nat /\ DOMAIN disk.other = 1..Len(disk.other)
         /\ disk["host"] = disk.host /\ disk["other"] = disk.other
         /\ DOMAIN disk = {"host", "other"}
<1>1. disk = [host |-> disk.host, other |-> disk.other]
  BY DEF DiskRight
<1>2. QED
  BY <1>1, SequenceIs DEF DiskRight

(* Where nothing is open, three of the properties hold.                    *)
LEMMA NotOpen ==
  ASSUME DiskRight', HandlesRight', pc' \in Stages \ {"open"}, unread' \in BOOLEAN
  PROVE  TypeOK' /\ OpenedWhole' /\ FreeRight'
<1>1. DOMAIN (disk'.other) = 1..Len(disk'.other)
  BY SequenceIs DEF DiskRight
<1>2. \A d \in {"host", "journal"} : PowOfTwo(dals'[d].blocksize)
  BY DEF HandlesRight, Devices
<1>3. QED
  BY <1>1, <1>2, Zenon DEF TypeOK, OpenedWhole, FreeRight, Stages

(* Where no one has asked to open, nothing is to be found.                 *)
LEMMA NotOpening ==
  ASSUME asked'.first = 0
  PROVE  FoundAgain'
BY DEF FoundAgain, Opening

(* Between calls nothing is asked for and nothing is being read.           *)
LEMMA IdleRight ==
  ASSUME pc' \in {"idle", "devices"}, asked' = NoRequest
  PROVE  AskedRight' /\ CreationRight' /\ ReadRight' /\ FoundAgain'
<1>1. asked'.blocksize = 0 /\ asked'.first = 0
  BY NoRequestIs
<1>3. AskedRight'
  BY <1>1 DEF AskedRight
<1>4. CreationRight' /\ ReadRight'
  BY DEF CreationRight, ReadRight, Reading
<1>5. QED
  BY <1>1, <1>3, <1>4, NotOpening

(* The invariant holds at first.                                           *)
LEMMA InitIsSound == Init => IInv
<1> SUFFICES ASSUME Init  PROVE IInv
  OBVIOUS
<1>1. PICK before \in Before :
        disk = [host |-> before.host, other |-> before.other] /\ made = before.made
  BY DEF Init
<1>2. /\ dals = [host |-> NoDal, journal |-> NoDal]
      /\ pc = "idle" /\ asked = NoRequest /\ logged = NoSuper /\ unread = FALSE
  BY DEF Init
<1>3. DiskRight
  BY <1>1, <1>2, BeforeAssumption DEF DiskRight
<1>4. NoDal \in Devices
  BY PlacesAre, SizesAssumption DEF NoDal, Devices
<1>5. HandlesRight
  BY <1>2, <1>4 DEF HandlesRight
<1>6. asked.blocksize = 0 /\ asked.first = 0
  BY <1>2, NoRequestIs
<1>8. AskedRight
  BY <1>2, <1>6 DEF AskedRight
<1>9. CreationRight /\ ReadRight /\ FoundAgain
  BY <1>2, <1>6 DEF CreationRight, ReadRight, Reading, FoundAgain, Opening
<1>10. TypeOK /\ OpenedWhole /\ FreeRight
  <2>1. DOMAIN (disk.other) = 1..Len(disk.other)
    BY <1>3, SequenceIs DEF DiskRight
  <2>2. \A d \in {"host", "journal"} : PowOfTwo(dals[d].blocksize)
    BY <1>5 DEF HandlesRight, Devices
  <2>3. QED
    BY <1>2, <2>1, <2>2, Zenon DEF TypeOK, OpenedWhole, FreeRight
<1>11. QED
  BY <1>3, <1>5, <1>8, <1>9, <1>10 DEF IInv

(* The part of the invariant about a creation's request.                   *)
LEMMA RequestKept ==
  ASSUME IInv, asked.blocksize # 0
  PROVE  /\ \E r \in Requests : asked = Creation(r) /\ (pc # "failed" => dals = OpenFor(r))
         /\ asked.first = 0 /\ asked.blocksize \in Nat \ {0} /\ asked.len \in Nat
         /\ asked.rel \in BOOLEAN /\ asked.start \in Nat /\ asked.jlen \in Nat
         /\ PowOfTwo(asked.blocksize) /\ SuperOffset % asked.blocksize = 0
         /\ SuperBlk \in Nat /\ SuperBlk * asked.blocksize = SuperOffset
         /\ pc # "failed" =>
              /\ dals.host = [data |-> "host", blocksize |-> asked.blocksize, flags |-> "rw"]
              /\ dals.journal = [data |-> IF asked.rel THEN "other" ELSE "host",
                                 blocksize |-> asked.blocksize, flags |-> "rw"]
              /\ Bs = asked.blocksize
<1>1. PICK r \in Requests : asked = Creation(r) /\ (pc # "failed" => dals = OpenFor(r))
  BY DEF IInv, AskedRight
<1>2. /\ asked.blocksize = r.blocksize /\ asked.len = r.len /\ asked.rel = r.rel
      /\ asked.start = r.start /\ asked.jlen = r.jlen /\ asked.first = 0
  BY <1>1, CreationIs
<1>3. /\ asked.blocksize \in Nat \ {0} /\ asked.len \in Nat
      /\ asked.rel \in BOOLEAN /\ asked.start \in Nat /\ asked.jlen \in Nat
      /\ PowOfTwo(asked.blocksize) /\ SuperOffset % asked.blocksize = 0
  BY <1>2, RequestIs
<1>4. SuperBlk \in Nat /\ SuperBlk * asked.blocksize = SuperOffset
  BY <1>3, PlacesAre, WholeBlocks DEF SuperBlk
<1>5. pc # "failed" =>
              /\ dals.host = [data |-> "host", blocksize |-> asked.blocksize, flags |-> "rw"]
              /\ dals.journal = [data |-> IF asked.rel THEN "other" ELSE "host",
                                 blocksize |-> asked.blocksize, flags |-> "rw"]
              /\ Bs = asked.blocksize
  BY <1>1, <1>2 DEF OpenFor, Bs
<1>6. QED
  BY <1>1, <1>2, <1>3, <1>4, <1>5

(* A step that fails only leaves the handle.                               *)
LEMMA FailRight ==
  ASSUME IInv, asked.blocksize # 0, pc' = "failed", DiskRight',
         UNCHANGED <<dals, asked, unread>>
  PROVE  IInv'
<1>1. HandlesRight'
  BY DEF IInv, HandlesRight
<1>2. asked'.first = 0
  BY RequestKept
<1>3. AskedRight'
  BY DEF IInv, AskedRight
<1>4. CreationRight' /\ ReadRight' /\ FoundAgain'
  BY <1>2, NotOpening DEF CreationRight, ReadRight, Reading
<1>5. pc' \in Stages \ {"open"} /\ unread' \in BOOLEAN
  BY DEF IInv, TypeOK, Stages
<1>6. TypeOK' /\ OpenedWhole' /\ FreeRight'
  BY <1>1, <1>5, NotOpen
<1>7. QED
  BY <1>1, <1>3, <1>4, <1>6 DEF IInv

(* OpenToCreate keeps the invariant.                                       *)
LEMMA OpenToCreatePreserves ==
  ASSUME IInv, NEW r \in Requests, OpenToCreate(r)
  PROVE  IInv'
<1>1. /\ dals' = OpenFor(r) /\ asked' = Creation(r) /\ pc' = "create" /\ unread' = FALSE
      /\ disk' = disk /\ logged' = logged /\ made' = made
  BY DEF OpenToCreate
<1>2. r.blocksize \in Nat \ {0} /\ PowOfTwo(r.blocksize)
  BY RequestIs
<1>3. DiskRight'
  BY <1>1 DEF IInv, DiskRight
<1>4. asked'.blocksize # 0 /\ asked'.first = 0
  BY <1>1, <1>2, CreationIs
<1>5. HandlesRight'
  BY <1>1, <1>2, <1>4 DEF HandlesRight, OpenFor, Devices
<1>6. AskedRight'
  BY <1>1, <1>4 DEF AskedRight
<1>7. CreationRight' /\ ReadRight' /\ FoundAgain'
  BY <1>1, <1>4, NotOpening DEF CreationRight, ReadRight, Reading
<1>8. TypeOK' /\ OpenedWhole' /\ FreeRight'
  BY <1>1, <1>3, <1>5, NotOpen DEF Stages
<1>9. QED
  BY <1>3, <1>5, <1>6, <1>7, <1>8 DEF IInv

(* BitmapCreate keeps the invariant.                                       *)
LEMMA BitmapCreatePreserves ==
  ASSUME IInv, BitmapCreate
  PROVE  IInv'
<1>1. /\ pc = "create" /\ UNCHANGED <<disk, dals, asked, logged, made, unread>>
      /\ asked.blocksize # 0
  BY DEF BitmapCreate, IInv, AskedRight
<1>2. DiskRight'
  BY <1>1 DEF IInv, DiskRight
<1>3. CASE ~CreateCheck(asked)
  <2>1. pc' = "failed"
    BY <1>3 DEF BitmapCreate
  <2>2. QED
    BY <1>1, <1>2, <2>1, FailRight
<1>4. CASE CreateCheck(asked)
  <2>1. pc' = "clobber" /\ fs'.used = OwnBits
    BY <1>4 DEF BitmapCreate, NoFs, OwnBits
  <2>2. HandlesRight' /\ AskedRight'
    BY <1>1, <2>1 DEF IInv, HandlesRight, AskedRight
  <2>3. OwnBits' = OwnBits /\ (CreateCheck(asked))'
    BY <1>1, <1>4 DEF OwnBits, CreateCheck, SuperBlk, BitmapNr, TreeStart, Content
  <2>4. CreationRight'
    BY <2>1, <2>3 DEF CreationRight
  <2>5. asked'.first = 0
    BY <1>1, RequestKept
  <2>6. ReadRight' /\ FoundAgain'
    BY <2>1, <2>5, NotOpening DEF ReadRight, Reading
  <2>7. pc' \in Stages \ {"open"} /\ unread' \in BOOLEAN
    BY <1>1, <2>1 DEF IInv, TypeOK, Stages
  <2>8. TypeOK' /\ OpenedWhole' /\ FreeRight'
    BY <1>2, <2>2, <2>7, NotOpen
  <2>9. QED
    BY <1>2, <2>2, <2>4, <2>6, <2>8 DEF IInv
<1>5. QED
  BY <1>3, <1>4

(* TreeFails keeps the invariant.                                          *)
LEMMA TreeFailsPreserves ==
  ASSUME IInv, TreeFails
  PROVE  IInv'
<1>1. /\ pc = "tree" /\ pc' = "failed" /\ UNCHANGED <<disk, dals, asked, logged, made, unread>>
      /\ asked.blocksize # 0
  BY DEF TreeFails, IInv, AskedRight
<1>2. DiskRight'
  BY <1>1 DEF IInv, DiskRight
<1>3. QED
  BY <1>1, <1>2, FailRight

(* OpenDevices keeps the invariant.                                        *)
LEMMA OpenDevicesPreserves ==
  ASSUME IInv, OpenDevices
  PROVE  IInv'
<1>1. PICK flags \in {"r", "rw"}, data \in {"", "host", "other"} :
        dals' = [host |-> [data |-> "host", blocksize |-> Default, flags |-> flags],
                 journal |-> [data |-> data, blocksize |-> Default, flags |-> flags]]
  BY DEF OpenDevices
<1>2. /\ pc' = "devices" /\ unread' = FALSE /\ asked' = NoRequest
      /\ UNCHANGED <<disk, fs, logged, made>>
  BY DEF OpenDevices
<1>3. DiskRight'
  BY <1>2 DEF IInv, DiskRight
<1>4. HandlesRight'
  BY <1>1, <1>2, PlacesAre, SizesAssumption DEF HandlesRight, Devices, SizesOn
<1>5. TypeOK' /\ OpenedWhole' /\ FreeRight'
  BY <1>2, <1>3, <1>4, NotOpen DEF Stages
<1>6. QED
  BY <1>2, <1>3, <1>4, <1>5, IdleRight DEF IInv

(* Close keeps the invariant.                                              *)
LEMMA ClosePreserves ==
  ASSUME IInv, Close
  PROVE  IInv'
<1>1. asked' = NoRequest /\ UNCHANGED <<disk, logged, made>> /\ pc' \in {"idle", "devices"}
  BY DEF Close
<1>2. DiskRight'
  BY <1>1 DEF IInv, DiskRight
<1>3. NoDal \in Devices
  BY PlacesAre, SizesAssumption DEF NoDal, Devices
<1>4. HandlesRight' /\ unread' \in BOOLEAN
  <2>1. CASE pc' = "idle" /\ dals' = [host |-> NoDal, journal |-> NoDal] /\ unread' = FALSE
    BY <1>3, <2>1 DEF HandlesRight
  <2>2. CASE asked.blocksize = 0 /\ UNCHANGED <<dals, unread>>
    <3>1. pc # "idle"
      BY DEF Close
    <3>2. HandlesRight'
      BY <1>1, <2>2, <3>1 DEF IInv, HandlesRight
    <3>3. QED
      BY <2>2, <3>2 DEF IInv, TypeOK
  <2>3. QED
    BY <2>1, <2>2 DEF Close
<1>5. TypeOK' /\ OpenedWhole' /\ FreeRight'
  BY <1>1, <1>2, <1>4, NotOpen DEF Stages
<1>6. QED
  BY <1>1, <1>2, <1>4, <1>5, IdleRight DEF IInv

-----------------------------------------------------------------------------
(* The handle is a record of its fields in every state.                    *)
Fields == {"super", "rest", "off", "journal", "opened", "used", "stray"}
HandleIs == fs = [f \in Fields |-> fs[f]]

(* A handle that is not there is a record of its fields as well.           *)
LEMMA NoHandleIs == NoFs = [f \in Fields |-> NoFs[f]]
BY DEF NoFs, Fields

(* A step leaves a record of these fields.                                 *)
LEMMA HandleStays ==
  ASSUME HandleIs, [Next]_vars
  PROVE  HandleIs'
<1>1. CASE fs' = fs
  BY <1>1 DEF HandleIs
<1>2. CASE fs' = NoFs
  BY <1>2, NoHandleIs DEF HandleIs
<1>3. CASE BitmapCreate
  BY <1>1, <1>3, NoHandleIs DEF HandleIs, BitmapCreate, Fields
<1>4. CASE SuperCreate
  BY <1>4 DEF HandleIs, SuperCreate, Fields
<1>5. CASE JournalCreate
  BY <1>5 DEF HandleIs, JournalCreate, Fields
<1>6. CASE TreeCreate
  <2>1. PICK root, used : fs' = [fs EXCEPT !.super.root = root, !.used = used]
    BY <1>6 DEF TreeCreate
  <2>2. QED
    BY <2>1 DEF HandleIs, Fields
<1>7. CASE SuperOpen
  <2> DEFINE New(super, off, rest) == [NoFs EXCEPT !.super = super, !.off = off, !.rest = rest]
  <2>1. \A super, off, rest : New(super, off, rest) = [f \in Fields |-> New(super, off, rest)[f]]
    BY NoHandleIs DEF Fields
  <2>2. PICK at, bs :
          IF at.hit.found
          THEN fs' = New(at.hit.super, at.hit.off, Copied(at.hit.units, bs))
          ELSE fs' = fs
    BY <1>7, Zenon DEF SuperOpen
  <2>3. PICK super, off, rest : fs' = New(super, off, rest) \/ fs' = fs
    BY <2>2
  <2>4. New(super, off, rest) = [f \in Fields |-> New(super, off, rest)[f]]
    BY <2>1
  <2> DEFINE n == New(super, off, rest)
  <2> HIDE DEF n
  <2>5. n = [f \in Fields |-> n[f]] /\ (fs' = n \/ fs' = fs)
    BY <2>3, <2>4 DEF n
  <2>6. QED
    BY <1>1, <2>5 DEF HandleIs
<1>8. CASE JournalOpen
  <2>1. fs' = fs \/ \E journal : fs' = [fs EXCEPT !.opened = TRUE, !.journal = journal]
    BY <1>8 DEF JournalOpen
  <2>2. QED
    BY <1>1, <2>1 DEF HandleIs, Fields
<1>9. CASE SuperReopen
  <2>1. fs' = fs \/ \E super, rest, stray :
                      fs' = [fs EXCEPT !.super = super, !.rest = rest, !.stray = stray]
    BY <1>9 DEF SuperReopen
  <2>2. QED
    BY <1>1, <2>1 DEF HandleIs, Fields
<1>10. CASE BitmapOpen
  <2>1. fs' = fs \/ \E used : fs' = [fs EXCEPT !.used = used]
    BY <1>10 DEF BitmapOpen
  <2>2. QED
    BY <1>1, <2>1 DEF HandleIs, Fields
<1>11. CASE OpenDevices \/ Check \/ Probe \/ FsClobber \/ KernelMount \/ KernelFlush \/ UNCHANGED vars
            \/ CreateSync \/ \E r \in Requests : OpenToCreate(r)
  BY <1>1, <1>11 DEF OpenDevices, Check, Probe, FsClobber, KernelMount, KernelFlush, vars,
                     CreateSync, OpenToCreate
<1>12. CASE ClobberFails \/ JournalFails \/ TreeFails \/ SyncFails \/ Close
  BY <1>2, <1>12 DEF ClobberFails, JournalFails, TreeFails, SyncFails, Close
<1>13. QED
  BY <1>3, <1>4, <1>5, <1>6, <1>7, <1>8, <1>9, <1>10, <1>11, <1>12 DEF Next, Create, Open

-----------------------------------------------------------------------------
(* No super block is on the device that was not there before.              *)
SupersLeft ==
  \A i \in DOMAIN disk.host : disk'.host[i][1] = "super" => disk'.host[i] = disk.host[i]

(* Creating: what is written before the super block leaves no new one.     *)
LEMMA DiskWritten ==
  ASSUME DiskRight, NEW dev \in {"host", "other"}, NEW new, SupersFrom(new, disk[dev]),
         disk' = [disk EXCEPT ![dev] = new], made' = NoRequest, logged' \in {logged, NoSuper}
  PROVE  /\ DiskRight' /\ disk'[dev] = new
         /\ \A d \in {"host", "other"} :
              Len(disk'[d]) = Len(disk[d]) /\ DOMAIN (disk'[d]) = DOMAIN (disk[d])
         /\ \A d \in {"host", "other"} : d # dev => disk'[d] = disk[d]
         /\ \A i \in DOMAIN disk.host : disk'.host[i][1] = "super" => disk'.host[i] = disk.host[i]
<1>1. DOMAIN disk = {"host", "other"} /\ disk["host"] = disk.host /\ disk["other"] = disk.other
  BY DiskIs
<1>2. disk' = [host |-> disk'.host, other |-> disk'.other]
  <2>1. DOMAIN disk' = {"host", "other"} /\ disk' = [d \in {"host", "other"} |-> disk'[d]]
    BY <1>1
  <2>2. QED
    BY <2>1
<1>3. disk'[dev] = new /\ \A d \in {"host", "other"} : d # dev => disk'[d] = disk[d]
  BY <1>1
<1>4. SupersFrom(disk'.host, disk.host) /\ SupersFrom(disk'.other, disk.other)
  BY <1>1, <1>3, SupersFromSame DEF DiskRight
<1>5. Sequence(disk'.host) /\ Sequence(disk'.other)
  BY <1>4 DEF SupersFrom
<1>6. /\ SupersSound(disk'.host)
      /\ \A i \in DOMAIN disk'.host : disk'.host[i][1] = "super" => disk'.host[i] = disk.host[i]
  BY <1>4, SupersStaySound DEF DiskRight
<1>7. DOMAIN disk'.host = DOMAIN disk.host
  BY <1>4 DEF SupersFrom
<1>8. logged' # NoSuper => \A i \in DOMAIN disk'.host : disk'.host[i][1] = "super" =>
        logged' = [disk'.host[i][2] EXCEPT !.clean = FALSE]
  BY <1>6, <1>7 DEF DiskRight
<1>9. DiskRight'
  BY <1>2, <1>5, <1>6, <1>8 DEF DiskRight
<1>10. \A d \in {"host", "other"} :
              Len(disk'[d]) = Len(disk[d]) /\ DOMAIN (disk'[d]) = DOMAIN (disk[d])
  BY <1>4 DEF SupersFrom
<1>11. QED
  BY <1>3, <1>6, <1>7, <1>9, <1>10

(* Clobbering leaves no super block, and zeros in front of its end.        *)
LEMMA ClobberedIs ==
  ASSUME DiskRight, NEW n \in Nat
  PROVE  /\ SupersFrom(Clobbered(n), disk["host"])
         /\ \A i \in DOMAIN disk.host : i <= n => Clobbered(n)[i] = Zero
<1>1. Plain(Fill(n, Zero)) /\ Len(Fill(n, Zero)) = n /\ \A i \in 1..n : Fill(n, Zero)[i] = Zero
  BY PlainFill, FillIs, TagsAre
<1>2. Sequence(disk.host) /\ disk["host"] = disk.host /\ DOMAIN disk.host = 1..Len(disk.host)
      /\ Len(disk.host) \in Nat
  BY DiskIs DEF DiskRight
<1>3. SupersFrom(Clobbered(n), disk["host"])
  BY <1>1, <1>2, PutPlain, 0 \in Nat DEF Clobbered
<1>4. \A i \in DOMAIN disk.host : Clobbered(n)[i] =
           IF i > 0 /\ i <= 0 + Len(Fill(n, Zero)) THEN Fill(n, Zero)[i - 0] ELSE disk.host[i]
  BY <1>1, <1>2, PutIs, 0 \in Nat DEF Clobbered, Plain
<1>5. ASSUME NEW i \in DOMAIN disk.host, i <= n  PROVE Clobbered(n)[i] = Zero
  <2>1. i \in 1..n /\ i - 0 = i
    BY <1>2, <1>5
  <2>2. QED
    BY <1>1, <1>4, <1>5, <2>1
<1>6. QED
  BY <1>3, <1>5

(* ClobberFails keeps the invariant.                                       *)
LEMMA ClobberFailsPreserves ==
  ASSUME IInv, ClobberFails
  PROVE  IInv' /\ SupersLeft
<1>1. PICK n \in {0, SuperOffset \div 2} : disk' = [disk EXCEPT !.host = Clobbered(n)]
  BY DEF ClobberFails
<1>2. n \in Nat
  BY PlacesAre, Division
<1>3. /\ pc = "clobber" /\ pc' = "failed" /\ made' = NoRequest
      /\ UNCHANGED <<dals, asked, logged, unread>> /\ asked.blocksize # 0
  BY DEF ClobberFails, IInv, AskedRight
<1>4. /\ DiskRight'
      /\ \A i \in DOMAIN disk.host : disk'.host[i][1] = "super" => disk'.host[i] = disk.host[i]
  BY <1>1, <1>2, <1>3, ClobberedIs, DiskWritten DEF IInv
<1>5. QED
  BY <1>3, <1>4, FailRight DEF SupersLeft

(* The device is long enough for what was checked.                         *)
LEMMA CheckedLength ==
  ASSUME IInv, asked.blocksize # 0, pc # "failed", CreateCheck(asked)
  PROVE  /\ asked.len * asked.blocksize <= Len(disk.host)
         /\ asked.len > SuperBlk + 2 + (IF asked.rel THEN 0 ELSE asked.jlen + 1) + MinTree
         /\ asked.len \in Nat
<1>1. /\ dals.host = [data |-> "host", blocksize |-> asked.blocksize, flags |-> "rw"]
      /\ asked.blocksize \in Nat \ {0} /\ asked.len \in Nat /\ SuperBlk \in Nat
  BY RequestKept
<1>2. Content(dals.host) = disk.host /\ Len(disk.host) \in Nat
  BY <1>1, DiskIs DEF Content, IInv
<1>3. asked.len <= Len(disk.host) \div asked.blocksize
  BY <1>1, <1>2 DEF CreateCheck, DalLen
<1>4. asked.len * asked.blocksize <= Len(disk.host)
  BY <1>1, <1>2, <1>3, DivBound
<1>5. asked.len > SuperBlk + 2 + (IF asked.rel THEN 0 ELSE asked.jlen + 1) + MinTree
  BY <1>1 DEF CreateCheck, TreeStart, SuperBlk
<1>6. QED
  BY <1>1, <1>4, <1>5

(* How many blocks a bitmap has: as many as begin below its length.        *)
LEMMA BitmapBlocksIs ==
  ASSUME NEW count \in Nat, NEW bs \in Nat \ {0}
  PROVE  /\ BitmapBlocks(count, bs) \in Int
         /\ count # 0 => BitmapBlocks(count, bs) \in Nat \ {0}
         /\ \A k \in Nat : k < BitmapBlocks(count, bs) <=> k * (bs * BitsPerUnit) <= count - 1
<1> DEFINE d == BitsPerUnit * bs
           q == (count - 1) \div d
<1>1. d \in Nat \ {0} /\ bs * BitsPerUnit = d
  BY PlacesAre
<1> HIDE DEF d
<1>2. q \in Int /\ BitmapBlocks(count, bs) = q + 1
  <2>1. count - 1 \in Int
    OBVIOUS
  <2>2. q \in Int
    BY <1>1, <2>1, Division
  <2>3. BitmapBlocks(count, bs) = q + 1
    BY DEF BitmapBlocks, d
  <2>4. QED
    BY <2>2, <2>3
<1>3. \A k \in Int : k <= q <=> k * d <= count - 1
  BY <1>1, DivBound
<1> HIDE DEF q
<1>4. \A k \in Nat : k < BitmapBlocks(count, bs) <=> k * d <= count - 1
  BY <1>2, <1>3
<1>5. count # 0 => 0 <= q
  <2>1. 0 * d = 0
    BY <1>1
  <2>2. QED
    BY <1>3, <2>1
<1>6. QED
  BY <1>1, <1>2, <1>4, <1>5

(* A new super block has what was asked for.                               *)
LEMMA NewSuperIs ==
  ASSUME IInv, asked.blocksize # 0
  PROVE  /\ NewSuper \in Supers /\ NewSuper.jr = asked.rel /\ NewSuper.count = asked.len
         /\ NewSuper.bs = asked.blocksize /\ NewSuper.free = NewFree /\ NewFree \in Int
         /\ NewSuper.tune = FALSE
<1>1. /\ asked.blocksize \in Nat \ {0} /\ asked.len \in Nat
      /\ asked.rel \in BOOLEAN /\ asked.start \in Nat /\ asked.jlen \in Nat /\ SuperBlk \in Nat
  BY RequestKept
<1>2. BitmapNr \in Int
  BY <1>1, BitmapBlocksIs DEF BitmapNr
<1>3. NewFree \in Int
  BY <1>1, <1>2 DEF NewFree
<1> HIDE DEF NewFree
<1>4. [start |-> asked.start, len |-> asked.jlen, dev |-> IF asked.rel THEN 1 ELSE 0]
        \in [start : Nat, len : Nat, dev : Nat]
  BY <1>1
<1>5. QED
  BY <1>1, <1>3, <1>4 DEF NewSuper, Supers

(* What the steps of a creation have in common.                            *)
LEMMA CreatingRight ==
  ASSUME IInv, asked.blocksize # 0, pc # "failed", DiskRight',
         UNCHANGED <<dals, asked, unread>>, pc' \in {"create", "clobber", "journal", "tree", "sync"},
         \A d \in {"host", "other"} : Len(disk'[d]) = Len(disk[d])
  PROVE  /\ HandlesRight' /\ AskedRight' /\ ReadRight' /\ FoundAgain'
         /\ TypeOK' /\ OpenedWhole' /\ FreeRight'
         /\ CreateCheck(asked) => (CreateCheck(asked))'
<1>1. HandlesRight'
  BY DEF IInv, HandlesRight
<1>2. AskedRight'
  BY DEF IInv, AskedRight
<1>3. asked'.first = 0
  BY RequestKept
<1>4. ReadRight' /\ FoundAgain'
  BY <1>3, NotOpening DEF ReadRight, Reading
<1>5. unread' \in BOOLEAN
  BY DEF IInv, TypeOK
<1>6. TypeOK' /\ OpenedWhole' /\ FreeRight'
  BY <1>1, <1>5, NotOpen DEF Stages
<1>7. dals.host.data \in {"host", "other"}
  BY RequestKept
<1>8. CreateCheck(asked) => (CreateCheck(asked))'
  BY <1>7 DEF CreateCheck, TreeStart, Content, DalLen
<1>9. QED
  BY <1>1, <1>2, <1>4, <1>6, <1>8

(* SuperCreate keeps the invariant.                                        *)
LEMMA SuperCreatePreserves ==
  ASSUME IInv, HandleIs, SuperCreate
  PROVE  IInv' /\ SupersLeft
<1>1. /\ pc = "clobber" /\ pc' = "journal" /\ logged' = NoSuper /\ made' = NoRequest
      /\ UNCHANGED <<dals, asked, unread>> /\ asked.blocksize # 0
      /\ disk' = [disk EXCEPT !.host = Clobbered(SuperOffset)]
  BY DEF SuperCreate, IInv, AskedRight
<1>2. fs' = [fs EXCEPT !.super = NewSuper, !.off = SuperBlk, !.used = @ \cup (0..SuperBlk),
                        !.rest = Fill(asked.blocksize - 1, <<"map">>)]
  BY DEF SuperCreate
<1> DEFINE new == Clobbered(SuperOffset)
<1>3. SuperOffset \in Nat /\ SuperOffset = 16 * Default /\ Default \in Nat \ {0}
  BY PlacesAre
<1>4. /\ SupersFrom(new, disk["host"])
      /\ \A i \in DOMAIN disk.host : i <= SuperOffset => new[i] = Zero
  BY <1>3, ClobberedIs DEF IInv
<1> HIDE DEF new
<1>5. /\ DiskRight' /\ disk'["host"] = new
      /\ \A d \in {"host", "other"} :
              Len(disk'[d]) = Len(disk[d]) /\ DOMAIN (disk'[d]) = DOMAIN (disk[d])
      /\ \A i \in DOMAIN disk.host : disk'.host[i][1] = "super" => disk'.host[i] = disk.host[i]
  BY <1>1, <1>4, DiskWritten DEF IInv, new
<1>6. \A i \in DOMAIN disk'.host : disk'.host[i][1] = "super" => i = SuperOffset + 1
  <2> SUFFICES ASSUME NEW i \in DOMAIN disk'.host, disk'.host[i][1] = "super"
               PROVE  i = SuperOffset + 1
    OBVIOUS
  <2>1. i \in DOMAIN disk.host /\ disk["host"] = disk.host
    BY <1>5, DiskIs DEF IInv
  <2>2. disk.host[i][1] = "super" /\ i - 1 \in SuperPlaces /\ i \in Nat
    BY <1>5, <2>1, DiskIs DEF IInv, DiskRight, SupersSound
  <2>3. ~(i <= SuperOffset)
    BY <1>4, <1>5, <2>1, TagsAre
  <2>4. QED
    BY <1>3, <2>2, <2>3 DEF SuperPlaces
<1>7. /\ HandlesRight' /\ AskedRight' /\ ReadRight' /\ FoundAgain'
      /\ TypeOK' /\ OpenedWhole' /\ FreeRight'
      /\ CreateCheck(asked) => (CreateCheck(asked))'
  BY <1>1, <1>5, CreatingRight
<1>8. CreateCheck(asked) /\ fs.used = OwnBits
  BY <1>1 DEF IInv, CreationRight
<1>9. /\ fs'.super = NewSuper /\ fs'.off = SuperBlk /\ fs'.used = OwnBits \cup (0..SuperBlk)
      /\ fs'.rest = Fill(asked.blocksize - 1, <<"map">>)
  BY <1>2, <1>8 DEF HandleIs, Fields
<1>10. /\ OwnBits' = OwnBits /\ SuperBlk' = SuperBlk /\ NewFree' = NewFree
       /\ Taken' = Taken
  BY <1>1 DEF OwnBits, SuperBlk, NewFree, Taken, BitmapNr
<1>11. /\ NewSuper \in Supers /\ NewSuper.jr = asked.rel /\ NewSuper.count = asked.len
       /\ NewSuper.bs = asked.blocksize /\ NewSuper.free = NewFree /\ NewSuper.tune = FALSE
  BY <1>1, NewSuperIs
<1> HIDE DEF NewSuper
<1>12. CreationRight'
  BY <1>1, <1>6, <1>7, <1>8, <1>9, <1>10, <1>11 DEF CreationRight, Taken
<1>13. QED
  BY <1>5, <1>7, <1>12 DEF IInv, SupersLeft

(* What the later steps of a creation leave as it is.                      *)
LEMMA PlanKept ==
  ASSUME IInv, asked.blocksize # 0, pc # "failed",
         UNCHANGED <<dals, asked>>, fs'.off = fs.off,
         \A d \in {"host", "other"} : Len(disk'[d]) = Len(disk[d])
  PROVE  /\ JournalStart' = JournalStart /\ NewParams' = NewParams
         /\ SuperBlk' = SuperBlk /\ NewFree' = NewFree
         /\ Taken' = Taken /\ JournalBlocks' = JournalBlocks
         /\ Checked => Checked'
<1>1. dals.journal.data \in {"host", "other"}
  BY RequestKept
<1>2. JournalStart' = JournalStart
  BY DEF JournalStart
<1>3. NewParams' = NewParams
  BY <1>2 DEF NewParams
<1>4. SuperBlk' = SuperBlk /\ NewFree' = NewFree /\ Taken' = Taken
  BY DEF SuperBlk, NewFree, Taken, OwnBits, BitmapNr
<1>5. JournalBlocks' = JournalBlocks
  BY <1>2 DEF JournalBlocks
<1>6. Len(Content(dals.journal)') = Len(Content(dals.journal))
  BY <1>1 DEF Content
<1>7. Checked => Checked'
  BY <1>2, <1>6 DEF Checked, ParamsCheck, DalLen
<1>8. QED
  BY <1>2, <1>3, <1>4, <1>5, <1>7

(* A new journal begins where it was asked to.                             *)
LEMMA NewParamsIs ==
  ASSUME IInv, asked.blocksize # 0, pc \in {"journal", "tree", "sync"}
  PROVE  /\ JournalStart \in Nat /\ NewParams \in [start : Nat, len : Nat, dev : Nat]
         /\ NewParams.start = JournalStart /\ NewParams.len = asked.jlen
         /\ ~asked.rel => JournalStart = SuperBlk + 2
         /\ asked.rel => JournalStart = asked.start
<1>1. /\ asked.rel \in BOOLEAN /\ asked.start \in Nat /\ asked.jlen \in Nat /\ SuperBlk \in Nat
      /\ dals.journal.data \in {"host", "other"}
  BY RequestKept
<1>2. fs.off = SuperBlk
  BY DEF IInv, CreationRight
<1>3. JournalStart \in Nat /\ (~asked.rel => JournalStart = SuperBlk + 2)
      /\ (asked.rel => JournalStart = asked.start)
  BY <1>1, <1>2 DEF JournalStart
<1>4. Stat[dals.journal.data] \in Nat
  BY <1>1, SizesAssumption
<1>5. QED
  BY <1>1, <1>3, <1>4 DEF NewParams

(* The units of a new journal: nothing but its head.                       *)
LEMMA JournalUnits ==
  ASSUME NEW n \in Nat, NEW m \in Nat, NEW params
  PROVE  LET units == Fill(n, Zero) \o <<<<"head", params>>>> \o Fill(m, Zero)
         IN  Plain(units) /\ Len(units) = n + 1 + m /\ units[n + 1] = <<"head", params>>
<1> DEFINE a == Fill(n, Zero)
           b == <<<<"head", params>>>>
           c == Fill(m, Zero)
           d == a \o b
<1>1. Plain(a) /\ Plain(b) /\ Plain(c)
  BY PlainFill, PlainOne, TagsAre
<1>2. Len(a) = n /\ Len(b) = 1 /\ Len(c) = m /\ b[1] = <<"head", params>>
  BY FillIs, OneIs
<1> HIDE DEF a, b, c
<1>3. Plain(d)
  BY <1>1, PlainConcat
<1>4. Len(d) = n + 1 /\ d[n + 1] = <<"head", params>>
  <2>1. /\ Len(d) = Len(a) + Len(b)
        /\ \A i \in 1..(Len(a) + Len(b)) : d[i] = IF i <= Len(a) THEN a[i] ELSE b[i - Len(a)]
    BY <1>1, ConcatIs DEF Plain
  <2>2. n + 1 \in 1..(Len(a) + Len(b)) /\ ~(n + 1 <= Len(a)) /\ n + 1 - Len(a) = 1
    BY <1>2
  <2>3. QED
    BY <1>2, <2>1, <2>2
<1> HIDE DEF d
<1>5. Plain(d \o c)
  BY <1>1, <1>3, PlainConcat
<1>6. Len(d \o c) = n + 1 + m /\ (d \o c)[n + 1] = d[n + 1]
  <2>1. /\ Len(d \o c) = Len(d) + Len(c)
        /\ \A i \in 1..(Len(d) + Len(c)) : (d \o c)[i] = IF i <= Len(d) THEN d[i] ELSE c[i - Len(d)]
    BY <1>1, <1>3, ConcatIs DEF Plain
  <2>2. n + 1 \in 1..(Len(d) + Len(c)) /\ n + 1 <= Len(d)
    BY <1>2, <1>4
  <2>3. QED
    BY <1>2, <1>4, <2>1, <2>2
<1>7. QED
  BY <1>4, <1>5, <1>6 DEF a, b, c, d

(* JournalCreate keeps the invariant.                                      *)
LEMMA JournalCreatePreserves ==
  ASSUME IInv, HandleIs, JournalCreate
  PROVE  IInv' /\ SupersLeft
<1> DEFINE dev == dals.journal.data
           bs == asked.blocksize
           units == Fill(asked.jlen * bs, Zero) \o <<<<"head", NewParams>>>> \o Fill(bs - 1, Zero)
           new == Put(disk[dev], JournalStart * bs, units)
<1>1. /\ pc = "journal" /\ pc' = "tree" /\ UNCHANGED <<dals, asked, logged, made, unread>>
      /\ asked.blocksize # 0 /\ Checked
  BY DEF JournalCreate, IInv, AskedRight
<1>2. /\ dals.journal.blocksize = bs /\ dev \in {"host", "other"} /\ bs \in Nat \ {0}
      /\ asked.jlen \in Nat /\ asked.rel \in BOOLEAN
      /\ dev = (IF asked.rel THEN "other" ELSE "host")
  BY <1>1, RequestKept
<1>3. disk' = [disk EXCEPT ![dev] = new]
  BY <1>2 DEF JournalCreate, Offset
<1>4. /\ fs'.super = [fs.super EXCEPT !.jp = NewParams] /\ fs'.off = fs.off /\ fs'.rest = fs.rest
      /\ fs'.used = IF asked.rel THEN fs.used ELSE fs.used \cup (JournalStart..(JournalStart + asked.jlen))
  BY DEF HandleIs, Fields, JournalCreate
<1>5. JournalStart \in Nat /\ NewParams \in [start : Nat, len : Nat, dev : Nat]
  BY <1>1, NewParamsIs
<1> DEFINE first == JournalStart * bs
           n == asked.jlen * bs
           m == bs - 1
<1>6. first \in Nat /\ n \in Nat /\ m \in Nat
  BY <1>2, <1>5
<1>7. Plain(units) /\ Len(units) = n + 1 + m /\ units[n + 1] = <<"head", NewParams>>
  BY <1>6, JournalUnits
<1> HIDE DEF units
<1>8. Sequence(disk[dev]) /\ disk["host"] = disk.host /\ disk["other"] = disk.other
  BY <1>2, DiskIs DEF IInv, DiskRight
<1>9. SupersFrom(new, disk[dev])
  BY <1>6, <1>7, <1>8, PutPlain
<1>10. first + n + 1 \in DOMAIN disk[dev] /\ (JournalStart + asked.jlen) * bs + 1 = first + n + 1
  <2>1. Len(disk[dev]) \in Nat /\ DOMAIN disk[dev] = 1..Len(disk[dev])
    BY <1>8, SequenceIs
  <2>2. (JournalStart + asked.jlen + 1) * bs <= Len(disk[dev])
    BY <1>1, <1>2 DEF Checked, Content
  <2>3. /\ (JournalStart + asked.jlen + 1) * bs = first + n + bs
        /\ (JournalStart + asked.jlen) * bs = first + n
    BY <1>2, <1>5
  <2> HIDE DEF first, n
  <2>4. QED
    BY <1>2, <1>6, <2>1, <2>2, <2>3
<1>11. new[first + n + 1] = <<"head", NewParams>>
  <2> HIDE DEF first, n, m
  <2>1. n + 1 \in 1..Len(units) /\ first + n + 1 = first + (n + 1)
    BY <1>6, <1>7
  <2>2. Sequence(units)
    BY <1>7 DEF Plain
  <2> DEFINE at == first + n + 1
             j == n + 1
             c == disk[dev]
  <2>3. at \in DOMAIN c /\ j \in 1..Len(units) /\ at = first + j /\ Sequence(c) /\ first \in Nat
    BY <1>6, <1>8, <1>10, <2>1
  <2> HIDE DEF at, j, c
  <2>4. Put(c, first, units)[at] = units[j]
    BY <2>2, <2>3, PutAt
  <2>5. QED
    BY <1>7, <2>4 DEF first, at, j, c, new
<1>12. made = NoRequest /\ logged = NoSuper /\ CreateCheck(asked) /\ fs.super \in Supers
       /\ \A i \in DOMAIN disk.host : disk.host[i][1] = "super" => i = SuperOffset + 1
  BY <1>1 DEF IInv, CreationRight
<1> HIDE DEF new, first, n, m
<1>13. /\ DiskRight' /\ disk'[dev] = new
       /\ \A d \in {"host", "other"} :
              Len(disk'[d]) = Len(disk[d]) /\ DOMAIN (disk'[d]) = DOMAIN (disk[d])
       /\ \A i \in DOMAIN disk.host : disk'.host[i][1] = "super" => disk'.host[i] = disk.host[i]
  BY <1>1, <1>2, <1>3, <1>9, <1>12, DiskWritten DEF IInv
<1>14. /\ HandlesRight' /\ AskedRight' /\ ReadRight' /\ FoundAgain'
       /\ TypeOK' /\ OpenedWhole' /\ FreeRight' /\ (CreateCheck(asked))'
  BY <1>1, <1>12, <1>13, CreatingRight
<1>15. /\ JournalStart' = JournalStart /\ NewParams' = NewParams
       /\ SuperBlk' = SuperBlk /\ NewFree' = NewFree
       /\ Taken' = Taken /\ JournalBlocks' = JournalBlocks /\ Checked'
  BY <1>1, <1>4, <1>13, PlanKept
<1>16. \A i \in DOMAIN disk'.host : disk'.host[i][1] = "super" => i = SuperOffset + 1
  <2>1. DOMAIN disk'.host = DOMAIN disk.host
    BY <1>8, <1>13
  <2>2. QED
    BY <1>12, <1>13, <2>1
<1>17. /\ fs'.super \in Supers /\ fs'.super.jr = fs.super.jr /\ fs'.super.count = fs.super.count
       /\ fs'.super.bs = fs.super.bs /\ fs'.super.free = fs.super.free /\ fs'.super.jp = NewParams
       /\ fs'.super.tune = fs.super.tune
  BY <1>4, <1>5, <1>12 DEF Supers
<1>18. fs'.used = Taken \cup JournalBlocks
  BY <1>1, <1>4 DEF IInv, CreationRight, JournalBlocks
<1>19. disk'[dev][(JournalStart + asked.jlen) * bs + 1] = <<"head", NewParams>>
  BY <1>10, <1>11, <1>13
<1>20. CreationRight'
  <2>1. /\ fs.off = SuperBlk /\ fs.rest = Fill(asked.blocksize - 1, <<"map">>)
        /\ fs.super.jr = asked.rel /\ fs.super.count = asked.len
        /\ fs.super.bs = asked.blocksize /\ fs.super.free = NewFree /\ ~fs.super.tune
    BY <1>1 DEF IInv, CreationRight
  <2>2. pc' \notin {"clobber", "journal", "sync"}
    BY <1>1
  <2>3. QED
    BY <1>1, <1>4, <1>12, <1>14, <1>15, <1>16, <1>17, <1>18, <1>19, <2>1, <2>2 DEF CreationRight
<1>21. QED
  BY <1>13, <1>14, <1>20 DEF IInv, SupersLeft

(* JournalFails keeps the invariant.                                       *)
LEMMA JournalFailsPreserves ==
  ASSUME IInv, JournalFails
  PROVE  IInv' /\ SupersLeft
<1>1. /\ pc = "journal" /\ pc' = "failed" /\ UNCHANGED <<dals, asked, logged, made, unread>>
      /\ asked.blocksize # 0
  BY DEF JournalFails, IInv, AskedRight
<1> DEFINE dev == dals.journal.data
           first == Offset(dals.journal, JournalStart)
<1>2. PICK n \in 0..asked.jlen :
        disk' = [disk EXCEPT ![dev] = Put(@, first, Fill(n * dals.journal.blocksize, Zero))]
  BY DEF JournalFails
<1>3. /\ dev \in {"host", "other"} /\ dals.journal.blocksize \in Nat \ {0}
      /\ asked.jlen \in Nat
  BY <1>1, RequestKept
<1>4. PICK size : size = n * dals.journal.blocksize
  OBVIOUS
<1>5. size \in Nat
  <2>1. \A a, b \in Nat : a * b \in Nat
    OBVIOUS
  <2>2. n \in Nat
    BY <1>3
  <2>3. QED
    BY <1>3, <1>4, <2>1, <2>2
<1>6. first \in Nat
  BY <1>1, <1>3, NewParamsIs DEF Offset
<1> DEFINE units == Fill(size, Zero)
           new == Put(disk[dev], first, units)
<1>7. Sequence(disk[dev]) /\ Plain(units)
  BY <1>3, <1>5, DiskIs, PlainFill, TagsAre DEF IInv, DiskRight
<1> HIDE DEF units, first
<1>8. SupersFrom(new, disk[dev])
  BY <1>6, <1>7, PutPlain
<1>9. made' = NoRequest /\ logged' = logged
  BY <1>1 DEF IInv, CreationRight
<1>10. disk' = [disk EXCEPT ![dev] = new]
  BY <1>2, <1>4 DEF units
<1> HIDE DEF new
<1>11. /\ DiskRight'
       /\ \A i \in DOMAIN disk.host : disk'.host[i][1] = "super" => disk'.host[i] = disk.host[i]
  BY <1>3, <1>8, <1>9, <1>10, DiskWritten DEF IInv
<1>12. QED
  BY <1>1, <1>11, FailRight DEF SupersLeft

(* TreeCreate keeps the invariant.                                         *)
LEMMA TreeCreatePreserves ==
  ASSUME IInv, HandleIs, TreeCreate
  PROVE  IInv' /\ SupersLeft
<1> DEFINE bs == asked.blocksize
           least == CHOOSE b \in FreeBlocks : \A other \in FreeBlocks : b <= other
           units == <<EmptyRoot>> \o Fill(Bs - 1, Zero)
<1>1. /\ pc = "tree" /\ pc' = "sync" /\ UNCHANGED <<dals, asked, logged, made, unread>>
      /\ asked.blocksize # 0 /\ FreeBlocks # {}
  BY DEF TreeCreate, IInv, AskedRight
<1>2. /\ Bs = bs /\ dals.host.blocksize = bs /\ bs \in Nat \ {0} /\ asked.len \in Nat
      /\ asked.jlen \in Nat /\ asked.rel \in BOOLEAN /\ dals.host.data = "host"
      /\ dals.journal.data = (IF asked.rel THEN "other" ELSE "host")
      /\ dals.journal.blocksize = bs
  BY <1>1, RequestKept
<1>3. PICK blk : blk = least
  OBVIOUS
<1>4. blk \in FreeBlocks
  <2>1. FreeBlocks \subseteq Nat
    BY <1>2 DEF FreeBlocks
  <2>2. \E b \in FreeBlocks : \A other \in FreeBlocks : b <= other
    BY <1>1, <2>1, Least
  <2>3. QED
    BY <1>3, <2>2
<1>5. /\ disk' = [disk EXCEPT !.host = Put(@, Offset(dals.host, blk), units)]
      /\ fs' = [fs EXCEPT !.super.root = blk, !.used = @ \cup {blk}]
  BY <1>3, Zenon DEF TreeCreate
<1> HIDE DEF least
<1> DEFINE first == blk * bs
           host == disk.host
           new == Put(host, first, units)
<1>6. /\ fs.used = Taken \cup JournalBlocks /\ made = NoRequest /\ logged = NoSuper
      /\ CreateCheck(asked) /\ fs.super \in Supers /\ Checked /\ fs.super.jp = NewParams
      /\ \A i \in DOMAIN disk.host : disk.host[i][1] = "super" => i = SuperOffset + 1
      /\ disk[dals.journal.data][(JournalStart + asked.jlen) * asked.blocksize + 1]
            = <<"head", NewParams>>
  BY <1>1 DEF IInv, CreationRight
<1>7. blk \in Nat /\ blk >= 1 /\ blk < asked.len /\ blk \notin Taken /\ blk \notin JournalBlocks
  BY <1>2, <1>4, <1>6 DEF FreeBlocks
<1>8. fs' = [fs EXCEPT !.super = [fs.super EXCEPT !.root = blk], !.used = fs.used \cup {blk}]
  BY <1>5
<1>9. /\ fs'.super = [fs.super EXCEPT !.root = blk] /\ fs'.off = fs.off /\ fs'.rest = fs.rest
      /\ fs'.used = fs.used \cup {blk}
  BY <1>8 DEF HandleIs, Fields
<1>10. /\ Sequence(host) /\ disk["host"] = host /\ disk["other"] = disk.other
       /\ Len(host) \in Nat /\ DOMAIN host = 1..Len(host)
  BY DiskIs DEF IInv, DiskRight
<1>11. first \in Nat /\ first + bs <= Len(host) /\ first + bs \in Nat
  <2>1. asked.len * bs <= Len(host)
    BY <1>1, <1>6, CheckedLength
  <2>2. first \in Nat /\ asked.len * bs \in Nat /\ first + bs <= asked.len * bs
    BY <1>2, <1>7, BlocksApart
  <2> HIDE DEF first
  <2>3. QED
    BY <1>2, <1>10, <2>1, <2>2
<1>12. disk' = [disk EXCEPT !["host"] = new]
  BY <1>2, <1>5, <1>10 DEF Offset
<1>13. Plain(units) /\ Len(units) = bs /\ units[1] = EmptyRoot
  <2> DEFINE a == <<EmptyRoot>>
             b == Fill(Bs - 1, Zero)
  <2>1. Plain(a) /\ Plain(b) /\ Len(a) = 1 /\ a[1] = EmptyRoot /\ Len(b) = bs - 1
    BY <1>2, PlainOne, PlainFill, OneIs, FillIs, TagsAre
  <2> HIDE DEF a, b
  <2>2. Plain(a \o b) /\ Len(a \o b) = Len(a) + Len(b)
        /\ \A i \in 1..(Len(a) + Len(b)) : (a \o b)[i] = IF i <= Len(a) THEN a[i] ELSE b[i - Len(a)]
    BY <2>1, PlainConcat, ConcatIs DEF Plain
  <2>3. 1 \in 1..(Len(a) + Len(b)) /\ 1 <= Len(a)
    BY <1>2, <2>1
  <2>4. Len(a \o b) = bs /\ (a \o b)[1] = EmptyRoot
    BY <1>2, <2>1, <2>2, <2>3
  <2>5. QED
    BY <2>2, <2>4 DEF a, b
<1> HIDE DEF units, first, host
<1>14. SupersFrom(new, disk["host"])
  BY <1>10, <1>11, <1>13, PutPlain
<1>15. new[first + 1] = EmptyRoot
  <2>1. 1 \in 1..Len(units) /\ Sequence(units) /\ first + 1 \in DOMAIN host
    BY <1>2, <1>10, <1>11, <1>13 DEF Plain
  <2>2. QED
    BY <1>10, <1>11, <1>13, <2>1, PutAt, SMTT(40)
<1>16. \A i \in DOMAIN host : (i <= first \/ i > first + bs) => new[i] = host[i]
  <2>1. Sequence(units) /\ Len(units) = bs
    BY <1>13 DEF Plain
  <2>2. QED
    BY <1>10, <1>11, <2>1, PutElsewhere
<1> HIDE DEF new
<1>17. /\ DiskRight' /\ disk'["host"] = new
       /\ \A d \in {"host", "other"} :
              Len(disk'[d]) = Len(disk[d]) /\ DOMAIN (disk'[d]) = DOMAIN (disk[d])
       /\ \A d \in {"host", "other"} : d # "host" => disk'[d] = disk[d]
       /\ \A i \in DOMAIN disk.host : disk'.host[i][1] = "super" => disk'.host[i] = disk.host[i]
  BY <1>1, <1>6, <1>12, <1>14, DiskWritten DEF IInv
<1>18. /\ HandlesRight' /\ AskedRight' /\ ReadRight' /\ FoundAgain'
       /\ TypeOK' /\ OpenedWhole' /\ FreeRight' /\ (CreateCheck(asked))'
  BY <1>1, <1>6, <1>17, CreatingRight
<1>19. /\ JournalStart' = JournalStart /\ NewParams' = NewParams
       /\ SuperBlk' = SuperBlk /\ NewFree' = NewFree
       /\ Taken' = Taken /\ JournalBlocks' = JournalBlocks /\ Checked'
  BY <1>1, <1>6, <1>9, <1>17, PlanKept
<1>20. \A i \in DOMAIN disk'.host : disk'.host[i][1] = "super" => i = SuperOffset + 1
  <2>1. DOMAIN disk'.host = DOMAIN disk.host
    BY <1>10, <1>17 DEF host
  <2>2. QED
    BY <1>6, <1>17, <2>1
<1>21. /\ fs'.super \in Supers /\ fs'.super.jr = fs.super.jr /\ fs'.super.count = fs.super.count
       /\ fs'.super.bs = fs.super.bs /\ fs'.super.free = fs.super.free /\ fs'.super.jp = NewParams
       /\ fs'.super.tune = fs.super.tune
       /\ fs'.super.root = blk
  BY <1>6, <1>7, <1>9 DEF Supers
<1>22. disk'[dals.journal.data][(JournalStart + asked.jlen) * bs + 1] = <<"head", NewParams>>
  <2>1. CASE asked.rel
    BY <1>2, <1>6, <1>17, <2>1
  <2>2. CASE ~asked.rel
    <3> DEFINE jb == JournalStart + asked.jlen
    <3>1. jb \in Nat /\ jb # blk
      BY <1>1, <1>2, <1>7, <2>2, NewParamsIs DEF JournalBlocks
    <3>2. jb * bs + 1 \in DOMAIN host
      <4>1. (jb + 1) * bs <= Len(host)
        BY <1>2, <1>6, <1>10, <2>2 DEF Checked, Content
      <4>2. (jb + 1) * bs = jb * bs + bs /\ jb * bs \in Nat
        BY <1>2, <3>1
      <4> HIDE DEF jb
      <4>3. QED
        BY <1>2, <1>10, <4>1, <4>2
    <3> HIDE DEF jb
    <3>3. jb * bs \in Nat /\ (jb * bs + bs <= first \/ first + bs <= jb * bs)
      BY <1>2, <1>7, <3>1, BlocksDiffer DEF first
    <3>4. new[jb * bs + 1] = host[jb * bs + 1]
      <4>1. jb * bs + 1 <= first \/ jb * bs + 1 > first + bs
        BY <1>2, <1>11, <3>3
      <4>2. QED
        BY <1>16, <3>2, <4>1
    <3>5. disk[dals.journal.data] = host /\ disk'[dals.journal.data] = new
      BY <1>2, <1>10, <1>17, <2>2
    <3>6. host[jb * bs + 1] = <<"head", NewParams>>
      BY <1>6, <3>5 DEF jb
    <3>7. QED
      BY <3>4, <3>5, <3>6 DEF jb
  <2>3. QED
    BY <2>1, <2>2
<1>23. disk'.host[blk * bs + 1] = EmptyRoot
  BY <1>15, <1>17 DEF first
<1>24. CreationRight'
  <2>1. /\ fs.off = SuperBlk /\ fs.rest = Fill(asked.blocksize - 1, <<"map">>)
        /\ fs.super.jr = asked.rel /\ fs.super.count = asked.len
        /\ fs.super.bs = asked.blocksize /\ fs.super.free = NewFree /\ ~fs.super.tune
    BY <1>1 DEF IInv, CreationRight
  <2>2. pc' \notin {"clobber", "journal", "tree"}
    BY <1>1
  <2>3. fs'.super.root \in (1..(asked.len - 1)) \ (Taken \cup JournalBlocks)
    BY <1>2, <1>7, <1>21
  <2>4. fs'.used = Taken \cup JournalBlocks \cup {fs'.super.root}
    BY <1>6, <1>9, <1>21
  <2>5. QED
    BY <1>1, <1>6, <1>9, <1>18, <1>19, <1>20, <1>21, <1>22, <1>23, <2>1, <2>2, <2>3, <2>4 DEF CreationRight
<1>25. QED
  BY <1>17, <1>18, <1>24 DEF IInv, SupersLeft

-----------------------------------------------------------------------------
(* Where a creation puts what.                                             *)
LEMMA PlanIs ==
  ASSUME IInv, pc = "sync"
  PROVE  LET d == asked.blocksize * BitsPerUnit
             nrs == 0..(BitmapNr - 1)
         IN  /\ d \in Nat \ {0} /\ SuperBlk \in Nat /\ SuperBlk + 2 < d
             /\ BitmapNr \in Nat \ {0}
             /\ OwnBits = {BitmapAt(k) : k \in nrs}
             /\ BitmapAt(0) = SuperBlk + 1 /\ \A k \in nrs : k # 0 => BitmapAt(k) = k * d
             /\ \A k \in nrs : k * d < asked.len /\ k * d \in Nat
             /\ \A b \in JournalBlocks : b \in Nat /\ b < d /\ b >= SuperBlk + 2 /\ b < asked.len
             /\ SuperBlk + 3 + MinTree <= asked.len
<1> DEFINE d == asked.blocksize * BitsPerUnit
           nrs == 0..(BitmapNr - 1)
<1>1. /\ asked.blocksize \in Nat \ {0} /\ asked.len \in Nat /\ asked.rel \in BOOLEAN
      /\ asked.jlen \in Nat /\ SuperBlk \in Nat /\ SuperBlk * asked.blocksize = SuperOffset
      /\ Bs = asked.blocksize /\ fs.off = SuperBlk /\ asked.blocksize # 0
      /\ dals.journal.data = (IF asked.rel THEN "other" ELSE "host")
      /\ dals.journal.blocksize = asked.blocksize
      /\ CreateCheck(asked) /\ Checked
  BY RequestKept DEF IInv, AskedRight, CreationRight
<1>2. d \in Nat \ {0} /\ d >= BitsPerUnit
  <2>1. asked.blocksize >= 1 /\ BitsPerUnit \in Nat \ {0}
    BY <1>1, PlacesAre
  <2>2. asked.blocksize * BitsPerUnit >= 1 * BitsPerUnit /\ asked.blocksize * BitsPerUnit \in Nat
    BY <1>1, <2>1
  <2>3. QED
    BY <2>1, <2>2
<1>3. SuperBlk <= SuperOffset
  <2>1. SuperBlk * asked.blocksize >= SuperBlk * 1
    BY <1>1
  <2>2. QED
    BY <1>1, <2>1
<1>4. SuperBlk + 2 < d
  BY <1>1, <1>2, <1>3, SizesAssumption, PlacesAre
<1>5. asked.len > SuperBlk + 2 + (IF asked.rel THEN 0 ELSE asked.jlen + 1) + MinTree /\ MinTree \in Nat
  BY <1>1, CheckedLength, PlacesAre
<1>6. BitmapNr \in Nat \ {0} /\ \A k \in Nat : k < BitmapNr <=> k * d <= asked.len - 1
  <2>1. asked.len # 0
    BY <1>1, <1>5
  <2>2. \A count \in Nat, bs \in Nat \ {0} :
          /\ count # 0 => BitmapBlocks(count, bs) \in Nat \ {0}
          /\ \A k \in Nat : k < BitmapBlocks(count, bs) <=> k * (bs * BitsPerUnit) <= count - 1
    BY BitmapBlocksIs
  <2>3. QED
    BY <1>1, <2>1, <2>2 DEF BitmapNr
<1>7. \A k \in nrs : k * d < asked.len /\ k * d \in Nat
  <2> SUFFICES ASSUME NEW k \in nrs  PROVE k * d < asked.len /\ k * d \in Nat
    OBVIOUS
  <2>1. k \in Nat /\ k < BitmapNr
    BY <1>6
  <2>2. k * d <= asked.len - 1
    BY <1>6, <2>1
  <2>3. k * d \in Nat
    BY <1>2, <2>1
  <2>4. QED
    BY <1>1, <2>2, <2>3
<1>8. BitmapAt(0) = SuperBlk + 1
  BY <1>1 DEF BitmapAt, BitmapPlace
<1>9. ASSUME NEW k \in nrs, k # 0
      PROVE  BitmapAt(k) = k * d /\ BitmapAt(k) = k * asked.blocksize * BitsPerUnit
  <2>1. BitmapAt(k) = k * asked.blocksize * BitsPerUnit
    BY <1>1, <1>9 DEF BitmapAt, BitmapPlace
  <2>2. k * asked.blocksize * BitsPerUnit = k * (asked.blocksize * BitsPerUnit)
    BY <1>1, <1>6, PlacesAre
  <2>3. QED
    BY <2>1, <2>2
<1>10. OwnBits = {BitmapAt(k) : k \in nrs}
  <2>1. nrs = {0} \cup 1..(BitmapNr - 1) /\ 0 \in nrs
    BY <1>6
  <2>2. \A k \in 1..(BitmapNr - 1) : k \in nrs /\ k # 0
    BY <1>6
  <2>3. {BitmapAt(k) : k \in nrs} = {BitmapAt(0)} \cup {BitmapAt(k) : k \in 1..(BitmapNr - 1)}
    BY <2>1, Zenon
  <2>4. {BitmapAt(k) : k \in 1..(BitmapNr - 1)} =
          {k * asked.blocksize * BitsPerUnit : k \in 1..(BitmapNr - 1)}
    BY <1>9, <2>2
  <2>5. QED
    BY <1>8, <2>3, <2>4 DEF OwnBits
<1>11. ASSUME NEW b \in JournalBlocks
       PROVE  b \in Nat /\ b < d /\ b >= SuperBlk + 2 /\ b < asked.len
  <2>1. ~asked.rel /\ JournalStart = SuperBlk + 2 /\ b \in JournalStart..(JournalStart + asked.jlen)
    BY <1>1, <1>11 DEF JournalBlocks, JournalStart
  <2>2. asked.jlen <= MaxLenOf(DalLen(dals.journal, Content(dals.journal)), asked.blocksize,
                               JournalStart, FALSE)
    BY <1>1, <2>1 DEF Checked, ParamsCheck, ParamsFit
  <2>3. BitsPerUnit * asked.blocksize = d
    BY <1>1, PlacesAre
  <2> HIDE DEF d
  <2>4. MaxLenOf(DalLen(dals.journal, Content(dals.journal)), asked.blocksize, JournalStart, FALSE)
          = d - JournalStart - 1
    BY <1>1, <1>2, <1>4, <2>1, <2>3 DEF MaxLenOf
  <2>5. asked.len > SuperBlk + 2 + (asked.jlen + 1) + MinTree /\ MinTree \in Nat
    BY <1>5, <2>1
  <2>6. asked.jlen <= d - JournalStart - 1
    BY <2>2, <2>4
  <2>7. b \in Nat /\ b >= SuperBlk + 2 /\ b <= SuperBlk + 2 + asked.jlen
    BY <1>1, <2>1
  <2>8. b < d
    BY <1>1, <1>2, <2>1, <2>6, <2>7
  <2>9. b < asked.len
    BY <1>1, <2>5, <2>7
  <2>10. QED
    BY <2>7, <2>8, <2>9
<1>12. QED
  <2>1. SuperBlk + 3 + MinTree <= asked.len
    BY <1>1, <1>5
  <2> HIDE DEF d
  <2>2. \A k \in nrs : k # 0 => BitmapAt(k) = k * d
    BY <1>9
  <2>3. QED
    BY <1>1, <1>2, <1>4, <1>6, <1>7, <1>8, <1>10, <1>11, <2>1, <2>2 DEF d

(* The blocks of the bitmap are different blocks behind the super block and*)
(* in front of the end.                                                    *)
LEMMA BitmapsApart ==
  ASSUME IInv, pc = "sync", NEW k \in 0..(BitmapNr - 1)
  PROVE  /\ BitmapAt(k) \in Nat /\ BitmapAt(k) < asked.len /\ BitmapAt(k) > SuperBlk
         /\ BitmapAt(k) \notin JournalBlocks
         /\ \A j \in 0..(BitmapNr - 1) : BitmapAt(j) = BitmapAt(k) => j = k
<1> DEFINE d == asked.blocksize * BitsPerUnit
           nrs == 0..(BitmapNr - 1)
<1>1. /\ d \in Nat \ {0} /\ SuperBlk \in Nat /\ SuperBlk + 2 < d /\ BitmapNr \in Nat \ {0}
      /\ BitmapAt(0) = SuperBlk + 1 /\ \A j \in nrs : j # 0 => BitmapAt(j) = j * d
      /\ \A j \in nrs : j * d < asked.len /\ j * d \in Nat
      /\ \A b \in JournalBlocks : b \in Nat /\ b < d /\ b >= SuperBlk + 2 /\ b < asked.len
      /\ SuperBlk + 3 + MinTree <= asked.len /\ MinTree \in Nat /\ asked.len \in Nat
  <2>1. asked.len \in Nat
    BY RequestKept DEF IInv, AskedRight
  <2>2. QED
    BY <2>1, PlanIs, PlacesAre
<1> HIDE DEF d
<1>2. \A j \in nrs : j # 0 => BitmapAt(j) >= d
  <2> SUFFICES ASSUME NEW j \in nrs, j # 0  PROVE j * d >= d
    BY <1>1
  <2>1. j >= 1 /\ j \in Nat
    BY <1>1
  <2>2. j * d >= 1 * d
    BY <1>1, <2>1
  <2>3. QED
    BY <1>1, <2>2
<1>3. \A j \in nrs : \A i \in nrs : j < i => BitmapAt(j) # BitmapAt(i)
  <2> SUFFICES ASSUME NEW j \in nrs, NEW i \in nrs, j < i  PROVE BitmapAt(j) # BitmapAt(i)
    OBVIOUS
  <2>1. i # 0 /\ i \in Nat /\ j \in Nat /\ BitmapAt(i) = i * d /\ i * d >= d
    BY <1>1, <1>2
  <2>2. CASE j = 0
    BY <1>1, <2>1, <2>2
  <2>3. CASE j # 0
    <3>1. j * d + d <= i * d /\ j * d \in Nat
      BY <1>1, <2>1, BlocksApart
    <3>2. BitmapAt(j) = j * d
      BY <1>1, <2>3
    <3>3. QED
      BY <1>1, <2>1, <3>1, <3>2
  <2>4. QED
    BY <2>2, <2>3
<1>4. k \in nrs /\ k \in Nat
  BY <1>1
<1>5. ASSUME NEW j \in nrs, BitmapAt(j) = BitmapAt(k)  PROVE j = k
  <2>1. j < k \/ k < j \/ j = k
    BY <1>1
  <2>2. QED
    BY <1>3, <1>4, <1>5, <2>1
<1>6. CASE k = 0
  BY <1>1, <1>5, <1>6
<1>7. CASE k # 0
  <2>1. BitmapAt(k) = k * d /\ BitmapAt(k) >= d
    BY <1>1, <1>2, <1>4, <1>7
  <2>2. QED
    BY <1>1, <1>4, <1>5, <2>1
<1>8. QED
  BY <1>6, <1>7

(* Intervals are as large as they are long, sizes of disjoint sets add up. *)
LEMMA Interval ==
  ASSUME NEW first \in Nat, NEW n \in Nat
  PROVE  /\ IsFiniteSet(0..(n - 1)) /\ Cardinality(0..(n - 1)) = n
         /\ IsFiniteSet(first..(first + n)) /\ Cardinality(first..(first + n)) = n + 1
         /\ IsFiniteSet(0..n) /\ Cardinality(0..n) = n + 1
<1>1. IsFiniteSet(0..(n - 1)) /\ Cardinality(0..(n - 1)) = IF 0 > n - 1 THEN 0 ELSE n - 1 - 0 + 1
  BY FS_Interval
<1>2. /\ IsFiniteSet(first..(first + n))
      /\ Cardinality(first..(first + n)) = IF first > first + n THEN 0 ELSE first + n - first + 1
  BY FS_Interval
<1>3. IsFiniteSet(0..n) /\ Cardinality(0..n) = IF 0 > n THEN 0 ELSE n - 0 + 1
  BY FS_Interval
<1>4. QED
  BY <1>1, <1>2, <1>3

(* The sizes of two disjoint finite sets add up.                           *)
LEMMA Apart ==
  ASSUME NEW S, IsFiniteSet(S), NEW T, IsFiniteSet(T), S \cap T = {}
  PROVE  IsFiniteSet(S \cup T) /\ Cardinality(S \cup T) = Cardinality(S) + Cardinality(T)
<1>1. Cardinality({}) = 0 /\ Cardinality(S) \in Nat /\ Cardinality(T) \in Nat
  BY FS_EmptySet, FS_CardinalityType
<1>2. /\ IsFiniteSet(S \cup T)
      /\ Cardinality(S \cup T) = Cardinality(S) + Cardinality(T) - Cardinality(S \cap T)
  BY FS_Union
<1>3. Cardinality(S \cap T) = 0
  BY <1>1
<1>4. QED
  BY <1>1, <1>2, <1>3

(* A new filesystem has taken as many blocks as its super block says.      *)
LEMMA TakenCount ==
  ASSUME IInv, pc = "sync"
  PROVE  /\ NewFree = asked.len - Cardinality(fs.used)
         /\ \A b \in fs.used : b \in Nat /\ b < asked.len
<1> DEFINE nrs == 0..(BitmapNr - 1)
           d == asked.blocksize * BitsPerUnit
           root == fs.super.root
<1>1. /\ SuperBlk \in Nat /\ BitmapNr \in Nat \ {0} /\ OwnBits = {BitmapAt(k) : k \in nrs}
      /\ \A b \in JournalBlocks : b \in Nat /\ b >= SuperBlk + 2 /\ b < asked.len
      /\ SuperBlk + 3 + MinTree <= asked.len /\ MinTree \in Nat
      /\ asked.len \in Nat /\ asked.jlen \in Nat /\ asked.rel \in BOOLEAN /\ asked.blocksize # 0
  BY RequestKept, PlanIs, PlacesAre DEF IInv, AskedRight
<1>2. /\ root \in (1..(asked.len - 1)) \ (Taken \cup JournalBlocks)
      /\ fs.used = Taken \cup JournalBlocks \cup {root}
  BY DEF IInv, CreationRight
<1>3. IsFiniteSet(OwnBits) /\ Cardinality(OwnBits) = BitmapNr
  <2> DEFINE at == [k \in nrs |-> BitmapAt(k)]
  <2>1. at \in Bijection(nrs, OwnBits)
    <3>1. at \in [nrs -> OwnBits]
      BY <1>1
    <3>2. \A a, b \in nrs : at[a] = at[b] => a = b
      BY BitmapsApart
    <3>3. \A t \in OwnBits : \E s \in nrs : at[s] = t
      BY <1>1
    <3>4. QED
      BY <3>1, <3>2, <3>3, Fun_IsBij
  <2>2. ExistsBijection(nrs, OwnBits)
    BY <2>1 DEF ExistsBijection
  <2>3. IsFiniteSet(nrs) /\ Cardinality(nrs) = BitmapNr
    BY <1>1, Interval
  <2>4. QED
    BY <2>2, <2>3, FS_Bijection
<1>4. IsFiniteSet(0..SuperBlk) /\ Cardinality(0..SuperBlk) = SuperBlk + 1
  BY <1>1, Interval
<1>5. \A b \in OwnBits : b \in Nat /\ b < asked.len /\ b > SuperBlk /\ b \notin JournalBlocks
  BY <1>1, BitmapsApart
<1>6. IsFiniteSet(Taken) /\ Cardinality(Taken) = BitmapNr + (SuperBlk + 1)
  <2>1. OwnBits \cap (0..SuperBlk) = {}
    BY <1>1, <1>5
  <2>2. QED
    BY <1>3, <1>4, <2>1, Apart DEF Taken
<1>7. /\ IsFiniteSet(JournalBlocks)
      /\ Cardinality(JournalBlocks) = IF asked.rel THEN 0 ELSE asked.jlen + 1
  <2>1. CASE asked.rel
    BY <2>1, FS_EmptySet DEF JournalBlocks
  <2>2. CASE ~asked.rel
    <3>1. JournalStart \in Nat
      BY <1>1, NewParamsIs
    <3>2. IsFiniteSet(JournalStart..(JournalStart + asked.jlen))
          /\ Cardinality(JournalStart..(JournalStart + asked.jlen)) = asked.jlen + 1
      BY <1>1, <3>1, Interval
    <3>3. QED
      BY <2>2, <3>2 DEF JournalBlocks
  <2>3. QED
    BY <2>1, <2>2
<1>8. Taken \cap JournalBlocks = {}
  BY <1>1, <1>5 DEF Taken
<1>9. IsFiniteSet(Taken \cup JournalBlocks)
      /\ Cardinality(Taken \cup JournalBlocks) = Cardinality(Taken) + Cardinality(JournalBlocks)
  BY <1>6, <1>7, <1>8, Apart
<1>10. Cardinality(fs.used) = Cardinality(Taken \cup JournalBlocks) + 1
  BY <1>2, <1>9, FS_AddElement
<1>11. NewFree = asked.len - Cardinality(fs.used)
  BY <1>1, <1>6, <1>7, <1>9, <1>10 DEF NewFree
<1>12. \A b \in fs.used : b \in Nat /\ b < asked.len
  BY <1>1, <1>2, <1>5 DEF Taken
<1>13. QED
  BY <1>11, <1>12

-----------------------------------------------------------------------------
(* What the last step of a creation stores.                                *)
LEMMA StoredSuperIs ==
  ASSUME IInv, pc = "sync"
  PROVE  LET new == StoredSuper(disk.host)
             bs == asked.blocksize
         IN  /\ Sequence(new) /\ Len(new) = Len(disk.host) /\ DOMAIN new = DOMAIN disk.host
             /\ SuperOffset + bs <= Len(disk.host) /\ SuperOffset + Default <= Len(disk.host)
             /\ bs \in Nat \ {0} /\ new[SuperOffset + 1] = <<"super", fs.super>>
             /\ \A i \in DOMAIN disk.host :
                  /\ i <= SuperOffset \/ i > SuperOffset + bs => new[i] = disk.host[i]
                  /\ new[i] = disk.host[i] \/ new[i] = <<"map">> \/ i = SuperOffset + 1
<1> DEFINE bs == asked.blocksize
           host == disk.host
           one == <<<<"super", fs.super>>>>
           rest == Fill(bs - 1, <<"map">>)
           units == one \o rest
           new == Put(host, SuperOffset, units)
<1>1. /\ bs \in Nat \ {0} /\ asked.len \in Nat /\ Bs = bs /\ asked.blocksize # 0
      /\ SuperBlk \in Nat /\ SuperBlk * bs = SuperOffset
      /\ fs.off = SuperBlk /\ fs.rest = rest /\ CreateCheck(asked)
  BY RequestKept DEF IInv, AskedRight, CreationRight
<1>2. StoredSuper(host) = new
  BY <1>1 DEF StoredSuper
<1>3. /\ Sequence(host) /\ Len(host) \in Nat /\ DOMAIN host = 1..Len(host)
      /\ SuperOffset \in Nat /\ Default \in Nat \ {0}
  BY DiskIs, PlacesAre DEF IInv, DiskRight
<1>4. SuperOffset + bs <= Len(host) /\ SuperOffset + Default <= Len(host)
  <2>1. asked.len * bs <= Len(host) /\ SuperBlk + 3 + MinTree <= asked.len /\ MinTree \in Nat
    BY <1>1, CheckedLength, PlanIs, PlacesAre
  <2>2. SuperBlk + Default <= asked.len
    BY <1>1, <1>3, <2>1, SizesAssumption
  <2>3. SuperOffset + 1 * bs <= asked.len * bs /\ asked.len * bs \in Nat /\ 1 * bs = bs
    <3>1. SuperBlk + 1 <= asked.len
      BY <1>1, <1>3, <2>1
    <3>2. SuperBlk * bs + 1 * bs <= asked.len * bs /\ asked.len * bs \in Nat
      BY <1>1, <3>1, Products, 1 \in Nat
    <3>3. QED
      BY <1>1, <3>2
  <2>4. SuperOffset + Default * bs <= asked.len * bs /\ Default <= Default * bs /\ Default * bs \in Nat
    <3>1. /\ SuperBlk * bs + Default * bs <= asked.len * bs /\ Default <= Default * bs
          /\ Default * bs \in Nat
      BY <1>1, <1>3, <2>2, Products
    <3>2. QED
      BY <1>1, <3>1
  <2>5. PICK all, more : all = asked.len * bs /\ more = Default * bs
    OBVIOUS
  <2>6. /\ SuperOffset + bs <= all /\ all \in Nat /\ SuperOffset + more <= all
        /\ Default <= more /\ more \in Nat /\ all <= Len(host) /\ bs \in Nat
    BY <1>1, <2>1, <2>3, <2>4, <2>5
  <2>7. QED
    BY <1>3, <2>6
<1>5. /\ Sequence(units) /\ Len(units) = bs /\ units[1] = <<"super", fs.super>>
      /\ \A j \in 1..bs : j # 1 => units[j] = <<"map">>
  <2>1. /\ Sequence(one) /\ Len(one) = 1 /\ one[1] = <<"super", fs.super>>
        /\ Sequence(rest) /\ Len(rest) = bs - 1 /\ \A j \in 1..(bs - 1) : rest[j] = <<"map">>
    BY <1>1, OneIs, FillIs
  <2> HIDE DEF one, rest
  <2>2. /\ Sequence(one \o rest) /\ Len(one \o rest) = Len(one) + Len(rest)
        /\ \A j \in 1..(Len(one) + Len(rest)) :
             (one \o rest)[j] = IF j <= Len(one) THEN one[j] ELSE rest[j - Len(one)]
    BY <2>1, ConcatIs
  <2>3. /\ \A j \in 1..bs : units[j] = IF j <= 1 THEN one[j] ELSE rest[j - 1]
        /\ Len(units) = bs
    <3>1. Len(one) + Len(rest) = bs
      BY <1>1, <2>1
    <3>2. \A j \in 1..bs : units[j] = IF j <= Len(one) THEN one[j] ELSE rest[j - Len(one)]
      BY <2>2, <3>1
    <3>3. QED
      BY <2>1, <2>2, <3>1, <3>2
  <2> HIDE DEF units
  <2>4. units[1] = <<"super", fs.super>>
    BY <1>1, <2>1, <2>3
  <2>5. ASSUME NEW j \in 1..bs, j # 1  PROVE units[j] = <<"map">>
    <3>1. j - 1 \in 1..(bs - 1) /\ ~(j <= 1)
      BY <1>1, <2>5
    <3>2. QED
      BY <2>1, <2>3, <3>1
  <2>6. QED
    BY <2>2, <2>3, <2>4, <2>5 DEF units
<1> HIDE DEF units, host, bs
<1>6. /\ Sequence(new) /\ Len(new) = Len(host) /\ DOMAIN new = DOMAIN host
      /\ \A i \in DOMAIN host : new[i] =
           IF i > SuperOffset /\ i <= SuperOffset + bs THEN units[i - SuperOffset] ELSE host[i]
  BY <1>3, <1>5, PutIs
<1>8. new[SuperOffset + 1] = <<"super", fs.super>>
  <2>1. SuperOffset + 1 \in DOMAIN host
    <3>1. SuperOffset \in Nat /\ bs \in Nat \ {0} /\ SuperOffset + bs <= Len(host)
      BY <1>1, <1>3, <1>4
    <3>2. Len(host) \in Nat /\ DOMAIN host = 1..Len(host)
      BY <1>3
    <3>3. QED
      BY <3>1, <3>2
  <2>2. 1 \in 1..Len(units)
    BY <1>1, <1>5
  <2>3. QED
    BY <1>3, <1>5, <2>1, <2>2, PutAt
<1> HIDE DEF new
<1>7. ASSUME NEW i \in DOMAIN host
      PROVE  /\ i <= SuperOffset \/ i > SuperOffset + bs => new[i] = host[i]
             /\ new[i] = host[i] \/ new[i] = <<"map">> \/ i = SuperOffset + 1
  <2>1. CASE i > SuperOffset /\ i <= SuperOffset + bs
    <3>1. i - SuperOffset \in 1..bs /\ new[i] = units[i - SuperOffset]
      BY <1>1, <1>3, <1>6, <2>1
    <3>2. i - SuperOffset # 1 => new[i] = <<"map">>
      BY <1>5, <3>1
    <3>3. QED
      BY <1>1, <1>3, <2>1, <3>2
  <2>2. CASE ~(i > SuperOffset /\ i <= SuperOffset + bs)
    BY <1>6, <2>2
  <2>3. QED
    BY <2>1, <2>2
<1>9. QED
  BY <1>1, <1>2, <1>4, <1>6, <1>7, <1>8 DEF host, bs

(* Storing the bitmap puts its bits into its blocks and changes nothing    *)
(* else.                                                                   *)
LEMMA StoredBitsIs ==
  ASSUME IInv, pc = "sync", NEW c, Sequence(c), Len(c) = Len(disk.host)
  PROVE  LET new == StoredBits(c)
             bs == asked.blocksize
             nrs == 0..(BitmapNr - 1)
         IN  /\ Sequence(new) /\ Len(new) = Len(c) /\ DOMAIN new = DOMAIN c
             /\ \A i \in DOMAIN c :
                  \/ new[i] = c[i]
                  \/ /\ new[i][1] \in {"bits", "more"}
                     /\ \E k \in nrs : BitmapAt(k) * bs < i /\ i <= BitmapAt(k) * bs + bs
             /\ \A k \in nrs :
                  /\ BitmapAt(k) * bs + 1 \in DOMAIN c
                  /\ new[BitmapAt(k) * bs + 1] =
                       <<"bits", {b \in fs.used : b \div (bs * BitsPerUnit) = k}>>
<1> DEFINE bs == asked.blocksize
           nrs == 0..(BitmapNr - 1)
           in(i) == {k \in nrs : i - 1 \in (BitmapAt(k) * bs)..(BitmapAt(k) * bs + bs - 1)}
           nr(i) == CHOOSE k \in in(i) : TRUE
           new == [i \in DOMAIN c |->
                     IF in(i) = {} THEN c[i]
                     ELSE IF i - 1 # BitmapAt(nr(i)) * bs THEN <<"more">>
                     ELSE <<"bits", {b \in fs.used : b \div (bs * BitsPerUnit) = nr(i)}>>]
<1>1. /\ bs \in Nat \ {0} /\ asked.len \in Nat /\ Bs = bs /\ asked.blocksize # 0
      /\ CreateCheck(asked)
  BY RequestKept DEF IInv, AskedRight, CreationRight
<1>2. StoredBits(c) = new
  BY <1>1 DEF StoredBits
<1>3. Len(c) \in Nat /\ DOMAIN c = 1..Len(c) /\ asked.len * bs <= Len(c)
  BY <1>1, SequenceIs, CheckedLength
<1>4. Sequence(new) /\ Len(new) = Len(c) /\ DOMAIN new = DOMAIN c
  <2>1. DOMAIN new = 1..Len(c) /\ new = [i \in 1..Len(c) |-> new[i]]
    BY <1>3
  <2> HIDE DEF new
  <2>2. QED
    BY <1>3, <2>1, MakeSequence
<1>5. ASSUME NEW i \in DOMAIN c, new[i] # c[i]
      PROVE  new[i][1] \in {"bits", "more"} /\ \E k \in nrs : BitmapAt(k) * bs < i /\ i <= BitmapAt(k) * bs + bs
  <2>1. in(i) # {}
    BY <1>5
  <2>2. new[i][1] \in {"bits", "more"}
    BY <2>1, TagsAre
  <2>3. PICK k \in nrs : i - 1 \in (BitmapAt(k) * bs)..(BitmapAt(k) * bs + bs - 1)
    BY <2>1
  <2>4. BitmapAt(k) \in Nat /\ BitmapAt(k) * bs \in Nat /\ i \in Nat
    BY <1>1, <1>3, BitmapsApart
  <2>5. BitmapAt(k) * bs < i /\ i <= BitmapAt(k) * bs + bs
    BY <1>1, <2>3, <2>4
  <2>6. QED
    BY <2>2, <2>5
<1>6. ASSUME NEW k \in nrs
      PROVE  /\ BitmapAt(k) * bs + 1 \in DOMAIN c
             /\ new[BitmapAt(k) * bs + 1] =
                  <<"bits", {b \in fs.used : b \div (bs * BitsPerUnit) = k}>>
  <2> DEFINE first == BitmapAt(k) * bs
             i == first + 1
  <2>1. BitmapAt(k) \in Nat /\ BitmapAt(k) < asked.len
    BY BitmapsApart
  <2>2. first \in Nat /\ first + bs <= asked.len * bs /\ asked.len * bs \in Nat
    BY <1>1, <2>1, BlocksApart
  <2> HIDE DEF first
  <2>3. i \in DOMAIN c /\ i - 1 = first /\ i - 1 \in first..(first + bs - 1)
    BY <1>1, <1>3, <2>2
  <2>4. k \in in(i)
    BY <2>3 DEF first
  <2>5. \A j \in in(i) : j = k
    <3> SUFFICES ASSUME NEW j \in nrs,
                        i - 1 \in (BitmapAt(j) * bs)..(BitmapAt(j) * bs + bs - 1), j # k
                 PROVE  FALSE
      BY DEF in
    <3>1. BitmapAt(j) \in Nat /\ BitmapAt(j) # BitmapAt(k)
      BY BitmapsApart
    <3>2. BitmapAt(j) * bs \in Nat /\ (BitmapAt(j) * bs + bs <= first \/ first + bs <= BitmapAt(j) * bs)
      BY <1>1, <2>1, <3>1, BlocksDiffer DEF first
    <3>3. QED
      BY <1>1, <2>2, <2>3, <3>2
  <2> HIDE DEF in, i
  <2>6. nr(i) \in in(i)
    BY <2>4
  <2>7. nr(i) = k /\ in(i) # {}
    BY <2>4, <2>5, <2>6
  <2> HIDE DEF nr
  <2>8. new[i] = <<"bits", {b \in fs.used : b \div (bs * BitsPerUnit) = k}>>
    BY <2>3, <2>7 DEF first
  <2>9. QED
    BY <2>3, <2>8 DEF i, first
<1> HIDE DEF new
<1>7. QED
  BY <1>2, <1>4, <1>5, <1>6

(* What a creation has stored in the end is laid out as it was asked for.  *)
LEMMA SyncLaid ==
  ASSUME IInv, pc = "sync"
  PROVE  LET new == StoredBits(StoredSuper(disk.host))
         IN  /\ Sequence(new) /\ Len(new) = Len(disk.host) /\ SupersSound(new)
             /\ Laid([host |-> new, other |-> disk.other], asked, SuperOffset)
<1> DEFINE bs == asked.blocksize
           d == bs * BitsPerUnit
           nrs == 0..(BitmapNr - 1)
           old == disk.host
           mid == StoredSuper(old)
           new == StoredBits(mid)
           content == [host |-> new, other |-> disk.other]
           super == fs.super
           head == JournalStart + asked.jlen
           Bits(k) == {b \in fs.used : b \div d = k}
<1>1. /\ bs \in Nat \ {0} /\ asked.len \in Nat /\ Bs = bs /\ asked.blocksize # 0
      /\ asked.jlen \in Nat /\ asked.rel \in BOOLEAN /\ PowOfTwo(bs) /\ SuperOffset % bs = 0
      /\ SuperBlk \in Nat /\ SuperBlk * bs = SuperOffset
      /\ fs.off = SuperBlk /\ CreateCheck(asked) /\ Checked
      /\ dals.journal.data = (IF asked.rel THEN "other" ELSE "host")
      /\ dals.journal.blocksize = bs
      /\ super.jr = asked.rel /\ super.count = asked.len /\ super.bs = bs
      /\ super.free = NewFree /\ super \in Supers /\ super.jp = NewParams
      /\ ~super.tune /\ fs.super.root \in fs.used
      /\ \A i \in DOMAIN old : old[i][1] = "super" => i = SuperOffset + 1
      /\ disk[dals.journal.data][(JournalStart + asked.jlen) * bs + 1] = <<"head", NewParams>>
  <2>1. asked.blocksize # 0
    BY DEF IInv, AskedRight
  <2>2. /\ bs \in Nat \ {0} /\ asked.len \in Nat /\ Bs = bs
        /\ asked.jlen \in Nat /\ asked.rel \in BOOLEAN /\ PowOfTwo(bs) /\ SuperOffset % bs = 0
        /\ SuperBlk \in Nat /\ SuperBlk * bs = SuperOffset
        /\ dals.journal.data = (IF asked.rel THEN "other" ELSE "host")
        /\ dals.journal.blocksize = bs
    BY <2>1, RequestKept
  <2>3. CreationRight
    BY DEF IInv
  <2>4. /\ fs.off = SuperBlk /\ CreateCheck(asked) /\ Checked
        /\ super.jr = asked.rel /\ super.count = asked.len /\ super.bs = bs
        /\ super.free = NewFree /\ super \in Supers /\ super.jp = NewParams
        /\ ~super.tune /\ fs.super.root \in fs.used
        /\ \A i \in DOMAIN old : old[i][1] = "super" => i = SuperOffset + 1
        /\ disk[dals.journal.data][(JournalStart + asked.jlen) * bs + 1] = <<"head", NewParams>>
    BY <2>2, <2>3 DEF CreationRight
  <2>5. QED
    BY <2>1, <2>2, <2>4
<1>2. /\ Sequence(old) /\ Len(old) \in Nat /\ DOMAIN old = 1..Len(old) /\ SupersSound(old)
      /\ SuperOffset \in Nat /\ Default \in Nat \ {0} /\ SuperOffset \in SuperPlaces
      /\ disk["host"] = old /\ disk["other"] = disk.other
  BY DiskIs, PlacesAre DEF IInv, DiskRight
<1>3. /\ Sequence(mid) /\ Len(mid) = Len(old) /\ DOMAIN mid = DOMAIN old
      /\ SuperOffset + bs <= Len(old) /\ SuperOffset + Default <= Len(old)
      /\ mid[SuperOffset + 1] = <<"super", super>>
      /\ \A i \in DOMAIN old :
           /\ i <= SuperOffset \/ i > SuperOffset + bs => mid[i] = old[i]
           /\ mid[i] = old[i] \/ mid[i] = <<"map">> \/ i = SuperOffset + 1
  BY StoredSuperIs
<1> HIDE DEF mid
<1>4. /\ Sequence(new) /\ Len(new) = Len(mid) /\ DOMAIN new = DOMAIN mid
      /\ \A i \in DOMAIN mid :
           \/ new[i] = mid[i]
           \/ /\ new[i][1] \in {"bits", "more"}
              /\ \E k \in nrs : BitmapAt(k) * bs < i /\ i <= BitmapAt(k) * bs + bs
      /\ \A k \in nrs : /\ BitmapAt(k) * bs + 1 \in DOMAIN mid
                        /\ new[BitmapAt(k) * bs + 1] = <<"bits", Bits(k)>>
  BY <1>3, StoredBitsIs
<1> HIDE DEF new
<1>5. \A k \in nrs : BitmapAt(k) \in Nat /\ BitmapAt(k) * bs >= SuperOffset + bs
  <2> SUFFICES ASSUME NEW k \in nrs
               PROVE  BitmapAt(k) \in Nat /\ BitmapAt(k) * bs >= SuperOffset + bs
    OBVIOUS
  <2>1. BitmapAt(k) \in Nat /\ BitmapAt(k) > SuperBlk
    BY BitmapsApart
  <2>2. SuperBlk * bs + bs <= BitmapAt(k) * bs
    BY <1>1, <2>1, BlocksApart
  <2>3. QED
    BY <1>1, <2>1, <2>2
<1>6. new[SuperOffset + 1] = <<"super", super>>
  <2>1. SuperOffset + 1 \in DOMAIN mid
    BY <1>1, <1>2, <1>3
  <2>2. \A k \in nrs : ~(BitmapAt(k) * bs < SuperOffset + 1)
    <3> SUFFICES ASSUME NEW k \in nrs  PROVE ~(BitmapAt(k) * bs < SuperOffset + 1)
      OBVIOUS
    <3>1. BitmapAt(k) * bs \in Nat /\ BitmapAt(k) * bs >= SuperOffset + bs
      BY <1>1, <1>5
    <3>2. QED
      BY <1>1, <1>2, <3>1
  <2>3. new[SuperOffset + 1] = mid[SuperOffset + 1]
    BY <1>4, <2>1, <2>2
  <2>4. QED
    BY <1>3, <2>3
<1>7. SupersSound(new)
  <2>1. DOMAIN new = DOMAIN old
    BY <1>3, <1>4
  <2>2. ASSUME NEW i \in DOMAIN new, i # SuperOffset + 1
        PROVE  new[i][1] # "super" /\ new[i][1] # "behind"
    <3>1. new[i][1] \in {"bits", "more"} \/ new[i] = <<"map">> \/ new[i] = old[i]
      BY <1>3, <1>4, <2>1, <2>2
    <3>2. old[i][1] # "super" /\ old[i][1] # "behind"
      BY <1>1, <1>2, <2>1, <2>2 DEF SupersSound
    <3>3. QED
      BY <3>1, <3>2, TagsAre
  <2>3. /\ new[SuperOffset + 1][1] = "super" /\ new[SuperOffset + 1][2] = super
        /\ new[SuperOffset + 1] = <<"super", new[SuperOffset + 1][2]>>
    BY <1>6
  <2>4. SuperOffset + 1 - 1 = SuperOffset
    BY <1>2
  <2>5. \A i \in DOMAIN new : new[i][1] # "behind"
    BY <2>2, <2>3
  <2>6. \A i \in DOMAIN new : new[i][1] = "super" => i = SuperOffset + 1
    BY <2>2
  <2>7. \A i, j \in DOMAIN new : new[i][1] = "super" /\ new[j][1] = "super" => i = j
    BY <2>6
  <2>8. \A i \in DOMAIN new : new[i][1] = "super" =>
          /\ i - 1 \in SuperPlaces /\ new[i] = <<"super", new[i][2]>> /\ new[i][2] \in Supers
          /\ PowOfTwo(new[i][2].bs) /\ (i - 1) % new[i][2].bs = 0
          /\ i - 1 + new[i][2].bs <= Len(new)
    <3> SUFFICES ASSUME NEW i \in DOMAIN new, new[i][1] = "super"
                 PROVE  /\ i - 1 \in SuperPlaces /\ new[i] = <<"super", new[i][2]>>
                        /\ new[i][2] \in Supers
                        /\ PowOfTwo(new[i][2].bs) /\ (i - 1) % new[i][2].bs = 0
                        /\ i - 1 + new[i][2].bs <= Len(new)
      OBVIOUS
    <3>5. i = SuperOffset + 1
      BY <2>6
    <3>1. i = SuperOffset + 1 /\ i - 1 = SuperOffset /\ new[i] = <<"super", super>>
      <4>1. new[i] = <<"super", super>>
        BY <1>6, <3>5, Zenon
      <4>2. i - 1 = SuperOffset
        BY <1>2, <3>5
      <4>3. QED
        BY <3>5, <4>1, <4>2
    <3>2. new[i][2] = super
      BY <3>1
    <3>3. (i - 1) % new[i][2].bs = 0 /\ PowOfTwo(new[i][2].bs)
      BY <1>1, <3>1, <3>2
    <3>4. i - 1 + new[i][2].bs <= Len(new)
      BY <1>1, <1>3, <1>4, <3>1, <3>2
    <3>6. QED
      BY <1>1, <1>2, <3>1, <3>2, <3>3, <3>4
  <2>9. QED
    BY <2>5, <2>7, <2>8 DEF SupersSound
<1>8. /\ NewParams.start + NewParams.len = head /\ NewParams.start = JournalStart
      /\ NewParams.len = asked.jlen /\ JournalStart \in Nat /\ head \in Nat
      /\ ~asked.rel => head >= SuperBlk + 2 /\ head \in JournalBlocks
  <2>1. /\ NewParams.start = JournalStart /\ NewParams.len = asked.jlen
        /\ JournalStart \in Nat /\ (~asked.rel => JournalStart = SuperBlk + 2)
    BY <1>1, NewParamsIs
  <2>2. head \in Nat /\ head >= JournalStart
    BY <1>1, <2>1
  <2>3. QED
    BY <1>1, <2>1, <2>2 DEF JournalBlocks
<1> DEFINE device == IF asked.rel THEN "other" ELSE "host"
<1>9. (head + 1) * bs <= Len(content[device]) /\ Len(content[device]) = Len(disk[device])
  <2>1. (head + 1) * bs <= Len(disk[device])
    BY <1>1, <1>8 DEF Checked, Content
  <2>2. Len(content[device]) = Len(disk[device])
    BY <1>1, <1>2, <1>3, <1>4
  <2>3. QED
    BY <2>1, <2>2
<1>10. content[device][head * bs + 1] = <<"head", NewParams>>
  <2>1. CASE asked.rel
    BY <1>1, <1>2, <2>1
  <2>2. CASE ~asked.rel
    <3>1. old[head * bs + 1] = <<"head", NewParams>>
      BY <1>1, <1>2, <2>2
    <3>a. head \in Nat /\ SuperBlk < head /\ (head + 1) * bs <= Len(old)
      BY <1>1, <1>2, <1>8, <1>9, <2>2
    <3> HIDE DEF head
    <3>2. head * bs \in Nat /\ head * bs + 1 \in DOMAIN old /\ head * bs >= SuperOffset + bs
      <4>a. \A x, y \in Nat : x * y \in Nat /\ (x + 1) * y = x * y + y
        OBVIOUS
      <4>1. (head + 1) * bs <= Len(old) /\ (head + 1) * bs = head * bs + bs /\ head * bs \in Nat
        BY <1>1, <3>a, <4>a
      <4>2. SuperBlk * bs + bs <= head * bs
        BY <1>1, <3>a, BlocksApart
      <4>3. PICK at : at = head * bs
        OBVIOUS
      <4>4. at \in Nat /\ at + bs <= Len(old) /\ SuperOffset + bs <= at /\ bs \in Nat \ {0}
        BY <1>1, <4>1, <4>2, <4>3
      <4>5. at + 1 \in DOMAIN old /\ at >= SuperOffset + bs
        BY <1>2, <4>4
      <4>6. QED
        BY <4>3, <4>4, <4>5
    <3>3. mid[head * bs + 1] = old[head * bs + 1]
      <4>1. head * bs + 1 > SuperOffset + bs
        BY <1>1, <1>2, <3>2
      <4>2. QED
        BY <1>3, <3>2, <4>1
    <3>4. ASSUME NEW k \in nrs
          PROVE  ~(BitmapAt(k) * bs < head * bs + 1 /\ head * bs + 1 <= BitmapAt(k) * bs + bs)
      <4>1. BitmapAt(k) \in Nat /\ BitmapAt(k) # head
        BY <1>8, <2>2, BitmapsApart
      <4>2. /\ BitmapAt(k) * bs \in Nat
            /\ BitmapAt(k) * bs + bs <= head * bs \/ head * bs + bs <= BitmapAt(k) * bs
        BY <1>1, <1>8, <4>1, BlocksDiffer
      <4>3. QED
        BY <1>1, <3>2, <4>2
    <3>5. new[head * bs + 1] = mid[head * bs + 1]
      BY <1>3, <1>4, <3>2, <3>4
    <3>6. QED
      BY <2>2, <3>1, <3>3, <3>5
  <2>3. QED
    BY <2>1, <2>2
<1>11. HeadLaid(content[device], super)
  <2>1. super.jp.start + super.jp.len = head /\ super.jp.len = asked.jlen
    BY <1>1, <1>8
  <2>2. ParamsFit(Len(content[device]) \div bs, bs, JournalStart, asked.jlen, asked.rel)
    BY <1>1, <1>9 DEF Checked, ParamsCheck, DalLen, Content
  <2> DEFINE c == content[device]
  <2>5. super.jr = asked.rel /\ super.bs = bs /\ (head + 1) * bs <= Len(c)
        /\ c[head * bs + 1] = <<"head", NewParams>>
        /\ ParamsFit(Len(c) \div bs, bs, JournalStart, asked.jlen, asked.rel)
        /\ NewParams.start = JournalStart /\ NewParams.len = asked.jlen
        /\ NewParams \in [start : Nat, len : Nat, dev : Nat]
    BY <1>1, <1>8, <1>9, <1>10, <2>2, NewParamsIs
  <2> HIDE DEF c, head, super, bs
  <2>3. c[head * bs + 1][1] = "head"
        /\ c[head * bs + 1][2] = NewParams
    BY <2>5
  <2>6. HeadLaid(c, super)
    BY <2>1, <2>3, <2>5 DEF HeadLaid
  <2>7. QED
    BY <2>6 DEF c
<1>12. BitsLaid(new, SuperBlk, super)
  <2> DEFINE Place(k) == BitmapPlace(SuperBlk, super.bs, k) * super.bs + 1
             all == 0..(BitmapBlocks(super.count, super.bs) - 1)
  <2>1. all = nrs
    BY <1>1 DEF BitmapNr
  <2>2. \A k \in all : Place(k) = BitmapAt(k) * bs + 1
    BY <1>1 DEF BitmapAt
  <2> HIDE DEF Place
  <2>3. \A k \in all : Place(k) \in DOMAIN new /\ new[Place(k)] = <<"bits", Bits(k)>>
    BY <1>4, <2>1, <2>2
  <2>4. \A k \in all : new[Place(k)][1] = "bits" /\ new[Place(k)][2] = Bits(k)
    BY <2>3
  <2>5. UNION {new[Place(k)][2] : k \in all} = UNION {Bits(k) : k \in nrs}
    <3> HIDE DEF all, Bits
    <3>1. {new[Place(k)][2] : k \in all} = {Bits(k) : k \in all}
      BY <2>4
    <3>2. QED
      BY <2>1, <3>1
  <2>6. UNION {Bits(k) : k \in nrs} = fs.used
    <3>1. ASSUME NEW b \in fs.used  PROVE b \div d \in nrs
      <4>1. b \in Nat /\ b < asked.len
        BY TakenCount
      <4>2. d \in Nat \ {0}
        BY PlanIs
      <4>3. b \div d \in Int
        BY <4>1, <4>2, Division, b \in Int
      <4>4. 0 <= b \div d
        <5>1. 0 * d = 0 /\ (0 <= b \div d <=> 0 * d <= b)
          BY <4>1, <4>2, DivBound, 0 \in Int
        <5>2. QED
          BY <4>1, <5>1
      <4>5. b \div d \in Nat /\ (b \div d) * d <= b
        BY <4>1, <4>2, <4>3, <4>4, DivBound
      <4>6. BitmapNr \in Nat /\ (b \div d < BitmapNr <=> (b \div d) * d <= asked.len - 1)
        <5>1. \A k \in Nat : k < BitmapNr <=> k * d <= asked.len - 1
          <6>1. \A count \in Nat, size \in Nat \ {0} : \A k \in Nat :
                  k < BitmapBlocks(count, size) <=> k * (size * BitsPerUnit) <= count - 1
            BY BitmapBlocksIs
          <6>2. QED
            BY <1>1, <6>1 DEF BitmapNr
        <5>2. BitmapNr \in Nat
          BY PlanIs
        <5> HIDE DEF d
        <5>3. QED
          BY <4>5, <5>1, <5>2
      <4>7. (b \div d) * d \in Nat
        BY <4>2, <4>5
      <4> HIDE DEF d
      <4>8. QED
        BY <1>1, <4>1, <4>5, <4>6, <4>7
    <3>2. \A b \in fs.used : b \in Bits(b \div d)
      OBVIOUS
    <3>3. QED
      BY <3>1, <3>2
  <2>7. super.free = super.count - Cardinality(fs.used) /\ fs.used # {}
    BY <1>1, TakenCount
  <2> HIDE DEF Bits
  <2>8. /\ \A k \in all : Place(k) \in DOMAIN new /\ new[Place(k)][1] = "bits"
        /\ super.free = super.count - Cardinality(UNION {new[Place(k)][2] : k \in all})
        /\ UNION {new[Place(k)][2] : k \in all} # {}
    BY <2>3, <2>4, <2>5, <2>6, <2>7
  <2> HIDE DEF super
  <2>9. QED
    BY <2>8 DEF BitsLaid, Place
<1>13. Laid(content, asked, SuperOffset)
  <2>1. content.host = new /\ content.host[SuperOffset + 1] = <<"super", super>>
    BY <1>6
  <2>2. asked.len * bs <= Len(new) /\ SuperOffset + Default <= Len(new)
    BY <1>1, <1>3, <1>4, CheckedLength
  <2>3. SuperOffset \div bs = SuperBlk
    BY DEF SuperBlk
  <2>4. super.jp.len = asked.jlen /\ super.count # 0
    BY <1>1, <1>8 DEF CreateCheck
  <2> HIDE DEF content
  <2>5. content.host[SuperOffset + 1][1] = "super" /\ content.host[SuperOffset + 1][2] = super
    BY <2>1
  <2>6. QED
    BY <1>1, <1>11, <1>12, <2>1, <2>2, <2>3, <2>4, <2>5 DEF Laid
<1>14. QED
  BY <1>3, <1>4, <1>7, <1>13 DEF new, mid

(* CreateSync keeps the invariant.                                         *)
LEMMA CreateSyncPreserves ==
  ASSUME IInv, CreateSync
  PROVE  IInv'
<1> DEFINE new == StoredBits(StoredSuper(disk.host))
<1>1. /\ pc = "sync" /\ pc' = "open" /\ made' = asked
      /\ UNCHANGED <<dals, fs, asked, logged, unread>> /\ asked.blocksize # 0
      /\ disk' = [disk EXCEPT !.host = new]
  BY DEF CreateSync, IInv, AskedRight
<1>2. /\ logged = NoSuper /\ CreateCheck(asked)
      /\ fs.rest = Fill(asked.blocksize - 1, <<"map">>)
      /\ fs.super.count = asked.len /\ fs.super.bs = asked.blocksize /\ fs.super.free = NewFree
  BY <1>1 DEF IInv, CreationRight
<1>3. /\ asked.blocksize \in Nat \ {0} /\ asked.first = 0 /\ Bs = asked.blocksize
      /\ asked.len * asked.blocksize <= Len(disk.host) /\ asked.len \in Nat
  BY <1>1, <1>2, RequestKept, CheckedLength
<1>4. /\ Sequence(new) /\ Len(new) = Len(disk.host) /\ SupersSound(new)
      /\ Laid([host |-> new, other |-> disk.other], asked, SuperOffset)
  BY <1>1, SyncLaid
<1> HIDE DEF new
<1>5. disk' = [host |-> new, other |-> disk.other]
  <2>1. disk = [host |-> disk.host, other |-> disk.other]
    BY DEF IInv, DiskRight
  <2>2. QED
    BY <1>1, <2>1
<1>6. DiskRight'
  <2>1. disk'.host = new /\ disk'.other = disk.other
    BY <1>5
  <2>2. Sequence(disk.other) /\ SuperOffset \in SuperPlaces
    BY PlacesAre DEF IInv, DiskRight
  <2>3. \E place \in SuperPlaces : Laid(disk', made', place)
    BY <1>1, <1>4, <1>5, <2>2
  <2>4. logged' = NoSuper
    BY <1>1, <1>2
  <2>5. QED
    BY <1>4, <1>5, <2>1, <2>2, <2>3, <2>4 DEF DiskRight
<1>7. HandlesRight' /\ AskedRight' /\ CreationRight'
  BY <1>1 DEF IInv, HandlesRight, AskedRight, CreationRight
<1>8. ReadRight' /\ FoundAgain'
  BY <1>1, <1>3, NotOpening DEF ReadRight, Reading
<1>9. /\ Len(fs.rest) = Bs - 1 /\ DOMAIN fs.rest = 1..(Bs - 1)
      /\ \A i \in DOMAIN fs.rest : fs.rest[i] = <<"map">>
  BY <1>2, <1>3, FillIs, SequenceIs, asked.blocksize - 1 \in Nat
<1>10. TypeOK'
  <2>1. DOMAIN (disk'.other) = 1..Len(disk'.other) /\ Len(disk'.host) = Len(disk.host)
    BY <1>4, <1>5, <1>6, SequenceIs DEF DiskRight
  <2>2. \A d \in {"host", "journal"} : PowOfTwo(dals'[d].blocksize)
    BY <1>7 DEF HandlesRight, Devices
  <2>3. Len(fs'.rest) = Bs' - 1 /\ fs'.super.bs = Bs' /\ fs'.super.count * Bs' <= Len(disk'.host)
    BY <1>1, <1>2, <1>3, <1>9, <2>1 DEF Bs
  <2>4. pc' \in Stages /\ unread' \in BOOLEAN
    BY <1>1 DEF IInv, TypeOK, Stages
  <2>5. QED
    BY <2>1, <2>2, <2>3, <2>4 DEF TypeOK, Stages
<1>11. OpenedWhole'
  <2>1. \A i \in DOMAIN fs'.rest : fs'.rest[i] # <<"behind">>
    BY <1>1, <1>9, TagsAre
  <2>2. QED
    BY <2>1 DEF OpenedWhole
<1>12. FreeRight'
  BY <1>1, <1>2, TakenCount DEF FreeRight
<1>13. QED
  BY <1>6, <1>7, <1>8, <1>10, <1>11, <1>12 DEF IInv

(* SyncFails keeps the invariant.                                          *)
LEMMA SyncFailsPreserves ==
  ASSUME IInv, SyncFails
  PROVE  IInv'
<1>1. /\ pc = "sync" /\ pc' = "failed" /\ UNCHANGED <<dals, asked, logged, made, unread>>
      /\ asked.blocksize # 0
  BY DEF SyncFails, IInv, AskedRight
<1>2. CASE UNCHANGED disk
  <2>1. DiskRight'
    BY <1>1, <1>2 DEF IInv, DiskRight
  <2>2. QED
    BY <1>1, <2>1, FailRight
<1>3. CASE disk' = [disk EXCEPT !.host = StoredSuper(@)]
  <2> DEFINE new == StoredSuper(disk.host)
             old == disk.host
  <2>1. /\ Sequence(new) /\ Len(new) = Len(old) /\ DOMAIN new = DOMAIN old
        /\ new[SuperOffset + 1] = <<"super", fs.super>>
        /\ \A i \in DOMAIN old : new[i] = old[i] \/ new[i] = <<"map">> \/ i = SuperOffset + 1
    BY <1>1, StoredSuperIs
  <2>2. disk' = [host |-> new, other |-> disk.other]
    <3>1. disk = [host |-> disk.host, other |-> disk.other]
      BY DEF IInv, DiskRight
    <3> HIDE DEF new
    <3>2. QED
      BY <1>3, <3>1 DEF new
  <2> HIDE DEF new
  <2>3. /\ \A i \in DOMAIN old : old[i][1] = "super" => i = SuperOffset + 1
        /\ fs.super \in Supers /\ fs.super.bs = asked.blocksize
        /\ made = NoRequest /\ logged = NoSuper
    BY <1>1 DEF IInv, CreationRight
  <2>4. ASSUME NEW i \in DOMAIN new, i # SuperOffset + 1
        PROVE  new[i][1] # "super" /\ new[i][1] # "behind"
    <3>1. new[i] = <<"map">> \/ new[i] = old[i]
      BY <2>1, <2>4
    <3>2. old[i][1] # "super" /\ old[i][1] # "behind"
      BY <2>1, <2>3, <2>4 DEF IInv, DiskRight, SupersSound
    <3>3. QED
      BY <3>1, <3>2, TagsAre
  <2>5. SupersSound(new)
    <3>1. new[SuperOffset + 1][1] = "super" /\ new[SuperOffset + 1][2] = fs.super
      BY <2>1
    <3>2. \A i \in DOMAIN new : new[i][1] # "behind"
      BY <2>4, <3>1
    <3>3. \A i \in DOMAIN new : new[i][1] = "super" => i = SuperOffset + 1
      BY <2>4
    <3>4. \A i, j \in DOMAIN new : new[i][1] = "super" /\ new[j][1] = "super" => i = j
      BY <3>3
    <3>5. ASSUME NEW i \in DOMAIN new, new[i][1] = "super"
          PROVE  /\ i - 1 \in SuperPlaces /\ new[i] = <<"super", new[i][2]>> /\ new[i][2] \in Supers
                 /\ PowOfTwo(new[i][2].bs) /\ (i - 1) % new[i][2].bs = 0
                 /\ i - 1 + new[i][2].bs <= Len(new)
      <4>1. i = SuperOffset + 1
        BY <3>3, <3>5
      <4>2. i - 1 = SuperOffset /\ SuperOffset \in SuperPlaces
        BY <4>1, PlacesAre
      <4>3. new[i] = <<"super", fs.super>> /\ new[i][2] = fs.super
        BY <2>1, <3>1, <4>1, Zenon
      <4>4. PowOfTwo(asked.blocksize) /\ SuperOffset % asked.blocksize = 0
        BY <1>1, RequestKept
      <4>5. PowOfTwo(new[i][2].bs) /\ (i - 1) % new[i][2].bs = 0
        BY <2>3, <4>2, <4>3, <4>4
      <4>6. SuperOffset + asked.blocksize <= Len(new)
        BY <1>1, <2>1, StoredSuperIs
      <4>7. i - 1 + new[i][2].bs <= Len(new)
        BY <2>3, <4>2, <4>3, <4>6
      <4>8. QED
        BY <2>3, <4>2, <4>3, <4>5, <4>7
    <3>6. QED
      BY <3>2, <3>4, <3>5 DEF SupersSound
  <2>6. DiskRight'
    <3>1. disk'.host = new /\ disk'.other = disk.other
      BY <2>2
    <3>2. Sequence(disk.other)
      BY DEF IInv, DiskRight
    <3>3. made' = NoRequest /\ logged' = NoSuper
      BY <1>1, <2>3
    <3>4. QED
      BY <2>1, <2>2, <2>5, <3>1, <3>2, <3>3 DEF DiskRight
  <2>7. QED
    BY <1>1, <2>6, FailRight
<1>4. QED
  BY <1>2, <1>3 DEF SyncFails

-----------------------------------------------------------------------------
(* Opening: the blocks that are read.                                      *)
LEMMA UnitsAtIs ==
  ASSUME NEW c, Sequence(c), NEW off \in Nat, NEW len \in Nat \ {0}, off + len <= Len(c)
  PROVE  /\ Len(UnitsAt(c, off, len)) = len
         /\ \A j \in 1..len : UnitsAt(c, off, len)[j] = c[off + j] /\ off + j \in DOMAIN c
<1> DEFINE S == {c[i] : i \in DOMAIN c}
           m == off + 1
           n == off + len
<1>1. UnitsAt(c, off, len) = SubSeq(c, m, n)
  BY DEF UnitsAt
<1>2. Len(c) \in Nat /\ DOMAIN c = 1..Len(c) /\ m \in Int /\ n \in Int
  BY SequenceIs
<1>3. \A i \in m..n : c[i] \in S
  BY <1>2
<1> HIDE DEF S, m, n
<1>4. /\ Len(SubSeq(c, m, n)) = IF m <= n THEN n - m + 1 ELSE 0
      /\ \A i \in 1..(n - m + 1) : SubSeq(c, m, n)[i] = c[m + i - 1]
  BY <1>2, <1>3, SubSeqProperties
<1>5. n - m + 1 = len /\ m <= n /\ \A j \in 1..len : m + j - 1 = off + j /\ off + j \in DOMAIN c
  BY <1>2 DEF m, n
<1>6. QED
  BY <1>1, <1>4, <1>5

BlockRead(dal, c, bs, nr) ==
  LET units == BlockUnits(dal, nr)
  IN  /\ There(dal, nr) <=> nr * bs + bs <= Len(c)
      /\ nr * bs \in Nat
      /\ nr * bs + bs <= Len(c) =>
           /\ Len(units) = bs /\ units[1] = c[nr * bs + 1] /\ nr * bs + 1 \in DOMAIN c
           /\ \A j \in 1..bs : units[j] = c[nr * bs + j] /\ nr * bs + j \in DOMAIN c

(* A block that is read holds the units of the device, as far as it has    *)
(* them.                                                                   *)
LEMMA BlockIsRead ==
  ASSUME DiskRight, NEW dal, NEW data \in {"host", "other"}, NEW bs \in Nat \ {0},
         dal.data = data, dal.blocksize = bs, NEW nr \in Nat
  PROVE  BlockRead(dal, disk[data], bs, nr)
<1> DEFINE c == disk[data]
<1>1. Sequence(c) /\ Len(c) \in Nat
  BY DiskIs DEF DiskRight
<1>2. PICK at : at = nr * bs
  OBVIOUS
<1>3. /\ BlockUnits(dal, nr) = UnitsAt(c, at, bs)
      /\ There(dal, nr) <=> nr < Len(c) \div bs
  BY <1>2 DEF BlockUnits, Offset, There, DalLen, Content
<1> HIDE DEF c
<1>4. at \in Nat /\ (nr + 1) * bs = at + bs
  BY <1>2
<1>5. nr + 1 <= Len(c) \div bs <=> (nr + 1) * bs <= Len(c)
  BY <1>1, DivBound, nr + 1 \in Int, Len(c) \in Int
<1>6. Len(c) \div bs \in Int
  BY <1>1, Division, Len(c) \in Int
<1>7. There(dal, nr) <=> at + bs <= Len(c)
  <2>1. nr < Len(c) \div bs <=> nr + 1 <= Len(c) \div bs
    BY <1>6
  <2>2. QED
    BY <1>3, <1>4, <1>5, <2>1
<1> DEFINE got == UnitsAt(c, at, bs)
<1>8. at + bs <= Len(c) =>
        Len(got) = bs /\ \A j \in 1..bs : got[j] = c[at + j] /\ at + j \in DOMAIN c
  <2>1. at \in Nat
    BY <1>4
  <2>2. ASSUME at + bs <= Len(c)
        PROVE  Len(got) = bs /\ \A j \in 1..bs : got[j] = c[at + j] /\ at + j \in DOMAIN c
    BY <1>1, <2>1, <2>2, UnitsAtIs
  <2>3. QED
    BY <2>2
<1>9. 1 \in 1..bs
  OBVIOUS
<1> HIDE DEF got
<1>10. at + bs <= Len(c) =>
         /\ Len(got) = bs /\ got[1] = c[at + 1] /\ at + 1 \in DOMAIN c
         /\ \A j \in 1..bs : got[j] = c[at + j] /\ at + j \in DOMAIN c
  BY <1>8, <1>9
<1>11. BlockUnits(dal, nr) = got
  BY <1>3 DEF got
<1>12. QED
  BY <1>2, <1>4, <1>7, <1>10, <1>11 DEF c, BlockRead

(* A super block on the device.                                            *)
LEMMA SuperIs ==
  ASSUME DiskRight, NEW i \in DOMAIN disk.host, disk.host[i][1] = "super"
  PROVE  LET super == disk.host[i][2]
             off == (i - 1) \div super.bs
         IN  /\ i \in Nat /\ i - 1 \in Nat /\ i - 1 \in SuperPlaces /\ super \in Supers
             /\ super.bs \in Nat \ {0} /\ super.count \in Nat /\ PowOfTwo(super.bs)
             /\ i - 1 + super.bs <= Len(disk.host) /\ disk.host[i] = <<"super", super>>
             /\ off \in Nat /\ off * super.bs = i - 1
             /\ \A j \in DOMAIN disk.host : disk.host[j][1] = "super" => j = i
<1> DEFINE super == disk.host[i][2]
<1>1. /\ i - 1 \in SuperPlaces /\ super \in Supers /\ PowOfTwo(super.bs)
      /\ i - 1 + super.bs <= Len(disk.host) /\ (i - 1) % super.bs = 0
      /\ disk.host[i] = <<"super", super>>
      /\ \A j \in DOMAIN disk.host : disk.host[j][1] = "super" => j = i
  BY DEF DiskRight, SupersSound
<1>2. i \in Nat /\ i - 1 \in Nat
  BY DiskIs
<1>3. super.bs \in Nat \ {0} /\ super.count \in Nat
  BY <1>1 DEF Supers
<1> HIDE DEF super
<1>4. (i - 1) \div super.bs \in Nat /\ ((i - 1) \div super.bs) * super.bs = i - 1
  BY <1>1, <1>2, <1>3, WholeBlocks
<1>5. QED
  BY <1>1, <1>2, <1>3, <1>4 DEF super

(* The super block of a filesystem that was made.                          *)
LEMMA MadeIs ==
  ASSUME DiskRight, made # NoRequest, NEW i \in DOMAIN disk.host, disk.host[i][1] = "super"
  PROVE  LET super == disk.host[i][2]
         IN  /\ super.bs = made.blocksize /\ super.count = made.len /\ super.jr = made.rel
             /\ super.jp.len = made.jlen /\ super.count * super.bs <= Len(disk.host)
             /\ super.count # 0 /\ ~super.tune
             /\ HeadLaid(disk[IF super.jr THEN "other" ELSE "host"], super)
             /\ BitsLaid(disk.host, (i - 1) \div super.bs, super)
             /\ i - 1 + Default <= Len(disk.host)
<1>1. PICK place \in SuperPlaces : Laid(disk, made, place)
  BY DEF DiskRight
<1>2. place \in Nat /\ place + Default <= Len(disk.host) /\ disk.host[place + 1][1] = "super"
  BY <1>1, PlacesAre DEF Laid
<1>3. place + 1 \in DOMAIN disk.host
  BY <1>2, DiskIs, PlacesAre
<1>4. place + 1 = i /\ i - 1 = place
  <2>1. place + 1 = i
    BY <1>2, <1>3, SuperIs
  <2>2. QED
    BY <1>2, <2>1
<1>5. QED
  BY <1>1, <1>4 DEF Laid

(* What a search for the super block has come to.                          *)
ProbeRight(at, dal) ==
  LET bs == at.dal.blocksize
      i == at.hit.off * bs + 1
  IN  /\ at.dal = [data |-> "host", blocksize |-> bs, flags |-> dal.flags]
      /\ bs \in Nat \ {0} /\ PowOfTwo(bs) /\ bs \in {dal.blocksize} \cup SizesOn(disk.host)
      /\ at.hit.found => /\ at.hit.off \in Nat /\ i \in DOMAIN disk.host
                         /\ disk.host[i][1] = "super" /\ at.hit.super = disk.host[i][2]
                         /\ bs = at.hit.super.bs /\ at.hit.super.count * bs <= Len(disk.host)
                         /\ Len(at.hit.units) = dal.blocksize
                         /\ \A j \in 1..Len(at.hit.units) : at.hit.units[j] # <<"behind">>
      /\ ~at.hit.found =>
           \/ at.dal = dal
           \/ \E j \in DOMAIN disk.host : disk.host[j][1] = "super" /\
                ~(disk.host[j][2].count <= Len(disk.host) \div disk.host[j][2].bs)

(* A search that has not begun is right.                                   *)
LEMMA ProbeBegins ==
  ASSUME NEW dal \in Devices, dal.data = "host"
  PROVE  ProbeRight([dal |-> dal, hit |-> Nothing], dal)
<1> DEFINE at == [dal |-> dal, hit |-> Nothing]
<1>1. at.dal = dal /\ at.hit = Nothing /\ at.hit.found = FALSE
  BY DEF Nothing
<1>2. dal = [data |-> "host", blocksize |-> dal.blocksize, flags |-> dal.flags]
      /\ dal.blocksize \in Nat \ {0} /\ PowOfTwo(dal.blocksize)
  BY DEF Devices
<1> HIDE DEF at
<1>3. ProbeRight(at, dal)
  BY <1>1, <1>2 DEF ProbeRight
<1>4. QED
  BY <1>3 DEF at

(* A probe of another place leaves the search right.                       *)
LEMMA ProbeGoesOn ==
  ASSUME DiskRight, NEW dal \in Devices, dal.data = "host", NEW at, ProbeRight(at, dal),
         NEW nr \in Nat, NEW fails
  PROVE  ProbeRight(ProbeAt(at, nr, fails), dal)
<1> DEFINE skip == at.hit.found \/ nr \in fails \/ ~There(at.dal, nr)
                   \/ ~Signed(BlockUnits(at.dal, nr))
           new == ProbeAt(at, nr, fails)
<1>1. CASE skip
  BY <1>1 DEF ProbeAt
<1>2. CASE ~skip
  <2> DEFINE b == at.dal.blocksize
             units == BlockUnits(at.dal, nr)
             super == units[1][2]
             next == SetBlocksize(at.dal, super.bs)
             i == nr * b + 1
  <2>1. /\ at.dal = [data |-> "host", blocksize |-> b, flags |-> dal.flags]
        /\ b \in Nat \ {0} /\ ~at.hit.found /\ There(at.dal, nr) /\ Signed(units)
        /\ \/ at.dal = dal
           \/ \E j \in DOMAIN disk.host : disk.host[j][1] = "super" /\
                ~(disk.host[j][2].count <= Len(disk.host) \div disk.host[j][2].bs)
    BY <1>2 DEF ProbeRight
  <2>2. at.dal.data = "host" /\ at.dal.flags = dal.flags /\ Content(at.dal) = disk.host
        /\ Sequence(disk.host) /\ Len(disk.host) \in Nat
    BY <2>1, DiskIs DEF Content, DiskRight
  <2> HIDE DEF units, b
  <2>4. /\ nr * b \in Nat /\ nr * b + b <= Len(disk.host)
        /\ Len(units) = b /\ units[1] = disk.host[i] /\ i \in DOMAIN disk.host
        /\ \A j \in 1..b : units[j] = disk.host[nr * b + j] /\ nr * b + j \in DOMAIN disk.host
    <3> DEFINE c == disk["host"]
    <3>1. c = disk.host
      BY DiskIs
    <3>2. /\ There(at.dal, nr) <=> nr * b + b <= Len(c)
          /\ nr * b \in Nat
          /\ nr * b + b <= Len(c) =>
               /\ Len(units) = b /\ units[1] = c[nr * b + 1] /\ nr * b + 1 \in DOMAIN c
               /\ \A j \in 1..b : units[j] = c[nr * b + j] /\ nr * b + j \in DOMAIN c
      <4>1. BlockRead(at.dal, c, b, nr)
        BY <2>1, <2>2, BlockIsRead
      <4> HIDE DEF c, b
      <4>2. QED
        BY <4>1 DEF units, BlockRead
    <3> HIDE DEF c
    <3>3. QED
      BY <2>1, <3>1, <3>2
  <2>5. disk.host[i][1] = "super" /\ super = disk.host[i][2]
    BY <2>1, <2>4 DEF Signed
  <2> HIDE DEF super, i
  <2>6. /\ super.bs \in Nat \ {0} /\ super.count \in Nat /\ PowOfTwo(super.bs)
        /\ i \in Nat /\ (i - 1) \div super.bs \in Nat /\ ((i - 1) \div super.bs) * super.bs = i - 1
        /\ \A j \in DOMAIN disk.host : disk.host[j][1] = "super" => j = i
    BY <2>4, <2>5, SuperIs
  <2>7. next = [data |-> "host", blocksize |-> super.bs, flags |-> dal.flags]
    BY <2>1, <2>6 DEF SetBlocksize
  <2>8. super.bs \in SizesOn(disk.host)
    BY <2>4, <2>5 DEF SizesOn
  <2> HIDE DEF next
  <2>9. Content(next) = disk.host /\ next.blocksize = super.bs
    BY <2>2, <2>7, DiskIs DEF Content
  <2> DEFINE hit == IF SuperOpenCheck(super, next)
                    THEN [found |-> TRUE, units |-> units, super |-> super,
                          off |-> Offset(at.dal, nr) \div next.blocksize]
                    ELSE Nothing
  <2>10. new = [dal |-> next, hit |-> hit]
    BY <1>2 DEF ProbeAt, next, super, units
  <2>11. SuperOpenCheck(super, next) <=> super.count <= Len(disk.host) \div super.bs
    BY <2>9 DEF SuperOpenCheck, DalLen
  <2>12. CASE SuperOpenCheck(super, next)
    <3>1. hit = [found |-> TRUE, units |-> units, super |-> super, off |-> (i - 1) \div super.bs]
      <4>1. Offset(at.dal, nr) = nr * b /\ i - 1 = nr * b
        BY <2>4 DEF Offset, b, i
      <4>2. QED
        BY <2>9, <2>12, <4>1
    <3> HIDE DEF hit
    <3>2. hit.found /\ hit.units = units /\ hit.super = super /\ hit.off = (i - 1) \div super.bs
      BY <3>1
    <3>3. hit.off \in Nat /\ hit.off * super.bs + 1 = i
      BY <2>6, <3>2
    <3>4. super.count * super.bs <= Len(disk.host)
      BY <2>2, <2>6, <2>11, <2>12, DivBound, super.count \in Int, Len(disk.host) \in Int
    <3>5. at.dal = dal
      BY <2>1, <2>5, <2>6, <2>11, <2>12
    <3>6. Len(units) = dal.blocksize
      BY <2>4, <3>5 DEF b
    <3>7. \A j \in 1..Len(units) : units[j] # <<"behind">>
      BY <2>4, TagsAre DEF DiskRight, SupersSound
    <3>8. new.dal = next /\ new.hit = hit
      BY <2>10
    <3> HIDE DEF new
    <3>9. /\ new.dal.blocksize = super.bs /\ new.dal = next /\ new.hit.found
          /\ new.hit.units = units /\ new.hit.super = super /\ new.hit.off \in Nat
          /\ new.hit.off * new.dal.blocksize + 1 = i
      BY <2>9, <3>2, <3>3, <3>8
    <3>10. ProbeRight(new, dal)
      BY <2>4, <2>5, <2>6, <2>7, <2>8, <3>4, <3>6, <3>7, <3>9 DEF ProbeRight
    <3>11. QED
      BY <3>10 DEF new
  <2>13. CASE ~SuperOpenCheck(super, next)
    <3>1. new.dal = next /\ new.hit.found = FALSE
      BY <2>10, <2>13 DEF Nothing
    <3>2. ~(disk.host[i][2].count <= Len(disk.host) \div disk.host[i][2].bs)
      BY <2>5, <2>11, <2>13
    <3> HIDE DEF new
    <3>3. new.dal = [data |-> "host", blocksize |-> new.dal.blocksize, flags |-> dal.flags]
          /\ new.dal.blocksize = super.bs
      BY <2>7, <2>9, <3>1
    <3>4. \E j \in DOMAIN disk.host : disk.host[j][1] = "super" /\
                ~(disk.host[j][2].count <= Len(disk.host) \div disk.host[j][2].bs)
      BY <2>4, <2>5, <3>2
    <3>5. ProbeRight(new, dal)
      BY <2>6, <2>8, <3>1, <3>3, <3>4 DEF ProbeRight
    <3>6. QED
      BY <3>5 DEF new
  <2>14. QED
    BY <2>12, <2>13
<1>3. QED
  BY <1>1, <1>2

(* A filesystem that was made is found from the default block size on.     *)
LEMMA ProbeHits ==
  ASSUME DiskRight, made # NoRequest, NEW at, at.dal.data = "host", at.dal.blocksize = Default,
         at.hit.found = FALSE, NEW nr \in Nat, NEW i \in DOMAIN disk.host,
         disk.host[i][1] = "super", i - 1 = nr * Default, at.dal \in Devices
  PROVE  ProbeAt(at, nr, {}).hit.found
<1> DEFINE units == BlockUnits(at.dal, nr)
           super == disk.host[i][2]
           next == SetBlocksize(at.dal, super.bs)
<1>1. Content(at.dal) = disk.host /\ Sequence(disk.host) /\ Default \in Nat \ {0}
  BY DiskIs, PlacesAre DEF Content, DiskRight
<1>2. /\ i - 1 + Default <= Len(disk.host) /\ super.count * super.bs <= Len(disk.host)
      /\ i \in Nat /\ super.bs \in Nat \ {0} /\ super.count \in Nat /\ PowOfTwo(super.bs)
      /\ Len(disk.host) \in Nat
  BY MadeIs, SuperIs, DiskIs
<1> HIDE DEF super
<1>3. nr * Default + Default <= Len(disk.host) /\ nr * Default + 1 = i
  BY <1>1, <1>2
<1>4. disk["host"] = disk.host
  BY DiskIs
<1>6. units[1] = disk.host[i] /\ There(at.dal, nr)
  <2>1. /\ There(at.dal, nr) <=> nr * Default + Default <= Len(disk["host"])
        /\ nr * Default + Default <= Len(disk["host"]) => units[1] = disk["host"][nr * Default + 1]
    <3>1. PICK c : c = disk["host"]
      OBVIOUS
    <3>2. BlockRead(at.dal, c, Default, nr)
      BY <1>1, <3>1, BlockIsRead
    <3>3. There(at.dal, nr) <=> nr * Default + Default <= Len(c)
      BY <3>2 DEF BlockRead
    <3>4. nr * Default + Default <= Len(c) => units[1] = c[nr * Default + 1]
      BY <3>2 DEF BlockRead
    <3>5. QED
      BY <3>1, <3>3, <3>4
  <2> HIDE DEF units
  <2>2. QED
    BY <1>3, <1>4, <2>1
<1> HIDE DEF units
<1>7. Signed(units) /\ units[1][2] = super
  BY <1>6 DEF Signed, super
<1>8. next.data = "host" /\ next.blocksize = super.bs
  BY <1>2 DEF SetBlocksize, Devices
<1> HIDE DEF next
<1>9. SuperOpenCheck(super, next)
  <2>1. Content(next) = disk.host
    BY <1>8, DiskIs DEF Content
  <2>2. super.count <= Len(disk.host) \div super.bs
    BY <1>2, DivBound, super.count \in Int, Len(disk.host) \in Int
  <2>3. QED
    BY <1>8, <2>1, <2>2 DEF SuperOpenCheck, DalLen
<1> DEFINE new == ProbeAt(at, nr, {})
<1>10. new = [dal |-> next,
              hit |-> [found |-> TRUE, units |-> units, super |-> super,
                       off |-> Offset(at.dal, nr) \div next.blocksize]]
  BY <1>6, <1>7, <1>9 DEF ProbeAt, units, next
<1>11. new.hit.found
  BY <1>10
<1>12. QED
  BY <1>11

(* A probe at a place without a super block changes nothing.               *)
LEMMA ProbeMisses ==
  ASSUME DiskRight, NEW at, at.dal.data = "host", at.dal.blocksize = Default,
         at.hit.found = FALSE, NEW nr \in Nat,
         \A i \in DOMAIN disk.host : disk.host[i][1] = "super" => i # nr * Default + 1
  PROVE  ProbeAt(at, nr, {}) = at
<1> DEFINE units == BlockUnits(at.dal, nr)
<1>1. Content(at.dal) = disk.host /\ Sequence(disk.host) /\ Default \in Nat \ {0}
  BY DiskIs, PlacesAre DEF Content, DiskRight
<1>4. ASSUME There(at.dal, nr)  PROVE ~Signed(units)
  <2>1. units[1] = disk["host"][nr * Default + 1] /\ nr * Default + 1 \in DOMAIN disk["host"]
    <3>1. PICK c : c = disk["host"]
      OBVIOUS
    <3>2. BlockRead(at.dal, c, Default, nr)
      BY <1>1, <3>1, BlockIsRead
    <3>3. QED
      BY <1>4, <3>1, <3>2 DEF BlockRead
  <2>2. disk["host"] = disk.host
    BY DiskIs
  <2> HIDE DEF units
  <2>3. QED
    BY <2>1, <2>2 DEF Signed
<1>5. QED
  BY <1>4 DEF ProbeAt

(* From the default block size on, the search finds what was made.         *)
LEMMA ProbeFinds ==
  ASSUME DiskRight, made # NoRequest, NEW dal \in Devices, dal.data = "host",
         dal.blocksize = Default
  PROVE  ProbeAt(ProbeAt([dal |-> dal, hit |-> Nothing], 16, {}), 2, {}).hit.found
<1> DEFINE first == [dal |-> dal, hit |-> Nothing]
           second == ProbeAt(first, 16, {})
           third == ProbeAt(second, 2, {})
<1>1. first.dal = dal /\ first.hit.found = FALSE
  BY DEF Nothing
<1> HIDE DEF first
<1>2. PICK i \in DOMAIN disk.host : disk.host[i][1] = "super"
  <2>1. PICK place \in SuperPlaces : Laid(disk, made, place)
    BY DEF DiskRight
  <2>2. place \in Nat /\ place + Default <= Len(disk.host) /\ disk.host[place + 1][1] = "super"
    BY <2>1, PlacesAre DEF Laid
  <2>3. QED
    BY <2>2, DiskIs, PlacesAre
<1>3. /\ i - 1 \in {16 * Default, 2 * Default} /\ i \in Nat /\ Default \in Nat \ {0}
      /\ \A j \in DOMAIN disk.host : disk.host[j][1] = "super" => j = i
  BY <1>2, SuperIs, PlacesAre DEF SuperPlaces
<1>4. CASE i - 1 = 16 * Default
  <2>1. second.hit.found
    BY <1>1, <1>2, <1>4, ProbeHits, 16 \in Nat
  <2> HIDE DEF second
  <2>2. third = second
    BY <2>1 DEF ProbeAt
  <2>3. QED
    BY <2>1, <2>2 DEF second, first
<1>5. CASE i - 1 = 2 * Default
  <2>1. \A j \in DOMAIN disk.host : disk.host[j][1] = "super" => j # 16 * Default + 1
    BY <1>3, <1>5
  <2>2. second = first
    BY <1>1, <2>1, ProbeMisses, 16 \in Nat
  <2> HIDE DEF second
  <2>3. third.hit.found
    BY <1>1, <1>2, <1>5, <2>2, ProbeHits, 2 \in Nat
  <2>4. QED
    BY <2>3 DEF second, first
<1>6. QED
  BY <1>3, <1>4, <1>5

(* The search for the super block of a device as it is.                    *)
LEMMA SuperProbeIs ==
  ASSUME DiskRight, NEW dal \in Devices, dal.data = "host", NEW fails
  PROVE  ProbeRight(ProbeAt(ProbeAt([dal |-> dal, hit |-> Nothing], 16, fails), 2, fails), dal)
<1> DEFINE first == [dal |-> dal, hit |-> Nothing]
           second == ProbeAt(first, 16, fails)
<1>1. ProbeRight(first, dal)
  BY ProbeBegins
<1> HIDE DEF first
<1>2. ProbeRight(second, dal)
  BY <1>1, ProbeGoesOn, 16 \in Nat
<1> HIDE DEF second
<1>3. ProbeRight(ProbeAt(second, 2, fails), dal)
  BY <1>2, ProbeGoesOn, 2 \in Nat
<1>4. QED
  BY <1>3 DEF second, first

(* An open device is one of the devices.                                   *)
LEMMA DeviceIs ==
  ASSUME NEW bs \in Nat \ {0}, PowOfTwo(bs), NEW flags \in {"r", "rw"}, NEW dal,
         dal = [data |-> "host", blocksize |-> bs, flags |-> flags]
  PROVE  dal \in Devices /\ dal.data = "host" /\ dal.blocksize = bs /\ dal.flags = flags
<1>1. bs \in {b \in Nat \ {0} : PowOfTwo(b)}
  OBVIOUS
<1>2. QED
  BY <1>1 DEF Devices

(* SuperOpen keeps the invariant.                                          *)
LEMMA SuperOpenPreserves ==
  ASSUME IInv, SuperOpen
  PROVE  IInv'
<1>1. PICK fails \in SUBSET {16, 2}, bitmap \in BOOLEAN :
        LET at == SuperProbe(fails)
            bs == at.dal.blocksize
        IN  /\ dals' = [host |-> at.dal,
                        journal |-> IF at.hit.found /\ dals.journal.data # ""
                                    THEN SetBlocksize(dals.journal, at.hit.super.bs)
                                    ELSE dals.journal]
            /\ asked' = [NoRequest EXCEPT !.bitmap = bitmap, !.first = Bs]
            /\ unread' = (fails # {})
            /\ IF at.hit.found
               THEN /\ fs' = [NoFs EXCEPT !.super = at.hit.super, !.off = at.hit.off,
                                          !.rest = Copied(at.hit.units, bs)]
                    /\ pc' = "check"
               ELSE pc' = "failed" /\ UNCHANGED fs
  BY DEF SuperOpen
<1> DEFINE found == SuperProbe(fails)
<1>2. PICK at : at = found
  OBVIOUS
<1> DEFINE bs == at.dal.blocksize
<1>3. /\ dals' = [host |-> at.dal,
                  journal |-> IF at.hit.found /\ dals.journal.data # ""
                              THEN SetBlocksize(dals.journal, at.hit.super.bs)
                              ELSE dals.journal]
      /\ asked' = [NoRequest EXCEPT !.bitmap = bitmap, !.first = Bs]
      /\ unread' = (fails # {})
      /\ IF at.hit.found
         THEN /\ fs' = [NoFs EXCEPT !.super = at.hit.super, !.off = at.hit.off,
                                    !.rest = Copied(at.hit.units, bs)]
              /\ pc' = "check"
         ELSE pc' = "failed" /\ UNCHANGED fs
  BY <1>1, <1>2
<1>4. /\ pc = "devices" /\ asked = NoRequest /\ asked.blocksize = 0
      /\ UNCHANGED <<disk, logged, made>>
  BY NoRequestIs DEF SuperOpen, IInv, AskedRight
<1>5. /\ dals.host \in Devices /\ dals.journal \in Devices /\ dals.host.data = "host"
      /\ dals.host.blocksize \in SizesOn(disk.host) /\ Bs = dals.host.blocksize
      /\ Bs \in Nat \ {0}
  BY <1>4 DEF IInv, HandlesRight, Bs, Devices
<1>6. ProbeRight(at, dals.host)
  BY <1>2, <1>5, SuperProbeIs DEF SuperProbe, IInv
<1>7. /\ at.dal = [data |-> "host", blocksize |-> bs, flags |-> dals.host.flags]
      /\ bs \in Nat \ {0} /\ PowOfTwo(bs) /\ bs \in SizesOn(disk.host)
      /\ dals.host.flags \in {"r", "rw"}
  BY <1>5, <1>6 DEF ProbeRight, Devices
<1>8. made # NoRequest /\ Bs = Default /\ fails = {} => at.hit.found
  BY <1>2, <1>5, ProbeFinds DEF SuperProbe, IInv
<1> HIDE DEF found, bs
<1>9. asked'.blocksize = 0 /\ asked'.first = Bs /\ asked'.first # 0
  BY <1>3, <1>5 DEF NoRequest
<1>10. pc' \in {"check", "failed"} /\ unread' \in BOOLEAN
  BY <1>3
<1>11. DiskRight'
  BY <1>4 DEF IInv, DiskRight
<1>12. dals'.host = at.dal /\ Bs' = bs /\ dals' = [host |-> dals'.host, journal |-> dals'.journal]
       /\ dals'.journal = IF at.hit.found /\ dals.journal.data # ""
                          THEN SetBlocksize(dals.journal, at.hit.super.bs) ELSE dals.journal
  BY <1>3 DEF Bs, bs
<1>13. at.hit.found =>
         /\ at.hit.off \in Nat /\ at.hit.off * bs + 1 \in DOMAIN disk.host
         /\ disk.host[at.hit.off * bs + 1][1] = "super"
         /\ at.hit.super = disk.host[at.hit.off * bs + 1][2]
         /\ bs = at.hit.super.bs /\ at.hit.super.count * bs <= Len(disk.host)
         /\ Len(at.hit.units) = Bs
         /\ \A j \in 1..Len(at.hit.units) : at.hit.units[j] # <<"behind">>
  BY <1>5, <1>6 DEF ProbeRight, bs
<1>14. dals'.journal \in Devices
       /\ (at.hit.found /\ dals.journal.data # "" => dals'.journal.blocksize = bs)
       /\ dals'.journal.data = dals.journal.data
  <2>1. CASE at.hit.found /\ dals.journal.data # ""
    <3>1. dals'.journal = [dals.journal EXCEPT !.blocksize = bs]
      BY <1>7, <1>12, <1>13, <2>1 DEF SetBlocksize
    <3>2. QED
      BY <1>5, <1>7, <3>1 DEF Devices
  <2>2. CASE ~(at.hit.found /\ dals.journal.data # "")
    BY <1>5, <1>12, <2>2
  <2>3. QED
    BY <2>1, <2>2
<1>15. HandlesRight'
  <2>1. dals'.host \in Devices /\ dals'.host.data = "host" /\ dals'.host.blocksize = bs
    <3>1. PICK d, flags : d = at.dal /\ flags = dals.host.flags
      OBVIOUS
    <3>2. d = [data |-> "host", blocksize |-> bs, flags |-> flags] /\ flags \in {"r", "rw"}
      BY <1>7, <3>1
    <3>3. d \in Devices /\ d.data = "host" /\ d.blocksize = bs
      BY <1>7, <3>2, DeviceIs
    <3>4. QED
      BY <1>12, <3>1, <3>3
  <2>2. QED
    BY <1>4, <1>7, <1>12, <1>14, <2>1 DEF HandlesRight
<1>16. AskedRight' /\ CreationRight'
  BY <1>9, <1>10 DEF AskedRight, CreationRight
<1>17. TypeOK' /\ OpenedWhole' /\ FreeRight'
  BY <1>10, <1>11, <1>15, NotOpen DEF Stages
<1>18. ReadRight'
  <2>1. CASE pc' = "failed"
    BY <2>1 DEF ReadRight, Reading
  <2>2. CASE pc' = "check"
    <3>1. at.hit.found /\ fs' = [NoFs EXCEPT !.super = at.hit.super, !.off = at.hit.off,
                                    !.rest = Copied(at.hit.units, bs)]
      BY <1>3, <2>2
    <3>2. /\ fs'.super = at.hit.super /\ fs'.off = at.hit.off /\ fs'.opened = FALSE
          /\ fs'.stray = FALSE
          /\ fs'.rest = Copied(at.hit.units, bs)
      BY <3>1 DEF NoFs
    <3>3. Len(fs'.rest) = bs - 1 /\ DOMAIN fs'.rest = 1..(bs - 1)
      <4> DEFINE c == Copied(at.hit.units, bs)
      <4>1. bs - 1 \in Nat
        BY <1>7
      <4>2. c = [i \in 1..(bs - 1) |-> c[i]]
        BY DEF Copied
      <4> HIDE DEF c
      <4>3. QED
        BY <3>2, <4>1, <4>2, MakeSequence DEF c
    <3>4. bs <= Bs => \A i \in DOMAIN fs'.rest : fs'.rest[i] # <<"behind">>
      <4> SUFFICES ASSUME bs <= Bs, NEW i \in 1..(bs - 1)
                   PROVE  fs'.rest[i] # <<"behind">>
        BY <3>3
      <4>1. i + 1 <= Len(at.hit.units) /\ i + 1 \in 1..Len(at.hit.units)
        BY <1>5, <1>7, <1>13, <3>1
      <4>2. fs'.rest[i] = at.hit.units[i + 1]
        BY <3>2, <4>1 DEF Copied
      <4>3. QED
        BY <1>13, <3>1, <4>1, <4>2
    <3>5. Bs \in {Default, bs}
      <4>1. CASE Bs = Default
        BY <4>1
      <4>2. CASE Bs # Default
        <5>1. PICK j \in DOMAIN disk.host : disk.host[j][1] = "super" /\ Bs = disk.host[j][2].bs
          BY <1>5, <4>2 DEF SizesOn
        <5>2. j = at.hit.off * bs + 1
          BY <1>13, <3>1, <5>1, SuperIs DEF IInv
        <5>3. QED
          BY <1>13, <3>1, <5>1, <5>2
      <4>3. QED
        BY <4>1, <4>2
    <3>6. dals'.journal.data # "" => dals'.journal.blocksize = bs
      BY <1>14, <3>1
    <3>7. pc' = "check" /\ disk' = disk /\ Bs' = bs
      BY <1>4, <1>12, <2>2
    <3> DEFINE i == fs'.off * bs + 1
    <3>8. /\ i \in DOMAIN disk.host /\ disk.host[i][1] = "super" /\ fs'.off \in Nat
          /\ disk.host[i][2].bs = bs /\ disk.host[i][2].count * bs <= Len(disk.host)
          /\ fs'.super = disk.host[i][2]
      BY <1>13, <3>1, <3>2
    <3>9. asked'.first = Bs
      BY <1>9
    <3> DEFINE at2 == fs'.off * Bs' + 1
    <3>10. at2 = i
      BY <3>7
    <3> HIDE DEF i, at2
    <3>11. /\ at2 \in DOMAIN disk'.host /\ disk'.host[at2][1] = "super" /\ fs'.off \in Nat
           /\ disk'.host[at2][2].bs = Bs' /\ disk'.host[at2][2].count * Bs' <= Len(disk'.host)
           /\ fs'.super = disk'.host[at2][2]
           /\ Len(fs'.rest) = Bs' - 1 /\ DOMAIN fs'.rest = 1..(Bs' - 1)
           /\ Bs' <= asked'.first => \A j \in DOMAIN fs'.rest : fs'.rest[j] # <<"behind">>
           /\ asked'.first \in {Default, Bs'}
           /\ dals'.journal.data # "" => dals'.journal.blocksize = Bs'
           /\ fs'.opened = FALSE /\ fs'.stray = FALSE /\ pc' = "check"
      BY <3>2, <3>3, <3>4, <3>5, <3>6, <3>7, <3>8, <3>9, <3>10
    <3>12. QED
      BY <3>11 DEF ReadRight, Reread2, at2
  <2>3. QED
    BY <1>10, <2>1, <2>2
<1>19. FoundAgain'
  <2> SUFFICES ASSUME asked'.first = Default, made' # NoRequest, ~unread'
               PROVE  pc' = "check"
    BY <1>10 DEF FoundAgain
  <2>1. fails = {} /\ Bs = Default /\ made # NoRequest
    BY <1>3, <1>4, <1>9
  <2>2. QED
    BY <1>3, <1>8, <2>1
<1>20. QED
  BY <1>11, <1>15, <1>16, <1>17, <1>18, <1>19 DEF IInv

(* Probe keeps the invariant.                                              *)
LEMMA ProbePreserves ==
  ASSUME IInv, Probe
  PROVE  IInv'
<1> DEFINE dal == [dals.host EXCEPT !.blocksize = Default]
           found == ProbeAt(ProbeAt([dal |-> dal, hit |-> Nothing], 16, {}), 2, {})
<1>1. /\ pc = "devices" /\ UNCHANGED <<disk, pc, fs, asked, logged, made, unread>>
      /\ dals' = [dals EXCEPT !.host = found.dal]
      /\ asked = NoRequest /\ asked.blocksize = 0
  BY NoRequestIs DEF Probe, IInv, AskedRight
<1>2. /\ dals \in [host : Devices, journal : Devices] /\ dals.host.data = "host"
  BY <1>1 DEF IInv, HandlesRight
<1>3. dal \in Devices /\ dal.data = "host" /\ dal.blocksize = Default
      /\ dal.flags \in {"r", "rw"}
  BY <1>2, PlacesAre, SizesAssumption DEF Devices
<1> HIDE DEF dal
<1>4. ProbeRight(found, dal)
  BY <1>3, SuperProbeIs DEF IInv
<1> HIDE DEF found
<1>5. /\ found.dal \in Devices /\ found.dal.data = "host"
      /\ found.dal.blocksize \in SizesOn(disk.host)
  <2>1. /\ found.dal = [data |-> "host", blocksize |-> found.dal.blocksize, flags |-> dal.flags]
        /\ found.dal.blocksize \in Nat \ {0} /\ PowOfTwo(found.dal.blocksize)
        /\ found.dal.blocksize \in {dal.blocksize} \cup SizesOn(disk.host)
    BY <1>4 DEF ProbeRight
  <2>2. dal.blocksize \in SizesOn(disk.host)
    BY <1>3 DEF SizesOn
  <2>3. QED
    BY <1>3, <2>1, <2>2, DeviceIs
<1>6. HandlesRight'
  BY <1>1, <1>2, <1>5 DEF HandlesRight
<1>7. DiskRight'
  BY <1>1 DEF IInv, DiskRight
<1>8. pc' \in Stages \ {"open"} /\ unread' \in BOOLEAN
  BY <1>1 DEF IInv, TypeOK, Stages
<1>9. TypeOK' /\ OpenedWhole' /\ FreeRight'
  BY <1>6, <1>7, <1>8, NotOpen
<1>10. AskedRight' /\ CreationRight' /\ ReadRight' /\ FoundAgain'
  BY <1>1, IdleRight
<1>11. QED
  BY <1>6, <1>7, <1>9, <1>10 DEF IInv

(* FsClobber keeps the invariant.                                          *)
LEMMA FsClobberPreserves ==
  ASSUME IInv, FsClobber
  PROVE  IInv'
<1> DEFINE zeros == Fill(Bs, Zero)
           mid == Put(disk["host"], Offset(dals.host, 16), zeros)
           new == Put(mid, Offset(dals.host, 2), zeros)
<1>1. /\ pc = "devices" /\ UNCHANGED <<dals, pc, fs, asked, unread>>
      /\ made' = NoRequest /\ logged' = NoSuper /\ Bs = Default
      /\ asked = NoRequest /\ asked.blocksize = 0
  BY NoRequestIs DEF FsClobber, IInv, AskedRight
<1>2. /\ disk["host"] = disk.host /\ Sequence(disk.host)
  BY DiskIs DEF IInv, DiskRight
<1>3. disk' = [disk EXCEPT !["host"] = new]
  BY <1>2 DEF FsClobber
<1>4. /\ dals.host.blocksize = Default /\ Default \in Nat
      /\ Offset(dals.host, 16) \in Nat /\ Offset(dals.host, 2) \in Nat
  BY <1>1, PlacesAre DEF Bs, Offset
<1>5. Plain(zeros)
  BY <1>1, <1>4, PlainFill, TagsAre
<1> HIDE DEF zeros
<1>6. SupersFrom(mid, disk["host"])
  BY <1>2, <1>4, <1>5, PutPlain
<1> HIDE DEF mid
<1>7. SupersFrom(new, mid)
  BY <1>4, <1>5, <1>6, PutPlain DEF SupersFrom
<1> HIDE DEF new
<1>8. SupersFrom(new, disk["host"])
  BY <1>6, <1>7, SupersFromTwice
<1>9. DiskRight'
  BY <1>1, <1>3, <1>8, DiskWritten DEF IInv
<1>10. HandlesRight'
  BY <1>1, <1>4 DEF IInv, HandlesRight, SizesOn
<1>11. pc' \in Stages \ {"open"} /\ unread' \in BOOLEAN
  BY <1>1 DEF IInv, TypeOK, Stages
<1>12. TypeOK' /\ OpenedWhole' /\ FreeRight'
  BY <1>9, <1>10, <1>11, NotOpen
<1>13. AskedRight' /\ CreationRight' /\ ReadRight' /\ FoundAgain'
  BY <1>1, IdleRight
<1>14. QED
  BY <1>9, <1>10, <1>12, <1>13 DEF IInv

(* What is known of a handle that is being opened or that was.             *)
LEMMA ReadIs ==
  ASSUME IInv, Reading, ~fs.stray
  PROVE  LET at == fs.off * Bs + 1
             there == disk.host[at][2]
         IN  /\ at \in DOMAIN disk.host /\ disk.host[at][1] = "super" /\ fs.off \in Nat
             /\ Bs \in Nat \ {0} /\ there.bs = Bs /\ there \in Supers
             /\ there.count * Bs <= Len(disk.host) /\ fs.off * Bs \in Nat
             /\ fs.off * Bs + Bs <= Len(disk.host) /\ (at - 1) \div Bs = fs.off
             /\ fs.super = there \/ fs.super = [there EXCEPT !.clean = FALSE]
             /\ fs.super \in Supers /\ fs.super.jr = there.jr /\ fs.super.count = there.count
             /\ fs.super.bs = Bs /\ fs.super.free = there.free /\ fs.super.jp = there.jp
             /\ fs.super.tune = there.tune
             /\ logged # NoSuper => logged = [there EXCEPT !.clean = FALSE]
             /\ dals.host.data = "host" /\ dals.host.blocksize = Bs
             /\ dals.journal.data \in {"", "host", "other"}
<1> DEFINE at == fs.off * Bs + 1
           there == disk.host[at][2]
<1>1. /\ at \in DOMAIN disk.host /\ disk.host[at][1] = "super" /\ there.bs = Bs
      /\ there.count * Bs <= Len(disk.host) /\ fs.off \in Nat
      /\ fs.super # there => logged # NoSuper /\ fs.super = logged
  BY DEF IInv, ReadRight
<1>2. dals \in [host : Devices, journal : Devices] /\ dals.host.data = "host"
  BY DEF IInv, HandlesRight, Reading
<1>3. dals.host.blocksize = Bs /\ Bs \in Nat \ {0} /\ dals.journal.data \in {"", "host", "other"}
  BY <1>2 DEF Bs, Devices
<1>4. there \in Supers /\ at - 1 + there.bs <= Len(disk.host)
  BY <1>1, SuperIs DEF IInv
<1>5. logged # NoSuper => logged = [there EXCEPT !.clean = FALSE]
  BY <1>1 DEF IInv, DiskRight
<1> HIDE DEF there
<1>6. fs.super = there \/ fs.super = [there EXCEPT !.clean = FALSE]
  BY <1>1, <1>5
<1>7. LET new == [there EXCEPT !.clean = FALSE]
      IN  /\ new \in Supers /\ new.jr = there.jr /\ new.count = there.count
          /\ new.bs = there.bs /\ new.free = there.free /\ new.jp = there.jp
          /\ new.tune = there.tune
  BY <1>4 DEF Supers
<1>8. /\ fs.super \in Supers /\ fs.super.jr = there.jr /\ fs.super.count = there.count
      /\ fs.super.tune = there.tune
      /\ fs.super.bs = Bs /\ fs.super.free = there.free /\ fs.super.jp = there.jp
  BY <1>1, <1>4, <1>6, <1>7
<1>9. fs.off * Bs \in Nat /\ at - 1 = fs.off * Bs /\ (fs.off * Bs) \div Bs = fs.off
  <2>1. (fs.off * Bs) \div Bs = fs.off
    BY <1>1, <1>3, BlockOf
  <2>2. fs.off * Bs \in Nat
    <3>1. fs.off \in Nat /\ Bs \in Nat
      BY <1>1, <1>3
    <3>2. \A a, b \in Nat : a * b \in Nat
      OBVIOUS
    <3>3. QED
      BY <3>1, <3>2
  <2>3. PICK b : b = fs.off * Bs
    OBVIOUS
  <2>4. b \in Nat /\ at = b + 1
    BY <2>2, <2>3
  <2>5. at - 1 = b
    BY <2>4
  <2>6. QED
    BY <2>1, <2>2, <2>3, <2>5
<1>10. fs.off * Bs + Bs <= Len(disk.host) /\ (at - 1) \div Bs = fs.off
  BY <1>1, <1>4, <1>9
<1> HIDE DEF at
<1>11. QED
  BY <1>1, <1>2, <1>3, <1>4, <1>5, <1>6, <1>8, <1>9, <1>10 DEF at, there

(* The super block at its place is that of the filesystem that was made.   *)
LEMMA PlaceMade ==
  ASSUME IInv, Reading, made # NoRequest
  PROVE  LET there == disk.host[fs.off * Bs + 1][2]
         IN  /\ Bs = made.blocksize /\ there.count = made.len /\ there.jr = made.rel
             /\ there.jp.len = made.jlen /\ there.count # 0 /\ ~there.tune
             /\ HeadLaid(disk[IF there.jr THEN "other" ELSE "host"], there)
             /\ BitsLaid(disk.host, fs.off, there)
<1> DEFINE at == fs.off * Bs + 1
           there == disk.host[at][2]
<1>1. at \in DOMAIN disk.host /\ disk.host[at][1] = "super" /\ there.bs = Bs /\ fs.off \in Nat
  BY DEF IInv, ReadRight
<1>2. there.bs \in Nat \ {0}
  BY <1>1, SuperIs DEF IInv
<1>3. PICK b : b = fs.off * Bs
  OBVIOUS
<1>4. b \in Nat /\ b \div Bs = fs.off
  <2>1. Bs \in Nat \ {0}
    BY <1>1, <1>2
  <2>2. \A m, n \in Nat : m * n \in Nat
    OBVIOUS
  <2>3. QED
    BY <1>1, <1>3, <2>1, <2>2, BlockOf
<1>5. at = b + 1 /\ at - 1 = b /\ (at - 1) \div Bs = fs.off
  BY <1>3, <1>4
<1> HIDE DEF at
<1>6. /\ there.bs = made.blocksize /\ there.count = made.len /\ there.jr = made.rel
      /\ there.jp.len = made.jlen /\ there.count # 0 /\ ~there.tune
      /\ HeadLaid(disk[IF there.jr THEN "other" ELSE "host"], there)
      /\ BitsLaid(disk.host, (at - 1) \div there.bs, there)
  BY <1>1, MadeIs DEF IInv
<1> HIDE DEF there
<1>7. QED
  BY <1>1, <1>5, <1>6 DEF at, there

(* The super block it reads is that of the filesystem that was made.       *)
LEMMA ReadMade ==
  ASSUME IInv, Reading, made # NoRequest, ~fs.stray
  PROVE  /\ Bs = made.blocksize /\ fs.super.count = made.len /\ fs.super.jr = made.rel
         /\ fs.super.jp.len = made.jlen /\ fs.super.count # 0
         /\ HeadLaid(disk[IF fs.super.jr THEN "other" ELSE "host"], disk.host[fs.off * Bs + 1][2])
         /\ BitsLaid(disk.host, fs.off, disk.host[fs.off * Bs + 1][2])
<1> DEFINE there == disk.host[fs.off * Bs + 1][2]
<1>1. fs.super.jr = there.jr /\ fs.super.count = there.count /\ fs.super.jp = there.jp
  BY ReadIs
<1>2. /\ Bs = made.blocksize /\ there.count = made.len /\ there.jr = made.rel
      /\ there.jp.len = made.jlen /\ there.count # 0
      /\ HeadLaid(disk[IF there.jr THEN "other" ELSE "host"], there)
      /\ BitsLaid(disk.host, fs.off, there)
  BY PlaceMade
<1> HIDE DEF there
<1>3. QED
  BY <1>1, <1>2 DEF there

(* The kernel marks the super block that is read, there is no other.       *)
LEMMA SuperAtIs ==
  ASSUME DiskRight, NEW i \in DOMAIN disk.host, disk.host[i][1] = "super"
  PROVE  SuperAt = i
<1>1. /\ i \in Nat /\ i - 1 \in {SuperOffset, 2 * Default} /\ Len(disk.host) \in Nat
      /\ DOMAIN disk.host = 1..Len(disk.host)
      /\ \A j \in DOMAIN disk.host : disk.host[j][1] = "super" => j = i
  BY SuperIs, DiskIs DEF SuperPlaces
<1>2. SuperOffset \in Nat /\ Default \in Nat \ {0} /\ SuperOffset = 16 * Default
  BY PlacesAre
<1>3. \A j \in Nat : Signed(<<disk.host[j]>>) <=> disk.host[j][1] = "super"
  BY DEF Signed
<1>4. CASE SuperOffset < Len(disk.host) /\ Signed(<<disk.host[SuperOffset + 1]>>)
  <2>1. SuperOffset + 1 \in DOMAIN disk.host /\ disk.host[SuperOffset + 1][1] = "super"
    BY <1>1, <1>2, <1>3, <1>4
  <2>2. QED
    BY <1>1, <1>4, <2>1 DEF SuperAt
<1>5. CASE ~(SuperOffset < Len(disk.host) /\ Signed(<<disk.host[SuperOffset + 1]>>))
  <2>1. i # SuperOffset + 1
    <3> SUFFICES ASSUME i = SuperOffset + 1  PROVE FALSE
      OBVIOUS
    <3>1. SuperOffset < Len(disk.host)
      BY <1>1, <1>2
    <3>2. Signed(<<disk.host[SuperOffset + 1]>>)
      BY <1>2, <1>3
    <3>3. QED
      BY <1>5, <3>1, <3>2
  <2>2. i = 2 * Default + 1
    BY <1>1, <1>2, <2>1, SMTT(40)
  <2>3. QED
    BY <1>5, <2>2 DEF SuperAt
<1>6. QED
  BY <1>4, <1>5

(* Before the log is read the handle has the super block of the device.    *)
LEMMA CheckPreserves ==
  ASSUME IInv, Check
  PROVE  IInv'
<1>1. /\ pc = "check" /\ UNCHANGED <<disk, dals, fs, asked, logged, made, unread>>
      /\ pc' = IF ~MayOpen THEN "failed"
               ELSE IF dals.journal.data = "" \/ fs.super.tune THEN "bitmap" ELSE "head"
  BY DEF Check
<1>2. asked.blocksize = 0 /\ asked.first # 0 /\ Reading /\ pc' \in {"failed", "bitmap", "head"}
  BY <1>1 DEF IInv, AskedRight, Reading
<1>3. DiskRight' /\ HandlesRight' /\ AskedRight' /\ CreationRight'
  BY <1>1, <1>2 DEF IInv, DiskRight, HandlesRight, AskedRight, CreationRight
<1>4. unread' \in BOOLEAN /\ pc' \in Stages \ {"open"}
  BY <1>1, <1>2 DEF IInv, TypeOK, Stages
<1>5. TypeOK' /\ OpenedWhole' /\ FreeRight'
  BY <1>3, <1>4, NotOpen
<1> DEFINE at == fs.off * Bs + 1
<1>6. /\ at \in DOMAIN disk.host /\ disk.host[at][1] = "super"
      /\ disk.host[at][2].bs = Bs /\ disk.host[at][2].count * Bs <= Len(disk.host)
      /\ fs.off \in Nat /\ fs.super = disk.host[at][2] /\ fs.stray = FALSE
      /\ Len(fs.rest) = Bs - 1 /\ DOMAIN fs.rest = 1..(Bs - 1)
      /\ Bs <= asked.first => \A i \in DOMAIN fs.rest : fs.rest[i] # <<"behind">>
      /\ asked.first \in {Default, Bs}
      /\ dals.journal.data # "" => dals.journal.blocksize = Bs
      /\ ~fs.opened
  BY <1>1, <1>2 DEF IInv, ReadRight, Reread2
<1>7. at' = at /\ Bs' = Bs /\ MayOpen' = MayOpen
  BY <1>1 DEF Bs, MayOpen
<1> HIDE DEF at
<1>8. ReadRight'
  <2>1. pc' = "head" => dals'.journal.data # "" /\ MayOpen' /\ ~fs.super.tune
    BY <1>1, <1>7
  <2>2. pc' = "bitmap" => dals'.journal.data = "" \/ fs.super.tune
    BY <1>1
  <2> DEFINE at2 == fs'.off * Bs' + 1
  <2>3. at2 = at
    BY <1>1, <1>7 DEF at
  <2> HIDE DEF at2
  <2>4. /\ at2 \in DOMAIN disk'.host /\ disk'.host[at2][1] = "super"
        /\ disk'.host[at2][2].bs = Bs' /\ disk'.host[at2][2].count * Bs' <= Len(disk'.host)
        /\ fs'.off \in Nat /\ fs'.super = disk'.host[at2][2] /\ fs'.stray = FALSE
        /\ fs.super = disk'.host[at2][2]
        /\ Len(fs'.rest) = Bs' - 1 /\ DOMAIN fs'.rest = 1..(Bs' - 1)
        /\ Bs' <= asked'.first => \A i \in DOMAIN fs'.rest : fs'.rest[i] # <<"behind">>
        /\ asked'.first \in {Default, Bs'}
        /\ dals'.journal.data # "" => dals'.journal.blocksize = Bs'
        /\ ~fs'.opened
    BY <1>1, <1>6, <1>7, <2>3
  <2>5. QED
    BY <1>2, <2>1, <2>2, <2>4 DEF ReadRight, Reread2, Reading, at2
<1>9. FoundAgain'
  <2> SUFFICES ASSUME asked.first = Default, made # NoRequest, ~unread, ~MayOpen
               PROVE  (~RightJournal \/ (dals.host.flags = "rw" /\ ~Stored.clean))'
    BY <1>1, <1>2 DEF FoundAgain
  <2>1. fs.super.jr = made.rel
    BY <1>2, <1>6, ReadMade
  <2>2. SuperAt = at
    BY <1>6, SuperAtIs DEF IInv
  <2>3. Stored = fs.super
    BY <1>6, <2>2 DEF Stored
  <2>4. ~RightJournal \/ (dals.host.flags = "rw" /\ ~Stored.clean)
    BY <2>1, <2>3 DEF MayOpen, RightJournal
  <2>5. RightJournal' = RightJournal /\ Stored' = Stored
    BY <1>1 DEF RightJournal, Stored, SuperAt
  <2>6. QED
    BY <1>1, <2>4, <2>5
<1>10. QED
  BY <1>3, <1>5, <1>8, <1>9 DEF IInv

(* With the right device for its journal the head that was made is found.  *)
LEMMA JournalHead ==
  ASSUME IInv, pc = "head", made # NoRequest, KindsAgree
  PROVE  /\ There(dals.journal, HeadBlk) /\ HeadUnit[1] = "head"
         /\ HeadUnit[2] \in [start : Nat, len : Nat, dev : Nat] /\ HeadUnit[2].len = made.jlen
         /\ HeadParams = HeadUnit[2]
         /\ ParamsCheck(dals.journal, HeadUnit[2].start, HeadUnit[2].len, fs.super.jr)
<1> DEFINE data == dals.journal.data
           there == disk.host[fs.off * Bs + 1][2]
<1>1. asked.blocksize = 0 /\ Reading /\ ~fs.stray
  BY DEF IInv, AskedRight, ReadRight, Reread2, Reading
<1>2. /\ Bs \in Nat \ {0} /\ there \in Supers /\ there.bs = Bs /\ fs.super.jp = there.jp
      /\ fs.super \in Supers /\ dals.host.data = "host" /\ data \in {"", "host", "other"}
  BY <1>1, ReadIs
<1>3. /\ fs.super.jp.len = made.jlen
      /\ HeadLaid(disk[IF fs.super.jr THEN "other" ELSE "host"], there)
  BY <1>1, ReadMade
<1> HIDE DEF there
<1>4. data # "" /\ dals.journal.blocksize = Bs
  BY <1>1 DEF IInv, ReadRight
<1>5. data = IF fs.super.jr THEN "other" ELSE "host"
  <2>1. fs.super.jr \in BOOLEAN
    BY <1>2 DEF Supers
  <2>2. (data # "host") = fs.super.jr
    BY <1>2, <1>4 DEF KindsAgree, Relocated, Equals
  <2>3. QED
    BY <1>2, <1>4, <2>1, <2>2
<1>6. there.jp.start \in Nat /\ there.jp.len \in Nat
  BY <1>2 DEF Supers
<1> DEFINE blk == there.jp.start + there.jp.len
           c == disk[data]
           unit == c[blk * Bs + 1]
<1>7. /\ (blk + 1) * Bs <= Len(c) /\ unit[1] = "head" /\ unit[2].len = there.jp.len
      /\ unit[2] \in [start : Nat, len : Nat, dev : Nat]
      /\ ParamsFit(Len(c) \div Bs, Bs, unit[2].start, unit[2].len, there.jr)
  BY <1>2, <1>3, <1>5 DEF HeadLaid
<1>8. blk \in Nat /\ HeadBlk = blk
  <2>1. blk \in Nat
    BY <1>6
  <2>2. fs.super.jp = there.jp
    BY <1>2
  <2>3. QED
    BY <2>1, <2>2 DEF HeadBlk
<1> HIDE DEF blk
<1>9. (blk + 1) * Bs = blk * Bs + Bs
  <2>1. \A a, b \in Nat : (a + 1) * b = a * b + b
    OBVIOUS
  <2>2. QED
    BY <1>2, <1>8, <2>1
<1>10. blk * Bs + Bs <= Len(c)
  BY <1>7, <1>9
<1>11. data \in {"host", "other"}
  BY <1>5
<1> DEFINE dal == dals.journal
<1>12. dal.data = data /\ dal.blocksize = Bs
  BY <1>4
<1> HIDE DEF dal
<1>13. There(dal, blk) /\ BlockUnits(dal, blk)[1] = unit
  <2>1. PICK d, n : d = data /\ n = Bs
    OBVIOUS
  <2>2. /\ d \in {"host", "other"} /\ n \in Nat \ {0} /\ dal.data = d /\ dal.blocksize = n
        /\ blk \in Nat /\ blk * n + n <= Len(disk[d])
    BY <1>2, <1>8, <1>10, <1>11, <1>12, <2>1
  <2>3. There(dal, blk) /\ BlockUnits(dal, blk)[1] = disk[d][blk * n + 1]
    <3>1. PICK units : units = disk[d]
      OBVIOUS
    <3>2. BlockRead(dal, units, n, blk)
      BY <2>2, <3>1, BlockIsRead DEF IInv
    <3>3. QED
      BY <2>2, <3>1, <3>2 DEF BlockRead
  <2>4. QED
    BY <2>1, <2>3
<1>14. HeadUnit = unit /\ There(dals.journal, HeadBlk)
  BY <1>8, <1>13 DEF HeadUnit, dal
<1>15. ParamsCheck(dals.journal, unit[2].start, unit[2].len, fs.super.jr)
  <2>1. fs.super.jr = there.jr
    BY <1>1, ReadIs DEF there
  <2>2. DalLen(dal, Content(dal)) = Len(c) \div Bs
    BY <1>12 DEF DalLen, Content
  <2>3. QED
    BY <1>7, <1>12, <2>1, <2>2 DEF ParamsCheck, dal
<1> HIDE DEF unit, c, data
<1>16. QED
  BY <1>2, <1>3, <1>7, <1>14, <1>15 DEF HeadParams

(* A journal that is opened is the one of the super block.                 *)
LEMMA JournalOpenPreserves ==
  ASSUME IInv, HandleIs, JournalOpen
  PROVE  IInv'
<1>1. PICK fails \in BOOLEAN :
        /\ unread' = (unread \/ fails)
        /\ IF HeadSound /\ ~fails
           THEN /\ fs' = [fs EXCEPT !.opened = TRUE,
                            !.journal = [HeadParams EXCEPT !.dev = Stat[dals.journal.data]]]
                /\ pc' = "reopen"
           ELSE pc' = "failed" /\ UNCHANGED fs
  BY DEF JournalOpen
<1>2. pc = "head" /\ UNCHANGED <<disk, dals, asked, logged, made>> /\ pc' \in {"reopen", "failed"}
  BY <1>1 DEF JournalOpen
<1>3. asked.blocksize = 0 /\ asked.first # 0 /\ Reading
  BY <1>2 DEF IInv, AskedRight, Reading
<1>4. DiskRight' /\ HandlesRight' /\ AskedRight' /\ CreationRight'
  BY <1>2, <1>3 DEF IInv, DiskRight, HandlesRight, AskedRight, CreationRight
<1>5. unread' \in BOOLEAN /\ pc' \in Stages \ {"open"}
  BY <1>1, <1>2 DEF IInv, TypeOK, Stages
<1>6. TypeOK' /\ OpenedWhole' /\ FreeRight'
  BY <1>4, <1>5, NotOpen
<1> DEFINE at == fs.off * Bs + 1
<1>7. /\ at \in DOMAIN disk.host /\ disk.host[at][1] = "super"
      /\ disk.host[at][2].bs = Bs /\ disk.host[at][2].count * Bs <= Len(disk.host)
      /\ fs.off \in Nat /\ fs.super = disk.host[at][2] /\ fs.stray = FALSE
      /\ Len(fs.rest) = Bs - 1 /\ DOMAIN fs.rest = 1..(Bs - 1)
      /\ Bs <= asked.first => \A i \in DOMAIN fs.rest : fs.rest[i] # <<"behind">>
      /\ asked.first \in {Default, Bs}
      /\ dals.journal.data # "" /\ dals.journal.blocksize = Bs
  BY <1>2, <1>3 DEF IInv, ReadRight, Reread2
<1> HIDE DEF at
<1>8. ReadRight'
  <2>1. CASE pc' = "failed"
    BY <2>1 DEF ReadRight, Reading
  <2>2. CASE pc' = "reopen"
    <3>1. HeadSound /\ fs' = [fs EXCEPT !.opened = TRUE,
                            !.journal = [HeadParams EXCEPT !.dev = Stat[dals.journal.data]]]
      BY <1>1, <2>2
    <3>2. PICK journal : journal = [HeadParams EXCEPT !.dev = Stat[dals.journal.data]]
      OBVIOUS
    <3>3. fs' = [fs EXCEPT !.opened = TRUE, !.journal = journal]
      BY <3>1, <3>2
    <3>4. /\ fs'.off = fs.off /\ fs'.super = fs.super /\ fs'.rest = fs.rest
          /\ fs'.opened = TRUE /\ fs'.journal = journal /\ fs'.stray = fs.stray
      BY <3>3 DEF HandleIs, Fields
    <3>5. KindsAgree /\ Relocated(dals.journal)' = Relocated(dals.journal)
      BY <1>2, <3>1 DEF HeadSound, Relocated
    <3>6. made # NoRequest => journal.len = made.jlen
      <4> SUFFICES ASSUME made # NoRequest  PROVE journal.len = made.jlen
        OBVIOUS
      <4>1. HeadParams \in [start : Nat, len : Nat, dev : Nat] /\ HeadParams.len = made.jlen
        BY <1>2, <3>5, JournalHead
      <4>2. QED
        BY <3>2, <4>1
    <3> DEFINE at2 == fs'.off * Bs' + 1
    <3>7. at2 = at /\ Bs' = Bs
      BY <1>2, <3>4 DEF at, Bs
    <3> HIDE DEF at2
    <3>8. /\ at2 \in DOMAIN disk'.host /\ disk'.host[at2][1] = "super"
          /\ disk'.host[at2][2].bs = Bs' /\ disk'.host[at2][2].count * Bs' <= Len(disk'.host)
          /\ fs'.off \in Nat /\ fs'.super = disk'.host[at2][2] /\ fs'.stray = FALSE
          /\ Len(fs'.rest) = Bs' - 1 /\ DOMAIN fs'.rest = 1..(Bs' - 1)
          /\ Bs' <= asked'.first => \A i \in DOMAIN fs'.rest : fs'.rest[i] # <<"behind">>
          /\ asked'.first \in {Default, Bs'}
          /\ dals'.journal.data # "" => dals'.journal.blocksize = Bs'
      BY <1>2, <1>7, <3>4, <3>7
    <3>9. /\ fs'.opened /\ dals'.journal.data # ""
          /\ Relocated(dals.journal)' = disk'.host[at2][2].jr
          /\ made' # NoRequest => fs'.journal.len = made'.jlen
      BY <1>2, <1>7, <3>4, <3>5, <3>6, <3>7 DEF KindsAgree
    <3>10. QED
      BY <2>2, <3>8, <3>9 DEF ReadRight, Reread2, at2
  <2>3. QED
    BY <1>2, <2>1, <2>2
<1>9. FoundAgain'
  <2> SUFFICES ASSUME made # NoRequest, ~fails, ~HeadSound, RightJournal,
                      Stat[dals.journal.data] # 0
               PROVE  FALSE
    <3>1. pc' = "failed" <=> ~(HeadSound /\ ~fails)
      BY <1>1
    <3>2. RightJournal' = RightJournal
      BY <1>2 DEF RightJournal
    <3>3. pc' = "failed" /\ made # NoRequest /\ ~unread' /\ RightJournal
            => Stat[dals.journal.data] = 0
      BY <1>1, <3>1
    <3>4. QED
      BY <1>2, <1>7, <3>2, <3>3 DEF FoundAgain
  <2>1. fs.super.jr = made.rel
    BY <1>3, <1>7, ReadMade
  <2>2. fs.super \in Supers /\ dals.host.data = "host"
    BY <1>3, <1>7, ReadIs
  <2>3. KindsAgree
    <3>1. fs.super.jr \in BOOLEAN
      BY <2>2 DEF Supers
    <3>2. QED
      BY <1>7, <2>1, <2>2, <3>1 DEF KindsAgree, Relocated, Equals, RightJournal
  <2>4. QED
    BY <1>2, <2>3, JournalHead DEF HeadSound
<1>10. QED
  BY <1>4, <1>6, <1>8, <1>9 DEF IInv

(* What is read again is the super block on the device, or what the log    *)
(* gave, as long as a block and with nothing from behind it.               *)
LEMMA RereadIs ==
  ASSUME IInv, Reading, ~fs.stray, NEW read
  PROVE  LET there == disk.host[fs.off * Bs + 1][2]
             new == Reread(read)
         IN  /\ new.super = IF read = NoSuper THEN there ELSE read
             /\ Len(new.rest) = Bs - 1 /\ DOMAIN new.rest = 1..(Bs - 1)
             /\ \A i \in DOMAIN new.rest : new.rest[i] # <<"behind">>
<1> DEFINE there == disk.host[fs.off * Bs + 1][2]
           host == dals.host
           units == BlockUnits(host, fs.off)
           c == disk.host
<1>1. /\ Bs \in Nat \ {0} /\ fs.off \in Nat /\ fs.off * Bs + Bs <= Len(c)
      /\ host.data = "host" /\ host.blocksize = Bs
  BY ReadIs
<1>2. \A i \in DOMAIN c : c[i][1] # "behind"
  BY DEF IInv, DiskRight, SupersSound
<1>3. disk["host"] = c
  BY DiskIs DEF IInv
<1>4. CASE read # NoSuper
  <2>1. Reread(read) = [super |-> read, rest |-> Fill(Bs - 1, <<"map">>)]
    BY <1>4 DEF Reread
  <2> DEFINE f == Fill(Bs - 1, <<"map">>)
  <2>2. Sequence(f) /\ Len(f) = Bs - 1 /\ \A i \in 1..(Bs - 1) : f[i] = <<"map">>
    BY <1>1, FillIs, Bs - 1 \in Nat
  <2>3. DOMAIN f = 1..(Bs - 1)
    BY <2>2, SequenceIs
  <2> HIDE DEF f
  <2>4. Reread(read).super = read /\ Reread(read).rest = f
    BY <2>1 DEF f
  <2>5. \A i \in DOMAIN f : f[i] # <<"behind">>
    BY <2>2, <2>3, TagsAre
  <2>6. QED
    BY <1>4, <2>2, <2>3, <2>4, <2>5
<1>5. CASE read = NoSuper
  <2>1. PICK off, bs : off = fs.off /\ bs = Bs
    OBVIOUS
  <2> HIDE DEF host
  <2>2. /\ off \in Nat /\ bs \in Nat \ {0} /\ off * bs + bs <= Len(c)
        /\ host.data = "host" /\ host.blocksize = bs
    BY <1>1, <1>3, <2>1
  <2> DEFINE u == BlockUnits(host, off)
  <2>3. /\ Len(u) = bs /\ u[1] = c[off * bs + 1]
        /\ \A j \in 1..bs : u[j] = c[off * bs + j] /\ off * bs + j \in DOMAIN c
    <3>1. DiskRight
      BY DEF IInv
    <3>2. host.data = "host" /\ host.blocksize = bs /\ bs \in Nat \ {0} /\ off \in Nat
      BY <2>2
    <3>3. BlockRead(host, c, bs, off)
      BY <1>3, <3>1, <3>2, BlockIsRead
    <3> HIDE DEF c
    <3>4. QED
      BY <2>2, <3>3 DEF BlockRead
  <2> HIDE DEF u
  <2>4. u[1][2] = there /\ \A j \in 1..bs : u[j][1] # "behind"
    BY <1>2, <1>3, <2>1, <2>3
  <2> DEFINE r == Copied(u, bs)
  <2>5. Reread(read) = [super |-> u[1][2], rest |-> r]
    BY <1>5, <2>1 DEF Reread, host, u
  <2>6. bs - 1 \in Nat /\ r = [i \in 1..(bs - 1) |-> r[i]]
    BY <2>2 DEF Copied
  <2>7. \A i \in 1..(bs - 1) : r[i] # <<"behind">>
    <3> SUFFICES ASSUME NEW i \in 1..(bs - 1)  PROVE r[i] # <<"behind">>
      OBVIOUS
    <3>1. i + 1 \in 1..bs /\ i + 1 <= Len(u)
      BY <2>2, <2>3
    <3>2. r[i] = u[i + 1]
      BY <3>1 DEF Copied
    <3>3. QED
      BY <2>4, <3>1, <3>2, TagsAre
  <2> HIDE DEF r
  <2>8. Len(r) = bs - 1 /\ DOMAIN r = 1..(bs - 1)
    BY <2>6, MakeSequence
  <2>9. Reread(read).super = u[1][2] /\ Reread(read).rest = r
    BY <2>5
  <2>10. QED
    BY <1>5, <2>1, <2>4, <2>7, <2>8, <2>9
<1>6. QED
  BY <1>4, <1>5

(* Reading the super block again leaves the one of its place or the log's. *)
LEMMA SuperReopenPreserves ==
  ASSUME IInv, HandleIs, SuperReopen
  PROVE  IInv'
<1>0. PICK fails \in SUBSET {"log", "device"} : \E read \in LogReads(fails) :
       /\ unread' = (unread \/ fails # {})
       /\ IF read = NoSuper /\ "device" \in fails
          THEN pc' = "failed" /\ UNCHANGED fs
          ELSE /\ fs' = [fs EXCEPT !.super = Reread(read).super, !.rest = Reread(read).rest,
                                   !.stray = read \notin {NoSuper, logged}]
               /\ pc' = IF SuperOpenCheck(fs'.super, dals.host) THEN "bitmap" ELSE "failed"
  BY DEF SuperReopen
<1>1. PICK read \in LogReads(fails) :
       /\ unread' = (unread \/ fails # {})
       /\ IF read = NoSuper /\ "device" \in fails
          THEN pc' = "failed" /\ UNCHANGED fs
          ELSE /\ fs' = [fs EXCEPT !.super = Reread(read).super, !.rest = Reread(read).rest,
                                   !.stray = read \notin {NoSuper, logged}]
               /\ pc' = IF SuperOpenCheck(fs'.super, dals.host) THEN "bitmap" ELSE "failed"
  BY <1>0
<1>2. /\ pc = "reopen" /\ UNCHANGED <<disk, dals, asked, logged, made>>
      /\ pc' \in {"bitmap", "failed"}
  BY <1>1 DEF SuperReopen
<1>3. asked.blocksize = 0 /\ asked.first # 0 /\ Reading
  BY <1>2 DEF IInv, AskedRight, Reading
<1>4. DiskRight' /\ HandlesRight' /\ AskedRight' /\ CreationRight'
  BY <1>2, <1>3 DEF IInv, DiskRight, HandlesRight, AskedRight, CreationRight
<1>5. unread' \in BOOLEAN /\ pc' \in Stages \ {"open"}
  BY <1>1, <1>2 DEF IInv, TypeOK, Stages
<1>6. TypeOK' /\ OpenedWhole' /\ FreeRight'
  BY <1>4, <1>5, NotOpen
<1> DEFINE at == fs.off * Bs + 1
           there == disk.host[at][2]
           new == Reread(read)
           stray == read \notin {NoSuper, logged}
<1>7. ~fs.stray /\ fs.stray \in BOOLEAN
  BY <1>2, <1>3 DEF IInv, ReadRight, Reread2
<1>8. /\ at \in DOMAIN disk.host /\ disk.host[at][1] = "super" /\ there.bs = Bs
      /\ there.count * Bs <= Len(disk.host) /\ fs.off \in Nat /\ there \in Supers
      /\ Bs \in Nat \ {0} /\ dals.host.data = "host" /\ dals.host.blocksize = Bs
      /\ logged # NoSuper => logged = [there EXCEPT !.clean = FALSE]
  BY <1>3, <1>7, ReadIs
<1>9. /\ asked.first \in {Default, Bs} /\ fs.opened
      /\ dals.journal.data # "" /\ dals.journal.blocksize = Bs
      /\ Relocated(dals.journal) = there.jr
      /\ made # NoRequest => fs.journal.len = made.jlen
  BY <1>2, <1>3 DEF IInv, ReadRight
<1>10. /\ new.super = IF read = NoSuper THEN there ELSE read
       /\ Len(new.rest) = Bs - 1 /\ DOMAIN new.rest = 1..(Bs - 1)
       /\ \A i \in DOMAIN new.rest : new.rest[i] # <<"behind">>
  BY <1>3, <1>7, RereadIs
<1>11. /\ stray => read \in Misread /\ read # NoSuper
       /\ ~stray /\ read # NoSuper => logged # NoSuper /\ read = logged
  BY <1>1 DEF LogReads
<1> HIDE DEF new, there, at, stray
<1>12. \/ ~stray /\ new.super = there
       \/ ~stray /\ logged # NoSuper /\ new.super = logged
       \/ stray /\ new.super \in Misread
  BY <1>10, <1>11
<1>13. new.super.count \in Nat /\ (~stray => new.super.count = there.count)
  BY <1>8, <1>12, MisreadAssumption DEF Supers
<1>14. CASE read = NoSuper /\ "device" \in fails
  <2>1. pc' = "failed" /\ unread'
    BY <1>1, <1>14
  <2>2. ReadRight' /\ FoundAgain'
    BY <2>1 DEF ReadRight, Reading, FoundAgain
  <2>3. QED
    BY <1>4, <1>6, <2>2 DEF IInv
<1>15. CASE ~(read = NoSuper /\ "device" \in fails)
  <2>1. /\ fs' = [fs EXCEPT !.super = new.super, !.rest = new.rest, !.stray = stray]
        /\ pc' = IF SuperOpenCheck(fs'.super, dals.host) THEN "bitmap" ELSE "failed"
    BY <1>1, <1>15 DEF new, stray
  <2>2. /\ fs'.off = fs.off /\ fs'.super = new.super /\ fs'.rest = new.rest
        /\ fs'.opened = fs.opened /\ fs'.journal = fs.journal /\ fs'.stray = stray
    BY <2>1 DEF HandleIs, Fields
  <2>3. SuperOpenCheck(new.super, dals.host) <=> new.super.count * Bs <= Len(disk.host)
    <3>1. disk["host"] = disk.host /\ Len(disk.host) \in Int
      BY DiskIs DEF IInv
    <3>2. PICK n, count, bs : n = Len(disk.host) /\ count = new.super.count /\ bs = Bs
      OBVIOUS
    <3>3. n \in Int /\ count \in Int /\ bs \in Nat \ {0}
      BY <1>8, <1>13, <3>1, <3>2
    <3>4. count <= n \div bs <=> count * bs <= n
      BY <3>3, DivBound
    <3>5. DalLen(dals.host, Content(dals.host)) = n \div bs
      BY <1>8, <3>1, <3>2 DEF DalLen, Content
    <3>6. QED
      BY <3>2, <3>4, <3>5 DEF SuperOpenCheck
  <2>4. ~stray => pc' = "bitmap"
    BY <1>8, <1>13, <2>1, <2>2, <2>3
  <2>5. pc' = "bitmap" => new.super.count * Bs <= Len(disk.host)
    BY <2>1, <2>2, <2>3
  <2> DEFINE at2 == fs'.off * Bs' + 1
  <2>6. at2 = at /\ Bs' = Bs
    BY <1>2, <2>2 DEF at, Bs
  <2> HIDE DEF at2
  <2>7. /\ at2 \in DOMAIN disk'.host /\ disk'.host[at2][1] = "super"
        /\ disk'.host[at2][2].bs = Bs' /\ disk'.host[at2][2].count * Bs' <= Len(disk'.host)
        /\ fs'.off \in Nat /\ fs'.stray \in BOOLEAN
        /\ fs'.super # disk'.host[at2][2] /\ ~fs'.stray => logged' # NoSuper /\ fs'.super = logged'
        /\ pc' = "bitmap" => fs'.super.count * Bs' <= Len(disk'.host)
    BY <1>2, <1>8, <1>12, <2>2, <2>5, <2>6 DEF there, stray
  <2>8. /\ Len(fs'.rest) = Bs' - 1 /\ DOMAIN fs'.rest = 1..(Bs' - 1)
        /\ \A i \in DOMAIN fs'.rest : fs'.rest[i] # <<"behind">>
        /\ asked'.first \in {Default, Bs'}
        /\ dals'.journal.data # "" /\ dals'.journal.blocksize = Bs'
    BY <1>2, <1>9, <1>10, <2>2, <2>6
  <2>9. /\ fs'.opened /\ Relocated(dals.journal)' = disk'.host[at2][2].jr
        /\ made' # NoRequest => fs'.journal.len = made'.jlen
    BY <1>2, <1>9, <2>2, <2>6 DEF Relocated, there
  <2>10. ReadRight'
    <3>1. CASE pc' = "failed"
      BY <3>1 DEF ReadRight, Reading
    <3>2. CASE pc' = "bitmap"
      BY <2>7, <2>8, <2>9, <3>2 DEF ReadRight, Reread2, at2
    <3>3. QED
      BY <1>2, <3>1, <3>2
  <2>11. FoundAgain'
    BY <1>2, <2>2, <2>4 DEF FoundAgain
  <2>12. QED
    BY <1>4, <1>6, <2>10, <2>11 DEF IInv
<1>16. QED
  BY <1>14, <1>15

(* The bits that are read are those the filesystem was made with.          *)
LEMMA BitsRead ==
  ASSUME IInv, Reading, made # NoRequest, ~fs.stray, BitsReadable
  PROVE  fs.super.free = fs.super.count - Cardinality(FoundBits) /\ FoundBits # {}
<1> DEFINE there == disk.host[fs.off * Bs + 1][2]
           c == disk.host
           host == dals.host
           nrs == 0..(StoredNr - 1)
           Place(k) == BitmapPlace(fs.off, Bs, k) * Bs + 1
<1>1. /\ Bs \in Nat \ {0} /\ fs.off \in Nat /\ there.bs = Bs
      /\ fs.super.count = there.count /\ fs.super.free = there.free
      /\ host.data = "host" /\ host.blocksize = Bs
  BY ReadIs
<1>2. BitsLaid(c, fs.off, there)
  BY PlaceMade
<1> HIDE DEF there
<1>3. /\ there.free = there.count - Cardinality(UNION {c[Place(k)][2] : k \in nrs})
      /\ UNION {c[Place(k)][2] : k \in nrs} # {}
      /\ \A k \in nrs : c[Place(k)][1] = "bits" /\ Place(k) \in DOMAIN c
  BY <1>1, <1>2 DEF BitsLaid, StoredNr
<1>4. disk["host"] = c /\ DiskRight
  BY DiskIs DEF IInv
<1>5. \A k \in nrs : BitsUnit(k) = c[Place(k)]
  <2> SUFFICES ASSUME NEW k \in nrs  PROVE BitsUnit(k) = c[Place(k)]
    OBVIOUS
  <2>1. PICK nr : nr = BitmapAt(k)
    OBVIOUS
  <2>2. nr \in Nat
    <3>1. k \in Nat
      OBVIOUS
    <3>2. \A a, b, d \in Nat : a * b * d \in Nat
      OBVIOUS
    <3>3. k * Bs * BitsPerUnit \in Nat
      BY <1>1, <3>1, <3>2, PlacesAre
    <3>4. QED
      BY <1>1, <2>1, <3>3 DEF BitmapAt, BitmapPlace
  <2>3. There(host, nr)
    BY <2>1 DEF BitsReadable
  <2> HIDE DEF host
  <2>4. PICK bs : bs = Bs
    OBVIOUS
  <2>5. host.data = "host" /\ host.blocksize = bs /\ bs \in Nat \ {0}
    BY <1>1, <2>4
  <2>6. BlockRead(host, c, bs, nr)
    <3> HIDE DEF c
    <3>1. BlockRead(host, disk["host"], bs, nr)
      BY <1>4, <2>2, <2>5, BlockIsRead
    <3>2. QED
      BY <1>4, <3>1
  <2>7. BlockUnits(host, nr)[1] = c[nr * bs + 1]
    BY <2>3, <2>6 DEF BlockRead
  <2>8. QED
    BY <2>1, <2>4, <2>7 DEF BitsUnit, BitmapAt, host
<1>6. \A k \in nrs : BitsOf(k) = c[Place(k)][2]
  <2> SUFFICES ASSUME NEW k \in nrs  PROVE BitsOf(k) = c[Place(k)][2]
    OBVIOUS
  <2>1. BitsUnit(k) = c[Place(k)] /\ c[Place(k)][1] = "bits"
    BY <1>3, <1>5
  <2> HIDE DEF Place, c
  <2>2. QED
    BY <2>1 DEF BitsOf
<1>7. {BitsOf(k) : k \in nrs} = {c[Place(k)][2] : k \in nrs}
  <2> HIDE DEF nrs, Place, c
  <2>1. QED
    BY <1>6
<1>8. FoundBits = UNION {c[Place(k)][2] : k \in nrs}
  BY <1>7 DEF FoundBits
<1> HIDE DEF nrs, Place, c
<1>9. QED
  BY <1>1, <1>3, <1>8

(* A handle that is open has read the whole super block, the journal of the*)
(* filesystem and, when it is asked for, its bitmap.                       *)
LEMMA BitmapOpenPreserves ==
  ASSUME IInv, HandleIs, BitmapOpen
  PROVE  IInv'
<1>1. /\ pc = "bitmap" /\ UNCHANGED <<disk, dals, asked, logged, made>>
      /\ \/ pc' = "open" /\ ~asked.bitmap /\ UNCHANGED <<fs, unread>>
         \/ /\ pc' = "open" /\ UNCHANGED unread /\ fs' = [fs EXCEPT !.used = FoundBits]
            /\ BitsReadable
         \/ /\ pc' = "failed" /\ UNCHANGED <<fs, unread>> /\ BitsReadable
            /\ ~(fs.super.count # 0 /\ FoundBits # {})
         \/ pc' = "failed" /\ unread' /\ UNCHANGED fs
  BY DEF BitmapOpen
<1>2. asked.blocksize = 0 /\ asked.first # 0 /\ Reading
  BY <1>1 DEF IInv, AskedRight, Reading
<1>3. DiskRight' /\ HandlesRight' /\ AskedRight' /\ CreationRight'
  BY <1>1, <1>2 DEF IInv, DiskRight, HandlesRight, AskedRight, CreationRight
<1>4. unread' \in BOOLEAN /\ unread \in BOOLEAN
  BY <1>1 DEF IInv, TypeOK, BitmapOpen
<1>5. CASE pc' = "failed"
  <2>1. TypeOK' /\ OpenedWhole' /\ FreeRight'
    BY <1>3, <1>4, <1>5, NotOpen DEF Stages
  <2>2. ReadRight'
    BY <1>5 DEF ReadRight, Reading
  <2>3. FoundAgain'
    <3>1. ASSUME ~unread', made # NoRequest  PROVE fs.stray
      <4> SUFFICES ASSUME ~fs.stray  PROVE FALSE
        OBVIOUS
      <4>1. BitsReadable /\ ~(fs.super.count # 0 /\ FoundBits # {})
        BY <1>1, <1>5, <3>1
      <4>2. fs.super.count # 0
        BY <1>2, <3>1, ReadMade
      <4>3. FoundBits # {}
        BY <1>2, <3>1, <4>1, BitsRead
      <4>4. QED
        BY <4>1, <4>2, <4>3
    <3>2. UNCHANGED fs
      BY <1>1, <1>5
    <3>3. QED
      BY <1>1, <1>5, <3>1, <3>2 DEF FoundAgain
  <2>4. QED
    BY <1>3, <2>1, <2>2, <2>3 DEF IInv
<1>6. CASE pc' = "open"
  <2> DEFINE at == fs.off * Bs + 1
             there == disk.host[at][2]
  <2>1. /\ at \in DOMAIN disk.host /\ disk.host[at][1] = "super" /\ there.bs = Bs
        /\ there.count * Bs <= Len(disk.host) /\ fs.off \in Nat /\ there \in Supers
        /\ Bs \in Nat \ {0}
    BY <1>2, SuperIs DEF IInv, ReadRight
  <2>2. /\ fs.super # there /\ ~fs.stray => fs.opened /\ logged # NoSuper /\ fs.super = logged
        /\ fs.stray \in BOOLEAN
        /\ fs.stray => fs.opened /\ fs.super.count * Bs <= Len(disk.host)
        /\ Len(fs.rest) = Bs - 1 /\ DOMAIN fs.rest = 1..(Bs - 1)
        /\ Bs <= asked.first \/ fs.opened => \A i \in DOMAIN fs.rest : fs.rest[i] # <<"behind">>
        /\ asked.first \in {Default, Bs}
        /\ dals.journal.data # "" => dals.journal.blocksize = Bs
        /\ fs.opened \/ dals.journal.data = "" \/ there.tune
        /\ fs.opened => /\ dals.journal.data # "" /\ Relocated(dals.journal) = there.jr
                        /\ made # NoRequest => fs.journal.len = made.jlen
    BY <1>1, <1>2 DEF IInv, ReadRight, Reread2
  <2>12. ~fs.stray => fs.super.bs = Bs /\ fs.super.count = there.count
    BY <1>2, ReadIs
  <2>13. dals.host.data = "host" /\ dals.journal.data \in {"", "host", "other"}
    BY <1>2 DEF IInv, HandlesRight, Devices, Reading
  <2> HIDE DEF there, at
  <2>3. /\ fs'.super = fs.super /\ fs'.off = fs.off /\ fs'.rest = fs.rest
        /\ fs'.opened = fs.opened /\ fs'.journal = fs.journal /\ fs'.stray = fs.stray
    BY <1>1, <1>6 DEF HandleIs, Fields
  <2>4. Relocated(dals.journal)' = Relocated(dals.journal)
    BY <1>1 DEF Relocated
  <2> DEFINE at2 == fs'.off * Bs' + 1
  <2>5. at2 = at /\ Bs' = Bs
    BY <1>1, <2>3 DEF at, Bs
  <2> HIDE DEF at2
  <2>6. ReadRight'
    <3>1. /\ at2 \in DOMAIN disk'.host /\ disk'.host[at2][1] = "super"
          /\ disk'.host[at2][2].bs = Bs' /\ disk'.host[at2][2].count * Bs' <= Len(disk'.host)
          /\ fs'.off \in Nat /\ fs'.stray \in BOOLEAN
          /\ fs'.super # disk'.host[at2][2] /\ ~fs'.stray =>
               fs'.opened /\ logged' # NoSuper /\ fs'.super = logged'
          /\ fs'.stray => fs'.opened /\ fs'.super.count * Bs' <= Len(disk'.host)
          /\ fs'.opened \/ dals'.journal.data = "" \/ disk'.host[at2][2].tune
          /\ fs'.opened => dals'.journal.data # "" /\ Relocated(dals.journal)' = disk'.host[at2][2].jr
      BY <1>1, <2>1, <2>2, <2>3, <2>4, <2>5 DEF there
    <3>2. /\ Len(fs'.rest) = Bs' - 1 /\ DOMAIN fs'.rest = 1..(Bs' - 1)
          /\ Bs' <= asked'.first \/ fs'.opened => \A i \in DOMAIN fs'.rest : fs'.rest[i] # <<"behind">>
          /\ asked'.first \in {Default, Bs'}
          /\ dals'.journal.data # "" => dals'.journal.blocksize = Bs'
          /\ made' # NoRequest /\ fs'.opened => fs'.journal.len = made'.jlen
      BY <1>1, <2>2, <2>3, <2>5
    <3>3. QED
      BY <1>6, <3>1, <3>2 DEF ReadRight, Reread2, at2
  <2>7. TypeOK'
    <3>1. /\ Len(fs'.rest) = Bs' - 1 /\ (fs'.stray \/ fs'.super.bs = Bs')
          /\ fs'.super.count * Bs' <= Len(disk'.host)
      BY <1>1, <2>1, <2>2, <2>12, <2>3, <2>5
    <3>2. /\ DOMAIN (disk'.other) = 1..Len(disk'.other)
          /\ \A d \in {"host", "journal"} : PowOfTwo(dals'[d].blocksize)
      BY <1>1 DEF IInv, TypeOK
    <3>3. QED
      BY <1>4, <1>6, <3>1, <3>2 DEF TypeOK
  <2>8. OpenedWhole'
    <3> SUFFICES ASSUME fs'.opened \/ Bs' <= Default
                 PROVE  \A i \in DOMAIN fs'.rest : fs'.rest[i] # <<"behind">>
      BY DEF OpenedWhole
    <3>1. Bs <= asked.first \/ fs.opened
      <4>1. Bs \in Nat /\ asked.first \in {Default, Bs}
        BY <2>1, <2>2
      <4>2. fs.opened \/ Bs <= Default
        BY <2>3, <2>5
      <4>3. CASE asked.first = Default
        BY <4>2, <4>3
      <4>4. CASE asked.first = Bs
        BY <4>1, <4>4
      <4>5. QED
        BY <4>1, <4>3, <4>4
    <3>2. QED
      BY <2>2, <2>3, <3>1
  <2>9. FreeRight'
    <3> SUFFICES ASSUME made # NoRequest, asked.bitmap, ~fs.stray
                 PROVE  fs'.super.free = fs'.super.count - Cardinality(fs'.used)
      BY <1>1, <1>2, <2>3 DEF FreeRight, Opening
    <3>1. fs' = [fs EXCEPT !.used = FoundBits] /\ BitsReadable
      BY <1>1, <1>6
    <3>2. fs.super.free = fs.super.count - Cardinality(FoundBits)
      BY <1>2, <3>1, BitsRead
    <3>3. fs'.used = FoundBits
      BY <3>1 DEF HandleIs, Fields
    <3>4. QED
      BY <2>3, <3>2, <3>3
  <2>10. FoundAgain'
    <3> SUFFICES ASSUME made # NoRequest
                 PROVE  /\ RightJournal' /\ Bs' = made.blocksize
                        /\ fs'.opened => fs'.journal.len = made.jlen
                        /\ ~fs'.stray => fs'.super.count = made.len /\ fs'.super.jr = made.rel
      BY <1>1, <1>6 DEF FoundAgain
    <3>1. Bs = made.blocksize /\ there.jr = made.rel /\ ~there.tune
      BY <1>2, PlaceMade DEF there, at
    <3>2. ~fs.stray => fs.super.count = made.len /\ fs.super.jr = made.rel
      BY <1>2, ReadMade
    <3>3. RightJournal
      <4>1. there.jr \in BOOLEAN
        BY <2>1 DEF Supers
      <4>2. CASE dals.journal.data = ""
        BY <4>2 DEF RightJournal
      <4>3. CASE dals.journal.data # ""
        BY <2>13, <2>2, <3>1, <4>1, <4>3 DEF RightJournal, Relocated, Equals
      <4>4. QED
        BY <4>2, <4>3
    <3>4. RightJournal' = RightJournal
      BY <1>1 DEF RightJournal
    <3>5. QED
      BY <2>2, <2>3, <2>5, <3>1, <3>2, <3>3, <3>4
  <2>11. QED
    BY <1>3, <2>6, <2>7, <2>8, <2>9, <2>10 DEF IInv
<1>7. QED
  BY <1>1, <1>5, <1>6

-----------------------------------------------------------------------------
(* The kernel.                                                             *)
LEMMA KernelMountPreserves ==
  ASSUME IInv, KernelMount
  PROVE  IInv'
<1>1. /\ pc = "idle" /\ logged' = [Stored EXCEPT !.clean = FALSE]
      /\ UNCHANGED <<disk, dals, pc, fs, asked, made, unread>>
  BY DEF KernelMount
<1>2. asked' = NoRequest /\ pc' = "idle"
  BY <1>1 DEF IInv, AskedRight
<1>3. \A i \in DOMAIN disk.host : disk.host[i][1] = "super" => Stored = disk.host[i][2]
  BY SuperAtIs DEF IInv, Stored
<1>4. DiskRight'
  BY <1>1, <1>3 DEF IInv, DiskRight
<1>5. HandlesRight' /\ unread' \in BOOLEAN
  BY <1>1 DEF IInv, HandlesRight, TypeOK
<1>6. TypeOK' /\ OpenedWhole' /\ FreeRight'
  BY <1>2, <1>4, <1>5, NotOpen DEF Stages
<1>7. AskedRight' /\ CreationRight' /\ ReadRight' /\ FoundAgain'
  BY <1>2, IdleRight
<1>8. QED
  BY <1>4, <1>5, <1>6, <1>7 DEF IInv

(* Marking the super block leaves the filesystem where it is.              *)
LEMMA MarkedSuper ==
  ASSUME DiskRight, NEW i \in DOMAIN disk.host, disk.host[i][1] = "super", NEW new,
         NEW marked \in BOOLEAN,
         new = [disk.host EXCEPT ![i] = <<"super", [disk.host[i][2] EXCEPT !.clean = marked]>>],
         NEW request, NEW place \in SuperPlaces
  PROVE  /\ Sequence(new) /\ SupersSound(new)
         /\ Laid(disk, request, place) => Laid([host |-> new, other |-> disk.other], request, place)
<1> DEFINE old == disk.host
           there == old[i][2]
           super == [there EXCEPT !.clean = marked]
<1>1. /\ Sequence(old) /\ Len(old) \in Nat /\ DOMAIN old = 1..Len(old) /\ SupersSound(old)
      /\ disk["host"] = old /\ disk["other"] = disk.other
  BY DiskIs DEF DiskRight
<1>2. /\ i \in Nat /\ there \in Supers /\ old[i] = <<"super", there>>
      /\ PowOfTwo(there.bs) /\ (i - 1) % there.bs = 0 /\ i - 1 + there.bs <= Len(old)
      /\ i - 1 \in SuperPlaces
      /\ \A j \in DOMAIN old : old[j][1] = "super" => j = i
  BY <1>1, SuperIs DEF SupersSound
<1> HIDE DEF there
<1>3. /\ super \in Supers /\ super.jr = there.jr /\ super.count = there.count
      /\ super.bs = there.bs /\ super.free = there.free /\ super.jp = there.jp
      /\ super.tune = there.tune
  BY <1>2 DEF Supers
<1>4. new = [old EXCEPT ![i] = <<"super", super>>]
  BY DEF there
<1> HIDE DEF super, old
<1>5. /\ DOMAIN new = DOMAIN old /\ new[i] = <<"super", super>>
      /\ \A j \in DOMAIN old : j # i => new[j] = old[j]
  BY <1>4, i \in DOMAIN old DEF old
<1>6. Sequence(new) /\ Len(new) = Len(old)
  <2>1. new = [j \in 1..Len(old) |-> new[j]]
    BY <1>1, <1>4
  <2>2. QED
    BY <1>1, <2>1, MakeSequence, SMTT(40)
<1>7. new[i][1] = "super" /\ new[i][2] = super
  BY <1>5, TagsAre
<1>8. \A j \in DOMAIN new : new[j][1] # "behind" /\ (new[j][1] = "super" => j = i)
  BY <1>1, <1>2, <1>5, <1>7 DEF SupersSound
<1>9. SupersSound(new)
  BY <1>2, <1>3, <1>5, <1>6, <1>7, <1>8 DEF SupersSound
<1> DEFINE content == [host |-> new, other |-> disk.other]
<1>10. ASSUME Laid(disk, request, place)
       PROVE  Laid(content, request, place)
  <2>1. /\ place + Default <= Len(old) /\ old[place + 1][1] = "super"
        /\ old[place + 1][2].jr = request.rel /\ old[place + 1][2].count = request.len
        /\ old[place + 1][2].bs = request.blocksize /\ old[place + 1][2].jp.len = request.jlen
        /\ old[place + 1][2].count # 0 /\ ~old[place + 1][2].tune
        /\ old[place + 1][2].count * old[place + 1][2].bs <= Len(old)
        /\ HeadLaid(disk[IF old[place + 1][2].jr THEN "other" ELSE "host"], old[place + 1][2])
        /\ BitsLaid(old, place \div old[place + 1][2].bs, old[place + 1][2])
    BY <1>10 DEF Laid, old
  <2>2. place + 1 = i
    <3>1. place + 1 \in DOMAIN old
      BY <1>1, <2>1, PlacesAre, SMTT(40)
    <3>2. QED
      BY <1>2, <2>1, <3>1
  <2>3. /\ there.jr = request.rel /\ there.count = request.len
        /\ there.bs = request.blocksize /\ there.jp.len = request.jlen
        /\ there.count # 0 /\ ~there.tune
        /\ there.count * there.bs <= Len(old)
        /\ HeadLaid(disk[IF there.jr THEN "other" ELSE "host"], there)
        /\ BitsLaid(old, place \div there.bs, there)
    BY <2>1, <2>2 DEF there, old
  <2>4. HeadLaid(content[IF super.jr THEN "other" ELSE "host"], super)
    <3> DEFINE at == there.jp.start + there.jp.len
    <3>1. CASE there.jr
      <4>1. HeadLaid(disk.other, there)
        BY <1>1, <2>3, <3>1
      <4>2. HeadLaid(disk.other, super)
        BY <1>3, <4>1 DEF HeadLaid
      <4>3. QED
        BY <1>3, <3>1, <4>2
    <3>2. CASE ~there.jr
      <4>1. HeadLaid(old, there)
        BY <1>1, <2>3, <3>2
      <4>2. PICK b : b = (at + 1) * there.bs
        OBVIOUS
      <4>3. PICK p : p = at * there.bs
        OBVIOUS
      <4>4. b <= Len(old) /\ old[p + 1][1] = "head"
        BY <4>1, <4>2, <4>3 DEF HeadLaid
      <4>5. p \in Nat /\ b = p + there.bs /\ there.bs \in Nat \ {0}
        <5>1. at \in Nat /\ there.bs \in Nat \ {0}
          BY <1>2 DEF Supers
        <5>2. \A x, y \in Nat : x * y \in Nat /\ (x + 1) * y = x * y + y
          OBVIOUS
        <5> HIDE DEF at
        <5>3. QED
          BY <4>2, <4>3, <5>1, <5>2
      <4>6. p + 1 \in DOMAIN old
        BY <1>1, <4>4, <4>5
      <4>7. new[p + 1] = old[p + 1]
        BY <1>2, <1>5, <4>4, <4>6, TagsAre
      <4>8. HeadLaid(new, there)
        BY <1>6, <4>1, <4>3, <4>7 DEF HeadLaid
      <4>9. HeadLaid(new, super)
        BY <1>3, <4>8 DEF HeadLaid
      <4>10. QED
        BY <1>3, <3>2, <4>9
    <3>3. QED
      BY <3>1, <3>2
  <2>5. BitsLaid(new, place \div super.bs, super)
    <3>1. PICK off : off = place \div there.bs
      OBVIOUS
    <3> DEFINE Place(k) == BitmapPlace(off, there.bs, k) * there.bs + 1
               nrs == 0..(BitmapBlocks(there.count, there.bs) - 1)
    <3>2. /\ \A k \in nrs : Place(k) \in DOMAIN old /\ old[Place(k)][1] = "bits"
          /\ there.free = there.count - Cardinality(UNION {old[Place(k)][2] : k \in nrs})
          /\ UNION {old[Place(k)][2] : k \in nrs} # {}
      BY <2>3, <3>1 DEF BitsLaid
    <3> HIDE DEF Place, nrs
    <3>3. \A k \in nrs : Place(k) # i
      BY <1>2, <3>2, TagsAre
    <3>4. \A k \in nrs : new[Place(k)] = old[Place(k)]
      BY <1>5, <3>2, <3>3
    <3>5. {new[Place(k)][2] : k \in nrs} = {old[Place(k)][2] : k \in nrs}
      BY <3>4
    <3>6. /\ \A k \in nrs : Place(k) \in DOMAIN new /\ new[Place(k)][1] = "bits"
          /\ there.free = there.count - Cardinality(UNION {new[Place(k)][2] : k \in nrs})
          /\ UNION {new[Place(k)][2] : k \in nrs} # {}
      BY <1>5, <3>2, <3>4, <3>5
    <3>7. BitsLaid(new, off, there)
      BY <3>6 DEF BitsLaid, Place, nrs
    <3>8. BitsLaid(new, off, super)
      BY <1>3, <3>7 DEF BitsLaid
    <3>9. QED
      BY <1>3, <3>1, <3>8
  <2>6. /\ content.host = new /\ new[place + 1][1] = "super" /\ new[place + 1][2] = super
        /\ place + Default <= Len(new)
    BY <1>6, <1>7, <2>1, <2>2
  <2>7. /\ super.jr = request.rel /\ super.count = request.len
        /\ super.bs = request.blocksize /\ super.jp.len = request.jlen
        /\ super.count # 0 /\ ~super.tune
        /\ super.count * super.bs <= Len(new)
    BY <1>3, <1>6, <2>3
  <2> HIDE DEF content
  <2>8. QED
    BY <2>4, <2>5, <2>6, <2>7 DEF Laid
<1>11. QED
  BY <1>6, <1>9, <1>10

(* KernelFlush keeps the invariant.                                        *)
LEMMA KernelFlushPreserves ==
  ASSUME IInv, KernelFlush
  PROVE  IInv'
<1>1. /\ pc = "idle" /\ made # NoRequest /\ logged # NoSuper /\ logged' = NoSuper
      /\ UNCHANGED <<dals, pc, fs, asked, made, unread>>
      /\ \/ disk' = [disk EXCEPT !.host[SuperAt] = <<"super", logged>>]
         \/ disk' = [disk EXCEPT !.host[SuperAt] = <<"super", [logged EXCEPT !.clean = TRUE]>>]
  BY DEF KernelFlush
<1>2. asked' = NoRequest /\ pc' = "idle"
  BY <1>1 DEF IInv, AskedRight
<1>3. PICK place \in SuperPlaces : Laid(disk, made, place)
  BY <1>1 DEF IInv, DiskRight
<1>4. PICK i \in DOMAIN disk.host : disk.host[i][1] = "super"
  <2>1. place + 1 \in DOMAIN disk.host
    <3>1. place \in Nat /\ Default \in Nat \ {0} /\ place + Default <= Len(disk.host)
      BY <1>3, PlacesAre DEF Laid
    <3>2. DOMAIN disk.host = 1..Len(disk.host) /\ Len(disk.host) \in Nat
      BY DiskIs DEF IInv
    <3>3. QED
      BY <3>1, <3>2
  <2>2. disk.host[place + 1][1] = "super"
    BY <1>3 DEF Laid
  <2>3. QED
    BY <2>1, <2>2
<1> DEFINE there == disk.host[i][2]
<1>5. SuperAt = i /\ logged = [there EXCEPT !.clean = FALSE] /\ there \in Supers
  BY <1>1, <1>4, SuperAtIs, SuperIs DEF IInv, DiskRight
<1>6. PICK marked \in BOOLEAN :
        disk' = [disk EXCEPT !.host[i] = <<"super", [there EXCEPT !.clean = marked]>>]
  <2> HIDE DEF there
  <2>1. [logged EXCEPT !.clean = TRUE] = [there EXCEPT !.clean = TRUE]
    BY <1>5 DEF Supers
  <2>2. QED
    BY <1>1, <1>5, <2>1
<1> DEFINE new == [disk.host EXCEPT ![i] = <<"super", [there EXCEPT !.clean = marked]>>]
<1>7. /\ Sequence(new) /\ SupersSound(new)
      /\ Laid(disk, made, place) => Laid([host |-> new, other |-> disk.other], made, place)
  BY <1>4, MarkedSuper DEF IInv
<1>8. disk = [host |-> disk.host, other |-> disk.other] /\ Sequence(disk.other)
  BY DEF IInv, DiskRight
<1>9. disk' = [host |-> new, other |-> disk.other]
  BY <1>6, <1>8
<1> HIDE DEF new
<1>10. DiskRight'
  <2>1. disk'.host = new /\ disk'.other = disk.other
    BY <1>9
  <2>2. Laid(disk', made', place)
    BY <1>1, <1>3, <1>7, <1>9
  <2>3. disk' = [host |-> disk'.host, other |-> disk'.other]
    BY <1>9, <2>1
  <2>4. QED
    BY <1>1, <1>7, <1>8, <2>1, <2>2, <2>3 DEF DiskRight
<1>11. HandlesRight' /\ unread' \in BOOLEAN
  BY <1>1 DEF IInv, HandlesRight, TypeOK
<1>12. TypeOK' /\ OpenedWhole' /\ FreeRight'
  BY <1>2, <1>10, <1>11, NotOpen DEF Stages
<1>13. AskedRight' /\ CreationRight' /\ ReadRight' /\ FoundAgain'
  BY <1>2, IdleRight
<1>14. QED
  BY <1>10, <1>11, <1>12, <1>13 DEF IInv

-----------------------------------------------------------------------------
(* Nothing happens to what the invariant is about.                         *)
LEMMA StutterPreserves ==
  ASSUME IInv, UNCHANGED vars
  PROVE  IInv'
<1>1. UNCHANGED <<disk, dals, pc, fs, asked, logged, made, unread>>
  BY DEF vars
<1>2. DiskRight' /\ HandlesRight' /\ AskedRight'
  BY <1>1 DEF IInv, DiskRight, HandlesRight, AskedRight
<1>3. CreationRight'
  <2>1. /\ OwnBits' = OwnBits /\ Taken' = Taken /\ JournalBlocks' = JournalBlocks
        /\ JournalStart' = JournalStart /\ NewParams' = NewParams /\ NewFree' = NewFree
        /\ SuperBlk' = SuperBlk /\ (Checked <=> Checked')
        /\ CreateCheck(asked) <=> (CreateCheck(asked))'
    BY <1>1 DEF OwnBits, Taken, JournalBlocks, JournalStart, NewParams, NewFree, SuperBlk,
                BitmapNr, Checked, ParamsCheck, Content, CreateCheck, TreeStart
  <2>2. QED
    BY <1>1, <2>1 DEF IInv, CreationRight
<1>4. ReadRight'
  <2>1. /\ Relocated(dals.journal)' = Relocated(dals.journal)
        /\ MayOpen' = MayOpen /\ Bs' = Bs
    BY <1>1 DEF Relocated, MayOpen, Bs
  <2>2. QED
    BY <1>1, <2>1 DEF IInv, ReadRight, Reading, Reread2
<1>5. TypeOK' /\ OpenedWhole' /\ FreeRight'
  BY <1>1 DEF IInv, TypeOK, OpenedWhole, FreeRight, Opening, Bs
<1>6. FoundAgain'
  <2>1. RightJournal' = RightJournal /\ Stored' = Stored /\ Bs' = Bs
    BY <1>1 DEF RightJournal, Stored, SuperAt, Bs
  <2>2. QED
    BY <1>1, <2>1 DEF IInv, FoundAgain, Opening
<1>7. QED
  BY <1>2, <1>3, <1>4, <1>5, <1>6 DEF IInv

(* Every step of Next keeps the invariant.                                 *)
THEOREM StepIsSound ==
  ASSUME IInv, HandleIs, [Next]_vars
  PROVE  IInv' /\ HandleIs'
<1>1. HandleIs'
  BY HandleStays
<1>2. CASE \E r \in Requests : OpenToCreate(r)
  BY <1>1, <1>2, OpenToCreatePreserves
<1>3. CASE Create
  <2>1. CASE BitmapCreate
    BY <1>1, <2>1, BitmapCreatePreserves
  <2>2. CASE SuperCreate \/ ClobberFails
    BY <1>1, <2>2, SuperCreatePreserves, ClobberFailsPreserves
  <2>3. CASE JournalCreate \/ JournalFails
    BY <1>1, <2>3, JournalCreatePreserves, JournalFailsPreserves
  <2>4. CASE TreeCreate \/ TreeFails
    BY <1>1, <2>4, TreeCreatePreserves, TreeFailsPreserves
  <2>5. CASE CreateSync \/ SyncFails
    BY <1>1, <2>5, CreateSyncPreserves, SyncFailsPreserves
  <2>6. QED
    BY <1>3, <2>1, <2>2, <2>3, <2>4, <2>5 DEF Create
<1>4. CASE Open
  <2>1. CASE OpenDevices \/ SuperOpen \/ Check
    BY <1>1, <2>1, OpenDevicesPreserves, SuperOpenPreserves, CheckPreserves
  <2>2. CASE JournalOpen \/ SuperReopen \/ BitmapOpen
    BY <1>1, <2>2, JournalOpenPreserves, SuperReopenPreserves, BitmapOpenPreserves
  <2>3. QED
    BY <1>4, <2>1, <2>2 DEF Open
<1>5. CASE Close
  BY <1>1, <1>5, ClosePreserves
<1>6. CASE Probe
  BY <1>1, <1>6, ProbePreserves
<1>7. CASE FsClobber
  BY <1>1, <1>7, FsClobberPreserves
<1>8. CASE KernelMount
  BY <1>1, <1>8, KernelMountPreserves
<1>9. CASE KernelFlush
  BY <1>1, <1>9, KernelFlushPreserves
<1>10. CASE UNCHANGED vars
  BY <1>1, <1>10, StutterPreserves
<1>11. QED
  BY <1>2, <1>3, <1>4, <1>5, <1>6, <1>7, <1>8, <1>9, <1>10 DEF Next

(* The invariant holds in every state, for devices of every size.          *)
THEOREM Sound == Spec => [](IInv /\ HandleIs)
<1>1. Init => IInv /\ HandleIs
  BY InitIsSound, NoHandleIs DEF Init, HandleIs
<1>2. IInv /\ HandleIs /\ [Next]_vars => (IInv /\ HandleIs)'
  BY StepIsSound
<1>3. QED
  BY <1>1, <1>2, PTL DEF Spec

(* What is opened lies inside its device and was read whole.               *)
THEOREM InvHolds == Spec => []Inv
<1>1. IInv => Inv
  BY DEF IInv, Inv
<1>2. QED
  BY <1>1, Sound, PTL

(* The free blocks are those the bitmap has not taken.                     *)
THEOREM FreeRightHolds == Spec => []FreeRight
<1>1. IInv => FreeRight
  BY DEF IInv
<1>2. QED
  BY <1>1, Sound, PTL

(* A filesystem that was created is found from the default block size on.  *)
THEOREM FoundAgainHolds == Spec => []FoundAgain
<1>1. IInv => FoundAgain
  BY DEF IInv
<1>2. QED
  BY <1>1, Sound, PTL

(* When a creation writes its super block the root and the journal are     *)
(* there.                                                                  *)
LEMMA NewIsBacked ==
  ASSUME IInv, pc = "sync"
  PROVE  Backed(disk, asked.blocksize, fs.super)
<1>1. asked.blocksize # 0
  BY DEF IInv, AskedRight
<1>2. /\ fs.super.jr = asked.rel /\ fs.super.jp = NewParams
      /\ disk.host[fs.super.root * asked.blocksize + 1] = EmptyRoot
      /\ disk[dals.journal.data][(JournalStart + asked.jlen) * asked.blocksize + 1]
           = <<"head", NewParams>>
  BY DEF IInv, CreationRight
<1>3. dals.journal.data = IF asked.rel THEN "other" ELSE "host"
  BY <1>1, RequestKept
<1>4. NewParams.start = JournalStart /\ NewParams.len = asked.jlen
  BY <1>1, NewParamsIs
<1> DEFINE at == (JournalStart + asked.jlen) * asked.blocksize + 1
<1>5. (fs.super.jp.start + fs.super.jp.len) * asked.blocksize + 1 = at
  BY <1>2, <1>4
<1>6. disk[IF fs.super.jr THEN "other" ELSE "host"][at] = <<"head", fs.super.jp>>
  BY <1>2, <1>3
<1> HIDE DEF at
<1>7. QED
  BY <1>2, <1>5, <1>6 DEF Backed

(* The unit a step leaves at the place of a new super block is no other    *)
(* super block than before, or that of a creation that is being stored.    *)
LEMMA UnitWritten ==
  ASSUME IInv, HandleIs, [Next]_vars, asked.blocksize # 0,
         disk'.host[SuperOffset + 1] # disk.host[SuperOffset + 1],
         disk'.host[SuperOffset + 1][1] = "super"
  PROVE  pc = "sync" /\ disk'.host[SuperOffset + 1][2] = fs.super
<1> DEFINE i == SuperOffset + 1
<1>1. pc \notin {"idle", "devices"}
  BY NoRequestIs DEF IInv, AskedRight
<1>2. disk' # disk
  OBVIOUS
<1>3. \/ SuperCreate \/ ClobberFails \/ JournalCreate \/ JournalFails \/ TreeCreate
      \/ CreateSync \/ SyncFails
  BY <1>1, <1>2 DEF Next, Create, Open, vars, OpenToCreate, BitmapCreate, TreeFails, OpenDevices,
                    SuperOpen, Check, JournalOpen, SuperReopen, BitmapOpen, Close, Probe,
                    FsClobber, KernelMount, KernelFlush
<1>4. pc \in {"clobber", "journal", "tree", "sync"}
  BY <1>3 DEF SuperCreate, ClobberFails, JournalCreate, JournalFails, TreeCreate, CreateSync,
              SyncFails
<1>5. i \in DOMAIN disk.host
  <2>1. CreateCheck(asked) /\ pc # "failed"
    BY <1>4 DEF IInv, CreationRight
  <2>2. /\ asked.len * asked.blocksize <= Len(disk.host) /\ asked.len \in Nat
        /\ asked.len > SuperBlk + 2 + (IF asked.rel THEN 0 ELSE asked.jlen + 1) + MinTree
    BY <2>1, CheckedLength
  <2>3. /\ SuperBlk \in Nat /\ SuperBlk * asked.blocksize = SuperOffset
        /\ asked.blocksize \in Nat \ {0} /\ asked.jlen \in Nat
    BY RequestKept
  <2>4. SuperBlk < asked.len
    BY <2>2, <2>3, PlacesAre
  <2>5. SuperOffset + asked.blocksize <= asked.len * asked.blocksize
    BY <2>2, <2>3, <2>4, BlocksApart
  <2>6. DOMAIN disk.host = 1..Len(disk.host) /\ Len(disk.host) \in Nat
    BY DiskIs DEF IInv
  <2>7. PICK n : n = asked.len * asked.blocksize
    OBVIOUS
  <2>8. n \in Nat
    <3>1. \A a, b \in Nat : a * b \in Nat
      OBVIOUS
    <3>2. QED
      BY <2>2, <2>3, <2>7, <3>1
  <2>9. SuperOffset + asked.blocksize <= n /\ n <= Len(disk.host)
    BY <2>2, <2>5, <2>7
  <2>10. QED
    BY <2>3, <2>6, <2>8, <2>9, PlacesAre
<1>6. ~SupersLeft
  BY <1>5 DEF SupersLeft
<1>7. CreateSync \/ SyncFails
  BY <1>3, <1>6, SuperCreatePreserves, ClobberFailsPreserves, JournalCreatePreserves,
     JournalFailsPreserves, TreeCreatePreserves
<1>8. pc = "sync"
  BY <1>7 DEF CreateSync, SyncFails
<1> DEFINE mid == StoredSuper(disk.host)
<1>9. /\ Sequence(mid) /\ Len(mid) = Len(disk.host) /\ DOMAIN mid = DOMAIN disk.host
      /\ mid[i] = <<"super", fs.super>>
  BY <1>8, StoredSuperIs
<1>10. disk'.host = mid \/ disk'.host = StoredBits(mid)
  <2>1. "host" \in DOMAIN disk
    BY DiskIs DEF IInv
  <2>2. disk' = disk \/ disk' = [disk EXCEPT !.host = mid] \/ disk' = [disk EXCEPT !.host = StoredBits(mid)]
    BY <1>7 DEF CreateSync, SyncFails
  <2>3. QED
    BY <1>2, <2>1, <2>2
<1> HIDE DEF mid
<1>11. StoredBits(mid)[i] = mid[i] \/ StoredBits(mid)[i][1] \in {"bits", "more"}
  BY <1>5, <1>8, <1>9, StoredBitsIs
<1>12. disk'.host[i] = mid[i]
  BY <1>10, <1>11
<1>13. QED
  BY <1>8, <1>9, <1>12, TagsAre

(* A creation stores its super block after the root and the journal.       *)
THEOREM SuperIsLastHolds == Spec => SuperIsLast
<1>1. ASSUME IInv, HandleIs, [Next]_vars
      PROVE  LET unit == disk'.host[SuperOffset + 1]
             IN  asked.blocksize # 0 /\ unit # disk.host[SuperOffset + 1] /\ unit[1] = "super" =>
                   Backed(disk, asked.blocksize, unit[2])
  BY <1>1, UnitWritten, NewIsBacked
<1>2. QED
  BY <1>1, Sound, PTL DEF Spec, SuperIsLast
=============================================================================
