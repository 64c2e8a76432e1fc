--------------------------- MODULE FsHandleProofs ---------------------------
(***************************************************************************)
(* Proofs about FsHandle for all lengths and any number of calls.          *)
(*                                                                         *)
(* The first part gives each of the sequences of steps that the calls      *)
(* leave to do a name, and tells what their first steps and their tails    *)
(* are; the second one then reasons about the names alone.                 *)
(***************************************************************************)
EXTENDS FsHandle, TLAPS, SequenceTheorems

(* Names for the steps: a sequence of them is then one of a few constants. *)
Mark == "corrupted"
Unmark == "consistent"
Move == "relocate"
FillTree == "fill in"
Plant == "plant tree"
Bits == "resize bitmap"
Length == "set length"
Drop == "close journal"
Wipe == "fill journal"
Header == "write header"
Use == "use area"
Reserve == "reserve area"
Renew == "new parameters"
Taint == "mark all"
PutSuper == "sync super"
PutBitmap == "sync bitmap"
PutJournal == "sync journal"
Done == "created"
Free == "release"

(* What is left to do of each call, from its beginning to its last step.   *)
Nothing     == <<>>
GrowBegin   == <<Mark, Bits, Length, Unmark>>
ShrinkBegin == <<Mark, Move, Bits, Length, Unmark>>
ShrinkMove  == <<Move, Bits, Length, Unmark>>
ResizeBits  == <<Bits, Length, Unmark>>
ResizeEnd   == <<Length, Unmark>>
UnmarkOnly  == <<Unmark>>

CopyBegin == <<Mark, FillTree, Unmark>>
CopyFill  == <<FillTree, Unmark>>

HostBeginMove == <<Mark, Move, Drop, Wipe, Header, Use, Unmark, Unmark, Taint>>
HostMove   == <<Move, Drop, Wipe, Header, Use, Unmark, Unmark, Taint>>
HostBegin  == <<Mark, Drop, Wipe, Header, Use, Unmark, Unmark, Taint>>
HostDrop   == <<Drop, Wipe, Header, Use, Unmark, Unmark, Taint>>
HostWipe   == <<Wipe, Header, Use, Unmark, Unmark, Taint>>
HostHeader == <<Header, Use, Unmark, Unmark, Taint>>
HostUse    == <<Use, Unmark, Unmark, Taint>>
HostEnd    == <<Unmark, Unmark, Taint>>

AwayBegin   == <<Mark, Drop, Wipe, Header, Reserve, Unmark, Taint>>
AwayDrop    == <<Drop, Wipe, Header, Reserve, Unmark, Taint>>
AwayWipe    == <<Wipe, Header, Reserve, Unmark, Taint>>
AwayHeader  == <<Header, Reserve, Unmark, Taint>>
AwayReserve == <<Reserve, Unmark, Taint>>

AnewBegin  == <<Mark, Drop, Wipe, Header, Unmark, Taint>>
AnewDrop   == <<Drop, Wipe, Header, Unmark, Taint>>
AnewWipe   == <<Wipe, Header, Unmark, Taint>>
AnewHeader == <<Header, Unmark, Taint>>

RenewBegin == <<Mark, Renew, Unmark, Taint>>
RenewSet   == <<Renew, Unmark, Taint>>
SameBegin  == <<Mark, Unmark, Taint>>

TuneEnd   == <<Unmark, Taint>>
TaintOnly == <<Taint>>

MakeWipe   == <<Wipe, Header, Plant, PutSuper, PutBitmap, Done>>
MakeHeader == <<Header, Plant, PutSuper, PutBitmap, Done>>
MakePlant  == <<Plant, PutSuper, PutBitmap, Done>>
MakeSuper  == <<PutSuper, PutBitmap, Done>>
MakeBitmap == <<PutBitmap, Done>>
MakeDone   == <<Done>>

Begins == {GrowBegin, ShrinkBegin, CopyBegin, HostBeginMove, HostBegin, AwayBegin,
           AnewBegin, RenewBegin, SameBegin}
Middles == {ShrinkMove, ResizeBits, ResizeEnd, UnmarkOnly, CopyFill, HostMove, HostDrop,
            HostWipe, HostHeader, HostUse, HostEnd, AwayDrop, AwayWipe, AwayHeader,
            AwayReserve, AnewDrop, AnewWipe, AnewHeader, RenewSet}
Makes == {MakeWipe, MakeHeader, MakePlant, MakeSuper, MakeBitmap, MakeDone}

Resizes == {GrowBegin, ShrinkBegin, ShrinkMove, ResizeBits, ResizeEnd}
Hosts == {HostBeginMove, HostMove, HostBegin, HostDrop, HostWipe, HostHeader}
Aways == {AwayBegin, AwayDrop, AwayWipe, AwayHeader}
Anews == {AnewBegin, AnewDrop, AnewWipe, AnewHeader}
Renews == {RenewBegin, RenewSet}

(* Plans whose remaining steps leave the journal alone, and those on whose *)
(* way the journal's area is not yet what the super block says.            *)
Keeps == {ShrinkMove, ResizeBits, ResizeEnd, UnmarkOnly, CopyFill}
Shifted == {HostMove, HostDrop, HostWipe, HostHeader, HostUse,
            AwayDrop, AwayWipe, AwayHeader, AwayReserve}

-----------------------------------------------------------------------------
(* Sequences of a few elements: their tails, and how they are put together. *)
LEMMA Tails ==
  /\ \A a : Tail(<<a>>) = <<>>
  /\ \A a, b : Tail(<<a, b>>) = <<b>>
  /\ \A a, b, c : Tail(<<a, b, c>>) = <<b, c>>
  /\ \A a, b, c, d : Tail(<<a, b, c, d>>) = <<b, c, d>>
  /\ \A a, b, c, d, e : Tail(<<a, b, c, d, e>>) = <<b, c, d, e>>
  /\ \A a, b, c, d, e, f : Tail(<<a, b, c, d, e, f>>) = <<b, c, d, e, f>>
OBVIOUS

(* The same for seven, eight and nine elements.                            *)
LEMMA LongTails ==
  /\ \A a, b, c, d, e, f, g : Tail(<<a, b, c, d, e, f, g>>) = <<b, c, d, e, f, g>>
  /\ \A a, b, c, d, e, f, g, h :
       Tail(<<a, b, c, d, e, f, g, h>>) = <<b, c, d, e, f, g, h>>
  /\ \A a, b, c, d, e, f, g, h, i :
       Tail(<<a, b, c, d, e, f, g, h, i>>) = <<b, c, d, e, f, g, h, i>>
OBVIOUS

(* A plan's first step, what is left after it, its length and last step:   *)
(* no two plans have the same.                                             *)
First(p) == Head(p)
Rest(p) == Tail(p)
Size(p) == Len(p)
Ending(p) == p[Len(p)]
Shape(p, h, t, n, l) == First(p) = h /\ Rest(p) = t /\ Size(p) = n /\ Ending(p) = l

(* The empty plan has no steps.                                            *)
LEMMA NothingLeft == Size(Nothing) = 0
BY DEF Size, Nothing

(* The plans of resize_fs, and of copying a tree into the filesystem.      *)
LEMMA ResizeShapes ==
  /\ Shape(GrowBegin, Mark, ResizeBits, 4, Unmark)
  /\ Shape(ShrinkBegin, Mark, ShrinkMove, 5, Unmark)
  /\ Shape(ShrinkMove, Move, ResizeBits, 4, Unmark)
  /\ Shape(ResizeBits, Bits, ResizeEnd, 3, Unmark)
  /\ Shape(ResizeEnd, Length, UnmarkOnly, 2, Unmark)
  /\ Shape(UnmarkOnly, Unmark, Nothing, 1, Unmark)
  /\ Shape(CopyBegin, Mark, CopyFill, 3, Unmark)
  /\ Shape(CopyFill, FillTree, UnmarkOnly, 2, Unmark)
BY Tails, LongTails DEF Shape, First, Rest, Size, Ending, Nothing, GrowBegin,
   ShrinkBegin, ShrinkMove, ResizeBits, ResizeEnd, UnmarkOnly, CopyBegin,
   CopyFill

(* Tuning a journal that moves onto the filesystem's own device.           *)
LEMMA HostShapes ==
  /\ Shape(HostBeginMove, Mark, HostMove, 9, Taint)
  /\ Shape(HostMove, Move, HostDrop, 8, Taint)
  /\ Shape(HostBegin, Mark, HostDrop, 8, Taint)
  /\ Shape(HostDrop, Drop, HostWipe, 7, Taint)
  /\ Shape(HostWipe, Wipe, HostHeader, 6, Taint)
  /\ Shape(HostHeader, Header, HostUse, 5, Taint)
  /\ Shape(HostUse, Use, HostEnd, 4, Taint)
  /\ Shape(HostEnd, Unmark, TuneEnd, 3, Taint)
BY Tails, LongTails DEF Shape, First, Rest, Size, Ending, Nothing, HostBeginMove,
   HostMove, HostBegin, HostDrop, HostWipe, HostHeader, HostUse, HostEnd,
   TuneEnd

(* Tuning a journal that moves away to another device.                     *)
LEMMA AwayShapes ==
  /\ Shape(AwayBegin, Mark, AwayDrop, 7, Taint)
  /\ Shape(AwayDrop, Drop, AwayWipe, 6, Taint)
  /\ Shape(AwayWipe, Wipe, AwayHeader, 5, Taint)
  /\ Shape(AwayHeader, Header, AwayReserve, 4, Taint)
  /\ Shape(AwayReserve, Reserve, TuneEnd, 3, Taint)
BY Tails, LongTails DEF Shape, First, Rest, Size, Ending, Nothing, AwayBegin, AwayDrop,
   AwayWipe, AwayHeader, AwayReserve, TuneEnd

(* Tuning a journal where it stays: on another device, here, or as it was. *)
LEMMA AnewShapes ==
  /\ Shape(AnewBegin, Mark, AnewDrop, 6, Taint)
  /\ Shape(AnewDrop, Drop, AnewWipe, 5, Taint)
  /\ Shape(AnewWipe, Wipe, AnewHeader, 4, Taint)
  /\ Shape(AnewHeader, Header, TuneEnd, 3, Taint)
  /\ Shape(RenewBegin, Mark, RenewSet, 4, Taint)
  /\ Shape(RenewSet, Renew, TuneEnd, 3, Taint)
  /\ Shape(SameBegin, Mark, TuneEnd, 3, Taint)
BY Tails, LongTails DEF Shape, First, Rest, Size, Ending, Nothing, AnewBegin, AnewDrop,
   AnewWipe, AnewHeader, RenewBegin, RenewSet, SameBegin, TuneEnd

(* The last steps of every tuning.                                         *)
LEMMA EndShapes ==
  /\ Shape(TuneEnd, Unmark, TaintOnly, 2, Taint)
  /\ Shape(TaintOnly, Taint, Nothing, 1, Taint)
BY Tails, LongTails DEF Shape, First, Rest, Size, Ending, Nothing, TuneEnd, TaintOnly

(* Creating a filesystem.                                                  *)
LEMMA MakeShapes ==
  /\ Shape(MakeWipe, Wipe, MakeHeader, 6, Done)
  /\ Shape(MakeHeader, Header, MakePlant, 5, Done)
  /\ Shape(MakePlant, Plant, MakeSuper, 4, Done)
  /\ Shape(MakeSuper, PutSuper, MakeBitmap, 3, Done)
  /\ Shape(MakeBitmap, PutBitmap, MakeDone, 2, Done)
  /\ Shape(MakeDone, Done, Nothing, 1, Done)
BY Tails, LongTails DEF Shape, First, Rest, Size, Ending, Nothing, MakeWipe,
   MakeHeader, MakePlant, MakeSuper, MakeBitmap, MakeDone

-----------------------------------------------------------------------------
(* Steps and plans have numbers, by which the provers tell them apart.      *)
Number(step) ==
  CASE step = Mark -> 1
    [] step = Unmark -> 2
    [] step = Move -> 3
    [] step = FillTree -> 4
    [] step = Plant -> 5
    [] step = Bits -> 6
    [] step = Length -> 7
    [] step = Drop -> 8
    [] step = Wipe -> 9
    [] step = Header -> 10
    [] step = Use -> 11
    [] step = Reserve -> 12
    [] step = Renew -> 13
    [] step = Taint -> 14
    [] step = PutSuper -> 15
    [] step = PutBitmap -> 16
    [] step = PutJournal -> 17
    [] step = Done -> 18
    [] step = Free -> 19
    [] OTHER -> 0

(* No two steps have the same number.                                      *)
LEMMA Numbers ==
  /\ Number(Mark) = 1
  /\ Number(Unmark) = 2
  /\ Number(Move) = 3
  /\ Number(FillTree) = 4
  /\ Number(Plant) = 5
  /\ Number(Bits) = 6
  /\ Number(Length) = 7
  /\ Number(Drop) = 8
  /\ Number(Wipe) = 9
  /\ Number(Header) = 10
  /\ Number(Use) = 11
  /\ Number(Reserve) = 12
  /\ Number(Renew) = 13
  /\ Number(Taint) = 14
  /\ Number(PutSuper) = 15
  /\ Number(PutBitmap) = 16
  /\ Number(PutJournal) = 17
  /\ Number(Done) = 18
  /\ Number(Free) = 19
BY DEF Number, Mark, Unmark, Move, FillTree, Plant, Bits, Length, Drop, Wipe, Header,
   Use, Reserve, Renew, Taint, PutSuper, PutBitmap, PutJournal, Done, Free

Key(p) == IF Size(p) = 0 THEN 0 ELSE 1000 * Number(First(p)) + 100 * Size(p) + Number(Ending(p))

(* A plan's key follows from its shape.                                    *)
LEMMA KeyOf ==
  ASSUME NEW p, NEW h, NEW t, NEW n \in Nat \ {0}, NEW l, Shape(p, h, t, n, l)
  PROVE  Key(p) = 1000 * Number(h) + 100 * n + Number(l) /\ First(p) = h /\ Rest(p) = t
BY DEF Key, Shape

(* The key, the first step and the tail of every plan.                     *)
LEMMA Keys ==
  /\ Key(Nothing) = 0
  /\ Key(GrowBegin) = 1402 /\ First(GrowBegin) = Mark /\ Rest(GrowBegin) = ResizeBits
  /\ Key(ShrinkBegin) = 1502 /\ First(ShrinkBegin) = Mark /\ Rest(ShrinkBegin) = ShrinkMove
  /\ Key(ShrinkMove) = 3402 /\ First(ShrinkMove) = Move /\ Rest(ShrinkMove) = ResizeBits
  /\ Key(ResizeBits) = 6302 /\ First(ResizeBits) = Bits /\ Rest(ResizeBits) = ResizeEnd
  /\ Key(ResizeEnd) = 7202 /\ First(ResizeEnd) = Length /\ Rest(ResizeEnd) = UnmarkOnly
  /\ Key(UnmarkOnly) = 2102 /\ First(UnmarkOnly) = Unmark /\ Rest(UnmarkOnly) = Nothing
  /\ Key(CopyBegin) = 1302 /\ First(CopyBegin) = Mark /\ Rest(CopyBegin) = CopyFill
  /\ Key(CopyFill) = 4202 /\ First(CopyFill) = FillTree /\ Rest(CopyFill) = UnmarkOnly
  /\ Key(HostBeginMove) = 1914 /\ First(HostBeginMove) = Mark /\ Rest(HostBeginMove) = HostMove
  /\ Key(HostMove) = 3814 /\ First(HostMove) = Move /\ Rest(HostMove) = HostDrop
  /\ Key(HostBegin) = 1814 /\ First(HostBegin) = Mark /\ Rest(HostBegin) = HostDrop
  /\ Key(HostDrop) = 8714 /\ First(HostDrop) = Drop /\ Rest(HostDrop) = HostWipe
  /\ Key(HostWipe) = 9614 /\ First(HostWipe) = Wipe /\ Rest(HostWipe) = HostHeader
  /\ Key(HostHeader) = 10514 /\ First(HostHeader) = Header /\ Rest(HostHeader) = HostUse
  /\ Key(HostUse) = 11414 /\ First(HostUse) = Use /\ Rest(HostUse) = HostEnd
  /\ Key(HostEnd) = 2314 /\ First(HostEnd) = Unmark /\ Rest(HostEnd) = TuneEnd
  /\ Key(AwayBegin) = 1714 /\ First(AwayBegin) = Mark /\ Rest(AwayBegin) = AwayDrop
  /\ Key(AwayDrop) = 8614 /\ First(AwayDrop) = Drop /\ Rest(AwayDrop) = AwayWipe
  /\ Key(AwayWipe) = 9514 /\ First(AwayWipe) = Wipe /\ Rest(AwayWipe) = AwayHeader
  /\ Key(AwayHeader) = 10414 /\ First(AwayHeader) = Header /\ Rest(AwayHeader) = AwayReserve
  /\ Key(AwayReserve) = 12314 /\ First(AwayReserve) = Reserve /\ Rest(AwayReserve) = TuneEnd
  /\ Key(AnewBegin) = 1614 /\ First(AnewBegin) = Mark /\ Rest(AnewBegin) = AnewDrop
  /\ Key(AnewDrop) = 8514 /\ First(AnewDrop) = Drop /\ Rest(AnewDrop) = AnewWipe
  /\ Key(AnewWipe) = 9414 /\ First(AnewWipe) = Wipe /\ Rest(AnewWipe) = AnewHeader
  /\ Key(AnewHeader) = 10314 /\ First(AnewHeader) = Header /\ Rest(AnewHeader) = TuneEnd
  /\ Key(RenewBegin) = 1414 /\ First(RenewBegin) = Mark /\ Rest(RenewBegin) = RenewSet
  /\ Key(RenewSet) = 13314 /\ First(RenewSet) = Renew /\ Rest(RenewSet) = TuneEnd
  /\ Key(SameBegin) = 1314 /\ First(SameBegin) = Mark /\ Rest(SameBegin) = TuneEnd
  /\ Key(TuneEnd) = 2214 /\ First(TuneEnd) = Unmark /\ Rest(TuneEnd) = TaintOnly
  /\ Key(TaintOnly) = 14114 /\ First(TaintOnly) = Taint /\ Rest(TaintOnly) = Nothing
  /\ Key(MakeWipe) = 9618 /\ First(MakeWipe) = Wipe /\ Rest(MakeWipe) = MakeHeader
  /\ Key(MakeHeader) = 10518 /\ First(MakeHeader) = Header /\ Rest(MakeHeader) = MakePlant
  /\ Key(MakePlant) = 5418 /\ First(MakePlant) = Plant /\ Rest(MakePlant) = MakeSuper
  /\ Key(MakeSuper) = 15318 /\ First(MakeSuper) = PutSuper /\ Rest(MakeSuper) = MakeBitmap
  /\ Key(MakeBitmap) = 16218 /\ First(MakeBitmap) = PutBitmap /\ Rest(MakeBitmap) = MakeDone
  /\ Key(MakeDone) = 18118 /\ First(MakeDone) = Done /\ Rest(MakeDone) = Nothing
BY NothingLeft, ResizeShapes, HostShapes, AwayShapes, AnewShapes, EndShapes, MakeShapes,
   KeyOf, Numbers, SMTT(60) DEF Key

-----------------------------------------------------------------------------
(* Two short sequences one behind the other.                               *)
LEMMA JoinEmpty ==
  /\ <<>> \o <<>> = <<>>
  /\ \A a : <<>> \o <<a>> = <<a>> /\ <<a>> \o <<>> = <<a>>
  /\ \A a, b : <<>> \o <<a, b>> = <<a, b>> /\ <<a, b>> \o <<>> = <<a, b>>
  /\ \A a, b, c : <<>> \o <<a, b, c>> = <<a, b, c>> /\ <<a, b, c>> \o <<>> = <<a, b, c>>
OBVIOUS

(* Two sequences that make one of two elements.                            *)
LEMMA JoinTwo ==
  \A a, b : <<a>> \o <<b>> = <<a, b>>
<1>1. ASSUME NEW a, NEW b
      PROVE  <<a>> \o <<b>> = <<a, b>>
  <2> DEFINE S == {a, b}
  <2>1. <<a>> \o <<b>> \in Seq(S) /\ <<a, b>> \in Seq(S)
    OBVIOUS
  <2>2. Len(<<a>> \o <<b>>) = 2
    OBVIOUS
  <2>3. \A k \in 1..2 : (<<a>> \o <<b>>)[k] = <<a, b>>[k]
    OBVIOUS
  <2> HIDE DEF S
  <2>4. QED
    BY <2>1, <2>2, <2>3, SeqEqual
<1>2. QED
  BY <1>1

(* Two sequences that make one of three.                                   *)
LEMMA JoinThree ==
  /\ \A a, b, c : <<a>> \o <<b, c>> = <<a, b, c>>
  /\ \A a, b, c : <<a, b>> \o <<c>> = <<a, b, c>>
<1>1. ASSUME NEW a, NEW b, NEW c
      PROVE  <<a>> \o <<b, c>> = <<a, b, c>>
  <2> DEFINE S == {a, b, c}
  <2>1. <<a>> \o <<b, c>> \in Seq(S) /\ <<a, b, c>> \in Seq(S)
    OBVIOUS
  <2>2. Len(<<a>> \o <<b, c>>) = 3
    OBVIOUS
  <2>3. \A k \in 1..3 : (<<a>> \o <<b, c>>)[k] = <<a, b, c>>[k]
    OBVIOUS
  <2> HIDE DEF S
  <2>4. QED
    BY <2>1, <2>2, <2>3, SeqEqual
<1>2. ASSUME NEW a, NEW b, NEW c
      PROVE  <<a, b>> \o <<c>> = <<a, b, c>>
  <2> DEFINE S == {a, b, c}
  <2>1. <<a, b>> \o <<c>> \in Seq(S) /\ <<a, b, c>> \in Seq(S)
    OBVIOUS
  <2>2. Len(<<a, b>> \o <<c>>) = 3
    OBVIOUS
  <2>3. \A k \in 1..3 : (<<a, b>> \o <<c>>)[k] = <<a, b, c>>[k]
    OBVIOUS
  <2> HIDE DEF S
  <2>4. QED
    BY <2>1, <2>2, <2>3, SeqEqual
<1>3. QED
  BY <1>1, <1>2

(* Two sequences that make one of four.                                    *)
LEMMA JoinFour ==
  /\ \A a, b, c, d : <<a>> \o <<b, c, d>> = <<a, b, c, d>>
  /\ \A a, b, c, d : <<a, b, c>> \o <<d>> = <<a, b, c, d>>
<1>1. ASSUME NEW a, NEW b, NEW c, NEW d
      PROVE  <<a>> \o <<b, c, d>> = <<a, b, c, d>>
  <2> DEFINE S == {a, b, c, d}
  <2>1. <<a>> \o <<b, c, d>> \in Seq(S) /\ <<a, b, c, d>> \in Seq(S)
    OBVIOUS
  <2>2. Len(<<a>> \o <<b, c, d>>) = 4
    OBVIOUS
  <2>3. \A k \in 1..4 : (<<a>> \o <<b, c, d>>)[k] = <<a, b, c, d>>[k]
    OBVIOUS
  <2> HIDE DEF S
  <2>4. QED
    BY <2>1, <2>2, <2>3, SeqEqual
<1>2. ASSUME NEW a, NEW b, NEW c, NEW d
      PROVE  <<a, b, c>> \o <<d>> = <<a, b, c, d>>
  <2> DEFINE S == {a, b, c, d}
  <2>1. <<a, b, c>> \o <<d>> \in Seq(S) /\ <<a, b, c, d>> \in Seq(S)
    OBVIOUS
  <2>2. Len(<<a, b, c>> \o <<d>>) = 4
    OBVIOUS
  <2>3. \A k \in 1..4 : (<<a, b, c>> \o <<d>>)[k] = <<a, b, c, d>>[k]
    OBVIOUS
  <2> HIDE DEF S
  <2>4. QED
    BY <2>1, <2>2, <2>3, SeqEqual
<1>3. QED
  BY <1>1, <1>2

(* Two sequences that make one of five.                                    *)
LEMMA JoinFive ==
  /\ \A a, b, c, d, e : <<a>> \o <<b, c, d, e>> = <<a, b, c, d, e>>
  /\ \A a, b, c, d, e : <<a, b>> \o <<c, d, e>> = <<a, b, c, d, e>>
  /\ \A a, b, c, d, e : <<a, b, c>> \o <<d, e>> = <<a, b, c, d, e>>
<1>1. ASSUME NEW a, NEW b, NEW c, NEW d, NEW e
      PROVE  <<a>> \o <<b, c, d, e>> = <<a, b, c, d, e>>
  <2> DEFINE S == {a, b, c, d, e}
  <2>1. <<a>> \o <<b, c, d, e>> \in Seq(S) /\ <<a, b, c, d, e>> \in Seq(S)
    OBVIOUS
  <2>2. Len(<<a>> \o <<b, c, d, e>>) = 5
    OBVIOUS
  <2>3. \A k \in 1..5 : (<<a>> \o <<b, c, d, e>>)[k] = <<a, b, c, d, e>>[k]
    OBVIOUS
  <2> HIDE DEF S
  <2>4. QED
    BY <2>1, <2>2, <2>3, SeqEqual
<1>2. ASSUME NEW a, NEW b, NEW c, NEW d, NEW e
      PROVE  <<a, b>> \o <<c, d, e>> = <<a, b, c, d, e>>
  <2> DEFINE S == {a, b, c, d, e}
  <2>1. <<a, b>> \o <<c, d, e>> \in Seq(S) /\ <<a, b, c, d, e>> \in Seq(S)
    OBVIOUS
  <2>2. Len(<<a, b>> \o <<c, d, e>>) = 5
    OBVIOUS
  <2>3. \A k \in 1..5 : (<<a, b>> \o <<c, d, e>>)[k] = <<a, b, c, d, e>>[k]
    OBVIOUS
  <2> HIDE DEF S
  <2>4. QED
    BY <2>1, <2>2, <2>3, SeqEqual
<1>3. ASSUME NEW a, NEW b, NEW c, NEW d, NEW e
      PROVE  <<a, b, c>> \o <<d, e>> = <<a, b, c, d, e>>
  <2> DEFINE S == {a, b, c, d, e}
  <2>1. <<a, b, c>> \o <<d, e>> \in Seq(S) /\ <<a, b, c, d, e>> \in Seq(S)
    OBVIOUS
  <2>2. Len(<<a, b, c>> \o <<d, e>>) = 5
    OBVIOUS
  <2>3. \A k \in 1..5 : (<<a, b, c>> \o <<d, e>>)[k] = <<a, b, c, d, e>>[k]
    OBVIOUS
  <2> HIDE DEF S
  <2>4. QED
    BY <2>1, <2>2, <2>3, SeqEqual
<1>4. QED
  BY <1>1, <1>2, <1>3

(* Two sequences that make one of six.                                     *)
LEMMA JoinSix ==
  /\ \A a, b, c, d, e, f : <<a>> \o <<b, c, d, e, f>> = <<a, b, c, d, e, f>>
  /\ \A a, b, c, d, e, f : <<a, b, c, d>> \o <<e, f>> = <<a, b, c, d, e, f>>
  /\ \A a, b, c, d, e, f : <<a, b, c, d, e>> \o <<f>> = <<a, b, c, d, e, f>>
<1>1. ASSUME NEW a, NEW b, NEW c, NEW d, NEW e, NEW f
      PROVE  <<a>> \o <<b, c, d, e, f>> = <<a, b, c, d, e, f>>
  <2> DEFINE S == {a, b, c, d, e, f}
  <2>1. <<a>> \o <<b, c, d, e, f>> \in Seq(S) /\ <<a, b, c, d, e, f>> \in Seq(S)
    OBVIOUS
  <2>2. Len(<<a>> \o <<b, c, d, e, f>>) = 6
    OBVIOUS
  <2>3. \A k \in 1..6 : (<<a>> \o <<b, c, d, e, f>>)[k] = <<a, b, c, d, e, f>>[k]
    OBVIOUS
  <2> HIDE DEF S
  <2>4. QED
    BY <2>1, <2>2, <2>3, SeqEqual
<1>2. ASSUME NEW a, NEW b, NEW c, NEW d, NEW e, NEW f
      PROVE  <<a, b, c, d>> \o <<e, f>> = <<a, b, c, d, e, f>>
  <2> DEFINE S == {a, b, c, d, e, f}
  <2>1. <<a, b, c, d>> \o <<e, f>> \in Seq(S) /\ <<a, b, c, d, e, f>> \in Seq(S)
    OBVIOUS
  <2>2. Len(<<a, b, c, d>> \o <<e, f>>) = 6
    OBVIOUS
  <2>3. \A k \in 1..6 : (<<a, b, c, d>> \o <<e, f>>)[k] = <<a, b, c, d, e, f>>[k]
    OBVIOUS
  <2> HIDE DEF S
  <2>4. QED
    BY <2>1, <2>2, <2>3, SeqEqual
<1>3. ASSUME NEW a, NEW b, NEW c, NEW d, NEW e, NEW f
      PROVE  <<a, b, c, d, e>> \o <<f>> = <<a, b, c, d, e, f>>
  <2> DEFINE S == {a, b, c, d, e, f}
  <2>1. <<a, b, c, d, e>> \o <<f>> \in Seq(S) /\ <<a, b, c, d, e, f>> \in Seq(S)
    OBVIOUS
  <2>2. Len(<<a, b, c, d, e>> \o <<f>>) = 6
    OBVIOUS
  <2>3. \A k \in 1..6 : (<<a, b, c, d, e>> \o <<f>>)[k] = <<a, b, c, d, e, f>>[k]
    OBVIOUS
  <2> HIDE DEF S
  <2>4. QED
    BY <2>1, <2>2, <2>3, SeqEqual
<1>4. QED
  BY <1>1, <1>2, <1>3

(* Two sequences that make one of seven.                                   *)
LEMMA JoinSeven ==
  /\ \A a, b, c, d, e, f, g :
       <<a>> \o <<b, c, d, e, f, g>> = <<a, b, c, d, e, f, g>>
  /\ \A a, b, c, d, e, f, g :
       <<a, b, c, d, e>> \o <<f, g>> = <<a, b, c, d, e, f, g>>
<1>1. ASSUME NEW a, NEW b, NEW c, NEW d, NEW e, NEW f, NEW g
      PROVE  <<a>> \o <<b, c, d, e, f, g>> = <<a, b, c, d, e, f, g>>
  <2> DEFINE S == {a, b, c, d, e, f, g}
  <2>1. <<a>> \o <<b, c, d, e, f, g>> \in Seq(S) /\ <<a, b, c, d, e, f, g>> \in Seq(S)
    OBVIOUS
  <2>2. Len(<<a>> \o <<b, c, d, e, f, g>>) = 7
    OBVIOUS
  <2>3. \A k \in 1..7 : (<<a>> \o <<b, c, d, e, f, g>>)[k] = <<a, b, c, d, e, f, g>>[k]
    OBVIOUS
  <2> HIDE DEF S
  <2>4. QED
    BY <2>1, <2>2, <2>3, SeqEqual
<1>2. ASSUME NEW a, NEW b, NEW c, NEW d, NEW e, NEW f, NEW g
      PROVE  <<a, b, c, d, e>> \o <<f, g>> = <<a, b, c, d, e, f, g>>
  <2> DEFINE S == {a, b, c, d, e, f, g}
  <2>1. <<a, b, c, d, e>> \o <<f, g>> \in Seq(S) /\ <<a, b, c, d, e, f, g>> \in Seq(S)
    OBVIOUS
  <2>2. Len(<<a, b, c, d, e>> \o <<f, g>>) = 7
    OBVIOUS
  <2>3. \A k \in 1..7 : (<<a, b, c, d, e>> \o <<f, g>>)[k] = <<a, b, c, d, e, f, g>>[k]
    OBVIOUS
  <2> HIDE DEF S
  <2>4. QED
    BY <2>1, <2>2, <2>3, SeqEqual
<1>3. QED
  BY <1>1, <1>2

(* Two sequences that make one of eight.                                   *)
LEMMA JoinEight ==
  \A a, b, c, d, e, f, g, h :
    <<a, b, c, d, e, f>> \o <<g, h>> = <<a, b, c, d, e, f, g, h>>
<1>1. ASSUME NEW a, NEW b, NEW c, NEW d, NEW e, NEW f, NEW g, NEW h
      PROVE  <<a, b, c, d, e, f>> \o <<g, h>> = <<a, b, c, d, e, f, g, h>>
  <2> DEFINE S == {a, b, c, d, e, f, g, h}
  <2>1. <<a, b, c, d, e, f>> \o <<g, h>> \in Seq(S) /\ <<a, b, c, d, e, f, g, h>> \in Seq(S)
    OBVIOUS
  <2>2. Len(<<a, b, c, d, e, f>> \o <<g, h>>) = 8
    OBVIOUS
  <2>3. \A k \in 1..8 : (<<a, b, c, d, e, f>> \o <<g, h>>)[k] = <<a, b, c, d, e, f, g, h>>[k]
    OBVIOUS
  <2> HIDE DEF S
  <2>4. QED
    BY <2>1, <2>2, <2>3, SeqEqual
<1>2. QED
  BY <1>1

(* Two sequences that make one of nine.                                    *)
LEMMA JoinNine ==
  \A a, b, c, d, e, f, g, h, i :
    <<a, b, c, d, e, f, g>> \o <<h, i>> = <<a, b, c, d, e, f, g, h, i>>
<1>1. ASSUME NEW a, NEW b, NEW c, NEW d, NEW e, NEW f, NEW g, NEW h, NEW i
      PROVE  <<a, b, c, d, e, f, g>> \o <<h, i>> = <<a, b, c, d, e, f, g, h, i>>
  <2> DEFINE S == {a, b, c, d, e, f, g, h, i}
  <2>1. <<a, b, c, d, e, f, g>> \o <<h, i>> \in Seq(S) /\ <<a, b, c, d, e, f, g, h, i>> \in Seq(S)
    OBVIOUS
  <2>2. Len(<<a, b, c, d, e, f, g>> \o <<h, i>>) = 9
    OBVIOUS
  <2>3. \A k \in 1..9 : (<<a, b, c, d, e, f, g>> \o <<h, i>>)[k] = <<a, b, c, d, e, f, g, h, i>>[k]
    OBVIOUS
  <2> HIDE DEF S
  <2>4. QED
    BY <2>1, <2>2, <2>3, SeqEqual
<1>2. QED
  BY <1>1

-----------------------------------------------------------------------------
(* Each call leaves one of the plans to do.                                *)
LEMMA MakePlan ==
  <<"fill journal", "write header", "plant tree">>
    \o SyncSteps({"super", "bitmap"}) \o <<"created">> = MakeWipe
<1>1. SyncSteps({"super", "bitmap"}) = (<<PutSuper>> \o <<PutBitmap>>) \o <<>>
  BY DEF SyncSteps, PutSuper, PutBitmap
<1>2. SyncSteps({"super", "bitmap"}) = <<PutSuper, PutBitmap>>
  BY <1>1, JoinTwo, JoinEmpty
<1>3. <<"fill journal", "write header", "plant tree">>
        \o SyncSteps({"super", "bitmap"}) \o <<"created">>
      = (<<Wipe, Header, Plant>> \o <<PutSuper, PutBitmap>>) \o <<Done>>
  BY <1>2 DEF Wipe, Header, Plant, Done
<1>4. <<Wipe, Header, Plant>> \o <<PutSuper, PutBitmap>>
      = <<Wipe, Header, Plant, PutSuper, PutBitmap>>
  BY JoinFive
<1>5. <<Wipe, Header, Plant, PutSuper, PutBitmap>> \o <<Done>> = MakeWipe
  BY JoinSix DEF MakeWipe
<1>6. QED
  BY <1>3, <1>4, <1>5, Zenon

(* Copying a tree starts the copying plan.                                 *)
LEMMA CopyPlan == <<"corrupted", "fill in", "consistent">> = CopyBegin
BY DEF CopyBegin, Mark, FillTree, Unmark

(* Resizing starts one of the two resizing plans.                          *)
LEMMA ResizePlan ==
  ASSUME NEW n
  PROVE  ResizeSteps(n) = IF n > super.len THEN GrowBegin ELSE ShrinkBegin
<1>1. CASE n > super.len
  <2>1. ResizeSteps(n) = <<Mark>> \o <<Bits, Length, Unmark>>
    BY <1>1 DEF ResizeSteps, Mark, Bits, Length, Unmark
  <2>2. QED
    BY <1>1, <2>1, JoinFour DEF GrowBegin
<1>2. CASE ~(n > super.len)
  <2>1. ResizeSteps(n) = <<Mark, Move>> \o <<Bits, Length, Unmark>>
    BY <1>2 DEF ResizeSteps, Mark, Move, Bits, Length, Unmark
  <2>2. QED
    BY <1>2, <2>1, JoinFive DEF ShrinkBegin
<1>3. QED
  BY <1>1, <1>2

TunePlan(k, l) == <<"corrupted">> \o TuneSteps(k, l) \o <<"consistent", "mark all">>

(* A journal coming onto the device starts one of two plans.               *)
LEMMA HostPlan ==
  ASSUME super.kind = "relocated", NEW l
  PROVE  TunePlan("standard", l) = IF super.reserved = 0 THEN HostBeginMove ELSE HostBegin
<1>1. NewJournal = <<Drop, Wipe, Header>>
  BY DEF NewJournal, Drop, Wipe, Header
<1>2. CASE super.reserved = 0
  <2>1. TuneSteps("standard", l) = (<<Move>> \o <<Drop, Wipe, Header>>) \o <<Use, Unmark>>
    BY <1>1, <1>2 DEF TuneSteps, Move, Use, Unmark
  <2>2. TuneSteps("standard", l) = <<Move, Drop, Wipe, Header, Use, Unmark>>
    BY <2>1, JoinFour, JoinSix
  <2>3. TunePlan("standard", l)
        = (<<Mark>> \o <<Move, Drop, Wipe, Header, Use, Unmark>>) \o <<Unmark, Taint>>
    BY <2>2 DEF TunePlan, Mark, Unmark, Taint
  <2>4. QED
    BY <1>2, <2>3, JoinSeven, JoinNine DEF HostBeginMove
<1>3. CASE super.reserved # 0
  <2>1. TuneSteps("standard", l) = (<<>> \o <<Drop, Wipe, Header>>) \o <<Use, Unmark>>
    BY <1>1, <1>3 DEF TuneSteps, Use, Unmark
  <2>2. TuneSteps("standard", l) = <<Drop, Wipe, Header, Use, Unmark>>
    BY <2>1, JoinEmpty, JoinFive
  <2>3. TunePlan("standard", l)
        = (<<Mark>> \o <<Drop, Wipe, Header, Use, Unmark>>) \o <<Unmark, Taint>>
    BY <2>2 DEF TunePlan, Mark, Unmark, Taint
  <2>4. QED
    BY <1>3, <2>3, JoinSix, JoinEight DEF HostBegin
<1>4. QED
  BY <1>2, <1>3

(* A journal going to another device starts a plan of its own.             *)
LEMMA AwayPlan ==
  ASSUME super.kind = "standard", NEW l
  PROVE  TunePlan("relocated", l) = AwayBegin
<1>1. TuneSteps("relocated", l) = <<Drop, Wipe, Header>> \o <<Reserve>>
  BY DEF TuneSteps, NewJournal, Drop, Wipe, Header, Reserve
<1>2. TuneSteps("relocated", l) = <<Drop, Wipe, Header, Reserve>>
  BY <1>1, JoinFour
<1>3. TunePlan("relocated", l)
      = (<<Mark>> \o <<Drop, Wipe, Header, Reserve>>) \o <<Unmark, Taint>>
  BY <1>2 DEF TunePlan, Mark, Unmark, Taint
<1>4. QED
  BY <1>3, JoinFive, JoinSeven DEF AwayBegin

(* A journal on another device that stays there is written anew.           *)
LEMMA AnewPlan ==
  ASSUME super.kind = "relocated", NEW l, l # super.jp.len
  PROVE  TunePlan("relocated", l) = AnewBegin
<1>1. TuneSteps("relocated", l) = <<Drop, Wipe, Header>>
  BY DEF TuneSteps, NewJournal, Drop, Wipe, Header
<1>2. TunePlan("relocated", l) = (<<Mark>> \o <<Drop, Wipe, Header>>) \o <<Unmark, Taint>>
  BY <1>1 DEF TunePlan, Mark, Unmark, Taint
<1>3. QED
  BY <1>2, JoinFour, JoinSix DEF AnewBegin

(* A journal here of the same length only gets new parameters.             *)
LEMMA RenewPlan ==
  ASSUME super.kind = "standard"
  PROVE  TunePlan("standard", super.jp.len) = RenewBegin
<1>1. TuneSteps("standard", super.jp.len) = <<Renew>>
  BY DEF TuneSteps, Renew
<1>2. TunePlan("standard", super.jp.len) = (<<Mark>> \o <<Renew>>) \o <<Unmark, Taint>>
  BY <1>1 DEF TunePlan, Mark, Unmark, Taint
<1>3. QED
  BY <1>2, JoinTwo, JoinFour DEF RenewBegin

(* A tuning that changes nothing marks and unmarks.                        *)
LEMMA SamePlan ==
  ASSUME NEW k \in Kinds, super.kind = k, NEW l, (k = "standard") # (l = super.jp.len)
  PROVE  TunePlan(k, l) = SameBegin
<1>1. TuneSteps(k, l) = <<>>
  BY DEF TuneSteps, Kinds
<1>2. TunePlan(k, l) = (<<Mark>> \o <<>>) \o <<Unmark, Taint>>
  BY <1>1 DEF TunePlan, Mark, Unmark, Taint
<1>3. QED
  BY <1>2, JoinEmpty, JoinThree DEF SameBegin

-----------------------------------------------------------------------------
(* What a closing handle has left to do follows from what is dirty.        *)
ClosePlan(flags) == SyncSteps(flags) \o <<Free>>

(* The same sequences with an operator the provers do not look into.       *)
Cat(s, t) == s \o t

(* The same for sequences put together under another name.                 *)
LEMMA CatShort ==
  /\ Cat(<<>>, <<>>) = <<>>
  /\ \A a : Cat(<<>>, <<a>>) = <<a>>
  /\ \A a : Cat(<<a>>, <<>>) = <<a>>
  /\ \A a, b : Cat(<<a>>, <<b>>) = <<a, b>>
  /\ \A a, b : Cat(<<a, b>>, <<>>) = <<a, b>>
  /\ \A a, b, c : Cat(<<a, b>>, <<c>>) = <<a, b, c>>
  /\ \A a, b, c, d : Cat(<<a, b, c>>, <<d>>) = <<a, b, c, d>>
BY JoinEmpty, JoinTwo, JoinThree, JoinFour DEF Cat

(* What closing does: the dirty parts, super block first, then release.    *)
LEMMA CloseShape ==
  ASSUME NEW flags
  PROVE  /\ "super" \in flags =>
              First(ClosePlan(flags)) = PutSuper
              /\ Rest(ClosePlan(flags)) = ClosePlan(flags \ {"super"})
         /\ "super" \notin flags /\ "bitmap" \in flags =>
              First(ClosePlan(flags)) = PutBitmap
              /\ Rest(ClosePlan(flags)) = ClosePlan(flags \ {"bitmap"})
         /\ "super" \notin flags /\ "bitmap" \notin flags
            /\ "journal" \in flags /\ journal # None =>
              First(ClosePlan(flags)) = PutJournal
              /\ Rest(ClosePlan(flags)) = ClosePlan(flags \ {"journal"})
         /\ "super" \notin flags /\ "bitmap" \notin flags
            /\ ~("journal" \in flags /\ journal # None) =>
              ClosePlan(flags) = <<Free>>
<1> DEFINE S(f) == IF "super" \in f THEN <<PutSuper>> ELSE <<>>
           B(f) == IF "bitmap" \in f THEN <<PutBitmap>> ELSE <<>>
           J(f) == IF "journal" \in f /\ journal # None THEN <<PutJournal>> ELSE <<>>
           P(s, b, j) == Cat(Cat(Cat(s, b), j), <<Free>>)
<1>1. \A f : ClosePlan(f) = P(S(f), B(f), J(f))
  BY DEF ClosePlan, SyncSteps, PutSuper, PutBitmap, PutJournal, Cat
<1>2. /\ P(<<>>, <<>>, <<>>) = <<Free>>
      /\ P(<<>>, <<>>, <<PutJournal>>) = <<PutJournal, Free>>
      /\ P(<<>>, <<PutBitmap>>, <<>>) = <<PutBitmap, Free>>
      /\ P(<<>>, <<PutBitmap>>, <<PutJournal>>) = <<PutBitmap, PutJournal, Free>>
      /\ P(<<PutSuper>>, <<>>, <<>>) = <<PutSuper, Free>>
      /\ P(<<PutSuper>>, <<>>, <<PutJournal>>) = <<PutSuper, PutJournal, Free>>
      /\ P(<<PutSuper>>, <<PutBitmap>>, <<>>) = <<PutSuper, PutBitmap, Free>>
      /\ P(<<PutSuper>>, <<PutBitmap>>, <<PutJournal>>)
         = <<PutSuper, PutBitmap, PutJournal, Free>>
  BY CatShort
<1>3. \A f : /\ "super" \in f => S(f) = <<PutSuper>>
             /\ "super" \notin f => S(f) = <<>>
             /\ "bitmap" \in f => B(f) = <<PutBitmap>>
             /\ "bitmap" \notin f => B(f) = <<>>
             /\ "journal" \in f /\ journal # None => J(f) = <<PutJournal>>
             /\ ~("journal" \in f /\ journal # None) => J(f) = <<>>
  OBVIOUS
<1>4. /\ First(<<PutJournal, Free>>) = PutJournal /\ Rest(<<PutJournal, Free>>) = <<Free>>
       /\ First(<<PutBitmap, Free>>) = PutBitmap /\ Rest(<<PutBitmap, Free>>) = <<Free>>
       /\ First(<<PutBitmap, PutJournal, Free>>) = PutBitmap
       /\ Rest(<<PutBitmap, PutJournal, Free>>) = <<PutJournal, Free>>
       /\ First(<<PutSuper, Free>>) = PutSuper /\ Rest(<<PutSuper, Free>>) = <<Free>>
       /\ First(<<PutSuper, PutJournal, Free>>) = PutSuper
       /\ Rest(<<PutSuper, PutJournal, Free>>) = <<PutJournal, Free>>
       /\ First(<<PutSuper, PutBitmap, Free>>) = PutSuper
       /\ Rest(<<PutSuper, PutBitmap, Free>>) = <<PutBitmap, Free>>
       /\ First(<<PutSuper, PutBitmap, PutJournal, Free>>) = PutSuper
       /\ Rest(<<PutSuper, PutBitmap, PutJournal, Free>>) = <<PutBitmap, PutJournal, Free>>
  BY Tails DEF First, Rest
<1> HIDE DEF P
<1>5. ASSUME NEW b \in {<<>>, <<PutBitmap>>}, NEW j \in {<<>>, <<PutJournal>>}
      PROVE  First(P(<<PutSuper>>, b, j)) = PutSuper /\ Rest(P(<<PutSuper>>, b, j)) = P(<<>>, b, j)
  <2>1. CASE b = <<>> /\ j = <<>>
    BY <1>2, <1>4, <2>1, Zenon
  <2>2. CASE b = <<>> /\ j = <<PutJournal>>
    BY <1>2, <1>4, <2>2, Zenon
  <2>3. CASE b = <<PutBitmap>> /\ j = <<>>
    BY <1>2, <1>4, <2>3, Zenon
  <2>4. CASE b = <<PutBitmap>> /\ j = <<PutJournal>>
    BY <1>2, <1>4, <2>4, Zenon
  <2>5. QED
    BY <2>1, <2>2, <2>3, <2>4, Zenon
<1>6. ASSUME NEW j \in {<<>>, <<PutJournal>>}
      PROVE  First(P(<<>>, <<PutBitmap>>, j)) = PutBitmap
             /\ Rest(P(<<>>, <<PutBitmap>>, j)) = P(<<>>, <<>>, j)
  <2>1. CASE j = <<>>
    BY <1>2, <1>4, <2>1, Zenon
  <2>2. CASE j = <<PutJournal>>
    BY <1>2, <1>4, <2>2, Zenon
  <2>3. QED
    BY <2>1, <2>2, Zenon
<1>7. /\ First(P(<<>>, <<>>, <<PutJournal>>)) = PutJournal
      /\ Rest(P(<<>>, <<>>, <<PutJournal>>)) = P(<<>>, <<>>, <<>>)
  BY <1>2, <1>4, Zenon
<1>8. \A f : B(f) \in {<<>>, <<PutBitmap>>} /\ J(f) \in {<<>>, <<PutJournal>>}
  OBVIOUS
<1>9. /\ S(flags \ {"super"}) = <<>> /\ S(flags \ {"bitmap"}) = S(flags)
      /\ S(flags \ {"journal"}) = S(flags)
      /\ B(flags \ {"super"}) = B(flags) /\ B(flags \ {"bitmap"}) = <<>>
      /\ B(flags \ {"journal"}) = B(flags)
      /\ J(flags \ {"super"}) = J(flags) /\ J(flags \ {"bitmap"}) = J(flags)
      /\ J(flags \ {"journal"}) = <<>>
  OBVIOUS
<1> HIDE DEF S, B, J, P
<1>10. CASE "super" \in flags
  <2>1. S(flags) = <<PutSuper>>
    BY <1>3, <1>10
  <2>2. QED
    BY <1>1, <1>5, <1>8, <1>9, <1>10, <2>1, Zenon
<1>11. CASE "super" \notin flags /\ "bitmap" \in flags
  <2>1. S(flags) = <<>> /\ B(flags) = <<PutBitmap>>
    BY <1>3, <1>11
  <2>2. QED
    BY <1>1, <1>6, <1>8, <1>9, <1>11, <2>1, Zenon
<1>12. CASE "super" \notin flags /\ "bitmap" \notin flags
  <2>1. S(flags) = <<>> /\ B(flags) = <<>>
    BY <1>3, <1>12
  <2>2. QED
    BY <1>1, <1>2, <1>3, <1>7, <1>9, <1>12, <2>1, Zenon
<1>13. QED
  BY <1>10, <1>11, <1>12, Zenon

(* The empty sequence and those of one element.                            *)
LEMMA SeqShort ==
  ASSUME NEW S
  PROVE  <<>> \in Seq(S) /\ \A x \in S : <<x>> \in Seq(S) /\ Len(<<x>>) = 1
OBVIOUS

(* Closing always has at least one step.                                   *)
LEMMA CloseNotEmpty ==
  ASSUME NEW flags
  PROVE  ClosePlan(flags) # <<>>
<1> DEFINE S == {PutSuper, PutBitmap, PutJournal, Free}
           s == IF "super" \in flags THEN <<PutSuper>> ELSE <<>>
           b == IF "bitmap" \in flags THEN <<PutBitmap>> ELSE <<>>
           j == IF "journal" \in flags /\ journal # None THEN <<PutJournal>> ELSE <<>>
<1>1. ClosePlan(flags) = (s \o b \o j) \o <<Free>>
  BY DEF ClosePlan, SyncSteps, PutSuper, PutBitmap, PutJournal
<1>7. <<>> \in Seq(S) /\ \A x \in S : <<x>> \in Seq(S) /\ Len(<<x>>) = 1
  BY SeqShort
<1>8. PutSuper \in S /\ PutBitmap \in S /\ PutJournal \in S /\ Free \in S
  OBVIOUS
<1> HIDE DEF S
<1>2. s \in Seq(S) /\ b \in Seq(S) /\ j \in Seq(S) /\ <<Free>> \in Seq(S) /\ Len(<<Free>>) = 1
  BY <1>7, <1>8, Zenon
<1> HIDE DEF S, s, b, j
<1>3. s \o b \in Seq(S)
  BY <1>2, ConcatProperties
<1>4. s \o b \o j \in Seq(S)
  BY <1>2, <1>3, ConcatProperties
<1>5. Len((s \o b \o j) \o <<Free>>) = Len(s \o b \o j) + 1 /\ Len(s \o b \o j) \in Nat
  BY <1>2, <1>4, ConcatProperties, LenProperties
<1>6. QED
  BY <1>1, <1>5, EmptySeq

(* A handle that is being closed has something left to do, if only to      *)
(* release its memory.                                                     *)
LEMMA CloseFirst ==
  ASSUME NEW flags
  PROVE  /\ First(ClosePlan(flags)) \in {PutSuper, PutBitmap, PutJournal, Free}
         /\ First(<<Free>>) = Free /\ Rest(<<Free>>) = <<>> /\ <<Free>> # <<>>
<1>1. First(<<Free>>) = Free /\ Rest(<<Free>>) = <<>> /\ <<Free>> # <<>>
  BY Tails DEF First, Rest
<1>2. QED
  BY <1>1, CloseShape

-----------------------------------------------------------------------------
(* The parts of the inductive invariant.                                   *)
Real(s) == s.len \in Lens /\ s.jp.len \in JLens

(* A bitmap of length m goes with a filesystem of length n: it has the     *)
(* bytes for it, and that length unless a resize kept the bytes.           *)
Fits(m, n) == Bytes(m) = Bytes(n) /\ (lagged \/ m = n)

(* The bitmap in memory is the one on the device, whose length need not be *)
(* the super block's after a resize that kept the bytes.                   *)
BitmapStored ==
  /\ dbitmap.tree = bitmap.tree /\ dbitmap.area = bitmap.area
  /\ lost \/ Fits(dbitmap.len, bitmap.len)
  /\ handle \in {"created", "open"} => bitmap.len = super.len

Typed ==
  /\ TypeOK
  /\ dsuper.state # "none" => Real(dsuper)
  /\ handle # "closed" => Real(super)
  /\ handle = "closed" => dirty = {}
  /\ handle # "closed" /\ "bitmap" \notin dirty => BitmapStored

(* What is left to do goes with the handle.                                *)
Planned ==
  /\ handle \in {"closed", "created", "failed"} => todo = Nothing
  /\ handle = "open" => todo \in {Nothing, TuneEnd, TaintOnly} \cup Begins \cup Middles
  /\ handle = "creating" => todo \in Makes
  /\ handle = "closing" => \/ todo = SyncSteps(dirty) \o <<Free>>
                           \/ lost /\ todo = <<Free>>

(* There are numbers left for the steps that take one.                     *)
Roomy ==
  /\ todo \in {HostBeginMove, HostMove, MakeWipe, MakeHeader} => fresh + 2 <= MaxFresh
  /\ todo \in {ShrinkBegin, ShrinkMove, CopyBegin, CopyFill, MakePlant}
               \cup Hosts \cup Aways \cup Anews \cup Renews => fresh + 1 <= MaxFresh

(* The arguments of the call that is running.                              *)
Asked ==
  /\ todo \in Resizes => ask.len \in Lens
  /\ todo = ResizeEnd => "bitmap" \in dirty
  /\ todo \in Hosts => super.kind = "relocated" /\ ask.kind = "standard"
  /\ todo \in Aways => super.kind = "standard" /\ ask.kind = "relocated"
  /\ todo \in Anews => super.kind = "relocated" /\ ask.kind = "relocated"
  /\ todo \in Renews => super.kind = "standard" /\ ask.kind = "standard" /\ super.jp.len = ask.jlen
  /\ todo \in {AwayReserve} \cup Aways => ask.old \in JLens
  /\ todo \in Hosts \cup Aways \cup Anews \cup Renews => ask.jlen \in JLens
  /\ todo \in Hosts \cup Aways \cup Anews \cup Renews \cup {HostUse, HostEnd, AwayReserve} =>
       tuned.kind = ask.kind /\ (tuned.kind = "relocated" => tuned.len = ask.jlen)
  /\ todo = HostUse => super.kind = "relocated" /\ ask.kind = "standard"
  /\ todo = AwayReserve => super.kind = "standard" /\ ask.kind = "relocated"
                           /\ super.jp.len = ask.jlen

(* How the super block in memory and the one on the device are marked.     *)
Marked(state) == dsuper.state = state /\ super.state = state
SuperStored == "super" \notin dirty => dsuper = super
HeaderStored ==
  "journal" \notin dirty /\ journal # None => heads[super.kind, super.jp.len] = journal

MarkedRight ==
  handle = "open" =>
    /\ todo \in {Nothing} \cup Begins => Marked("consistent") /\ SuperStored
    /\ todo \in {Nothing} \cup Begins \cup Keeps => HeaderStored
    /\ todo \in Middles => Marked("corrupted")
    /\ todo = TuneEnd => Marked("corrupted") \/ (dsuper = super /\ super.state = "consistent")
    /\ todo = TaintOnly => dsuper = super /\ super.state = "consistent"

(* An operation that stopped half way has left both marked.                *)
HalfMarked ==
  half => /\ dsuper.state = "corrupted"
          /\ handle \in {"failed", "closing", "closed"}
          /\ handle # "closed" => super.state = "corrupted"

(* Unless something was lost, the parts in memory fit each other, up to    *)
(* what the running call has yet to do.                                    *)
LengthFits == Fits(bitmap.len, super.len)
TreeFits == bitmap.tree = placement
AreaFits == bitmap.area = Area(super)
JournalFits ==
  IF journal = None THEN heads[super.kind, super.jp.len] = super.jp ELSE journal = super.jp
TunedFits ==
  tuned.kind = "relocated" => super.kind = "relocated" /\ super.jp.len = tuned.len
HeaderWritten(k) == journal = super.jp /\ heads[k, super.jp.len] = super.jp

OpenFits ==
  handle = "open" /\ ~lost =>
    /\ todo # ResizeEnd => LengthFits
    /\ todo = ResizeEnd => Fits(bitmap.len, ask.len)
    /\ todo # CopyFill => TreeFits
    /\ todo \notin Shifted => AreaFits
    /\ todo \in Aways \cup {AwayReserve} => bitmap.area = ask.old + 1
    /\ todo = HostUse => bitmap.area = super.jp.len + 1 /\ HeaderWritten("standard")
    /\ todo = AwayReserve => HeaderWritten("relocated")
    /\ todo \in {Nothing, HostEnd, TuneEnd, TaintOnly} \cup Begins \cup Keeps => JournalFits
    /\ todo = HostEnd => HeaderStored
    /\ todo \in {Nothing, UnmarkOnly, CopyBegin, CopyFill, HostEnd, SameBegin, TuneEnd, TaintOnly}
                \cup Resizes => TunedFits
    /\ todo = RenewSet => "super" \notin dirty
    /\ todo = TuneEnd => HeaderStored \/ (dsuper.state = "corrupted" /\ "super" \notin dirty)

(* A filesystem that is being created.                                     *)
MakeFits ==
  handle = "creating" =>
    /\ super.state = "consistent" /\ super.reserved = 0
    /\ ask.kind = super.kind /\ ask.jlen = super.jp.len
    /\ ~half /\ tuned = NoTuning
    /\ bitmap.len = super.len
    /\ todo \in {MakeWipe, MakeHeader} => bitmap.area = 0 /\ journal = None
    /\ todo \notin {MakeWipe, MakeHeader} => AreaFits /\ HeaderWritten(super.kind)
    /\ todo \in {MakeSuper, MakeBitmap, MakeDone} => TreeFits
    /\ todo \in {MakeBitmap, MakeDone} => dsuper = super
    /\ todo \notin {MakeBitmap, MakeDone} => dirty = {"super", "bitmap"}
    /\ todo = MakeBitmap => dirty = {"bitmap"}
    /\ todo = MakeDone => dirty = {} /\ dbitmap = bitmap

MadeFits ==
  handle = "created" =>
    /\ dirty = {} /\ dsuper = super /\ super.state = "consistent" /\ ~half
    /\ ~lost /\ LengthFits /\ TreeFits /\ AreaFits /\ HeaderWritten(super.kind) /\ TunedFits

(* A bitmap that accounts for what a super block describes.                *)
BitmapFor(b, s) == b.tree = placement /\ b.area = Area(s) /\ Fits(b.len, s.len)

(* What the device will hold once everything dirty is written.             *)
FinalSuper == IF "super" \in dirty THEN super ELSE dsuper
FinalBitmap == IF "bitmap" \in dirty THEN bitmap ELSE dbitmap
FinalHeader(k, l) ==
  IF "journal" \in dirty /\ journal # None /\ k = super.kind /\ l = journal.len
  THEN journal ELSE heads[k, l]

FinalFits ==
  handle \in {"failed", "closing", "closed"} /\ ~lost /\ FinalSuper.state = "consistent" =>
    /\ BitmapFor(FinalBitmap, FinalSuper)
    /\ FinalHeader(FinalSuper.kind, FinalSuper.jp.len) = FinalSuper.jp
    /\ tuned.kind = "relocated" =>
         FinalSuper.kind = "relocated" /\ FinalSuper.jp.len = tuned.len

IInv ==
  /\ Typed /\ Planned /\ Roomy /\ Asked /\ MarkedRight /\ HalfMarked
  /\ OpenFits /\ MakeFits /\ MadeFits /\ FinalFits

-----------------------------------------------------------------------------
(* Which plan a step can belong to, and what it leaves.                    *)
LEMMA Doing ==
  ASSUME NEW step, Do(step)
  PROVE  todo # Nothing /\ First(todo) = step /\ todo' = Rest(todo)
BY DEF Do, First, Rest, Nothing

(* A closing handle writes dirty parts or is released.                     *)
LEMMA ClosingFirst ==
  ASSUME Planned, handle = "closing"
  PROVE  todo # Nothing /\ First(todo) \in {PutSuper, PutBitmap, PutJournal, Free}
<1>1. CASE todo = <<Free>>
  BY <1>1, CloseFirst DEF Nothing
<1>2. CASE todo = ClosePlan(dirty)
  BY <1>2, CloseFirst, CloseNotEmpty DEF Nothing
<1>3. QED
  BY <1>1, <1>2 DEF Planned, ClosePlan

(* A filesystem being created takes the steps of its creation.             *)
LEMMA MakingFirst ==
  ASSUME Planned, handle = "creating"
  PROVE  todo # Nothing /\ First(todo) \in {Wipe, Header, Plant, PutSuper, PutBitmap, Done}
BY Keys DEF Planned, Makes

(* A handle with something left to do is being made, open or closing.      *)
LEMMA SomeHandle ==
  ASSUME TypeOK, Planned, todo # Nothing
  PROVE  handle \in {"creating", "open", "closing"}
<1>1. handle \in {"closed", "creating", "created", "open", "failed", "closing"}
  BY DEF TypeOK
<1>2. QED
  BY <1>1 DEF Planned

(* These steps are taken only by an open handle.                           *)
LEMMA OpenStep ==
  ASSUME TypeOK, Planned, NEW step, Do(step),
         step \in {Mark, Unmark, Move, FillTree, Bits, Length, Drop, Use, Reserve, Renew, Taint}
  PROVE  /\ handle = "open" /\ First(todo) = step /\ todo' = Rest(todo)
         /\ todo \in {TuneEnd, TaintOnly} \cup Begins \cup Middles
<1>1. todo # Nothing /\ First(todo) = step /\ todo' = Rest(todo)
  BY Doing
<1>2. handle = "open"
  BY <1>1, SomeHandle, ClosingFirst, MakingFirst, Numbers
<1>3. QED
  BY <1>1, <1>2 DEF Planned

(* Marking begins every operation.                                         *)
LEMMA AtMark ==
  ASSUME TypeOK, Planned, Do(Mark)
  PROVE  /\ handle = "open"
         /\ \/ todo = GrowBegin /\ todo' = ResizeBits
            \/ todo = ShrinkBegin /\ todo' = ShrinkMove
            \/ todo = CopyBegin /\ todo' = CopyFill
            \/ todo = HostBeginMove /\ todo' = HostMove
            \/ todo = HostBegin /\ todo' = HostDrop
            \/ todo = AwayBegin /\ todo' = AwayDrop
            \/ todo = AnewBegin /\ todo' = AnewDrop
            \/ todo = RenewBegin /\ todo' = RenewSet
            \/ todo = SameBegin /\ todo' = TuneEnd
<1>1. /\ handle = "open" /\ First(todo) = Mark /\ todo' = Rest(todo)
      /\ todo \in {TuneEnd, TaintOnly} \cup Begins \cup Middles
  BY OpenStep
<1>2. todo \notin {TuneEnd, TaintOnly} \cup Middles
  BY <1>1, Keys, Numbers DEF Middles
<1>3. QED
  BY <1>1, <1>2, Keys DEF Begins

(* Marking consistent again ends an operation, or comes before its end.    *)
LEMMA AtUnmark ==
  ASSUME TypeOK, Planned, Do(Unmark)
  PROVE  /\ handle = "open"
         /\ \/ todo = UnmarkOnly /\ todo' = Nothing
            \/ todo = HostEnd /\ todo' = TuneEnd
            \/ todo = TuneEnd /\ todo' = TaintOnly
<1>1. /\ handle = "open" /\ First(todo) = Unmark /\ todo' = Rest(todo)
      /\ todo \in {TuneEnd, TaintOnly} \cup Begins \cup Middles
  BY OpenStep
<1>2. todo \notin Begins
  BY <1>1, Keys, Numbers DEF Begins
<1>3. QED
  BY <1>1, <1>2, Keys, Numbers DEF Middles

(* Blocks are moved to shrink, or to make room for a journal.              *)
LEMMA AtMove ==
  ASSUME TypeOK, Planned, Do(Move)
  PROVE  /\ handle = "open"
         /\ \/ todo = ShrinkMove /\ todo' = ResizeBits
            \/ todo = HostMove /\ todo' = HostDrop
<1>1. /\ handle = "open" /\ First(todo) = Move /\ todo' = Rest(todo)
      /\ todo \in {TuneEnd, TaintOnly} \cup Begins \cup Middles
  BY OpenStep
<1>2. todo \notin Begins
  BY <1>1, Keys, Numbers DEF Begins
<1>3. QED
  BY <1>1, <1>2, Keys, Numbers DEF Middles

(* The tree is filled in between the two marks.                            *)
LEMMA AtFillTree ==
  ASSUME TypeOK, Planned, Do(FillTree)
  PROVE  /\ handle = "open"
         /\ todo = CopyFill /\ todo' = UnmarkOnly
<1>1. /\ handle = "open" /\ First(todo) = FillTree /\ todo' = Rest(todo)
      /\ todo \in {TuneEnd, TaintOnly} \cup Begins \cup Middles
  BY OpenStep
<1>2. todo \notin Begins
  BY <1>1, Keys, Numbers DEF Begins
<1>3. QED
  BY <1>1, <1>2, Keys, Numbers DEF Middles

(* The bitmap is resized before the length is set.                         *)
LEMMA AtBits ==
  ASSUME TypeOK, Planned, Do(Bits)
  PROVE  /\ handle = "open"
         /\ todo = ResizeBits /\ todo' = ResizeEnd
<1>1. /\ handle = "open" /\ First(todo) = Bits /\ todo' = Rest(todo)
      /\ todo \in {TuneEnd, TaintOnly} \cup Begins \cup Middles
  BY OpenStep
<1>2. todo \notin Begins
  BY <1>1, Keys, Numbers DEF Begins
<1>3. QED
  BY <1>1, <1>2, Keys, Numbers DEF Middles

(* The length is the last thing a resize sets.                             *)
LEMMA AtLength ==
  ASSUME TypeOK, Planned, Do(Length)
  PROVE  /\ handle = "open"
         /\ todo = ResizeEnd /\ todo' = UnmarkOnly
<1>1. /\ handle = "open" /\ First(todo) = Length /\ todo' = Rest(todo)
      /\ todo \in {TuneEnd, TaintOnly} \cup Begins \cup Middles
  BY OpenStep
<1>2. todo \notin Begins
  BY <1>1, Keys, Numbers DEF Begins
<1>3. QED
  BY <1>1, <1>2, Keys, Numbers DEF Middles

(* The old journal is closed when one is made anew.                        *)
LEMMA AtDrop ==
  ASSUME TypeOK, Planned, Do(Drop)
  PROVE  /\ handle = "open"
         /\ \/ todo = HostDrop /\ todo' = HostWipe
            \/ todo = AwayDrop /\ todo' = AwayWipe
            \/ todo = AnewDrop /\ todo' = AnewWipe
<1>1. /\ handle = "open" /\ First(todo) = Drop /\ todo' = Rest(todo)
      /\ todo \in {TuneEnd, TaintOnly} \cup Begins \cup Middles
  BY OpenStep
<1>2. todo \notin Begins
  BY <1>1, Keys, Numbers DEF Begins
<1>3. QED
  BY <1>1, <1>2, Keys, Numbers DEF Middles

(* The area is taken once the journal's header is written.                 *)
LEMMA AtUse ==
  ASSUME TypeOK, Planned, Do(Use)
  PROVE  /\ handle = "open"
         /\ todo = HostUse /\ todo' = HostEnd
<1>1. /\ handle = "open" /\ First(todo) = Use /\ todo' = Rest(todo)
      /\ todo \in {TuneEnd, TaintOnly} \cup Begins \cup Middles
  BY OpenStep
<1>2. todo \notin Begins
  BY <1>1, Keys, Numbers DEF Begins
<1>3. QED
  BY <1>1, <1>2, Keys, Numbers DEF Middles

(* The area is given up once the other journal's header is written.        *)
LEMMA AtReserve ==
  ASSUME TypeOK, Planned, Do(Reserve)
  PROVE  /\ handle = "open"
         /\ todo = AwayReserve /\ todo' = TuneEnd
<1>1. /\ handle = "open" /\ First(todo) = Reserve /\ todo' = Rest(todo)
      /\ todo \in {TuneEnd, TaintOnly} \cup Begins \cup Middles
  BY OpenStep
<1>2. todo \notin Begins
  BY <1>1, Keys, Numbers DEF Begins
<1>3. QED
  BY <1>1, <1>2, Keys, Numbers DEF Middles

(* New parameters are set between the two marks.                           *)
LEMMA AtRenew ==
  ASSUME TypeOK, Planned, Do(Renew)
  PROVE  /\ handle = "open"
         /\ todo = RenewSet /\ todo' = TuneEnd
<1>1. /\ handle = "open" /\ First(todo) = Renew /\ todo' = Rest(todo)
      /\ todo \in {TuneEnd, TaintOnly} \cup Begins \cup Middles
  BY OpenStep
<1>2. todo \notin Begins
  BY <1>1, Keys, Numbers DEF Begins
<1>3. QED
  BY <1>1, <1>2, Keys, Numbers DEF Middles

(* Everything is made dirty as the last step of a tuning.                  *)
LEMMA AtTaint ==
  ASSUME TypeOK, Planned, Do(Taint)
  PROVE  /\ handle = "open"
         /\ todo = TaintOnly /\ todo' = Nothing
<1>1. /\ handle = "open" /\ First(todo) = Taint /\ todo' = Rest(todo)
      /\ todo \in {TuneEnd, TaintOnly} \cup Begins \cup Middles
  BY OpenStep
<1>2. todo \notin Begins
  BY <1>1, Keys, Numbers DEF Begins
<1>3. QED
  BY <1>1, <1>2, Keys, Numbers DEF Middles

(* A journal is filled before its header is written.                       *)
LEMMA AtWipe ==
  ASSUME TypeOK, Planned, Do(Wipe)
  PROVE  \/ /\ handle = "open"
            /\ \/ todo = HostWipe /\ todo' = HostHeader
               \/ todo = AwayWipe /\ todo' = AwayHeader
               \/ todo = AnewWipe /\ todo' = AnewHeader
         \/ handle = "creating" /\ todo = MakeWipe /\ todo' = MakeHeader
<1>1. todo # Nothing /\ First(todo) = Wipe /\ todo' = Rest(todo)
  BY Doing
<1>2. handle \in {"creating", "open"}
  BY <1>1, SomeHandle, ClosingFirst, Numbers
<1>3. CASE handle = "creating"
  BY <1>1, <1>3, Keys, Numbers DEF Planned, Makes
<1>4. CASE handle = "open"
  <2>1. todo \in {TuneEnd, TaintOnly} \cup Begins \cup Middles
    BY <1>1, <1>4 DEF Planned
  <2>2. todo \notin Begins
    BY <1>1, Keys, Numbers DEF Begins
  <2>3. QED
    BY <1>1, <1>4, <2>1, <2>2, Keys, Numbers DEF Middles
<1>5. QED
  BY <1>2, <1>3, <1>4

(* A journal's header is written after it was filled.                      *)
LEMMA AtHeader ==
  ASSUME TypeOK, Planned, Do(Header)
  PROVE  \/ /\ handle = "open"
            /\ \/ todo = HostHeader /\ todo' = HostUse
               \/ todo = AwayHeader /\ todo' = AwayReserve
               \/ todo = AnewHeader /\ todo' = TuneEnd
         \/ handle = "creating" /\ todo = MakeHeader /\ todo' = MakePlant
<1>1. todo # Nothing /\ First(todo) = Header /\ todo' = Rest(todo)
  BY Doing
<1>2. handle \in {"creating", "open"}
  BY <1>1, SomeHandle, ClosingFirst, Numbers
<1>3. CASE handle = "creating"
  BY <1>1, <1>3, Keys, Numbers DEF Planned, Makes
<1>4. CASE handle = "open"
  <2>1. todo \in {TuneEnd, TaintOnly} \cup Begins \cup Middles
    BY <1>1, <1>4 DEF Planned
  <2>2. todo \notin Begins
    BY <1>1, Keys, Numbers DEF Begins
  <2>3. QED
    BY <1>1, <1>4, <2>1, <2>2, Keys, Numbers DEF Middles
<1>5. QED
  BY <1>2, <1>3, <1>4

(* The tree is planted after the journal was created.                      *)
LEMMA AtPlant ==
  ASSUME TypeOK, Planned, Do(Plant)
  PROVE  handle = "creating" /\ todo = MakePlant /\ todo' = MakeSuper
<1>1. todo # Nothing /\ First(todo) = Plant /\ todo' = Rest(todo)
  BY Doing
<1>2. handle \in {"creating", "open"}
  BY <1>1, SomeHandle, ClosingFirst, Numbers
<1>3. handle # "open"
  <2>1. handle = "open" => todo \in {TuneEnd, TaintOnly} \cup Begins \cup Middles
    BY <1>1 DEF Planned
  <2>2. todo \notin Begins
    BY <1>1, Keys, Numbers DEF Begins
  <2>3. QED
    BY <1>1, <2>1, <2>2, Keys, Numbers DEF Middles
<1>4. handle = "creating" /\ todo \in Makes
  BY <1>2, <1>3 DEF Planned
<1>5. QED
  BY <1>1, <1>4, Keys, Numbers DEF Makes

(* Creating a filesystem ends with everything written.                     *)
LEMMA AtDone ==
  ASSUME TypeOK, Planned, Do(Done)
  PROVE  handle = "creating" /\ todo = MakeDone /\ todo' = Nothing
<1>1. todo # Nothing /\ First(todo) = Done /\ todo' = Rest(todo)
  BY Doing
<1>2. handle \in {"creating", "open"}
  BY <1>1, SomeHandle, ClosingFirst, Numbers
<1>3. handle # "open"
  <2>1. handle = "open" => todo \in {TuneEnd, TaintOnly} \cup Begins \cup Middles
    BY <1>1 DEF Planned
  <2>2. todo \notin Begins
    BY <1>1, Keys, Numbers DEF Begins
  <2>3. QED
    BY <1>1, <2>1, <2>2, Keys, Numbers DEF Middles
<1>4. handle = "creating" /\ todo \in Makes
  BY <1>2, <1>3 DEF Planned
<1>5. QED
  BY <1>1, <1>4, Keys, Numbers DEF Makes

(* The super block is written when creating and when closing.              *)
LEMMA AtPutSuper ==
  ASSUME TypeOK, Planned, Do(PutSuper)
  PROVE  \/ handle = "creating" /\ todo = MakeSuper /\ todo' = MakeBitmap
         \/ /\ handle = "closing" /\ "super" \in dirty
            /\ todo' = ClosePlan(dirty \ {"super"})
<1>1. todo # Nothing /\ First(todo) = PutSuper /\ todo' = Rest(todo)
  BY Doing
<1>2. handle # "open"
  <2>1. handle = "open" => todo \in {TuneEnd, TaintOnly} \cup Begins \cup Middles
    BY <1>1 DEF Planned
  <2>2. todo \notin Begins
    BY <1>1, Keys, Numbers DEF Begins
  <2>3. QED
    BY <1>1, <2>1, <2>2, Keys, Numbers DEF Middles
<1>3. CASE handle = "creating"
  BY <1>1, <1>3, Keys, Numbers DEF Planned, Makes
<1>4. CASE handle = "closing"
  <2>1. todo # <<Free>>
    BY <1>1, CloseFirst, Numbers
  <2>2. todo = ClosePlan(dirty)
    BY <1>4, <2>1 DEF Planned, ClosePlan
  <2>3. ClosePlan(dirty) # <<Free>>
    BY <2>1, <2>2
  <2>4. PutSuper # PutBitmap /\ PutSuper # PutJournal /\ PutBitmap # PutJournal
    BY Numbers
  <2>5. QED
    BY <1>1, <1>4, <2>2, <2>3, <2>4, CloseShape, Zenon
<1>5. QED
  BY <1>1, <1>2, <1>3, <1>4, SomeHandle

(* The bitmap is written after the super block.                            *)
LEMMA AtPutBitmap ==
  ASSUME TypeOK, Planned, Do(PutBitmap)
  PROVE  \/ handle = "creating" /\ todo = MakeBitmap /\ todo' = MakeDone
         \/ /\ handle = "closing" /\ "super" \notin dirty /\ "bitmap" \in dirty
            /\ todo' = ClosePlan(dirty \ {"bitmap"})
<1>1. todo # Nothing /\ First(todo) = PutBitmap /\ todo' = Rest(todo)
  BY Doing
<1>2. handle # "open"
  <2>1. handle = "open" => todo \in {TuneEnd, TaintOnly} \cup Begins \cup Middles
    BY <1>1 DEF Planned
  <2>2. todo \notin Begins
    BY <1>1, Keys, Numbers DEF Begins
  <2>3. QED
    BY <1>1, <2>1, <2>2, Keys, Numbers DEF Middles
<1>3. CASE handle = "creating"
  BY <1>1, <1>3, Keys, Numbers DEF Planned, Makes
<1>4. CASE handle = "closing"
  <2>1. todo # <<Free>>
    BY <1>1, CloseFirst, Numbers
  <2>2. todo = ClosePlan(dirty)
    BY <1>4, <2>1 DEF Planned, ClosePlan
  <2>3. ClosePlan(dirty) # <<Free>>
    BY <2>1, <2>2
  <2>4. PutSuper # PutBitmap /\ PutSuper # PutJournal /\ PutBitmap # PutJournal
    BY Numbers
  <2>5. QED
    BY <1>1, <1>4, <2>2, <2>3, <2>4, CloseShape, Zenon
<1>5. QED
  BY <1>1, <1>2, <1>3, <1>4, SomeHandle

(* The journal is the last dirty part that closing writes.                 *)
LEMMA AtPutJournal ==
  ASSUME TypeOK, Planned, Do(PutJournal)
  PROVE  /\ handle = "closing" /\ "super" \notin dirty /\ "bitmap" \notin dirty
         /\ "journal" \in dirty /\ journal # None
         /\ todo' = ClosePlan(dirty \ {"journal"})
<1>1. todo # Nothing /\ First(todo) = PutJournal /\ todo' = Rest(todo)
  BY Doing
<1>2. handle # "open"
  <2>1. handle = "open" => todo \in {TuneEnd, TaintOnly} \cup Begins \cup Middles
    BY <1>1 DEF Planned
  <2>2. todo \notin Begins
    BY <1>1, Keys, Numbers DEF Begins
  <2>3. QED
    BY <1>1, <2>1, <2>2, Keys, Numbers DEF Middles
<1>3. CASE handle = "creating"
  BY <1>1, <1>3, Keys, Numbers DEF Planned, Makes
<1>4. CASE handle = "closing"
  <2>1. todo # <<Free>>
    BY <1>1, CloseFirst, Numbers
  <2>2. todo = ClosePlan(dirty)
    BY <1>4, <2>1 DEF Planned, ClosePlan
  <2>3. ClosePlan(dirty) # <<Free>>
    BY <2>1, <2>2
  <2>4. PutSuper # PutBitmap /\ PutSuper # PutJournal /\ PutBitmap # PutJournal
    BY Numbers
  <2>5. QED
    BY <1>1, <1>4, <2>2, <2>3, <2>4, CloseShape, Zenon
<1>5. QED
  BY <1>1, <1>2, <1>3, <1>4, SomeHandle

(* A handle is released when nothing dirty is left, or nothing can be.     *)
LEMMA AtFree ==
  ASSUME TypeOK, Planned, Do(Free)
  PROVE  /\ handle = "closing" /\ todo' = Nothing
         /\ lost \/ ("super" \notin dirty /\ "bitmap" \notin dirty
                    /\ ("journal" \notin dirty \/ journal = None))
<1>1. todo # Nothing /\ First(todo) = Free /\ todo' = Rest(todo)
  BY Doing
<1>2. handle # "open"
  <2>1. handle = "open" => todo \in {TuneEnd, TaintOnly} \cup Begins \cup Middles
    BY <1>1 DEF Planned
  <2>2. todo \notin Begins
    BY <1>1, Keys, Numbers DEF Begins
  <2>3. QED
    BY <1>1, <2>1, <2>2, Keys, Numbers DEF Middles
<1>3. handle = "closing"
  BY <1>1, <1>2, MakingFirst, SomeHandle, Numbers
<1>4. CASE todo = <<Free>> /\ lost
  BY <1>1, <1>3, <1>4, CloseFirst DEF Nothing
<1>5. CASE todo = ClosePlan(dirty)
  <2>1. /\ "super" \notin dirty /\ "bitmap" \notin dirty
        /\ "journal" \notin dirty \/ journal = None
    <3>1. PutSuper # Free /\ PutBitmap # Free /\ PutJournal # Free
      BY Numbers
    <3>2. QED
      BY <1>1, <1>5, <3>1, CloseShape, Zenon
  <2>2. todo = <<Free>>
    BY <1>5, <2>1, CloseShape
  <2>3. QED
    BY <1>1, <1>3, <2>1, <2>2, CloseFirst DEF Nothing
<1>6. QED
  BY <1>3, <1>4, <1>5 DEF Planned, ClosePlan

-----------------------------------------------------------------------------
(* A record of which one component is replaced.                            *)
LEMMA BitmapWith ==
  ASSUME NEW b \in Bitmaps
  PROVE  /\ \A n \in Lens \cup {0} :
              /\ [b EXCEPT !.len = n] \in Bitmaps /\ [b EXCEPT !.len = n].len = n
              /\ [b EXCEPT !.len = n].tree = b.tree /\ [b EXCEPT !.len = n].area = b.area
         /\ \A p \in 0..MaxFresh :
              /\ [b EXCEPT !.tree = p] \in Bitmaps /\ [b EXCEPT !.tree = p].tree = p
              /\ [b EXCEPT !.tree = p].len = b.len /\ [b EXCEPT !.tree = p].area = b.area
         /\ \A l \in JLens :
              /\ [b EXCEPT !.area = l + 1] \in Bitmaps /\ [b EXCEPT !.area = l + 1].area = l + 1
              /\ [b EXCEPT !.area = l + 1].len = b.len /\ [b EXCEPT !.area = l + 1].tree = b.tree
BY DEF Bitmaps

(* A super block with some of its fields changed is a super block.         *)
LEMMA SuperWith ==
  ASSUME NEW s \in Supers, NEW h \in Heads
  PROVE  /\ [s EXCEPT !.jp = h] \in Supers /\ [s EXCEPT !.jp = h].jp = h
         /\ [s EXCEPT !.jp = h].state = s.state /\ [s EXCEPT !.jp = h].len = s.len
         /\ [s EXCEPT !.jp = h].kind = s.kind /\ [s EXCEPT !.jp = h].reserved = s.reserved
BY DEF Supers, Heads

(* A new journal header is one, and it has the number it was given.        *)
LEMMA NewHeader ==
  ASSUME NEW l \in JLens, NEW m \in 0..MaxFresh
  PROVE  /\ [len |-> l, magic |-> m] \in Heads /\ [len |-> l, magic |-> m] # None
         /\ [len |-> l, magic |-> m].len = l /\ [len |-> l, magic |-> m].magic = m
BY MaxFreshAssumption DEF Heads, None

(* What writing a journal header does to each part.                        *)
LEMMA HeaderWrites ==
  ASSUME TypeOK, WriteHeader, fresh + 1 <= MaxFresh,
         ask.kind \in Kinds, ask.jlen \in JLens
  PROVE  /\ fresh' = fresh + 1 /\ fresh' \in 0..MaxFresh
         /\ super' \in Supers /\ super'.jp = journal' /\ super'.len = super.len
         /\ super'.kind = super.kind /\ super'.state = super.state
         /\ super'.reserved = super.reserved
         /\ journal' \in Heads /\ journal' # None /\ journal'.len = ask.jlen
         /\ heads' \in [Kinds \X JLens -> Heads] /\ heads'[ask.kind, ask.jlen] = journal'
         /\ bitmap' \in Bitmaps /\ bitmap'.len = bitmap.len /\ bitmap'.tree = bitmap.tree
         /\ bitmap'.area = IF ask.kind = "standard" THEN ask.jlen + 1 ELSE bitmap.area
         /\ dirty' \subseteq Parts
         /\ "bitmap" \notin dirty' => "bitmap" \notin dirty /\ bitmap' = bitmap
         /\ dirty' \ {"journal"} = (IF ask.kind = "standard" THEN dirty \cup {"bitmap"} ELSE dirty)
                                     \ {"journal"}
         /\ "journal" \notin dirty'
<1>1. fresh' = fresh + 1 /\ fresh' \in 0..MaxFresh
  <2>1. fresh \in 0..MaxFresh
    BY DEF TypeOK
  <2>2. fresh' = fresh + 1
    BY DEF WriteHeader
  <2>3. QED
    BY <2>1, <2>2, MaxFreshAssumption
<1>2. journal' = [len |-> ask.jlen, magic |-> fresh'] /\ super' = [super EXCEPT !.jp = journal']
  BY DEF WriteHeader
<1>3. journal' \in Heads /\ journal' # None /\ journal'.len = ask.jlen
  BY <1>1, <1>2, NewHeader
<1>4. super \in Supers /\ bitmap \in Bitmaps /\ dirty \subseteq Parts
  BY DEF TypeOK
<1>5. /\ super' \in Supers /\ super'.jp = journal' /\ super'.len = super.len
      /\ super'.kind = super.kind /\ super'.state = super.state
      /\ super'.reserved = super.reserved
  BY <1>2, <1>3, <1>4, SuperWith
<1>6. heads' \in [Kinds \X JLens -> Heads] /\ heads'[ask.kind, ask.jlen] = journal'
  <2>1. heads' = [heads EXCEPT ![<<ask.kind, ask.jlen>>] = journal']
    BY DEF WriteHeader
  <2>2. heads \in [Kinds \X JLens -> Heads] /\ <<ask.kind, ask.jlen>> \in Kinds \X JLens
    BY DEF TypeOK
  <2>3. QED
    BY <1>3, <2>1, <2>2
<1>7. CASE ask.kind = "standard"
  <2>1. bitmap' = [bitmap EXCEPT !.area = ask.jlen + 1]
        /\ dirty' = (dirty \cup {"bitmap"}) \ {"journal"}
    BY <1>7 DEF WriteHeader
  <2>2. /\ bitmap' \in Bitmaps /\ bitmap'.len = bitmap.len /\ bitmap'.tree = bitmap.tree
        /\ bitmap'.area = ask.jlen + 1
    BY <1>4, <2>1, BitmapWith
  <2>3. /\ dirty' \subseteq Parts /\ "bitmap" \in dirty' /\ "journal" \notin dirty'
        /\ dirty' \ {"journal"} = (dirty \cup {"bitmap"}) \ {"journal"}
    BY <1>4, <2>1 DEF Parts
  <2>4. QED
    BY <1>1, <1>3, <1>5, <1>6, <1>7, <2>2, <2>3
<1>8. CASE ask.kind # "standard"
  <2>1. bitmap' = bitmap /\ dirty' = dirty \ {"journal"}
    BY <1>8 DEF WriteHeader
  <2>2. QED
    BY <1>1, <1>3, <1>4, <1>5, <1>6, <1>8, <2>1
<1>9. QED
  BY <1>7, <1>8

-----------------------------------------------------------------------------
(* The steps of a call on an open handle preserve the invariant.            *)
LEMMA MarkPreserves ==
  ASSUME IInv, StateUpdate("corrupted")
  PROVE  IInv'
<1>1. /\ handle = "open" /\ handle' = "open"
      /\ \/ todo = GrowBegin /\ todo' = ResizeBits
         \/ todo = ShrinkBegin /\ todo' = ShrinkMove
         \/ todo = CopyBegin /\ todo' = CopyFill
         \/ todo = HostBeginMove /\ todo' = HostMove
         \/ todo = HostBegin /\ todo' = HostDrop
         \/ todo = AwayBegin /\ todo' = AwayDrop
         \/ todo = AnewBegin /\ todo' = AnewDrop
         \/ todo = RenewBegin /\ todo' = RenewSet
         \/ todo = SameBegin /\ todo' = TuneEnd
  BY AtMark DEF IInv, Typed, StateUpdate, Mark
<1>2. UNCHANGED <<dbitmap, heads, placement, bitmap, journal, ask, fresh, tuned, half, lost, lagged>>
  BY DEF StateUpdate, device, memory, history
<1>3. /\ super' \in Supers /\ super'.state = "corrupted"
      /\ super'.len = super.len /\ super'.kind = super.kind /\ super'.jp = super.jp
      /\ super'.reserved = super.reserved
      /\ dsuper' = super' /\ dirty' = dirty \ {"super"}
  BY DEF StateUpdate, IInv, Typed, TypeOK, Supers
<1>4. Typed'
  <2>1. TypeOK'
    BY <1>1, <1>2, <1>3 DEF IInv, Typed, TypeOK, Parts
  <2>2. QED
    BY <1>1, <1>2, <1>3, <2>1 DEF IInv, Typed, Real, BitmapStored, Fits
<1>5. Planned'
  BY <1>1 DEF Planned, Middles
<1>6. Roomy'
  BY <1>1, <1>2, <1>3, Keys DEF IInv, Roomy, Hosts, Aways, Anews, Renews
<1>7. Asked'
  BY <1>1, <1>2, <1>3, Keys DEF IInv, Asked, Resizes, Hosts, Aways, Anews, Renews
<1>8. MarkedRight'
  <2>1. HeaderStored
    BY <1>1, Keys DEF IInv, MarkedRight, Marked, Begins, Middles, Keeps
  <2>2. Marked("corrupted")' /\ HeaderStored'
    BY <1>1, <1>2, <1>3, <2>1 DEF Marked, HeaderStored, SuperStored
  <2>3. QED
    BY <1>1, <2>2, Keys DEF MarkedRight, Begins, Middles, Keeps
<1>9. HalfMarked'
  BY <1>1, <1>2 DEF IInv, HalfMarked
<1>10. OpenFits'
  <2>1. SUFFICES ASSUME ~lost  PROVE OpenFits'
    BY <1>2 DEF OpenFits
  <2>2. /\ LengthFits /\ TreeFits /\ JournalFits /\ HeaderStored /\ AreaFits
        /\ todo \in {CopyBegin, SameBegin} \cup Resizes => TunedFits
        /\ todo \in Aways => bitmap.area = ask.old + 1
    BY <1>1, <2>1, Keys DEF IInv, Asked, OpenFits, MarkedRight, Marked, Begins, Middles,
       Keeps, Shifted, Resizes, Hosts, Aways, Anews, Renews
  <2>3. /\ LengthFits' /\ TreeFits' /\ JournalFits' /\ HeaderStored' /\ AreaFits'
        /\ TunedFits = TunedFits'
    BY <1>1, <1>2, <1>3, <2>2 DEF LengthFits, Fits, TreeFits, AreaFits, Area, JournalFits,
       HeaderStored, TunedFits
  <2>4. QED
    BY <1>1, <1>2, <1>3, <2>2, <2>3, Keys DEF OpenFits, Begins, Middles, Keeps, Shifted,
       Resizes, Hosts, Aways, Anews, Renews
<1>11. MakeFits' /\ MadeFits' /\ FinalFits'
  BY <1>1 DEF MakeFits, MadeFits, FinalFits
<1>12. QED
  BY <1>4, <1>5, <1>6, <1>7, <1>8, <1>9, <1>10, <1>11 DEF IInv

(* Marking the filesystem consistent preserves the invariant.              *)
LEMMA UnmarkPreserves ==
  ASSUME IInv, StateUpdate("consistent")
  PROVE  IInv'
<1>1. /\ handle = "open" /\ handle' = "open"
      /\ \/ todo = UnmarkOnly /\ todo' = Nothing
         \/ todo = HostEnd /\ todo' = TuneEnd
         \/ todo = TuneEnd /\ todo' = TaintOnly
  BY AtUnmark DEF IInv, Typed, StateUpdate, Unmark
<1>2. UNCHANGED <<dbitmap, heads, placement, bitmap, journal, ask, fresh, tuned, half, lost, lagged>>
  BY DEF StateUpdate, device, memory, history
<1>3. /\ super' \in Supers /\ super'.state = "consistent"
      /\ super'.len = super.len /\ super'.kind = super.kind /\ super'.jp = super.jp
      /\ super'.reserved = super.reserved
      /\ dsuper' = super' /\ dirty' = dirty \ {"super"}
  BY DEF StateUpdate, IInv, Typed, TypeOK, Supers
<1>4. Typed'
  <2>1. TypeOK'
    BY <1>1, <1>2, <1>3 DEF IInv, Typed, TypeOK, Parts
  <2>2. QED
    BY <1>1, <1>2, <1>3, <2>1 DEF IInv, Typed, Real, BitmapStored, Fits
<1>5. Planned'
  BY <1>1 DEF Planned, Middles
<1>6. Roomy'
  BY <1>1, <1>2, <1>3, Keys DEF IInv, Roomy, Hosts, Aways, Anews, Renews
<1>7. Asked'
  BY <1>1, <1>2, <1>3, Keys DEF IInv, Asked, Resizes, Hosts, Aways, Anews, Renews
<1>8. MarkedRight'
  <2>1. todo = UnmarkOnly => HeaderStored
    BY <1>1, Keys DEF IInv, MarkedRight, Marked, Begins, Middles, Keeps
  <2>2. /\ dsuper' = super' /\ super'.state = "consistent" /\ Marked("consistent")'
        /\ SuperStored' /\ (todo = UnmarkOnly => HeaderStored')
    BY <1>1, <1>2, <1>3, <2>1 DEF Marked, HeaderStored, SuperStored
  <2>3. QED
    BY <1>1, <2>2, Keys DEF MarkedRight, Begins, Middles, Keeps
<1>9. HalfMarked'
  BY <1>1, <1>2 DEF IInv, HalfMarked
<1>10. OpenFits'
  <2>1. SUFFICES ASSUME ~lost  PROVE OpenFits'
    BY <1>2 DEF OpenFits
  <2>2. /\ LengthFits /\ TreeFits /\ JournalFits /\ AreaFits /\ TunedFits
        /\ todo = HostEnd => HeaderStored
    BY <1>1, <2>1, Keys DEF IInv, Asked, OpenFits, MarkedRight, Marked, Begins, Middles,
       Keeps, Shifted, Resizes, Hosts, Aways, Anews, Renews
  <2>3. /\ LengthFits' /\ TreeFits' /\ JournalFits' /\ AreaFits' /\ TunedFits'
        /\ todo = HostEnd => HeaderStored'
    BY <1>1, <1>2, <1>3, <2>2 DEF LengthFits, Fits, TreeFits, AreaFits, Area, JournalFits,
       HeaderStored, TunedFits
  <2>4. QED
    BY <1>1, <1>2, <1>3, <2>2, <2>3, Keys DEF OpenFits, Begins, Middles, Keeps, Shifted,
       Resizes, Hosts, Aways, Anews, Renews
<1>11. MakeFits' /\ MadeFits' /\ FinalFits'
  BY <1>1 DEF MakeFits, MadeFits, FinalFits
<1>12. QED
  BY <1>4, <1>5, <1>6, <1>7, <1>8, <1>9, <1>10, <1>11 DEF IInv

(* Moving blocks preserves the invariant.                                  *)
LEMMA MovePreserves ==
  ASSUME IInv, Relocate
  PROVE  IInv'
<1>1. /\ handle = "open" /\ handle' = "open"
      /\ \/ todo = ShrinkMove /\ todo' = ResizeBits
         \/ todo = HostMove /\ todo' = HostDrop
  BY AtMove DEF IInv, Typed, Relocate, Move
<1>2. UNCHANGED <<dsuper, dbitmap, heads, super, journal, ask, tuned, half, lost, lagged>>
  BY DEF Relocate, device, memory, history
<1>3. \/ UNCHANGED <<placement, bitmap, dirty, fresh>>
      \/ /\ fresh' = fresh + 1 /\ placement' = fresh' /\ dirty' = dirty \cup {"bitmap"}
         /\ bitmap'.len = bitmap.len /\ bitmap'.area = bitmap.area
         /\ bitmap.tree = placement => bitmap'.tree = placement'
      /\ fresh \in Nat /\ bitmap' \in Bitmaps /\ placement' \in 0..MaxFresh /\ fresh' \in 0..MaxFresh
  <2>1. fresh \in Nat /\ fresh + 1 \in 0..MaxFresh /\ 0 \in 0..MaxFresh
    BY <1>1, Keys, MaxFreshAssumption DEF IInv, Typed, TypeOK, Roomy
  <2>2. bitmap \in Bitmaps /\ placement \in 0..MaxFresh /\ fresh \in 0..MaxFresh
    BY DEF IInv, Typed, TypeOK
  <2>3. CASE UNCHANGED <<placement, bitmap, dirty, fresh>>
    BY <2>1, <2>2, <2>3
  <2>4. CASE fresh' = fresh + 1 /\ placement' = fresh' /\ bitmap' = Following(bitmap, fresh')
             /\ dirty' = dirty \cup {"bitmap"}
    <3>1. CASE bitmap.tree = placement
      <4>1. bitmap' = [bitmap EXCEPT !.tree = fresh + 1]
        BY <2>4, <3>1 DEF Following
      <4>2. /\ bitmap' \in Bitmaps /\ bitmap'.tree = fresh + 1
            /\ bitmap'.len = bitmap.len /\ bitmap'.area = bitmap.area
        BY <2>1, <2>2, <4>1, BitmapWith
      <4>3. QED
        BY <2>1, <2>4, <4>2
    <3>2. CASE bitmap.tree # placement
      <4>1. bitmap' = [bitmap EXCEPT !.tree = 0]
        BY <2>4, <3>2 DEF Following
      <4>2. /\ bitmap' \in Bitmaps /\ bitmap'.tree = 0
            /\ bitmap'.len = bitmap.len /\ bitmap'.area = bitmap.area
        BY <2>1, <2>2, <4>1, BitmapWith
      <4>3. QED
        BY <2>1, <2>4, <3>2, <4>2
    <3>3. QED
      BY <3>1, <3>2
  <2>5. QED
    BY <2>1, <2>3, <2>4 DEF Relocate
<1>4. Typed'
  <2>1. TypeOK'
    BY <1>1, <1>2, <1>3 DEF IInv, Typed, TypeOK, Parts
  <2>2. QED
    BY <1>1, <1>2, <1>3, <2>1 DEF IInv, Typed, Real, BitmapStored, Fits
<1>5. Planned'
  BY <1>1 DEF Planned, Middles
<1>6. Roomy'
  BY <1>1, <1>2, <1>3, Keys DEF IInv, Roomy, Hosts, Aways, Anews, Renews
<1>7. Asked'
  BY <1>1, <1>2, <1>3, Keys DEF IInv, Asked, Resizes, Hosts, Aways, Anews, Renews
<1>8. MarkedRight'
  <2>1. dsuper.state = "corrupted" /\ super.state = "corrupted" /\ (todo = ShrinkMove => HeaderStored)
    BY <1>1, Keys DEF IInv, MarkedRight, Marked, Begins, Middles, Keeps
  <2>2. Marked("corrupted")' /\ (todo = ShrinkMove => HeaderStored')
    BY <1>1, <1>2, <1>3, <2>1 DEF Marked, HeaderStored, SuperStored
  <2>3. QED
    BY <1>1, <2>2, Keys DEF MarkedRight, Begins, Middles, Keeps
<1>9. HalfMarked'
  BY <1>1, <1>2 DEF IInv, HalfMarked
<1>10. OpenFits'
  <2>1. SUFFICES ASSUME ~lost  PROVE OpenFits'
    BY <1>2 DEF OpenFits
  <2>2. /\ LengthFits /\ TreeFits
        /\ todo = ShrinkMove => JournalFits /\ AreaFits /\ TunedFits
    BY <1>1, <2>1, Keys DEF IInv, Asked, OpenFits, MarkedRight, Marked, Begins, Middles,
       Keeps, Shifted, Resizes, Hosts, Aways, Anews, Renews
  <2>3. /\ LengthFits' /\ TreeFits'
        /\ todo = ShrinkMove => JournalFits' /\ AreaFits' /\ TunedFits'
    BY <1>1, <1>2, <1>3, <2>2 DEF LengthFits, Fits, TreeFits, AreaFits, Area, JournalFits,
       HeaderStored, TunedFits
  <2>4. QED
    BY <1>1, <1>2, <1>3, <2>2, <2>3, Keys DEF OpenFits, Begins, Middles, Keeps, Shifted,
       Resizes, Hosts, Aways, Anews, Renews
<1>11. MakeFits' /\ MadeFits' /\ FinalFits'
  BY <1>1 DEF MakeFits, MadeFits, FinalFits
<1>12. QED
  BY <1>4, <1>5, <1>6, <1>7, <1>8, <1>9, <1>10, <1>11 DEF IInv

(* Resizing the bitmap preserves the invariant.                            *)
LEMMA BitsPreserves ==
  ASSUME IInv, ResizeBitmap
  PROVE  IInv'
<1>1. /\ handle = "open" /\ handle' = "open"
      /\ todo = ResizeBits /\ todo' = ResizeEnd
  BY AtBits DEF IInv, Typed, ResizeBitmap, Bits
<1>2. UNCHANGED <<dsuper, dbitmap, heads, placement, super, journal, ask, fresh, tuned,
                  half, lost>>
  BY DEF ResizeBitmap, device, memory, history
<1>3. /\ bitmap' \in Bitmaps /\ bitmap'.tree = bitmap.tree /\ bitmap'.area = bitmap.area
      /\ lagged' \in BOOLEAN /\ Fits(bitmap.len, ask.len)'
      /\ dirty' = dirty \cup {"bitmap"}
  <2>1. ask.len \in Lens
    BY <1>1 DEF IInv, Asked, Resizes
  <2>2. bitmap \in Bitmaps /\ lagged \in BOOLEAN
    BY DEF IInv, Typed, TypeOK
  <2>3. CASE Bytes(ask.len) = Bytes(bitmap.len)
    <3>1. UNCHANGED bitmap /\ lagged' = TRUE /\ dirty' = dirty \cup {"bitmap"}
      BY <2>3 DEF ResizeBitmap
    <3>2. QED
      BY <1>2, <2>2, <2>3, <3>1 DEF Fits
  <2>4. CASE Bytes(ask.len) # Bytes(bitmap.len)
    <3>1. /\ bitmap' = [bitmap EXCEPT !.len = ask.len] /\ lagged' = lagged
          /\ dirty' = dirty \cup {"bitmap"}
      BY <2>4 DEF ResizeBitmap
    <3>2. bitmap' \in Bitmaps /\ bitmap'.tree = bitmap.tree /\ bitmap'.area = bitmap.area
          /\ bitmap'.len = ask.len
      BY <2>1, <2>2, <3>1, BitmapWith
    <3>3. QED
      BY <1>2, <2>2, <3>1, <3>2 DEF Fits
  <2>5. QED
    BY <2>3, <2>4
<1>4. Typed'
  <2>1. TypeOK'
    BY <1>1, <1>2, <1>3 DEF IInv, Typed, TypeOK, Parts
  <2>2. QED
    BY <1>1, <1>2, <1>3, <2>1 DEF IInv, Typed, Real, BitmapStored, Fits
<1>5. Planned'
  BY <1>1 DEF Planned, Middles
<1>6. Roomy'
  BY <1>1, <1>2, <1>3, Keys DEF IInv, Roomy, Hosts, Aways, Anews, Renews
<1>7. Asked'
  BY <1>1, <1>2, <1>3, Keys DEF IInv, Asked, Resizes, Hosts, Aways, Anews, Renews
<1>8. MarkedRight'
  <2>1. dsuper.state = "corrupted" /\ super.state = "corrupted" /\ HeaderStored
    BY <1>1, Keys DEF IInv, MarkedRight, Marked, Begins, Middles, Keeps
  <2>2. Marked("corrupted")' /\ HeaderStored'
    BY <1>1, <1>2, <1>3, <2>1 DEF Marked, HeaderStored, SuperStored
  <2>3. QED
    BY <1>1, <2>2, Keys DEF MarkedRight, Begins, Middles, Keeps
<1>9. HalfMarked'
  BY <1>1, <1>2 DEF IInv, HalfMarked
<1>10. OpenFits'
  <2>1. SUFFICES ASSUME ~lost  PROVE OpenFits'
    BY <1>2 DEF OpenFits
  <2>2. /\ LengthFits /\ TreeFits /\ JournalFits /\ AreaFits /\ TunedFits
    BY <1>1, <2>1, Keys DEF IInv, Asked, OpenFits, MarkedRight, Marked, Begins, Middles,
       Keeps, Shifted, Resizes, Hosts, Aways, Anews, Renews
  <2>3. /\ Fits(bitmap.len, ask.len)' /\ TreeFits'
        /\ JournalFits' /\ AreaFits' /\ TunedFits'
    BY <1>1, <1>2, <1>3, <2>2 DEF TreeFits, AreaFits, Area, JournalFits,
       HeaderStored, TunedFits
  <2>4. QED
    BY <1>1, <1>2, <1>3, <2>2, <2>3, Keys DEF OpenFits, Begins, Middles, Keeps, Shifted,
       Resizes, Hosts, Aways, Anews, Renews
<1>11. MakeFits' /\ MadeFits' /\ FinalFits'
  BY <1>1 DEF MakeFits, MadeFits, FinalFits
<1>12. QED
  BY <1>4, <1>5, <1>6, <1>7, <1>8, <1>9, <1>10, <1>11 DEF IInv

(* Setting the length preserves the invariant.                             *)
LEMMA LengthPreserves ==
  ASSUME IInv, SetLength
  PROVE  IInv'
<1>1. /\ handle = "open" /\ handle' = "open"
      /\ todo = ResizeEnd /\ todo' = UnmarkOnly
  BY AtLength DEF IInv, Typed, SetLength, Length
<1>2. UNCHANGED <<dsuper, dbitmap, heads, placement, bitmap, journal, dirty, ask,
                  fresh, tuned, half, lost, lagged>>
  BY DEF SetLength, device, memory, history
<1>3. /\ super' \in Supers /\ super'.state = super.state /\ super'.len = ask.len /\ ask.len \in Lens
      /\ super'.kind = super.kind /\ super'.jp = super.jp /\ super'.reserved = super.reserved
  <2>1. ask.len \in Lens
    BY <1>1 DEF IInv, Asked, Resizes
  <2>2. super \in Supers
    BY DEF IInv, Typed, TypeOK
  <2>3. QED
    BY <2>1, <2>2 DEF SetLength, Supers
<1>4. Typed'
  <2>1. TypeOK'
    BY <1>1, <1>2, <1>3 DEF IInv, Typed, TypeOK, Parts
  <2>2. "bitmap" \in dirty'
    BY <1>1, <1>2 DEF IInv, Asked
  <2>3. QED
    BY <1>1, <1>2, <1>3, <2>1, <2>2 DEF IInv, Typed, Real
<1>5. Planned'
  BY <1>1 DEF Planned, Middles
<1>6. Roomy'
  BY <1>1, <1>2, <1>3, Keys DEF IInv, Roomy, Hosts, Aways, Anews, Renews
<1>7. Asked'
  BY <1>1, <1>2, <1>3, Keys DEF IInv, Asked, Resizes, Hosts, Aways, Anews, Renews
<1>8. MarkedRight'
  <2>1. dsuper.state = "corrupted" /\ super.state = "corrupted" /\ HeaderStored
    BY <1>1, Keys DEF IInv, MarkedRight, Marked, Begins, Middles, Keeps
  <2>2. Marked("corrupted")' /\ HeaderStored'
    BY <1>1, <1>2, <1>3, <2>1 DEF Marked, HeaderStored, SuperStored
  <2>3. QED
    BY <1>1, <2>2, Keys DEF MarkedRight, Begins, Middles, Keeps
<1>9. HalfMarked'
  BY <1>1, <1>2 DEF IInv, HalfMarked
<1>10. OpenFits'
  <2>1. SUFFICES ASSUME ~lost  PROVE OpenFits'
    BY <1>2 DEF OpenFits
  <2>2. /\ Fits(bitmap.len, ask.len) /\ TreeFits /\ JournalFits /\ AreaFits /\ TunedFits
    BY <1>1, <2>1, Keys DEF IInv, Asked, OpenFits, MarkedRight, Marked, Begins, Middles,
       Keeps, Shifted, Resizes, Hosts, Aways, Anews, Renews
  <2>3. /\ LengthFits' /\ TreeFits' /\ JournalFits' /\ AreaFits' /\ TunedFits'
    BY <1>1, <1>2, <1>3, <2>2 DEF LengthFits, Fits, TreeFits, AreaFits, Area, JournalFits,
       HeaderStored, TunedFits
  <2>4. QED
    BY <1>1, <1>2, <1>3, <2>2, <2>3, Keys DEF OpenFits, Begins, Middles, Keeps, Shifted,
       Resizes, Hosts, Aways, Anews, Renews
<1>11. MakeFits' /\ MadeFits' /\ FinalFits'
  BY <1>1 DEF MakeFits, MadeFits, FinalFits
<1>12. QED
  BY <1>4, <1>5, <1>6, <1>7, <1>8, <1>9, <1>10, <1>11 DEF IInv

(* Closing the old journal preserves the invariant.                        *)
LEMMA DropPreserves ==
  ASSUME IInv, CloseJournal
  PROVE  IInv'
<1>1. /\ handle = "open" /\ handle' = "open"
      /\ \/ todo = HostDrop /\ todo' = HostWipe
         \/ todo = AwayDrop /\ todo' = AwayWipe
         \/ todo = AnewDrop /\ todo' = AnewWipe
  BY AtDrop DEF IInv, Typed, CloseJournal, Drop
<1>2. UNCHANGED <<dsuper, dbitmap, heads, placement, super, bitmap, dirty, ask, fresh,
                  tuned, half, lost, lagged>>
  BY DEF CloseJournal, device, memory, history
<1>3. journal' = None
  BY DEF CloseJournal
<1>4. Typed'
  <2>1. TypeOK'
    BY <1>1, <1>2, <1>3 DEF IInv, Typed, TypeOK, Parts
  <2>2. QED
    BY <1>1, <1>2, <1>3, <2>1 DEF IInv, Typed, Real, BitmapStored, Fits
<1>5. Planned'
  BY <1>1 DEF Planned, Middles
<1>6. Roomy'
  BY <1>1, <1>2, <1>3, Keys DEF IInv, Roomy, Hosts, Aways, Anews, Renews
<1>7. Asked'
  BY <1>1, <1>2, <1>3, Keys DEF IInv, Asked, Resizes, Hosts, Aways, Anews, Renews
<1>8. MarkedRight'
  <2>1. dsuper.state = "corrupted" /\ super.state = "corrupted"
    BY <1>1, Keys DEF IInv, MarkedRight, Marked, Begins, Middles, Keeps
  <2>2. Marked("corrupted")'
    BY <1>1, <1>2, <1>3, <2>1 DEF Marked, HeaderStored, SuperStored
  <2>3. QED
    BY <1>1, <2>2, Keys DEF MarkedRight, Begins, Middles, Keeps
<1>9. HalfMarked'
  BY <1>1, <1>2 DEF IInv, HalfMarked
<1>10. OpenFits'
  <2>1. SUFFICES ASSUME ~lost  PROVE OpenFits'
    BY <1>2 DEF OpenFits
  <2>2. /\ LengthFits /\ TreeFits
        /\ todo = AnewDrop => AreaFits
        /\ todo = AwayDrop => bitmap.area = ask.old + 1
    BY <1>1, <2>1, Keys DEF IInv, Asked, OpenFits, MarkedRight, Marked, Begins, Middles,
       Keeps, Shifted, Resizes, Hosts, Aways, Anews, Renews
  <2>3. /\ LengthFits' /\ TreeFits'
        /\ todo = AnewDrop => AreaFits'
    BY <1>1, <1>2, <1>3, <2>2 DEF LengthFits, Fits, TreeFits, AreaFits, Area, JournalFits,
       HeaderStored, TunedFits
  <2>4. QED
    BY <1>1, <1>2, <1>3, <2>2, <2>3, Keys DEF OpenFits, Begins, Middles, Keeps, Shifted,
       Resizes, Hosts, Aways, Anews, Renews
<1>11. MakeFits' /\ MadeFits' /\ FinalFits'
  BY <1>1 DEF MakeFits, MadeFits, FinalFits
<1>12. QED
  BY <1>4, <1>5, <1>6, <1>7, <1>8, <1>9, <1>10, <1>11 DEF IInv

(* Taking the journal's area preserves the invariant.                      *)
LEMMA UsePreserves ==
  ASSUME IInv, UseArea
  PROVE  IInv'
<1>1. /\ handle = "open" /\ handle' = "open"
      /\ todo = HostUse /\ todo' = HostEnd
  BY AtUse DEF IInv, Typed, UseArea, Use
<1>2. UNCHANGED <<dsuper, dbitmap, heads, placement, bitmap, journal, dirty, ask,
                  fresh, tuned, half, lost, lagged>>
  BY DEF UseArea, device, memory, history
<1>3. /\ super' \in Supers /\ super'.state = super.state /\ super'.len = super.len
      /\ super'.kind = "standard" /\ super'.jp = super.jp /\ super'.reserved = 0
      /\ tuned.kind = "standard"
  <2>1. tuned.kind = "standard"
    BY <1>1 DEF IInv, Asked
  <2>2. super \in Supers
    BY DEF IInv, Typed, TypeOK
  <2>3. QED
    BY <2>1, <2>2 DEF UseArea, Supers, Kinds
<1>4. Typed'
  <2>1. TypeOK'
    BY <1>1, <1>2, <1>3 DEF IInv, Typed, TypeOK, Parts
  <2>2. QED
    BY <1>1, <1>2, <1>3, <2>1 DEF IInv, Typed, Real, BitmapStored, Fits
<1>5. Planned'
  BY <1>1 DEF Planned, Middles
<1>6. Roomy'
  BY <1>1, <1>2, <1>3, Keys DEF IInv, Roomy, Hosts, Aways, Anews, Renews
<1>7. Asked'
  BY <1>1, <1>2, <1>3, Keys DEF IInv, Asked, Resizes, Hosts, Aways, Anews, Renews
<1>8. MarkedRight'
  <2>1. dsuper.state = "corrupted" /\ super.state = "corrupted"
    BY <1>1, Keys DEF IInv, MarkedRight, Marked, Begins, Middles, Keeps
  <2>2. Marked("corrupted")'
    BY <1>1, <1>2, <1>3, <2>1 DEF Marked, HeaderStored, SuperStored
  <2>3. QED
    BY <1>1, <2>2, Keys DEF MarkedRight, Begins, Middles, Keeps
<1>9. HalfMarked'
  BY <1>1, <1>2 DEF IInv, HalfMarked
<1>10. OpenFits'
  <2>1. SUFFICES ASSUME ~lost  PROVE OpenFits'
    BY <1>2 DEF OpenFits
  <2>2. /\ LengthFits /\ TreeFits /\ bitmap.area = super.jp.len + 1
        /\ HeaderWritten("standard")
    BY <1>1, <2>1, Keys DEF IInv, Asked, OpenFits, MarkedRight, Marked, Begins, Middles,
       Keeps, Shifted, Resizes, Hosts, Aways, Anews, Renews
  <2>3. /\ LengthFits' /\ TreeFits' /\ JournalFits' /\ HeaderStored' /\ AreaFits' /\ TunedFits'
    BY <1>1, <1>2, <1>3, <2>2 DEF LengthFits, Fits, TreeFits, AreaFits, Area, JournalFits,
       HeaderStored, TunedFits, HeaderWritten
  <2>4. QED
    BY <1>1, <1>2, <1>3, <2>2, <2>3, Keys DEF OpenFits, Begins, Middles, Keeps, Shifted,
       Resizes, Hosts, Aways, Anews, Renews
<1>11. MakeFits' /\ MadeFits' /\ FinalFits'
  BY <1>1 DEF MakeFits, MadeFits, FinalFits
<1>12. QED
  BY <1>4, <1>5, <1>6, <1>7, <1>8, <1>9, <1>10, <1>11 DEF IInv

(* Giving up the journal's area preserves the invariant.                   *)
LEMMA ReservePreserves ==
  ASSUME IInv, ReserveArea
  PROVE  IInv'
<1>1. /\ handle = "open" /\ handle' = "open"
      /\ todo = AwayReserve /\ todo' = TuneEnd
  BY AtReserve DEF IInv, Typed, ReserveArea, Reserve
<1>2. UNCHANGED <<dsuper, dbitmap, heads, placement, bitmap, journal, dirty, ask,
                  fresh, tuned, half, lost, lagged>>
  BY DEF ReserveArea, device, memory, history
<1>3. /\ super' \in Supers /\ super'.state = super.state /\ super'.len = super.len
      /\ super'.kind = "relocated" /\ super'.jp = super.jp /\ super'.reserved = ask.old + 1
      /\ tuned.kind = "relocated" => tuned.len = super.jp.len
  <2>1. /\ ask.old \in JLens
        /\ tuned.kind = "relocated" => tuned.len = super.jp.len
    BY <1>1 DEF IInv, Asked
  <2>2. super \in Supers
    BY DEF IInv, Typed, TypeOK
  <2>3. QED
    BY <2>1, <2>2 DEF ReserveArea, Supers, Kinds
<1>4. Typed'
  <2>1. TypeOK'
    BY <1>1, <1>2, <1>3 DEF IInv, Typed, TypeOK, Parts
  <2>2. QED
    BY <1>1, <1>2, <1>3, <2>1 DEF IInv, Typed, Real, BitmapStored, Fits
<1>5. Planned'
  BY <1>1 DEF Planned, Middles
<1>6. Roomy'
  BY <1>1, <1>2, <1>3, Keys DEF IInv, Roomy, Hosts, Aways, Anews, Renews
<1>7. Asked'
  BY <1>1, <1>2, <1>3, Keys DEF IInv, Asked, Resizes, Hosts, Aways, Anews, Renews
<1>8. MarkedRight'
  <2>1. dsuper.state = "corrupted" /\ super.state = "corrupted"
    BY <1>1, Keys DEF IInv, MarkedRight, Marked, Begins, Middles, Keeps
  <2>2. Marked("corrupted")'
    BY <1>1, <1>2, <1>3, <2>1 DEF Marked, HeaderStored, SuperStored
  <2>3. QED
    BY <1>1, <2>2, Keys DEF MarkedRight, Begins, Middles, Keeps
<1>9. HalfMarked'
  BY <1>1, <1>2 DEF IInv, HalfMarked
<1>10. OpenFits'
  <2>1. SUFFICES ASSUME ~lost  PROVE OpenFits'
    BY <1>2 DEF OpenFits
  <2>2. /\ LengthFits /\ TreeFits /\ bitmap.area = ask.old + 1
        /\ HeaderWritten("relocated")
    BY <1>1, <2>1, Keys DEF IInv, Asked, OpenFits, MarkedRight, Marked, Begins, Middles,
       Keeps, Shifted, Resizes, Hosts, Aways, Anews, Renews
  <2>3. /\ LengthFits' /\ TreeFits' /\ JournalFits' /\ HeaderStored' /\ AreaFits' /\ TunedFits'
    BY <1>1, <1>2, <1>3, <2>2 DEF LengthFits, Fits, TreeFits, AreaFits, Area, JournalFits,
       HeaderStored, TunedFits, HeaderWritten
  <2>4. QED
    BY <1>1, <1>2, <1>3, <2>2, <2>3, Keys DEF OpenFits, Begins, Middles, Keeps, Shifted,
       Resizes, Hosts, Aways, Anews, Renews
<1>11. MakeFits' /\ MadeFits' /\ FinalFits'
  BY <1>1 DEF MakeFits, MadeFits, FinalFits
<1>12. QED
  BY <1>4, <1>5, <1>6, <1>7, <1>8, <1>9, <1>10, <1>11 DEF IInv

(* Setting new journal parameters preserves the invariant.                 *)
LEMMA RenewPreserves ==
  ASSUME IInv, NewParameters
  PROVE  IInv'
<1>1. /\ handle = "open" /\ handle' = "open"
      /\ todo = RenewSet /\ todo' = TuneEnd
  BY AtRenew DEF IInv, Typed, NewParameters, Renew
<1>2. UNCHANGED <<dsuper, dbitmap, heads, placement, bitmap, dirty, ask, tuned, half, lost, lagged>>
  BY DEF NewParameters, device, memory, history
<1>3. /\ super' \in Supers /\ super'.state = super.state /\ super'.len = super.len
      /\ super'.kind = super.kind /\ super'.reserved = super.reserved
      /\ journal' \in Heads /\ journal' # None /\ super'.jp = journal' /\ journal'.len = super.jp.len
      /\ super.kind = "standard" /\ tuned.kind = "standard"
      /\ fresh' = fresh + 1 /\ fresh' \in 0..MaxFresh
  <2>1. fresh + 1 \in 0..MaxFresh
    BY <1>1, MaxFreshAssumption DEF IInv, Typed, TypeOK, Roomy, Renews
  <2>2. /\ super.kind = "standard" /\ tuned.kind = "standard" /\ ask.jlen \in JLens
        /\ ask.jlen = super.jp.len
    BY <1>1 DEF IInv, Asked, Renews
  <2>3. super \in Supers
    BY DEF IInv, Typed, TypeOK
  <2>4. journal' = [len |-> ask.jlen, magic |-> fresh + 1] /\ super' = [super EXCEPT !.jp = journal']
        /\ fresh' = fresh + 1
    BY DEF NewParameters
  <2>5. journal' \in Heads /\ journal' # None /\ journal'.len = ask.jlen
    BY <2>1, <2>2, <2>4, NewHeader
  <2>6. QED
    BY <2>1, <2>2, <2>3, <2>4, <2>5, SuperWith
<1>4. Typed'
  <2>1. TypeOK'
    BY <1>1, <1>2, <1>3 DEF IInv, Typed, TypeOK, Parts
  <2>2. QED
    BY <1>1, <1>2, <1>3, <2>1 DEF IInv, Typed, Real, BitmapStored, Fits
<1>5. Planned'
  BY <1>1 DEF Planned, Middles
<1>6. Roomy'
  BY <1>1, <1>2, <1>3, Keys DEF IInv, Roomy, Hosts, Aways, Anews, Renews
<1>7. Asked'
  BY <1>1, <1>2, <1>3, Keys DEF IInv, Asked, Resizes, Hosts, Aways, Anews, Renews
<1>8. MarkedRight'
  <2>1. dsuper.state = "corrupted" /\ super.state = "corrupted"
    BY <1>1, Keys DEF IInv, MarkedRight, Marked, Begins, Middles, Keeps
  <2>2. Marked("corrupted")'
    BY <1>1, <1>2, <1>3, <2>1 DEF Marked, HeaderStored, SuperStored
  <2>3. QED
    BY <1>1, <2>2, Keys DEF MarkedRight, Begins, Middles, Keeps
<1>9. HalfMarked'
  BY <1>1, <1>2 DEF IInv, HalfMarked
<1>10. OpenFits'
  <2>1. SUFFICES ASSUME ~lost  PROVE OpenFits'
    BY <1>2 DEF OpenFits
  <2>2. /\ LengthFits /\ TreeFits /\ AreaFits
        /\ dsuper.state = "corrupted" /\ "super" \notin dirty
    BY <1>1, <2>1, Keys DEF IInv, Asked, OpenFits, MarkedRight, Marked, Begins, Middles,
       Keeps, Shifted, Resizes, Hosts, Aways, Anews, Renews
  <2>3. /\ LengthFits' /\ TreeFits' /\ JournalFits' /\ AreaFits' /\ TunedFits'
        /\ dsuper'.state = "corrupted" /\ "super" \notin dirty'
    BY <1>1, <1>2, <1>3, <2>2 DEF LengthFits, Fits, TreeFits, AreaFits, Area, JournalFits,
       HeaderStored, TunedFits
  <2>4. QED
    BY <1>1, <1>2, <1>3, <2>2, <2>3, Keys DEF OpenFits, Begins, Middles, Keeps, Shifted,
       Resizes, Hosts, Aways, Anews, Renews
<1>11. MakeFits' /\ MadeFits' /\ FinalFits'
  BY <1>1 DEF MakeFits, MadeFits, FinalFits
<1>12. QED
  BY <1>4, <1>5, <1>6, <1>7, <1>8, <1>9, <1>10, <1>11 DEF IInv

(* Making everything dirty preserves the invariant.                        *)
LEMMA TaintPreserves ==
  ASSUME IInv, MarkAll
  PROVE  IInv'
<1>1. /\ handle = "open" /\ handle' = "open"
      /\ todo = TaintOnly /\ todo' = Nothing
  BY AtTaint DEF IInv, Typed, MarkAll, Taint
<1>2. UNCHANGED <<dsuper, dbitmap, heads, placement, super, bitmap, journal, ask,
                  fresh, tuned, half, lost, lagged>>
  BY DEF MarkAll, device, memory, history
<1>3. dirty' = Parts /\ "super" \in dirty' /\ "bitmap" \in dirty' /\ "journal" \in dirty'
  BY DEF MarkAll, Parts
<1>4. Typed'
  <2>1. TypeOK'
    BY <1>1, <1>2, <1>3 DEF IInv, Typed, TypeOK, Parts
  <2>2. QED
    BY <1>1, <1>2, <1>3, <2>1 DEF IInv, Typed, Real, BitmapStored, Fits
<1>5. Planned'
  BY <1>1 DEF Planned, Middles
<1>6. Roomy'
  BY <1>1, <1>2, <1>3, Keys DEF IInv, Roomy, Hosts, Aways, Anews, Renews
<1>7. Asked'
  BY <1>1, <1>2, <1>3, Keys DEF IInv, Asked, Resizes, Hosts, Aways, Anews, Renews
<1>8. MarkedRight'
  <2>1. dsuper.state = "consistent" /\ super.state = "consistent"
    BY <1>1, Keys DEF IInv, MarkedRight, Marked, Begins, Middles, Keeps
  <2>2. Marked("consistent")' /\ SuperStored' /\ HeaderStored'
    BY <1>1, <1>2, <1>3, <2>1 DEF Marked, HeaderStored, SuperStored
  <2>3. QED
    BY <1>1, <2>2, Keys DEF MarkedRight, Begins, Middles, Keeps
<1>9. HalfMarked'
  BY <1>1, <1>2 DEF IInv, HalfMarked
<1>10. OpenFits'
  <2>1. SUFFICES ASSUME ~lost  PROVE OpenFits'
    BY <1>2 DEF OpenFits
  <2>2. /\ LengthFits /\ TreeFits /\ JournalFits /\ AreaFits /\ TunedFits
    BY <1>1, <2>1, Keys DEF IInv, Asked, OpenFits, MarkedRight, Marked, Begins, Middles,
       Keeps, Shifted, Resizes, Hosts, Aways, Anews, Renews
  <2>3. /\ LengthFits' /\ TreeFits' /\ JournalFits' /\ AreaFits' /\ TunedFits'
    BY <1>1, <1>2, <1>3, <2>2 DEF LengthFits, Fits, TreeFits, AreaFits, Area, JournalFits,
       HeaderStored, TunedFits
  <2>4. QED
    BY <1>1, <1>2, <1>3, <2>2, <2>3, Keys DEF OpenFits, Begins, Middles, Keeps, Shifted,
       Resizes, Hosts, Aways, Anews, Renews
<1>11. MakeFits' /\ MadeFits' /\ FinalFits'
  BY <1>1 DEF MakeFits, MadeFits, FinalFits
<1>12. QED
  BY <1>4, <1>5, <1>6, <1>7, <1>8, <1>9, <1>10, <1>11 DEF IInv

(* Filling in the tree preserves the invariant.                            *)
LEMMA FillTreePreserves ==
  ASSUME IInv, handle = "open", FillIn
  PROVE  IInv'
<1>1. /\ handle = "open" /\ handle' = "open"
      /\ todo = CopyFill /\ todo' = UnmarkOnly
  BY AtFillTree, AtPlant DEF IInv, Typed, FillIn, FillTree, Plant
<1>2. UNCHANGED <<dsuper, dbitmap, heads, super, journal, ask, tuned, half, lost, lagged>>
  BY DEF FillIn, device, memory, history
<1>3. /\ fresh' = fresh + 1 /\ placement' = fresh' /\ dirty' = dirty \cup {"super", "bitmap"}
      /\ bitmap' \in Bitmaps /\ bitmap'.len = bitmap.len /\ bitmap'.area = bitmap.area
      /\ bitmap'.tree = placement' /\ fresh' \in 0..MaxFresh
  <2>1. fresh + 1 \in 0..MaxFresh
    BY <1>1, MaxFreshAssumption DEF IInv, Typed, TypeOK, Roomy
  <2>2. bitmap \in Bitmaps
    BY DEF IInv, Typed, TypeOK
  <2>3. bitmap' = [bitmap EXCEPT !.tree = fresh + 1] /\ fresh' = fresh + 1 /\ placement' = fresh'
        /\ dirty' = dirty \cup {"super", "bitmap"}
    BY DEF FillIn
  <2>4. QED
    BY <2>1, <2>2, <2>3, BitmapWith
<1>4. Typed'
  <2>1. TypeOK'
    BY <1>1, <1>2, <1>3 DEF IInv, Typed, TypeOK, Parts
  <2>2. QED
    BY <1>1, <1>2, <1>3, <2>1 DEF IInv, Typed, Real, BitmapStored, Fits
<1>5. Planned'
  BY <1>1 DEF Planned, Middles
<1>6. Roomy'
  BY <1>1, <1>2, <1>3, Keys DEF IInv, Roomy, Hosts, Aways, Anews, Renews
<1>7. Asked'
  BY <1>1, <1>2, <1>3, Keys DEF IInv, Asked, Resizes, Hosts, Aways, Anews, Renews
<1>8. MarkedRight'
  <2>1. dsuper.state = "corrupted" /\ super.state = "corrupted" /\ HeaderStored
    BY <1>1, Keys DEF IInv, MarkedRight, Marked, Begins, Middles, Keeps
  <2>2. Marked("corrupted")' /\ HeaderStored'
    BY <1>1, <1>2, <1>3, <2>1 DEF Marked, HeaderStored, SuperStored
  <2>3. QED
    BY <1>1, <2>2, Keys DEF MarkedRight, Begins, Middles, Keeps
<1>9. HalfMarked'
  BY <1>1, <1>2 DEF IInv, HalfMarked
<1>10. OpenFits'
  <2>1. SUFFICES ASSUME ~lost  PROVE OpenFits'
    BY <1>2 DEF OpenFits
  <2>2. /\ LengthFits /\ JournalFits /\ AreaFits /\ TunedFits
    BY <1>1, <2>1, Keys DEF IInv, Asked, OpenFits, MarkedRight, Marked, Begins, Middles,
       Keeps, Shifted, Resizes, Hosts, Aways, Anews, Renews
  <2>3. /\ LengthFits' /\ TreeFits' /\ JournalFits' /\ AreaFits' /\ TunedFits' 
    BY <1>1, <1>2, <1>3, <2>2 DEF LengthFits, Fits, TreeFits, AreaFits, Area, JournalFits,
       HeaderStored, TunedFits
  <2>4. QED
    BY <1>1, <1>2, <1>3, <2>2, <2>3, Keys DEF OpenFits, Begins, Middles, Keeps, Shifted,
       Resizes, Hosts, Aways, Anews, Renews
<1>11. MakeFits' /\ MadeFits' /\ FinalFits'
  BY <1>1 DEF MakeFits, MadeFits, FinalFits
<1>12. QED
  BY <1>4, <1>5, <1>6, <1>7, <1>8, <1>9, <1>10, <1>11 DEF IInv

(* Filling a journal preserves the invariant.                              *)
LEMMA WipePreserves ==
  ASSUME IInv, handle = "open", FillJournal
  PROVE  IInv'
<1>1. /\ handle = "open" /\ handle' = "open"
      /\ \/ todo = HostWipe /\ todo' = HostHeader
         \/ todo = AwayWipe /\ todo' = AwayHeader
         \/ todo = AnewWipe /\ todo' = AnewHeader
  BY AtWipe DEF IInv, Typed, FillJournal, Wipe
<1>2. UNCHANGED <<dsuper, dbitmap, placement, super, bitmap, journal, dirty, ask,
                  fresh, tuned, half, lost, lagged>>
  BY DEF FillJournal, device, memory, history
<1>3. heads' \in [Kinds \X JLens -> Heads]
  <2>1. Zero \in Heads
    BY MaxFreshAssumption DEF Zero, Heads
  <2>2. heads \in [Kinds \X JLens -> Heads]
    BY DEF IInv, Typed, TypeOK
  <2>3. QED
    BY <2>1, <2>2 DEF FillJournal, Filled
<1>4. Typed'
  <2>1. TypeOK'
    BY <1>1, <1>2, <1>3 DEF IInv, Typed, TypeOK, Parts
  <2>2. QED
    BY <1>1, <1>2, <1>3, <2>1 DEF IInv, Typed, Real, BitmapStored, Fits
<1>5. Planned'
  BY <1>1 DEF Planned, Middles
<1>6. Roomy'
  BY <1>1, <1>2, <1>3, Keys DEF IInv, Roomy, Hosts, Aways, Anews, Renews
<1>7. Asked'
  BY <1>1, <1>2, <1>3, Keys DEF IInv, Asked, Resizes, Hosts, Aways, Anews, Renews
<1>8. MarkedRight'
  <2>1. dsuper.state = "corrupted" /\ super.state = "corrupted"
    BY <1>1, Keys DEF IInv, MarkedRight, Marked, Begins, Middles, Keeps
  <2>2. Marked("corrupted")'
    BY <1>1, <1>2, <1>3, <2>1 DEF Marked, HeaderStored, SuperStored
  <2>3. QED
    BY <1>1, <2>2, Keys DEF MarkedRight, Begins, Middles, Keeps
<1>9. HalfMarked'
  BY <1>1, <1>2 DEF IInv, HalfMarked
<1>10. OpenFits'
  <2>1. SUFFICES ASSUME ~lost  PROVE OpenFits'
    BY <1>2 DEF OpenFits
  <2>2. /\ LengthFits /\ TreeFits /\ (todo = AnewWipe => AreaFits)
        /\ todo = AwayWipe => bitmap.area = ask.old + 1
    BY <1>1, <2>1, Keys DEF IInv, Asked, OpenFits, MarkedRight, Marked, Begins, Middles,
       Keeps, Shifted, Resizes, Hosts, Aways, Anews, Renews
  <2>3. /\ LengthFits' /\ TreeFits' /\ (todo = AnewWipe => AreaFits')
    BY <1>1, <1>2, <1>3, <2>2 DEF LengthFits, Fits, TreeFits, AreaFits, Area, JournalFits,
       HeaderStored, TunedFits
  <2>4. QED
    BY <1>1, <1>2, <1>3, <2>2, <2>3, Keys DEF OpenFits, Begins, Middles, Keeps, Shifted,
       Resizes, Hosts, Aways, Anews, Renews
<1>11. MakeFits' /\ MadeFits' /\ FinalFits'
  BY <1>1 DEF MakeFits, MadeFits, FinalFits
<1>12. QED
  BY <1>4, <1>5, <1>6, <1>7, <1>8, <1>9, <1>10, <1>11 DEF IInv

(* Writing a new journal's header while tuning preserves it.               *)
LEMMA HeaderPreserves ==
  ASSUME IInv, handle = "open", WriteHeader
  PROVE  IInv'
<1>1. /\ handle = "open" /\ handle' = "open"
      /\ \/ todo = HostHeader /\ todo' = HostUse
         \/ todo = AwayHeader /\ todo' = AwayReserve
         \/ todo = AnewHeader /\ todo' = TuneEnd
  BY AtHeader DEF IInv, Typed, WriteHeader, Header
<1>2. UNCHANGED <<dsuper, dbitmap, placement, ask, tuned, half, lost, lagged>>
  BY DEF WriteHeader, device, memory, history
<1>3. /\ fresh' = fresh + 1 /\ fresh' \in 0..MaxFresh
      /\ super' \in Supers /\ super'.jp = journal' /\ super'.len = super.len
      /\ super'.kind = super.kind /\ super'.state = super.state /\ super'.reserved = super.reserved
      /\ journal' \in Heads /\ journal' # None /\ journal'.len = ask.jlen /\ ask.jlen \in JLens
      /\ heads' \in [Kinds \X JLens -> Heads] /\ heads'[ask.kind, ask.jlen] = journal'
      /\ bitmap' \in Bitmaps /\ bitmap'.len = bitmap.len /\ bitmap'.tree = bitmap.tree
      /\ bitmap'.area = IF ask.kind = "standard" THEN ask.jlen + 1 ELSE bitmap.area
      /\ dirty' \subseteq Parts
      /\ "bitmap" \notin dirty' => "bitmap" \notin dirty /\ bitmap' = bitmap
  <2>1. fresh + 1 <= MaxFresh
    BY <1>1, Keys DEF IInv, Roomy, Hosts, Aways, Anews
  <2>2. ask.kind \in Kinds /\ ask.jlen \in JLens
    BY <1>1, Keys DEF IInv, Asked, Hosts, Aways, Anews, Kinds
  <2>3. TypeOK
    BY DEF IInv, Typed
  <2>4. QED
    BY <2>1, <2>2, <2>3, HeaderWrites
<1>4. Typed'
  <2>1. TypeOK'
    BY <1>1, <1>2, <1>3 DEF IInv, Typed, TypeOK, Parts
  <2>2. QED
    BY <1>1, <1>2, <1>3, <2>1 DEF IInv, Typed, Real, BitmapStored, Fits
<1>5. Planned'
  BY <1>1 DEF Planned, Middles
<1>6. Roomy'
  BY <1>1, Keys DEF Roomy, Hosts, Aways, Anews, Renews
<1>7. Asked'
  <2>1. /\ todo = HostHeader => super.kind = "relocated" /\ ask.kind = "standard"
        /\ todo = AwayHeader => super.kind = "standard" /\ ask.kind = "relocated" /\ ask.old \in JLens
        /\ tuned.kind = ask.kind /\ (tuned.kind = "relocated" => tuned.len = ask.jlen)
    BY <1>1, Keys DEF IInv, Asked, Hosts, Aways, Anews
  <2>2. super'.kind = super.kind /\ super'.jp.len = ask.jlen /\ ask' = ask /\ tuned' = tuned
    BY <1>2, <1>3
  <2>3. QED
    BY <1>1, <2>1, <2>2, Keys DEF Asked, Resizes, Hosts, Aways, Anews, Renews
<1>8. MarkedRight'
  <2>1. dsuper.state = "corrupted" /\ super.state = "corrupted"
    BY <1>1, Keys DEF IInv, MarkedRight, Marked, Begins, Middles, Keeps
  <2>2. Marked("corrupted")'
    BY <1>1, <1>2, <1>3, <2>1 DEF Marked, HeaderStored, SuperStored
  <2>3. QED
    BY <1>1, <2>2, Keys DEF MarkedRight, Begins, Middles, Keeps
<1>9. HalfMarked'
  BY <1>1, <1>2 DEF IInv, HalfMarked
<1>10. OpenFits'
  <2>1. SUFFICES ASSUME ~lost  PROVE OpenFits'
    BY <1>2 DEF OpenFits
  <2>2. /\ LengthFits /\ TreeFits
        /\ todo = HostHeader => ask.kind = "standard"
        /\ todo = AwayHeader => ask.kind = "relocated" /\ bitmap.area = ask.old + 1
        /\ todo = AnewHeader => /\ AreaFits /\ ask.kind = "relocated" /\ super.kind = "relocated"
                                /\ tuned.kind = "relocated" => tuned.len = ask.jlen
    BY <1>1, <2>1, Keys DEF IInv, Asked, OpenFits, MarkedRight, Marked, Begins, Middles,
       Keeps, Shifted, Resizes, Hosts, Aways, Anews, Renews
  <2>3. /\ LengthFits' /\ TreeFits'
        /\ todo = HostHeader => bitmap'.area = super'.jp.len + 1 /\ HeaderWritten("standard")'
        /\ todo = AwayHeader => bitmap'.area = ask'.old + 1 /\ HeaderWritten("relocated")'
        /\ todo = AnewHeader => AreaFits' /\ JournalFits' /\ HeaderStored' /\ TunedFits' 
    BY <1>1, <1>2, <1>3, <2>2 DEF LengthFits, Fits, TreeFits, AreaFits, Area, JournalFits,
       HeaderStored, TunedFits, HeaderWritten
  <2>4. QED
    BY <1>1, <2>3, Keys DEF OpenFits, Begins, Middles, Keeps, Shifted, Resizes, Hosts,
       Aways, Anews, Renews
<1>11. MakeFits' /\ MadeFits' /\ FinalFits'
  BY <1>1 DEF MakeFits, MadeFits, FinalFits
<1>12. QED
  BY <1>4, <1>5, <1>6, <1>7, <1>8, <1>9, <1>10, <1>11 DEF IInv


-----------------------------------------------------------------------------
(* The steps by which a filesystem is created preserve the invariant.      *)
LEMMA MakeWipePreserves ==
  ASSUME IInv, handle = "creating", FillJournal
  PROVE  IInv'
<1>1. /\ handle = "creating" /\ handle' = "creating"
      /\ todo = MakeWipe /\ todo' = MakeHeader
  BY AtWipe DEF IInv, Typed, FillJournal, Wipe
<1>2. UNCHANGED <<dsuper, dbitmap, placement, super, bitmap, journal, dirty, ask,
                  fresh, tuned, half, lost, lagged>>
  BY DEF FillJournal, device, memory, history
<1>3. heads' \in [Kinds \X JLens -> Heads]
  <2>1. Zero \in Heads
    BY MaxFreshAssumption DEF Zero, Heads
  <2>2. heads \in [Kinds \X JLens -> Heads]
    BY DEF IInv, Typed, TypeOK
  <2>3. QED
    BY <2>1, <2>2 DEF FillJournal, Filled
<1>4. Typed'
  <2>1. TypeOK'
    BY <1>1, <1>2, <1>3 DEF IInv, Typed, TypeOK, Parts
  <2>2. QED
    BY <1>1, <1>2, <1>3, <2>1 DEF IInv, Typed, Real, BitmapStored, Fits
<1>5. Planned'
  BY <1>1 DEF Planned, Makes
<1>6. Roomy'
  BY <1>1, <1>2, <1>3, Keys DEF IInv, Roomy, Hosts, Aways, Anews, Renews
<1>7. Asked'
  BY <1>1, Keys DEF Asked, Resizes, Hosts, Aways, Anews, Renews
<1>8. MarkedRight' /\ OpenFits' /\ MadeFits' /\ FinalFits'
  BY <1>1 DEF MarkedRight, OpenFits, MadeFits, FinalFits
<1>9. HalfMarked'
  BY <1>1, <1>2 DEF IInv, MakeFits, HalfMarked
<1>10. MakeFits'
  <2>1. /\ super.state = "consistent" /\ super.reserved = 0
        /\ ask.kind = super.kind /\ ask.jlen = super.jp.len /\ ~half /\ tuned = NoTuning
        /\ bitmap.len = super.len
        /\ bitmap.area = 0 /\ journal = None /\ dirty = {"super", "bitmap"}
    BY <1>1, Keys DEF IInv, MakeFits
  <2>2. bitmap'.len = super'.len
    BY <1>2, <1>3, <2>1 DEF AreaFits, Area, TreeFits, HeaderWritten
  <2>3. QED
    BY <1>1, <1>2, <1>3, <2>1, <2>2, Keys DEF MakeFits
<1>11. QED
  BY <1>4, <1>5, <1>6, <1>7, <1>8, <1>9, <1>10 DEF IInv

(* Writing the first journal's header preserves it.                        *)
LEMMA MakeHeaderPreserves ==
  ASSUME IInv, handle = "creating", WriteHeader
  PROVE  IInv'
<1>1. /\ handle = "creating" /\ handle' = "creating"
      /\ todo = MakeHeader /\ todo' = MakePlant
  BY AtHeader DEF IInv, Typed, WriteHeader, Header
<1>2. UNCHANGED <<dsuper, dbitmap, placement, ask, tuned, half, lost, lagged>>
  BY DEF WriteHeader, device, memory, history
<1>3. /\ fresh' = fresh + 1 /\ fresh' \in 0..MaxFresh
      /\ super' \in Supers /\ super'.jp = journal' /\ super'.len = super.len
      /\ super'.kind = super.kind /\ super'.state = super.state /\ super'.reserved = super.reserved
      /\ journal' \in Heads /\ journal' # None /\ journal'.len = ask.jlen /\ ask.jlen \in JLens
      /\ heads' \in [Kinds \X JLens -> Heads] /\ heads'[ask.kind, ask.jlen] = journal'
      /\ bitmap' \in Bitmaps /\ bitmap'.len = bitmap.len /\ bitmap'.tree = bitmap.tree
      /\ bitmap'.area = IF ask.kind = "standard" THEN ask.jlen + 1 ELSE bitmap.area
      /\ dirty' = {"super", "bitmap"}
  <2>1. fresh + 1 <= MaxFresh /\ fresh \in Nat
    BY <1>1, MaxFreshAssumption DEF IInv, Typed, TypeOK, Roomy
  <2>2. ask.kind \in Kinds /\ ask.jlen \in JLens
    <3>1. super \in Supers /\ super.jp.len \in JLens /\ ask.kind = super.kind /\ ask.jlen = super.jp.len
      BY <1>1 DEF IInv, Typed, TypeOK, Real, MakeFits
    <3>2. QED
      BY <3>1 DEF Supers
  <2>3. TypeOK /\ dirty = {"super", "bitmap"}
    BY <1>1, Keys DEF IInv, Typed, MakeFits
  <2>4. dirty' \ {"journal"} = {"super", "bitmap"} /\ "journal" \notin dirty'
    BY <2>1, <2>2, <2>3, HeaderWrites
  <2>5. dirty' = {"super", "bitmap"}
    BY <2>4
  <2>6. QED
    BY <2>1, <2>2, <2>3, <2>5, HeaderWrites
<1>4. Typed'
  <2>1. TypeOK'
    BY <1>1, <1>2, <1>3 DEF IInv, Typed, TypeOK, Parts
  <2>2. QED
    BY <1>1, <1>2, <1>3, <2>1 DEF IInv, Typed, Real, BitmapStored, Fits
<1>5. Planned'
  BY <1>1 DEF Planned, Makes
<1>6. Roomy'
  <2>1. fresh \in Nat /\ fresh + 2 <= MaxFresh /\ fresh' = fresh + 1
    <3>1. fresh \in 0..MaxFresh
      BY DEF IInv, Typed, TypeOK
    <3>2. fresh + 2 <= MaxFresh
      BY <1>1 DEF IInv, Roomy
    <3>3. fresh' = fresh + 1
      BY DEF WriteHeader
    <3>4. QED
      BY <3>1, <3>2, <3>3, MaxFreshAssumption
  <2>2. fresh' + 1 <= MaxFresh
    BY <2>1, MaxFreshAssumption
  <2>3. QED
    BY <1>1, <2>2, Keys DEF Roomy, Hosts, Aways, Anews, Renews
<1>7. Asked'
  BY <1>1, Keys DEF Asked, Resizes, Hosts, Aways, Anews, Renews
<1>8. MarkedRight' /\ OpenFits' /\ MadeFits' /\ FinalFits'
  BY <1>1 DEF MarkedRight, OpenFits, MadeFits, FinalFits
<1>9. HalfMarked'
  BY <1>1, <1>2 DEF IInv, MakeFits, HalfMarked
<1>10. MakeFits'
  <2>1. /\ super.state = "consistent" /\ super.reserved = 0
        /\ ask.kind = super.kind /\ ask.jlen = super.jp.len /\ ~half /\ tuned = NoTuning
        /\ bitmap.len = super.len
        /\ bitmap.area = 0
        /\ super.kind \in Kinds
    BY <1>1, Keys DEF IInv, MakeFits, Typed, TypeOK, Supers
  <2>2. bitmap'.len = super'.len /\ AreaFits' /\ HeaderWritten(super.kind)'
    BY <1>2, <1>3, <2>1 DEF AreaFits, Area, TreeFits, HeaderWritten, Kinds
  <2>3. /\ super'.state = "consistent" /\ super'.reserved = 0 /\ ask'.kind = super'.kind
        /\ ask'.jlen = super'.jp.len /\ ~half' /\ tuned' = NoTuning /\ dirty' = {"super", "bitmap"}
    BY <1>2, <1>3, <2>1
  <2>4. QED
    BY <1>1, <2>2, <2>3, Keys DEF MakeFits
<1>11. QED
  BY <1>4, <1>5, <1>6, <1>7, <1>8, <1>9, <1>10 DEF IInv

(* Planting the first tree preserves the invariant.                        *)
LEMMA MakePlantPreserves ==
  ASSUME IInv, handle = "creating", FillIn
  PROVE  IInv'
<1>1. /\ handle = "creating" /\ handle' = "creating"
      /\ todo = MakePlant /\ todo' = MakeSuper
  BY AtFillTree, AtPlant DEF IInv, Typed, FillIn, FillTree, Plant
<1>2. UNCHANGED <<dsuper, dbitmap, heads, super, journal, ask, tuned, half, lost, lagged>>
  BY DEF FillIn, device, memory, history
<1>3. /\ fresh' = fresh + 1 /\ placement' = fresh' /\ dirty' = {"super", "bitmap"}
      /\ bitmap' \in Bitmaps /\ bitmap'.len = bitmap.len /\ bitmap'.area = bitmap.area
      /\ bitmap'.tree = placement' /\ fresh' \in 0..MaxFresh
  <2>1. fresh + 1 \in 0..MaxFresh
    BY <1>1, MaxFreshAssumption DEF IInv, Typed, TypeOK, Roomy
  <2>2. bitmap \in Bitmaps /\ dirty = {"super", "bitmap"}
    BY <1>1, Keys DEF IInv, Typed, TypeOK, MakeFits
  <2>3. bitmap' = [bitmap EXCEPT !.tree = fresh + 1] /\ fresh' = fresh + 1 /\ placement' = fresh'
        /\ dirty' = {"super", "bitmap"}
    BY <2>2 DEF FillIn
  <2>4. QED
    BY <2>1, <2>2, <2>3, BitmapWith
<1>4. Typed'
  <2>1. TypeOK'
    BY <1>1, <1>2, <1>3 DEF IInv, Typed, TypeOK, Parts
  <2>2. QED
    BY <1>1, <1>2, <1>3, <2>1 DEF IInv, Typed, Real, BitmapStored, Fits
<1>5. Planned'
  BY <1>1 DEF Planned, Makes
<1>6. Roomy'
  BY <1>1, <1>2, <1>3, Keys DEF IInv, Roomy, Hosts, Aways, Anews, Renews
<1>7. Asked'
  BY <1>1, Keys DEF Asked, Resizes, Hosts, Aways, Anews, Renews
<1>8. MarkedRight' /\ OpenFits' /\ MadeFits' /\ FinalFits'
  BY <1>1 DEF MarkedRight, OpenFits, MadeFits, FinalFits
<1>9. HalfMarked'
  BY <1>1, <1>2 DEF IInv, MakeFits, HalfMarked
<1>10. MakeFits'
  <2>1. /\ super.state = "consistent" /\ super.reserved = 0
        /\ ask.kind = super.kind /\ ask.jlen = super.jp.len /\ ~half /\ tuned = NoTuning
        /\ bitmap.len = super.len
        /\ AreaFits /\ HeaderWritten(super.kind)
    BY <1>1, Keys DEF IInv, MakeFits
  <2>2. bitmap'.len = super'.len /\ AreaFits' /\ HeaderWritten(super.kind)' /\ TreeFits'
    BY <1>2, <1>3, <2>1 DEF AreaFits, Area, TreeFits, HeaderWritten
  <2>3. QED
    BY <1>1, <1>2, <1>3, <2>1, <2>2, Keys DEF MakeFits
<1>11. QED
  BY <1>4, <1>5, <1>6, <1>7, <1>8, <1>9, <1>10 DEF IInv

(* Writing the first super block preserves the invariant.                  *)
LEMMA MakeSuperPreserves ==
  ASSUME IInv, handle = "creating", SyncSuper
  PROVE  IInv'
<1>1. /\ handle = "creating" /\ handle' = "creating"
      /\ todo = MakeSuper /\ todo' = MakeBitmap
  BY AtPutSuper DEF IInv, Typed, SyncSuper, PutSuper
<1>2. UNCHANGED <<dbitmap, heads, placement, super, bitmap, journal, ask, fresh, tuned,
                  half, lost, lagged>>
  BY DEF SyncSuper, device, memory, history
<1>3. dsuper' = super /\ dirty' = {"bitmap"}
  <2>1. dirty = {"super", "bitmap"}
    BY <1>1, Keys DEF IInv, MakeFits
  <2>2. QED
    BY <2>1 DEF SyncSuper
<1>4. Typed'
  <2>1. TypeOK'
    BY <1>1, <1>2, <1>3 DEF IInv, Typed, TypeOK, Parts
  <2>2. QED
    BY <1>1, <1>2, <1>3, <2>1 DEF IInv, Typed, Real, BitmapStored, Fits
<1>5. Planned'
  BY <1>1 DEF Planned, Makes
<1>6. Roomy'
  BY <1>1, <1>2, <1>3, Keys DEF IInv, Roomy, Hosts, Aways, Anews, Renews
<1>7. Asked'
  BY <1>1, Keys DEF Asked, Resizes, Hosts, Aways, Anews, Renews
<1>8. MarkedRight' /\ OpenFits' /\ MadeFits' /\ FinalFits'
  BY <1>1 DEF MarkedRight, OpenFits, MadeFits, FinalFits
<1>9. HalfMarked'
  BY <1>1, <1>2 DEF IInv, MakeFits, HalfMarked
<1>10. MakeFits'
  <2>1. /\ super.state = "consistent" /\ super.reserved = 0
        /\ ask.kind = super.kind /\ ask.jlen = super.jp.len /\ ~half /\ tuned = NoTuning
        /\ bitmap.len = super.len
        /\ AreaFits /\ HeaderWritten(super.kind) /\ TreeFits
    BY <1>1, Keys DEF IInv, MakeFits
  <2>2. bitmap'.len = super'.len /\ AreaFits' /\ HeaderWritten(super.kind)' /\ TreeFits'
    BY <1>2, <1>3, <2>1 DEF AreaFits, Area, TreeFits, HeaderWritten
  <2>3. QED
    BY <1>1, <1>2, <1>3, <2>1, <2>2, Keys DEF MakeFits
<1>11. QED
  BY <1>4, <1>5, <1>6, <1>7, <1>8, <1>9, <1>10 DEF IInv

(* Writing the first bitmap preserves the invariant.                       *)
LEMMA MakeBitmapPreserves ==
  ASSUME IInv, handle = "creating", SyncBitmap
  PROVE  IInv'
<1>1. /\ handle = "creating" /\ handle' = "creating"
      /\ todo = MakeBitmap /\ todo' = MakeDone
  BY AtPutBitmap DEF IInv, Typed, SyncBitmap, PutBitmap
<1>2. UNCHANGED <<dsuper, heads, placement, super, bitmap, journal, ask, fresh, tuned,
                  half, lost, lagged>>
  BY DEF SyncBitmap, device, memory, history
<1>3. dbitmap' = bitmap /\ dirty' = {}
  <2>1. dirty = {"bitmap"}
    BY <1>1, Keys DEF IInv, MakeFits
  <2>2. QED
    BY <2>1 DEF SyncBitmap
<1>4. Typed'
  <2>1. TypeOK'
    BY <1>1, <1>2, <1>3 DEF IInv, Typed, TypeOK, Parts
  <2>2. QED
    BY <1>1, <1>2, <1>3, <2>1 DEF IInv, Typed, Real, BitmapStored, Fits
<1>5. Planned'
  BY <1>1 DEF Planned, Makes
<1>6. Roomy'
  BY <1>1, <1>2, <1>3, Keys DEF IInv, Roomy, Hosts, Aways, Anews, Renews
<1>7. Asked'
  BY <1>1, Keys DEF Asked, Resizes, Hosts, Aways, Anews, Renews
<1>8. MarkedRight' /\ OpenFits' /\ MadeFits' /\ FinalFits'
  BY <1>1 DEF MarkedRight, OpenFits, MadeFits, FinalFits
<1>9. HalfMarked'
  BY <1>1, <1>2 DEF IInv, MakeFits, HalfMarked
<1>10. MakeFits'
  <2>1. /\ super.state = "consistent" /\ super.reserved = 0
        /\ ask.kind = super.kind /\ ask.jlen = super.jp.len /\ ~half /\ tuned = NoTuning
        /\ bitmap.len = super.len
        /\ AreaFits /\ HeaderWritten(super.kind) /\ TreeFits /\ dsuper = super
    BY <1>1, Keys DEF IInv, MakeFits
  <2>2. bitmap'.len = super'.len /\ AreaFits' /\ HeaderWritten(super.kind)' /\ TreeFits'
    BY <1>2, <1>3, <2>1 DEF AreaFits, Area, TreeFits, HeaderWritten
  <2>3. QED
    BY <1>1, <1>2, <1>3, <2>1, <2>2, Keys DEF MakeFits
<1>11. QED
  BY <1>4, <1>5, <1>6, <1>7, <1>8, <1>9, <1>10 DEF IInv

(* The end of the creation preserves the invariant.                        *)
LEMMA CreatedPreserves ==
  ASSUME IInv, Created
  PROVE  IInv'
<1>1. handle = "creating" /\ handle' = "created" /\ todo = MakeDone /\ todo' = Nothing
  BY AtDone DEF IInv, Typed, Created, Done
<1>2. /\ UNCHANGED <<dsuper, dbitmap, heads, placement, super, bitmap, journal, dirty,
                     ask, fresh,
                     tuned, half, lagged>>
      /\ lost' = FALSE
  BY DEF Created, device, memory, history
<1>3. Typed'
  <2>1. TypeOK'
    BY <1>1, <1>2 DEF IInv, Typed, TypeOK
  <2>2. bitmap.len = super.len /\ dbitmap = bitmap
    BY <1>1, Keys DEF IInv, MakeFits
  <2>3. BitmapStored'
    BY <1>1, <1>2, <2>2 DEF BitmapStored, Fits
  <2>4. QED
    BY <1>1, <1>2, <2>1, <2>3 DEF IInv, Typed, Real
<1>4. Planned'
  BY <1>1 DEF Planned, Nothing
<1>5. Roomy' /\ Asked'
  BY <1>1, Keys DEF Roomy, Asked, Resizes, Hosts, Aways, Anews, Renews
<1>6. MarkedRight' /\ OpenFits' /\ MakeFits' /\ FinalFits'
  BY <1>1 DEF MarkedRight, OpenFits, MakeFits, FinalFits
<1>7. HalfMarked'
  BY <1>1, <1>2 DEF IInv, MakeFits, HalfMarked
<1>8. MadeFits'
  <2>1. /\ super.state = "consistent" /\ ~half /\ tuned = NoTuning /\ dirty = {} /\ dsuper = super
        /\ bitmap.len = super.len /\ dbitmap = bitmap /\ AreaFits /\ HeaderWritten(super.kind) /\ TreeFits
    BY <1>1, Keys DEF IInv, MakeFits
  <2>2. LengthFits' /\ AreaFits' /\ HeaderWritten(super.kind)' /\ TreeFits' /\ TunedFits'
    BY <1>2, <2>1 DEF LengthFits, Fits, AreaFits, Area, TreeFits, HeaderWritten, TunedFits,
       NoTuning
  <2>3. QED
    BY <1>1, <1>2, <2>1, <2>2 DEF MadeFits
<1>9. QED
  BY <1>3, <1>4, <1>5, <1>6, <1>7, <1>8 DEF IInv

-----------------------------------------------------------------------------
(* The steps by which a handle is closed preserve the invariant.           *)
LEMMA NoPlan ==
  ASSUME NEW p, p = Nothing \/ First(p) \in {PutSuper, PutBitmap, PutJournal, Free}
  PROVE  p \notin {HostUse, HostEnd, AwayReserve, MakeWipe, MakeHeader, MakePlant, CopyBegin, CopyFill}
                  \cup Resizes \cup Hosts \cup Aways \cup Anews \cup Renews
BY Keys, Numbers
   DEF Resizes, Hosts, Aways, Anews, Renews

(* The plans of a closing handle ask for nothing.                          *)
LEMMA NothingAsked ==
  ASSUME todo' = Nothing \/ First(todo') \in {PutSuper, PutBitmap, PutJournal, Free}
  PROVE  Roomy' /\ Asked'
<1>1. todo' \notin {HostUse, HostEnd, AwayReserve, MakeWipe, MakeHeader, MakePlant, CopyBegin, CopyFill}
                   \cup Resizes \cup Hosts \cup Aways \cup Anews \cup Renews
  BY NoPlan
<1>2. /\ HostBeginMove \in Hosts /\ HostMove \in Hosts
      /\ ShrinkBegin \in Resizes /\ ShrinkMove \in Resizes /\ ResizeEnd \in Resizes
  BY DEF Hosts, Resizes
<1>3. QED
  BY <1>1, <1>2 DEF Roomy, Asked

(* Writing the super block on closing preserves it.                        *)
LEMMA CloseSuperPreserves ==
  ASSUME IInv, handle = "closing", SyncSuper
  PROVE  IInv'
<1>1. /\ handle = "closing" /\ handle' = "closing" /\ "super" \in dirty
      /\ todo' = ClosePlan(dirty \ {"super"})
  BY AtPutSuper DEF IInv, Typed, SyncSuper, PutSuper
<1>2. /\ dsuper' = super /\ dirty' = dirty \ {"super"}
      /\ UNCHANGED <<dbitmap, heads, placement, super, bitmap, journal, ask, fresh,
                     tuned, half, lost, lagged>>
  BY DEF SyncSuper, history
<1>3. Typed'
  BY <1>1, <1>2 DEF IInv, Typed, TypeOK, Real, BitmapStored, Fits
<1>4. Planned'
  BY <1>1, <1>2 DEF Planned, ClosePlan, SyncSteps
<1>5. Roomy' /\ Asked'
  BY <1>1, CloseFirst, NothingAsked
<1>6. MarkedRight' /\ OpenFits' /\ MakeFits' /\ MadeFits'
  BY <1>1 DEF MarkedRight, OpenFits, MakeFits, MadeFits
<1>7. HalfMarked'
  BY <1>1, <1>2 DEF IInv, HalfMarked
<1>8. FinalFits'
  BY <1>1, <1>2 DEF IInv, FinalFits, FinalSuper, FinalBitmap, FinalHeader, Area,
     BitmapFor, Fits
<1>9. QED
  BY <1>3, <1>4, <1>5, <1>6, <1>7, <1>8 DEF IInv

(* Writing the bitmap on closing preserves it.                             *)
LEMMA CloseBitmapPreserves ==
  ASSUME IInv, handle = "closing", SyncBitmap
  PROVE  IInv'
<1>1. /\ handle = "closing" /\ handle' = "closing" /\ "super" \notin dirty /\ "bitmap" \in dirty
      /\ todo' = ClosePlan(dirty \ {"bitmap"})
  BY AtPutBitmap DEF IInv, Typed, SyncBitmap, PutBitmap
<1>2. /\ dbitmap' = bitmap /\ dirty' = dirty \ {"bitmap"}
      /\ UNCHANGED <<dsuper, heads, placement, super, bitmap, journal, ask, fresh,
                     tuned, half, lost, lagged>>
  BY DEF SyncBitmap, history
<1>3. Typed'
  BY <1>1, <1>2 DEF IInv, Typed, TypeOK, Real, BitmapStored, Fits
<1>4. Planned'
  BY <1>1, <1>2 DEF Planned, ClosePlan, SyncSteps
<1>5. Roomy' /\ Asked'
  BY <1>1, CloseFirst, NothingAsked
<1>6. MarkedRight' /\ OpenFits' /\ MakeFits' /\ MadeFits'
  BY <1>1 DEF MarkedRight, OpenFits, MakeFits, MadeFits
<1>7. HalfMarked'
  BY <1>1, <1>2 DEF IInv, HalfMarked
<1>8. FinalFits'
  BY <1>1, <1>2 DEF IInv, FinalFits, FinalSuper, FinalBitmap, FinalHeader, Area,
     BitmapFor, Fits
<1>9. QED
  BY <1>3, <1>4, <1>5, <1>6, <1>7, <1>8 DEF IInv

(* Writing the journal's header on closing preserves it.                   *)
LEMMA CloseHeaderPreserves ==
  ASSUME IInv, SyncJournal
  PROVE  IInv'
<1>1. /\ handle = "closing" /\ handle' = "closing" /\ "super" \notin dirty /\ "bitmap" \notin dirty
      /\ "journal" \in dirty /\ journal # None
      /\ todo' = ClosePlan(dirty \ {"journal"})
  BY AtPutJournal DEF IInv, Typed, SyncJournal, PutJournal
<1>2. /\ dirty' = dirty \ {"journal"}
      /\ heads' = [at \in DOMAIN heads |-> IF at = <<super.kind, journal.len>> THEN journal
                                           ELSE heads[at]]
      /\ UNCHANGED <<dsuper, dbitmap, placement, super, bitmap, journal, ask, fresh,
                     tuned, half, lost, lagged>>
  BY DEF SyncJournal, history
<1>3. heads \in [Kinds \X JLens -> Heads] /\ journal \in Heads
  BY <1>1 DEF IInv, Typed, TypeOK
<1>4. heads' \in [Kinds \X JLens -> Heads]
  BY <1>2, <1>3
<1>5. Typed'
  BY <1>1, <1>2, <1>4 DEF IInv, Typed, TypeOK, Real, BitmapStored, Fits
<1>6. Planned'
  BY <1>1, <1>2 DEF Planned, ClosePlan, SyncSteps
<1>7. Roomy' /\ Asked'
  BY <1>1, CloseFirst, NothingAsked
<1>8. MarkedRight' /\ OpenFits' /\ MakeFits' /\ MadeFits'
  BY <1>1 DEF MarkedRight, OpenFits, MakeFits, MadeFits
<1>9. HalfMarked'
  BY <1>1, <1>2 DEF IInv, HalfMarked
<1>10. FinalFits'
  <2>1. SUFFICES ASSUME ~lost, dsuper.state = "consistent"  PROVE FinalFits'
    BY <1>1, <1>2 DEF FinalFits, FinalSuper
  <2>2. dsuper.kind \in Kinds /\ dsuper.jp.len \in JLens
    BY <2>1 DEF IInv, Typed, TypeOK, Real, Supers
  <2>3. FinalHeader(dsuper.kind, dsuper.jp.len)' = FinalHeader(dsuper.kind, dsuper.jp.len)
    <3>1. <<dsuper.kind, dsuper.jp.len>> \in DOMAIN heads
      BY <1>3, <2>2
    <3>2. heads'[dsuper.kind, dsuper.jp.len]
          = IF dsuper.kind = super.kind /\ dsuper.jp.len = journal.len THEN journal
            ELSE heads[dsuper.kind, dsuper.jp.len]
      BY <1>2, <3>1
    <3>3. QED
      BY <1>1, <1>2, <3>2 DEF FinalHeader
  <2>4. FinalHeader(dsuper.kind, dsuper.jp.len) = dsuper.jp
    BY <1>1, <2>1 DEF IInv, FinalFits, FinalSuper
  <2>5. QED
    BY <1>1, <1>2, <2>1, <2>3, <2>4 DEF IInv, FinalFits, FinalSuper, FinalBitmap, Area,
       BitmapFor, Fits
<1>11. QED
  BY <1>5, <1>6, <1>7, <1>8, <1>9, <1>10 DEF IInv

(* What is left of a handle once its memory is gone.                       *)
LEMMA Forgotten ==
  ASSUME IInv, Forget, UNCHANGED <<dsuper, dbitmap, heads, placement, fresh, lagged>>,
         half' \in BOOLEAN, lost' \in BOOLEAN
  PROVE  /\ handle' = "closed" /\ dirty' = {}
         /\ Typed' /\ MarkedRight' /\ OpenFits' /\ MakeFits' /\ MadeFits'
<1>1. /\ handle' = "closed" /\ dirty' = {} /\ super' = NoSuper /\ bitmap' = NoBitmap
      /\ journal' = None
  BY DEF Forget
<1>2. NoSuper \in Supers /\ NoBitmap \in Bitmaps
  BY MaxFreshAssumption DEF NoSuper, NoBitmap, Supers, Bitmaps, Zero, Kinds
<1>3. Typed'
  <2>1. TypeOK'
    BY <1>1, <1>2 DEF IInv, Typed, TypeOK
  <2>2. QED
    BY <1>1, <2>1 DEF IInv, Typed, Real, BitmapStored, Fits
<1>4. QED
  BY <1>1, <1>3 DEF MarkedRight, OpenFits, MakeFits, MadeFits

(* Releasing the handle preserves the invariant.                           *)
LEMMA ReleasePreserves ==
  ASSUME IInv, Release
  PROVE  IInv'
<1>1. /\ handle = "closing" /\ todo' = Nothing
      /\ lost \/ ("super" \notin dirty /\ "bitmap" \notin dirty
                 /\ ("journal" \notin dirty \/ journal = None))
  BY AtFree DEF IInv, Typed, Release, Free
<1>2. Forget /\ UNCHANGED <<dsuper, dbitmap, heads, placement, fresh, tuned, half, lost, lagged>>
  BY DEF Release, device, history
<1>3. handle' = "closed" /\ dirty' = {} /\ Typed' /\ MarkedRight' /\ OpenFits' /\ MakeFits' /\ MadeFits'
  <2>1. half \in BOOLEAN /\ lost \in BOOLEAN
    BY DEF IInv, Typed, TypeOK
  <2>2. half' \in BOOLEAN /\ lost' \in BOOLEAN
    BY <1>2, <2>1
  <2>3. QED
    BY <1>2, <2>2, Forgotten
<1>4. Planned'
  BY <1>1, <1>3 DEF Planned
<1>5. Roomy' /\ Asked'
  BY <1>1, NothingAsked
<1>6. HalfMarked'
  BY <1>1, <1>2, <1>3 DEF IInv, HalfMarked
<1>7. FinalFits'
  BY <1>1, <1>2, <1>3 DEF IInv, FinalFits, FinalSuper, FinalBitmap, FinalHeader, Area,
     BitmapFor, Fits
<1>8. QED
  BY <1>3, <1>4, <1>5, <1>6, <1>7 DEF IInv

-----------------------------------------------------------------------------
(* Failures preserve the invariant.                                        *)

(* What holds between the steps of an open handle that is unharmed holds   *)
(* of what its device will get.                                            *)
LEMMA FitsAreFinal ==
  ASSUME Typed, handle # "closed", ~lost, LengthFits, TreeFits, AreaFits, JournalFits, HeaderStored,
         "super" \notin dirty => dsuper = super
  PROVE  /\ FinalSuper = super
         /\ BitmapFor(FinalBitmap, super)
         /\ FinalHeader(super.kind, super.jp.len) = super.jp
<1>1. FinalSuper = super
  BY DEF FinalSuper
<1>2. BitmapFor(FinalBitmap, super)
  <2>1. CASE "bitmap" \in dirty
    BY <2>1 DEF FinalBitmap, BitmapFor, LengthFits, TreeFits, AreaFits
  <2>2. CASE "bitmap" \notin dirty
    BY <2>2 DEF FinalBitmap, BitmapFor, Typed, BitmapStored, LengthFits, Fits, TreeFits,
       AreaFits
  <2>3. QED
    BY <2>1, <2>2
<1>3. FinalHeader(super.kind, super.jp.len) = super.jp
  BY DEF FinalHeader, JournalFits, HeaderStored
<1>4. QED
  BY <1>1, <1>2, <1>3

(* A creation that fails preserves the invariant.                          *)
LEMMA CreateFailsPreserves ==
  ASSUME IInv, CreateFails
  PROVE  IInv'
<1>1. /\ handle = "creating" /\ todo' = Nothing /\ lost' = TRUE
      /\ Forget /\ UNCHANGED <<dsuper, dbitmap, heads, placement, fresh, tuned, half, lagged>>
  BY DEF CreateFails, Nothing, device
<1>2. half' \in BOOLEAN /\ lost' \in BOOLEAN /\ ~half'
  <2>1. half \in BOOLEAN /\ ~half
    BY <1>1 DEF IInv, Typed, TypeOK, MakeFits
  <2>2. QED
    BY <1>1, <2>1
<1>3. handle' = "closed" /\ dirty' = {} /\ Typed' /\ MarkedRight' /\ OpenFits' /\ MakeFits' /\ MadeFits'
  BY <1>1, <1>2, Forgotten
<1>4. Planned'
  BY <1>1, <1>3 DEF Planned
<1>5. Roomy' /\ Asked'
  BY <1>1, NothingAsked
<1>6. HalfMarked' /\ FinalFits'
  BY <1>1, <1>2, <1>3 DEF HalfMarked, FinalFits
<1>7. QED
  BY <1>3, <1>4, <1>5, <1>6 DEF IInv

(* A part that cannot be written on closing preserves it.                  *)
LEMMA SyncFailsPreserves ==
  ASSUME IInv, SyncFails
  PROVE  IInv'
<1>1. /\ handle = "closing" /\ handle' = "closing" /\ todo' = <<Free>> /\ lost' = TRUE
      /\ UNCHANGED <<dsuper, dbitmap, heads, placement, super, bitmap, journal, dirty,
                     ask, fresh,
                     tuned, half, lagged>>
  BY DEF SyncFails, Free, device, memory
<1>2. Typed'
  <2>1. TypeOK'
    BY <1>1 DEF IInv, Typed, TypeOK
  <2>2. QED
    BY <1>1, <2>1 DEF IInv, Typed, Real, BitmapStored, Fits
<1>3. Planned'
  BY <1>1 DEF Planned
<1>4. Roomy' /\ Asked'
  BY <1>1, CloseFirst, NothingAsked
<1>5. MarkedRight' /\ OpenFits' /\ MakeFits' /\ MadeFits'
  BY <1>1 DEF MarkedRight, OpenFits, MakeFits, MadeFits
<1>6. HalfMarked' /\ FinalFits'
  BY <1>1 DEF IInv, HalfMarked, FinalFits
<1>7. QED
  BY <1>2, <1>3, <1>4, <1>5, <1>6 DEF IInv

(* Between two calls the device is to hold what fits.                      *)
LEMMA IdleIsFinal ==
  ASSUME IInv, todo = Nothing, handle \in {"open", "created"}, ~lost
  PROVE  /\ FinalSuper = super
         /\ BitmapFor(FinalBitmap, super)
         /\ FinalHeader(super.kind, super.jp.len) = super.jp
         /\ TunedFits /\ super.state = "consistent"
<1>1. CASE handle = "open"
  <2>1. /\ LengthFits /\ TreeFits /\ AreaFits /\ JournalFits /\ TunedFits
    BY <1>1, Keys DEF IInv, OpenFits, Shifted
  <2>2. HeaderStored /\ SuperStored /\ super.state = "consistent"
    BY <1>1 DEF IInv, MarkedRight, Marked
  <2>3. QED
    BY <1>1, <2>1, <2>2, FitsAreFinal DEF IInv, SuperStored
<1>2. CASE handle = "created"
  <2>1. /\ dsuper = super /\ super.state = "consistent"
        /\ LengthFits /\ TreeFits /\ AreaFits /\ HeaderWritten(super.kind) /\ TunedFits
    BY <1>2 DEF IInv, MadeFits
  <2>2. JournalFits /\ HeaderStored
    BY <2>1 DEF HeaderWritten, JournalFits, HeaderStored
  <2>3. QED
    BY <1>2, <2>1, <2>2, FitsAreFinal DEF IInv
<1>3. QED
  BY <1>1, <1>2

(* A crash at any time preserves the invariant.                            *)
LEMMA CrashPreserves ==
  ASSUME IInv, Crash
  PROVE  IInv'
<1>1. /\ handle # "closed" /\ todo' = Nothing /\ tuned' = NoTuning
      /\ Forget /\ UNCHANGED <<dsuper, dbitmap, heads, placement, fresh, lagged>>
  BY DEF Crash, Nothing, device
<1>2. /\ lost' = (lost \/ dirty # {} \/ todo # Nothing)
      /\ half' = (half \/ (todo # Nothing /\ dsuper.state = "corrupted"))
  BY DEF Crash, Nothing
<1>3. half' \in BOOLEAN /\ lost' \in BOOLEAN
  BY <1>2, Zenon
<1>4. handle' = "closed" /\ dirty' = {} /\ Typed' /\ MarkedRight' /\ OpenFits' /\ MakeFits' /\ MadeFits'
  BY <1>1, <1>3, Forgotten
<1>5. Planned'
  BY <1>1, <1>4 DEF Planned
<1>6. Roomy' /\ Asked'
  BY <1>1, NothingAsked
<1>7. HalfMarked'
  BY <1>1, <1>2, <1>4 DEF IInv, HalfMarked
<1>8. FinalFits'
  <2>1. SUFFICES ASSUME ~lost', dsuper.state = "consistent"  PROVE FinalFits'
    BY <1>1, <1>4 DEF FinalFits, FinalSuper
  <2>2. ~lost /\ dirty = {} /\ todo = Nothing
    BY <1>2, <2>1
  <2>3. handle \in {"created", "open", "failed"}
    <3>1. handle \in {"closed", "creating", "created", "open", "failed", "closing"}
      BY DEF IInv, Typed, TypeOK
    <3>2. handle # "creating" /\ handle # "closing"
      BY <2>2, MakingFirst, ClosingFirst DEF IInv
    <3>3. QED
      BY <1>1, <3>1, <3>2
  <2>4. /\ BitmapFor(dbitmap, dsuper)
        /\ heads[dsuper.kind, dsuper.jp.len] = dsuper.jp
    <3>1. FinalSuper = dsuper /\ FinalBitmap = dbitmap
          /\ FinalHeader(dsuper.kind, dsuper.jp.len) = heads[dsuper.kind, dsuper.jp.len]
      BY <2>2 DEF FinalSuper, FinalBitmap, FinalHeader
    <3>2. CASE handle \in {"created", "open"}
      BY <2>2, <3>1, <3>2, IdleIsFinal
    <3>3. CASE handle = "failed"
      BY <2>1, <2>2, <3>1, <3>3 DEF IInv, FinalFits
    <3>4. QED
      BY <2>3, <3>2, <3>3
  <2>5. QED
    BY <1>1, <1>4, <2>1, <2>4 DEF FinalFits, FinalSuper, FinalBitmap, FinalHeader, Area,
       NoTuning, BitmapFor, Fits
<1>9. QED
  BY <1>4, <1>5, <1>6, <1>7, <1>8 DEF IInv

(* The three ways in which a step of an open handle fails.                 *)
LEMMA AtFailure ==
  ASSUME TypeOK, Planned, OperationFails
  PROVE  /\ handle = "open" /\ handle' = "failed" /\ todo' = Nothing
         /\ \/ todo \in Begins /\ Head(todo) = "corrupted"
            \/ todo \in {UnmarkOnly, HostEnd, TuneEnd} /\ Head(todo) = "consistent"
            \/ todo \in Middles \ {UnmarkOnly, HostEnd} /\ Head(todo) \notin {"corrupted", "consistent"}
<1>1. handle = "open" /\ handle' = "failed" /\ todo' = Nothing /\ todo # Nothing
  BY DEF OperationFails, Nothing
<1>2. First(todo) \in {Mark, Unmark, Move, FillTree, Plant, Wipe, Header}
  BY DEF OperationFails, Writing, First, Mark, Unmark, Move, FillTree, Plant, Wipe, Header
<1>3. todo \in {TuneEnd, TaintOnly} \cup Begins \cup Middles
  BY <1>1 DEF Planned
<1>4. todo # TaintOnly
  BY <1>2, Keys, Numbers
<1>5. todo \in Begins => First(todo) = Mark
  BY Keys DEF Begins
<1>6. todo \in {UnmarkOnly, HostEnd, TuneEnd} => First(todo) = Unmark
  BY Keys
<1>7. todo \in Middles \ {UnmarkOnly, HostEnd} => First(todo) \notin {Mark, Unmark}
  BY Keys, Numbers DEF Middles
<1>8. Head(todo) = First(todo) /\ Mark = "corrupted" /\ Unmark = "consistent"
  BY DEF First, Mark, Unmark
<1>9. QED
  BY <1>1, <1>3, <1>4, <1>5, <1>6, <1>7, <1>8, Zenon

(* An operation that stops half way preserves the invariant.               *)
LEMMA OperationFailsPreserves ==
  ASSUME IInv, OperationFails
  PROVE  IInv'
<1>1. /\ handle = "open" /\ handle' = "failed" /\ todo' = Nothing
      /\ \/ todo \in Begins /\ Head(todo) = "corrupted"
         \/ todo \in {UnmarkOnly, HostEnd, TuneEnd} /\ Head(todo) = "consistent"
         \/ todo \in Middles \ {UnmarkOnly, HostEnd} /\ Head(todo) \notin {"corrupted", "consistent"}
  BY AtFailure DEF IInv, Typed
<1>2. /\ tuned' = NoTuning
      /\ half' = (half \/ (dsuper.state = "corrupted" /\ Head(todo) # "consistent"))
      /\ UNCHANGED <<dsuper, dbitmap, placement, journal, ask, fresh, lost, lagged>>
  BY DEF OperationFails
<1>3. /\ super' \in Supers /\ super'.len = super.len /\ super'.kind = super.kind
      /\ super'.jp = super.jp /\ super'.reserved = super.reserved
      /\ super'.state = IF Head(todo) \in {"corrupted", "consistent"} THEN Head(todo) ELSE super.state
  <2>1. super \in Supers
    BY DEF IInv, Typed, TypeOK
  <2>2. CASE Head(todo) \in {"corrupted", "consistent"}
    <3>1. super' = [super EXCEPT !.state = Head(todo)]
      BY <2>2 DEF OperationFails
    <3>2. QED
      BY <2>1, <2>2, <3>1 DEF Supers
  <2>3. CASE Head(todo) \notin {"corrupted", "consistent"}
    <3>1. super' = super
      BY <2>3 DEF OperationFails
    <3>2. QED
      BY <2>1, <2>3, <3>1
  <2>4. QED
    BY <2>2, <2>3
<1>4. /\ bitmap' \in Bitmaps /\ dirty' \subseteq Parts /\ dirty \subseteq dirty'
      /\ dirty' \ {"bitmap"} = dirty \ {"bitmap"}
      /\ "bitmap" \notin dirty' => bitmap' = bitmap
      /\ Head(todo) \in {"corrupted", "consistent"} => bitmap' = bitmap /\ dirty' = dirty
  <2>1. bitmap \in Bitmaps /\ dirty \subseteq Parts /\ 0 \in 0..MaxFresh
    BY MaxFreshAssumption DEF IInv, Typed, TypeOK
  <2>2. CASE UNCHANGED <<bitmap, dirty>>
    BY <2>1, <2>2
  <2>3. CASE /\ bitmap' = [bitmap EXCEPT !.tree = 0] /\ dirty' = dirty \cup {"bitmap"}
             /\ Head(todo) \in {"relocate", "fill in"}
    <3>1. bitmap' \in Bitmaps
      BY <2>1, <2>3, BitmapWith
    <3>2. QED
      BY <2>1, <2>3, <3>1 DEF Parts
  <2>4. QED
    BY <2>2, <2>3 DEF OperationFails
<1>5. /\ heads' \in [Kinds \X JLens -> Heads]
      /\ Head(todo) \in {"corrupted", "consistent"} => heads' = heads
  <2>1. heads \in [Kinds \X JLens -> Heads] /\ Zero \in Heads
    BY MaxFreshAssumption DEF IInv, Typed, TypeOK, Zero, Heads
  <2>2. \A end : Filled(end) \in [Kinds \X JLens -> Heads]
    BY <2>1 DEF Filled
  <2>3. heads' = heads \/ (Head(todo) = "fill journal" /\ \E end \in 0..ask.jlen : heads' = Filled(end))
    BY DEF OperationFails
  <2>4. QED
    BY <2>1, <2>2, <2>3
<1>6. Typed'
  <2>1. half' \in BOOLEAN
    BY <1>2, Zenon
  <2>2. TypeOK'
    BY <1>1, <1>2, <1>3, <1>4, <1>5, <2>1 DEF IInv, Typed, TypeOK
  <2>3. "bitmap" \notin dirty' => BitmapStored'
    BY <1>1, <1>2, <1>4 DEF IInv, Typed, BitmapStored, Fits
  <2>4. QED
    BY <1>1, <1>2, <1>3, <2>2, <2>3 DEF IInv, Typed, Real
<1>7. Planned'
  BY <1>1 DEF Planned, Nothing
<1>8. Roomy' /\ Asked'
  BY <1>1, NothingAsked
<1>9. MarkedRight' /\ OpenFits' /\ MakeFits' /\ MadeFits'
  BY <1>1 DEF MarkedRight, OpenFits, MakeFits, MadeFits
<1>10. HalfMarked'
  <2>1. SUFFICES ASSUME half'  PROVE dsuper.state = "corrupted" /\ super'.state = "corrupted"
    BY <1>1, <1>2 DEF HalfMarked
  <2>2. ~half
    BY <1>1 DEF IInv, HalfMarked
  <2>3. dsuper.state = "corrupted" /\ Head(todo) # "consistent"
    BY <1>2, <2>1, <2>2
  <2>4. todo \notin Begins
    BY <1>1, <2>3 DEF IInv, MarkedRight, Marked
  <2>5. todo \in Middles
    BY <1>1, <2>3, <2>4
  <2>6. super.state = "corrupted"
    BY <1>1, <2>5 DEF IInv, MarkedRight, Marked
  <2>7. QED
    BY <1>1, <1>3, <2>3, <2>4, <2>6
<1>11. FinalFits'
  <2>1. SUFFICES ASSUME ~lost, FinalSuper'.state = "consistent"  PROVE FinalFits'
    BY <1>2 DEF FinalFits
  <2>2. CASE todo \in Begins /\ Head(todo) = "corrupted"
    <3>1. "super" \notin dirty
      BY <1>3, <1>4, <2>1, <2>2 DEF FinalSuper
    <3>2. dsuper = super /\ HeaderStored /\ super.state = "consistent"
      BY <1>1, <2>2, <3>1 DEF IInv, MarkedRight, Marked, SuperStored
    <3>3. LengthFits /\ TreeFits /\ AreaFits /\ JournalFits
      BY <1>1, <2>1, <2>2, Keys DEF IInv, OpenFits, Begins, Shifted
    <3>4. /\ BitmapFor(FinalBitmap, super)
          /\ FinalHeader(super.kind, super.jp.len) = super.jp
      BY <1>1, <2>1, <3>2, <3>3, FitsAreFinal DEF IInv
    <3>5. FinalSuper' = super /\ FinalBitmap' = FinalBitmap
          /\ FinalHeader(super.kind, super.jp.len)' = FinalHeader(super.kind, super.jp.len)
      BY <1>2, <1>3, <1>4, <1>5, <2>2, <3>1, <3>2 DEF FinalSuper, FinalBitmap, FinalHeader
    <3>6. BitmapFor(FinalBitmap, FinalSuper)'
      BY <1>2, <3>4, <3>5 DEF BitmapFor, Fits, Area
    <3>7. QED
      BY <1>1, <1>2, <1>3, <3>4, <3>5, <3>6 DEF FinalFits, NoTuning
  <2>3. CASE todo \in {UnmarkOnly, HostEnd, TuneEnd} /\ Head(todo) = "consistent"
    <3>1. "super" \in dirty \/ dsuper = super
      <4>1. "super" \notin dirty => dsuper.state = "consistent"
        BY <1>2, <1>4, <2>1, <2>3 DEF FinalSuper
      <4>2. todo # TuneEnd => dsuper.state = "corrupted"
        BY <1>1, <2>3 DEF IInv, MarkedRight, Marked, Middles
      <4>3. todo = TuneEnd => dsuper.state = "corrupted" \/ dsuper = super
        BY <1>1 DEF IInv, MarkedRight, Marked
      <4>4. QED
        BY <4>1, <4>2, <4>3
    <3>2. LengthFits /\ TreeFits /\ AreaFits /\ JournalFits
      BY <1>1, <2>1, <2>3, Keys DEF IInv, OpenFits, Shifted, Keeps
    <3>3. HeaderStored
      <4>1. todo = UnmarkOnly => HeaderStored
        BY <1>1 DEF IInv, MarkedRight, Keeps
      <4>2. todo = HostEnd => HeaderStored
        BY <1>1, <2>1 DEF IInv, OpenFits
      <4>3. todo = TuneEnd => HeaderStored \/ (dsuper.state = "corrupted" /\ "super" \notin dirty)
        BY <1>1, <2>1 DEF IInv, OpenFits
      <4>4. "super" \notin dirty => dsuper.state = "consistent"
        BY <1>2, <1>4, <2>1, <2>3 DEF FinalSuper
      <4>5. QED
        BY <2>3, <4>1, <4>2, <4>3, <4>4
    <3>4. /\ BitmapFor(FinalBitmap, super)
          /\ FinalHeader(super.kind, super.jp.len) = super.jp
      BY <1>1, <2>1, <3>1, <3>2, <3>3, FitsAreFinal DEF IInv
    <3>5. /\ FinalSuper'.len = super.len /\ FinalSuper'.kind = super.kind
          /\ FinalSuper'.jp = super.jp /\ FinalSuper'.reserved = super.reserved
      BY <1>2, <1>3, <1>4, <2>3, <3>1 DEF FinalSuper
    <3>6. /\ FinalBitmap' = FinalBitmap
          /\ FinalHeader(super.kind, super.jp.len)' = FinalHeader(super.kind, super.jp.len)
      BY <1>2, <1>3, <1>4, <1>5, <2>3 DEF FinalBitmap, FinalHeader
    <3>7. BitmapFor(FinalBitmap, FinalSuper)'
      BY <1>2, <3>4, <3>5, <3>6 DEF BitmapFor, Fits, Area
    <3>8. QED
      BY <1>1, <1>2, <1>3, <3>4, <3>5, <3>6, <3>7 DEF FinalFits, NoTuning
  <2>4. CASE todo \in Middles \ {UnmarkOnly, HostEnd} /\ Head(todo) \notin {"corrupted", "consistent"}
    <3>1. dsuper.state = "corrupted" /\ super.state = "corrupted"
      BY <1>1, <2>4 DEF IInv, MarkedRight, Marked
    <3>2. FinalSuper'.state = "corrupted"
      BY <1>2, <1>3, <2>4, <3>1 DEF FinalSuper
    <3>3. QED
      BY <2>1, <3>2
  <2>5. QED
    BY <1>1, <2>2, <2>3, <2>4
<1>12. QED
  BY <1>6, <1>7, <1>8, <1>9, <1>10, <1>11 DEF IInv

-----------------------------------------------------------------------------
(* The calls preserve the invariant.                                       *)
LEMMA CreatePreserves ==
  ASSUME IInv, NEW n \in Lens, NEW k \in Kinds, NEW l \in JLens, Create(n, k, l)
  PROVE  IInv'
<1>1. handle' = "creating" /\ todo' = MakeWipe /\ fresh + 2 <= MaxFresh
  BY MakePlan DEF Create, MayTake
<1>2. /\ super' = [state |-> "consistent", len |-> n, kind |-> k,
                   jp |-> [len |-> l, magic |-> 0], reserved |-> 0, label |-> FALSE]
      /\ bitmap' = [len |-> n, tree |-> 0, area |-> 0]
      /\ ask' = [len |-> n, kind |-> k, jlen |-> l, old |-> 0]
  BY DEF Create
<1>3. /\ super' \in Supers /\ super'.state = "consistent" /\ super'.len = n /\ super'.kind = k
      /\ super'.jp.len = l /\ super'.reserved = 0
      /\ bitmap' \in Bitmaps /\ bitmap'.len = n /\ bitmap'.area = 0
      /\ ask'.kind = k /\ ask'.jlen = l
  <2>1. 0 \in 0..MaxFresh
    BY MaxFreshAssumption
  <2>2. QED
    BY <1>2, <2>1 DEF Supers, Bitmaps
<1>4. /\ journal' = None /\ dirty' = {"super", "bitmap"} /\ half' = FALSE /\ tuned' = NoTuning
      /\ lagged' = FALSE
      /\ UNCHANGED <<dsuper, dbitmap, heads, placement, fresh, lost>>
  BY DEF Create, device
<1>5. Typed'
  <2>1. TypeOK'
    BY <1>1, <1>3, <1>4 DEF IInv, Typed, TypeOK, Parts
  <2>2. QED
    BY <1>1, <1>3, <1>4, <2>1 DEF IInv, Typed, Real, BitmapStored, Fits
<1>6. Planned'
  BY <1>1 DEF Planned, Makes
<1>7. Roomy'
  <2>1. fresh' + 2 <= MaxFresh
    BY <1>1, <1>4
  <2>2. QED
    BY <1>1, <2>1, Keys DEF Roomy, Hosts, Aways, Anews, Renews
<1>8. Asked'
  BY <1>1, Keys DEF Asked, Resizes, Hosts, Aways, Anews, Renews
<1>9. MarkedRight' /\ OpenFits' /\ MadeFits' /\ FinalFits'
  BY <1>1 DEF MarkedRight, OpenFits, MadeFits, FinalFits
<1>10. HalfMarked'
  BY <1>4 DEF HalfMarked
<1>11. MakeFits'
  <2>1. bitmap'.len = super'.len
    BY <1>3
  <2>2. QED
    BY <1>1, <1>3, <1>4, <2>1, Keys DEF MakeFits
<1>12. QED
  BY <1>5, <1>6, <1>7, <1>8, <1>9, <1>10, <1>11 DEF IInv

(* Opening a filesystem preserves the invariant.                           *)
LEMMA OpenPreserves ==
  ASSUME IInv, NEW withJournal \in BOOLEAN, Open(withJournal)
  PROVE  IInv'
<1>1. /\ handle = "closed" /\ handle' = "open" /\ todo = Nothing /\ todo' = Nothing
      /\ dsuper.state = "consistent" /\ dirty = {}
  BY DEF Open, Idle, Nothing, IInv, Typed
<1>2. /\ super' = dsuper /\ dirty' = {} /\ bitmap' \in Bitmaps
      /\ bitmap'.len = dsuper.len /\ bitmap'.tree = dbitmap.tree /\ bitmap'.area = dbitmap.area
      /\ UNCHANGED <<dsuper, dbitmap, heads, placement, ask, fresh, tuned, half, lost, lagged>>
  <2>1. dsuper.len \in Lens
    BY <1>1 DEF IInv, Typed, Real
  <2>2. dbitmap \in Bitmaps
    BY DEF IInv, Typed, TypeOK
  <2>3. bitmap' = [dbitmap EXCEPT !.len = dsuper.len]
    BY DEF Open
  <2>4. /\ bitmap' \in Bitmaps /\ bitmap'.len = dsuper.len
        /\ bitmap'.tree = dbitmap.tree /\ bitmap'.area = dbitmap.area
    BY <2>1, <2>2, <2>3, BitmapWith
  <2>5. QED
    BY <2>4 DEF Open, device, history
<1>3. journal' = None \/ journal' = heads[dsuper.kind, dsuper.jp.len]
  BY DEF Open
<1>4. heads[dsuper.kind, dsuper.jp.len] \in Heads
  <2>1. dsuper.kind \in Kinds /\ dsuper.jp.len \in JLens
    BY <1>1 DEF IInv, Typed, TypeOK, Real, Supers
  <2>2. heads \in [Kinds \X JLens -> Heads]
    BY DEF IInv, Typed, TypeOK
  <2>3. QED
    BY <2>1, <2>2
<1>5. Typed'
  <2>1. TypeOK'
    BY <1>1, <1>2, <1>3, <1>4 DEF IInv, Typed, TypeOK
  <2>2. lost \/ BitmapFor(dbitmap, dsuper)
    BY <1>1 DEF IInv, FinalFits, FinalSuper, FinalBitmap
  <2>3. BitmapStored'
    BY <1>1, <1>2, <2>2 DEF BitmapStored, BitmapFor, Fits
  <2>4. QED
    BY <1>1, <1>2, <2>1, <2>3 DEF IInv, Typed, Real
<1>6. Planned'
  BY <1>1 DEF Planned
<1>7. Roomy' /\ Asked'
  BY <1>1, NothingAsked
<1>8. MarkedRight'
  <2>1. Marked("consistent")' /\ SuperStored' /\ HeaderStored'
    BY <1>1, <1>2, <1>3 DEF Marked, SuperStored, HeaderStored
  <2>2. QED
    BY <1>1, <2>1, Keys DEF MarkedRight, Middles
<1>9. HalfMarked'
  BY <1>1, <1>2 DEF IInv, HalfMarked
<1>10. OpenFits'
  <2>1. SUFFICES ASSUME ~lost  PROVE OpenFits'
    BY <1>2 DEF OpenFits
  <2>2. /\ BitmapFor(dbitmap, dsuper)
        /\ heads[dsuper.kind, dsuper.jp.len] = dsuper.jp
        /\ tuned.kind = "relocated" => dsuper.kind = "relocated" /\ dsuper.jp.len = tuned.len
    BY <1>1, <2>1 DEF IInv, FinalFits, FinalSuper, FinalBitmap, FinalHeader
  <2>3. LengthFits' /\ TreeFits' /\ AreaFits' /\ JournalFits' /\ TunedFits'
    BY <1>2, <1>3, <2>2 DEF BitmapFor, LengthFits, Fits, TreeFits, AreaFits, Area, JournalFits, TunedFits
  <2>4. QED
    BY <1>1, <2>3, Keys DEF OpenFits, Shifted, Aways
<1>11. MakeFits' /\ MadeFits' /\ FinalFits'
  BY <1>1 DEF MakeFits, MadeFits, FinalFits
<1>12. QED
  BY <1>5, <1>6, <1>7, <1>8, <1>9, <1>10, <1>11 DEF IInv

(* Setting the label preserves the invariant.                              *)
LEMMA SetLabelPreserves ==
  ASSUME IInv, SetLabel
  PROVE  IInv'
<1>1. handle = "open" /\ handle' = "open" /\ todo = Nothing /\ todo' = Nothing
  BY DEF SetLabel, Idle, Nothing
<1>2. /\ dirty' = dirty \cup {"super"}
      /\ UNCHANGED <<dsuper, dbitmap, heads, placement, bitmap, journal, ask, fresh,
                     tuned, half, lost, lagged>>
  BY DEF SetLabel, device, history
<1>3. /\ super' \in Supers /\ super'.state = super.state /\ super'.len = super.len
      /\ super'.kind = super.kind /\ super'.jp = super.jp /\ super'.reserved = super.reserved
  BY DEF SetLabel, IInv, Typed, TypeOK, Supers
<1>4. Typed'
  <2>1. TypeOK'
    BY <1>1, <1>2, <1>3 DEF IInv, Typed, TypeOK, Parts
  <2>2. QED
    BY <1>1, <1>2, <1>3, <2>1 DEF IInv, Typed, Real, BitmapStored, Fits
<1>5. Planned'
  BY <1>1 DEF Planned
<1>6. Roomy' /\ Asked'
  BY <1>1, NothingAsked
<1>7. MarkedRight'
  <2>1. Marked("consistent") /\ HeaderStored
    BY <1>1 DEF IInv, MarkedRight
  <2>2. Marked("consistent")' /\ SuperStored' /\ HeaderStored'
    BY <1>2, <1>3, <2>1 DEF Marked, SuperStored, HeaderStored
  <2>3. QED
    BY <1>1, <2>2, Keys DEF MarkedRight, Middles
<1>8. HalfMarked'
  BY <1>1, <1>2 DEF IInv, HalfMarked
<1>9. OpenFits'
  <2>1. SUFFICES ASSUME ~lost  PROVE OpenFits'
    BY <1>2 DEF OpenFits
  <2>2. LengthFits /\ TreeFits /\ AreaFits /\ JournalFits /\ TunedFits
    BY <1>1, <2>1, Keys DEF IInv, OpenFits, Shifted
  <2>3. LengthFits' /\ TreeFits' /\ AreaFits' /\ JournalFits' /\ TunedFits'
    BY <1>2, <1>3, <2>2 DEF LengthFits, Fits, TreeFits, AreaFits, Area, JournalFits, TunedFits
  <2>4. QED
    BY <1>1, <2>3, Keys DEF OpenFits, Shifted, Aways
<1>10. MakeFits' /\ MadeFits' /\ FinalFits'
  BY <1>1 DEF MakeFits, MadeFits, FinalFits
<1>11. QED
  BY <1>4, <1>5, <1>6, <1>7, <1>8, <1>9, <1>10 DEF IInv

(* Beginning to close preserves the invariant.                             *)
LEMMA ClosePreserves ==
  ASSUME IInv, Close
  PROVE  IInv'
<1>1. /\ handle \in {"open", "created", "failed"} /\ handle' = "closing" /\ todo = Nothing
      /\ todo' = ClosePlan(dirty)
  BY DEF Close, Idle, Nothing, ClosePlan, Free
<1>2. UNCHANGED <<dsuper, dbitmap, heads, placement, super, bitmap, journal, dirty,
                  ask, fresh,
                  tuned, half, lost, lagged>>
  BY DEF Close, device, memory, history
<1>3. Typed'
  <2>1. TypeOK'
    BY <1>1, <1>2 DEF IInv, Typed, TypeOK
  <2>2. QED
    BY <1>1, <1>2, <2>1 DEF IInv, Typed, Real, BitmapStored, Fits
<1>4. Planned'
  BY <1>1, <1>2 DEF Planned, ClosePlan, SyncSteps
<1>5. Roomy' /\ Asked'
  BY <1>1, CloseFirst, NothingAsked
<1>6. MarkedRight' /\ OpenFits' /\ MakeFits' /\ MadeFits'
  BY <1>1 DEF MarkedRight, OpenFits, MakeFits, MadeFits
<1>7. HalfMarked'
  BY <1>1, <1>2 DEF IInv, HalfMarked, MadeFits
<1>8. FinalFits'
  <2>1. SUFFICES ASSUME ~lost, FinalSuper.state = "consistent"  PROVE FinalFits'
    BY <1>2 DEF FinalFits, FinalSuper
  <2>2. /\ BitmapFor(FinalBitmap, FinalSuper)
        /\ FinalHeader(FinalSuper.kind, FinalSuper.jp.len) = FinalSuper.jp
        /\ tuned.kind = "relocated" =>
             FinalSuper.kind = "relocated" /\ FinalSuper.jp.len = tuned.len
    <3>1. CASE handle \in {"open", "created"}
      BY <1>1, <2>1, <3>1, IdleIsFinal DEF TunedFits
    <3>2. CASE handle = "failed"
      BY <2>1, <3>2 DEF IInv, FinalFits
    <3>3. QED
      BY <1>1, <3>1, <3>2
  <2>3. QED
    BY <1>2, <2>2 DEF FinalFits, FinalSuper, FinalBitmap, FinalHeader, Area,
       BitmapFor, Fits
<1>9. QED
  BY <1>3, <1>4, <1>5, <1>6, <1>7, <1>8 DEF IInv

(* Beginning to resize preserves the invariant.                            *)
LEMMA ResizePreserves ==
  ASSUME IInv, NEW n \in Lens, Resize(n)
  PROVE  IInv'
<1>1. /\ handle = "open" /\ handle' = "open" /\ todo = Nothing
      /\ todo' \in {GrowBegin, ShrinkBegin} /\ fresh + 1 <= MaxFresh
  <2>1. todo' = ResizeSteps(n) /\ ResizeSteps(n) = IF n > super.len THEN GrowBegin ELSE ShrinkBegin
    BY ResizePlan DEF Resize
  <2>2. QED
    BY <2>1 DEF Resize, Idle, Nothing, MayTake
<1>2. /\ ask'.len = n
      /\ UNCHANGED <<dsuper, dbitmap, heads, placement, super, bitmap, journal, dirty, fresh,
                     tuned, half, lost, lagged>>
  BY DEF Resize, device, memory, history, NoAsk
<1>3. Typed'
  <2>1. TypeOK'
    BY <1>1, <1>2 DEF IInv, Typed, TypeOK
  <2>2. QED
    BY <1>1, <1>2, <2>1 DEF IInv, Typed, Real, BitmapStored, Fits
<1>4. Planned'
  BY <1>1 DEF Planned, Begins
<1>5. Roomy'
  BY <1>1, <1>2, Keys DEF Roomy
<1>6. Asked'
  BY <1>1, <1>2, Keys DEF Asked, Hosts, Aways, Anews, Renews
<1>7. MarkedRight'
  <2>1. Marked("consistent") /\ SuperStored /\ HeaderStored
    BY <1>1 DEF IInv, MarkedRight
  <2>2. Marked("consistent")' /\ SuperStored' /\ HeaderStored'
    BY <1>2, <2>1 DEF Marked, SuperStored, HeaderStored
  <2>3. QED
    BY <1>1, <2>2, Keys DEF MarkedRight, Middles
<1>8. HalfMarked'
  BY <1>1, <1>2 DEF IInv, HalfMarked
<1>9. OpenFits'
  <2>1. SUFFICES ASSUME ~lost  PROVE OpenFits'
    BY <1>2 DEF OpenFits
  <2>2. LengthFits /\ TreeFits /\ AreaFits /\ JournalFits /\ TunedFits
    BY <1>1, <2>1, Keys DEF IInv, OpenFits, Shifted
  <2>3. LengthFits' /\ TreeFits' /\ AreaFits' /\ JournalFits' /\ TunedFits'
    BY <1>2, <2>2 DEF LengthFits, Fits, TreeFits, AreaFits, Area, JournalFits, TunedFits
  <2>4. QED
    BY <1>1, <2>3, Keys DEF OpenFits, Aways
<1>10. MakeFits' /\ MadeFits' /\ FinalFits'
  BY <1>1 DEF MakeFits, MadeFits, FinalFits
<1>11. QED
  BY <1>3, <1>4, <1>5, <1>6, <1>7, <1>8, <1>9, <1>10 DEF IInv

(* Beginning to copy a tree preserves the invariant.                       *)
LEMMA CopyPreserves ==
  ASSUME IInv, Copy
  PROVE  IInv'
<1>1. /\ handle = "created" /\ handle' = "open" /\ todo = Nothing
      /\ todo' = CopyBegin /\ fresh + 1 <= MaxFresh
  BY CopyPlan DEF Copy, Idle, Nothing, MayTake
<1>2. UNCHANGED <<dsuper, dbitmap, heads, placement, super, bitmap, journal, dirty,
                  ask, fresh,
                  tuned, half, lost, lagged>>
  BY DEF Copy, device, memory, history
<1>3. Typed'
  <2>1. TypeOK'
    BY <1>1, <1>2 DEF IInv, Typed, TypeOK
  <2>2. QED
    BY <1>1, <1>2, <2>1 DEF IInv, Typed, Real, BitmapStored, Fits
<1>4. Planned'
  BY <1>1 DEF Planned, Begins
<1>5. Roomy'
  BY <1>1, <1>2, Keys DEF Roomy, Hosts
<1>6. Asked'
  BY <1>1, Keys DEF Asked, Resizes, Hosts, Aways, Anews, Renews
<1>7. /\ dirty = {} /\ dsuper = super /\ super.state = "consistent" /\ ~half
      /\ LengthFits /\ TreeFits /\ AreaFits /\ HeaderWritten(super.kind) /\ TunedFits
  BY <1>1 DEF IInv, MadeFits
<1>8. MarkedRight'
  <2>1. Marked("consistent")' /\ SuperStored' /\ HeaderStored'
    BY <1>2, <1>7 DEF Marked, SuperStored, HeaderStored, HeaderWritten
  <2>2. QED
    BY <1>1, <2>1, Keys DEF MarkedRight, Middles
<1>9. HalfMarked'
  BY <1>2, <1>7 DEF HalfMarked
<1>10. OpenFits'
  <2>1. LengthFits' /\ TreeFits' /\ AreaFits' /\ JournalFits' /\ TunedFits'
    BY <1>2, <1>7 DEF LengthFits, Fits, TreeFits, AreaFits, Area, JournalFits, TunedFits,
       HeaderWritten
  <2>2. QED
    BY <1>1, <2>1, Keys DEF OpenFits, Aways
<1>11. MakeFits' /\ MadeFits' /\ FinalFits'
  BY <1>1 DEF MakeFits, MadeFits, FinalFits
<1>12. QED
  BY <1>3, <1>4, <1>5, <1>6, <1>8, <1>9, <1>10, <1>11 DEF IInv

(* The plan of a tuning and what it asks for.                              *)
LEMMA TunePlans ==
  ASSUME Typed, handle = "open", NEW k \in Kinds, NEW l \in JLens
  PROVE  \/ /\ k = "standard" /\ super.kind = "relocated"
            /\ TunePlan(k, l) = IF super.reserved = 0 THEN HostBeginMove ELSE HostBegin
         \/ k = "relocated" /\ super.kind = "standard" /\ TunePlan(k, l) = AwayBegin
         \/ /\ k = "relocated" /\ super.kind = "relocated" /\ l # super.jp.len
            /\ TunePlan(k, l) = AnewBegin
         \/ /\ k = "standard" /\ super.kind = "standard" /\ l = super.jp.len
            /\ TunePlan(k, l) = RenewBegin
         \/ /\ super.kind = k /\ (k = "standard") # (l = super.jp.len)
            /\ TunePlan(k, l) = SameBegin
<1>1. super.kind \in {"standard", "relocated"} /\ k \in {"standard", "relocated"}
  BY DEF Typed, TypeOK, Supers, Kinds
<1>2. CASE k = "standard" /\ super.kind = "relocated"
  BY <1>2, HostPlan
<1>3. CASE k = "relocated" /\ super.kind = "standard"
  BY <1>3, AwayPlan
<1>4. CASE k = "relocated" /\ super.kind = "relocated" /\ l # super.jp.len
  BY <1>4, AnewPlan
<1>5. CASE k = "standard" /\ super.kind = "standard" /\ l = super.jp.len
  BY <1>5, RenewPlan
<1>6. CASE super.kind = k /\ (k = "standard") # (l = super.jp.len)
  BY <1>6, SamePlan
<1>7. QED
  BY <1>1, <1>2, <1>3, <1>4, <1>5, <1>6

(* A tuning takes its lengths from those allowed.                          *)
LEMMA TuneLengths ==
  ASSUME Typed, NEW k \in Kinds, NEW l \in JLens, NEW n \in LengthsFor(k, l)
  PROVE  n \in JLens /\ (k = "relocated" \/ super.kind = "standard" => n = l)
<1>1. super.reserved \in {0} \cup {j + 1 : j \in JLens}
  BY DEF Typed, TypeOK, Supers
<1>2. CASE k = "relocated" \/ super.kind = "standard"
  BY <1>2 DEF LengthsFor
<1>3. CASE ~(k = "relocated" \/ super.kind = "standard") /\ super.reserved = 0
  BY <1>3 DEF LengthsFor
<1>4. CASE ~(k = "relocated" \/ super.kind = "standard") /\ super.reserved # 0
  <2>1. PICK j \in JLens : super.reserved = j + 1
    BY <1>1, <1>4
  <2>2. n = super.reserved - 1
    BY <1>4 DEF LengthsFor
  <2>3. QED
    BY <1>4, <2>1, <2>2, JLensAssumption
<1>5. QED
  BY <1>2, <1>3, <1>4

(* Beginning to tune the journal preserves the invariant.                  *)
LEMMA TunePreserves ==
  ASSUME IInv, NEW k \in Kinds, NEW l \in JLens, Tune(k, l)
  PROVE  IInv'
<1>1. /\ handle = "open" /\ handle' = "open" /\ todo = Nothing /\ todo' = TunePlan(k, l)
  BY DEF Tune, TunePlan, Idle, Nothing
<1>2. PICK n \in LengthsFor(k, l) : ask' = [len |-> 0, kind |-> k, jlen |-> n, old |-> super.jp.len]
  BY DEF Tune
<1>3. /\ n \in JLens /\ (k = "relocated" \/ super.kind = "standard" => n = l)
  BY TuneLengths DEF IInv
<1>4. /\ ask'.kind = k /\ ask'.jlen = n /\ ask'.old = super.jp.len /\ super.jp.len \in JLens
      /\ tuned'.kind = k /\ tuned'.len = l
  BY <1>1, <1>2 DEF Tune, IInv, Typed, Real, BitmapStored, Fits
<1>5. UNCHANGED <<dsuper, dbitmap, heads, placement, super, bitmap, journal, dirty,
                  fresh, half, lost, lagged>>
  BY DEF Tune, device, memory
<1>6. \/ /\ k = "standard" /\ super.kind = "relocated"
         /\ todo' = IF super.reserved = 0 THEN HostBeginMove ELSE HostBegin
      \/ k = "relocated" /\ super.kind = "standard" /\ todo' = AwayBegin
      \/ k = "relocated" /\ super.kind = "relocated" /\ todo' = AnewBegin
      \/ k = "standard" /\ super.kind = "standard" /\ l = super.jp.len /\ todo' = RenewBegin
      \/ /\ todo' = SameBegin
         /\ k = "relocated" => super.kind = "relocated" /\ l = super.jp.len
  BY <1>1, TunePlans DEF IInv
<1>7. Typed'
  <2>1. TypeOK'
    BY <1>1, <1>5 DEF IInv, Typed, TypeOK
  <2>2. QED
    BY <1>1, <1>5, <2>1 DEF IInv, Typed, Real, BitmapStored, Fits
<1>8. Planned'
  BY <1>1, <1>6 DEF Planned, Begins
<1>9. Roomy'
  <2>1. /\ fresh \in Nat /\ fresh + 1 <= MaxFresh
        /\ super.kind = "relocated" /\ super.reserved = 0 => fresh + 2 <= MaxFresh
    <3>1. fresh \in 0..MaxFresh
      BY DEF IInv, Typed, TypeOK
    <3>2. fresh + (IF super.kind = "relocated" /\ super.reserved = 0 THEN 2 ELSE 1) <= MaxFresh
      BY DEF Tune, MayTake
    <3>3. QED
      BY <3>1, <3>2, MaxFreshAssumption
  <2>2. todo' = HostBeginMove => fresh' + 2 <= MaxFresh
    BY <1>5, <1>6, <2>1, Keys
  <2>3. fresh' + 1 <= MaxFresh
    BY <1>5, <2>1
  <2>4. QED
    BY <1>6, <2>2, <2>3, Keys DEF Roomy
<1>10. Asked'
  BY <1>3, <1>4, <1>5, <1>6, Keys DEF Asked, Resizes, Hosts, Aways, Anews, Renews
<1>11. MarkedRight'
  <2>1. Marked("consistent") /\ SuperStored /\ HeaderStored
    BY <1>1 DEF IInv, MarkedRight
  <2>2. Marked("consistent")' /\ SuperStored' /\ HeaderStored'
    BY <1>5, <2>1 DEF Marked, SuperStored, HeaderStored
  <2>3. QED
    BY <1>6, <2>2, Keys DEF MarkedRight, Middles
<1>12. HalfMarked'
  BY <1>1, <1>5 DEF IInv, HalfMarked
<1>13. OpenFits'
  <2>1. SUFFICES ASSUME ~lost  PROVE OpenFits'
    BY <1>5 DEF OpenFits
  <2>2. LengthFits /\ TreeFits /\ AreaFits /\ JournalFits
    BY <1>1, <2>1, Keys DEF IInv, OpenFits, Shifted
  <2>3. LengthFits' /\ TreeFits' /\ AreaFits' /\ JournalFits'
    BY <1>5, <2>2 DEF LengthFits, Fits, TreeFits, AreaFits, Area, JournalFits
  <2>4. todo' = SameBegin => TunedFits'
    BY <1>4, <1>5, <1>6, Keys DEF TunedFits
  <2>5. todo' = AwayBegin => bitmap'.area = ask'.old + 1
    BY <1>4, <1>5, <1>6, <2>2, Keys DEF AreaFits, Area
  <2>6. QED
    BY <1>6, <2>3, <2>4, <2>5, Keys DEF OpenFits, Resizes, Aways
<1>14. MakeFits' /\ MadeFits' /\ FinalFits'
  BY <1>1 DEF MakeFits, MadeFits, FinalFits
<1>15. QED
  BY <1>7, <1>8, <1>9, <1>10, <1>11, <1>12, <1>13, <1>14 DEF IInv

(* A step that changes nothing preserves the invariant.                    *)
LEMMA StutterPreserves ==
  ASSUME IInv, UNCHANGED vars
  PROVE  IInv'
<1>1. UNCHANGED <<dsuper, dbitmap, heads, placement, handle, super, bitmap, journal,
                  dirty, todo,
                  ask, fresh, tuned, half, lost, lagged>>
  BY DEF vars, device, memory, history
<1>2. Typed'
  BY <1>1 DEF IInv, Typed, TypeOK, Real, BitmapStored, Fits
<1>3. Planned'
  BY <1>1 DEF IInv, Planned, SyncSteps
<1>4. Roomy' /\ Asked'
  BY <1>1 DEF IInv, Roomy, Asked
<1>5. MarkedRight' /\ HalfMarked'
  BY <1>1 DEF IInv, MarkedRight, HalfMarked, Marked, SuperStored, HeaderStored
<1>6. OpenFits'
  BY <1>1 DEF IInv, OpenFits, LengthFits, Fits, TreeFits, AreaFits, Area, JournalFits, TunedFits,
     HeaderStored, HeaderWritten
<1>7. MakeFits' /\ MadeFits'
  BY <1>1 DEF IInv, MakeFits, MadeFits, LengthFits, Fits, TreeFits, AreaFits, Area, TunedFits,
     HeaderWritten
<1>8. FinalFits'
  BY <1>1 DEF IInv, FinalFits, FinalSuper, FinalBitmap, FinalHeader, Area,
     BitmapFor, Fits
<1>9. QED
  BY <1>2, <1>3, <1>4, <1>5, <1>6, <1>7, <1>8 DEF IInv

-----------------------------------------------------------------------------
(* The invariant is inductive.                                             *)
LEMMA InitIsSound == Init => IInv
<1> SUFFICES ASSUME Init  PROVE IInv
  OBVIOUS
<1>1. /\ handle = "closed" /\ todo = Nothing /\ dirty = {} /\ ~half /\ dsuper.state = "none"
      /\ dsuper = NoSuper /\ super = NoSuper /\ bitmap = NoBitmap /\ dbitmap = NoBitmap
      /\ journal = None /\ placement = 0 /\ fresh = 0 /\ half = FALSE /\ lost = FALSE
      /\ lagged = FALSE
      /\ heads = [at \in Kinds \X JLens |-> Zero]
  BY DEF Init, Nothing, NoSuper
<1>2. NoSuper \in Supers /\ NoBitmap \in Bitmaps /\ Zero \in Heads /\ 0 \in 0..MaxFresh
  BY MaxFreshAssumption DEF NoSuper, NoBitmap, Supers, Bitmaps, Zero, Kinds, Heads
<1>3. heads \in [Kinds \X JLens -> Heads]
  BY <1>1, <1>2
<1>4. Typed
  BY <1>1, <1>2, <1>3 DEF Typed, TypeOK
<1>5. Planned
  BY <1>1 DEF Planned
<1>6. Roomy /\ Asked
  <2>1. todo \notin {HostUse, HostEnd, AwayReserve, MakeWipe, MakeHeader, MakePlant,
                     CopyBegin, CopyFill}
                    \cup Resizes \cup Hosts \cup Aways \cup Anews \cup Renews
    BY <1>1, NoPlan
  <2>2. /\ HostBeginMove \in Hosts /\ HostMove \in Hosts
        /\ ShrinkBegin \in Resizes /\ ShrinkMove \in Resizes /\ ResizeEnd \in Resizes
    BY DEF Hosts, Resizes
  <2>3. QED
    BY <2>1, <2>2 DEF Roomy, Asked
<1>7. MarkedRight /\ HalfMarked /\ OpenFits /\ MakeFits /\ MadeFits
  BY <1>1 DEF MarkedRight, HalfMarked, OpenFits, MakeFits, MadeFits
<1>8. FinalFits
  BY <1>1 DEF FinalFits, FinalSuper
<1>9. QED
  BY <1>4, <1>5, <1>6, <1>7, <1>8 DEF IInv

(* Every step preserves the inductive invariant.                           *)
LEMMA NextIsSound == IInv /\ [Next]_vars => IInv'
<1> SUFFICES ASSUME IInv, [Next]_vars  PROVE IInv'
  OBVIOUS
<1>1. handle \in {"closed", "creating", "created", "open", "failed", "closing"}
  BY DEF IInv, Typed, TypeOK
<1>2. CASE Call
  <2>1. ASSUME NEW n \in Lens, NEW k \in Kinds, NEW l \in JLens, Create(n, k, l)  PROVE IInv'
    BY <2>1, CreatePreserves
  <2>2. ASSUME NEW withJournal \in BOOLEAN, Open(withJournal)  PROVE IInv'
    BY <2>2, OpenPreserves
  <2>3. ASSUME NEW n \in Lens, Resize(n)  PROVE IInv'
    BY <2>3, ResizePreserves
  <2>4. CASE Copy
    BY <2>4, CopyPreserves
  <2>5. ASSUME NEW k \in Kinds, NEW l \in JLens, Tune(k, l)  PROVE IInv'
    BY <2>5, TunePreserves
  <2>6. CASE SetLabel
    BY <2>6, SetLabelPreserves
  <2>7. CASE Close
    BY <2>7, ClosePreserves
  <2>8. QED
    BY <1>2, <2>1, <2>2, <2>3, <2>4, <2>5, <2>6, <2>7 DEF Call
<1>3. CASE StateUpdates
  <2>1. CASE StateUpdate("corrupted")
    BY <2>1, MarkPreserves
  <2>2. CASE StateUpdate("consistent")
    BY <2>2, UnmarkPreserves
  <2>3. QED
    BY <1>3, <2>1, <2>2 DEF StateUpdates
<1>4. CASE Relocate \/ ResizeBitmap \/ SetLength \/ CloseJournal \/ UseArea \/ ReserveArea
           \/ NewParameters \/ MarkAll
  BY <1>4, MovePreserves, BitsPreserves, LengthPreserves, DropPreserves, UsePreserves,
     ReservePreserves, RenewPreserves, TaintPreserves
<1>5. CASE FillIn
  <2>1. handle = "open" \/ handle = "creating"
    BY <1>5, AtFillTree, AtPlant DEF IInv, Typed, FillIn, FillTree, Plant
  <2>2. QED
    BY <1>5, <2>1, FillTreePreserves, MakePlantPreserves
<1>6. CASE FillJournal
  <2>1. handle = "open" \/ handle = "creating"
    BY <1>6, AtWipe DEF IInv, Typed, FillJournal, Wipe
  <2>2. QED
    BY <1>6, <2>1, WipePreserves, MakeWipePreserves
<1>7. CASE WriteHeader
  <2>1. handle = "open" \/ handle = "creating"
    BY <1>7, AtHeader DEF IInv, Typed, WriteHeader, Header
  <2>2. QED
    BY <1>7, <2>1, HeaderPreserves, MakeHeaderPreserves
<1>8. CASE SyncSuper
  <2>1. handle = "creating" \/ handle = "closing"
    BY <1>8, AtPutSuper DEF IInv, Typed, SyncSuper, PutSuper
  <2>2. QED
    BY <1>8, <2>1, MakeSuperPreserves, CloseSuperPreserves
<1>9. CASE SyncBitmap
  <2>1. handle = "creating" \/ handle = "closing"
    BY <1>9, AtPutBitmap DEF IInv, Typed, SyncBitmap, PutBitmap
  <2>2. QED
    BY <1>9, <2>1, MakeBitmapPreserves, CloseBitmapPreserves
<1>10. CASE SyncJournal \/ Created \/ Release
  BY <1>10, CloseHeaderPreserves, CreatedPreserves, ReleasePreserves
<1>11. CASE OperationFails \/ CreateFails \/ SyncFails \/ Crash
  BY <1>11, OperationFailsPreserves, CreateFailsPreserves, SyncFailsPreserves,
     CrashPreserves
<1>12. CASE UNCHANGED vars
  BY <1>12, StutterPreserves
<1>13. QED
  BY <1>2, <1>3, <1>4, <1>5, <1>6, <1>7, <1>8, <1>9, <1>10, <1>11, <1>12 DEF Next, Step

-----------------------------------------------------------------------------
(* Every state of a handle fits the plan of the call that is running: the  *)
(* parts in memory and on the device relate as that plan needs it          *)
(* (core.c:130-660, 1056-1240, 1640-1760).                                 *)
THEOREM Sound == Spec => []IInv
<1>1. QED
  BY InitIsSound, NextIsSound, PTL DEF Spec

(* Everything is in its range, and between calls what is not marked dirty  *)
(* is on the device as it is in memory (core.c:418-438, 602-661).          *)
THEOREM InvHolds == Spec => []Inv
<1>1. IInv => Inv
  <2> SUFFICES ASSUME IInv  PROVE Inv
    OBVIOUS
  <2>1. TypeOK
    BY DEF IInv, Typed
  <2>2. CleanIsStored
    <3> SUFFICES ASSUME Idle({"created", "open"})
                 PROVE  /\ "super" \notin dirty => dsuper = super
                        /\ "bitmap" \notin dirty =>
                             /\ bitmap = [dbitmap EXCEPT !.len = super.len]
                             /\ lagged \/ lost \/ bitmap = dbitmap
                        /\ "journal" \notin dirty /\ journal # None =>
                             heads[super.kind, super.jp.len] = journal
      BY DEF CleanIsStored
    <3>1. todo = Nothing /\ handle \in {"created", "open"}
      BY DEF Idle, Nothing
    <3>2. ASSUME "bitmap" \notin dirty
          PROVE  /\ bitmap = [dbitmap EXCEPT !.len = super.len]
                 /\ lagged \/ lost \/ bitmap = dbitmap
      <4>1. /\ dbitmap.tree = bitmap.tree /\ dbitmap.area = bitmap.area
            /\ lost \/ lagged \/ dbitmap.len = bitmap.len
            /\ bitmap.len = super.len
        BY <3>1, <3>2 DEF IInv, Typed, BitmapStored, Fits
      <4>2. bitmap \in Bitmaps /\ dbitmap \in Bitmaps
        BY DEF IInv, Typed, TypeOK
      <4>3. QED
        BY <4>1, <4>2 DEF Bitmaps
    <3>3. CASE handle = "open"
      BY <3>1, <3>2, <3>3 DEF IInv, MarkedRight, SuperStored, HeaderStored
    <3>4. CASE handle = "created"
      BY <3>1, <3>2, <3>4 DEF IInv, MadeFits, HeaderWritten
    <3>5. QED
      BY <3>1, <3>3, <3>4
  <2>3. QED
    BY <2>1, <2>2 DEF Inv
<1>2. QED
  BY <1>1, Sound, PTL

(* A closed filesystem that says it is consistent is, through every        *)
(* sequence of calls and failures, unless something was lost               *)
(* (core.c:1366-1381, 1536-1553).                                          *)
THEOREM ConsistentFitsHolds == Spec => []ConsistentFits
<1>1. IInv => ConsistentFits
  <2> SUFFICES ASSUME IInv, handle = "closed", dsuper.state = "consistent", ~lost
               PROVE  BitmapFits /\ HeaderFits /\ TuningKept
    BY DEF ConsistentFits
  <2>1. dirty = {}
    BY DEF IInv, Typed
  <2>2. QED
    BY <2>1 DEF IInv, FinalFits, FinalSuper, FinalBitmap, FinalHeader, BitmapFor, Fits,
       BitmapFits, HeaderFits, TuningKept
<1>2. QED
  BY <1>1, Sound, PTL

(* A filesystem in which an operation stopped half way stays marked        *)
(* corrupted until it is made anew (core.c:1307-1312, 1805-1811).          *)
THEOREM HalfStaysMarkedHolds == Spec => []HalfStaysMarked
<1>1. IInv => HalfStaysMarked
  BY DEF IInv, HalfMarked, HalfStaysMarked
<1>2. QED
  BY <1>1, Sound, PTL

(* The blocks of the tree move, and a journal header is wiped out, only    *)
(* while the super block on the device says corrupted                      *)
(* (core.c:178, 265, 1169, 1656).                                          *)
THEOREM MovedWhileMarkedHolds == Spec => MovedWhileMarked
<1>1. ASSUME IInv, [Next]_vars
      PROVE  [(placement' # placement \/ Wiped) /\ handle # "creating"
                => dsuper.state = "corrupted"]_vars
  <2> SUFFICES ASSUME Next, placement' # placement \/ Wiped, handle # "creating"
               PROVE  dsuper.state = "corrupted"
    BY <1>1
  <2>1. heads' = heads => ~Wiped
    BY DEF Wiped
  <2>2. handle = "open" /\ todo \in Middles => dsuper.state = "corrupted"
    BY <1>1 DEF IInv, MarkedRight, Marked
  <2>3. ~Call
    BY <2>1 DEF Call, Create, Open, Resize, Copy, Tune, SetLabel, Close, device
  <2>4. ~StateUpdates /\ ~ResizeBitmap /\ ~SetLength /\ ~CloseJournal /\ ~UseArea /\ ~ReserveArea
        /\ ~NewParameters /\ ~MarkAll /\ ~SyncSuper /\ ~SyncBitmap /\ ~Created /\ ~Release
        /\ ~CreateFails /\ ~SyncFails /\ ~Crash
    BY <2>1 DEF StateUpdates, StateUpdate, ResizeBitmap, SetLength, CloseJournal, UseArea,
       ReserveArea, NewParameters, MarkAll, SyncSuper, SyncBitmap, Created, Release, CreateFails,
       SyncFails, Crash, device
  <2>5. CASE Relocate
    BY <1>1, <2>2, <2>5, AtMove DEF IInv, Typed, Relocate, Move, Middles
  <2>6. CASE FillIn
    BY <1>1, <2>2, <2>6, AtFillTree, AtPlant DEF IInv, Typed, FillIn, FillTree, Plant,
       Middles
  <2>7. CASE FillJournal
    BY <1>1, <2>2, <2>7, AtWipe DEF IInv, Typed, FillJournal, Wipe, Middles
  <2>8. CASE WriteHeader
    BY <1>1, <2>2, <2>8, AtHeader DEF IInv, Typed, WriteHeader, Header, Middles
  <2>9. ~SyncJournal
    <3>1. SUFFICES ASSUME SyncJournal  PROVE ~Wiped
      BY DEF SyncJournal
    <3>2. heads \in [Kinds \X JLens -> Heads]
      BY <1>1 DEF IInv, Typed, TypeOK
    <3>3. ASSUME NEW at \in DOMAIN heads, heads[at] # Zero, heads'[at] = Zero  PROVE FALSE
      <4>1. at = <<super.kind, journal.len>> /\ journal = Zero
        BY <3>1, <3>3 DEF SyncJournal
      <4>2. at \in Kinds \X JLens
        BY <3>2
      <4>3. 0 \in JLens
        BY <4>1, <4>2 DEF Zero
      <4>4. QED
        BY <4>3, JLensAssumption
    <3>4. QED
      BY <3>3 DEF Wiped
  <2>10. CASE OperationFails
    <3>1. heads' # heads
      BY <2>1, <2>10 DEF OperationFails
    <3>2. handle = "open" /\ todo \in Middles
      BY <1>1, <2>10, <3>1, AtFailure DEF IInv, Typed, OperationFails
    <3>3. QED
      BY <2>2, <3>2
  <2>11. QED
    BY <2>3, <2>4, <2>5, <2>6, <2>7, <2>8, <2>9, <2>10 DEF Next, Step
<1>2. QED
  BY <1>1, Sound, PTL DEF Spec, MovedWhileMarked
=============================================================================
