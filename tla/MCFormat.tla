------------------------------ MODULE MCFormat ------------------------------
(* An instance of Format: blocks of half, all and twice the default size   *)
(* on a device of 72 or 80 units, empty or with a filesystem of the old    *)
(* format, and a device of 8 units for journals.                           *)
EXTENDS Format

Blank(n) == Fill(n, Zero)
OldParams == [start |-> 18, len |-> 2, dev |-> 0]
OldUsed == (0..3) \cup (18..21)
OldSuper == [jr |-> FALSE, count |-> 36, bs |-> 2, free |-> 36 - Cardinality(OldUsed),
             clean |-> TRUE, root |-> 21, jp |-> OldParams, tune |-> FALSE]
With(super) == Put(Put(Put(Put(Blank(80), 4, <<<<"super", super>>, <<"map">>>>),
                   6, <<<<"bits", OldUsed>>>>),
               40, <<<<"head", OldParams>>>>),
           42, <<EmptyRoot>>)

MCBefore == {
  [host |-> Blank(80), other |-> Blank(8), made |-> NoRequest],
  [host |-> With([OldSuper EXCEPT !.tune = TRUE]), other |-> Blank(8), made |-> NoRequest],
  [host |-> With(OldSuper), other |-> Blank(8),
   made |-> Creation([blocksize |-> 2, len |-> 36, rel |-> FALSE, start |-> 18, jlen |-> 2])]}

MCStat == [device \in {"host", "other"} |-> IF device = "host" THEN 1 ELSE 2]
Ask(bs, len, rel, start, jlen) ==
  [blocksize |-> bs, len |-> len, rel |-> rel, start |-> start, jlen |-> jlen]
MCRequests == {
  Ask(1, 80, FALSE, 0, 3), Ask(2, 38, TRUE, 1, 2), Ask(4, 20, FALSE, 0, 2),
  Ask(4, 15, TRUE, 0, 1), Ask(4, 21, FALSE, 0, 2)}

(* A block of zeros, one with a number that is too large, one with another. *)
MCMisread == {[NoSuper EXCEPT !.bs = 0], [NoSuper EXCEPT !.count = 1000],
              [NoSuper EXCEPT !.count = 8, !.clean = TRUE]}
=============================================================================
