----------------------------- MODULE MCJournalLog -----------------------------
(* An instance of JournalLog: the super block and one other block.  For a  *)
(* power of two, the mask is the remainder.                                *)
EXTENDS JournalLog

ASSUME MaskAssumption ==
  \A n \in 0..63, k \in 0..5 : And[n, 2^k - 1] = n % 2^k

MCWrites == {<<"super">>, <<"other">>, <<"other", "super">>}
=============================================================================
