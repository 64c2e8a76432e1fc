----------------------------- MODULE MCSegmentMove -----------------------------
(* Instances of SegmentMove: every block holds its own address.            *)
EXTENDS SegmentMove

MCContents == Devices \X (0..(DevLen - 1))
MCOriginal == [at \in MCContents |-> at]
=============================================================================
