------------------------------ MODULE Dal ------------------------------
(***************************************************************************)
(* One access to a device as libdal makes it (dal.c, file.c): block        *)
(* numbers times the size of a block, on a device counted in units of the  *)
(* smallest block size.  An opened device is a record with the fields      *)
(* blocksize, flags ("r" or "rw") and others of its owner.                 *)
(***************************************************************************)
EXTENDS Integers, Sequences

(* pow_of_two; 0 passes for one.                                           *)
PowOfTwo(value) == value = 0 \/ \E k \in 0..value : value = 2^k

(* dal_set_blocksize: what the block size is afterwards.                   *)
SetBlocksize(dal, blocksize) ==
  IF PowOfTwo(blocksize) THEN [dal EXCEPT !.blocksize = blocksize] ELSE dal

(* file_equals: the names are compared, not the devices they lead to.      *)
Equals(dal, other) == dal.data = other.data

Offset(dal, nr) == nr * dal.blocksize

(* file_len: the blocks that are there in full.                            *)
DalLen(dal, content) == Len(content) \div dal.blocksize

(* What read() finds from an offset on, no more than len units: none at or *)
(* behind the end, a part at the end.                                      *)
UnitsAt(content, off, len) ==
  SubSeq(content, off + 1, IF off + len <= Len(content) THEN off + len ELSE Len(content))

(* file_read: a failure is to have read nothing; the rest of the buffer is *)
(* left as it was.                                                         *)
FileRead(dal, content, buffer, nr) ==
  LET units == UnitsAt(content, Offset(dal, nr), dal.blocksize)
  IN  [ok |-> units # <<>>,
       buffer |-> units \o SubSeq(buffer, Len(units) + 1, Len(buffer))]

(* file_write: how much is written is not compared either.  The part of    *)
(* the buffer that fits is stored.                                         *)
FileWrite(dal, content, units, nr, fits) ==
  LET off == Offset(dal, nr)
      upto == IF off + fits > Len(content) THEN off + fits ELSE Len(content)
  IN  [i \in 1..upto |->
         IF i > off /\ i <= off + fits THEN units[i - off]
         ELSE IF i <= Len(content) THEN content[i] ELSE 0]
=============================================================================
