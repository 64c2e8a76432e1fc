--------------------------- MODULE MCTreeRelocation ---------------------------
(* Instances of TreeRelocation: a root over two leaves; the first leaf's   *)
(* file has a hole between two blocks, the second one has no block of its  *)
(* own.  The devices are so small that every layout is tried.              *)
EXTENDS TreeRelocation

MCTree ==
  [root |-> [kind |-> "internal", ptrs |-> <<"leafA", "leafB">>],
   leafA |-> [kind |-> "leaf", ptrs |-> <<"a1", "hole", "a2">>],
   leafB |-> [kind |-> "leaf", ptrs |-> <<>>],
   a1 |-> [kind |-> "data", ptrs |-> <<>>],
   a2 |-> [kind |-> "data", ptrs |-> <<>>]]

MCHostSize == [shrink |-> 9, tune |-> 10, copy |-> 8]
MCMeta == [host |-> 2, target |-> 3]
MCLengths == [shrink |-> {6, 7, 8}, tune |-> {1, 3}, copy |-> {5, 7, 8, 9}]
=============================================================================
