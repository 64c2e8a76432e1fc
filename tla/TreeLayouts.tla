------------------------------ MODULE TreeLayouts ------------------------------
(* The trees a sequence of items can be stored in: for the instances of    *)
(* the modules that look items up.                                         *)
EXTENDS TreeLookup, SequencesExt

(* The leaves of a sequence of items cut after the positions in cuts.      *)
Pieces(items, cuts) ==
  LET ends == SetToSortSeq(cuts \cup {Len(items)}, <)
  IN  [k \in DOMAIN ends |->
         SubSeq(items, IF k = 1 THEN 1 ELSE ends[k - 1] + 1, ends[k])]

Above(nodes, firsts) ==
  [keys |-> [k \in 1..(Len(nodes) - 1) |-> firsts[k + 1]], children |-> nodes]

(* One leaf, leaves under the root, or leaves under two nodes of which the *)
(* first has parted of them.                                               *)
TreeOf(items, cuts, parted) ==
  LET leaves == [k \in DOMAIN Pieces(items, cuts) |-> [items |-> Pieces(items, cuts)[k]]]
      firsts == [k \in DOMAIN leaves |->
                   Key(leaves[k].items[1].obj, leaves[k].items[1].off, leaves[k].items[1].type)]
      Part(a, b) == Above(SubSeq(leaves, a, b), SubSeq(firsts, a, b))
  IN  IF Len(leaves) = 1 THEN [height |-> 1, root |-> leaves[1]]
      ELSE IF parted = 0 THEN [height |-> 2, root |-> Part(1, Len(leaves))]
      ELSE [height |-> 3,
            root |-> Above(<<Part(1, parted), Part(parted + 1, Len(leaves))>>,
                           <<firsts[1], firsts[parted + 1]>>)]

(* Items of the same object and type are in different leaves.              *)
Forced(items) ==
  {k \in 1..(Len(items) - 1) :
     items[k].obj = items[k + 1].obj /\ items[k].type = items[k + 1].type}
=============================================================================
