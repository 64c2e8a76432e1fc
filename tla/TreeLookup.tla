------------------------------ MODULE TreeLookup ------------------------------
(***************************************************************************)
(* How libreiserfs finds an item: keys and their comparisons (key.c), the  *)
(* binary search in a node (tools.c) and the way from the root to a leaf   *)
(* (tree.c, path.c).                                                       *)
(*                                                                         *)
(* A tree is a record [height, root]; a leaf is [items], a sequence of     *)
(* records with the fields obj, off, type of their key; an internal node   *)
(* is [keys, children], keys[i] being the smallest key below               *)
(* children[i + 1].  A path is the sequence of positions in the nodes from *)
(* the root down, counted from 0 as in the code.                           *)
(***************************************************************************)
EXTENDS Integers, Sequences

CONSTANT Wrap   \* 2^32: where an offset of a key without a type ends

ASSUME WrapAssumption == Wrap \in Nat \ {0}

(* The types of items, with the numbers they have in a key.                *)
SD == 0
IT == 1
DT == 2
DR == 3

Key(obj, off, type) == [obj |-> obj, off |-> off, type |-> type]

(* reiserfs_key_offset: a key of type 0 is taken for one of the old format *)
(* and only the low half of its offset is read.                            *)
KeyOffset(key) == IF key.type = SD THEN key.off % Wrap ELSE key.off

-----------------------------------------------------------------------------
(* The comparisons: -1, 0 or 1.                                            *)
Compared(a, b) == IF a < b THEN -1 ELSE IF a > b THEN 1 ELSE 0

TwoComponents(a, b) == Compared(a.obj, b.obj)

ThreeComponents(a, b) ==
  IF TwoComponents(a, b) # 0 THEN TwoComponents(a, b)
  ELSE Compared(KeyOffset(a), KeyOffset(b))

FourComponents(a, b) ==
  IF ThreeComponents(a, b) # 0 THEN ThreeComponents(a, b)
  ELSE Compared(a.type, b.type)

(* The comparison a caller chooses, by the number of components.           *)
Compare(a, b, n) ==
  CASE n = 2 -> TwoComponents(a, b)
    [] n = 3 -> ThreeComponents(a, b)
    [] OTHER -> FourComponents(a, b)

-----------------------------------------------------------------------------
(* reiserfs_tools_fast_search: whether the needle is in the sequence, and  *)
(* its position or the one where it would have to be inserted.             *)
(* Slip: the left half is cut one too short.                               *)
FastSearchShort(needle, array, n) ==
  LET Search[span \in (0..Len(array)) \X (-2..(Len(array) - 1))] ==
        LET left == span[1]
            right == span[2]
            i == (left + right) \div 2
        IN  IF left > right THEN [found |-> FALSE, pos |-> left]
            ELSE CASE Compare(array[i + 1], needle, n) = -1 -> Search[<<i + 1, right>>]
                   [] Compare(array[i + 1], needle, n) = 1 -> Search[<<left, i - 2>>]
                   [] OTHER -> [found |-> TRUE, pos |-> i]
  IN  Search[<<0, Len(array) - 1>>]

FastSearch(needle, array, n) ==
  LET Search[span \in (0..Len(array)) \X (-1..(Len(array) - 1))] ==
        LET left == span[1]
            right == span[2]
            i == (left + right) \div 2
        IN  IF left > right THEN [found |-> FALSE, pos |-> left]
            ELSE CASE Compare(array[i + 1], needle, n) = -1 -> Search[<<i + 1, right>>]
                   [] Compare(array[i + 1], needle, n) = 1 -> Search[<<left, i - 1>>]
                   [] OTHER -> [found |-> TRUE, pos |-> i]
  IN  Search[<<0, Len(array) - 1>>]

-----------------------------------------------------------------------------
(* The node a path of positions leads to.                                  *)
NodeAt(tree, path, depth) ==
  LET Node[d \in 1..depth] ==
        IF d = 1 THEN tree.root ELSE Node[d - 1].children[path[d - 1] + 1]
  IN  Node[depth]

-----------------------------------------------------------------------------
(* What the lookup takes for granted of the trees the kernel keeps: the    *)
(* items are in order, no two of an object begin at the same offset, and   *)
(* the keys on the way to a leaf bound the items in it.                    *)
IsKey(key) == key.obj \in Nat /\ key.off \in Nat /\ key.type \in {SD, IT, DT, DR}
Sorted(keys) == \A i, j \in DOMAIN keys : i < j => ThreeComponents(keys[i], keys[j]) = -1
Ordered(keys) == (\A i \in DOMAIN keys : IsKey(keys[i])) /\ Sorted(keys)

(* The ways of so many positions from the root down, where a node has at   *)
(* most so many children.                                                  *)
Ways(tree, depth, most) ==
  {up \in [1..depth -> 0..(most - 1)] :
     \A d \in 1..depth : up[d] < Len(NodeAt(tree, up, d).children)}

NodeSound(node, most) ==
  /\ node.keys \in Seq({node.keys[i] : i \in DOMAIN node.keys}) /\ Ordered(node.keys)
  /\ Len(node.children) = Len(node.keys) + 1 /\ Len(node.children) <= most

Below(key, items) == \A i \in DOMAIN items : ThreeComponents(items[i], key) = -1
From(key, items) == \A i \in DOMAIN items : FourComponents(key, items[i]) \in {-1, 0}

(* A key is that of the first item below the child right of it.            *)
LeafBounded(tree, up, items) ==
  \A d \in 1..(tree.height - 1) :
    LET keys == NodeAt(tree, up, d).keys
    IN  /\ up[d] < Len(keys) => Below(keys[up[d] + 1], items)
        /\ up[d] > 0 => From(keys[up[d]], items)
        /\ up[d] > 0 /\ (\A e \in (d + 1)..(tree.height - 1) : up[e] = 0) =>
             FourComponents(keys[up[d]], items[1]) = 0

LeafItems(tree, up) == NodeAt(tree, up, tree.height).items

SearchTree(tree, stored) ==
  LET leaves == Ways(tree, tree.height - 1, Len(stored))
      contents == {stored[k] : k \in DOMAIN stored}
  IN  /\ tree.height \in Nat \ {0}
      /\ \A depth \in 0..(tree.height - 2) : \A up \in Ways(tree, depth, Len(stored)) :
           NodeSound(NodeAt(tree, up, depth + 1), Len(stored))
      /\ \A up \in leaves :
           /\ LeafItems(tree, up) \in Seq(contents) \ {<<>>} /\ Ordered(LeafItems(tree, up))
           /\ LeafBounded(tree, up, LeafItems(tree, up))
      /\ \A item \in contents : \E up \in leaves :
           \E i \in DOMAIN LeafItems(tree, up) : LeafItems(tree, up)[i] = item

-----------------------------------------------------------------------------
(* The position in the next node of a path: in an internal node the child  *)
(* right of an equal key.                                                  *)
Position(tree, up, key, n) ==
  LET depth == Len(up) + 1
      node == NodeAt(tree, up, depth)
      at == FastSearch(key, IF depth = tree.height THEN node.items ELSE node.keys, n)
  IN  IF at.found /\ depth < tree.height THEN at.pos + 1 ELSE at.pos

(* The path object: a lookup clears it and puts one node after the other at *)
(* its end, at most as many as the tree is high.                           *)
PathClear == <<>>
PathInc(path, pos) == Append(path, pos)

(* reiserfs_tree_node_lookup for a leaf: the first depth positions of the  *)
(* path; a read that fails leaves a path that ends above the leaf.        *)
(* Down[d] holds just the path of length d.                                *)
PathTo(tree, key, depth, n) ==
  LET Down[d \in 0..depth] ==
        IF d = 0 THEN {PathClear}
        ELSE {PathInc(up, Position(tree, up, key, n)) : up \in Down[d - 1]}
  IN  CHOOSE path \in Down[depth] : TRUE

Leaf(tree, path) == NodeAt(tree, path, tree.height)
ItemAt(tree, path) == Leaf(tree, path).items[path[tree.height] + 1]

Found(tree, path, key, n) ==
  /\ path[tree.height] < Len(Leaf(tree, path).items)
  /\ Compare(ItemAt(tree, path), key, n) = 0

(* The path with its last position moved back by one: pos-- of a caller    *)
(* whose key was not found.                                                *)
StepBack(path) == [path EXCEPT ![Len(path)] = @ - 1]
=============================================================================
