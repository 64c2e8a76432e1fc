------------------------------ MODULE MCObjectRead ------------------------------
(* Instances of ObjectRead: files of up to three items with and without    *)
(* holes, directories of up to three, between items of other objects, in   *)
(* every division into leaves and of the leaves between two parents.       *)
EXTENDS ObjectRead, TreeLayouts

Stat(obj) == [obj |-> obj, off |-> 0, type |-> SD]
Indirect(off, ptrs) == [obj |-> 2, off |-> off, type |-> IT, ptrs |-> ptrs]
Direct(off, len) == [obj |-> 2, off |-> off, type |-> DT, len |-> len]
Names(off, entries) == [obj |-> 2, off |-> off, type |-> DR, entries |-> entries]

Files == {
  [size |-> 1, data |-> <<Direct(1, 1)>>],
  [size |-> 1, data |-> <<Direct(1, 2)>>],
  [size |-> 2, data |-> <<Indirect(1, <<TRUE>>)>>],
  [size |-> 8, data |-> <<Indirect(1, <<TRUE, TRUE, TRUE>>)>>],
  [size |-> 9, data |-> <<Indirect(1, <<TRUE, FALSE, TRUE>>)>>],
  [size |-> 8, data |-> <<Indirect(1, <<TRUE, TRUE>>), Indirect(7, <<TRUE>>)>>],
  [size |-> 11, data |-> <<Indirect(1, <<TRUE, TRUE>>), Indirect(7, <<TRUE>>), Direct(10, 2)>>]}

Directories == {
  <<Names(1, <<1, 2>>)>>,
  <<Names(1, <<1, 2, 4>>), Names(6, <<6>>)>>,
  <<Names(1, <<1, 2>>), Names(4, <<4, 5>>), Names(6, <<6>>)>>}

ObjectsOf(kind, size, data) ==
  LET items == <<Stat(2)>> \o data
      stored == <<Stat(1)>> \o items \o <<Stat(3)>>
  IN  {[kind |-> kind, size |-> size, items |-> items, stored |-> stored,
        tree |-> TreeOf(stored, cuts, parted)] :
         <<cuts, parted>> \in
           {<<c, p>> \in (SUBSET (1..(Len(stored) - 1))) \X (0..(Len(stored) - 1)) :
              Forced(stored) \subseteq c /\ (p = 0 \/ p <= Cardinality(c))}}

MCObjects ==
  UNION ({ObjectsOf("file", f.size, f.data) : f \in Files}
         \cup {ObjectsOf("directory", 0, d) : d \in Directories})
=============================================================================
