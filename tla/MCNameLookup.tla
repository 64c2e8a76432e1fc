------------------------------ MODULE MCNameLookup ------------------------------
(* Instances of NameLookup: small filesystems in every division of their   *)
(* items into two or three leaves.                                         *)
EXTENDS NameLookup, TreeLayouts

Stat(obj, mode, large) ==
  [obj |-> obj, off |-> 0, type |-> SD, mode |-> mode, large |-> large]
Directory(obj, entries) ==
  [obj |-> obj, off |-> entries[1].off, type |-> DR, entries |-> entries]
Data(obj, type) == [obj |-> obj, off |-> 1, type |-> type, text |-> <<"">>]
Link(obj, text) == <<Stat(obj, "lnk", FALSE), [obj |-> obj, off |-> 1, type |-> DT, text |-> text]>>

Entry(name, off, obj) == [name |-> name, off |-> off, obj |-> obj]
Dots(obj, parent) == <<Entry(".", 1, obj), Entry("..", 2, parent)>>

MCHashOf == [name \in {"zero", "d", "f", "l", "m", "e", "g", "fool", "k"} |->
  CASE name = "zero" -> 2 [] name = "d" -> 8 [] name = "f" -> 13 [] name = "fool" -> 14
    [] name = "l" -> 16 [] name = "m" -> 21 [] name = "e" -> 24 [] name = "g" -> 9 [] name = "k" -> 28]

(* Root: d is a directory, f a file, fool has f's hash, zero hashes to 0;  *)
(* l and m are links.                                                      *)
Root1 == <<Stat(2, "dir", FALSE), Directory(2, Dots(2, 1) \o <<Entry("zero", 4, 5), Entry("d", 8, 3)>>),
           Directory(2, <<Entry("f", 12, 4), Entry("fool", 13, 5), Entry("l", 16, 6), Entry("m", 20, 7),
                          Entry("e", 24, 9), Entry("k", 28, 8)>>)>>
Below1 == <<Stat(3, "dir", FALSE), Directory(3, Dots(3, 2) \o <<Entry("g", 8, 5)>>),
            Stat(4, "reg", FALSE), Data(4, DT), Stat(5, "reg", TRUE), Data(5, IT)>>

(* An empty file and a special one.                                        *)
Rest1 == <<Stat(8, "reg", FALSE), Stat(9, "fifo", FALSE)>>

Contents == {
  Root1 \o Below1 \o Link(6, <<"d">>) \o Link(7, <<"", "d", "..", "l", ".", "g">>) \o Rest1,
  Root1 \o Below1 \o Link(6, <<"m">>) \o Link(7, <<"d", "g">>) \o Rest1,
  Root1 \o Below1 \o Link(6, <<"l", "d">>) \o Link(7, <<"m", "", "g">>) \o Rest1,
  Root1 \o Below1 \o Link(6, <<"">>) \o Link(7, <<"", "k">>) \o Rest1}

MCWorlds ==
  UNION {{[stored |-> items, tree |-> TreeOf(items, cuts \cup Forced(items), parted)] :
            <<cuts, parted>> \in
              {{k} : k \in 1..(Len(items) - 1)} \X {0, 1}} : items \in Contents}

MCNames == {
  <<"f">>, <<"", "fool">>, <<"", "zero", "">>, <<"d", "g">>, <<"d", "", "..", "f">>, <<"k">>,
  <<"f", "g">>, <<"e">>, <<"l">>, <<"l", "">>, <<"l", "g">>, <<"l", "..", "m">>, <<"m">>, <<"", "">>, <<"", "..">>}
MCCwd == <<"", "d", "..">>
=============================================================================
