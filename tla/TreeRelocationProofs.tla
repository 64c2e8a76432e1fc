------------------------- MODULE TreeRelocationProofs -------------------------
(***************************************************************************)
(* Proofs about TreeRelocation for trees of every shape and height, every  *)
(* way they can lie on a device, and devices of every size.                *)
(***************************************************************************)
EXTENDS TreeRelocation, TLAPS, FiniteSetTheorems, FunctionTheorems, SequenceTheorems,
        WellFoundedInduction

(***************************************************************************)
(* The inductive invariant.  It speaks of the layout `at' the tree had at  *)
(* first and of the set `moved' of the names whose blocks the traversal is *)
(* through with; neither is a variable of the specification.               *)
(***************************************************************************)
height == CHOOSE h \in Heights : TRUE
Kinds == {"internal", "leaf", "data", "none"}
Places == 0..(Size[Src] + Size[Dst])
Contents == [kind : Kinds, id : Names \cup {Hole}, ptrs : Seq(Places)]
Frames == [nr : Blocks(Src), node : Contents, i : Nat \ {0}, dirty : BOOLEAN]

(* The traversal is on its way; the journal has begun to overwrite.        *)
Moving == pc \in {"enter", "pieces", "children", "write", "return", "placed"}
Overwritten == caller = "tune" /\ pc \in {"done", "lost"}

Typed ==
  /\ TypeOK
  /\ caller \in Callers
  /\ \A d \in {Src, Dst} : disk[d] \in [Blocks(d) -> Contents]
  /\ stack \in Seq(Frames)
  /\ pc = "idle" => placed = {} /\ stack = <<>>

(* What the callers ask for, and what they have checked.                   *)
Asked ==
  /\ SameDevice /\ pc # "done" => size = Size[Src]
  /\ pc # "idle" /\ caller = "shrink" =>
       /\ area = [first |-> Meta[Src], last |-> len]
       /\ len \in Nat /\ Meta[Src] < len /\ len < Size[Src]
       /\ IF pc = "done" THEN size = len ELSE size - len <= free
  /\ pc # "idle" /\ caller = "tune" =>
       /\ area = [first |-> Meta[Src] + len + 1, last |-> size]
       /\ len \in Nat /\ size = Size[Src]
       /\ pc # "done" => len + 1 <= free
  /\ pc # "idle" /\ caller = "copy" =>
       /\ area.first = Meta[Dst] /\ size > Meta[Dst]
  /\ pc \in {"enter", "pieces", "children", "write", "return", "placed", "failed", "full", "lost"} =>
       state = "corrupted"

(* The bits that are set are as many as the counts say.                    *)
Counted ==
  /\ SameDevice => Cardinality(used) = size - free
  /\ ~SameDevice /\ state = "consistent" => free = size - Cardinality(used)

(* No block of the old tree is written over.                               *)
Kept(at) ==
  /\ at \in Layouts(Src) /\ old = at[Top]
  /\ ~Overwritten => \A n \in Names : disk[Src][at[n]] = Stored(at, n)

(* Of the old tree's blocks those are still taken that stay or whose turn  *)
(* has not come.                                                           *)
Taken(at, moved) ==
  SameDevice /\ (pc = "idle" \/ Moving) =>
    \A b \in Blocks(Dst) : b \in used <=>
      \/ b < Meta[Src] \/ b \in placed
      \/ \E n \in Names : b = at[n] /\ (n \in moved => Inside(b))

(* Block b is one for what lies below the name: none for a hole, the old   *)
(* one if it is on this device, or one that was placed.                    *)
Fit(b, name, at, same, written, blocks) ==
  \/ name = Hole /\ b = 0
  \/ name \in Names /\ same /\ b = at[name]
  \/ name \in Names /\ b \in written /\ blocks[b].id = name
Good(at, b, name) == Fit(b, name, at, SameDevice, placed, disk[Dst])

PlacedRight(at) ==
  /\ placed \subseteq used
  /\ RoomSuffices
  /\ \A b \in placed : b > 1
  /\ ~Overwritten => \A b \in placed :
       /\ disk[Dst][b].id \in Names
       /\ disk[Dst][b].kind = Tree[disk[Dst][b].id].kind
       /\ DOMAIN disk[Dst][b].ptrs = DOMAIN Tree[disk[Dst][b].id].ptrs
       /\ \A j \in DOMAIN disk[Dst][b].ptrs :
            Good(at, disk[Dst][b].ptrs[j], Child(disk[Dst][b].id, j))
       /\ disk[Dst][b].kind = "leaf" => SameDevice \/ disk[Dst][b].id \in ids

(* The names the traversal is through with: all that is below one of them, *)
(* and whose parent is another or is being visited.                        *)
Closed(moved) ==
  /\ moved \subseteq Names
  /\ \A n \in moved : \A j \in DOMAIN Tree[n].ptrs : Child(n, j) \in moved \cup {Hole}
  /\ \A n \in Names \ moved : \A j \in DOMAIN Tree[n].ptrs :
       Child(n, j) \in moved => \E k \in DOMAIN stack : stack[k].node.id = n

(* A frame holds the node as it was behind the pointer it has come to, and *)
(* new places before.                                                      *)
FrameRight(f, at, moved, same, written, blocks, known) ==
  LET n == f.node.id IN
    /\ n \in Names \ moved /\ f.nr = at[n]
    /\ f.node.kind = Tree[n].kind /\ f.node.kind \in {"internal", "leaf"}
    /\ DOMAIN f.node.ptrs = DOMAIN Tree[n].ptrs
    /\ f.i <= Len(f.node.ptrs) + 1
    /\ \A j \in DOMAIN f.node.ptrs :
         /\ j >= f.i => f.node.ptrs[j] = Stored(at, n).ptrs[j]
         /\ j > f.i => Child(n, j) \notin moved
         /\ j < f.i => /\ Child(n, j) \in moved \cup {Hole}
                       /\ Fit(f.node.ptrs[j], Child(n, j), at, same, written, blocks)
    /\ f.node.kind = "leaf" => same \/ n \in known

Framed(at, moved) ==
  Moving => \A k \in DOMAIN stack :
    FrameRight(stack[k], at, moved, SameDevice, placed, disk[Dst], ids)

(* The frames are a way down the tree from its root.                       *)
Chained ==
  Moving => 
    /\ stack # <<>> => stack[1].node.id = Top
    /\ \A k \in DOMAIN stack : k + 1 \in DOMAIN stack =>
         /\ stack[k].node.kind = "internal" /\ stack[k].i \in DOMAIN stack[k].node.ptrs
         /\ stack[k + 1].node.id = Child(stack[k].node.id, stack[k].i)
    /\ \A k, m \in DOMAIN stack :
         k < m => height[stack[m].node.id] < height[stack[k].node.id]

(* What the step that comes next finds.                                    *)
Ahead(at, moved) ==
  /\ pc = "idle" => moved = {}
  /\ pc = "enter" =>
       \E n \in Names \ moved :
         /\ arg = at[n] /\ Tree[n].kind # "data"
         /\ IF stack = <<>> THEN n = Top
            ELSE /\ Current.node.kind = "internal" /\ Current.i \in DOMAIN Current.node.ptrs
                 /\ n = Child(Current.node.id, Current.i)
  /\ pc \in {"pieces", "children", "write", "return"} => stack # <<>>
  /\ pc \in {"pieces", "children"} /\ ~AtEnd =>
       Child(Current.node.id, Current.i) \notin moved
  /\ pc = "pieces" => Current.node.kind = "leaf"
  /\ pc = "children" => Current.node.kind = "internal"
  /\ pc = "write" => AtEnd
  /\ pc = "return" =>
       /\ Current.node.kind = "internal" /\ Current.i \in DOMAIN Current.node.ptrs
       /\ Child(Current.node.id, Current.i) \in moved
       /\ Good(at, arg, Child(Current.node.id, Current.i))
  /\ pc = "placed" => stack = <<>> /\ Top \in moved /\ Good(at, arg, Top)
  /\ caller = "copy" /\ state = "consistent" => Good(at, root, Top) /\ ~Moving

Core(at, moved) ==
  /\ Typed /\ Asked /\ Counted /\ Kept(at) /\ Taken(at, moved) /\ PlacedRight(at)
  /\ (pc = "idle" \/ Moving) => Closed(moved)
  /\ Framed(at, moved) /\ Chained /\ Ahead(at, moved)

IInv == \E at \in Layouts(Src) : \E moved \in SUBSET Names : Core(at, moved)

-----------------------------------------------------------------------------
(* A set of natural numbers that is not empty has a least element.         *)
LEMMA Least ==
  ASSUME NEW T, T \subseteq Nat, T # {}
  PROVE  \E m \in T : \A n \in T : m <= n
<1> DEFINE U == {0..n : n \in T}
<1>1. U \subseteq FiniteSubsetsOf(Nat) /\ U # {}
  <2>1. \A n \in T : IsFiniteSet(0..n)
    BY FS_Interval
  <2>2. \A n \in T : 0..n \in SUBSET Nat
    OBVIOUS
  <2>3. QED
    BY <2>1, <2>2 DEF FiniteSubsetsOf
<1>2. PICK u \in U : \A v \in U : <<v, u>> \notin StrictSubsetOrdering(Nat)
  BY <1>1, FS_StrictSubsetOrderingWellFounded, WFMin
<1>3. PICK m \in T : u = 0..m
  OBVIOUS
<1>4. ASSUME NEW n \in T, n < m  PROVE FALSE
  <2>1. 0..n \subseteq 0..m /\ m \in 0..m /\ m \notin 0..n
    BY <1>4
  <2>2. <<0..n, 0..m>> \in StrictSubsetOrdering(Nat)
    BY <2>1 DEF StrictSubsetOrdering
  <2>3. QED
    BY <1>2, <1>3, <2>2
<1>5. QED
  BY <1>4

(* Heights are numbers, and what is below a node is lower.                 *)
LEMMA HeightsFall ==
  /\ height \in [Names -> 0..(Cardinality(Names) - 1)] /\ Cardinality(Names) \in Nat
  /\ \A n \in Names : \A j \in DOMAIN Tree[n].ptrs :
       Child(n, j) # Hole => height[Child(n, j)] < height[n]
<1>1. height \in Heights
  BY TreeAssumption DEF height
<1>2. QED
  BY <1>1, TreeAssumption, FS_CardinalityType DEF Heights

(* What lies below a node is a name or a hole.                             *)
LEMMA ChildIsName ==
  ASSUME NEW n \in Names, NEW j \in DOMAIN Tree[n].ptrs
  PROVE  Child(n, j) \in Names \cup {Hole}
BY TreeAssumption DEF Child

(* What is meant by the tree below a name: the recursive function exists,  *)
(* by the least height for which it would not.                             *)
Means(g, n) ==
  [id |-> n, sub |-> IF n = Hole THEN <<>>
                     ELSE [k \in DOMAIN Tree[n].ptrs |-> g[Tree[n].ptrs[k]]]]

LEMMA IntendedIs ==
  \A n \in Names \cup {Hole} : Intended[n] = Means(Intended, n)
<1> DEFINE S(k) == {Hole} \cup {n \in Names : height[n] < k}
           Part(k) == \E g : g = [n \in S(k) |-> Means(g, n)]
<1>1. Intended = CHOOSE g : g = [n \in Names \cup {Hole} |-> Means(g, n)]
  BY DEF Intended, Means
<1>2. \A k \in Nat : Part(k)
  <2> DEFINE Bad == {k \in Nat : ~Part(k)}
  <2>1. SUFFICES ASSUME Bad # {}  PROVE FALSE
    OBVIOUS
  <2>2. PICK k \in Bad : \A m \in Bad : k <= m
    <3>1. Bad \subseteq Nat
      OBVIOUS
    <3>2. QED
      BY <2>1, <3>1, Least
  <2>3. CASE k = 0
    <3> DEFINE g == [n \in S(0) |-> Means(<<>>, n)]
    <3>1. S(0) = {Hole}
      BY HeightsFall
    <3>2. Means(g, Hole) = Means(<<>>, Hole)
      BY DEF Means
    <3>3. g = [n \in S(0) |-> Means(g, n)]
      BY <3>1, <3>2
    <3>4. QED
      BY <2>2, <2>3, <3>3
  <2>4. CASE k > 0
    <3>1. k - 1 \in Nat /\ Part(k - 1)
      <4>1. k - 1 \in Nat /\ ~(k <= k - 1)
        BY <2>4
      <4> HIDE DEF Part
      <4>2. QED
        BY <4>1, <2>2
    <3>2. PICK f : f = [n \in S(k - 1) |-> Means(f, n)]
      BY <3>1
    <3> DEFINE g == [n \in S(k) |-> Means(f, n)]
    <3>3. \A n \in S(k - 1) : g[n] = f[n] /\ n \in S(k)
      <4>1. \A n \in S(k - 1) : n \in S(k)
        BY HeightsFall
      <4>2. QED
        BY <3>2, <4>1
    <3>4. \A n \in Names : n \in S(k) =>
            \A j \in DOMAIN Tree[n].ptrs : Tree[n].ptrs[j] \in S(k - 1)
      <4>1. SUFFICES ASSUME NEW n \in Names, height[n] < k, NEW j \in DOMAIN Tree[n].ptrs
                     PROVE  Child(n, j) \in S(k - 1)
        BY TreeAssumption DEF Child
      <4>2. CASE Child(n, j) = Hole
        BY <4>2
      <4>3. CASE Child(n, j) # Hole
        <5>1. Child(n, j) \in Names
          BY <4>3, ChildIsName
        <5>2. height[Child(n, j)] < height[n]
          BY <4>3, HeightsFall
        <5>3. height[n] \in Int /\ height[Child(n, j)] \in Int
          BY <5>1, HeightsFall
        <5>4. QED
          BY <4>1, <5>1, <5>2, <5>3, <3>1
      <4>4. QED
        BY <4>2, <4>3
    <3> HIDE DEF g, S
    <3>5. \A n \in S(k) : Means(g, n) = Means(f, n)
      <4>1. S(k) \subseteq Names \cup {Hole}
        BY DEF S
      <4>2. SUFFICES ASSUME NEW n \in S(k), n # Hole  PROVE Means(g, n) = Means(f, n)
        BY DEF Means
      <4>3. \A j \in DOMAIN Tree[n].ptrs : g[Tree[n].ptrs[j]] = f[Tree[n].ptrs[j]]
        BY <3>3, <3>4, <4>1, <4>2
      <4>4. QED
        BY <4>3 DEF Means
    <3>6. g = [n \in S(k) |-> Means(g, n)]
      BY <3>5 DEF g
    <3>7. QED
      BY <2>2, <3>6
  <2>5. QED
    BY <2>2, <2>3, <2>4
<1>3. S(Cardinality(Names)) = Names \cup {Hole}
  BY HeightsFall
<1>4. Part(Cardinality(Names))
  BY <1>2, HeightsFall
<1>5. \E g : g = [n \in Names \cup {Hole} |-> Means(g, n)]
  BY <1>3, <1>4
<1>6. Intended = [n \in Names \cup {Hole} |-> Means(Intended, n)]
  BY <1>1, <1>5
<1>7. QED
  BY <1>6

(* What a reader finds, level by level.                                    *)
Levels == 0..Cardinality(Names)
Finds(f, d, end, n) ==
  [p \in Places |->
     IF p = 0 \/ p >= end \/ n = 0 THEN [id |-> Hole, sub |-> <<>>]
     ELSE [id |-> disk[d][p].id,
           sub |-> [k \in DOMAIN disk[d][p].ptrs |-> f[n - 1][disk[d][p].ptrs[k]]]]]
Reader(d, end) == CHOOSE f : f = [n \in Levels |-> Finds(f, d, end, n)]

LEMMA TreeAtReads ==
  ASSUME NEW d, NEW b, NEW end
  PROVE  TreeAt(d, b, end) = Reader(d, end)[Cardinality(Names)][b]
BY DEF TreeAt, Reader, Finds, Levels, Places

(* The reader's function exists whatever the device holds, by the least    *)
(* level for which it would not.                                           *)
LEMMA ReaderIs ==
  ASSUME NEW d, NEW end
  PROVE  \A n \in Levels : Reader(d, end)[n] = Finds(Reader(d, end), d, end, n)
<1> DEFINE Part(k) == \E f : f = [n \in 0..k |-> Finds(f, d, end, n)]
<1>1. Cardinality(Names) \in Nat
  BY HeightsFall
<1>2. \A f, g : Finds(f, d, end, 0) = Finds(g, d, end, 0)
  BY DEF Finds
<1>3. \A f, g : \A n \in Nat \ {0} :
        f[n - 1] = g[n - 1] => Finds(f, d, end, n) = Finds(g, d, end, n)
  BY DEF Finds
<1>4. \A k \in Nat : Part(k)
  <2> DEFINE Bad == {k \in Nat : ~Part(k)}
  <2>1. SUFFICES ASSUME Bad # {}  PROVE FALSE
    OBVIOUS
  <2>2. PICK k \in Bad : \A m \in Bad : k <= m
    <3>1. Bad \subseteq Nat
      OBVIOUS
    <3>2. QED
      BY <2>1, <3>1, Least
  <2>3. CASE k = 0
    <3> DEFINE f == [n \in 0..0 |-> Finds(<<>>, d, end, 0)]
    <3>1. Finds(f, d, end, 0) = Finds(<<>>, d, end, 0)
      BY <1>2
    <3> HIDE DEF f
    <3>2. f = [n \in 0..0 |-> Finds(f, d, end, n)]
      BY <3>1 DEF f
    <3>3. QED
      BY <2>2, <2>3, <3>2
  <2>4. CASE k > 0
    <3>1. k - 1 \in Nat /\ Part(k - 1)
      <4>1. k - 1 \in Nat /\ ~(k <= k - 1)
        BY <2>4
      <4> HIDE DEF Part
      <4>2. QED
        BY <4>1, <2>2
    <3>2. PICK f : f = [n \in 0..(k - 1) |-> Finds(f, d, end, n)]
      BY <3>1
    <3> DEFINE g == [n \in 0..k |-> Finds(f, d, end, n)]
    <3>3. \A n \in 0..(k - 1) : g[n] = f[n]
      BY <3>1, <3>2
    <3> HIDE DEF g
    <3>4. \A n \in 0..k : Finds(g, d, end, n) = Finds(f, d, end, n)
      <4>1. SUFFICES ASSUME NEW n \in 0..k, n # 0
                     PROVE  Finds(g, d, end, n) = Finds(f, d, end, n)
        BY <1>2
      <4>2. n \in Nat \ {0} /\ n - 1 \in 0..(k - 1)
        BY <4>1, <3>1
      <4>3. g[n - 1] = f[n - 1]
        BY <3>3, <4>2
      <4>4. QED
        BY <1>3, <4>2, <4>3
    <3>5. g = [n \in 0..k |-> Finds(g, d, end, n)]
      BY <3>4 DEF g
    <3>6. QED
      BY <2>2, <3>5
  <2>5. QED
    BY <2>2, <2>3, <2>4
<1> HIDE DEF Part
<1>5. Part(Cardinality(Names))
  BY <1>1, <1>4
<1>6. \E f : f = [n \in Levels |-> Finds(f, d, end, n)]
  BY <1>5 DEF Part, Levels
<1>7. Reader(d, end) = [n \in Levels |-> Finds(Reader(d, end), d, end, n)]
  BY <1>6 DEF Reader
<1>8. QED
  BY <1>7

(* A set of blocks with their names, each of which holds its node and      *)
(* leads to others of the set, reads as what is meant below the names.     *)
LEMMA ReadsWhole ==
  ASSUME NEW d, NEW end \in Nat, NEW W,
         \A b, n : <<b, n>> \in W =>
           /\ n \in Names /\ b \in Places /\ b # 0 /\ b < end
           /\ disk[d][b].id = n
           /\ DOMAIN disk[d][b].ptrs = DOMAIN Tree[n].ptrs
           /\ \A j \in DOMAIN Tree[n].ptrs :
                \/ Child(n, j) = Hole /\ disk[d][b].ptrs[j] = 0
                \/ <<disk[d][b].ptrs[j], Child(n, j)>> \in W,
         Size[Src] \in Nat, Size[Dst] \in Nat
  PROVE  \A b, n : <<b, n>> \in W => TreeAt(d, b, end) = Intended[n]
<1> DEFINE F == Reader(d, end)
           Right(b, n) == \A m \in Levels : height[n] < m => F[m][b] = Intended[n]
           Bad == {h \in Nat : \E b, n : <<b, n>> \in W /\ height[n] = h /\ ~Right(b, n)}
<1>1. \A m \in Levels : F[m] = Finds(F, d, end, m)
  BY ReaderIs
<1> HIDE DEF F
<1>2. \A m \in Levels \ {0} : F[m - 1][0] = Intended[Hole]
  <2>1. Intended[Hole] = [id |-> Hole, sub |-> <<>>]
    BY IntendedIs DEF Means
  <2>2. \A m \in Levels \ {0} : m - 1 \in Levels
    BY HeightsFall DEF Levels
  <2>3. 0 \in Places
    BY DEF Places
  <2>4. \A k : Finds(F, d, end, k)[0] = [id |-> Hole, sub |-> <<>>]
    BY <2>3 DEF Finds
  <2>5. QED
    BY <1>1, <2>1, <2>2, <2>4
<1>2a. \A b, n : <<b, n>> \in W /\ height[n] \notin Bad => Right(b, n)
  BY HeightsFall
<1> HIDE DEF Right
<1>3. SUFFICES Bad = {}
  <2>1. SUFFICES ASSUME NEW b, NEW n, <<b, n>> \in W  PROVE TreeAt(d, b, end) = Intended[n]
    OBVIOUS
  <2>2. n \in Names /\ height[n] \in Nat /\ height[n] < Cardinality(Names)
        /\ Cardinality(Names) \in Levels
    BY <2>1, HeightsFall DEF Levels
  <2>3. Right(b, n)
    BY <1>3, <2>1, <1>2a
  <2>4. F[Cardinality(Names)][b] = Intended[n]
    BY <2>2, <2>3 DEF Right
  <2>5. QED
    BY <2>4, TreeAtReads DEF F
<1>4. SUFFICES ASSUME Bad # {}  PROVE FALSE
  OBVIOUS
<1>5. PICK h \in Bad : \A k \in Bad : h <= k
  <2>1. Bad \subseteq Nat
    OBVIOUS
  <2>2. QED
    BY <1>4, <2>1, Least
<1>6. PICK b, n : <<b, n>> \in W /\ height[n] = h /\ ~Right(b, n)
  BY <1>5
<1>7. PICK m \in Levels : height[n] < m /\ F[m][b] # Intended[n]
  BY <1>6 DEF Right
<1>8. /\ n \in Names /\ b \in Places /\ b \in Nat /\ b # 0 /\ b < end
      /\ height[n] \in Nat /\ m \in Nat
  BY <1>6, HeightsFall DEF Levels, Places
<1>9. \A j \in DOMAIN Tree[n].ptrs : F[m - 1][disk[d][b].ptrs[j]] = Intended[Child(n, j)]
  <2>1. SUFFICES ASSUME NEW j \in DOMAIN Tree[n].ptrs
                 PROVE  F[m - 1][disk[d][b].ptrs[j]] = Intended[Child(n, j)]
    OBVIOUS
  <2>2. m \in Levels \ {0} /\ m - 1 \in Levels
    BY <1>7, <1>8, HeightsFall DEF Levels
  <2>3. CASE Child(n, j) = Hole /\ disk[d][b].ptrs[j] = 0
    BY <1>2, <2>2, <2>3
  <2>4. CASE <<disk[d][b].ptrs[j], Child(n, j)>> \in W
    <3>1. Child(n, j) \in Names /\ Child(n, j) # Hole
      BY <2>4, TreeAssumption
    <3>2. height[Child(n, j)] < height[n] /\ height[Child(n, j)] \in Nat
      BY <1>8, <3>1, HeightsFall
    <3>3. height[Child(n, j)] \notin Bad
      <4>1. ~(h <= height[Child(n, j)])
        BY <1>6, <1>8, <3>2
      <4>2. QED
        BY <1>5, <4>1
    <3>4. Right(disk[d][b].ptrs[j], Child(n, j))
      BY <1>2a, <2>4, <3>3
    <3>5. height[Child(n, j)] < m - 1
      BY <1>7, <1>8, <3>2
    <3>6. QED
      BY <2>2, <3>4, <3>5 DEF Right
  <2>5. QED
    BY <1>6, <2>3, <2>4
<1>10. F[m][b] = [id |-> n, sub |-> [k \in DOMAIN disk[d][b].ptrs |-> F[m - 1][disk[d][b].ptrs[k]]]]
  <2>1. m # 0 /\ ~(b >= end)
    BY <1>7, <1>8
  <2>2. disk[d][b].id = n
    BY <1>6
  <2>3. Finds(F, d, end, m)[b]
          = [id |-> n, sub |-> [k \in DOMAIN disk[d][b].ptrs |-> F[m - 1][disk[d][b].ptrs[k]]]]
    BY <1>8, <2>1, <2>2 DEF Finds
  <2>4. QED
    BY <1>1, <1>7, <2>3
<1>11. Intended[n] = [id |-> n, sub |-> [k \in DOMAIN Tree[n].ptrs |-> Intended[Child(n, k)]]]
  BY <1>8, IntendedIs, TreeAssumption, SMTT(40) DEF Means, Child
<1>12. DOMAIN disk[d][b].ptrs = DOMAIN Tree[n].ptrs
  BY <1>6
<1>13. [k \in DOMAIN disk[d][b].ptrs |-> F[m - 1][disk[d][b].ptrs[k]]]
         = [k \in DOMAIN Tree[n].ptrs |-> Intended[Child(n, k)]]
  BY <1>9, <1>12
<1>14. QED
  BY <1>7, <1>10, <1>11, <1>13

-----------------------------------------------------------------------------
(* The sizes of the devices, and where their metadata ends.                *)
LEMMA SizesAre ==
  ASSUME caller \in Callers
  PROVE  /\ Size[Src] \in Nat /\ Size[Dst] \in Nat
         /\ Meta[Src] \in Nat /\ 2 <= Meta[Src] /\ Meta[Src] <= Size[Src]
         /\ Meta[Dst] \in Nat /\ 2 <= Meta[Dst] /\ Meta[Dst] <= Size[Dst]
         /\ SameDevice => Dst = Src
         /\ ~SameDevice => Dst # Src
<1>1. HostSize[caller] \in Nat /\ Meta["host"] \in 2..HostSize[caller]
      /\ TargetSize \in Nat /\ Meta["target"] \in 2..TargetSize
  BY SizeAssumption
<1>2. Size["host"] = HostSize[caller] /\ Size["target"] = TargetSize
  BY DEF Size
<1>3. Src = "host" /\ Dst = IF SameDevice THEN "host" ELSE "target"
  BY DEF Src, Dst
<1>4. QED
  BY <1>1, <1>2, <1>3

(* Where the layout puts the tree.                                         *)
LEMMA LaidOut ==
  ASSUME caller \in Callers, NEW at \in Layouts(Src)
  PROVE  /\ \A n \in Names : at[n] \in Blocks(Src) /\ at[n] \in Places /\ at[n] \in Nat
                             /\ at[n] >= Meta[Src] /\ at[n] < Size[Src] /\ at[n] # 0
         /\ \A m, n \in Names : at[m] = at[n] => m = n
         /\ at \in [Names -> Blocks(Src)]
<1>1. at \in [Names -> Meta[Src]..(Size[Src] - 1)]
      /\ \A m, n \in Names : at[m] = at[n] => m = n
  BY DEF Layouts
<1>2. QED
  BY <1>1, SizesAre DEF Blocks, Places

(* A stored node has its name, its kind and the blocks of what is below.   *)
LEMMA StoredIs ==
  ASSUME NEW at, NEW n \in Names
  PROVE  /\ Stored(at, n).id = n /\ Stored(at, n).kind = Tree[n].kind
         /\ DOMAIN Stored(at, n).ptrs = DOMAIN Tree[n].ptrs
         /\ \A j \in DOMAIN Tree[n].ptrs :
              Stored(at, n).ptrs[j] = IF Child(n, j) = Hole THEN 0 ELSE at[Child(n, j)]
BY DEF Stored, Child

(* The old tree reads whole while its blocks are kept.                     *)
LEMMA OldReads ==
  ASSUME NEW at \in Layouts(Src), caller \in Callers, Kept(at), ~Overwritten
  PROVE  TreeAt(Src, old, Size[Src]) = Intended[Top]
<1> DEFINE W == {w \in Places \X Names : w[1] = at[w[2]]}
<1>1. Size[Src] \in Nat /\ Size[Dst] \in Nat
  BY SizesAre
<1>2. ASSUME NEW b, NEW n, <<b, n>> \in W
      PROVE  /\ n \in Names /\ b \in Places /\ b # 0 /\ b < Size[Src]
             /\ disk[Src][b].id = n
             /\ DOMAIN disk[Src][b].ptrs = DOMAIN Tree[n].ptrs
             /\ \A j \in DOMAIN Tree[n].ptrs :
                  \/ Child(n, j) = Hole /\ disk[Src][b].ptrs[j] = 0
                  \/ <<disk[Src][b].ptrs[j], Child(n, j)>> \in W
  <2>1. n \in Names /\ b \in Places /\ b = at[n]
    BY <1>2
  <2>2. disk[Src][b] = Stored(at, n)
    BY <2>1 DEF Kept
  <2>3. \A j \in DOMAIN Tree[n].ptrs : Child(n, j) # Hole =>
          Child(n, j) \in Names /\ at[Child(n, j)] \in Places
    BY <2>1, ChildIsName, LaidOut
  <2>4. \A j \in DOMAIN Tree[n].ptrs :
          disk[Src][b].ptrs[j] = IF Child(n, j) = Hole THEN 0 ELSE at[Child(n, j)]
    BY <2>1, <2>2, StoredIs
  <2>5. \A j \in DOMAIN Tree[n].ptrs : Child(n, j) # Hole =>
          <<disk[Src][b].ptrs[j], Child(n, j)>> \in W
    BY <2>3, <2>4
  <2>6. b # 0 /\ b < Size[Src]
    BY <2>1, LaidOut
  <2>7. QED
    BY <2>1, <2>2, <2>4, <2>5, <2>6, StoredIs
<1>3. <<old, Top>> \in W
  BY TreeAssumption, LaidOut DEF Kept
<1> HIDE DEF W
<1>4. QED
  BY <1>1, <1>2, <1>3, ReadsWhole

(* What was placed reads whole as well.                                    *)
LEMMA PlacedReads ==
  ASSUME NEW at \in Layouts(Src), Typed, Kept(at), PlacedRight(at), ~Overwritten,
         NEW end \in Nat, SameDevice => end = Size[Dst],
         \A b \in placed : b < end
  PROVE  \A b \in placed : TreeAt(Dst, b, end) = Intended[disk[Dst][b].id]
<1> DEFINE W == {w \in Places \X Names : \/ SameDevice /\ w[1] = at[w[2]]
                                         \/ w[1] \in placed /\ disk[Dst][w[1]].id = w[2]}
<1>1. Size[Src] \in Nat /\ Size[Dst] \in Nat /\ caller \in Callers
      /\ (SameDevice => Dst = Src)
  BY SizesAre DEF Typed
<1>2. \A b \in placed : b \in Places /\ b \in Nat
  BY <1>1 DEF Typed, TypeOK, Blocks, Places
<1>3. \A b \in placed : disk[Dst][b].id \in Names
  BY DEF PlacedRight
<1>4. ASSUME NEW b, NEW n, <<b, n>> \in W
      PROVE  /\ n \in Names /\ b \in Places /\ b # 0 /\ b < end
             /\ disk[Dst][b].id = n
             /\ DOMAIN disk[Dst][b].ptrs = DOMAIN Tree[n].ptrs
             /\ \A j \in DOMAIN Tree[n].ptrs :
                  \/ Child(n, j) = Hole /\ disk[Dst][b].ptrs[j] = 0
                  \/ <<disk[Dst][b].ptrs[j], Child(n, j)>> \in W
  <2>1. n \in Names /\ b \in Places
    BY <1>4
  <2>2. CASE SameDevice /\ b = at[n]
    <3>1. disk[Dst][b] = Stored(at, n)
      BY <1>1, <2>1, <2>2 DEF Kept
    <3>2. \A j \in DOMAIN Tree[n].ptrs : Child(n, j) # Hole =>
            Child(n, j) \in Names /\ at[Child(n, j)] \in Places
      BY <1>1, <2>1, ChildIsName, LaidOut
    <3>3. \A j \in DOMAIN Tree[n].ptrs :
            disk[Dst][b].ptrs[j] = IF Child(n, j) = Hole THEN 0 ELSE at[Child(n, j)]
      BY <2>1, <3>1, StoredIs
    <3>4. \A j \in DOMAIN Tree[n].ptrs : Child(n, j) # Hole =>
            <<disk[Dst][b].ptrs[j], Child(n, j)>> \in W
      BY <2>2, <3>2, <3>3
    <3>5. b # 0 /\ b < end
      BY <1>1, <2>1, <2>2, LaidOut
    <3>6. QED
      BY <2>1, <3>1, <3>3, <3>4, <3>5, StoredIs
  <2>3. CASE b \in placed /\ disk[Dst][b].id = n
    <3>1. DOMAIN disk[Dst][b].ptrs = DOMAIN Tree[n].ptrs /\ b > 1
          /\ \A j \in DOMAIN Tree[n].ptrs : Good(at, disk[Dst][b].ptrs[j], Child(n, j))
      BY <2>3 DEF PlacedRight
    <3>2. ASSUME NEW j \in DOMAIN Tree[n].ptrs
          PROVE  \/ Child(n, j) = Hole /\ disk[Dst][b].ptrs[j] = 0
                 \/ <<disk[Dst][b].ptrs[j], Child(n, j)>> \in W
      <4> DEFINE p == disk[Dst][b].ptrs[j]
                 c == Child(n, j)
      <4>1. Good(at, p, c)
        BY <3>1
      <4> HIDE DEF p, c
      <4>2. \/ c = Hole /\ p = 0
            \/ c \in Names /\ SameDevice /\ p = at[c] /\ p \in Places
            \/ c \in Names /\ p \in placed /\ disk[Dst][p].id = c /\ p \in Places
        BY <1>1, <1>2, <4>1, LaidOut DEF Good, Fit
      <4>3. (c = Hole /\ p = 0) \/ <<p, c>> \in W
        BY <4>2
      <4>4. QED
        BY <4>3 DEF p, c
    <3>3. QED
      BY <1>2, <2>1, <2>3, <3>1, <3>2
  <2>4. QED
    BY <1>4, <2>2, <2>3
<1>5. \A b \in placed : <<b, disk[Dst][b].id>> \in W
  BY <1>2, <1>3
<1> HIDE DEF W
<1>6. \A b, n : <<b, n>> \in W => TreeAt(Dst, b, end) = Intended[n]
  BY <1>1, <1>4, ReadsWhole
<1>7. QED
  BY <1>5, <1>6

(* The properties follow from the invariant.                               *)
LEMMA PropertiesFollow ==
  ASSUME NEW at \in Layouts(Src), NEW moved, Core(at, moved)
  PROVE  Inv /\ OldTreeKept /\ PlacedIsWhole /\ CopyIsWhole
<1>1. Typed /\ Counted /\ Kept(at) /\ PlacedRight(at) /\ Ahead(at, moved)
  BY DEF Core
<1>2. caller \in Callers /\ Size[Src] \in Nat /\ Size[Dst] \in Nat /\ (SameDevice => Dst = Src)
  BY <1>1, SizesAre DEF Typed
<1>3. size \in 0..Size[Dst] /\ used \subseteq 0..(size - 1) /\ free \in 0..size
      /\ placed \subseteq used
  BY <1>1 DEF Typed, TypeOK, PlacedRight
<1>4. \A b \in placed : b \in Nat /\ b < size /\ b < Size[Dst]
  BY <1>2, <1>3
<1>5. Inv
  <2>1. IsFiniteSet(used) /\ Cardinality(used) \in Nat
    <3>1. IsFiniteSet(0..(size - 1))
      BY <1>2, <1>3, FS_Interval
    <3>2. QED
      BY <1>3, <3>1, FS_Subset, FS_CardinalityType
  <2>2. state = "consistent" => free = size - Cardinality(used)
    BY <1>1, <1>2, <1>3, <2>1 DEF Counted
  <2>3. QED
    BY <1>1, <1>3, <2>2 DEF Inv, Typed, PlacedRight, FreeCountRight
<1>6. OldTreeKept
  BY <1>1, <1>2, OldReads DEF OldTreeKept, Overwritten
<1>7. PlacedIsWhole
  <2>1. SUFFICES ASSUME pc \notin {"done", "lost"}
                 PROVE  \A b \in placed :
                          /\ TreeAt(Dst, b, Size[Dst]) = Intended[disk[Dst][b].id]
                          /\ disk[Dst][b].kind = "leaf" => SameDevice \/ disk[Dst][b].id \in ids
    BY DEF PlacedIsWhole
  <2>2. ~Overwritten
    BY <2>1 DEF Overwritten
  <2>3. \A b \in placed : TreeAt(Dst, b, Size[Dst]) = Intended[disk[Dst][b].id]
    BY <1>1, <1>2, <1>4, <2>2, PlacedReads
  <2>4. QED
    BY <1>1, <2>2, <2>3 DEF PlacedRight
<1>8. CopyIsWhole
  <2>1. SUFFICES ASSUME caller = "copy", state = "consistent"
                 PROVE  TreeAt(Dst, root, size) = Intended[Top]
    BY DEF CopyIsWhole, ConsistentIsWhole
  <2>2. ~SameDevice /\ ~Overwritten
    BY <2>1 DEF SameDevice, Overwritten
  <2>3. root \in placed /\ disk[Dst][root].id = Top
    BY <1>1, <2>1, <2>2, TreeAssumption DEF Ahead, Good, Fit
  <2>4. \A b \in placed : TreeAt(Dst, b, size) = Intended[disk[Dst][b].id]
    BY <1>1, <1>2, <1>3, <1>4, <2>2, PlacedReads
  <2>5. QED
    BY <2>3, <2>4
<1>9. QED
  BY <1>5, <1>6, <1>7, <1>8

-----------------------------------------------------------------------------
(* What a state of the traversal has of its bounds.                        *)
LEMMA Bounds ==
  ASSUME Typed, Asked, Moving
  PROVE  /\ caller \in Callers /\ caller \in {"shrink", "copy", "tune"}
         /\ size \in Nat /\ size <= Size[Dst] /\ free \in Nat /\ free <= size
         /\ used \subseteq 0..(size - 1) /\ placed \subseteq Blocks(Dst)
         /\ area.first \in Nat /\ area.first >= 2
         /\ SameDevice <=> caller # "copy"
         /\ SameDevice => /\ size = Size[Src] /\ size = Size[Dst] /\ Dst = Src
                          /\ area.last \in Nat /\ area.last <= size
                          /\ area.first >= Meta[Src]
                          /\ area.first + size - area.last <= Meta[Src] + free
         /\ ~Overwritten /\ state = "corrupted" /\ pc \notin {"idle", "done"}
<1>1. caller \in Callers /\ caller \in {"shrink", "copy", "tune"}
  BY CallersAssumption DEF Typed
<1>2. SameDevice <=> caller # "copy"
  BY DEF SameDevice
<1>3. size \in Nat /\ size <= Size[Dst] /\ free \in Nat /\ free <= size
      /\ used \subseteq 0..(size - 1) /\ placed \subseteq Blocks(Dst)
  BY <1>1, SizesAre DEF Typed, TypeOK
<1>4. pc \notin {"idle", "done", "lost"} /\ state = "corrupted"
  BY DEF Moving, Asked
<1>5. CASE caller = "shrink"
  <2>1. area = [first |-> Meta[Src], last |-> len] /\ len \in Nat /\ Meta[Src] < len
        /\ len < Size[Src] /\ size - len <= free /\ size = Size[Src]
    BY <1>2, <1>4, <1>5 DEF Asked
  <2>2. area.first = Meta[Src] /\ area.last = len
    BY <2>1
  <2>3. QED
    BY <1>1, <1>2, <1>3, <1>4, <1>5, <2>1, <2>2, SizesAre DEF Overwritten
<1>6. CASE caller = "tune"
  <2>1. area = [first |-> Meta[Src] + len + 1, last |-> size] /\ len \in Nat
        /\ size = Size[Src] /\ len + 1 <= free
    BY <1>2, <1>4, <1>6 DEF Asked
  <2>2. area.first = Meta[Src] + len + 1 /\ area.last = size
    BY <2>1
  <2>3. QED
    BY <1>1, <1>2, <1>3, <1>4, <1>6, <2>1, <2>2, SizesAre DEF Overwritten
<1>7. CASE caller = "copy"
  <2>1. area.first = Meta[Dst]
    BY <1>4, <1>7 DEF Asked
  <2>2. QED
    BY <1>1, <1>2, <1>3, <1>4, <1>7, <2>1, SizesAre DEF Overwritten
<1>8. QED
  BY <1>1, <1>5, <1>6, <1>7

(* What the bitmap has clear is counted free.                              *)
LEMMA ClearAreFree ==
  ASSUME Typed, Asked, Counted, Moving, SameDevice
  PROVE  /\ IsFiniteSet(used) /\ IsFiniteSet((0..(size - 1)) \ used)
         /\ Cardinality(used) = size - free
         /\ Cardinality((0..(size - 1)) \ used) = free
<1> DEFINE all == 0..(size - 1)
           clear == all \ used
<1>1. size \in Nat /\ free \in Nat /\ used \subseteq all
  BY Bounds
<1>2. IsFiniteSet(all) /\ Cardinality(all) = size
  BY <1>1, FS_Interval
<1> HIDE DEF all
<1>3. used \in SUBSET all /\ clear \in SUBSET all
  BY <1>1
<1>4. IsFiniteSet(used) /\ IsFiniteSet(clear)
  BY <1>2, <1>3, FS_Subset
<1>5. Cardinality(used) \in Nat /\ Cardinality(clear) \in Nat
  BY <1>4, FS_CardinalityType
<1>6. used \cup clear = all /\ used \cap clear = {}
  BY <1>1
<1>7. Cardinality(used \cap clear) = 0
  BY <1>6, FS_EmptySet
<1>8. Cardinality(used \cup clear) = Cardinality(used) + Cardinality(clear) - Cardinality(used \cap clear)
  BY <1>4, FS_Union
<1> HIDE DEF clear
<1>9. size = Cardinality(used) + Cardinality(clear)
  <2>1. Cardinality(all) = Cardinality(used \cup clear)
    BY <1>6
  <2>2. Cardinality(all) = Cardinality(used) + Cardinality(clear) - Cardinality(used \cap clear)
    BY <1>8, <2>1
  <2>3. QED
    BY <1>2, <1>5, <1>7, <2>2
<1>10. Cardinality(used) = size - free
  BY DEF Counted
<1>11. QED
  BY <1>1, <1>4, <1>5, <1>9, <1>10 DEF all, clear

(* While a block outside the area is taken, one inside is clear: those     *)
(* outside are no more than those that are free.                           *)
LEMMA RoomLeft ==
  ASSUME Typed, Asked, Counted, Moving, SameDevice,
         NEW b \in used, ~Inside(b), b >= Meta[Src],
         \A a \in Nat : a < Meta[Src] => a \in used
  PROVE  \E v \in Vacant(b) : Inside(v)
<1> DEFINE clear == (0..(size - 1)) \ used
           low == Meta[Src]..(area.first - 1)
           high == area.last..(size - 1)
<1>1. /\ size \in Nat /\ free \in Nat /\ used \subseteq 0..(size - 1)
      /\ area.first \in Nat /\ area.last \in Nat /\ area.last <= size
      /\ area.first >= Meta[Src] /\ Meta[Src] \in Nat
      /\ area.first + size - area.last <= Meta[Src] + free
  BY Bounds, SizesAre
<1>2. IsFiniteSet(clear) /\ Cardinality(clear) = free
  BY ClearAreFree
<1>3. IsFiniteSet(low) /\ Cardinality(low) = area.first - Meta[Src]
      /\ IsFiniteSet(high) /\ Cardinality(high) = size - area.last
  <2>1. Meta[Src] \in Int /\ area.first - 1 \in Int /\ area.last \in Int /\ size - 1 \in Int
    BY <1>1
  <2>2. IsFiniteSet(low) /\ Cardinality(low) = IF Meta[Src] > area.first - 1 THEN 0
                                               ELSE area.first - 1 - Meta[Src] + 1
    BY <2>1, FS_Interval
  <2>3. IsFiniteSet(high) /\ Cardinality(high) = IF area.last > size - 1 THEN 0
                                                 ELSE size - 1 - area.last + 1
    BY <2>1, FS_Interval
  <2> HIDE DEF low, high
  <2>4. QED
    BY <1>1, <2>2, <2>3
<1>4. IsFiniteSet(low \cup high) /\ Cardinality(low \cup high) \in Nat
      /\ Cardinality(low \cup high) <= free
  <2> HIDE DEF low, high
  <2>1. IsFiniteSet(low \cup high)
        /\ Cardinality(low \cup high) = Cardinality(low) + Cardinality(high) - Cardinality(low \cap high)
    BY <1>3, FS_Union
  <2>2. Cardinality(low \cup high) \in Nat
    BY <2>1, FS_CardinalityType
  <2>3. low \cap high \in SUBSET low
    OBVIOUS
  <2>4. Cardinality(low \cap high) \in Nat
    BY <1>3, <2>3, FS_Subset, FS_CardinalityType
  <2>5. QED
    BY <1>1, <1>3, <2>1, <2>2, <2>4
<1>5. b \in low \cup high /\ b \in Nat
  <2>1. b \in Nat /\ b < size
    BY <1>1
  <2>2. QED
    BY <1>1, <2>1 DEF Inside
<1>6. IsFiniteSet((low \cup high) \ {b})
      /\ Cardinality((low \cup high) \ {b}) = Cardinality(low \cup high) - 1
  <2> HIDE DEF low, high
  <2>1. QED
    BY <1>4, <1>5, FS_RemoveElement
<1>7. SUFFICES ASSUME \A v \in Vacant(b) : ~Inside(v)  PROVE FALSE
  OBVIOUS
<1>8. clear \subseteq (low \cup high) \ {b}
  <2>1. SUFFICES ASSUME NEW v \in clear  PROVE v \in low \cup high /\ v # b
    OBVIOUS
  <2>2. v \in Nat /\ v < size /\ v \notin used /\ v # b
    BY <1>1, <2>1
  <2>3. v >= Meta[Src]
    BY <1>1, <2>2
  <2>4. CASE v < area.first
    BY <1>1, <2>2, <2>3, <2>4
  <2>5. CASE v >= area.first
    <3>1. v \in Vacant(b)
      BY <1>1, <2>2, <2>5 DEF Vacant, Released
    <3>2. ~Inside(v)
      BY <1>7, <3>1
    <3>3. v >= area.last
      BY <1>1, <2>2, <2>5, <3>2 DEF Inside
    <3>4. QED
      BY <1>1, <2>2, <3>3
  <2>6. QED
    BY <1>1, <2>2, <2>3, <2>4, <2>5
<1>9. Cardinality(clear) <= Cardinality((low \cup high) \ {b})
  <2> HIDE DEF low, high, clear
  <2>1. clear \in SUBSET ((low \cup high) \ {b})
    BY <1>8
  <2>2. QED
    BY <1>6, <2>1, FS_Subset
<1>10. QED
  <2> HIDE DEF low, high, clear
  <2>1. QED
    BY <1>1, <1>2, <1>4, <1>6, <1>9

(* What depends on the caller alone stays.                                 *)
LEMMA CallerStays ==
  ASSUME caller' = caller
  PROVE  /\ SameDevice' = SameDevice /\ Src' = Src /\ Dst' = Dst /\ Size' = Size
         /\ Places' = Places /\ Contents' = Contents /\ Frames' = Frames
         /\ \A d : Blocks(d)' = Blocks(d)
         /\ \A d : Layouts(d)' = Layouts(d)
<1>1. SameDevice' = SameDevice /\ Src' = Src
  BY DEF SameDevice, Src
<1>2. Dst' = Dst /\ Size' = Size
  BY <1>1 DEF Dst, Size
<1>3. Places' = Places /\ \A d : Blocks(d)' = Blocks(d)
  BY <1>1, <1>2 DEF Places, Blocks
<1>4. Contents' = Contents
  BY <1>3 DEF Contents
<1>5. Frames' = Frames
  BY <1>1, <1>3, <1>4 DEF Frames
<1>6. \A d : Layouts(d)' = Layouts(d)
  BY <1>2 DEF Layouts
<1>7. QED
  BY <1>1, <1>2, <1>3, <1>4, <1>5, <1>6

(* Where a block that does not stay is written to.                         *)
LEMMA Spot ==
  ASSUME NEW at \in Layouts(Src), NEW moved, Typed, Asked, Counted, Moving,
         Taken(at, moved), PlacedRight(at), NEW c \in Names, c \notin moved, ~Stays(at[c])
  PROVE  /\ SameDevice => Vacant(at[c]) # {} /\ at[c] \in used /\ ~Inside(at[c])
         /\ Vacant(at[c]) # {} =>
              /\ Target(at[c]) \in Nat /\ Target(at[c]) >= 2 /\ Target(at[c]) < size
              /\ Target(at[c]) \in Blocks(Dst) /\ Target(at[c]) \notin used
              /\ SameDevice => Inside(Target(at[c])) /\ \A n \in Names : Target(at[c]) # at[n]
<1> DEFINE b == at[c]
           v0 == Target(b)
<1>1. /\ caller \in Callers /\ size \in Nat /\ size <= Size[Dst] /\ Size[Dst] \in Nat
      /\ area.first \in Nat /\ area.first >= 2 /\ used \subseteq 0..(size - 1)
      /\ SameDevice => area.last \in Nat /\ size = Size[Src] /\ Dst = Src
  BY Bounds, SizesAre
<1>2. b \in Nat /\ b >= Meta[Src] /\ b < Size[Src] /\ b \in Blocks(Src)
  BY <1>1, LaidOut
<1>3. ASSUME SameDevice
      PROVE  b \in used /\ ~Inside(b) /\ \E v \in Vacant(b) : Inside(v)
  <2>1. b \in used
    BY <1>1, <1>2, <1>3 DEF Taken
  <2>2. ~Inside(b)
    BY <1>3 DEF Stays
  <2>3. \A a \in Nat : a < Meta[Src] => a \in used
    <3>1. SUFFICES ASSUME NEW a \in Nat, a < Meta[Src]  PROVE a \in used
      OBVIOUS
    <3>2. a \in Blocks(Dst)
      BY <1>1, <1>3, <3>1, SizesAre DEF Blocks
    <3>3. QED
      BY <1>3, <3>1, <3>2 DEF Taken
  <2>4. \E v \in Vacant(b) : Inside(v)
    <3> HIDE DEF b
    <3>1. QED
      BY <1>2, <1>3, <2>1, <2>2, <2>3, RoomLeft
  <2>5. QED
    BY <2>1, <2>2, <2>4
<1>4. ASSUME Vacant(b) # {}
      PROVE  v0 \in Vacant(b) /\ \A v \in Vacant(b) : v0 <= v
  <2>1. Vacant(b) \subseteq Nat
    BY <1>1 DEF Vacant
  <2>2. \E v \in Vacant(b) : \A other \in Vacant(b) : v <= other
    BY <1>4, <2>1, Least
  <2>3. QED
    BY <2>2 DEF Target
<1>5. ASSUME Vacant(b) # {}
      PROVE  /\ v0 \in Nat /\ v0 >= 2 /\ v0 < size /\ v0 \in Blocks(Dst) /\ v0 \notin Released(b)
             /\ v0 >= area.first
  <2>1. v0 \in area.first..(size - 1) /\ v0 \notin Released(b)
    BY <1>4, <1>5 DEF Vacant
  <2> HIDE DEF v0
  <2>2. QED
    BY <1>1, <2>1 DEF Blocks
<1>6. ASSUME SameDevice, Vacant(b) # {}
      PROVE  Inside(v0) /\ v0 \notin used /\ \A n \in Names : v0 # at[n]
  <2>1. PICK v \in Vacant(b) : Inside(v)
    BY <1>3, <1>6
  <2>2. v \in Nat /\ v0 <= v /\ v < area.last
    BY <1>1, <1>4, <1>6, <2>1 DEF Vacant, Inside
  <2>3. Inside(v0)
    BY <1>1, <1>5, <1>6, <2>2 DEF Inside
  <2>4. v0 # b
    BY <1>3, <1>6, <2>3
  <2>5. v0 \notin used
    BY <1>5, <1>6, <2>4 DEF Released
  <2>6. \A n \in Names : v0 # at[n]
    <3>1. SUFFICES ASSUME NEW n \in Names, v0 = at[n]  PROVE v0 \in used
      BY <2>5
    <3>2. v0 \in Blocks(Dst)
      BY <1>5, <1>6
    <3>3. QED
      BY <1>6, <2>3, <3>1, <3>2 DEF Taken
  <2>7. QED
    BY <2>3, <2>5, <2>6
<1>7. ~SameDevice /\ Vacant(b) # {} => v0 \notin used
  BY <1>5 DEF Released
<1>8. QED
  BY <1>3, <1>5, <1>6, <1>7

(* What is good to point to after a step of the traversal.                 *)
GoodNext(at, b, name) == Fit(b, name, at, SameDevice, placed', disk'[Dst])
GoodStays(at) == \A p, n : Good(at, p, n) => GoodNext(at, p, n)

(* A node is placed: the block it was read from is given up, another one   *)
(* is taken, and what holds of the blocks goes on to hold.                 *)
LEMMA PlaceKeeps ==
  ASSUME NEW at \in Layouts(Src), NEW moved \in SUBSET Names, Typed, Asked, Counted, Moving,
         Kept(at), Taken(at, moved), PlacedRight(at),
         NEW c \in Names, c \notin moved, ~Stays(at[c]),
         NEW content \in Contents, Place(at[c], content),
         content.id = c, content.kind = Tree[c].kind, DOMAIN content.ptrs = DOMAIN Tree[c].ptrs,
         \A j \in DOMAIN content.ptrs : Good(at, content.ptrs[j], Child(c, j)),
         content.kind = "leaf" => SameDevice \/ c \in ids,
         UNCHANGED <<caller, super, old, len, area, ids>>,
         Moving', stack' \in Seq(Frames), arg' \in Places
  PROVE  /\ Typed' /\ Asked' /\ Counted' /\ Kept(at)' /\ Taken(at, moved \cup {c})'
         /\ PlacedRight(at)'
         /\ GoodStays(at)
         /\ GoodNext(at, Target(at[c]), c) /\ Target(at[c]) \in Places
<1> DEFINE b == at[c]
           v0 == Target(b)
<1>1. /\ caller' = caller /\ state' = state /\ root' = root /\ free' = free /\ size' = size
      /\ old' = old /\ len' = len /\ area' = area /\ ids' = ids
  BY DEF super
<1>2. /\ SameDevice' = SameDevice /\ Src' = Src /\ Dst' = Dst /\ Size' = Size
      /\ Places' = Places /\ Contents' = Contents /\ Frames' = Frames
      /\ \A d : Blocks(d)' = Blocks(d)
      /\ \A d : Layouts(d)' = Layouts(d)
  BY <1>1, CallerStays
<1>3. /\ Vacant(b) # {}
      /\ used' = Released(b) \cup {v0}
      /\ disk' = [disk EXCEPT ![Dst][v0] = content]
      /\ placed' = placed \cup {v0}
  BY DEF Place
<1>4. /\ SameDevice => b \in used /\ ~Inside(b)
      /\ v0 \in Nat /\ v0 >= 2 /\ v0 < size /\ v0 \in Blocks(Dst) /\ v0 \notin used
      /\ SameDevice => Inside(v0) /\ \A n \in Names : v0 # at[n]
  BY <1>3, Spot
<1>5. /\ caller \in Callers /\ size \in Nat /\ size <= Size[Dst] /\ free \in Nat
      /\ used \subseteq 0..(size - 1) /\ placed \subseteq Blocks(Dst)
      /\ (SameDevice <=> caller # "copy") /\ ~Overwritten /\ state = "corrupted"
      /\ (SameDevice => Dst = Src) /\ (~SameDevice => Dst # Src)
      /\ Size[Dst] \in Nat /\ Size[Src] \in Nat
  BY Bounds, SizesAre
<1>6. v0 \notin placed /\ v0 \in Places
  BY <1>4, <1>5 DEF PlacedRight, Places
<1>7. /\ DOMAIN disk = {Src, Dst} /\ \A d \in {Src, Dst} : disk[d] \in [Blocks(d) -> Contents]
  BY DEF Typed, TypeOK
<1>8. pc' \in {"enter", "pieces", "children", "write", "return", "placed"} /\ ~Overwritten'
  BY DEF Moving, Overwritten
<1> HIDE DEF b, v0
<1>9. /\ DOMAIN disk' = {Src, Dst}
      /\ disk'[Dst] = [disk[Dst] EXCEPT ![v0] = content]
      /\ ~SameDevice => disk'[Src] = disk[Src]
  BY <1>3, <1>5, <1>7
<1>10. /\ disk'[Dst][v0] = content
       /\ \A x \in Blocks(Dst) : x # v0 => disk'[Dst][x] = disk[Dst][x]
  BY <1>4, <1>7, <1>9
<1>11. \A d \in {Src, Dst} : disk'[d] \in [Blocks(d) -> Contents]
  <2>1. disk'[Dst] \in [Blocks(Dst) -> Contents]
    BY <1>4, <1>7, <1>9
  <2>2. QED
    BY <1>5, <1>7, <1>9, <2>1
<1>12. used' \subseteq 0..(size - 1)
  BY <1>3, <1>4, <1>5 DEF Released
<1>13. \A n \in Names : disk'[Src][at[n]] = disk[Src][at[n]]
  BY <1>4, <1>5, <1>9, <1>10, LaidOut
<1>14. \A p, n : Good(at, p, n) => GoodNext(at, p, n)
  <2>1. SUFFICES ASSUME NEW p, NEW n, Good(at, p, n)  PROVE GoodNext(at, p, n)
    OBVIOUS
  <2>2. CASE p \in placed /\ n \in Names /\ disk[Dst][p].id = n
    <3>1. p \in Blocks(Dst) /\ p # v0
      BY <1>5, <1>6, <2>2
    <3>2. disk'[Dst][p].id = n /\ p \in placed'
      BY <1>3, <1>10, <2>2, <3>1
    <3>3. QED
      BY <1>2, <2>2, <3>2 DEF GoodNext, Fit
  <2>3. CASE n = Hole /\ p = 0
    BY <2>3 DEF GoodNext, Fit
  <2>4. CASE n \in Names /\ SameDevice /\ p = at[n]
    BY <1>2, <2>4 DEF GoodNext, Fit
  <2>5. QED
    BY <2>1, <2>2, <2>3, <2>4 DEF Good, Fit
<1>15. GoodNext(at, v0, c)
  BY <1>2, <1>3, <1>10 DEF GoodNext, Fit
<1>16. Typed'
  <2>1. TypeOK'
    BY <1>1, <1>2, <1>3, <1>4, <1>5, <1>8, <1>9, <1>12 DEF Typed, TypeOK, Places
  <2>2. QED
    BY <1>1, <1>2, <1>5, <1>8, <1>11, <2>1 DEF Typed
<1>17. Asked'
  BY <1>1, <1>2, <1>5, <1>8 DEF Asked, Moving
<1>18. Counted'
  <2>1. ASSUME SameDevice  PROVE Cardinality(used') = size - free
    <3>1. IsFiniteSet(used) /\ Cardinality(used) = size - free
      BY <2>1, ClearAreFree
    <3>2. IsFiniteSet(used \ {b}) /\ Cardinality(used \ {b}) = size - free - 1
      BY <1>4, <2>1, <3>1, FS_RemoveElement
    <3>3. used' = (used \ {b}) \cup {v0} /\ v0 \notin used \ {b}
      BY <1>3, <1>4, <2>1 DEF Released
    <3>4. Cardinality((used \ {b}) \cup {v0}) = size - free - 1 + 1
      BY <3>2, <3>3, FS_AddElement
    <3>5. QED
      BY <1>5, <3>3, <3>4
  <2>2. QED
    BY <1>1, <1>2, <1>5, <2>1 DEF Counted
<1>19. Kept(at)'
  <2>1. \A n \in Names : disk'[Src][at[n]] = Stored(at, n)
    BY <1>5, <1>13 DEF Kept
  <2>2. at \in Layouts(Src)' /\ old' = at[Top]
    BY <1>1, <1>2 DEF Kept
  <2>3. QED
    BY <1>2, <2>1, <2>2 DEF Kept, Stored
<1>20. Taken(at, moved \cup {c})'
  <2>1. SUFFICES ASSUME SameDevice, NEW x \in Blocks(Dst)
                 PROVE  x \in used' <=>
                          \/ x < Meta[Src] \/ x \in placed'
                          \/ \E n \in Names : x = at[n] /\ (n \in moved \cup {c} => Inside(x))
    BY <1>1, <1>2 DEF Taken, Inside
  <2>2. x \in used <=>
          \/ x < Meta[Src] \/ x \in placed
          \/ \E n \in Names : x = at[n] /\ (n \in moved => Inside(x))
    BY <2>1 DEF Taken
  <2>3. x \in used' <=> (x \in used /\ x # b) \/ x = v0
    BY <1>3, <2>1 DEF Released
  <2>4. b = at[c] /\ b >= Meta[Src] /\ b \notin placed /\ Meta[Src] \in Nat /\ b \in Nat
    BY <1>4, <1>5, <2>1, LaidOut, SizesAre DEF b, PlacedRight, RoomSuffices
  <2>5. CASE x = v0
    BY <1>3, <2>3, <2>5
  <2>6. CASE x = b
    <3>1. x # v0 /\ x \notin used'
      BY <1>4, <2>1, <2>3, <2>6
    <3>2. \A n \in Names : x = at[n] => n = c
      BY <1>5, <2>4, <2>6, LaidOut
    <3>3. ~Inside(x)
      BY <1>4, <2>1, <2>6
    <3>4. QED
      BY <1>3, <1>4, <2>1, <2>4, <2>6, <3>1, <3>2, <3>3
  <2>7. CASE x # v0 /\ x # b
    <3>1. \A n \in Names : x = at[n] => n # c
      BY <2>4, <2>7
    <3>2. QED
      BY <1>3, <2>2, <2>3, <2>7, <3>1
  <2>8. QED
    BY <2>5, <2>6, <2>7
<1>21. PlacedRight(at)'
  <2>1. placed' \subseteq used'
    <3>1. ASSUME NEW x \in placed  PROVE x \in Released(b)
      <4>1. x \in used
        BY <3>1 DEF PlacedRight
      <4>2. SameDevice => Inside(x)
        BY <3>1 DEF PlacedRight, RoomSuffices
      <4>3. SameDevice => x # b
        BY <1>4, <4>2
      <4>4. QED
        BY <4>1, <4>3 DEF Released
    <3>2. QED
      BY <1>3, <3>1
  <2>2. RoomSuffices'
    <3>1. SameDevice => \A x \in placed' : Inside(x)
      BY <1>3, <1>4 DEF PlacedRight, RoomSuffices
    <3>2. QED
      BY <1>1, <1>2, <1>8, <3>1 DEF RoomSuffices, Inside
  <2>3. \A x \in placed' : x > 1
    BY <1>3, <1>4 DEF PlacedRight
  <2>4. ASSUME NEW x \in placed'
        PROVE  /\ disk'[Dst][x].id \in Names
               /\ disk'[Dst][x].kind = Tree[disk'[Dst][x].id].kind
               /\ DOMAIN disk'[Dst][x].ptrs = DOMAIN Tree[disk'[Dst][x].id].ptrs
               /\ \A j \in DOMAIN disk'[Dst][x].ptrs :
                    GoodNext(at, disk'[Dst][x].ptrs[j], Child(disk'[Dst][x].id, j))
               /\ disk'[Dst][x].kind = "leaf" => SameDevice \/ disk'[Dst][x].id \in ids
    <3>1. CASE x = v0
      BY <1>10, <1>14, <3>1
    <3>2. CASE x # v0
      <4>1. x \in placed /\ disk'[Dst][x] = disk[Dst][x]
        BY <1>3, <1>5, <1>10, <2>4, <3>2
      <4>2. QED
        BY <1>5, <1>14, <4>1 DEF PlacedRight
    <3>3. QED
      BY <3>1, <3>2
  <2>5. QED
    BY <1>1, <1>2, <2>1, <2>2, <2>3, <2>4 DEF PlacedRight, Good, GoodNext, Child
<1>22. QED
  BY <1>6, <1>14, <1>15, <1>16, <1>17, <1>18, <1>19, <1>20, <1>21 DEF b, v0, GoodStays

(* A step that leaves device and bitmap alone; the names it is through     *)
(* with besides keep their blocks.                                         *)
LEMMA SteadyKeeps ==
  ASSUME NEW at \in Layouts(Src), NEW moved \in SUBSET Names, Typed, Asked, Counted, Moving,
         Kept(at), Taken(at, moved), PlacedRight(at),
         NEW more \in SUBSET Names, \A n \in more : SameDevice => Inside(at[n]),
         UNCHANGED <<caller, disk, super, used, old, len, area, placed>>,
         ids \subseteq ids', ids' \subseteq Names,
         Moving' \/ pc' = "failed", stack' \in Seq(Frames), arg' \in Places
  PROVE  /\ Typed' /\ Asked' /\ Counted' /\ Kept(at)' /\ Taken(at, moved \cup more)'
         /\ PlacedRight(at)'
         /\ GoodStays(at)
<1>1. /\ caller' = caller /\ state' = state /\ root' = root /\ free' = free /\ size' = size
      /\ old' = old /\ len' = len /\ area' = area /\ disk' = disk /\ used' = used
      /\ placed' = placed
  BY DEF super
<1>2. /\ SameDevice' = SameDevice /\ Src' = Src /\ Dst' = Dst /\ Size' = Size
      /\ Places' = Places /\ Contents' = Contents /\ Frames' = Frames
      /\ \A d : Blocks(d)' = Blocks(d)
      /\ \A d : Layouts(d)' = Layouts(d)
  BY <1>1, CallerStays
<1>3. pc' \in {"enter", "pieces", "children", "write", "return", "placed", "failed"}
      /\ ~Overwritten' /\ ~Overwritten /\ state = "corrupted" /\ pc \notin {"idle", "done"}
  BY Bounds DEF Moving, Overwritten
<1>4. Typed'
  <2>1. TypeOK'
    BY <1>1, <1>2, <1>3 DEF Typed, TypeOK, Places
  <2>2. QED
    BY <1>1, <1>2, <1>3, <2>1 DEF Typed
<1>5. Asked'
  BY <1>1, <1>2, <1>3 DEF Asked
<1>6. Counted'
  BY <1>1, <1>2 DEF Counted
<1>7. Kept(at)'
  BY <1>1, <1>2, <1>3 DEF Kept, Stored
<1>8. Taken(at, moved \cup more)'
  BY <1>1, <1>2, <1>3 DEF Taken, Inside
<1>9. \A p, n : Good(at, p, n) => GoodNext(at, p, n)
  BY <1>1 DEF Good, GoodNext
<1>10. PlacedRight(at)'
  <2>1. RoomSuffices'
    BY <1>1, <1>2, <1>3 DEF PlacedRight, RoomSuffices, Inside
  <2>2. QED
    BY <1>1, <1>2, <1>3, <1>9, <2>1 DEF PlacedRight, Good, GoodNext, Child
<1>11. QED
  BY <1>4, <1>5, <1>6, <1>7, <1>8, <1>9, <1>10 DEF GoodStays

(* Where a traversal stops no more is said of it.                          *)
LEMMA StopsRight ==
  ASSUME NEW at, NEW moved, Typed', Asked', Counted', Kept(at)', PlacedRight(at)',
         pc' \in {"failed", "full", "lost"}
  PROVE  Core(at, moved)'
<1>1. ~Moving' /\ pc' # "idle" /\ state' = "corrupted"
  BY DEF Moving, Asked
<1>2. Taken(at, moved)' /\ Framed(at, moved)' /\ Chained'
  BY <1>1 DEF Taken, Framed, Chained
<1>3. Ahead(at, moved)'
  BY <1>1 DEF Ahead
<1>4. QED
  BY <1>1, <1>2, <1>3 DEF Core

(* A node cannot be placed.                                                *)
LEMMA PlaceFailsKeeps ==
  ASSUME NEW at \in Layouts(Src), NEW moved \in SUBSET Names, Core(at, moved), Moving,
         NEW c \in Names, c \notin moved, ~Stays(at[c]), PlaceFails(at[c])
  PROVE  Core(at, moved)'
<1> DEFINE b == at[c]
           v0 == Target(b)
<1>1. Typed /\ Asked /\ Counted /\ Kept(at) /\ Taken(at, moved) /\ PlacedRight(at)
  BY DEF Core
<1>2. /\ caller' = caller /\ state' = state /\ root' = root /\ free' = free /\ size' = size
      /\ old' = old /\ len' = len /\ area' = area /\ disk' = disk /\ ids' = ids
      /\ placed' = placed /\ stack' = stack /\ arg' = arg
  BY DEF PlaceFails, super
<1>3. /\ SameDevice' = SameDevice /\ Src' = Src /\ Dst' = Dst /\ Size' = Size
      /\ Places' = Places /\ Contents' = Contents /\ Frames' = Frames
      /\ \A d : Blocks(d)' = Blocks(d)
      /\ \A d : Layouts(d)' = Layouts(d)
  BY <1>2, CallerStays
<1>4. /\ SameDevice => Vacant(b) # {} /\ b \in used /\ ~Inside(b)
      /\ Vacant(b) # {} => v0 \in Nat /\ v0 < size /\ v0 \notin used
  BY <1>1, Spot
<1>5. /\ ~Overwritten /\ state = "corrupted" /\ pc \notin {"idle", "done"}
      /\ size \in Nat /\ free \in Nat /\ used \subseteq 0..(size - 1)
  BY <1>1, Bounds
<1>6. \/ Vacant(b) = {} /\ pc' = "full" /\ used' = Released(b)
      \/ Vacant(b) # {} /\ pc' = "failed" /\ used' = Released(b) \cup {v0}
  BY DEF PlaceFails
<1> HIDE DEF b, v0
<1>7. pc' \in {"failed", "full"} /\ ~Overwritten' /\ (SameDevice => pc' = "failed")
  BY <1>4, <1>6 DEF Overwritten
<1>8. Typed'
  <2>1. used' \subseteq 0..(size - 1)
    <3>1. Released(b) \subseteq 0..(size - 1)
      BY <1>5 DEF Released
    <3>2. Vacant(b) # {} => v0 \in 0..(size - 1)
      BY <1>4, <1>5
    <3>3. QED
      BY <1>6, <3>1, <3>2
  <2>2. TypeOK'
    BY <1>1, <1>2, <1>3, <1>7, <2>1 DEF Typed, TypeOK, Places
  <2>3. QED
    BY <1>1, <1>2, <1>3, <1>7, <2>2 DEF Typed
<1>9. Asked'
  BY <1>1, <1>2, <1>3, <1>5, <1>7 DEF Asked
<1>10. Counted'
  <2>1. ASSUME SameDevice  PROVE Cardinality(used') = size - free
    <3>1. IsFiniteSet(used) /\ Cardinality(used) = size - free
      BY <1>1, <2>1, ClearAreFree
    <3>2. IsFiniteSet(used \ {b}) /\ Cardinality(used \ {b}) = size - free - 1
      BY <1>4, <2>1, <3>1, FS_RemoveElement
    <3>3. used' = (used \ {b}) \cup {v0} /\ v0 \notin used \ {b}
      BY <1>4, <1>6, <2>1 DEF Released
    <3>4. Cardinality((used \ {b}) \cup {v0}) = size - free - 1 + 1
      BY <3>2, <3>3, FS_AddElement
    <3>5. QED
      BY <1>5, <3>3, <3>4
  <2>2. QED
    BY <1>2, <1>3, <1>5, <2>1 DEF Counted
<1>11. Kept(at)'
  BY <1>1, <1>2, <1>3, <1>5 DEF Kept, Stored
<1>12. PlacedRight(at)'
  <2>1. placed' \subseteq used'
    <3>1. ASSUME NEW x \in placed  PROVE x \in Released(b)
      <4>1. x \in used /\ (SameDevice => Inside(x))
        BY <1>1, <3>1 DEF PlacedRight, RoomSuffices
      <4>2. SameDevice => x # b
        BY <1>4, <4>1
      <4>3. QED
        BY <4>1, <4>2 DEF Released
    <3>2. QED
      BY <1>2, <1>6, <3>1
  <2>2. RoomSuffices'
    BY <1>1, <1>2, <1>3, <1>7 DEF PlacedRight, RoomSuffices, Inside
  <2>3. QED
    BY <1>1, <1>2, <1>3, <1>5, <2>1, <2>2 DEF PlacedRight, Good, Child
<1>13. QED
  BY <1>7, <1>8, <1>9, <1>10, <1>11, <1>12, StopsRight

-----------------------------------------------------------------------------
(* The frame of the node that is being visited.                            *)
LEMMA TopIs ==
  ASSUME stack \in Seq(Frames), stack # <<>>
  PROVE  /\ Depth \in Nat \ {0} /\ DOMAIN stack = 1..Depth /\ Depth \in DOMAIN stack
         /\ Current \in Frames /\ Current.node \in Contents /\ Current.i \in Nat \ {0}
         /\ Current.nr \in Blocks(Src) /\ Current.node.ptrs \in Seq(Places)
         /\ Current = stack[Depth]
         /\ AtEnd <=> Current.i \notin DOMAIN Current.node.ptrs
         /\ Len(Current.node.ptrs) \in Nat
         /\ DOMAIN Current.node.ptrs = 1..Len(Current.node.ptrs)
<1>1. Depth \in Nat \ {0} /\ DOMAIN stack = 1..Depth
  BY DEF Depth
<1>2. Depth \in DOMAIN stack /\ stack[Depth] \in Frames
  BY <1>1
<1>3. Current \in Frames /\ Current.node \in Contents /\ Current.i \in Nat \ {0}
      /\ Current.nr \in Blocks(Src) /\ Current.node.ptrs \in Seq(Places) /\ Current = stack[Depth]
  BY <1>2 DEF Current, Frames, Contents
<1>4. AtEnd <=> Current.i \notin DOMAIN Current.node.ptrs
  BY <1>3 DEF AtEnd
<1>5. QED
  BY <1>1, <1>2, <1>3, <1>4

(* It is replaced.                                                         *)
LEMMA TopReplaced ==
  ASSUME stack \in Seq(Frames), stack # <<>>, NEW f \in Frames, SetTop(f)
  PROVE  /\ stack' \in Seq(Frames) /\ stack' # <<>> /\ DOMAIN stack' = DOMAIN stack
         /\ stack'[Depth] = f
         /\ \A k \in DOMAIN stack : k # Depth => stack'[k] = stack[k]
         /\ Depth' = Depth /\ Current' = f
<1>1. Depth \in DOMAIN stack /\ DOMAIN stack = 1..Depth /\ Depth \in Nat \ {0}
  BY TopIs
<1>2. stack' = [stack EXCEPT ![Depth] = f]
  BY DEF SetTop
<1>3. stack' \in Seq(Frames) /\ DOMAIN stack' = DOMAIN stack /\ Len(stack') = Len(stack)
  BY <1>1, <1>2 DEF Depth
<1>4. stack'[Depth] = f /\ \A k \in DOMAIN stack : k # Depth => stack'[k] = stack[k]
  BY <1>1, <1>2
<1>5. Depth' = Depth
  BY <1>3 DEF Depth
<1>6. Current' = f
  BY <1>4, <1>5 DEF Current
<1>7. QED
  BY <1>1, <1>3, <1>4, <1>5, <1>6

(* One pointer of it is replaced, and the next one is come to.             *)
LEMMA PointedTo ==
  ASSUME stack \in Seq(Frames), stack # <<>>, ~AtEnd, NEW b \in Places
  PROVE  /\ PointTo(b) \in Frames /\ PointTo(b).nr = Current.nr /\ PointTo(b).i = Current.i + 1
         /\ PointTo(b).node.id = Current.node.id /\ PointTo(b).node.kind = Current.node.kind
         /\ DOMAIN PointTo(b).node.ptrs = DOMAIN Current.node.ptrs
         /\ Len(PointTo(b).node.ptrs) = Len(Current.node.ptrs)
         /\ PointTo(b).node.ptrs[Current.i] = b
         /\ \A j \in DOMAIN Current.node.ptrs :
              j # Current.i => PointTo(b).node.ptrs[j] = Current.node.ptrs[j]
<1> DEFINE q == [Current.node.ptrs EXCEPT ![Current.i] = b]
           m == [Current.node EXCEPT !.ptrs = q]
<1>1. /\ Current \in Frames /\ Current.node \in Contents /\ Current.i \in Nat \ {0}
      /\ Current.node.ptrs \in Seq(Places) /\ Current.i \in DOMAIN Current.node.ptrs
  BY TopIs
<1>2. PointTo(b) = [[Current EXCEPT !.node = m] EXCEPT !.i = Current.i + 1]
  BY <1>1 DEF PointTo, Frames, Contents
<1>3. q \in Seq(Places) /\ DOMAIN q = DOMAIN Current.node.ptrs /\ Len(q) = Len(Current.node.ptrs)
      /\ q[Current.i] = b
      /\ \A j \in DOMAIN Current.node.ptrs : j # Current.i => q[j] = Current.node.ptrs[j]
  BY <1>1
<1> HIDE DEF q
<1>4. m \in Contents /\ m.ptrs = q /\ m.id = Current.node.id /\ m.kind = Current.node.kind
  BY <1>1, <1>3 DEF Contents
<1> HIDE DEF m
<1>5. /\ PointTo(b) \in Frames /\ PointTo(b).node = m /\ PointTo(b).nr = Current.nr
      /\ PointTo(b).i = Current.i + 1
  <2> DEFINE r == [Current EXCEPT !.node = m]
  <2>1. r \in Frames /\ r.node = m /\ r.nr = Current.nr
    BY <1>1, <1>4 DEF Frames
  <2> HIDE DEF r
  <2>2. Current.i + 1 \in Nat \ {0}
    BY <1>1
  <2>3. PointTo(b) = [r EXCEPT !.i = Current.i + 1]
    BY <1>2 DEF r
  <2>4. QED
    BY <2>1, <2>2, <2>3 DEF Frames
<1>6. QED
  BY <1>3, <1>4, <1>5

(* A frame that is not touched stays right.                                *)
LEMMA FrameStays ==
  ASSUME NEW f, NEW at, NEW moved, NEW more, NEW same, NEW written, NEW blocks, NEW known,
         NEW written2, NEW blocks2, NEW known2,
         FrameRight(f, at, moved, same, written, blocks, known),
         moved \subseteq more, f.node.id \notin more,
         \A j \in DOMAIN f.node.ptrs : j > f.i => Child(f.node.id, j) \notin more,
         \A p, n : Fit(p, n, at, same, written, blocks) => Fit(p, n, at, same, written2, blocks2),
         known \subseteq known2
  PROVE  FrameRight(f, at, more, same, written2, blocks2, known2)
BY DEF FrameRight

(* What is said of the visited frame when it has gone on by one pointer.   *)
LEMMA FrameAdvances ==
  ASSUME NEW f, NEW g, NEW at, NEW moved, NEW more, NEW same, NEW written, NEW blocks, NEW known,
         NEW written2, NEW blocks2,
         FrameRight(f, at, moved, same, written, blocks, known),
         f.node.ptrs \in Seq(Places), f.i \in DOMAIN f.node.ptrs,
         g.nr = f.nr, g.i = f.i + 1, g.node.id = f.node.id, g.node.kind = f.node.kind,
         DOMAIN g.node.ptrs = DOMAIN f.node.ptrs, Len(g.node.ptrs) = Len(f.node.ptrs),
         \A j \in DOMAIN f.node.ptrs : j # f.i => g.node.ptrs[j] = f.node.ptrs[j],
         Fit(g.node.ptrs[f.i], Child(f.node.id, f.i), at, same, written2, blocks2),
         Child(f.node.id, f.i) \in more \cup {Hole},
         moved \subseteq more, f.node.id \notin more,
         \A j \in DOMAIN f.node.ptrs : j > f.i => Child(f.node.id, j) \notin more,
         \A p, n : Fit(p, n, at, same, written, blocks) => Fit(p, n, at, same, written2, blocks2)
  PROVE  FrameRight(g, at, more, same, written2, blocks2, known)
<1> DEFINE n == f.node.id
<1>1. /\ n \in Names \ moved /\ f.nr = at[n]
      /\ f.node.kind = Tree[n].kind /\ f.node.kind \in {"internal", "leaf"}
      /\ DOMAIN f.node.ptrs = DOMAIN Tree[n].ptrs
      /\ f.node.kind = "leaf" => same \/ n \in known
  BY DEF FrameRight
<1>2. \A j \in DOMAIN f.node.ptrs :
        /\ j >= f.i => f.node.ptrs[j] = Stored(at, n).ptrs[j]
        /\ j < f.i => /\ Child(n, j) \in moved \cup {Hole}
                      /\ Fit(f.node.ptrs[j], Child(n, j), at, same, written, blocks)
  BY DEF FrameRight
<1>3. f.i \in Nat /\ DOMAIN f.node.ptrs \subseteq Nat /\ f.i <= Len(f.node.ptrs)
      /\ Len(f.node.ptrs) \in Nat
  OBVIOUS
<1>4. \A j \in DOMAIN g.node.ptrs :
        /\ j >= g.i => g.node.ptrs[j] = Stored(at, n).ptrs[j]
        /\ j > g.i => Child(n, j) \notin more
  BY <1>2, <1>3
<1>5. ASSUME NEW j \in DOMAIN g.node.ptrs, j < g.i
      PROVE  /\ Child(n, j) \in more \cup {Hole}
             /\ Fit(g.node.ptrs[j], Child(n, j), at, same, written2, blocks2)
  <2>1. CASE j = f.i
    BY <2>1
  <2>2. CASE j < f.i
    BY <1>2, <1>3, <1>5, <2>2
  <2>3. QED
    BY <1>3, <1>5, <2>1, <2>2
<1>6. g.i <= Len(g.node.ptrs) + 1
  BY <1>3
<1>7. QED
  BY <1>1, <1>4, <1>5, <1>6 DEF FrameRight

(* The traversal goes on by one pointer.  What lies behind it is a hole, a *)
(* piece, or a child it is through with.                                   *)
LEMMA Advances ==
  ASSUME NEW at \in Layouts(Src), NEW moved \in SUBSET Names, Core(at, moved), Moving,
         stack # <<>>, ~AtEnd,
         NEW c, c = Child(Current.node.id, Current.i),
         c \in moved \cup {Hole} \/ (c \in Names /\ Tree[c].kind = "data"),
         NEW b \in Places, GoodNext(at, b, c),
         NEW f \in Frames, SetTop(f),
         f.nr = PointTo(b).nr, f.i = PointTo(b).i, f.node = PointTo(b).node,
         GoodStays(at),
         caller' = caller, ids' = ids, Moving'
  PROVE  /\ Closed(moved \cup ({c} \ {Hole}))'
         /\ Framed(at, moved \cup ({c} \ {Hole}))'
         /\ Chained'
         /\ stack' # <<>> /\ Current' = f
         /\ ~AtEnd' => Child(f.node.id, f.i) \notin moved \cup ({c} \ {Hole})
<1> DEFINE more == moved \cup ({c} \ {Hole})
           n0 == Current.node.id
           i0 == Current.i
<1>1. stack \in Seq(Frames)
  BY DEF Core, Typed
<1>2. /\ Depth \in Nat \ {0} /\ DOMAIN stack = 1..Depth /\ Depth \in DOMAIN stack
      /\ Current = stack[Depth] /\ i0 \in DOMAIN Current.node.ptrs /\ i0 \in Nat \ {0}
      /\ Current.node.ptrs \in Seq(Places)
  BY <1>1, TopIs
<1>3. /\ stack' \in Seq(Frames) /\ stack' # <<>> /\ DOMAIN stack' = DOMAIN stack
      /\ stack'[Depth] = f
      /\ \A k \in DOMAIN stack : k # Depth => stack'[k] = stack[k]
      /\ Depth' = Depth /\ Current' = f
  BY <1>1, TopReplaced
<1>4. /\ f.nr = Current.nr /\ f.i = i0 + 1 /\ f.node.id = n0 /\ f.node.kind = Current.node.kind
      /\ DOMAIN f.node.ptrs = DOMAIN Current.node.ptrs
      /\ Len(f.node.ptrs) = Len(Current.node.ptrs)
      /\ f.node.ptrs[i0] = b
      /\ \A j \in DOMAIN Current.node.ptrs : j # i0 => f.node.ptrs[j] = Current.node.ptrs[j]
  BY <1>1, PointedTo
<1>5. Closed(moved) /\ Framed(at, moved) /\ Chained
  BY DEF Core
<1>6. \A k \in DOMAIN stack :
        FrameRight(stack[k], at, moved, SameDevice, placed, disk[Dst], ids)
  BY <1>5 DEF Framed
<1>7. \A k \in DOMAIN stack :
        /\ stack[k].node.id \in Names \ moved /\ Tree[stack[k].node.id].kind # "data"
        /\ DOMAIN stack[k].node.ptrs = DOMAIN Tree[stack[k].node.id].ptrs
        /\ \A j \in DOMAIN stack[k].node.ptrs :
             j > stack[k].i => Child(stack[k].node.id, j) \notin moved
  BY <1>6 DEF FrameRight
<1>8. \A k \in DOMAIN stack : k # Depth => stack[k].node.id # n0
  <2>1. SUFFICES ASSUME NEW k \in DOMAIN stack, k # Depth, stack[k].node.id = n0  PROVE FALSE
    OBVIOUS
  <2>2. k < Depth
    BY <1>2, <2>1
  <2>3. height[stack[Depth].node.id] < height[stack[k].node.id]
    BY <1>2, <1>5, <2>2 DEF Chained
  <2>4. height[n0] \in Nat
    BY <1>2, <1>7, HeightsFall
  <2>5. QED
    BY <1>2, <2>1, <2>3, <2>4
<1>9. n0 \in Names /\ i0 \in DOMAIN Tree[n0].ptrs /\ c = Child(n0, i0) /\ c \in Names \cup {Hole}
  BY <1>2, <1>7, ChildIsName
<1> HIDE DEF n0, i0
<1>10. \A n \in Names : \A j \in DOMAIN Tree[n].ptrs :
         Child(n, j) = c /\ c # Hole => n = n0 /\ j = i0
  BY <1>9, TreeAssumption
<1>11. Hole \notin moved
  BY TreeAssumption
<1>12. \A k \in DOMAIN stack : stack[k].node.id \notin more
  BY <1>7
<1>13. \A k \in DOMAIN stack : \A j \in DOMAIN stack[k].node.ptrs :
         j > stack[k].i => Child(stack[k].node.id, j) \notin more
  <2>1. SUFFICES ASSUME NEW k \in DOMAIN stack, NEW j \in DOMAIN stack[k].node.ptrs,
                        j > stack[k].i, Child(stack[k].node.id, j) = c, c # Hole
                 PROVE  FALSE
    BY <1>7
  <2>2. stack[k].node.id = n0 /\ j = i0
    BY <1>7, <1>10, <2>1
  <2>3. k = Depth
    BY <1>8, <2>2
  <2>4. stack[k].i = i0 /\ i0 \in Nat
    BY <1>2, <2>3 DEF i0
  <2>5. QED
    BY <2>1, <2>2, <2>4
<1>14. SameDevice' = SameDevice /\ Dst' = Dst
  BY CallerStays
<1>15. \A p, n : Fit(p, n, at, SameDevice, placed, disk[Dst])
                   => Fit(p, n, at, SameDevice, placed', disk'[Dst])
  BY DEF Good, GoodNext, GoodStays
<1>16. Framed(at, more)'
  <2>1. ASSUME NEW k \in DOMAIN stack, k # Depth
        PROVE  FrameRight(stack'[k], at, more, SameDevice, placed', disk'[Dst], ids)
    <3>1. FrameRight(stack[k], at, more, SameDevice, placed', disk'[Dst], ids)
      <4> DEFINE g == stack[k]
      <4>1. /\ FrameRight(g, at, moved, SameDevice, placed, disk[Dst], ids)
            /\ g.node.id \notin more
            /\ \A j \in DOMAIN g.node.ptrs : j > g.i => Child(g.node.id, j) \notin more
        BY <1>6, <1>12, <1>13
      <4>2. moved \subseteq more
        OBVIOUS
      <4> HIDE DEF g, more
      <4>3. FrameRight(g, at, more, SameDevice, placed', disk'[Dst], ids)
        BY <1>15, <4>1, <4>2, FrameStays
      <4>4. QED
        BY <4>3 DEF g
    <3>2. stack'[k] = stack[k]
      BY <1>3, <2>1
    <3>3. QED
      BY <3>1, <3>2
  <2>2. FrameRight(f, at, more, SameDevice, placed', disk'[Dst], ids)
    <3>1. /\ FrameRight(Current, at, moved, SameDevice, placed, disk[Dst], ids)
          /\ n0 \notin more
          /\ \A j \in DOMAIN Current.node.ptrs : j > i0 => Child(n0, j) \notin more
      BY <1>2, <1>6, <1>12, <1>13 DEF n0, i0
    <3>2. Fit(f.node.ptrs[i0], Child(n0, i0), at, SameDevice, placed', disk'[Dst])
      BY <1>4, <1>9 DEF GoodNext
    <3>3. Child(n0, i0) \in more \cup {Hole} /\ moved \subseteq more
      BY <1>9
    <3> HIDE DEF more
    <3>4. QED
      BY <1>2, <1>4, <1>15, <3>1, <3>2, <3>3, FrameAdvances, SMTT(40) DEF n0, i0
  <2>3. \A k \in DOMAIN stack' : FrameRight(stack'[k], at, more, SameDevice, placed', disk'[Dst], ids)
    BY <1>3, <2>1, <2>2
  <2>4. QED
    BY <1>14, <2>3 DEF Framed
<1>17. \A k \in DOMAIN stack : stack'[k].node.id = stack[k].node.id
                               /\ stack'[k].node.kind = stack[k].node.kind
  BY <1>2, <1>3, <1>4 DEF n0
<1>18. Closed(more)'
  <2>1. more \subseteq Names
    BY <1>9
  <2>2. ASSUME NEW n \in more, NEW j \in DOMAIN Tree[n].ptrs
        PROVE  Child(n, j) \in more \cup {Hole}
    <3>1. CASE n \in moved
      BY <1>5, <2>2, <3>1 DEF Closed
    <3>2. CASE n \notin moved
      <4>1. n = c /\ n \in Names /\ Tree[n].kind = "data"
        BY <2>2, <3>2
      <4>2. Tree[n].ptrs = <<>>
        BY <4>1, TreeAssumption
      <4>3. QED
        BY <2>2, <4>2
    <3>3. QED
      BY <3>1, <3>2
  <2>3. ASSUME NEW n \in Names \ more, NEW j \in DOMAIN Tree[n].ptrs, Child(n, j) \in more
        PROVE  \E k \in DOMAIN stack' : stack'[k].node.id = n
    <3>1. CASE Child(n, j) \in moved
      <4>1. \E k \in DOMAIN stack : stack[k].node.id = n
        BY <1>5, <2>3, <3>1 DEF Closed
      <4>2. QED
        BY <1>3, <1>17, <4>1
    <3>2. CASE Child(n, j) \notin moved
      <4>1. Child(n, j) = c /\ c # Hole
        BY <2>3, <3>2
      <4>2. n = n0
        BY <1>10, <2>3, <4>1
      <4>3. QED
        BY <1>2, <1>3, <1>4, <4>2
    <3>3. QED
      BY <3>1, <3>2
  <2>4. QED
    BY <2>1, <2>2, <2>3 DEF Closed
<1>19. Chained'
  <2>1. stack'[1].node.id = Top
    BY <1>2, <1>5, <1>17 DEF Chained
  <2>2. ASSUME NEW k \in DOMAIN stack, k + 1 \in DOMAIN stack
        PROVE  /\ stack'[k].node.kind = "internal" /\ stack'[k].i \in DOMAIN stack'[k].node.ptrs
               /\ stack'[k + 1].node.id = Child(stack'[k].node.id, stack'[k].i)
    <3>1. k # Depth
      BY <1>2, <2>2
    <3>2. stack'[k] = stack[k]
      BY <1>3, <3>1
    <3>3. QED
      BY <1>5, <1>17, <2>2, <3>2 DEF Chained
  <2>3. \A k, m \in DOMAIN stack :
          k < m => height[stack'[m].node.id] < height[stack'[k].node.id]
    BY <1>5, <1>17 DEF Chained
  <2>4. QED
    BY <1>3, <2>1, <2>2, <2>3 DEF Chained
<1>20. ~AtEnd' => Child(f.node.id, f.i) \notin more
  <2>1. SUFFICES ASSUME ~AtEnd'  PROVE Child(n0, i0 + 1) \notin more
    BY <1>4
  <2>2. i0 + 1 \in DOMAIN Current.node.ptrs
    BY <1>2, <1>3, <1>4, <2>1 DEF AtEnd
  <2>3. QED
    BY <1>2, <1>13, <2>2 DEF n0, i0
<1>21. QED
  BY <1>3, <1>16, <1>18, <1>19, <1>20

-----------------------------------------------------------------------------
(* The pointer the visit has come to: the old place of what is next.       *)
LEMMA AtPointer ==
  ASSUME NEW at \in Layouts(Src), NEW moved \in SUBSET Names, Core(at, moved),
         pc \in {"pieces", "children"}, ~AtEnd,
         NEW c, c = Child(Current.node.id, Current.i)
  PROVE  /\ Moving /\ stack \in Seq(Frames) /\ stack # <<>> /\ arg \in Places
         /\ Current.node.id \in Names \ moved /\ Current.i \in DOMAIN Current.node.ptrs
         /\ c \in Names \cup {Hole} /\ c \notin moved
         /\ Pointer = (IF c = Hole THEN 0 ELSE at[c]) /\ Pointer \in Places
         /\ pc = "pieces" /\ c # Hole => Tree[c].kind = "data" /\ Tree[c].ptrs = <<>>
         /\ pc = "pieces" => Current.node.kind = "leaf"
         /\ pc = "children" => /\ Current.node.kind = "internal"
                               /\ c # Hole /\ Tree[c].kind # "data"
<1> DEFINE n == Current.node.id
<1>1. Moving /\ stack \in Seq(Frames) /\ stack # <<>> /\ arg \in Places
  BY DEF Core, Ahead, Moving, Typed, TypeOK, Places
<1>2. /\ Depth \in DOMAIN stack /\ Current = stack[Depth] /\ Current.i \in DOMAIN Current.node.ptrs
      /\ Current.node.ptrs \in Seq(Places) /\ Current.i \in Nat
  BY <1>1, TopIs
<1>3. FrameRight(Current, at, moved, SameDevice, placed, disk[Dst], ids)
  BY <1>1, <1>2 DEF Core, Framed
<1>4. /\ n \in Names \ moved /\ Current.node.kind = Tree[n].kind
      /\ DOMAIN Current.node.ptrs = DOMAIN Tree[n].ptrs
      /\ Current.node.ptrs[Current.i] = Stored(at, n).ptrs[Current.i]
  BY <1>2, <1>3 DEF FrameRight
<1>5. Pointer = (IF c = Hole THEN 0 ELSE at[c])
  BY <1>2, <1>4, StoredIs DEF Pointer
<1>6. c \in Names \cup {Hole}
  BY <1>2, <1>4, ChildIsName
<1>7. c \notin moved
  BY DEF Core, Ahead
<1>8. Pointer \in Places
  BY <1>2 DEF Pointer
<1>9. /\ pc = "pieces" => Current.node.kind = "leaf"
      /\ pc = "children" => Current.node.kind = "internal"
  BY DEF Core, Ahead
<1> HIDE DEF n
<1>10. pc = "pieces" /\ c # Hole => Tree[c].kind = "data"
  BY <1>2, <1>4, <1>9, TreeAssumption DEF n
<1>11. pc = "children" => c # Hole /\ Tree[c].kind # "data"
  BY <1>2, <1>4, <1>9, TreeAssumption DEF n
<1>12. c \in Names /\ Tree[c].kind = "data" => Tree[c].ptrs = <<>>
  BY TreeAssumption
<1>13. QED
  BY <1>1, <1>2, <1>4, <1>5, <1>6, <1>7, <1>8, <1>9, <1>10, <1>11, <1>12 DEF n

(* The visit goes on by one pointer.                                       *)
LEMMA VisitAhead ==
  ASSUME NEW at \in Layouts(Src), NEW more, NEW f, pc' \in {"pieces", "children"},
         state' = "corrupted", stack' # <<>>, Current' = f,
         pc' = "pieces" => f.node.kind = "leaf",
         pc' = "children" => f.node.kind = "internal",
         ~AtEnd' => Child(f.node.id, f.i) \notin more
  PROVE  Ahead(at, more)'
BY DEF Ahead, Child

LEMMA KeepPieceKeeps ==
  ASSUME NEW at \in Layouts(Src), NEW moved \in SUBSET Names, Core(at, moved), KeepPiece
  PROVE  \E more \in SUBSET Names : Core(at, more)'
<1>1. PICK c : c = Child(Current.node.id, Current.i)
  OBVIOUS
<1> DEFINE f == PointTo(Pointer)
           gain == {c} \ {Hole}
<1>2. /\ pc = "pieces" /\ ~AtEnd /\ (Pointer = 0 \/ Stays(Pointer)) /\ SetTop(f)
      /\ UNCHANGED <<caller, disk, super, used, old, len, area, placed>>
      /\ ids' = ids /\ arg' = arg /\ pc' = pc /\ state' = state
  BY DEF KeepPiece, super
<1>3. /\ Moving /\ stack \in Seq(Frames) /\ stack # <<>> /\ arg \in Places
      /\ c \in Names \cup {Hole} /\ c \notin moved
      /\ Pointer = (IF c = Hole THEN 0 ELSE at[c]) /\ Pointer \in Places
      /\ (c # Hole => Tree[c].kind = "data") /\ Current.node.kind = "leaf"
  BY <1>1, <1>2, AtPointer
<1>4. /\ Typed /\ Asked /\ Counted /\ Kept(at) /\ Taken(at, moved) /\ PlacedRight(at)
      /\ caller \in Callers /\ ids \subseteq Names
  BY DEF Core, Typed, TypeOK
<1>5. Moving'
  BY <1>2, <1>3 DEF Moving
<1>6. /\ f \in Frames /\ f.node.kind = "leaf"
  BY <1>2, <1>3, PointedTo
<1>7. stack' \in Seq(Frames)
  BY <1>2, <1>3, <1>6, TopReplaced
<1>8. gain \in SUBSET Names /\ \A n \in gain : SameDevice => Inside(at[n])
  <2>1. c # Hole => c \in Names /\ at[c] # 0
    BY <1>3, <1>4, LaidOut
  <2>2. QED
    BY <1>2, <1>3, <2>1 DEF Stays
<1> HIDE DEF f
<1>9. /\ Typed' /\ Asked' /\ Counted' /\ Kept(at)' /\ Taken(at, moved \cup gain)'
      /\ PlacedRight(at)'
      /\ GoodStays(at)
  <2> HIDE DEF gain
  <2>1. QED
    BY <1>2, <1>3, <1>4, <1>5, <1>7, <1>8, SteadyKeeps
<1>10. GoodNext(at, Pointer, c)
  <2>1. c # Hole => c \in Names /\ at[c] # 0
    BY <1>3, <1>4, LaidOut
  <2>2. Good(at, Pointer, c)
    BY <1>2, <1>3, <2>1 DEF Good, Fit, Stays
  <2>3. QED
    BY <1>9, <2>2 DEF GoodStays
<1>11. f.nr = PointTo(Pointer).nr /\ f.i = PointTo(Pointer).i /\ f.node = PointTo(Pointer).node
  BY DEF f
<1>12. /\ Closed(moved \cup gain)' /\ Framed(at, moved \cup gain)' /\ Chained'
       /\ stack' # <<>> /\ Current' = f
       /\ ~AtEnd' => Child(f.node.id, f.i) \notin moved \cup gain
  <2>1. PICK g, b : g = f /\ b = Pointer
    OBVIOUS
  <2>2. /\ b \in Places /\ GoodNext(at, b, c) /\ g \in Frames /\ SetTop(g)
        /\ g.nr = PointTo(b).nr /\ g.i = PointTo(b).i /\ g.node = PointTo(b).node
    BY <1>2, <1>3, <1>6, <1>10, <1>11, <2>1
  <2>3. c \in moved \cup {Hole} \/ (c \in Names /\ Tree[c].kind = "data")
    BY <1>3
  <2>4. /\ Closed(moved \cup gain)' /\ Framed(at, moved \cup gain)' /\ Chained'
        /\ stack' # <<>> /\ Current' = g
        /\ ~AtEnd' => Child(g.node.id, g.i) \notin moved \cup gain
    <3>1. /\ Moving /\ stack # <<>> /\ ~AtEnd /\ c = Child(Current.node.id, Current.i)
          /\ caller' = caller /\ ids' = ids /\ Moving'
          /\ b \in Places /\ GoodNext(at, b, c) /\ g \in Frames /\ SetTop(g)
          /\ g.nr = PointTo(b).nr /\ g.i = PointTo(b).i /\ g.node = PointTo(b).node
          /\ GoodStays(at)
          /\ c \in moved \cup {Hole} \/ (c \in Names /\ Tree[c].kind = "data")
      BY <1>1, <1>2, <1>3, <1>5, <1>9, <2>2, <2>3
    <3>2. QED
      BY <3>1, Advances
  <2>5. QED
    BY <2>1, <2>4
<1> HIDE DEF gain
<1>13. state = "corrupted"
  BY <1>3, <1>4, Bounds
<1>14. Ahead(at, moved \cup gain)'
  BY <1>2, <1>6, <1>12, <1>13, VisitAhead
<1>15. Core(at, moved \cup gain)'
  BY <1>9, <1>12, <1>14 DEF Core
<1>16. moved \cup gain \in SUBSET Names
  BY <1>8
<1>17. QED
  BY <1>15, <1>16

LEMMA MovePieceKeeps ==
  ASSUME NEW at \in Layouts(Src), NEW moved \in SUBSET Names, Core(at, moved), MovePiece
  PROVE  \E more \in SUBSET Names : Core(at, more)'
<1>1. PICK c : c = Child(Current.node.id, Current.i)
  OBVIOUS
<1> DEFINE f == PointTo(Target(Pointer))
           content == disk[Src][at[c]]
<1>2. /\ pc = "pieces" /\ ~AtEnd /\ Pointer # 0 /\ ~Stays(Pointer) /\ SetTop(f)
      /\ Place(Pointer, disk[Src][Pointer])
      /\ UNCHANGED <<caller, super, old, len, area, ids>>
      /\ caller' = caller /\ ids' = ids /\ arg' = arg /\ pc' = pc /\ state' = state
  BY DEF MovePiece, super
<1>3. /\ Moving /\ stack \in Seq(Frames) /\ stack # <<>> /\ arg \in Places
      /\ c \in Names /\ c # Hole /\ c \notin moved
      /\ Pointer = at[c] /\ Pointer \in Places
      /\ Tree[c].kind = "data" /\ Tree[c].ptrs = <<>> /\ Current.node.kind = "leaf"
  BY <1>1, <1>2, AtPointer
<1>4. /\ Typed /\ Asked /\ Counted /\ Kept(at) /\ Taken(at, moved) /\ PlacedRight(at)
      /\ caller \in Callers
  BY DEF Core, Typed
<1>5. Moving'
  BY <1>2, <1>3 DEF Moving
<1>6. Place(at[c], content) /\ ~Stays(at[c]) /\ f = PointTo(Target(at[c]))
  BY <1>2, <1>3
<1>7. Target(at[c]) \in Places
  <2>1. Vacant(at[c]) # {}
    BY <1>6 DEF Place
  <2>2. Target(at[c]) \in Blocks(Dst)
    BY <1>3, <1>4, <1>6, <2>1, Spot
  <2>3. QED
    BY <1>4, <2>2, SizesAre DEF Blocks, Places
<1>8. /\ f \in Frames /\ f.node.kind = "leaf"
  BY <1>2, <1>3, <1>6, <1>7, PointedTo
<1>9. stack' \in Seq(Frames)
  BY <1>2, <1>3, <1>8, TopReplaced
<1>10. /\ content \in Contents /\ content.id = c /\ content.kind = Tree[c].kind
       /\ DOMAIN content.ptrs = DOMAIN Tree[c].ptrs
  <2>1. content = Stored(at, c)
    BY <1>3, <1>4, Bounds DEF Kept
  <2>2. at[c] \in Blocks(Src) /\ disk[Src] \in [Blocks(Src) -> Contents]
    BY <1>3, <1>4, LaidOut DEF Typed
  <2>3. content \in Contents
    BY <2>2
  <2> HIDE DEF content
  <2>4. QED
    BY <1>3, <2>1, <2>3, StoredIs
<1> HIDE DEF f, content
<1>11. \A j \in DOMAIN content.ptrs : Good(at, content.ptrs[j], Child(c, j))
  BY <1>3, <1>10
<1>12. content.kind = "leaf" => SameDevice \/ c \in ids
  BY <1>3, <1>10
<1>13. /\ Typed' /\ Asked' /\ Counted' /\ Kept(at)' /\ Taken(at, moved \cup {c})'
       /\ PlacedRight(at)'
       /\ GoodStays(at)
       /\ GoodNext(at, Target(at[c]), c)
  BY <1>2, <1>3, <1>4, <1>5, <1>6, <1>9, <1>10, <1>11, <1>12, PlaceKeeps
<1>14. {c} \ {Hole} = {c}
  BY <1>3
<1>15. f.nr = PointTo(Target(at[c])).nr /\ f.i = PointTo(Target(at[c])).i
       /\ f.node = PointTo(Target(at[c])).node
  BY <1>6
<1>16. PICK g, b : g = f /\ b = Target(at[c])
  OBVIOUS
<1>17. /\ b \in Places /\ GoodNext(at, b, c) /\ g \in Frames /\ SetTop(g)
       /\ g.nr = PointTo(b).nr /\ g.i = PointTo(b).i /\ g.node = PointTo(b).node
  BY <1>2, <1>7, <1>8, <1>13, <1>15, <1>16
<1>18. /\ Closed(moved \cup {c})' /\ Framed(at, moved \cup {c})' /\ Chained'
       /\ stack' # <<>> /\ Current' = f
       /\ ~AtEnd' => Child(f.node.id, f.i) \notin moved \cup {c}
  <2>1. c \in moved \cup {Hole} \/ (c \in Names /\ Tree[c].kind = "data")
    BY <1>3
  <2>2. /\ Closed(moved \cup ({c} \ {Hole}))' /\ Framed(at, moved \cup ({c} \ {Hole}))' /\ Chained'
        /\ stack' # <<>> /\ Current' = g
        /\ ~AtEnd' => Child(g.node.id, g.i) \notin moved \cup ({c} \ {Hole})
    <3>1. /\ Moving /\ stack # <<>> /\ ~AtEnd /\ c = Child(Current.node.id, Current.i)
          /\ caller' = caller /\ ids' = ids /\ Moving'
          /\ b \in Places /\ GoodNext(at, b, c) /\ g \in Frames /\ SetTop(g)
          /\ g.nr = PointTo(b).nr /\ g.i = PointTo(b).i /\ g.node = PointTo(b).node
          /\ GoodStays(at)
          /\ c \in moved \cup {Hole} \/ (c \in Names /\ Tree[c].kind = "data")
      BY <1>1, <1>2, <1>3, <1>5, <1>13, <1>17, <2>1
    <3>2. QED
      BY <3>1, Advances
  <2>3. QED
    BY <1>14, <1>16, <2>2
<1>19. state = "corrupted"
  BY <1>3, <1>4, Bounds
<1>20. Ahead(at, moved \cup {c})'
  BY <1>2, <1>8, <1>18, <1>19, VisitAhead
<1>21. Core(at, moved \cup {c})'
  BY <1>13, <1>18, <1>20 DEF Core
<1>22. moved \cup {c} \in SUBSET Names
  BY <1>3
<1>23. QED
  BY <1>21, <1>22

LEMMA PieceFailsKeeps ==
  ASSUME NEW at \in Layouts(Src), NEW moved \in SUBSET Names, Core(at, moved), PieceFails
  PROVE  Core(at, moved)'
<1>1. PICK c : c = Child(Current.node.id, Current.i)
  OBVIOUS
<1>2. /\ pc = "pieces" /\ ~AtEnd /\ Pointer # 0 /\ ~Stays(Pointer) /\ PlaceFails(Pointer)
  BY DEF PieceFails
<1>3. Moving /\ c \in Names /\ c \notin moved /\ Pointer = at[c]
  BY <1>1, <1>2, AtPointer
<1>4. ~Stays(at[c]) /\ PlaceFails(at[c])
  BY <1>2, <1>3
<1>5. QED
  BY <1>3, <1>4, PlaceFailsKeeps

-----------------------------------------------------------------------------
(* The same with no name more that the traversal is through with.          *)
LEMMA SteadyStep ==
  ASSUME NEW at \in Layouts(Src), NEW moved \in SUBSET Names, Typed, Asked, Counted, Moving,
         Kept(at), Taken(at, moved), PlacedRight(at),
         UNCHANGED <<caller, disk, super, used, old, len, area, placed>>,
         ids \subseteq ids', ids' \subseteq Names,
         Moving' \/ pc' = "failed", stack' \in Seq(Frames), arg' \in Places
  PROVE  /\ Typed' /\ Asked' /\ Counted' /\ Kept(at)' /\ Taken(at, moved)'
         /\ PlacedRight(at)' /\ GoodStays(at)
<1>1. PICK none : none = {}
  OBVIOUS
<1>2. none \in SUBSET Names /\ \A n \in none : SameDevice => Inside(at[n])
  BY <1>1
<1>3. /\ Typed' /\ Asked' /\ Counted' /\ Kept(at)' /\ Taken(at, moved \cup none)'
      /\ PlacedRight(at)' /\ GoodStays(at)
  BY <1>2, SteadyKeeps
<1>4. moved \cup none = moved
  BY <1>1
<1>5. QED
  BY <1>3, <1>4

(* A step that leaves nodes, places and pointers of all frames.            *)
LEMMA FramesStay ==
  ASSUME NEW at \in Layouts(Src), NEW moved \in SUBSET Names, Core(at, moved), Moving,
         caller' = caller, ids' = ids, disk' = disk, placed' = placed, Moving',
         stack' \in Seq(Frames), DOMAIN stack' = DOMAIN stack,
         \A k \in DOMAIN stack : /\ stack'[k].nr = stack[k].nr /\ stack'[k].i = stack[k].i
                                 /\ stack'[k].node = stack[k].node
  PROVE  Closed(moved)' /\ Framed(at, moved)' /\ Chained'
<1>1. stack \in Seq(Frames) /\ Closed(moved) /\ Framed(at, moved) /\ Chained
  BY DEF Core, Typed
<1>2. SameDevice' = SameDevice /\ Dst' = Dst
  BY CallerStays
<1>3. Len(stack') = Len(stack)
  BY <1>1
<1>4. Closed(moved)'
  BY <1>1 DEF Closed, Child
<1>5. Framed(at, moved)'
  <2>1. \A k \in DOMAIN stack :
          FrameRight(stack[k], at, moved, SameDevice, placed, disk[Dst], ids)
    BY <1>1 DEF Framed
  <2>2. \A k \in DOMAIN stack :
          FrameRight(stack'[k], at, moved, SameDevice, placed, disk[Dst], ids)
    <3>1. SUFFICES ASSUME NEW k \in DOMAIN stack
                   PROVE  FrameRight(stack'[k], at, moved, SameDevice, placed, disk[Dst], ids)
      OBVIOUS
    <3>2. PICK f, g : f = stack[k] /\ g = stack'[k]
      OBVIOUS
    <3>3. /\ FrameRight(f, at, moved, SameDevice, placed, disk[Dst], ids)
          /\ g.nr = f.nr /\ g.i = f.i /\ g.node = f.node
      BY <2>1, <3>2
    <3>4. FrameRight(g, at, moved, SameDevice, placed, disk[Dst], ids)
      BY <3>3 DEF FrameRight
    <3>5. QED
      BY <3>2, <3>4
  <2>3. \A k \in DOMAIN stack' :
          FrameRight(stack'[k], at, moved, SameDevice', placed', disk'[Dst'], ids')
    BY <1>2, <2>2
  <2>4. QED
    BY <2>3 DEF Framed
<1>6. Chained'
  <2>1. stack # <<>> => 1 \in DOMAIN stack
    BY <1>1
  <2>2. stack' # <<>> => stack # <<>>
    BY <1>1, <1>3
  <2>3. stack' # <<>> => stack'[1].node.id = Top
    BY <1>1, <2>1, <2>2 DEF Chained
  <2>4. \A k \in DOMAIN stack : k + 1 \in DOMAIN stack =>
         /\ stack'[k].node.kind = "internal" /\ stack'[k].i \in DOMAIN stack'[k].node.ptrs
         /\ stack'[k + 1].node.id = Child(stack'[k].node.id, stack'[k].i)
    BY <1>1 DEF Chained
  <2>5. \A k, m \in DOMAIN stack :
          k < m => height[stack'[m].node.id] < height[stack'[k].node.id]
    BY <1>1 DEF Chained
  <2>6. QED
    BY <2>3, <2>4, <2>5 DEF Chained
<1>7. QED
  BY <1>4, <1>5, <1>6

LEMMA PiecesDoneKeeps ==
  ASSUME NEW at \in Layouts(Src), NEW moved \in SUBSET Names, Core(at, moved), PiecesDone
  PROVE  Core(at, moved)'
<1>1. PICK f : f = [Current EXCEPT !.dirty = TRUE]
  OBVIOUS
<1>2. /\ pc = "pieces" /\ AtEnd /\ SetTop(f) /\ pc' = "write"
      /\ UNCHANGED <<caller, disk, super, used, old, len, area, placed>>
      /\ caller' = caller /\ disk' = disk /\ placed' = placed
      /\ ids' = ids /\ arg' = arg /\ state' = state
  BY <1>1 DEF PiecesDone, super
<1>3. /\ Typed /\ Asked /\ Counted /\ Kept(at) /\ Taken(at, moved) /\ PlacedRight(at)
      /\ stack \in Seq(Frames) /\ ids \subseteq Names /\ arg \in Places
  BY DEF Core, Typed, TypeOK, Places
<1>4. Moving /\ Moving' /\ stack # <<>>
  BY <1>2 DEF Moving, Core, Ahead
<1>5. /\ Current \in Frames /\ Current = stack[Depth]
      /\ AtEnd <=> Current.i \notin DOMAIN Current.node.ptrs
  BY <1>3, <1>4, TopIs
<1>6. f \in Frames /\ f.nr = Current.nr /\ f.i = Current.i /\ f.node = Current.node
  BY <1>1, <1>5 DEF Frames
<1>7. /\ stack' \in Seq(Frames) /\ stack' # <<>> /\ DOMAIN stack' = DOMAIN stack
      /\ stack'[Depth] = f /\ Current' = f
      /\ \A k \in DOMAIN stack : k # Depth => stack'[k] = stack[k]
  BY <1>2, <1>3, <1>4, <1>6, TopReplaced
<1>8. \A k \in DOMAIN stack : /\ stack'[k].nr = stack[k].nr /\ stack'[k].i = stack[k].i
                              /\ stack'[k].node = stack[k].node
  BY <1>5, <1>6, <1>7
<1>9. Closed(moved)' /\ Framed(at, moved)' /\ Chained'
  BY <1>2, <1>4, <1>7, <1>8, FramesStay
<1>10. /\ Typed' /\ Asked' /\ Counted' /\ Kept(at)' /\ Taken(at, moved)'
       /\ PlacedRight(at)'
  BY <1>2, <1>3, <1>4, <1>7, SteadyStep
<1>11. AtEnd'
  <2>1. AtEnd' = (f.i > Len(f.node.ptrs))
    BY <1>7 DEF AtEnd
  <2>2. AtEnd = (Current.i > Len(Current.node.ptrs))
    BY DEF AtEnd
  <2>3. QED
    BY <1>2, <1>6, <2>1, <2>2
<1>12. Ahead(at, moved)'
  <2>1. state' = "corrupted"
    BY <1>2, <1>3, <1>4, Bounds
  <2>2. QED
    BY <1>2, <1>7, <1>11, <2>1 DEF Ahead
<1>13. QED
  BY <1>9, <1>10, <1>12 DEF Core

(* The same of a step that leaves the frames alone.                        *)
LEMMA StackStays ==
  ASSUME NEW at \in Layouts(Src), NEW moved \in SUBSET Names, Core(at, moved), Moving, Moving',
         UNCHANGED <<caller, disk, super, ids, used, old, len, area, stack, placed>>,
         arg' \in Places
  PROVE  /\ Typed' /\ Asked' /\ Counted' /\ Kept(at)' /\ Taken(at, moved)' /\ PlacedRight(at)'
         /\ Closed(moved)' /\ Framed(at, moved)' /\ Chained' /\ Current' = Current
         /\ AtEnd' = AtEnd /\ state' = "corrupted"
<1>1. /\ UNCHANGED <<caller, disk, super, used, old, len, area, placed>>
      /\ caller' = caller /\ disk' = disk /\ placed' = placed
      /\ ids' = ids /\ state' = state /\ stack' = stack
  BY DEF super
<1>2. /\ Typed /\ Asked /\ Counted /\ Kept(at) /\ Taken(at, moved) /\ PlacedRight(at)
      /\ stack \in Seq(Frames) /\ ids \subseteq Names
  BY DEF Core, Typed, TypeOK
<1>3. stack' \in Seq(Frames)
  BY <1>1, <1>2, CallerStays
<1>4. /\ Typed' /\ Asked' /\ Counted' /\ Kept(at)' /\ Taken(at, moved)'
      /\ PlacedRight(at)'
  BY <1>1, <1>2, <1>3, SteadyStep
<1>5. Closed(moved)' /\ Framed(at, moved)' /\ Chained'
  BY <1>1, <1>3, FramesStay
<1>6. Current' = Current /\ AtEnd' = AtEnd
  BY <1>1 DEF Current, AtEnd, Depth
<1>7. state' = "corrupted"
  BY <1>1, <1>2, Bounds
<1>8. QED
  BY <1>4, <1>5, <1>6, <1>7

LEMMA ChildrenDoneKeeps ==
  ASSUME NEW at \in Layouts(Src), NEW moved \in SUBSET Names, Core(at, moved), ChildrenDone
  PROVE  Core(at, moved)'
<1>1. /\ pc = "children" /\ AtEnd /\ pc' = "write" /\ stack' = stack
      /\ UNCHANGED <<caller, disk, super, ids, used, old, len, area, stack, placed>>
      /\ arg' = arg
  BY DEF ChildrenDone
<1>2. Moving /\ Moving' /\ stack # <<>> /\ arg \in Places
  BY <1>1 DEF Moving, Core, Ahead, Typed, TypeOK, Places
<1>3. /\ Typed' /\ Asked' /\ Counted' /\ Kept(at)' /\ Taken(at, moved)' /\ PlacedRight(at)'
      /\ Closed(moved)' /\ Framed(at, moved)' /\ Chained' /\ Current' = Current
      /\ AtEnd' = AtEnd /\ state' = "corrupted"
  BY <1>1, <1>2, StackStays
<1>4. Ahead(at, moved)'
  BY <1>1, <1>2, <1>3 DEF Ahead
<1>5. QED
  BY <1>3, <1>4 DEF Core

LEMMA DescendKeeps ==
  ASSUME NEW at \in Layouts(Src), NEW moved \in SUBSET Names, Core(at, moved), Descend
  PROVE  Core(at, moved)'
<1>1. PICK c : c = Child(Current.node.id, Current.i)
  OBVIOUS
<1>2. /\ pc = "children" /\ ~AtEnd /\ pc' = "enter" /\ arg' = Pointer /\ stack' = stack
      /\ UNCHANGED <<caller, disk, super, ids, used, old, len, area, stack, placed>>
  BY DEF Descend
<1>3. /\ Moving /\ stack # <<>> /\ Current.i \in DOMAIN Current.node.ptrs
      /\ c \in Names /\ c \notin moved /\ Pointer = at[c] /\ Pointer \in Places
      /\ Current.node.kind = "internal" /\ Tree[c].kind # "data"
  BY <1>1, <1>2, AtPointer
<1>4. Moving'
  BY <1>2 DEF Moving
<1>5. /\ Typed' /\ Asked' /\ Counted' /\ Kept(at)' /\ Taken(at, moved)' /\ PlacedRight(at)'
      /\ Closed(moved)' /\ Framed(at, moved)' /\ Chained' /\ Current' = Current
      /\ AtEnd' = AtEnd /\ state' = "corrupted"
  BY <1>2, <1>3, <1>4, StackStays
<1>6. Ahead(at, moved)'
  <2>1. c \in Names \ moved /\ arg' = at[c] /\ c = Child(Current.node.id, Current.i)
    BY <1>1, <1>2, <1>3
  <2>2. QED
    BY <1>2, <1>3, <1>5, <2>1 DEF Ahead, Child
<1>7. QED
  BY <1>5, <1>6 DEF Core

LEMMA ReadFailsKeeps ==
  ASSUME NEW at \in Layouts(Src), NEW moved \in SUBSET Names, Core(at, moved), ReadFails
  PROVE  Core(at, moved)'
<1>1. /\ pc \in {"enter", "pieces"} /\ pc' = "failed"
      /\ UNCHANGED <<caller, disk, super, used, old, len, area, placed>>
      /\ caller' = caller /\ stack' = stack /\ ids' = ids /\ arg' = arg
  BY DEF ReadFails
<1>2. /\ Typed /\ Asked /\ Counted /\ Kept(at) /\ Taken(at, moved) /\ PlacedRight(at)
      /\ stack \in Seq(Frames) /\ ids \subseteq Names /\ arg \in Places /\ Moving
  BY <1>1 DEF Core, Typed, TypeOK, Places, Moving
<1>3. Typed' /\ Asked' /\ Counted' /\ Kept(at)' /\ PlacedRight(at)'
  BY <1>1, <1>2, SteadyStep
<1>4. QED
  BY <1>1, <1>3, StopsRight

-----------------------------------------------------------------------------
(* The child has been visited: its new place is stored.                    *)
LEMMA AscendKeeps ==
  ASSUME NEW at \in Layouts(Src), NEW moved \in SUBSET Names, Core(at, moved), Ascend
  PROVE  Core(at, moved)'
<1>1. PICK c, b, f : /\ c = Child(Current.node.id, Current.i) /\ b = arg
                     /\ f = [PointTo(b) EXCEPT !.dirty = TRUE]
  OBVIOUS
<1>2. /\ pc = "return" /\ SetTop(f) /\ pc' = "children"
      /\ UNCHANGED <<caller, disk, super, used, old, len, area, placed>>
      /\ caller' = caller /\ ids' = ids /\ arg' = arg /\ state' = state
  BY <1>1 DEF Ascend, super
<1>3. /\ Typed /\ Asked /\ Counted /\ Kept(at) /\ Taken(at, moved) /\ PlacedRight(at)
      /\ stack \in Seq(Frames) /\ ids \subseteq Names /\ arg \in Places
  BY DEF Core, Typed, TypeOK, Places
<1>4. /\ Moving /\ Moving' /\ stack # <<>> /\ Current.node.kind = "internal"
      /\ Current.i \in DOMAIN Current.node.ptrs /\ c \in moved /\ Good(at, b, c)
  BY <1>1, <1>2 DEF Moving, Core, Ahead
<1>5. ~AtEnd /\ b \in Places
  BY <1>1, <1>3, <1>4, TopIs
<1>6. /\ PointTo(b) \in Frames /\ PointTo(b).node.kind = Current.node.kind
  BY <1>3, <1>4, <1>5, PointedTo
<1>7. /\ f \in Frames /\ f.nr = PointTo(b).nr /\ f.i = PointTo(b).i /\ f.node = PointTo(b).node
      /\ f.node.kind = "internal"
  <2>1. PICK g : g = PointTo(b)
    OBVIOUS
  <2>2. g \in Frames /\ f = [g EXCEPT !.dirty = TRUE]
    BY <1>1, <1>6, <2>1
  <2>3. f \in Frames /\ f.nr = g.nr /\ f.i = g.i /\ f.node = g.node
    BY <2>2 DEF Frames
  <2>4. QED
    BY <1>4, <1>6, <2>1, <2>3
<1>8. stack' \in Seq(Frames) /\ Current' = f /\ stack' # <<>>
  BY <1>2, <1>3, <1>4, <1>7, TopReplaced
<1>9. /\ Typed' /\ Asked' /\ Counted' /\ Kept(at)' /\ Taken(at, moved)' /\ PlacedRight(at)'
      /\ GoodStays(at)
  BY <1>2, <1>3, <1>4, <1>8, SteadyStep
<1>10. GoodNext(at, b, c)
  BY <1>4, <1>9 DEF GoodStays
<1>11. /\ Closed(moved \cup ({c} \ {Hole}))' /\ Framed(at, moved \cup ({c} \ {Hole}))' /\ Chained'
       /\ stack' # <<>> /\ Current' = f
       /\ ~AtEnd' => Child(f.node.id, f.i) \notin moved \cup ({c} \ {Hole})
  <2>1. /\ Moving /\ stack # <<>> /\ ~AtEnd /\ c = Child(Current.node.id, Current.i)
        /\ caller' = caller /\ ids' = ids /\ Moving'
        /\ b \in Places /\ GoodNext(at, b, c) /\ f \in Frames /\ SetTop(f)
        /\ f.nr = PointTo(b).nr /\ f.i = PointTo(b).i /\ f.node = PointTo(b).node
        /\ GoodStays(at)
        /\ c \in moved \cup {Hole} \/ (c \in Names /\ Tree[c].kind = "data")
    BY <1>1, <1>2, <1>4, <1>5, <1>7, <1>9, <1>10
  <2>2. QED
    BY <2>1, Advances
<1>12. moved \cup ({c} \ {Hole}) = moved
  BY <1>4
<1>13. Closed(moved)' /\ Framed(at, moved)' /\ Chained'
       /\ (~AtEnd' => Child(f.node.id, f.i) \notin moved)
  BY <1>11, <1>12
<1>14. state' = "corrupted"
  BY <1>2, <1>3, <1>4, Bounds
<1>15. Ahead(at, moved)'
  BY <1>2, <1>7, <1>8, <1>13, <1>14, VisitAhead
<1>16. QED
  BY <1>9, <1>13, <1>15 DEF Core

-----------------------------------------------------------------------------
(* No frame has the node that is next below the last one.                  *)
LEMMA Lower ==
  ASSUME NEW at \in Layouts(Src), NEW moved \in SUBSET Names, Core(at, moved), Moving,
         stack # <<>>, NEW n \in Names,
         n = Child(Current.node.id, Current.i), Current.i \in DOMAIN Current.node.ptrs
  PROVE  \A k \in DOMAIN stack : height[n] < height[stack[k].node.id]
<1>1. stack \in Seq(Frames) /\ Chained
  BY DEF Core, Typed
<1>2. /\ Depth \in Nat \ {0} /\ DOMAIN stack = 1..Depth /\ Depth \in DOMAIN stack
      /\ Current = stack[Depth]
  BY <1>1, TopIs
<1>3. \A k \in DOMAIN stack :
        stack[k].node.id \in Names
        /\ DOMAIN stack[k].node.ptrs = DOMAIN Tree[stack[k].node.id].ptrs
  BY DEF Core, Framed, FrameRight
<1>4. height[n] < height[Current.node.id]
  <2>1. Current.node.id \in Names /\ Current.i \in DOMAIN Tree[Current.node.id].ptrs
    BY <1>2, <1>3
  <2>2. n # Hole
    BY TreeAssumption
  <2>3. QED
    BY <2>1, <2>2, HeightsFall
<1>5. SUFFICES ASSUME NEW k \in DOMAIN stack  PROVE height[n] < height[stack[k].node.id]
  OBVIOUS
<1>6. CASE k = Depth
  BY <1>2, <1>4, <1>6
<1>7. CASE k # Depth
  <2>1. k < Depth
    BY <1>2, <1>5, <1>7
  <2>2. height[stack[Depth].node.id] < height[stack[k].node.id]
    BY <1>1, <1>2, <2>1 DEF Chained
  <2>3. height[n] \in Int /\ height[stack[Depth].node.id] \in Int /\ height[stack[k].node.id] \in Int
    BY <1>2, <1>3, HeightsFall
  <2>4. QED
    BY <1>2, <1>4, <2>2, <2>3
<1>8. QED
  BY <1>6, <1>7

(* A node is read and put on top of the stack.                             *)
LEMMA EnterKeeps ==
  ASSUME NEW at \in Layouts(Src), NEW moved \in SUBSET Names, Core(at, moved), Enter
  PROVE  Core(at, moved)'
<1>1. /\ Typed /\ Asked /\ Counted /\ Kept(at) /\ Taken(at, moved) /\ PlacedRight(at)
      /\ stack \in Seq(Frames) /\ ids \subseteq Names /\ arg \in Places /\ caller \in Callers
      /\ Framed(at, moved) /\ Chained
  BY DEF Core, Typed, TypeOK, Places
<1>2. PICK f : f = [nr |-> arg, node |-> disk[Src][arg], i |-> 1, dirty |-> FALSE]
  OBVIOUS
<1>3. /\ pc = "enter" /\ f.node.kind \in {"internal", "leaf"} /\ stack' = Append(stack, f)
      /\ pc' = (IF f.node.kind = "leaf" THEN "pieces" ELSE "children")
      /\ ids' = Recorded(f.node)
      /\ UNCHANGED <<caller, disk, super, used, old, len, area, placed>>
      /\ caller' = caller /\ placed' = placed /\ disk' = disk /\ arg' = arg /\ state' = state
  BY <1>2 DEF Enter, super
<1>4. Moving /\ Moving'
  BY <1>3 DEF Moving
<1>5. PICK n \in Names \ moved :
        /\ arg = at[n] /\ Tree[n].kind # "data"
        /\ stack = <<>> => n = Top
        /\ stack # <<>> => /\ Current.node.kind = "internal"
                           /\ Current.i \in DOMAIN Current.node.ptrs
                           /\ n = Child(Current.node.id, Current.i)
  BY <1>3 DEF Core, Ahead
<1>6. /\ f \in Frames /\ f.nr = at[n] /\ f.i = 1 /\ f.node = Stored(at, n)
      /\ f.node.id = n /\ f.node.kind = Tree[n].kind /\ DOMAIN f.node.ptrs = DOMAIN Tree[n].ptrs
      /\ f.node.ptrs \in Seq(Places)
  <2>1. disk[Src][arg] = Stored(at, n)
    BY <1>1, <1>4, <1>5, Bounds DEF Kept
  <2>2. arg \in Blocks(Src) /\ disk[Src] \in [Blocks(Src) -> Contents]
    BY <1>1, <1>5, LaidOut DEF Typed
  <2>3. disk[Src][arg] \in Contents
    BY <2>2
  <2>4. f \in Frames /\ f.nr = arg /\ f.i = 1 /\ f.node = disk[Src][arg]
    BY <1>2, <2>2, <2>3 DEF Frames
  <2>5. f.node.ptrs \in Seq(Places)
    BY <2>3, <2>4 DEF Contents
  <2>6. QED
    BY <1>5, <2>1, <2>4, <2>5, StoredIs
<1>7. /\ ids \subseteq ids' /\ ids' \subseteq Names
      /\ f.node.kind = "leaf" => SameDevice \/ n \in ids'
  BY <1>1, <1>3, <1>5, <1>6 DEF Recorded
<1>8. /\ stack' \in Seq(Frames) /\ stack' # <<>> /\ Len(stack) \in Nat
      /\ Len(stack') = Len(stack) + 1
      /\ DOMAIN stack = 1..Len(stack) /\ DOMAIN stack' = 1..(Len(stack) + 1)
      /\ \A k \in DOMAIN stack : stack'[k] = stack[k]
      /\ stack'[Len(stack) + 1] = f
  BY <1>1, <1>3, <1>6
<1>9. Current' = f
  BY <1>8 DEF Current, Depth
<1>10. /\ Typed' /\ Asked' /\ Counted' /\ Kept(at)' /\ Taken(at, moved)' /\ PlacedRight(at)'
       /\ GoodStays(at)
  BY <1>1, <1>3, <1>4, <1>7, <1>8, SteadyStep
<1>11. \A k \in DOMAIN stack : height[n] < height[stack[k].node.id] /\ stack[k].node.id \in Names
  <2>1. \A k \in DOMAIN stack : stack[k].node.id \in Names
    BY <1>1, <1>4 DEF Framed, FrameRight
  <2>2. CASE stack = <<>>
    BY <2>2
  <2>3. CASE stack # <<>>
    BY <1>4, <1>5, <2>1, <2>3, Lower
  <2>4. QED
    BY <2>2, <2>3
<1>12. \A j \in DOMAIN Tree[n].ptrs : Child(n, j) \notin moved
  <2>1. SUFFICES ASSUME NEW j \in DOMAIN Tree[n].ptrs, Child(n, j) \in moved  PROVE FALSE
    OBVIOUS
  <2>2. PICK k \in DOMAIN stack : stack[k].node.id = n
    BY <1>4, <1>5, <2>1 DEF Core, Closed
  <2>3. height[n] \in Int
    BY <1>5, HeightsFall
  <2>4. QED
    BY <1>11, <2>2, <2>3
<1>13. Closed(moved)'
  <2>1. \A n2 \in Names \ moved : \A j \in DOMAIN Tree[n2].ptrs :
          Child(n2, j) \in moved => \E k \in DOMAIN stack : stack[k].node.id = n2
    BY <1>4 DEF Core, Closed
  <2>2. \A n2 \in Names \ moved : \A j \in DOMAIN Tree[n2].ptrs :
          Child(n2, j) \in moved => \E k \in DOMAIN stack' : stack'[k].node.id = n2
    BY <1>8, <2>1
  <2>3. QED
    BY <1>4, <2>2 DEF Core, Closed, Child
<1>14. Framed(at, moved)'
  <2>1. \A p, x : Fit(p, x, at, SameDevice, placed, disk[Dst])
                    => Fit(p, x, at, SameDevice, placed, disk[Dst])
    OBVIOUS
  <2>2. ASSUME NEW k \in DOMAIN stack
        PROVE  FrameRight(stack'[k], at, moved, SameDevice, placed, disk[Dst], ids')
    <3>1. PICK g : g = stack[k]
      OBVIOUS
    <3>2. FrameRight(g, at, moved, SameDevice, placed, disk[Dst], ids)
      BY <1>1, <1>4, <3>1 DEF Framed
    <3>3. g.node.id \notin moved
          /\ \A j \in DOMAIN g.node.ptrs : j > g.i => Child(g.node.id, j) \notin moved
      BY <3>2 DEF FrameRight
    <3>4. FrameRight(g, at, moved, SameDevice, placed, disk[Dst], ids')
      BY <1>7, <3>2, <3>3 DEF FrameRight
    <3>5. QED
      BY <1>8, <3>1, <3>4
  <2>3. FrameRight(f, at, moved, SameDevice, placed, disk[Dst], ids')
    <3>1. f.i <= Len(f.node.ptrs) + 1 /\ DOMAIN f.node.ptrs \subseteq Nat \ {0}
      BY <1>6
    <3>2. \A j \in DOMAIN f.node.ptrs : ~(j < f.i)
      BY <1>6, <3>1
    <3>3. QED
      BY <1>3, <1>5, <1>6, <1>7, <1>12, <3>1, <3>2 DEF FrameRight
  <2>4. \A k \in DOMAIN stack' :
          FrameRight(stack'[k], at, moved, SameDevice, placed, disk[Dst], ids')
    BY <1>8, <2>2, <2>3
  <2>5. SameDevice' = SameDevice /\ Dst' = Dst
    BY <1>3, CallerStays
  <2>6. \A k \in DOMAIN stack' :
          FrameRight(stack'[k], at, moved, SameDevice', placed', disk'[Dst'], ids')
    BY <1>3, <2>4, <2>5
  <2>7. QED
    BY <2>6 DEF Framed
<1>15. Chained'
  <2>1. stack'[1].node.id = Top
    <3>1. CASE stack = <<>>
      BY <1>5, <1>6, <1>8, <3>1
    <3>2. CASE stack # <<>>
      <4>1. 1 \in DOMAIN stack
        BY <1>1, <3>2
      <4>2. stack[1].node.id = Top
        BY <1>1, <1>4, <3>2 DEF Chained
      <4>3. QED
        BY <1>8, <4>1, <4>2
    <3>3. QED
      BY <3>1, <3>2
  <2>2. ASSUME NEW k \in DOMAIN stack', k + 1 \in DOMAIN stack'
        PROVE  /\ stack'[k].node.kind = "internal" /\ stack'[k].i \in DOMAIN stack'[k].node.ptrs
               /\ stack'[k + 1].node.id = Child(stack'[k].node.id, stack'[k].i)
    <3>1. k \in DOMAIN stack /\ stack'[k] = stack[k]
      BY <1>8, <2>2
    <3>2. CASE k + 1 \in DOMAIN stack
      BY <1>1, <1>4, <1>8, <3>1, <3>2 DEF Chained
    <3>3. CASE k + 1 \notin DOMAIN stack
      <4>1. k = Len(stack) /\ stack # <<>> /\ stack'[k + 1] = f
        BY <1>1, <1>8, <2>2, <3>1, <3>3
      <4>2. Current = stack[k]
        BY <4>1 DEF Current, Depth
      <4>3. QED
        BY <1>5, <1>6, <3>1, <4>1, <4>2
    <3>4. QED
      BY <3>2, <3>3
  <2>3. ASSUME NEW k \in DOMAIN stack', NEW m \in DOMAIN stack', k < m
        PROVE  height[stack'[m].node.id] < height[stack'[k].node.id]
    <3>1. k \in DOMAIN stack /\ stack'[k] = stack[k]
      BY <1>8, <2>3
    <3>2. CASE m \in DOMAIN stack
      BY <1>1, <1>4, <1>8, <2>3, <3>1, <3>2 DEF Chained
    <3>3. CASE m \notin DOMAIN stack
      <4>1. stack'[m] = f
        BY <1>8, <2>3, <3>3
      <4>2. QED
        BY <1>6, <1>11, <3>1, <4>1
    <3>4. QED
      BY <3>2, <3>3
  <2>4. QED
    BY <2>1, <2>2, <2>3 DEF Chained, Child
<1>16. state' = "corrupted"
  BY <1>1, <1>3, <1>4, Bounds
<1>17. ~AtEnd' => Child(f.node.id, f.i) \notin moved
  <2>1. SUFFICES ASSUME ~AtEnd'  PROVE 1 \in DOMAIN Tree[n].ptrs
    BY <1>6, <1>12
  <2>2. ~(1 > Len(f.node.ptrs))
    BY <1>6, <1>9, <2>1 DEF AtEnd
  <2>3. Len(f.node.ptrs) >= 1
    BY <1>6, <2>2
  <2>4. 1 \in DOMAIN f.node.ptrs
    BY <1>6, <2>3
  <2>5. QED
    BY <1>6, <2>4
<1>18. Ahead(at, moved)'
  BY <1>3, <1>8, <1>9, <1>16, <1>17, VisitAhead
<1>19. QED
  BY <1>10, <1>13, <1>14, <1>15, <1>18 DEF Core

-----------------------------------------------------------------------------
(* A node has been written or stays: the traversal is through with it and  *)
(* goes back to the frame below.                                           *)
LEMMA Pops ==
  ASSUME NEW at \in Layouts(Src), NEW moved \in SUBSET Names, Core(at, moved), pc = "write",
         stack' = SubSeq(stack, 1, Depth - 1),
         pc' = (IF Depth = 1 THEN "placed" ELSE "return"),
         NEW c, c = Current.node.id, GoodNext(at, arg', c), GoodStays(at),
         caller' = caller, ids' = ids, state' = "corrupted"
  PROVE  /\ Closed(moved \cup {c})' /\ Framed(at, moved \cup {c})' /\ Chained'
         /\ Ahead(at, moved \cup {c})'
<1> DEFINE more == moved \cup {c}
<1>1. /\ stack \in Seq(Frames) /\ Moving /\ stack # <<>> /\ AtEnd
      /\ Closed(moved) /\ Framed(at, moved) /\ Chained
  BY DEF Core, Typed, Moving, Ahead
<1>2. /\ Depth \in Nat \ {0} /\ DOMAIN stack = 1..Depth /\ Depth \in DOMAIN stack
      /\ Current = stack[Depth] /\ Current.i \notin DOMAIN Current.node.ptrs
      /\ Current.i \in Nat \ {0} /\ Len(Current.node.ptrs) \in Nat
      /\ DOMAIN Current.node.ptrs = 1..Len(Current.node.ptrs)
  BY <1>1, TopIs
<1>3. \A k \in DOMAIN stack :
        FrameRight(stack[k], at, moved, SameDevice, placed, disk[Dst], ids)
  BY <1>1 DEF Framed
<1>4. \A k \in DOMAIN stack :
        /\ stack[k].node.id \in Names \ moved
        /\ DOMAIN stack[k].node.ptrs = DOMAIN Tree[stack[k].node.id].ptrs
        /\ \A j \in DOMAIN stack[k].node.ptrs :
             j > stack[k].i => Child(stack[k].node.id, j) \notin moved
  BY <1>3 DEF FrameRight
<1>5. c \in Names \ moved /\ c = stack[Depth].node.id
  BY <1>2, <1>4
<1>6. \A j \in DOMAIN Tree[c].ptrs : Child(c, j) \in moved \cup {Hole}
  <2>1. \A j \in DOMAIN Current.node.ptrs :
          j < Current.i => Child(c, j) \in moved \cup {Hole}
    BY <1>2, <1>3 DEF FrameRight
  <2>2. \A j \in DOMAIN Current.node.ptrs : j < Current.i
    BY <1>2
  <2>3. QED
    BY <1>2, <1>4, <1>5, <2>1, <2>2
<1>7. \A k \in DOMAIN stack : k # Depth => stack[k].node.id # c
  <2>1. SUFFICES ASSUME NEW k \in DOMAIN stack, k # Depth, stack[k].node.id = c  PROVE FALSE
    OBVIOUS
  <2>2. k < Depth
    BY <1>2, <2>1
  <2>3. height[stack[Depth].node.id] < height[stack[k].node.id]
    BY <1>1, <1>2, <2>2 DEF Chained
  <2>4. height[c] \in Nat
    BY <1>5, HeightsFall
  <2>5. QED
    BY <1>5, <2>1, <2>3, <2>4
<1>8. /\ DOMAIN stack' = 1..(Depth - 1) /\ Len(stack') = Depth - 1
      /\ \A k \in DOMAIN stack' : k \in DOMAIN stack /\ k # Depth /\ stack'[k] = stack[k]
      /\ \A k \in DOMAIN stack : k # Depth => k \in DOMAIN stack'
      /\ stack' \in Seq(Frames)
  BY <1>1, <1>2 DEF Depth
<1>9. Depth = 1 => c = Top
  BY <1>1, <1>2, <1>5 DEF Chained
<1>10. ASSUME Depth # 1
       PROVE  /\ Depth - 1 \in DOMAIN stack' /\ stack' # <<>> /\ Current' = stack[Depth - 1]
              /\ stack[Depth - 1].node.kind = "internal"
              /\ stack[Depth - 1].i \in DOMAIN stack[Depth - 1].node.ptrs
              /\ c = Child(stack[Depth - 1].node.id, stack[Depth - 1].i)
  <2>1. Depth - 1 \in DOMAIN stack' /\ Depth - 1 \in DOMAIN stack /\ (Depth - 1) + 1 = Depth
    BY <1>2, <1>8, <1>10
  <2>2. Current' = stack[Depth - 1]
    <3>1. Current' = stack'[Len(stack')]
      BY DEF Current, Depth
    <3>2. QED
      BY <1>8, <2>1, <3>1
  <2>3. stack' # <<>>
    BY <1>8, <2>1
  <2>4. QED
    BY <1>1, <1>2, <1>5, <2>1, <2>2, <2>3 DEF Chained
<1>11. \A n \in Names : \A j \in DOMAIN Tree[n].ptrs :
         Child(n, j) = c => /\ Depth # 1 /\ n = stack[Depth - 1].node.id
                            /\ j = stack[Depth - 1].i
  <2>1. SUFFICES ASSUME NEW n \in Names, NEW j \in DOMAIN Tree[n].ptrs, Child(n, j) = c
                 PROVE  Depth # 1 /\ n = stack[Depth - 1].node.id /\ j = stack[Depth - 1].i
    OBVIOUS
  <2>2. c # Top
    BY <1>5, <2>1, TreeAssumption
  <2>3. Depth # 1
    BY <1>9, <2>2
  <2>4. PICK m, i : m = stack[Depth - 1].node.id /\ i = stack[Depth - 1].i
    OBVIOUS
  <2>5. m \in Names /\ i \in DOMAIN Tree[m].ptrs /\ Child(m, i) = c
    BY <1>4, <1>8, <1>10, <2>3, <2>4
  <2>6. n = m /\ j = i
    BY <1>5, <2>1, <2>5, TreeAssumption
  <2>7. QED
    BY <2>3, <2>4, <2>6
<1>12. Moving'
  BY DEF Moving
<1>13. Closed(more)'
  <2>1. more \subseteq Names
    BY <1>5
  <2>2. \A n \in more : \A j \in DOMAIN Tree[n].ptrs : Child(n, j) \in more \cup {Hole}
    BY <1>1, <1>6 DEF Closed
  <2>3. ASSUME NEW n \in Names \ more, NEW j \in DOMAIN Tree[n].ptrs, Child(n, j) \in more
        PROVE  \E k \in DOMAIN stack' : stack'[k].node.id = n
    <3>1. CASE Child(n, j) \in moved
      <4>1. PICK k \in DOMAIN stack : stack[k].node.id = n
        BY <1>1, <2>3, <3>1 DEF Closed
      <4>2. k # Depth
        BY <1>5, <2>3, <4>1
      <4>3. QED
        BY <1>8, <4>1, <4>2
    <3>2. CASE Child(n, j) = c
      BY <1>8, <1>10, <1>11, <2>3, <3>2
    <3>3. QED
      BY <2>3, <3>1, <3>2
  <2>4. QED
    BY <2>1, <2>2, <2>3 DEF Closed, Child
<1>14. Framed(at, more)'
  <2>1. SameDevice' = SameDevice /\ Dst' = Dst
    BY CallerStays
  <2>2. \A p, n : Fit(p, n, at, SameDevice, placed, disk[Dst])
                    => Fit(p, n, at, SameDevice, placed', disk'[Dst])
    BY DEF Good, GoodNext, GoodStays
  <2>3. ASSUME NEW k \in DOMAIN stack'
        PROVE  FrameRight(stack'[k], at, more, SameDevice, placed', disk'[Dst], ids)
    <3>1. PICK g : g = stack[k]
      OBVIOUS
    <3>2. k \in DOMAIN stack /\ k # Depth /\ stack'[k] = g
      BY <1>8, <2>3, <3>1
    <3>3. FrameRight(g, at, moved, SameDevice, placed, disk[Dst], ids)
      BY <1>3, <3>1, <3>2
    <3>4. g.node.id \notin more
      BY <1>4, <1>7, <3>1, <3>2
    <3>5. \A j \in DOMAIN g.node.ptrs : j > g.i => Child(g.node.id, j) \notin more
      <4>1. SUFFICES ASSUME NEW j \in DOMAIN g.node.ptrs, j > g.i, Child(g.node.id, j) = c
                     PROVE  FALSE
        BY <1>4, <3>1, <3>2
      <4>2. /\ g.node.id \in Names /\ j \in DOMAIN Tree[g.node.id].ptrs
            /\ g \in Frames
        BY <1>1, <1>4, <3>1, <3>2, <4>1
      <4>3. /\ Depth # 1 /\ g.node.id = stack[Depth - 1].node.id /\ j = stack[Depth - 1].i
        BY <1>11, <4>1, <4>2
      <4>4. k = Depth - 1
        <5>1. SUFFICES ASSUME k # Depth - 1  PROVE FALSE
          OBVIOUS
        <5>2. k < Depth - 1 /\ Depth - 1 \in DOMAIN stack
          BY <1>2, <1>8, <2>3, <3>2, <4>3, <5>1
        <5>3. height[stack[Depth - 1].node.id] < height[stack[k].node.id]
          BY <1>1, <3>2, <5>2 DEF Chained
        <5>4. height[g.node.id] \in Nat
          BY <4>2, HeightsFall
        <5>5. QED
          BY <3>1, <4>3, <5>3, <5>4
      <4>5. g.i \in Nat /\ j = g.i
        BY <3>1, <4>2, <4>3, <4>4 DEF Frames
      <4>6. QED
        BY <4>1, <4>5
    <3>6. moved \subseteq more
      OBVIOUS
    <3> HIDE DEF more
    <3>7. FrameRight(g, at, more, SameDevice, placed', disk'[Dst], ids)
      BY <2>2, <3>3, <3>4, <3>5, <3>6, FrameStays
    <3>8. QED
      BY <3>2, <3>7
  <2>4. \A k \in DOMAIN stack' :
          FrameRight(stack'[k], at, more, SameDevice', placed', disk'[Dst'], ids')
    BY <2>1, <2>3
  <2>5. QED
    BY <2>4 DEF Framed
<1>15. Chained'
  <2>1. ASSUME stack' # <<>>  PROVE stack'[1].node.id = Top
    <3>1. 1 \in DOMAIN stack'
      BY <1>2, <1>8, <2>1
    <3>2. QED
      BY <1>1, <1>8, <3>1 DEF Chained
  <2>2. ASSUME NEW k \in DOMAIN stack', k + 1 \in DOMAIN stack'
        PROVE  /\ stack'[k].node.kind = "internal" /\ stack'[k].i \in DOMAIN stack'[k].node.ptrs
               /\ stack'[k + 1].node.id = Child(stack'[k].node.id, stack'[k].i)
    BY <1>1, <1>8, <2>2 DEF Chained
  <2>3. \A k, m \in DOMAIN stack' :
          k < m => height[stack'[m].node.id] < height[stack'[k].node.id]
    BY <1>1, <1>8 DEF Chained
  <2>4. QED
    BY <2>1, <2>2, <2>3 DEF Chained, Child
<1>16. Ahead(at, more)'
  <2>1. SameDevice' = SameDevice /\ Dst' = Dst
    BY CallerStays
  <2>2. Good(at, arg, c)'
    BY <2>1 DEF Good, GoodNext
  <2>3. CASE Depth = 1
    <3>1. stack' = <<>>
      BY <1>8, <2>3
    <3>2. pc' = "placed" /\ c = Top /\ Top \in more
      BY <1>9, <2>3
    <3>3. Good(at, arg, Top)'
      BY <2>2, <3>2
    <3>4. QED
      BY <3>1, <3>2, <3>3 DEF Ahead
  <2>4. CASE Depth # 1
    <3>1. pc' = "return" /\ stack' # <<>>
      BY <1>10, <2>4
    <3>2. PICK g : g = stack[Depth - 1]
      OBVIOUS
    <3>3. /\ Current' = g /\ g.node.kind = "internal" /\ g.i \in DOMAIN g.node.ptrs
          /\ c = Child(g.node.id, g.i) /\ c \in more
      BY <1>10, <2>4, <3>2
    <3>4. Good(at, arg, Child(Current.node.id, Current.i))'
      <4>1. Child(Current.node.id, Current.i)' = c
        BY <3>3 DEF Child
      <4>2. QED
        BY <2>2, <4>1 DEF Good
    <3>5. QED
      BY <3>1, <3>3, <3>4 DEF Ahead, Child
  <2>5. QED
    BY <2>3, <2>4
<1>17. QED
  BY <1>13, <1>14, <1>15, <1>16

-----------------------------------------------------------------------------
(* The node that is to be written: all its pointers are new ones.          *)
LEMMA AtNode ==
  ASSUME NEW at \in Layouts(Src), NEW moved \in SUBSET Names, Core(at, moved), pc = "write",
         NEW c, c = Current.node.id
  PROVE  /\ Moving /\ stack \in Seq(Frames) /\ stack # <<>>
         /\ c \in Names /\ c \notin moved /\ Current.nr = at[c] /\ at[c] \in Places
         /\ Current.node \in Contents /\ Current.node.kind = Tree[c].kind
         /\ DOMAIN Current.node.ptrs = DOMAIN Tree[c].ptrs
         /\ \A j \in DOMAIN Current.node.ptrs : Good(at, Current.node.ptrs[j], Child(c, j))
         /\ Current.node.kind = "leaf" => SameDevice \/ c \in ids
<1>1. Moving /\ stack \in Seq(Frames) /\ stack # <<>> /\ AtEnd /\ caller \in Callers
  BY DEF Core, Ahead, Moving, Typed
<1>2. /\ Depth \in DOMAIN stack /\ Current = stack[Depth] /\ Current.i \notin DOMAIN Current.node.ptrs
      /\ Current.node \in Contents /\ Current.i \in Nat \ {0} /\ Len(Current.node.ptrs) \in Nat
      /\ DOMAIN Current.node.ptrs = 1..Len(Current.node.ptrs)
  BY <1>1, TopIs
<1>3. FrameRight(Current, at, moved, SameDevice, placed, disk[Dst], ids)
  BY <1>1, <1>2 DEF Core, Framed
<1>4. \A j \in DOMAIN Current.node.ptrs : j < Current.i
  BY <1>2
<1>5. /\ c \in Names \ moved /\ Current.nr = at[c] /\ Current.node.kind = Tree[c].kind
      /\ DOMAIN Current.node.ptrs = DOMAIN Tree[c].ptrs
      /\ \A j \in DOMAIN Current.node.ptrs :
           Fit(Current.node.ptrs[j], Child(c, j), at, SameDevice, placed, disk[Dst])
      /\ Current.node.kind = "leaf" => SameDevice \/ c \in ids
  BY <1>3, <1>4 DEF FrameRight
<1>6. at[c] \in Places
  BY <1>1, <1>5, LaidOut
<1>7. QED
  BY <1>1, <1>2, <1>5, <1>6 DEF Good

(* The stack without its last frame.                                       *)
LEMMA StackPopped ==
  ASSUME stack \in Seq(Frames), stack # <<>>, stack' = SubSeq(stack, 1, Depth - 1)
  PROVE  stack' \in Seq(Frames)
<1>1. Depth \in Nat \ {0} /\ DOMAIN stack = 1..Depth
  BY TopIs
<1>2. \A k \in 1..(Depth - 1) : stack[k] \in Frames
  BY <1>1
<1>3. QED
  BY <1>1, <1>2 DEF Depth

LEMMA KeepNodeKeeps ==
  ASSUME NEW at \in Layouts(Src), NEW moved \in SUBSET Names, Core(at, moved), KeepNode
  PROVE  \E more \in SUBSET Names : Core(at, more)'
<1>1. PICK c : c = Current.node.id
  OBVIOUS
<1>2. /\ pc = "write" /\ Stays(Current.nr) /\ arg' = Current.nr
      /\ stack' = SubSeq(stack, 1, Depth - 1)
      /\ pc' = (IF Depth = 1 THEN "placed" ELSE "return")
      /\ UNCHANGED <<caller, disk, super, used, old, len, area, placed>>
      /\ caller' = caller /\ ids' = ids /\ state' = state
  BY DEF KeepNode, Return, super
<1>3. /\ Moving /\ stack \in Seq(Frames) /\ stack # <<>>
      /\ c \in Names /\ c \notin moved /\ Current.nr = at[c] /\ at[c] \in Places
  BY <1>1, <1>2, AtNode
<1>4. /\ Typed /\ Asked /\ Counted /\ Kept(at) /\ Taken(at, moved) /\ PlacedRight(at)
      /\ ids \subseteq Names
  BY DEF Core, Typed, TypeOK
<1>5. Moving' /\ arg' \in Places /\ arg' = at[c] /\ SameDevice /\ Inside(at[c])
  BY <1>2, <1>3 DEF Moving, Stays
<1>6. stack' \in Seq(Frames)
  BY <1>2, <1>3, StackPopped
<1>7. PICK gain : gain = {c}
  OBVIOUS
<1>8. gain \in SUBSET Names /\ \A n \in gain : SameDevice => Inside(at[n])
  BY <1>3, <1>5, <1>7
<1>9. /\ Typed' /\ Asked' /\ Counted' /\ Kept(at)' /\ Taken(at, moved \cup gain)'
      /\ PlacedRight(at)' /\ GoodStays(at)
  BY <1>2, <1>3, <1>4, <1>5, <1>6, <1>8, SteadyKeeps
<1>10. GoodNext(at, arg', c)
  <2>1. Good(at, at[c], c)
    BY <1>3, <1>5 DEF Good, Fit
  <2>2. GoodNext(at, at[c], c)
    BY <1>9, <2>1 DEF GoodStays
  <2>3. QED
    BY <1>5, <2>2
<1>11. state' = "corrupted"
  BY <1>2, <1>3, <1>4, Bounds
<1>12. /\ Closed(moved \cup {c})' /\ Framed(at, moved \cup {c})' /\ Chained'
       /\ Ahead(at, moved \cup {c})'
  BY <1>1, <1>2, <1>9, <1>10, <1>11, Pops
<1>13. Taken(at, moved \cup {c})'
  BY <1>7, <1>9
<1>14. Core(at, moved \cup {c})'
  BY <1>9, <1>12, <1>13 DEF Core
<1>15. moved \cup {c} \in SUBSET Names
  BY <1>3
<1>16. QED
  BY <1>14, <1>15

LEMMA MoveNodeKeeps ==
  ASSUME NEW at \in Layouts(Src), NEW moved \in SUBSET Names, Core(at, moved), MoveNode
  PROVE  \E more \in SUBSET Names : Core(at, more)'
<1>1. PICK c, content : c = Current.node.id /\ content = Current.node
  OBVIOUS
<1>2. /\ pc = "write" /\ ~Stays(Current.nr) /\ Place(Current.nr, content)
      /\ arg' = Target(Current.nr)
      /\ stack' = SubSeq(stack, 1, Depth - 1)
      /\ pc' = (IF Depth = 1 THEN "placed" ELSE "return")
      /\ UNCHANGED <<caller, super, old, len, area, ids>>
      /\ caller' = caller /\ ids' = ids /\ state' = state
  BY <1>1 DEF MoveNode, Return, super
<1>3. /\ Moving /\ stack \in Seq(Frames) /\ stack # <<>>
      /\ c \in Names /\ c \notin moved /\ Current.nr = at[c] /\ at[c] \in Places
      /\ content \in Contents /\ content.kind = Tree[c].kind /\ content.id = c
      /\ DOMAIN content.ptrs = DOMAIN Tree[c].ptrs
      /\ \A j \in DOMAIN content.ptrs : Good(at, content.ptrs[j], Child(c, j))
      /\ content.kind = "leaf" => SameDevice \/ c \in ids
  BY <1>1, <1>2, AtNode
<1>4. /\ Typed /\ Asked /\ Counted /\ Kept(at) /\ Taken(at, moved) /\ PlacedRight(at)
      /\ caller \in Callers
  BY DEF Core, Typed
<1>5. Moving' /\ Place(at[c], content) /\ ~Stays(at[c]) /\ arg' = Target(at[c])
  BY <1>2, <1>3 DEF Moving
<1>6. arg' \in Places
  <2>1. Vacant(at[c]) # {}
    BY <1>5 DEF Place
  <2>2. Target(at[c]) \in Blocks(Dst)
    BY <1>3, <1>4, <1>5, <2>1, Spot
  <2>3. QED
    BY <1>4, <1>5, <2>2, SizesAre DEF Blocks, Places
<1>7. stack' \in Seq(Frames)
  BY <1>2, <1>3, StackPopped
<1>8. /\ Typed' /\ Asked' /\ Counted' /\ Kept(at)' /\ Taken(at, moved \cup {c})'
      /\ PlacedRight(at)' /\ GoodStays(at)
      /\ GoodNext(at, Target(at[c]), c)
  BY <1>2, <1>3, <1>4, <1>5, <1>6, <1>7, PlaceKeeps
<1>9. GoodNext(at, arg', c)
  BY <1>5, <1>8
<1>10. state' = "corrupted"
  BY <1>2, <1>3, <1>4, Bounds
<1>11. /\ Closed(moved \cup {c})' /\ Framed(at, moved \cup {c})' /\ Chained'
       /\ Ahead(at, moved \cup {c})'
  BY <1>1, <1>2, <1>8, <1>9, <1>10, Pops
<1>12. Core(at, moved \cup {c})'
  BY <1>8, <1>11 DEF Core
<1>13. moved \cup {c} \in SUBSET Names
  BY <1>3
<1>14. QED
  BY <1>12, <1>13

LEMMA NodeFailsKeeps ==
  ASSUME NEW at \in Layouts(Src), NEW moved \in SUBSET Names, Core(at, moved), NodeFails
  PROVE  Core(at, moved)'
<1>1. PICK c : c = Current.node.id
  OBVIOUS
<1>2. pc = "write" /\ ~Stays(Current.nr) /\ PlaceFails(Current.nr)
  BY DEF NodeFails
<1>3. Moving /\ c \in Names /\ c \notin moved /\ Current.nr = at[c]
  BY <1>1, <1>2, AtNode
<1>4. ~Stays(at[c]) /\ PlaceFails(at[c])
  BY <1>2, <1>3
<1>5. QED
  BY <1>3, <1>4, PlaceFailsKeeps

-----------------------------------------------------------------------------
(* The callers.  What is written at the end may fail.                      *)
LEMMA FinishFailsKeeps ==
  ASSUME NEW at \in Layouts(Src), NEW moved \in SUBSET Names, Core(at, moved), FinishFails
  PROVE  Core(at, moved)'
<1>1. /\ pc = "placed" /\ pc' = "failed"
      /\ UNCHANGED <<caller, disk, super, used, old, len, area, placed>>
      /\ stack' = stack /\ ids' = ids /\ arg' = arg
  BY DEF FinishFails
<1>2. /\ Typed /\ Asked /\ Counted /\ Kept(at) /\ Taken(at, moved) /\ PlacedRight(at)
      /\ stack \in Seq(Frames) /\ ids \subseteq Names /\ arg \in Places /\ Moving
  BY <1>1 DEF Core, Typed, TypeOK, Places, Moving
<1>3. Typed' /\ Asked' /\ Counted' /\ Kept(at)' /\ PlacedRight(at)'
  BY <1>1, <1>2, SteadyStep
<1>4. QED
  BY <1>1, <1>3, StopsRight

(* What the device holds when the journal's blocks are zeroed.             *)
LEMMA ZeroedTyped ==
  ASSUME Typed, NEW bs, NEW z, z = Zeroed(bs)
  PROVE  DOMAIN z = {Src, Dst} /\ \A d \in {Src, Dst} : z[d] \in [Blocks(d) -> Contents]
<1>1. Empty \in Contents
  BY DEF Empty, Contents, Kinds
<1>2. DOMAIN disk = {Src, Dst} /\ \A d \in {Src, Dst} : disk[d] \in [Blocks(d) -> Contents]
  BY DEF Typed, TypeOK
<1>3. /\ DOMAIN z = {Src, Dst}
      /\ z[Src] = [b \in Blocks(Src) |-> IF b \in bs THEN Empty ELSE disk[Src][b]]
      /\ Dst # Src => z[Dst] = disk[Dst]
  BY <1>2 DEF Zeroed
<1>4. disk[Src] \in [Blocks(Src) -> Contents] /\ disk[Dst] \in [Blocks(Dst) -> Contents]
  BY <1>2
<1>5. z[Src] \in [Blocks(Src) -> Contents]
  BY <1>1, <1>3, <1>4
<1>6. z[Dst] \in [Blocks(Dst) -> Contents]
  BY <1>3, <1>4, <1>5
<1>7. QED
  BY <1>3, <1>5, <1>6

LEMMA JournalFailsKeeps ==
  ASSUME NEW at \in Layouts(Src), NEW moved \in SUBSET Names, Core(at, moved),
         NEW n \in JournalBlocks, JournalFails(n)
  PROVE  Core(at, moved)'
<1>1. /\ caller = "tune" /\ pc = "placed" /\ pc' = "lost" /\ disk' = Zeroed(Meta[Src]..(n - 1))
      /\ caller' = caller /\ state' = state /\ root' = root /\ free' = free /\ size' = size
      /\ ids' = ids /\ used' = used /\ old' = old /\ len' = len /\ area' = area
      /\ stack' = stack /\ arg' = arg /\ placed' = placed
  BY DEF JournalFails, super
<1>2. Typed /\ Asked /\ Counted /\ Kept(at) /\ PlacedRight(at)
  BY DEF Core
<1>3. /\ SameDevice' = SameDevice /\ Src' = Src /\ Dst' = Dst /\ Size' = Size
      /\ Places' = Places /\ Contents' = Contents /\ Frames' = Frames
      /\ \A d : Blocks(d)' = Blocks(d)
      /\ \A d : Layouts(d)' = Layouts(d)
  BY <1>1, CallerStays
<1>4. DOMAIN disk' = {Src, Dst} /\ \A d \in {Src, Dst} : disk'[d] \in [Blocks(d) -> Contents]
  BY <1>1, <1>2, ZeroedTyped
<1>5. Typed'
  <2>1. TypeOK'
    BY <1>1, <1>2, <1>3, <1>4 DEF Typed, TypeOK
  <2>2. QED
    BY <1>1, <1>2, <1>3, <1>4, <2>1 DEF Typed
<1>6. Asked'
  BY <1>1, <1>2, <1>3 DEF Asked
<1>7. Counted'
  BY <1>1, <1>2, <1>3 DEF Counted
<1>8. Overwritten'
  BY <1>1 DEF Overwritten
<1>9. Kept(at)'
  BY <1>1, <1>2, <1>3, <1>8 DEF Kept
<1>10. PlacedRight(at)'
  <2>1. RoomSuffices'
    BY <1>1, <1>2, <1>3 DEF PlacedRight, RoomSuffices, Inside
  <2>2. QED
    BY <1>1, <1>2, <1>8, <2>1 DEF PlacedRight
<1>11. QED
  BY <1>1, <1>5, <1>6, <1>7, <1>9, <1>10, StopsRight

-----------------------------------------------------------------------------
(* A traversal starts at the root, with nothing placed and no frame.       *)
LEMMA Starts ==
  ASSUME NEW at \in Layouts(Src), NEW moved \in SUBSET Names, Core(at, moved),
         NEW first, NEW last, NEW newLen, Visit(first, last, newLen)
  PROVE  /\ moved = {} /\ Typed /\ Asked /\ Counted /\ Kept(at) /\ Taken(at, {})
         /\ pc = "idle" /\ pc' = "enter" /\ arg' = old /\ state' = "corrupted"
         /\ len' = newLen /\ area' = [first |-> first, last |-> last]
         /\ caller' = caller /\ ids' = ids /\ old' = old /\ stack' = stack /\ placed' = placed
         /\ placed = {} /\ stack = <<>> /\ old \in Blocks(Src) /\ old \in Places
         /\ PlacedRight(at)' /\ Closed({})' /\ Framed(at, {})' /\ Chained' /\ Ahead(at, {})'
<1>1. /\ pc = "idle" /\ pc' = "enter" /\ arg' = old /\ state' = "corrupted"
      /\ len' = newLen /\ area' = [first |-> first, last |-> last]
      /\ caller' = caller /\ ids' = ids /\ old' = old /\ stack' = stack /\ placed' = placed
  BY DEF Visit
<1>2. moved = {} /\ placed = {} /\ stack = <<>>
  BY <1>1 DEF Core, Ahead, Typed
<1>3. Typed /\ Asked /\ Counted /\ Kept(at) /\ Taken(at, {}) /\ caller \in Callers
  BY <1>2 DEF Core, Typed
<1>4. old = at[Top] /\ old \in Blocks(Src) /\ old \in Places
  BY <1>3, TreeAssumption, LaidOut DEF Kept
<1>5. PlacedRight(at)'
  BY <1>1, <1>2 DEF PlacedRight, RoomSuffices
<1>6. Closed({})'
  BY DEF Closed
<1>7. Framed(at, {})' /\ Chained'
  BY <1>1, <1>2 DEF Framed, Chained
<1>8. Ahead(at, {})'
  <2>1. Top \in Names \ {} /\ arg' = at[Top] /\ Tree[Top].kind # "data" /\ stack' = <<>>
    BY <1>1, <1>2, <1>4, TreeAssumption
  <2>2. QED
    BY <1>1, <2>1 DEF Ahead
<1>9. QED
  BY <1>1, <1>2, <1>3, <1>4, <1>5, <1>6, <1>7, <1>8

(* What was taken is taken when the traversal starts.                      *)
LEMMA StartTaken ==
  ASSUME NEW at, Taken(at, {}), pc = "idle", caller' = caller, placed' = placed,
         SameDevice => used' = used
  PROVE  Taken(at, {})'
<1>1. SameDevice' = SameDevice /\ Src' = Src /\ Dst' = Dst /\ Blocks(Dst)' = Blocks(Dst)
  <2>1. Dst' = Dst /\ Size' = Size
    BY CallerStays
  <2>2. QED
    BY <2>1, CallerStays DEF Blocks
<1>2. QED
  BY <1>1 DEF Taken

LEMMA BeginShrinkKeeps ==
  ASSUME NEW at \in Layouts(Src), NEW moved \in SUBSET Names, Core(at, moved),
         NEW n \in Lengths[caller], BeginShrink(n)
  PROVE  Core(at, {})'
<1>1. /\ caller = "shrink" /\ n < size /\ n > Meta[Src] /\ size - n <= free
      /\ Visit(Meta[Src], n, n)
      /\ disk' = disk /\ root' = root /\ free' = free /\ size' = size /\ used' = used
  BY DEF BeginShrink
<1>2. /\ Typed /\ Asked /\ Counted /\ Kept(at) /\ Taken(at, {})
      /\ pc = "idle" /\ pc' = "enter" /\ arg' = old /\ state' = "corrupted"
      /\ len' = n /\ area' = [first |-> Meta[Src], last |-> n]
      /\ caller' = caller /\ ids' = ids /\ old' = old /\ stack' = stack /\ placed' = placed
      /\ placed = {} /\ stack = <<>> /\ old \in Blocks(Src) /\ old \in Places
      /\ PlacedRight(at)' /\ Closed({})' /\ Framed(at, {})' /\ Chained' /\ Ahead(at, {})'
  BY <1>1, Starts
<1>3. /\ SameDevice' = SameDevice /\ Src' = Src /\ Dst' = Dst /\ Size' = Size
      /\ Places' = Places /\ Contents' = Contents /\ Frames' = Frames
      /\ \A d : Blocks(d)' = Blocks(d)
      /\ \A d : Layouts(d)' = Layouts(d)
  BY <1>2, CallerStays
<1>4. SameDevice /\ n \in Nat /\ size = Size[Src]
  <2>1. SameDevice
    BY <1>1 DEF SameDevice
  <2>2. n \in Nat
    BY <1>2, LengthsAssumption DEF Typed
  <2>3. QED
    BY <1>2, <2>1, <2>2 DEF Asked
<1>5. Typed'
  <2>1. TypeOK'
    BY <1>1, <1>2, <1>3 DEF Typed, TypeOK, Places
  <2>2. QED
    BY <1>1, <1>2, <1>3, <2>1 DEF Typed
<1>6. Asked'
  BY <1>1, <1>2, <1>3, <1>4 DEF Asked
<1>7. Counted'
  BY <1>1, <1>2, <1>3, <1>4 DEF Counted
<1>8. Kept(at)'
  BY <1>1, <1>2, <1>3 DEF Kept, Stored, Overwritten
<1>9. Taken(at, {})'
  BY <1>1, <1>2, StartTaken
<1>10. QED
  BY <1>2, <1>5, <1>6, <1>7, <1>8, <1>9 DEF Core

LEMMA BeginTuneKeeps ==
  ASSUME NEW at \in Layouts(Src), NEW moved \in SUBSET Names, Core(at, moved),
         NEW wished \in Lengths[caller], BeginTune(wished)
  PROVE  Core(at, {})'
<1>1. PICK n, first : n = JournalLength(wished) /\ first = Meta[Src] + n + 1
  OBVIOUS
<1>2. /\ caller = "tune" /\ n < free
      /\ Visit(first, size, n)
      /\ disk' = disk /\ root' = root /\ free' = free /\ size' = size /\ used' = used
  BY <1>1 DEF BeginTune
<1>3. /\ Typed /\ Asked /\ Counted /\ Kept(at) /\ Taken(at, {})
      /\ pc = "idle" /\ pc' = "enter" /\ arg' = old /\ state' = "corrupted"
      /\ len' = n /\ area' = [first |-> first, last |-> size]
      /\ caller' = caller /\ ids' = ids /\ old' = old /\ stack' = stack /\ placed' = placed
      /\ placed = {} /\ stack = <<>> /\ old \in Blocks(Src) /\ old \in Places
      /\ PlacedRight(at)' /\ Closed({})' /\ Framed(at, {})' /\ Chained' /\ Ahead(at, {})'
  <2>1. PICK s : s = size
    OBVIOUS
  <2>2. Visit(first, s, n)
    BY <1>2, <2>1
  <2>3. QED
    BY <2>1, <2>2, Starts
<1>4. /\ SameDevice' = SameDevice /\ Src' = Src /\ Dst' = Dst /\ Size' = Size
      /\ Places' = Places /\ Contents' = Contents /\ Frames' = Frames
      /\ \A d : Blocks(d)' = Blocks(d)
      /\ \A d : Layouts(d)' = Layouts(d)
  BY <1>3, CallerStays
<1>5. SameDevice /\ size = Size[Src]
  BY <1>2, <1>3 DEF SameDevice, Asked
<1>6. n \in Nat /\ n + 1 <= free
  <2>1. wished \in Nat /\ MinJournal \in Nat /\ MaxJournal \in Nat
    BY <1>3, LengthsAssumption DEF Typed
  <2>2. size \in Nat /\ free \in Nat
    BY <1>3, SizesAre DEF Typed, TypeOK
  <2>3. n \in Nat
    BY <1>1, <2>1, <2>2 DEF JournalLength
  <2>4. QED
    BY <1>2, <2>2, <2>3
<1>7. Typed'
  <2>1. TypeOK'
    BY <1>2, <1>3, <1>4 DEF Typed, TypeOK, Places
  <2>2. QED
    BY <1>2, <1>3, <1>4, <2>1 DEF Typed
<1>8. Asked'
  BY <1>1, <1>2, <1>3, <1>4, <1>5, <1>6 DEF Asked
<1>9. Counted'
  BY <1>2, <1>3, <1>4, <1>5 DEF Counted
<1>10. Kept(at)'
  BY <1>2, <1>3, <1>4 DEF Kept, Stored, Overwritten
<1>11. Taken(at, {})'
  BY <1>2, <1>3, StartTaken
<1>12. QED
  BY <1>3, <1>7, <1>8, <1>9, <1>10, <1>11 DEF Core

LEMMA BeginCopyKeeps ==
  ASSUME NEW at \in Layouts(Src), NEW moved \in SUBSET Names, Core(at, moved),
         NEW n \in Lengths[caller], BeginCopy(n)
  PROVE  Core(at, {})'
<1>1. PICK first : first = Meta[Dst]
  OBVIOUS
<1>2. /\ caller = "copy" /\ n > first
      /\ Visit(first, n, n)
      /\ disk' = [disk EXCEPT ![Dst][first] = EmptyLeaf]
      /\ root' = first /\ size' = n /\ free' = n - first - 1 /\ used' = 0..(first - 1)
  BY <1>1 DEF BeginCopy
<1>3. /\ Typed /\ Asked /\ Counted /\ Kept(at) /\ Taken(at, {})
      /\ pc = "idle" /\ pc' = "enter" /\ arg' = old /\ state' = "corrupted"
      /\ len' = n /\ area' = [first |-> first, last |-> n]
      /\ caller' = caller /\ ids' = ids /\ old' = old /\ stack' = stack /\ placed' = placed
      /\ placed = {} /\ stack = <<>> /\ old \in Blocks(Src) /\ old \in Places
      /\ PlacedRight(at)' /\ Closed({})' /\ Framed(at, {})' /\ Chained' /\ Ahead(at, {})'
  BY <1>2, Starts
<1>4. /\ SameDevice' = SameDevice /\ Src' = Src /\ Dst' = Dst /\ Size' = Size
      /\ Places' = Places /\ Contents' = Contents /\ Frames' = Frames
      /\ \A d : Blocks(d)' = Blocks(d)
      /\ \A d : Layouts(d)' = Layouts(d)
  BY <1>3, CallerStays
<1>5. ~SameDevice /\ Dst # Src /\ caller \in Callers
  BY <1>2, <1>3, SizesAre DEF SameDevice, Typed
<1>6. first \in Nat /\ first >= 2 /\ n \in Nat /\ n <= Size[Dst] /\ Size[Dst] \in Nat
  <2>1. n \in 0..TargetSize
    BY <1>2, <1>5, LengthsAssumption
  <2>2. Size[Dst] = TargetSize
    BY <1>5 DEF Size, Dst, Src
  <2>3. QED
    BY <1>1, <1>5, <2>1, <2>2, SizesAre
<1>7. first \in Blocks(Dst)
  BY <1>2, <1>6 DEF Blocks
<1>8. /\ DOMAIN disk' = {Src, Dst} /\ disk'[Src] = disk[Src]
      /\ \A d \in {Src, Dst} : disk'[d] \in [Blocks(d) -> Contents]
  <2>1. EmptyLeaf \in Contents
    BY DEF EmptyLeaf, Contents, Kinds
  <2>2. DOMAIN disk = {Src, Dst} /\ \A d \in {Src, Dst} : disk[d] \in [Blocks(d) -> Contents]
    BY <1>3 DEF Typed, TypeOK
  <2>3. DOMAIN disk' = {Src, Dst} /\ disk'[Src] = disk[Src]
        /\ disk'[Dst] = [disk[Dst] EXCEPT ![first] = EmptyLeaf]
    BY <1>2, <1>5, <2>2
  <2>4. disk'[Dst] \in [Blocks(Dst) -> Contents]
    BY <1>7, <2>1, <2>2, <2>3
  <2>5. QED
    BY <2>2, <2>3, <2>4
<1>9. Typed'
  <2>1. size' \in 0..Size[Dst] /\ free' \in 0..size' /\ root' \in Blocks(Dst)
        /\ used' \subseteq 0..(size' - 1)
    BY <1>2, <1>6, <1>7
  <2>2. TypeOK'
    BY <1>2, <1>3, <1>4, <1>8, <2>1 DEF Typed, TypeOK, Places
  <2>3. QED
    BY <1>3, <1>4, <1>8, <2>2 DEF Typed
<1>10. Asked'
  BY <1>1, <1>2, <1>3, <1>4, <1>5 DEF Asked
<1>11. Counted'
  BY <1>3, <1>4, <1>5 DEF Counted
<1>12. Kept(at)'
  BY <1>2, <1>3, <1>4, <1>8 DEF Kept, Stored, Overwritten
<1>13. Taken(at, {})'
  BY <1>3, <1>4, <1>5 DEF Taken
<1>14. QED
  BY <1>3, <1>9, <1>10, <1>11, <1>12, <1>13 DEF Core

-----------------------------------------------------------------------------
(* When the traversal is through with the root it is through with all: the *)
(* highest name it would have left out would be below another one.         *)
LEMMA AllMoved ==
  ASSUME NEW at, NEW moved \in SUBSET Names, Core(at, moved), pc = "placed"
  PROVE  moved = Names
<1>1. stack = <<>> /\ Top \in moved /\ Closed(moved)
  BY DEF Core, Ahead, Moving
<1>2. \A n \in moved : \A j \in DOMAIN Tree[n].ptrs : Child(n, j) \in moved \cup {Hole}
  BY <1>1 DEF Closed
<1>3. SUFFICES ASSUME moved # Names  PROVE FALSE
  OBVIOUS
<1> DEFINE most == Cardinality(Names)
           T == {k \in Nat : \E n \in Names \ moved : k = most - height[n]}
<1>4. most \in Nat /\ \A n \in Names : height[n] \in Nat /\ height[n] < most
  BY HeightsFall
<1> HIDE DEF most
<1>5. T \subseteq Nat /\ T # {}
  <2>1. PICK n \in Names \ moved : TRUE
    BY <1>3
  <2>2. most - height[n] \in Nat
    BY <1>4
  <2>3. QED
    BY <2>1, <2>2
<1>6. PICK k \in T : \A m \in T : k <= m
  <2> HIDE DEF T
  <2>1. QED
    BY <1>5, Least
<1>7. PICK c \in Names \ moved : k = most - height[c]
  OBVIOUS
<1>8. \A n \in Names \ moved : height[n] <= height[c]
  <2>1. SUFFICES ASSUME NEW n \in Names \ moved  PROVE height[n] <= height[c]
    OBVIOUS
  <2>2. most - height[n] \in T
    BY <1>4
  <2>3. k <= most - height[n]
    BY <1>6, <2>2
  <2>4. QED
    BY <1>4, <1>7, <2>3
<1>9. PICK n \in Names : \E j \in DOMAIN Tree[n].ptrs : Child(n, j) = c
  BY <1>1, <1>7, TreeAssumption
<1>10. PICK j \in DOMAIN Tree[n].ptrs : Child(n, j) = c
  BY <1>9
<1>11. c # Hole
  BY <1>7, TreeAssumption
<1>12. height[c] < height[n]
  BY <1>10, <1>11, HeightsFall
<1>13. n \in moved
  BY <1>4, <1>7, <1>8, <1>12
<1>14. QED
  BY <1>2, <1>7, <1>10, <1>11, <1>13

(* Then the bitmap has nothing but the metadata and what is in the area.   *)
LEMMA AllInside ==
  ASSUME NEW at \in Layouts(Src), NEW moved \in SUBSET Names, Core(at, moved), pc = "placed",
         SameDevice
  PROVE  /\ \A b \in used : b \in Nat /\ (b < Meta[Src] \/ Inside(b))
         /\ 0..(Meta[Src] - 1) \subseteq used
<1>1. moved = Names
  BY AllMoved
<1>2. Typed /\ Asked /\ PlacedRight(at) /\ Taken(at, moved) /\ Moving
  BY DEF Core, Moving
<1>3. /\ size \in Nat /\ size = Size[Dst] /\ Dst = Src /\ used \subseteq 0..(size - 1)
      /\ caller \in Callers
  BY <1>2, Bounds
<1>4. /\ \A b \in Blocks(Dst) : b \in used <=>
           b < Meta[Src] \/ b \in placed \/ \E n \in Names : b = at[n] /\ Inside(b)
      /\ \A b \in placed : Inside(b)
  BY <1>1, <1>2 DEF Taken, PlacedRight, RoomSuffices
<1>5. \A b \in used : b \in Nat /\ b \in Blocks(Dst)
  BY <1>3 DEF Blocks
<1>6. \A b \in 0..(Meta[Src] - 1) : b \in Blocks(Dst) /\ b < Meta[Src]
  BY <1>3, SizesAre DEF Blocks
<1>7. QED
  BY <1>4, <1>5, <1>6

(* How many blocks lie in a row.                                           *)
LEMMA InARow ==
  ASSUME NEW first \in Nat, NEW n \in Nat
  PROVE  /\ IsFiniteSet(0..(n - 1)) /\ Cardinality(0..(n - 1)) = n
         /\ IsFiniteSet(first..(first + n)) /\ Cardinality(first..(first + n)) = n + 1
<1>1. IsFiniteSet(0..(n - 1)) /\ Cardinality(0..(n - 1)) = IF 0 > n - 1 THEN 0 ELSE n - 1 - 0 + 1
  BY FS_Interval
<1>2. /\ IsFiniteSet(first..(first + n))
      /\ Cardinality(first..(first + n)) = IF first > first + n THEN 0 ELSE first + n - first + 1
  BY FS_Interval
<1>3. QED
  BY <1>1, <1>2

(* Where an operation is done no more is said of its traversal.            *)
LEMMA DoneRight ==
  ASSUME NEW at, NEW moved, Typed', Asked', Counted', Kept(at)', PlacedRight(at)',
         pc' = "done", caller' = "copy" => Good(at, root, Top)'
  PROVE  Core(at, moved)'
<1>1. ~Moving' /\ pc' # "idle"
  BY DEF Moving
<1>2. Taken(at, moved)' /\ Framed(at, moved)' /\ Chained'
  BY <1>1 DEF Taken, Framed, Chained
<1>3. Ahead(at, moved)'
  BY <1>1 DEF Ahead
<1>4. QED
  BY <1>1, <1>2, <1>3 DEF Core

LEMMA FinishShrinkKeeps ==
  ASSUME NEW at \in Layouts(Src), NEW moved \in SUBSET Names, Core(at, moved), FinishShrink
  PROVE  Core(at, moved)'
<1>1. /\ caller = "shrink" /\ pc = "placed" /\ pc' = "done" /\ state' = "consistent"
      /\ used' = {b \in used : b < len} /\ free' = free - (size - len) /\ size' = len
      /\ disk' = disk /\ root' = root /\ caller' = caller /\ ids' = ids /\ old' = old
      /\ len' = len /\ area' = area /\ stack' = stack /\ arg' = arg /\ placed' = placed
  BY DEF FinishShrink, Finished
<1>2. Typed /\ Asked /\ Counted /\ Kept(at) /\ PlacedRight(at) /\ Moving
  BY <1>1 DEF Core, Moving
<1>3. /\ SameDevice' = SameDevice /\ Src' = Src /\ Dst' = Dst /\ Size' = Size
      /\ Places' = Places /\ Contents' = Contents /\ Frames' = Frames
      /\ \A d : Blocks(d)' = Blocks(d)
      /\ \A d : Layouts(d)' = Layouts(d)
  BY <1>1, CallerStays
<1>4. /\ SameDevice /\ caller # "copy" /\ size = Size[Src] /\ size = Size[Dst] /\ size \in Nat /\ free \in Nat
      /\ free <= size /\ used \subseteq 0..(size - 1)
  BY <1>1, <1>2, Bounds
<1>5. /\ area = [first |-> Meta[Src], last |-> len] /\ area.last = len
      /\ len \in Nat /\ Meta[Src] < len /\ len < size /\ size - len <= free
      /\ Meta[Src] \in Nat
  BY <1>1, <1>2, <1>4, SizesAre DEF Asked, Typed
<1>6. \A b \in used : b \in Nat /\ b < len
  <2>1. \A b \in used : b \in Nat /\ (b < Meta[Src] \/ Inside(b))
    BY <1>1, <1>4, AllInside
  <2>2. \A b \in used : Inside(b) => b < len
    BY <1>5 DEF Inside
  <2>3. QED
    BY <1>5, <2>1, <2>2
<1>7. used' = used /\ used \subseteq 0..(len - 1)
  BY <1>1, <1>5, <1>6
<1>8. free' \in 0..len /\ len \in 0..Size[Dst]
  BY <1>1, <1>4, <1>5
<1>9. Typed'
  <2>1. TypeOK'
    BY <1>1, <1>2, <1>3, <1>7, <1>8 DEF Typed, TypeOK
  <2>2. QED
    BY <1>1, <1>2, <1>3, <2>1 DEF Typed
<1>10. Asked'
  BY <1>1, <1>3, <1>4, <1>5 DEF Asked
<1>11. Counted'
  <2>1. Cardinality(used) = size - free
    BY <1>2, <1>4 DEF Counted
  <2>2. Cardinality(used') = size' - free'
    <3>1. size - free = len - (free - (size - len))
      BY <1>4, <1>5
    <3>2. QED
      BY <1>1, <1>7, <2>1, <3>1
  <2>3. QED
    BY <1>3, <1>4, <2>2 DEF Counted
<1>12. Kept(at)'
  BY <1>1, <1>2, <1>3 DEF Kept, Stored, Overwritten
<1>13. PlacedRight(at)'
  <2>1. RoomSuffices'
    BY <1>1, <1>2, <1>3 DEF PlacedRight, RoomSuffices, Inside
  <2>2. ~Overwritten
    BY <1>1 DEF Overwritten
  <2>3. QED
    BY <1>1, <1>2, <1>3, <1>7, <2>1, <2>2 DEF PlacedRight, Good, Child
<1>14. QED
  BY <1>1, <1>4, <1>9, <1>10, <1>11, <1>12, <1>13, DoneRight

LEMMA FinishCopyKeeps ==
  ASSUME NEW at \in Layouts(Src), NEW moved \in SUBSET Names, Core(at, moved), FinishCopy
  PROVE  Core(at, moved)'
<1>1. /\ caller = "copy" /\ pc = "placed" /\ pc' = "done" /\ state' = "consistent"
      /\ used' = used /\ free' = size - Cardinality(used) /\ size' = size
      /\ disk' = disk /\ root' = arg /\ caller' = caller /\ ids' = ids /\ old' = old
      /\ len' = len /\ area' = area /\ stack' = stack /\ arg' = arg /\ placed' = placed
  BY DEF FinishCopy, Finished
<1>2. /\ Typed /\ Asked /\ Counted /\ Kept(at) /\ PlacedRight(at) /\ Moving
      /\ Good(at, arg, Top)
  BY <1>1 DEF Core, Moving, Ahead
<1>3. /\ SameDevice' = SameDevice /\ Src' = Src /\ Dst' = Dst /\ Size' = Size
      /\ Places' = Places /\ Contents' = Contents /\ Frames' = Frames
      /\ \A d : Blocks(d)' = Blocks(d)
      /\ \A d : Layouts(d)' = Layouts(d)
  BY <1>1, CallerStays
<1>4. /\ ~SameDevice /\ size \in Nat /\ size <= Size[Dst] /\ Size[Dst] \in Nat
      /\ used \subseteq 0..(size - 1) /\ placed \subseteq Blocks(Dst)
  BY <1>1, <1>2, Bounds, SizesAre
<1>5. arg \in placed /\ arg \in Blocks(Dst)
  BY <1>2, <1>4, TreeAssumption DEF Good, Fit
<1>6. size - Cardinality(used) \in 0..size
  <2>1. IsFiniteSet(0..(size - 1)) /\ Cardinality(0..(size - 1)) = size
    BY <1>4, InARow
  <2>2. IsFiniteSet(used) /\ Cardinality(used) <= size /\ Cardinality(used) \in Nat
    BY <1>4, <2>1, FS_Subset, FS_CardinalityType
  <2>3. QED
    BY <1>4, <2>2
<1>7. Typed'
  <2>1. TypeOK'
    BY <1>1, <1>2, <1>3, <1>5, <1>6 DEF Typed, TypeOK
  <2>2. QED
    BY <1>1, <1>2, <1>3, <2>1 DEF Typed
<1>8. Asked'
  BY <1>1, <1>2, <1>3, <1>4 DEF Asked
<1>9. Counted'
  BY <1>1, <1>3, <1>4 DEF Counted
<1>10. Kept(at)'
  BY <1>1, <1>2, <1>3 DEF Kept, Stored, Overwritten
<1>11. PlacedRight(at)'
  <2>1. RoomSuffices'
    BY <1>1, <1>2, <1>3 DEF PlacedRight, RoomSuffices, Inside
  <2>2. ~Overwritten
    BY <1>1 DEF Overwritten
  <2>3. QED
    BY <1>1, <1>2, <1>3, <2>1, <2>2 DEF PlacedRight, Good, Child
<1>12. Good(at, root, Top)'
  BY <1>1, <1>2, <1>3 DEF Good
<1>13. QED
  BY <1>1, <1>7, <1>8, <1>9, <1>10, <1>11, <1>12, DoneRight

LEMMA FinishTuneKeeps ==
  ASSUME NEW at \in Layouts(Src), NEW moved \in SUBSET Names, Core(at, moved), FinishTune
  PROVE  Core(at, moved)'
<1>1. /\ caller = "tune" /\ pc = "placed" /\ pc' = "done" /\ state' = "consistent"
      /\ used' = used \cup JournalBlocks /\ free' = free - (len + 1) /\ size' = size
      /\ disk' = Zeroed(JournalBlocks)
      /\ root' = arg /\ caller' = caller /\ ids' = ids /\ old' = old
      /\ len' = len /\ area' = area /\ stack' = stack /\ arg' = arg /\ placed' = placed
  BY DEF FinishTune, Finished
<1>2. /\ Typed /\ Asked /\ Counted /\ Kept(at) /\ PlacedRight(at) /\ Moving
      /\ Good(at, arg, Top)
  BY <1>1 DEF Core, Moving, Ahead
<1>3. /\ SameDevice' = SameDevice /\ Src' = Src /\ Dst' = Dst /\ Size' = Size
      /\ Places' = Places /\ Contents' = Contents /\ Frames' = Frames
      /\ \A d : Blocks(d)' = Blocks(d)
      /\ \A d : Layouts(d)' = Layouts(d)
  BY <1>1, CallerStays
<1>4. /\ SameDevice /\ size \in Nat /\ size = Size[Src] /\ size = Size[Dst] /\ free \in Nat
      /\ free <= size /\ used \subseteq 0..(size - 1) /\ placed \subseteq Blocks(Dst)
      /\ Dst = Src /\ caller \in Callers /\ caller # "copy"
  BY <1>1, <1>2, Bounds
<1>5. /\ area = [first |-> Meta[Src] + len + 1, last |-> size] /\ area.first = Meta[Src] + len + 1
      /\ len \in Nat /\ len + 1 <= free
      /\ Meta[Src] \in Nat
  BY <1>1, <1>2, <1>4, SizesAre DEF Asked
<1>6. arg \in Blocks(Dst)
  BY <1>2, <1>4, TreeAssumption, LaidOut DEF Good, Fit
<1>7. IsFiniteSet(used) /\ Cardinality(used) = size - free
  BY <1>2, <1>4, ClearAreFree
<1>8. /\ \A b \in used : b \in Nat /\ (b < Meta[Src] \/ Inside(b))
      /\ 0..(Meta[Src] - 1) \subseteq used
  BY <1>1, <1>4, AllInside
<1>9. PICK J : J = JournalBlocks
  OBVIOUS
<1>10. J = Meta[Src]..(Meta[Src] + len)
  BY <1>9 DEF JournalBlocks
<1>11. IsFiniteSet(J) /\ Cardinality(J) = len + 1
  BY <1>5, <1>10, InARow
<1>12. used \cap J = {}
  <2>1. \A b \in used : Inside(b) => b >= Meta[Src] + len + 1
    BY <1>5 DEF Inside
  <2>2. \A b \in J : b \in Nat /\ b >= Meta[Src] /\ ~(b >= Meta[Src] + len + 1)
    BY <1>5, <1>10
  <2>3. QED
    BY <1>5, <1>8, <2>1, <2>2
<1>13. Cardinality(used \cup J) = size - (free - (len + 1))
  <2>1. Cardinality(used \cup J) = Cardinality(used) + Cardinality(J) - Cardinality(used \cap J)
    BY <1>7, <1>11, FS_Union
  <2>2. Cardinality(used \cap J) = 0
    BY <1>12, FS_EmptySet
  <2>3. QED
    BY <1>4, <1>5, <1>7, <1>11, <2>1, <2>2
<1>14. Meta[Src] + len + 1 <= size
  <2>1. IsFiniteSet(0..(Meta[Src] - 1)) /\ Cardinality(0..(Meta[Src] - 1)) = Meta[Src]
    BY <1>5, InARow
  <2>2. Meta[Src] <= size - free
    BY <1>7, <1>8, <2>1, FS_Subset
  <2>3. QED
    BY <1>4, <1>5, <2>2
<1>15. used \cup J \subseteq 0..(size - 1)
  <2>1. \A b \in J : b \in 0..(size - 1)
    BY <1>4, <1>5, <1>10, <1>14
  <2>2. QED
    BY <1>4, <2>1
<1>16. DOMAIN disk' = {Src, Dst} /\ \A d \in {Src, Dst} : disk'[d] \in [Blocks(d) -> Contents]
  BY <1>1, <1>2, ZeroedTyped
<1>17. free - (len + 1) \in 0..size /\ used' = used \cup J
  BY <1>1, <1>4, <1>5, <1>9
<1>18. Typed'
  <2>1. TypeOK'
    BY <1>1, <1>2, <1>3, <1>6, <1>15, <1>16, <1>17 DEF Typed, TypeOK
  <2>2. QED
    BY <1>1, <1>2, <1>3, <1>16, <2>1 DEF Typed
<1>19. Asked'
  BY <1>1, <1>3, <1>4, <1>5 DEF Asked
<1>20. Counted'
  BY <1>1, <1>3, <1>4, <1>13, <1>17 DEF Counted
<1>21. Overwritten'
  BY <1>1 DEF Overwritten
<1>22. Kept(at)'
  BY <1>1, <1>2, <1>3, <1>21 DEF Kept
<1>23. PlacedRight(at)'
  <2>1. RoomSuffices'
    BY <1>1, <1>2, <1>3 DEF PlacedRight, RoomSuffices, Inside
  <2>2. placed' \subseteq used'
    BY <1>1, <1>2 DEF PlacedRight
  <2>3. QED
    BY <1>1, <1>2, <1>21, <2>1, <2>2 DEF PlacedRight
<1>24. QED
  BY <1>1, <1>4, <1>18, <1>19, <1>20, <1>22, <1>23, DoneRight

-----------------------------------------------------------------------------
(* A step that changes nothing.                                            *)
LEMMA StutterKeeps ==
  ASSUME NEW at \in Layouts(Src), NEW moved \in SUBSET Names, Core(at, moved), UNCHANGED vars
  PROVE  Core(at, moved)'
<1>1. /\ caller' = caller /\ state' = state /\ root' = root /\ free' = free /\ size' = size
      /\ ids' = ids /\ used' = used /\ old' = old /\ len' = len /\ area' = area /\ disk' = disk
      /\ stack' = stack /\ arg' = arg /\ placed' = placed /\ pc' = pc
  BY DEF vars, super
<1>2. /\ Typed /\ Asked /\ Counted /\ Kept(at) /\ Taken(at, moved) /\ PlacedRight(at)
      /\ (pc = "idle" \/ Moving => Closed(moved))
      /\ Framed(at, moved) /\ Chained /\ Ahead(at, moved)
  BY DEF Core
<1>3. /\ SameDevice' = SameDevice /\ Src' = Src /\ Dst' = Dst /\ Size' = Size
      /\ Places' = Places /\ Contents' = Contents /\ Frames' = Frames
      /\ \A d : Blocks(d)' = Blocks(d)
      /\ \A d : Layouts(d)' = Layouts(d)
  BY <1>1, CallerStays
<1>4. (Moving' <=> Moving) /\ (Overwritten' <=> Overwritten) /\ (AtEnd' <=> AtEnd)
      /\ Current' = Current
  BY <1>1 DEF Moving, Overwritten, AtEnd, Current, Depth
<1>5. Typed'
  <2>1. TypeOK'
    BY <1>1, <1>2, <1>3 DEF Typed, TypeOK
  <2>2. QED
    BY <1>1, <1>2, <1>3, <2>1 DEF Typed
<1>6. Asked' /\ Counted'
  BY <1>1, <1>2, <1>3 DEF Asked, Counted
<1>7. Kept(at)'
  BY <1>1, <1>2, <1>3, <1>4 DEF Kept, Stored
<1>8. Taken(at, moved)'
  BY <1>1, <1>2, <1>3, <1>4 DEF Taken, Inside
<1>9. PlacedRight(at)'
  <2>1. RoomSuffices'
    BY <1>1, <1>2, <1>3 DEF PlacedRight, RoomSuffices, Inside
  <2>2. QED
    BY <1>1, <1>2, <1>3, <1>4, <2>1 DEF PlacedRight, Good, Child
<1>10. pc' = "idle" \/ Moving' => Closed(moved)'
  BY <1>1, <1>2, <1>4 DEF Closed, Child
<1>11. Framed(at, moved)'
  BY <1>1, <1>2, <1>3, <1>4 DEF Framed
<1>12. Chained'
  BY <1>1, <1>2, <1>4 DEF Chained, Child
<1>13. Ahead(at, moved)'
  BY <1>1, <1>2, <1>3, <1>4 DEF Ahead, Good, Child
<1>14. QED
  BY <1>5, <1>6, <1>7, <1>8, <1>9, <1>10, <1>11, <1>12, <1>13 DEF Core

(* The blocks a layout gives the names are as many as the names.           *)
LEMMA AsMany ==
  ASSUME NEW at, NEW T, at \in [Names -> T],
         \A m, n \in Names : at[m] = at[n] => m = n
  PROVE  /\ IsFiniteSet({at[n] : n \in Names})
         /\ Cardinality({at[n] : n \in Names}) = Cardinality(Names)
<1> DEFINE S == {at[n] : n \in Names}
<1>1. at \in Bijection(Names, S)
  <2>1. at \in [Names -> S]
    OBVIOUS
  <2>2. \A a, b \in Names : at[a] = at[b] => a = b
    OBVIOUS
  <2>3. \A t \in S : \E n \in Names : at[n] = t
    OBVIOUS
  <2>4. QED
    BY <2>1, <2>2, <2>3, Fun_IsBij
<1>2. ExistsBijection(Names, S)
  BY <1>1 DEF ExistsBijection
<1> HIDE DEF S
<1>3. IsFiniteSet(S) /\ Cardinality(S) = Cardinality(Names)
  BY <1>2, TreeAssumption, FS_Bijection
<1>4. QED
  BY <1>3 DEF S

(* A formatted device holds the tree where the layout has put it.          *)
LEMMA FormattedHolds ==
  ASSUME caller \in Callers, NEW at \in Layouts(Src), NEW g, g = Formatted(Src, at)
  PROVE  g \in [Blocks(Src) -> Contents] /\ \A n \in Names : g[at[n]] = Stored(at, n)
<1>1. /\ \A n \in Names : at[n] \in Blocks(Src) /\ at[n] \in Places
      /\ \A m, n \in Names : at[m] = at[n] => m = n
  BY LaidOut
<1>2. Empty \in Contents
  BY DEF Empty, Contents, Kinds
<1>3. ASSUME NEW n \in Names
      PROVE  Stored(at, n) \in Contents
  <2>1. Tree[n].ptrs \in Seq(Names \cup {Hole}) /\ Tree[n].kind \in Kinds
    BY TreeAssumption DEF Kinds
  <2>2. 0 \in Places
    BY SizesAre DEF Places
  <2>3. PICK q : q = [k \in DOMAIN Tree[n].ptrs |->
                        IF Tree[n].ptrs[k] = Hole THEN 0 ELSE at[Tree[n].ptrs[k]]]
    OBVIOUS
  <2>4. DOMAIN Tree[n].ptrs = 1..Len(Tree[n].ptrs) /\ Len(Tree[n].ptrs) \in Nat
    BY <2>1
  <2>5. \A k \in DOMAIN Tree[n].ptrs : q[k] \in Places
    BY <1>1, <2>1, <2>2, <2>3
  <2>6. q \in Seq(Places)
    BY <2>3, <2>4, <2>5, IsASeq
  <2>7. Stored(at, n) = [kind |-> Tree[n].kind, id |-> n, ptrs |-> q]
    BY <2>3 DEF Stored
  <2>8. QED
    BY <2>1, <2>6, <2>7 DEF Contents
<1>4. g = [b \in Blocks(Src) |-> IF \E n \in Names : at[n] = b
                                 THEN Stored(at, CHOOSE n \in Names : at[n] = b)
                                 ELSE Empty]
  BY DEF Formatted
<1>5. \A n \in Names : g[at[n]] = Stored(at, n)
  <2>1. SUFFICES ASSUME NEW n \in Names  PROVE g[at[n]] = Stored(at, n)
    OBVIOUS
  <2>2. (CHOOSE m \in Names : at[m] = at[n]) = n
    BY <1>1
  <2>3. QED
    BY <1>1, <1>4, <2>2
<1>6. \A b \in Blocks(Src) : g[b] \in Contents
  <2>1. SUFFICES ASSUME NEW b \in Blocks(Src)  PROVE g[b] \in Contents
    OBVIOUS
  <2>2. CASE \E n \in Names : at[n] = b
    BY <1>3, <1>5, <2>2
  <2>3. CASE ~\E n \in Names : at[n] = b
    BY <1>2, <1>4, <2>3
  <2>4. QED
    BY <2>2, <2>3
<1>7. QED
  BY <1>4, <1>5, <1>6

LEMMA InitRight ==
  ASSUME Init
  PROVE  \E at \in Layouts(Src) : Core(at, {})
<1>1. caller \in Callers
  BY DEF Init
<1>2. PICK at \in Layouts(Src) :
        /\ disk = [d \in {Src, Dst} |->
                     IF d = Src THEN Formatted(d, at) ELSE [b \in Blocks(d) |-> Empty]]
        /\ old = at[Top]
        /\ IF SameDevice
           THEN /\ state = "consistent" /\ root = old
                /\ size = Size[Src] /\ free = Size[Src] - Meta[Src] - Cardinality(Names)
                /\ used = 0..(Meta[Src] - 1) \cup {at[n] : n \in Names}
           ELSE state = "none" /\ root = 0 /\ size = 0 /\ free = 0 /\ used = {}
  BY DEF Init
<1>3. /\ ids = {} /\ len = 0 /\ area = [first |-> 0, last |-> 0] /\ stack = <<>> /\ pc = "idle"
      /\ arg = 0 /\ placed = {}
  BY DEF Init
<1>4. /\ Size[Src] \in Nat /\ Size[Dst] \in Nat
      /\ Meta[Src] \in Nat /\ 2 <= Meta[Src] /\ Meta[Src] <= Size[Src]
      /\ 2 <= Size[Dst]
      /\ SameDevice => Dst = Src
      /\ ~SameDevice => Dst # Src
  BY <1>1, SizesAre
<1>5. /\ \A n \in Names : at[n] \in Blocks(Src) /\ at[n] \in Nat
                          /\ at[n] >= Meta[Src] /\ at[n] < Size[Src]
      /\ \A m, n \in Names : at[m] = at[n] => m = n
      /\ at \in [Names -> Blocks(Src)]
  BY <1>1, LaidOut
<1>6. PICK g : g = Formatted(Src, at)
  OBVIOUS
<1>7. g \in [Blocks(Src) -> Contents] /\ \A n \in Names : g[at[n]] = Stored(at, n)
  BY <1>1, <1>6, FormattedHolds
<1>8. /\ DOMAIN disk = {Src, Dst} /\ disk[Src] = g
      /\ ~SameDevice => disk[Dst] = [b \in Blocks(Dst) |-> Empty]
  BY <1>2, <1>4, <1>6
<1>9. \A d \in {Src, Dst} : disk[d] \in [Blocks(d) -> Contents]
  <2>1. disk[Src] \in [Blocks(Src) -> Contents]
    BY <1>7, <1>8
  <2>2. Empty \in Contents
    BY DEF Empty, Contents, Kinds
  <2>3. disk[Dst] \in [Blocks(Dst) -> Contents]
    BY <1>4, <1>8, <2>1, <2>2
  <2>4. QED
    BY <2>1, <2>3
<1>10. old \in Blocks(Src)
  BY <1>2, <1>5, TreeAssumption
<1>11. ASSUME SameDevice
       PROVE  /\ used \subseteq 0..(size - 1) /\ Cardinality(used) = size - free
              /\ free \in 0..size /\ size = Size[Dst]
  <2>1. PICK S, M : S = {at[n] : n \in Names} /\ M = 0..(Meta[Src] - 1)
    OBVIOUS
  <2>2. IsFiniteSet(S) /\ Cardinality(S) = Cardinality(Names)
    BY <1>5, <2>1, AsMany
  <2>3. IsFiniteSet(M) /\ Cardinality(M) = Meta[Src]
    BY <1>4, <2>1, InARow
  <2>4. M \cap S = {}
    BY <1>4, <1>5, <2>1
  <2>5. IsFiniteSet(M \cup S) /\ Cardinality(M \cup S) = Meta[Src] + Cardinality(Names)
    <3>1. /\ IsFiniteSet(M \cup S)
          /\ Cardinality(M \cup S) = Cardinality(M) + Cardinality(S) - Cardinality(M \cap S)
      BY <2>2, <2>3, FS_Union
    <3>2. Cardinality(M \cap S) = 0
      BY <2>4, FS_EmptySet
    <3>3. QED
      BY <1>4, <2>2, <2>3, <3>1, <3>2, HeightsFall
  <2>6. used = M \cup S /\ size = Size[Src] /\ free = Size[Src] - Meta[Src] - Cardinality(Names)
    BY <1>2, <1>11, <2>1
  <2>7. used \subseteq 0..(size - 1)
    <3>1. \A b \in M : b \in 0..(size - 1)
      BY <1>4, <2>1, <2>6
    <3>2. \A b \in S : b \in 0..(size - 1)
      BY <1>4, <1>5, <2>1, <2>6
    <3>3. QED
      BY <2>6, <3>1, <3>2
  <2>8. Meta[Src] + Cardinality(Names) <= Size[Src]
    <3>1. IsFiniteSet(0..(size - 1)) /\ Cardinality(0..(size - 1)) = size
      BY <1>4, <2>6, InARow
    <3>2. Cardinality(used) <= size
      BY <2>7, <3>1, FS_Subset
    <3>3. QED
      BY <2>5, <2>6, <3>2
  <2>9. Cardinality(Names) \in Nat
    BY HeightsFall
  <2>10. QED
    BY <1>4, <1>11, <2>5, <2>6, <2>7, <2>8, <2>9
<1>12. /\ size \in 0..Size[Dst] /\ free \in 0..size /\ root \in Blocks(Dst)
       /\ used \subseteq 0..(size - 1) /\ state \in {"none", "consistent"}
       /\ SameDevice => size = Size[Src]
  <2>1. CASE SameDevice
    BY <1>2, <1>4, <1>10, <1>11, <2>1
  <2>2. CASE ~SameDevice
    BY <1>2, <1>4, <2>2 DEF Blocks
  <2>3. QED
    BY <2>1, <2>2
<1>13. Typed
  <2>1. TypeOK
    BY <1>3, <1>4, <1>8, <1>10, <1>12 DEF TypeOK
  <2>2. QED
    BY <1>1, <1>3, <1>9, <2>1 DEF Typed
<1>14. Asked
  BY <1>3, <1>12 DEF Asked
<1>15. Counted
  BY <1>2, <1>11 DEF Counted
<1>16. Kept(at)
  BY <1>2, <1>7, <1>8 DEF Kept
<1>17. Taken(at, {})
  <2>1. SUFFICES ASSUME SameDevice, NEW b \in Blocks(Dst)
                 PROVE  b \in used <=> b < Meta[Src] \/ \E n \in Names : b = at[n]
    BY <1>3 DEF Taken
  <2>2. used = 0..(Meta[Src] - 1) \cup {at[n] : n \in Names}
    BY <1>2, <2>1
  <2>3. b \in Nat
    BY <1>4 DEF Blocks
  <2>4. QED
    BY <1>4, <2>2, <2>3
<1>18. PlacedRight(at)
  BY <1>3 DEF PlacedRight, RoomSuffices
<1>19. Closed({})
  BY DEF Closed
<1>20. Framed(at, {}) /\ Chained
  BY <1>3 DEF Framed, Chained
<1>21. Ahead(at, {})
  BY <1>2, <1>3 DEF Ahead, SameDevice
<1>22. QED
  BY <1>13, <1>14, <1>15, <1>16, <1>17, <1>18, <1>19, <1>20, <1>21 DEF Core

-----------------------------------------------------------------------------
(* Whatever the callers, the traversal and the devices do.                 *)
LEMMA NextKeeps ==
  ASSUME NEW at \in Layouts(Src), NEW moved \in SUBSET Names, Core(at, moved), [Next]_vars
  PROVE  \E more \in SUBSET Names : Core(at, more)'
<1>1. ASSUME Core(at, moved)'  PROVE \E more \in SUBSET Names : Core(at, more)'
  BY <1>1
<1>2. ASSUME Core(at, {})'  PROVE \E more \in SUBSET Names : Core(at, more)'
  <2>1. PICK none : none = {}
    OBVIOUS
  <2>2. none \in SUBSET Names /\ Core(at, none)'
    BY <1>2, <2>1
  <2>3. QED
    BY <2>2
<1>3. CASE Begin
  <2>1. PICK n \in Lengths[caller] : BeginShrink(n) \/ BeginCopy(n) \/ BeginTune(n)
    BY <1>3 DEF Begin
  <2>2. QED
    BY <1>2, <2>1, BeginShrinkKeeps, BeginCopyKeeps, BeginTuneKeeps
<1>4. CASE Step
  <2>1. CASE Enter
    BY <1>1, <2>1, EnterKeeps
  <2>2. CASE KeepPiece
    BY <2>2, KeepPieceKeeps
  <2>3. CASE MovePiece
    BY <2>3, MovePieceKeeps
  <2>4. CASE PieceFails
    BY <1>1, <2>4, PieceFailsKeeps
  <2>5. CASE PiecesDone
    BY <1>1, <2>5, PiecesDoneKeeps
  <2>6. CASE Descend
    BY <1>1, <2>6, DescendKeeps
  <2>7. CASE Ascend
    BY <1>1, <2>7, AscendKeeps
  <2>8. CASE ChildrenDone
    BY <1>1, <2>8, ChildrenDoneKeeps
  <2>9. CASE KeepNode
    BY <2>9, KeepNodeKeeps
  <2>10. CASE MoveNode
    BY <2>10, MoveNodeKeeps
  <2>11. CASE NodeFails
    BY <1>1, <2>11, NodeFailsKeeps
  <2>12. CASE ReadFails
    BY <1>1, <2>12, ReadFailsKeeps
  <2>13. CASE FinishShrink
    BY <1>1, <2>13, FinishShrinkKeeps
  <2>14. CASE FinishCopy
    BY <1>1, <2>14, FinishCopyKeeps
  <2>15. CASE FinishTune
    BY <1>1, <2>15, FinishTuneKeeps
  <2>16. CASE FinishFails
    BY <1>1, <2>16, FinishFailsKeeps
  <2>17. CASE \E n \in JournalBlocks : JournalFails(n)
    BY <1>1, <2>17, JournalFailsKeeps
  <2>18. QED
    BY <1>4, <2>1, <2>2, <2>3, <2>4, <2>5, <2>6, <2>7, <2>8, <2>9, <2>10, <2>11, <2>12,
       <2>13, <2>14, <2>15, <2>16, <2>17 DEF Step
<1>5. CASE UNCHANGED vars
  BY <1>1, <1>5, StutterKeeps
<1>6. QED
  BY <1>3, <1>4, <1>5 DEF Next

LEMMA CallerSame ==
  ASSUME [Next]_vars
  PROVE  caller' = caller
BY DEF Next, Begin, Step, BeginShrink, BeginCopy, BeginTune, Visit, Enter, KeepPiece, MovePiece,
       PieceFails, PlaceFails, PiecesDone, Descend, Ascend, ChildrenDone, KeepNode, MoveNode,
       Return, NodeFails, ReadFails, Finished, FinishShrink, FinishCopy, FinishTune, FinishFails,
       JournalFails, vars

(* The inductive invariant holds in every reachable state.                 *)
THEOREM Sound == Spec => []IInv
<1>1. Init => IInv
  <2>1. SUFFICES ASSUME Init  PROVE IInv
    OBVIOUS
  <2>2. PICK none : none = {}
    OBVIOUS
  <2>3. PICK at \in Layouts(Src) : Core(at, none)
    BY <2>1, <2>2, InitRight
  <2>4. none \in SUBSET Names
    BY <2>2
  <2>5. QED
    BY <2>3, <2>4 DEF IInv
<1>2. IInv /\ [Next]_vars => IInv'
  <2>1. SUFFICES ASSUME IInv, [Next]_vars  PROVE IInv'
    OBVIOUS
  <2>2. PICK at \in Layouts(Src), moved \in SUBSET Names : Core(at, moved)
    BY <2>1 DEF IInv
  <2>3. PICK more \in SUBSET Names : Core(at, more)'
    BY <2>1, <2>2, NextKeeps
  <2>4. at \in Layouts(Src)'
    BY <2>1, CallerSame, CallerStays
  <2>5. QED
    BY <2>3, <2>4 DEF IInv
<1>3. QED
  BY <1>1, <1>2, PTL DEF Spec

LEMMA SoundImplies ==
  ASSUME IInv
  PROVE  Inv /\ OldTreeKept /\ PlacedIsWhole /\ CopyIsWhole
<1>1. PICK at \in Layouts(Src), moved \in SUBSET Names : Core(at, moved)
  BY DEF IInv
<1>2. QED
  BY <1>1, PropertiesFollow

(* The room the callers check for suffices, nothing is placed outside the  *)
(* area, and a filesystem marked consistent has the count of free blocks   *)
(* of its bitmap (core.c:145-167, 204-206, 1155-1161, 1186-1188).          *)
THEOREM InvHolds == Spec => []Inv
<1>1. IInv => Inv
  BY SoundImplies
<1>2. QED
  BY <1>1, Sound, PTL

(* Until the caller has finished the tree that is moved reads whole from   *)
(* its old root, whatever fails and wherever it stops (segment.c:55-81).   *)
THEOREM OldTreeKeptHolds == Spec => []OldTreeKept
<1>1. IInv => OldTreeKept
  BY SoundImplies
<1>2. QED
  BY <1>1, Sound, PTL

(* Every block the relocation has written leads to the whole subtree of    *)
(* its node (tree.c:390-406, segment.c:113-117).                           *)
THEOREM PlacedIsWholeHolds == Spec => []PlacedIsWhole
<1>1. IInv => PlacedIsWhole
  BY SoundImplies
<1>2. QED
  BY <1>1, Sound, PTL

(* A copy that is marked consistent has the whole tree below the root its  *)
(* super block names (core.c:1673-1680).                                   *)
THEOREM CopyIsWholeHolds == Spec => []CopyIsWhole
<1>1. IInv => CopyIsWhole
  BY SoundImplies
<1>2. QED
  BY <1>1, Sound, PTL
=============================================================================
