------------------------------ MODULE ReadProofs ------------------------------
(***************************************************************************)
(* Proofs about TreeLookup, ObjectRead and NameLookup for trees, objects,  *)
(* filesystems, names and nestings of every size: what the binary search   *)
(* and the descent find, where seeks come to, what a file's first read and *)
(* a directory's listing return, and what a name is resolved to.           *)
(***************************************************************************)
EXTENDS ObjectRead, NameLookup, TLAPS, FiniteSetTheorems, WellFoundedInduction

-----------------------------------------------------------------------------
(* A set of natural numbers that is not empty has a least element.         *)
LEMMA LeastExists ==
  ASSUME NEW T, T \subseteq Nat, T # {}
  PROVE  \E m \in T : \A n \in T : m <= n
<1> DEFINE U == {0..n : n \in T}
<1>1. U \subseteq FiniteSubsetsOf(Nat) /\ U # {}
  <2>1. \A n \in T : IsFiniteSet(0..n)
    BY FS_Interval
  <2>2. \A n \in T : 0..n \in SUBSET Nat
    OBVIOUS
  <2>3. QED
    BY <2>1, <2>2 DEF FiniteSubsetsOf
<1>2. PICK u \in U : \A v \in U : <<v, u>> \notin StrictSubsetOrdering(Nat)
  BY <1>1, FS_StrictSubsetOrderingWellFounded, WFMin
<1>3. PICK m \in T : u = 0..m
  OBVIOUS
<1>4. ASSUME NEW n \in T, n < m  PROVE FALSE
  <2>1. 0..n \subseteq 0..m /\ m \in 0..m /\ m \notin 0..n
    BY <1>4
  <2>2. <<0..n, 0..m>> \in StrictSubsetOrdering(Nat)
    BY <2>1 DEF StrictSubsetOrdering
  <2>3. QED
    BY <1>2, <1>3, <2>2
<1>5. QED
  BY <1>4

-----------------------------------------------------------------------------
(* The nodes on a way down, as the function NodeAt is defined by.          *)
Nodes(tr, way, n) ==
  CHOOSE g : g = [d \in 1..n |-> IF d = 1 THEN tr.root ELSE g[d - 1].children[way[d - 1] + 1]]

(* There is such a function, by the least length there would be none of.   *)
LEMMA NodesExist ==
  ASSUME NEW tr, NEW way, NEW n \in Nat
  PROVE  Nodes(tr, way, n) =
           [d \in 1..n |-> IF d = 1 THEN tr.root
                           ELSE Nodes(tr, way, n)[d - 1].children[way[d - 1] + 1]]
<1> DEFINE Body(g, d) == IF d = 1 THEN tr.root ELSE g[d - 1].children[way[d - 1] + 1]
           Bad == {k \in Nat : ~\E g : g = [d \in 1..k |-> Body(g, d)]}
<1>1. Bad = {}
  <2>1. SUFFICES ASSUME Bad # {}  PROVE FALSE
    OBVIOUS
  <2>2. PICK k \in Bad : \A m \in Bad : k <= m
    BY <2>1, LeastExists
  <2>3. CASE k = 0
    <3> DEFINE g == [d \in 1..0 |-> 0]
    <3>1. g = [d \in 1..0 |-> Body(g, d)]
      OBVIOUS
    <3>2. QED
      BY <2>2, <2>3, <3>1
  <2>4. CASE k # 0
    <3>1. k - 1 \in Nat /\ k - 1 \notin Bad
      <4>1. k \in Nat /\ k - 1 \in Nat /\ ~(k <= k - 1)
        BY <2>2, <2>4
      <4> HIDE DEF Bad
      <4>2. QED
        BY <2>2, <4>1
    <3>2. PICK g : g = [d \in 1..(k - 1) |-> Body(g, d)]
      BY <3>1
    <3> DEFINE h == [d \in 1..k |-> Body(g, d)]
    <3>3. \A d \in 1..(k - 1) : h[d] = g[d]
      <4>1. \A d \in 1..(k - 1) : g[d] = Body(g, d)
        BY <3>2
      <4>2. \A d \in 1..(k - 1) : d \in 1..k
        BY <3>1
      <4> HIDE DEF Body
      <4>3. QED
        BY <4>1, <4>2
    <3>4. \A d \in 1..k : Body(h, d) = Body(g, d)
      <4> SUFFICES ASSUME NEW d \in 1..k  PROVE Body(h, d) = Body(g, d)
        OBVIOUS
      <4>1. d = 1 \/ d - 1 \in 1..(k - 1)
        OBVIOUS
      <4> HIDE DEF h
      <4>2. QED
        BY <4>1, <3>3
    <3>5. h = [d \in 1..k |-> Body(h, d)]
      BY <3>4, ZenonT(40)
    <3> HIDE DEF h
    <3>6. QED
      BY <2>2, <3>5
  <2>5. QED
    BY <2>3, <2>4
<1>2. \E g : g = [d \in 1..n |-> Body(g, d)]
  BY <1>1
<1>3. QED
  BY <1>2 DEF Nodes

(* What NodeAt is, step by step.                                           *)
LEMMA NodesAre ==
  ASSUME NEW tr, NEW way, NEW n \in Nat
  PROVE  \A d \in 1..n : Nodes(tr, way, n)[d] =
           IF d = 1 THEN tr.root ELSE Nodes(tr, way, n)[d - 1].children[way[d - 1] + 1]
<1> DEFINE g == Nodes(tr, way, n)
<1>1. g = [d \in 1..n |-> IF d = 1 THEN tr.root ELSE g[d - 1].children[way[d - 1] + 1]]
  BY NodesExist
<1> HIDE DEF g
<1>2. \A d \in 1..n : g[d] = IF d = 1 THEN tr.root ELSE g[d - 1].children[way[d - 1] + 1]
  BY <1>1
<1>3. QED
  BY <1>2 DEF g

(* Two ways with the same beginning lead to the same nodes.                *)
LEMMA NodesAgree ==
  ASSUME NEW tr, NEW way, NEW other, NEW n \in Nat, NEW m \in Nat, n <= m,
         \A d \in 1..(n - 1) : way[d] = other[d]
  PROVE  \A d \in 1..n : Nodes(tr, way, n)[d] = Nodes(tr, other, m)[d]
<1> DEFINE g == Nodes(tr, way, n)
           h == Nodes(tr, other, m)
           Bad == {d \in 1..n : g[d] # h[d]}
<1>1. \A d \in 1..n : g[d] = IF d = 1 THEN tr.root ELSE g[d - 1].children[way[d - 1] + 1]
  BY NodesAre
<1>2. \A d \in 1..m : h[d] = IF d = 1 THEN tr.root ELSE h[d - 1].children[other[d - 1] + 1]
  BY NodesAre
<1> HIDE DEF g, h
<1>3. Bad = {}
  <2>1. SUFFICES ASSUME Bad # {}  PROVE FALSE
    OBVIOUS
  <2>2. PICK k \in Bad : \A d \in Bad : k <= d
    <3>1. Bad \subseteq Nat
      OBVIOUS
    <3>2. QED
      BY <2>1, <3>1, LeastExists
  <2>3. k \in 1..n /\ k \in 1..m
    BY <2>2
  <2>4. CASE k = 1
    BY <1>1, <1>2, <2>2, <2>3, <2>4
  <2>5. CASE k # 1
    <3>1. k - 1 \in 1..(n - 1) /\ k - 1 \in 1..n
      BY <2>3, <2>5
    <3>2. g[k - 1] = h[k - 1]
      BY <2>2, <3>1
    <3>3. way[k - 1] = other[k - 1]
      BY <3>1
    <3>4. g[k] = g[k - 1].children[way[k - 1] + 1] /\ h[k] = h[k - 1].children[other[k - 1] + 1]
      BY <1>1, <1>2, <2>3, <2>5
    <3>5. QED
      BY <2>2, <3>2, <3>3, <3>4
  <2>6. QED
    BY <2>4, <2>5
<1>4. QED
  BY <1>3 DEF g, h

(* The node a way leads to depends on the positions above it alone, and it *)
(* is the child of the one above at the way's position.                    *)
LEMMA NodeAtIs ==
  ASSUME NEW tr, NEW way, NEW n \in Nat \ {0}
  PROVE  /\ NodeAt(tr, way, 1) = tr.root
         /\ NodeAt(tr, way, n + 1) = NodeAt(tr, way, n).children[way[n] + 1]
<1>1. \A d : NodeAt(tr, way, d) = Nodes(tr, way, d)[d]
  BY DEF NodeAt, Nodes
<1>2. Nodes(tr, way, 1)[1] = tr.root
  BY NodesAre
<1>3. Nodes(tr, way, n + 1)[n + 1] = Nodes(tr, way, n + 1)[n].children[way[n] + 1]
  BY NodesAre
<1>4. Nodes(tr, way, n)[n] = Nodes(tr, way, n + 1)[n]
  BY NodesAgree
<1>5. QED
  BY <1>1, <1>2, <1>3, <1>4

(* Two ways that agree so far come to the same node.                       *)
LEMMA NodeAtAgree ==
  ASSUME NEW tr, NEW way, NEW other, NEW n \in Nat \ {0},
         \A d \in 1..(n - 1) : way[d] = other[d]
  PROVE  NodeAt(tr, way, n) = NodeAt(tr, other, n)
<1>1. \A d : NodeAt(tr, way, d) = Nodes(tr, way, d)[d]
  BY DEF NodeAt, Nodes
<1>2. \A d : NodeAt(tr, other, d) = Nodes(tr, other, d)[d]
  BY DEF NodeAt, Nodes
<1>3. \A d \in 1..n : Nodes(tr, way, n)[d] = Nodes(tr, other, n)[d]
  BY NodesAgree
<1>4. QED
  BY <1>1, <1>2, <1>3

-----------------------------------------------------------------------------
(* The paths of a lookup, as the function PathTo is defined by.            *)
Further(tr, key, n, ups) == {PathInc(up, Position(tr, up, key, n)) : up \in ups}

Downs(tr, key, depth, n) ==
  CHOOSE g : g = [d \in 0..depth |->
                    IF d = 0 THEN {PathClear}
                    ELSE Further(tr, key, n, g[d - 1])]

(* There is such a function, by the least depth there would be none of.    *)
LEMMA DownsExist ==
  ASSUME NEW tr, NEW key, NEW n, NEW depth \in Nat
  PROVE  \A d \in 0..depth : Downs(tr, key, depth, n)[d] =
           IF d = 0 THEN {PathClear}
           ELSE Further(tr, key, n, Downs(tr, key, depth, n)[d - 1])
<1> DEFINE Body(g, d) == IF d = 0 THEN {PathClear}
                         ELSE Further(tr, key, n, g[d - 1])
           Bad == {k \in Nat : ~\E g : g = [d \in 0..k |-> Body(g, d)]}
<1>1. Bad = {}
  <2>1. SUFFICES ASSUME Bad # {}  PROVE FALSE
    OBVIOUS
  <2>2. PICK k \in Bad : \A m \in Bad : k <= m
    BY <2>1, LeastExists
  <2>3. CASE k = 0
    <3> DEFINE g == [d \in 0..0 |-> {PathClear}]
    <3>1. \A d \in 0..0 : Body(g, d) = {PathClear}
      OBVIOUS
    <3>2. g = [d \in 0..0 |-> Body(g, d)]
      BY <3>1
    <3>3. QED
      BY <2>2, <2>3, <3>2
  <2>4. CASE k # 0
    <3>1. k - 1 \in Nat /\ k - 1 \notin Bad
      <4>1. k \in Nat /\ k - 1 \in Nat /\ ~(k <= k - 1)
        BY <2>2, <2>4
      <4> HIDE DEF Bad
      <4>2. QED
        BY <2>2, <4>1
    <3>2. PICK g : g = [d \in 0..(k - 1) |-> Body(g, d)]
      BY <3>1
    <3> DEFINE h == [d \in 0..k |-> Body(g, d)]
    <3>3. \A d \in 0..(k - 1) : h[d] = g[d]
      <4>1. \A d \in 0..(k - 1) : g[d] = Body(g, d)
        BY <3>2
      <4>2. \A d \in 0..(k - 1) : d \in 0..k
        BY <3>1
      <4> HIDE DEF Body
      <4>3. QED
        BY <4>1, <4>2
    <3>4. \A d \in 0..k : Body(h, d) = Body(g, d)
      <4> SUFFICES ASSUME NEW d \in 0..k  PROVE Body(h, d) = Body(g, d)
        OBVIOUS
      <4>1. d = 0 \/ d - 1 \in 0..(k - 1)
        OBVIOUS
      <4> HIDE DEF h
      <4>2. d = 0 \/ h[d - 1] = g[d - 1]
        BY <4>1, <3>3
      <4>3. QED
        BY <4>2
    <3>5. h = [d \in 0..k |-> Body(h, d)]
      BY <3>4
    <3> HIDE DEF h
    <3>6. QED
      BY <2>2, <3>5
  <2>5. QED
    BY <2>3, <2>4
<1> DEFINE f == Downs(tr, key, depth, n)
<1>2. \E g : g = [d \in 0..depth |-> Body(g, d)]
  BY <1>1
<1>3. f = [d \in 0..depth |-> Body(f, d)]
  BY <1>2 DEF Downs
<1> HIDE DEF f
<1>4. \A d \in 0..depth : f[d] = Body(f, d)
  <2> HIDE DEF Body
  <2>1. QED
    BY <1>3
<1>5. QED
  BY <1>4 DEF f

Single(set) == \E one : set = {one}

(* It holds one path of each length, the same whatever the depth.          *)
LEMMA DownsAgree ==
  ASSUME NEW tr, NEW key, NEW n, NEW depth \in Nat, NEW deeper \in Nat, depth <= deeper
  PROVE  \A d \in 0..depth :
           /\ Single(Downs(tr, key, depth, n)[d])
           /\ Downs(tr, key, depth, n)[d] = Downs(tr, key, deeper, n)[d]
<1> DEFINE f == Downs(tr, key, depth, n)
           h == Downs(tr, key, deeper, n)
           Bad == {d \in 0..depth : ~(Single(f[d]) /\ f[d] = h[d])}
<1>1. \A d \in 0..depth : f[d] = IF d = 0 THEN {PathClear} ELSE Further(tr, key, n, f[d - 1])
  BY DownsExist
<1>2. \A d \in 0..deeper : h[d] = IF d = 0 THEN {PathClear} ELSE Further(tr, key, n, h[d - 1])
  BY DownsExist
<1> HIDE DEF f, h
<1>3. Bad = {}
  <2>1. SUFFICES ASSUME Bad # {}  PROVE FALSE
    OBVIOUS
  <2>2. PICK k \in Bad : \A d \in Bad : k <= d
    <3>1. Bad \subseteq Nat
      OBVIOUS
    <3>2. QED
      BY <2>1, <3>1, LeastExists
  <2>3. k \in 0..depth /\ k \in 0..deeper
    BY <2>2
  <2>4. CASE k = 0
    BY <1>1, <1>2, <2>2, <2>3, <2>4 DEF Single
  <2>5. CASE k # 0
    <3>1. k - 1 \in 0..depth /\ ~(k <= k - 1)
      BY <2>3, <2>5
    <3>2. k - 1 \notin Bad
      BY <2>2, <3>1
    <3>3. PICK path0 : f[k - 1] = {path0} /\ h[k - 1] = {path0}
      BY <3>1, <3>2 DEF Single
    <3>4. f[k] = Further(tr, key, n, {path0}) /\ h[k] = Further(tr, key, n, {path0})
      BY <1>1, <1>2, <2>3, <2>5, <3>3
    <3>5. Further(tr, key, n, {path0}) = {PathInc(path0, Position(tr, path0, key, n))}
      BY DEF Further
    <3>6. QED
      BY <2>2, <3>4, <3>5 DEF Single
  <2>6. QED
    BY <2>4, <2>5
<1>4. QED
  BY <1>3 DEF f, h

(* A lookup goes on from the path it has come to.                          *)
LEMMA PathToIs ==
  ASSUME NEW tr, NEW key, NEW n
  PROVE  /\ PathTo(tr, key, 0, n) = <<>>
         /\ \A depth \in Nat : PathTo(tr, key, depth + 1, n) =
              Append(PathTo(tr, key, depth, n),
                     Position(tr, PathTo(tr, key, depth, n), key, n))
<1>1. \A depth : PathTo(tr, key, depth, n) = CHOOSE path0 \in Downs(tr, key, depth, n)[depth] : TRUE
  BY DEF PathTo, Downs, Further
<1>2. PathTo(tr, key, 0, n) = <<>>
  <2>1. Downs(tr, key, 0, n)[0] = {<<>>}
    BY DownsExist DEF PathClear
  <2>2. QED
    BY <1>1, <2>1
<1>3. ASSUME NEW depth \in Nat
      PROVE  PathTo(tr, key, depth + 1, n) =
              Append(PathTo(tr, key, depth, n),
                     Position(tr, PathTo(tr, key, depth, n), key, n))
  <2>1. PICK path0 : Downs(tr, key, depth, n)[depth] = {path0} /\ Downs(tr, key, depth + 1, n)[depth] = {path0}
    <3>1. depth + 1 \in Nat /\ depth <= depth + 1 /\ depth \in 0..depth
      OBVIOUS
    <3>2. \A d \in 0..depth :
            /\ Single(Downs(tr, key, depth, n)[d])
            /\ Downs(tr, key, depth, n)[d] = Downs(tr, key, depth + 1, n)[d]
      <4> DEFINE deeper == depth + 1
      <4>1. deeper \in Nat /\ depth <= deeper
        BY <3>1
      <4> HIDE DEF deeper
      <4>2. \A d \in 0..depth :
              /\ Single(Downs(tr, key, depth, n)[d])
              /\ Downs(tr, key, depth, n)[d] = Downs(tr, key, deeper, n)[d]
        BY <4>1, DownsAgree
      <4>3. QED
        BY <4>2 DEF deeper
    <3>3. QED
      BY <3>1, <3>2 DEF Single
  <2>2. Downs(tr, key, depth + 1, n)[depth + 1] = Further(tr, key, n, {path0})
    <3>1. depth + 1 \in Nat /\ depth + 1 \in 0..(depth + 1) /\ depth + 1 # 0 /\ (depth + 1) - 1 = depth
      OBVIOUS
    <3>2. \A d \in 0..(depth + 1) : Downs(tr, key, depth + 1, n)[d] =
            IF d = 0 THEN {PathClear} ELSE Further(tr, key, n, Downs(tr, key, depth + 1, n)[d - 1])
      BY <3>1, DownsExist
    <3>3. QED
      BY <2>1, <3>1, <3>2
  <2>3. PathTo(tr, key, depth, n) = path0
    BY <1>1, <2>1
  <2>4. Further(tr, key, n, {path0}) = {PathInc(path0, Position(tr, path0, key, n))}
    BY DEF Further
  <2>5. PathTo(tr, key, depth + 1, n) = PathInc(path0, Position(tr, path0, key, n))
    BY <1>1, <2>2, <2>4
  <2>6. QED
    BY <2>3, <2>5 DEF PathInc
<1>4. QED
  BY <1>2, <1>3

-----------------------------------------------------------------------------
(* Keys.                                                                   *)
(* The comparisons order keys by object, offset as it is read, and type.   *)
LEMMA CompareIs ==
  ASSUME NEW a, IsKey(a), NEW b, IsKey(b)
  PROVE  /\ KeyOffset(a) \in Nat /\ KeyOffset(b) \in Nat
         /\ a.obj \in Nat /\ b.obj \in Nat /\ a.type \in Nat /\ b.type \in Nat
         /\ FourComponents(a, b) = Compare(a, b, 4) /\ ThreeComponents(a, b) = Compare(a, b, 3)
         /\ Compare(a, b, 4) =
              IF a.obj # b.obj THEN IF a.obj < b.obj THEN -1 ELSE 1
              ELSE IF KeyOffset(a) # KeyOffset(b)
                   THEN IF KeyOffset(a) < KeyOffset(b) THEN -1 ELSE 1
              ELSE IF a.type # b.type THEN IF a.type < b.type THEN -1 ELSE 1 ELSE 0
         /\ Compare(a, b, 3) =
              IF a.obj # b.obj THEN IF a.obj < b.obj THEN -1 ELSE 1
              ELSE IF KeyOffset(a) # KeyOffset(b)
                   THEN IF KeyOffset(a) < KeyOffset(b) THEN -1 ELSE 1
              ELSE 0
<1>1. \A key : IsKey(key) => KeyOffset(key) \in Nat /\ key.obj \in Nat /\ key.type \in Nat
  <2>1. ASSUME NEW key, IsKey(key)  PROVE KeyOffset(key) \in Nat
    <3>1. key.off \in Nat /\ key.off % Wrap \in Nat
      BY <2>1, WrapAssumption DEF IsKey
    <3>2. QED
      BY <3>1 DEF KeyOffset
  <2>2. QED
    BY <2>1 DEF IsKey, SD, IT, DT, DR
<1> DEFINE ka == KeyOffset(a)
           kb == KeyOffset(b)
<1>2. ka \in Nat /\ kb \in Nat /\ a.obj \in Nat /\ b.obj \in Nat /\ a.type \in Nat /\ b.type \in Nat
  BY <1>1
<1> HIDE DEF ka, kb
<1>3. ThreeComponents(a, b) =
        IF a.obj # b.obj THEN IF a.obj < b.obj THEN -1 ELSE 1
        ELSE IF ka # kb THEN IF ka < kb THEN -1 ELSE 1 ELSE 0
  BY <1>2 DEF ThreeComponents, TwoComponents, Compared, ka, kb
<1>4. FourComponents(a, b) =
        IF a.obj # b.obj THEN IF a.obj < b.obj THEN -1 ELSE 1
        ELSE IF ka # kb THEN IF ka < kb THEN -1 ELSE 1
        ELSE IF a.type # b.type THEN IF a.type < b.type THEN -1 ELSE 1 ELSE 0
  BY <1>2, <1>3 DEF FourComponents, Compared
<1>5. FourComponents(a, b) = Compare(a, b, 4) /\ ThreeComponents(a, b) = Compare(a, b, 3)
  BY DEF Compare
<1>6. QED
  BY <1>2, <1>3, <1>4, <1>5 DEF ka, kb

Ranks == {-1, 0, 1}

(* A comparison, of three components or of four, respects the order.       *)
LEMMA CompareKeeps ==
  ASSUME NEW a, IsKey(a), NEW b, IsKey(b), NEW c, IsKey(c), NEW n \in {3, 4}
  PROVE  /\ Compare(a, b, n) \in Ranks
         /\ Compare(b, a, n) = -Compare(a, b, n)
         /\ Compare(a, b, 4) \in {-1, 0} /\ Compare(b, c, n) = -1 => Compare(a, c, n) = -1
         /\ Compare(a, b, 4) \in {-1, 0} /\ Compare(a, c, n) = 1 => Compare(b, c, n) = 1
         /\ Compare(a, b, 4) \in {-1, 0} /\ Compare(b, c, n) = 0 => Compare(a, c, n) \in {-1, 0}
         /\ Compare(a, b, 4) = 0 => Compare(a, c, n) = Compare(b, c, n)
         /\ Compare(a, b, 3) = -1 => Compare(a, b, 4) = -1
         /\ Compare(a, b, 3) = -1 /\ Compare(b, c, n) \in {-1, 0} => Compare(a, c, n) = -1
         /\ Compare(a, b, 3) = -1 /\ Compare(a, c, n) \in {0, 1} => Compare(b, c, n) = 1
<1>1. CASE n = 3
  BY <1>1, CompareIs DEF Ranks
<1>2. CASE n = 4
  BY <1>2, CompareIs DEF Ranks
<1>3. QED
  BY <1>1, <1>2

-----------------------------------------------------------------------------
(* What a search of an array is to answer.                                 *)
SearchRight(r, needle, array, n) ==
  /\ r.found \in BOOLEAN /\ r.pos \in Nat /\ r.pos <= Len(array)
  /\ r.found => r.pos < Len(array) /\ Compare(array[r.pos + 1], needle, n) = 0
  /\ ~r.found => \A i \in 1..Len(array) :
                   Compare(array[i], needle, n) = IF i <= r.pos THEN -1 ELSE 1

(* The middle of an interval lies in it.                                   *)
LEMMA Middle ==
  ASSUME NEW left \in Nat, NEW right \in Int, left <= right
  PROVE  LET i == (left + right) \div 2 IN i \in Nat /\ left <= i /\ i <= right
  OBVIOUS

(* The binary search, as the function FastSearch is defined by.            *)
Halved(g, needle, array, n, span) ==
  LET left == span[1]
      right == span[2]
      i == (left + right) \div 2
  IN  IF left > right THEN [found |-> FALSE, pos |-> left]
      ELSE CASE Compare(array[i + 1], needle, n) = -1 -> g[<<i + 1, right>>]
             [] Compare(array[i + 1], needle, n) = 1 -> g[<<left, i - 1>>]
             [] OTHER -> [found |-> TRUE, pos |-> i]

Spans(array) == (0..Len(array)) \X (-1..(Len(array) - 1))
Length(span) == span[2] - span[1]

Searches(needle, array, n) ==
  CHOOSE g : g = [span \in Spans(array) |-> Halved(g, needle, array, n, span)]

(* A span is halved by looking at shorter ones alone.                      *)
LEMMA Halves ==
  ASSUME NEW array, Len(array) \in Nat, NEW span \in Spans(array), ~(span[1] > span[2])
  PROVE  LET i == (span[1] + span[2]) \div 2
         IN  /\ i \in Nat /\ span[1] <= i /\ i <= span[2] /\ i + 1 \in 1..Len(array)
             /\ <<i + 1, span[2]>> \in Spans(array) /\ <<span[1], i - 1>> \in Spans(array)
             /\ Length(<<i + 1, span[2]>>) = span[2] - i - 1
             /\ Length(<<span[1], i - 1>>) = i - 1 - span[1]
             /\ span[1] \in Nat /\ span[2] \in Nat
<1>1. span[1] \in 0..Len(array) /\ span[2] \in -1..(Len(array) - 1)
  BY DEF Spans
<1>2. PICK left \in Nat, right \in Nat : left = span[1] /\ right = span[2]
  BY <1>1
<1>3. PICK i \in Nat : i = (left + right) \div 2 /\ left <= i /\ i <= right
  BY <1>2, Middle, SMTT(40)
<1>4. left \in 0..Len(array) /\ right \in -1..(Len(array) - 1)
  BY <1>1, <1>2
<1>5. i + 1 \in 0..Len(array) /\ i - 1 \in -1..(Len(array) - 1) /\ i + 1 \in 1..Len(array)
  BY <1>3, <1>4
<1>6. <<i + 1, right>> \in Spans(array) /\ <<left, i - 1>> \in Spans(array)
  BY <1>4, <1>5 DEF Spans
<1>7. Length(<<i + 1, right>>) = right - i - 1 /\ Length(<<left, i - 1>>) = i - 1 - left
  BY <1>3, <1>4 DEF Length
<1>8. QED
  BY <1>2, <1>3, <1>5, <1>6, <1>7

(* The bounds of a stretch of the array, and its length.                   *)
LEMMA LengthIs ==
  ASSUME NEW array, Len(array) \in Nat, NEW span \in Spans(array)
  PROVE  /\ span[1] \in 0..Len(array) /\ span[2] \in -1..(Len(array) - 1)
         /\ Length(span) = span[2] - span[1] /\ Length(span) \in Int /\ Length(span) < Len(array)
         /\ span = <<span[1], span[2]>>
<1>1. span[1] \in 0..Len(array) /\ span[2] \in -1..(Len(array) - 1) /\ span = <<span[1], span[2]>>
  BY DEF Spans
<1>2. QED
  BY <1>1 DEF Length

(* A turn of the search uses the shorter stretches only.                   *)
LEMMA HalvedAgrees ==
  ASSUME NEW needle, NEW array, NEW n, Len(array) \in Nat, NEW k \in Int, NEW g, NEW h,
         \A other \in Spans(array) : Length(other) < k => g[other] = h[other],
         NEW span \in Spans(array), Length(span) <= k
  PROVE  Halved(g, needle, array, n, span) = Halved(h, needle, array, n, span)
<1>1. CASE span[1] > span[2]
  BY <1>1 DEF Halved
<1>2. CASE ~(span[1] > span[2])
  <2> DEFINE i == (span[1] + span[2]) \div 2
  <2>1. /\ i \in Nat /\ span[1] <= i /\ i <= span[2] /\ span[1] \in Nat /\ span[2] \in Nat
        /\ <<i + 1, span[2]>> \in Spans(array) /\ <<span[1], i - 1>> \in Spans(array)
        /\ Length(<<i + 1, span[2]>>) = span[2] - i - 1
        /\ Length(<<span[1], i - 1>>) = i - 1 - span[1]
    BY <1>2, Halves
  <2>2. Length(span) = span[2] - span[1]
    BY DEF Length
  <2> HIDE DEF i
  <2>3. Length(<<i + 1, span[2]>>) < k /\ Length(<<span[1], i - 1>>) < k
    BY <2>1, <2>2
  <2>4. g[<<i + 1, span[2]>>] = h[<<i + 1, span[2]>>] /\ g[<<span[1], i - 1>>] = h[<<span[1], i - 1>>]
    BY <2>1, <2>3
  <2>5. QED
    BY <2>4 DEF Halved, i
<1>3. QED
  BY <1>1, <1>2

(* A function that is right on spans below some length.                    *)
RightBelow(g, needle, array, n, k) ==
  \A span \in Spans(array) : Length(span) < k => g[span] = Halved(g, needle, array, n, span)

(* So there is such a function: one that is right on spans below a length  *)
(* gives one for the next.                                                 *)
LEMMA SearchesExist ==
  ASSUME NEW needle, NEW array, NEW n, Len(array) \in Nat
  PROVE  \A span \in Spans(array) : Searches(needle, array, n)[span] =
           Halved(Searches(needle, array, n), needle, array, n, span)
<1> DEFINE Part(k) == \E g : RightBelow(g, needle, array, n, k)
           Bad == {k \in Nat : ~Part(k)}
           f == Searches(needle, array, n)
<1>1. Part(0)
  <2> DEFINE g == [span \in Spans(array) |-> [found |-> FALSE, pos |-> span[1]]]
  <2>1. ASSUME NEW span \in Spans(array), Length(span) < 0
        PROVE  g[span] = Halved(g, needle, array, n, span)
    <3>1. span[1] > span[2]
      BY <2>1, LengthIs
    <3>2. QED
      BY <3>1 DEF Halved
  <2> HIDE DEF g
  <2>2. QED
    BY <2>1 DEF RightBelow
<1>2. ASSUME NEW k \in Nat, Part(k)  PROVE Part(k + 1)
  <2>1. PICK g : RightBelow(g, needle, array, n, k)
    BY <1>2
  <2> DEFINE h == [span \in Spans(array) |-> Halved(g, needle, array, n, span)]
  <2>2. \A span \in Spans(array) : h[span] = Halved(g, needle, array, n, span)
    OBVIOUS
  <2> HIDE DEF h
  <2>3. \A span \in Spans(array) : Length(span) < k => g[span] = h[span]
    BY <2>1, <2>2 DEF RightBelow
  <2>4. ASSUME NEW span \in Spans(array), Length(span) < k + 1
        PROVE  h[span] = Halved(h, needle, array, n, span)
    <3>1. Length(span) <= k /\ k \in Int
      BY <2>4, LengthIs
    <3>2. Halved(g, needle, array, n, span) = Halved(h, needle, array, n, span)
      BY <2>3, <3>1, HalvedAgrees
    <3>3. QED
      BY <2>2, <3>2
  <2>5. RightBelow(h, needle, array, n, k + 1)
    BY <2>4 DEF RightBelow
  <2>6. QED
    BY <2>5
<1> HIDE DEF Part
<1>3. Bad = {}
  <2>1. SUFFICES ASSUME Bad # {}  PROVE FALSE
    OBVIOUS
  <2>2. PICK k \in Bad : \A m \in Bad : k <= m
    BY <2>1, LeastExists
  <2>3. k # 0
    BY <1>1, <2>2
  <2>4. k - 1 \in Nat /\ ~(k <= k - 1) /\ (k - 1) + 1 = k
    BY <2>2, <2>3
  <2>5. Part(k - 1)
    BY <2>2, <2>4
  <2>6. QED
    BY <1>2, <2>2, <2>4, <2>5
<1>4. PICK g : RightBelow(g, needle, array, n, Len(array))
  <2>1. Part(Len(array))
    BY <1>3
  <2>2. QED
    BY <2>1 DEF Part
<1> DEFINE h == [span \in Spans(array) |-> Halved(g, needle, array, n, span)]
<1>5. h = [span \in Spans(array) |-> Halved(h, needle, array, n, span)]
  <2>1. \A span \in Spans(array) : h[span] = Halved(g, needle, array, n, span)
    OBVIOUS
  <2> HIDE DEF h
  <2>2. \A span \in Spans(array) : Length(span) < Len(array) => g[span] = h[span]
    BY <1>4, <2>1 DEF RightBelow
  <2>3. \A span \in Spans(array) : Halved(g, needle, array, n, span) = Halved(h, needle, array, n, span)
    <3> SUFFICES ASSUME NEW span \in Spans(array)
                 PROVE  Halved(g, needle, array, n, span) = Halved(h, needle, array, n, span)
      OBVIOUS
    <3>1. Length(span) <= Len(array) /\ Len(array) \in Int
      BY LengthIs
    <3>2. QED
      BY <2>2, <3>1, HalvedAgrees
  <2>4. QED
    BY <2>3 DEF h
<1> HIDE DEF h
<1>6. f = [span \in Spans(array) |-> Halved(f, needle, array, n, span)]
  BY <1>5 DEF Searches
<1> HIDE DEF f
<1>7. \A span \in Spans(array) : f[span] = Halved(f, needle, array, n, span)
  BY <1>6
<1>8. QED
  BY <1>7 DEF f

(* What is left of the array is smaller than the needle and what is right  *)
(* of it is larger.                                                        *)
Bounded(needle, array, n, left, right) ==
  \A i \in 1..Len(array) : /\ i <= left => Compare(array[i], needle, n) = -1
                           /\ i > right + 1 => Compare(array[i], needle, n) = 1

(* The search of a sorted array finds a key that is equal, or the place    *)
(* where it would be.                                                      *)
LEMMA SearchIs ==
  ASSUME NEW needle, IsKey(needle), NEW array, Len(array) \in Nat,
         DOMAIN array = 1..Len(array), Ordered(array), NEW n \in {3, 4}
  PROVE  SearchRight(FastSearch(needle, array, n), needle, array, n)
<1> DEFINE f == Searches(needle, array, n)
           C(i) == Compare(array[i], needle, n)
           Wrong(span) == /\ Bounded(needle, array, n, span[1], span[2]) /\ span[1] <= span[2] + 1
                          /\ ~SearchRight(f[span], needle, array, n)
           Bad == {k \in Nat : \E span \in Spans(array) : Wrong(span) /\ k = Length(span) + 1}
<1>1. \A i \in 1..Len(array) : C(i) \in Ranks
  BY CompareKeeps DEF Ordered
<1>2. ASSUME NEW i \in 1..Len(array), NEW j \in 1..Len(array), i < j
      PROVE  (C(j) = -1 => C(i) = -1) /\ (C(i) = 1 => C(j) = 1)
  <2>1. IsKey(array[i]) /\ IsKey(array[j]) /\ ThreeComponents(array[i], array[j]) = -1
    BY <1>2 DEF Ordered, Sorted
  <2>2. Compare(array[i], array[j], 3) = -1
    BY <2>1, CompareIs
  <2>3. QED
    BY <2>1, <2>2, CompareKeeps
<1>3. \A span \in Spans(array) : f[span] = Halved(f, needle, array, n, span)
  BY SearchesExist
<1> HIDE DEF f
<1>4. ASSUME NEW span \in Spans(array), Wrong(span)
      PROVE  \E other \in Spans(array) : /\ Wrong(other) /\ Length(other) < Length(span)
                                         /\ Length(other) + 1 \in Nat
  <2>1. PICK left \in Int, right \in Int : left = span[1] /\ right = span[2]
    BY LengthIs
  <2>2. left \in 0..Len(array) /\ right \in -1..(Len(array) - 1) /\ Length(span) = right - left
    BY <2>1, LengthIs
  <2>3. /\ \A i \in 1..Len(array) : (i <= left => C(i) = -1) /\ (i > right + 1 => C(i) = 1)
        /\ left <= right + 1 /\ ~SearchRight(f[span], needle, array, n)
    BY <1>4, <2>1 DEF Bounded
  <2>4. CASE left > right
    <3>1. f[span] = [found |-> FALSE, pos |-> left]
      BY <1>3, <2>1, <2>4 DEF Halved
    <3>2. left = right + 1
      BY <2>2, <2>3, <2>4
    <3>3. \A j \in 1..Len(array) : C(j) = IF j <= left THEN -1 ELSE 1
      BY <2>2, <2>3, <3>2
    <3>4. SearchRight([found |-> FALSE, pos |-> left], needle, array, n)
      <4>1. left \in Nat /\ left <= Len(array)
        BY <2>2
      <4>2. QED
        BY <3>3, <4>1 DEF SearchRight
    <3>5. QED
      BY <2>3, <3>1, <3>4
  <2>5. CASE ~(left > right)
    <3> DEFINE i == (span[1] + span[2]) \div 2
    <3>1. /\ i \in Nat /\ left <= i /\ i <= right /\ i + 1 \in 1..Len(array)
          /\ <<i + 1, right>> \in Spans(array) /\ <<left, i - 1>> \in Spans(array)
          /\ Length(<<i + 1, right>>) = right - i - 1
          /\ Length(<<left, i - 1>>) = i - 1 - left
      BY <2>1, <2>5, Halves
    <3>2. f[span] = IF C(i + 1) = -1 THEN f[<<i + 1, right>>]
                    ELSE IF C(i + 1) = 1 THEN f[<<left, i - 1>>]
                    ELSE [found |-> TRUE, pos |-> i]
      <4>1. f[span] = Halved(f, needle, array, n, span)
        BY <1>3
      <4>2. C(i + 1) \in Ranks /\ -1 # 1
        BY <1>1, <3>1
      <4> HIDE DEF C
      <4>3. Halved(f, needle, array, n, span) =
              CASE C(i + 1) = -1 -> f[<<i + 1, right>>]
                [] C(i + 1) = 1 -> f[<<left, i - 1>>]
                [] OTHER -> [found |-> TRUE, pos |-> i]
        BY <2>1, <2>5 DEF Halved, C
      <4> HIDE DEF i
      <4>4. QED
        BY <4>1, <4>2, <4>3 DEF Ranks
    <3> HIDE DEF i, C
    <3>3. CASE C(i + 1) = -1
      <4>1. \A j \in 1..Len(array) : j <= i + 1 => C(j) = -1
        <5> SUFFICES ASSUME NEW j \in 1..Len(array), j <= i + 1  PROVE C(j) = -1
          OBVIOUS
        <5>1. j = i + 1 \/ j < i + 1
          BY <3>1
        <5>2. QED
          BY <1>2, <3>1, <3>3, <5>1
      <4>2. Bounded(needle, array, n, i + 1, right)
        BY <2>3, <4>1 DEF Bounded, C
      <4> DEFINE other == <<i + 1, right>>
      <4>3. other[1] = i + 1 /\ other[2] = right
        OBVIOUS
      <4>4. other \in Spans(array) /\ Length(other) < Length(span) /\ Length(other) + 1 \in Nat
            /\ i + 1 <= right + 1
        BY <2>2, <3>1
      <4>5. ~SearchRight(f[other], needle, array, n)
        BY <2>3, <3>2, <3>3
      <4> HIDE DEF other
      <4>6. Wrong(other)
        BY <4>2, <4>3, <4>4, <4>5
      <4> HIDE DEF Wrong
      <4>7. QED
        BY <4>4, <4>6
    <3>4. CASE C(i + 1) = 1
      <4>1. \A j \in 1..Len(array) : j > (i - 1) + 1 => C(j) = 1
        <5> SUFFICES ASSUME NEW j \in 1..Len(array), j > (i - 1) + 1  PROVE C(j) = 1
          OBVIOUS
        <5>1. j = i + 1 \/ i + 1 < j
          BY <3>1
        <5>2. QED
          BY <1>2, <3>1, <3>4, <5>1
      <4>2. Bounded(needle, array, n, left, i - 1)
        BY <2>3, <4>1 DEF Bounded, C
      <4> DEFINE other == <<left, i - 1>>
      <4>3. other[1] = left /\ other[2] = i - 1
        OBVIOUS
      <4>4. other \in Spans(array) /\ Length(other) < Length(span) /\ Length(other) + 1 \in Nat
            /\ left <= (i - 1) + 1
        BY <2>2, <3>1
      <4>5. ~SearchRight(f[other], needle, array, n)
        BY <2>3, <3>2, <3>4
      <4> HIDE DEF other
      <4>6. Wrong(other)
        BY <4>2, <4>3, <4>4, <4>5
      <4> HIDE DEF Wrong
      <4>7. QED
        BY <4>4, <4>6
    <3>5. CASE C(i + 1) = 0
      <4>1. SearchRight([found |-> TRUE, pos |-> i], needle, array, n)
        BY <3>1, <3>5 DEF SearchRight, C
      <4>2. QED
        BY <2>3, <3>2, <3>5, <4>1
    <3>6. QED
      BY <1>1, <3>1, <3>3, <3>4, <3>5 DEF Ranks
  <2>6. QED
    BY <2>4, <2>5
<1> HIDE DEF Wrong
<1>5. Bad = {}
  <2>1. SUFFICES ASSUME Bad # {}  PROVE FALSE
    OBVIOUS
  <2>2. PICK k \in Bad : \A m \in Bad : k <= m
    BY <2>1, LeastExists
  <2>3. PICK span \in Spans(array) : Wrong(span) /\ k = Length(span) + 1
    BY <2>2
  <2>4. PICK other \in Spans(array) :
          Wrong(other) /\ Length(other) < Length(span) /\ Length(other) + 1 \in Nat
    BY <1>4, <2>3
  <2>5. Length(other) + 1 \in Bad
    BY <2>4
  <2>6. Length(other) \in Int /\ Length(span) \in Int
    BY LengthIs
  <2> HIDE DEF Bad
  <2>7. k <= Length(other) + 1
    BY <2>2, <2>5
  <2>8. QED
    BY <2>3, <2>4, <2>6, <2>7
<1> DEFINE all == <<0, Len(array) - 1>>
<1>6. all \in Spans(array) /\ all[1] = 0 /\ all[2] = Len(array) - 1 /\ Length(all) + 1 = Len(array)
  BY DEF Spans, Length
<1>7. FastSearch(needle, array, n) = f[all]
  BY DEF FastSearch, Searches, Halved, Spans, f
<1> HIDE DEF all
<1>8. ~Wrong(all)
  BY <1>5, <1>6
<1>9. Bounded(needle, array, n, all[1], all[2]) /\ all[1] <= all[2] + 1
  BY <1>6 DEF Bounded
<1>10. QED
  BY <1>7, <1>8, <1>9 DEF Wrong

-----------------------------------------------------------------------------
(* Ways down a tree.                                                       *)
LEMMA WayIs ==
  ASSUME NEW tr, NEW depth \in Nat, NEW most \in Nat, NEW up \in Ways(tr, depth, most)
  PROVE  /\ up \in Seq(Nat) /\ Len(up) = depth /\ DOMAIN up = 1..depth
         /\ \A d \in 1..depth : up[d] \in 0..(most - 1) /\ up[d] < Len(NodeAt(tr, up, d).children)
<1>1. up \in [1..depth -> 0..(most - 1)]
      /\ \A d \in 1..depth : up[d] < Len(NodeAt(tr, up, d).children)
  BY DEF Ways
<1>2. up \in [1..depth -> Nat] /\ Len(up) = depth
  BY <1>1
<1>3. up \in Seq(Nat)
  BY <1>2
<1>4. QED
  BY <1>1, <1>2, <1>3

(* A way and its beginning lead through the same nodes.                    *)
LEMMA AppendIs ==
  ASSUME NEW up \in Seq(Nat), NEW pos \in Nat
  PROVE  /\ Append(up, pos) \in Seq(Nat) /\ Len(Append(up, pos)) = Len(up) + 1
         /\ DOMAIN Append(up, pos) = 1..(Len(up) + 1)
         /\ \A d \in 1..Len(up) : Append(up, pos)[d] = up[d]
         /\ Append(up, pos)[Len(up) + 1] = pos
  OBVIOUS

(* One more position below the last node of a way.                         *)
LEMMA WayOn ==
  ASSUME NEW tr, NEW depth \in Nat, NEW most \in Nat, NEW up \in Ways(tr, depth, most),
         NEW pos \in Nat, pos < Len(NodeAt(tr, up, depth + 1).children), pos < most
  PROVE  Append(up, pos) \in Ways(tr, depth + 1, most)
<1> DEFINE way == Append(up, pos)
<1>1. /\ up \in Seq(Nat) /\ Len(up) = depth
      /\ \A d \in 1..depth : up[d] \in 0..(most - 1) /\ up[d] < Len(NodeAt(tr, up, d).children)
  BY WayIs
<1>2. /\ way \in Seq(Nat) /\ Len(way) = depth + 1
      /\ DOMAIN way = 1..(depth + 1) /\ way[depth + 1] = pos
      /\ \A d \in 1..depth : way[d] = up[d]
  BY <1>1, AppendIs
<1> HIDE DEF way
<1>3. \A d \in 1..(depth + 1) : NodeAt(tr, way, d) = NodeAt(tr, up, d)
  <2> SUFFICES ASSUME NEW d \in 1..(depth + 1)  PROVE NodeAt(tr, way, d) = NodeAt(tr, up, d)
    OBVIOUS
  <2>1. \A e \in 1..(d - 1) : way[e] = up[e]
    BY <1>2
  <2>2. d \in Nat \ {0}
    OBVIOUS
  <2>3. QED
    BY <2>1, <2>2, NodeAtAgree
<1>4. \A d \in 1..(depth + 1) : d = depth + 1 \/ d \in 1..depth
  OBVIOUS
<1>5. \A d \in 1..(depth + 1) : way[d] \in 0..(most - 1)
  BY <1>1, <1>2, <1>4
<1>6. \A d \in 1..(depth + 1) : way[d] < Len(NodeAt(tr, way, d).children)
  BY <1>1, <1>2, <1>3, <1>4
<1>7. way \in [1..(depth + 1) -> 0..(most - 1)]
  BY <1>2, <1>5
<1>8. QED
  BY <1>6, <1>7 DEF Ways, way

(* A tree a lookup finds its way in, and the number of its items.          *)
LEMMA TreeIs ==
  ASSUME NEW tr, NEW stored, Len(stored) \in Nat, SearchTree(tr, stored)
  PROVE  /\ tr.height \in Nat \ {0}
         /\ \A depth \in 0..(tr.height - 2) : \A up \in Ways(tr, depth, Len(stored)) :
              LET keys == NodeAt(tr, up, depth + 1).keys
              IN  /\ Len(keys) \in Nat /\ DOMAIN keys = 1..Len(keys) /\ Ordered(keys)
                  /\ Len(NodeAt(tr, up, depth + 1).children) = Len(keys) + 1
                  /\ Len(keys) + 1 <= Len(stored)
         /\ \A up \in Ways(tr, tr.height - 1, Len(stored)) :
              LET items == LeafItems(tr, up)
              IN  /\ Len(items) \in Nat \ {0} /\ DOMAIN items = 1..Len(items) /\ Ordered(items)
                  /\ LeafBounded(tr, up, items)
                  /\ \A i \in 1..Len(items) : \E k \in DOMAIN stored : items[i] = stored[k]
<1>1. tr.height \in Nat \ {0}
  BY DEF SearchTree
<1>2. ASSUME NEW depth \in 0..(tr.height - 2), NEW up \in Ways(tr, depth, Len(stored))
      PROVE  LET keys == NodeAt(tr, up, depth + 1).keys
             IN  /\ Len(keys) \in Nat /\ DOMAIN keys = 1..Len(keys) /\ Ordered(keys)
                 /\ Len(NodeAt(tr, up, depth + 1).children) = Len(keys) + 1
                 /\ Len(keys) + 1 <= Len(stored)
  <2>1. NodeSound(NodeAt(tr, up, depth + 1), Len(stored))
    BY DEF SearchTree
  <2>2. QED
    BY <2>1 DEF NodeSound
<1>3. ASSUME NEW up \in Ways(tr, tr.height - 1, Len(stored))
      PROVE  LET items == LeafItems(tr, up)
             IN  /\ Len(items) \in Nat \ {0} /\ DOMAIN items = 1..Len(items) /\ Ordered(items)
                 /\ LeafBounded(tr, up, items)
                 /\ \A i \in 1..Len(items) : \E k \in DOMAIN stored : items[i] = stored[k]
  <2> DEFINE items == LeafItems(tr, up)
             contents == {stored[k] : k \in DOMAIN stored}
  <2>1. items \in Seq(contents) \ {<<>>} /\ Ordered(items) /\ LeafBounded(tr, up, items)
    BY DEF SearchTree
  <2> HIDE DEF items, contents
  <2>2. Len(items) \in Nat /\ DOMAIN items = 1..Len(items) /\ \A i \in 1..Len(items) : items[i] \in contents
    BY <2>1
  <2>3. Len(items) # 0
    BY <2>1
  <2>4. QED
    BY <2>1, <2>2, <2>3 DEF contents, items
<1>4. QED
  BY <1>1, <1>2, <1>3

(* The position a lookup takes in an inner node.                           *)
Guided(keys, pos, key, n) ==
  /\ pos \in Nat /\ pos <= Len(keys)
  /\ pos > 0 => Compare(keys[pos], key, n) \in {-1, 0}
  /\ pos < Len(keys) => Compare(keys[pos + 1], key, n) = 1

(* The position a lookup takes in a node is that of the child to go to.    *)
LEMMA PositionGuided ==
  ASSUME NEW tr, NEW stored, Len(stored) \in Nat, SearchTree(tr, stored),
         NEW depth \in 0..(tr.height - 2), NEW up \in Ways(tr, depth, Len(stored)),
         NEW key, IsKey(key), NEW n \in {3, 4}
  PROVE  Guided(NodeAt(tr, up, depth + 1).keys, Position(tr, up, key, n), key, n)
<1> DEFINE keys == NodeAt(tr, up, depth + 1).keys
           at == FastSearch(key, keys, n)
<1>1. /\ tr.height \in Nat /\ Len(keys) \in Nat /\ DOMAIN keys = 1..Len(keys) /\ Ordered(keys)
  BY TreeIs
<1>2. Len(up) = depth /\ depth \in Nat /\ depth + 1 # tr.height /\ depth + 1 < tr.height
  BY <1>1, WayIs
<1> HIDE DEF keys
<1>3. SearchRight(at, key, keys, n)
  BY <1>1, SearchIs
<1>4. Position(tr, up, key, n) = IF at.found THEN at.pos + 1 ELSE at.pos
  BY <1>2 DEF Position, keys
<1> HIDE DEF at
<1>5. CASE at.found
  <2>1. /\ at.pos \in Nat /\ at.pos < Len(keys) /\ Compare(keys[at.pos + 1], key, n) = 0
    BY <1>3, <1>5 DEF SearchRight
  <2>2. ASSUME at.pos + 1 < Len(keys)  PROVE Compare(keys[at.pos + 2], key, n) = 1
    <3>1. at.pos + 1 \in 1..Len(keys) /\ at.pos + 2 \in 1..Len(keys) /\ at.pos + 1 < at.pos + 2
      BY <1>1, <2>1, <2>2
    <3>2. /\ IsKey(keys[at.pos + 1]) /\ IsKey(keys[at.pos + 2])
          /\ ThreeComponents(keys[at.pos + 1], keys[at.pos + 2]) = -1
      BY <1>1, <3>1, SMTT(30) DEF Ordered, Sorted
    <3>3. Compare(keys[at.pos + 1], keys[at.pos + 2], 3) = -1
      BY <3>2, CompareIs
    <3>4. QED
      BY <2>1, <3>2, <3>3, CompareKeeps
  <2>3. QED
    BY <1>1, <1>4, <1>5, <2>1, <2>2 DEF Guided, keys
<1>6. CASE ~at.found
  <2>1. /\ at.pos \in Nat /\ at.pos <= Len(keys)
        /\ \A i \in 1..Len(keys) : Compare(keys[i], key, n) = IF i <= at.pos THEN -1 ELSE 1
    BY <1>3, <1>6 DEF SearchRight
  <2>2. at.pos > 0 => at.pos \in 1..Len(keys)
    BY <1>1, <2>1
  <2>3. at.pos < Len(keys) => at.pos + 1 \in 1..Len(keys) /\ ~(at.pos + 1 <= at.pos)
    BY <1>1, <2>1
  <2>4. Guided(keys, at.pos, key, n)
    BY <2>1, <2>2, <2>3 DEF Guided
  <2>5. QED
    BY <1>4, <1>6, <2>4 DEF keys
<1>7. QED
  BY <1>3, <1>5, <1>6 DEF SearchRight

-----------------------------------------------------------------------------
(* A lookup.                                                               *)
(* Every part of its path is a way of the tree.                            *)
LEMMA LookupWay ==
  ASSUME NEW tr, NEW stored, Len(stored) \in Nat, SearchTree(tr, stored),
         NEW key, IsKey(key), NEW n \in {3, 4}
  PROVE  \A d \in 0..(tr.height - 1) : PathTo(tr, key, d, n) \in Ways(tr, d, Len(stored))
<1> DEFINE P(d) == PathTo(tr, key, d, n)
           Bad == {d \in 0..(tr.height - 1) : P(d) \notin Ways(tr, d, Len(stored))}
<1>1. tr.height \in Nat \ {0}
  BY TreeIs
<1>2. P(0) \in Ways(tr, 0, Len(stored))
  <2>1. P(0) = <<>>
    BY PathToIs
  <2>2. <<>> \in [1..0 -> 0..(Len(stored) - 1)]
    OBVIOUS
  <2>3. 1..0 = {}
    OBVIOUS
  <2>4. <<>> \in Ways(tr, 0, Len(stored))
    <3> DEFINE most == Len(stored) - 1
    <3> HIDE DEF most
    <3>1. <<>> \in [1..0 -> 0..most]
      OBVIOUS
    <3>2. \A d \in 1..0 : <<>>[d] < Len(NodeAt(tr, <<>>, d).children)
      BY <2>3
    <3>3. QED
      BY <3>1, <3>2 DEF Ways, most
  <2>5. QED
    BY <2>1, <2>4
<1>3. ASSUME NEW d \in 0..(tr.height - 2), P(d) \in Ways(tr, d, Len(stored))
      PROVE  P(d + 1) \in Ways(tr, d + 1, Len(stored))
  <2> DEFINE pos == Position(tr, P(d), key, n)
             keys == NodeAt(tr, P(d), d + 1).keys
  <2>1. Guided(keys, pos, key, n)
    BY <1>3, PositionGuided
  <2>2. /\ Len(keys) \in Nat /\ Len(keys) + 1 <= Len(stored)
        /\ Len(NodeAt(tr, P(d), d + 1).children) = Len(keys) + 1
    BY <1>3, TreeIs
  <2>3. P(d + 1) = Append(P(d), pos)
    <3>1. d \in Nat
      OBVIOUS
    <3>2. QED
      BY <3>1, PathToIs
  <2> HIDE DEF P, pos, keys
  <2>4. pos \in Nat /\ pos < Len(NodeAt(tr, P(d), d + 1).children) /\ pos < Len(stored)
    BY <2>1, <2>2 DEF Guided
  <2>5. d \in Nat
    OBVIOUS
  <2>6. QED
    BY <1>3, <2>3, <2>4, <2>5, WayOn
<1> HIDE DEF P
<1>4. Bad = {}
  <2>1. SUFFICES ASSUME Bad # {}  PROVE FALSE
    OBVIOUS
  <2>2. PICK k \in Bad : \A m \in Bad : k <= m
    <3>1. Bad \subseteq Nat
      OBVIOUS
    <3>2. QED
      BY <2>1, <3>1, LeastExists
  <2>3. k # 0
    BY <1>2, <2>2
  <2>4. k - 1 \in 0..(tr.height - 2) /\ k - 1 \in 0..(tr.height - 1) /\ ~(k <= k - 1) /\ (k - 1) + 1 = k
    BY <1>1, <2>2, <2>3
  <2>5. k - 1 \notin Bad
    BY <2>2, <2>4
  <2>6. P(k - 1) \in Ways(tr, k - 1, Len(stored))
    BY <2>4, <2>5
  <2>7. P((k - 1) + 1) \in Ways(tr, (k - 1) + 1, Len(stored))
    BY <1>3, <2>4, <2>6
  <2>8. QED
    BY <2>2, <2>4, <2>7
<1>5. QED
  BY <1>4 DEF P

(* Going on does not change what has been passed.                          *)
LEMMA LookupHeld ==
  ASSUME NEW tr, NEW stored, Len(stored) \in Nat, SearchTree(tr, stored),
         NEW key, IsKey(key), NEW n \in {3, 4},
         NEW d \in 0..(tr.height - 1), NEW e \in 0..(tr.height - 1), d <= e,
         NEW c \in 1..d
  PROVE  PathTo(tr, key, e, n)[c] = PathTo(tr, key, d, n)[c]
<1> DEFINE P(f) == PathTo(tr, key, f, n)
           Bad == {f \in 0..(tr.height - 1) : d <= f /\ P(f)[c] # P(d)[c]}
<1>1. tr.height \in Nat \ {0}
  BY TreeIs
<1>2. ASSUME NEW f \in 0..(tr.height - 2), d <= f  PROVE P(f + 1)[c] = P(f)[c]
  <2>1. f \in Nat /\ f \in 0..(tr.height - 1) /\ c \in 1..f /\ f + 1 \in 0..(tr.height - 1)
    BY <1>1, <1>2
  <2>2. P(f) \in Ways(tr, f, Len(stored)) /\ P(f + 1) \in Ways(tr, f + 1, Len(stored))
    BY <2>1, LookupWay
  <2>3. P(f) \in Seq(Nat) /\ Len(P(f)) = f
    BY <2>1, <2>2, WayIs
  <2>4. P(f + 1) = Append(P(f), Position(tr, P(f), key, n))
    BY <2>1, PathToIs
  <2> DEFINE pos == Position(tr, P(f), key, n)
  <2> HIDE DEF P, pos
  <2>5. DOMAIN P(f) = 1..f
    BY <2>3
  <2>6. Append(P(f), pos)[c] = P(f)[c]
    BY <2>1, <2>3, <2>5
  <2>7. QED
    BY <2>4, <2>6 DEF pos
<1> HIDE DEF P
<1>3. Bad = {}
  <2>1. SUFFICES ASSUME Bad # {}  PROVE FALSE
    OBVIOUS
  <2>2. PICK k \in Bad : \A m \in Bad : k <= m
    <3>1. Bad \subseteq Nat
      OBVIOUS
    <3>2. QED
      BY <2>1, <3>1, LeastExists
  <2>3. k # d
    BY <2>2
  <2>4. k - 1 \in 0..(tr.height - 2) /\ k - 1 \in 0..(tr.height - 1) /\ d <= k - 1
        /\ ~(k <= k - 1) /\ (k - 1) + 1 = k
    BY <1>1, <2>2, <2>3
  <2>5. k - 1 \notin Bad
    BY <2>2, <2>4
  <2>6. P(k - 1)[c] = P(d)[c]
    BY <2>4, <2>5
  <2>7. P((k - 1) + 1)[c] = P(k - 1)[c]
    BY <1>2, <2>4
  <2>8. QED
    BY <2>2, <2>4, <2>6, <2>7
<1>4. QED
  BY <1>3 DEF P

(* The way a lookup takes to a leaf, and the answer of the search there.   *)
LookupLeaf(tr, key, n) == PathTo(tr, key, tr.height - 1, n)
LookupAt(tr, key, n) == FastSearch(key, LeafItems(tr, LookupLeaf(tr, key, n)), n)

(* A lookup comes down a way to a leaf and adds the place in it.           *)
LEMMA LookupIs ==
  ASSUME NEW tr, NEW stored, Len(stored) \in Nat, SearchTree(tr, stored),
         NEW key, IsKey(key), NEW n \in {3, 4}
  PROVE  LET L == LookupLeaf(tr, key, n)
             at == LookupAt(tr, key, n)
         IN  /\ tr.height \in Nat \ {0}
             /\ L \in Ways(tr, tr.height - 1, Len(stored))
             /\ \A d \in 1..(tr.height - 1) : Guided(NodeAt(tr, L, d).keys, L[d], key, n)
             /\ SearchRight(at, key, LeafItems(tr, L), n)
             /\ PathTo(tr, key, tr.height, n) = Append(L, at.pos)
<1> DEFINE P(f) == PathTo(tr, key, f, n)
           L == P(tr.height - 1)
<1>1. tr.height \in Nat \ {0}
  BY TreeIs
<1>2. L \in Ways(tr, tr.height - 1, Len(stored))
  <2>1. tr.height - 1 \in 0..(tr.height - 1)
    BY <1>1
  <2>2. QED
    BY <2>1, LookupWay
<1>3. ASSUME NEW d \in 1..(tr.height - 1)
      PROVE  Guided(NodeAt(tr, L, d).keys, L[d], key, n)
  <2> DEFINE c == d - 1
  <2>1. c \in 0..(tr.height - 2) /\ c \in 0..(tr.height - 1) /\ c \in Nat /\ c + 1 = d
        /\ d \in Nat \ {0} /\ d \in 0..(tr.height - 1) /\ d <= tr.height - 1
        /\ tr.height - 1 \in 0..(tr.height - 1) /\ d \in 1..d
    BY <1>1
  <2> HIDE DEF c
  <2>2. P(c) \in Ways(tr, c, Len(stored)) /\ P(d) \in Ways(tr, d, Len(stored))
    BY <2>1, LookupWay
  <2>3. Guided(NodeAt(tr, P(c), c + 1).keys, Position(tr, P(c), key, n), key, n)
    BY <2>1, <2>2, PositionGuided
  <2>4. P(d) = Append(P(c), Position(tr, P(c), key, n))
    BY <2>1, PathToIs
  <2>5. \A b \in 1..c : P(c)[b] = L[b]
    <3> SUFFICES ASSUME NEW b \in 1..c  PROVE P(c)[b] = L[b]
      OBVIOUS
    <3>1. c <= tr.height - 1
      BY <1>1, <2>1
    <3>2. QED
      BY <2>1, <3>1, LookupHeld
  <2>6. NodeAt(tr, P(c), d) = NodeAt(tr, L, d)
    <3>1. \A b \in 1..(d - 1) : P(c)[b] = L[b]
      BY <2>1, <2>5
    <3>2. QED
      BY <2>1, <3>1, NodeAtAgree
  <2>7. L[d] = P(d)[d]
    BY <2>1, LookupHeld
  <2>8. P(c) \in Seq(Nat) /\ Len(P(c)) = c
    BY <2>1, <2>2, WayIs
  <2> DEFINE pos == Position(tr, P(c), key, n)
  <2> HIDE DEF P, pos
  <2>9. Append(P(c), pos)[c + 1] = pos
    BY <2>8
  <2>10. L[d] = pos
    BY <2>1, <2>4, <2>7, <2>9 DEF pos
  <2>11. QED
    BY <2>1, <2>3, <2>6, <2>10 DEF pos
<1>4. /\ Len(LeafItems(tr, L)) \in Nat /\ DOMAIN LeafItems(tr, L) = 1..Len(LeafItems(tr, L))
      /\ Ordered(LeafItems(tr, L))
  BY <1>2, TreeIs
<1>5. SearchRight(FastSearch(key, LeafItems(tr, L), n), key, LeafItems(tr, L), n)
  BY <1>4, SearchIs
<1>6. P(tr.height) = Append(L, Position(tr, L, key, n))
  <2>1. tr.height - 1 \in Nat /\ (tr.height - 1) + 1 = tr.height
    BY <1>1
  <2>2. P((tr.height - 1) + 1) = Append(L, Position(tr, L, key, n))
    BY <2>1, PathToIs
  <2>3. QED
    BY <2>1, <2>2
<1>7. Position(tr, L, key, n) = FastSearch(key, LeafItems(tr, L), n).pos
  <2> DEFINE high == tr.height - 1
  <2>1. high \in Nat /\ L \in Ways(tr, high, Len(stored))
    BY <1>1, <1>2
  <2> HIDE DEF high, P
  <2>2. Len(L) = high
    BY <2>1, WayIs
  <2> USE DEF high
  <2>3. Len(L) + 1 = tr.height /\ ~(Len(L) + 1 < tr.height)
    BY <1>1, <2>2
  <2>4. QED
    BY <2>3 DEF Position, LeafItems
<1>8. QED
  BY <1>1, <1>2, <1>3, <1>5, <1>6, <1>7 DEF LookupLeaf, LookupAt

-----------------------------------------------------------------------------
(* Two ways to different leaves part at some node.                         *)
Part(way, other, d) ==
  /\ way[d] # other[d]
  /\ \A e \in 1..(d - 1) : way[e] = other[e]

(* Two different ways part at some node.                                   *)
LEMMA WaysPart ==
  ASSUME NEW depth \in Nat, NEW way \in Seq(Nat), Len(way) = depth,
         NEW other \in Seq(Nat), Len(other) = depth, way # other
  PROVE  \E d \in 1..depth : Part(way, other, d)
<1> DEFINE Bad == {d \in 1..depth : way[d] # other[d]}
<1>1. Bad # {}
  OBVIOUS
<1>2. PICK k \in Bad : \A m \in Bad : k <= m
  <2>1. Bad \subseteq Nat
    OBVIOUS
  <2>2. QED
    BY <1>1, <2>1, LeastExists
<1>3. ASSUME NEW e \in 1..(k - 1)  PROVE way[e] = other[e]
  <2>1. e \in 1..depth /\ ~(k <= e)
    BY <1>2
  <2>2. QED
    BY <1>2, <2>1
<1>4. QED
  BY <1>2, <1>3 DEF Part

(* An item of a leaf that is not where a lookup comes to is smaller than   *)
(* the key when the leaf is left of the way and larger when it is right.   *)
LEMMA Sides ==
  ASSUME NEW tr, NEW stored, Len(stored) \in Nat, SearchTree(tr, stored),
         NEW key, IsKey(key), NEW n \in {3, 4},
         NEW way \in Ways(tr, tr.height - 1, Len(stored)),
         NEW d \in 1..(tr.height - 1), Part(way, LookupLeaf(tr, key, n), d),
         NEW i \in DOMAIN LeafItems(tr, way)
  PROVE  Compare(LeafItems(tr, way)[i], key, n) =
           IF way[d] < LookupLeaf(tr, key, n)[d] THEN -1 ELSE 1
<1> DEFINE L == LookupLeaf(tr, key, n)
           keys == NodeAt(tr, way, d).keys
           x == LeafItems(tr, way)[i]
           high == tr.height - 1
<1>1. /\ tr.height \in Nat \ {0} /\ L \in Ways(tr, high, Len(stored))
      /\ Guided(NodeAt(tr, L, d).keys, L[d], key, n)
  BY LookupIs
<1>2. d \in Nat \ {0} /\ high \in Nat /\ d \in 1..high /\ d - 1 \in 0..(tr.height - 2) /\ (d - 1) + 1 = d
  BY <1>1
<1>3. NodeAt(tr, way, d) = NodeAt(tr, L, d) /\ way[d] # L[d]
  BY <1>2, NodeAtAgree DEF Part
<1>4. /\ LeafBounded(tr, way, LeafItems(tr, way)) /\ Ordered(LeafItems(tr, way))
  BY TreeIs
<1>5. /\ way[d] < Len(keys) => ThreeComponents(x, keys[way[d] + 1]) = -1
      /\ way[d] > 0 => FourComponents(keys[way[d]], x) \in {-1, 0}
  BY <1>2, <1>4 DEF LeafBounded, Below, From
<1>6. IsKey(x)
  BY <1>4 DEF Ordered
<1>7. way[d] \in Nat /\ L[d] \in Nat /\ way[d] < Len(NodeAt(tr, way, d).children)
  <2>1. /\ way \in Seq(Nat) /\ DOMAIN way = 1..high /\ way[d] < Len(NodeAt(tr, way, d).children)
    BY <1>2, WayIs
  <2>2. L \in Seq(Nat) /\ DOMAIN L = 1..high
    BY <1>1, <1>2, WayIs
  <2> HIDE DEF L, high
  <2>3. QED
    BY <1>2, <2>1, <2>2
<1>9. /\ Len(keys) \in Nat /\ DOMAIN keys = 1..Len(keys) /\ Ordered(keys)
      /\ Len(NodeAt(tr, way, d).children) = Len(keys) + 1
  <2> DEFINE c == d - 1
             up == PathTo(tr, key, c, n)
  <2>1. c \in 0..(tr.height - 2) /\ c \in 0..(tr.height - 1) /\ c + 1 = d /\ c <= tr.height - 1
        /\ tr.height - 1 \in 0..(tr.height - 1)
    BY <1>1, <1>2
  <2> HIDE DEF c
  <2>2. up \in Ways(tr, c, Len(stored))
    BY <2>1, LookupWay
  <2>3. \A b \in 1..c : up[b] = L[b]
    BY <2>1, LookupHeld DEF LookupLeaf
  <2>4. NodeAt(tr, up, d) = NodeAt(tr, L, d)
    <3>1. \A b \in 1..(d - 1) : up[b] = L[b]
      BY <2>3 DEF c
    <3>2. QED
      BY <1>2, <3>1, NodeAtAgree
  <2> DEFINE node == NodeAt(tr, up, c + 1)
  <2>5. /\ Len(node.keys) \in Nat /\ DOMAIN node.keys = 1..Len(node.keys) /\ Ordered(node.keys)
        /\ Len(node.children) = Len(node.keys) + 1
    BY <2>1, <2>2, TreeIs
  <2>6. QED
    BY <1>3, <2>1, <2>4, <2>5
<1>10. \A a, b \in 1..Len(keys) : IsKey(keys[a]) /\ (a < b => Compare(keys[a], keys[b], 3) = -1)
  <2> SUFFICES ASSUME NEW a \in 1..Len(keys), NEW b \in 1..Len(keys)
               PROVE  IsKey(keys[a]) /\ (a < b => Compare(keys[a], keys[b], 3) = -1)
    OBVIOUS
  <2>1. IsKey(keys[a]) /\ IsKey(keys[b]) /\ (a < b => ThreeComponents(keys[a], keys[b]) = -1)
    BY <1>9 DEF Ordered, Sorted
  <2>2. QED
    BY <2>1, CompareIs
<1>11. Guided(keys, L[d], key, n)
  BY <1>1, <1>3
<1> HIDE DEF keys, x, L, high
<1>12. CASE way[d] < L[d]
  <2>1. L[d] \in 1..Len(keys) /\ way[d] + 1 \in 1..Len(keys) /\ way[d] < Len(keys)
        /\ (way[d] + 1 < L[d] \/ way[d] + 1 = L[d])
    BY <1>7, <1>9, <1>11, <1>12 DEF Guided
  <2>2. Compare(x, keys[way[d] + 1], 3) = -1 /\ Compare(keys[L[d]], key, n) \in {-1, 0}
    <3>1. ThreeComponents(x, keys[way[d] + 1]) = -1
      BY <1>5, <2>1
    <3>2. Compare(keys[L[d]], key, n) \in {-1, 0}
      BY <2>1, <1>11 DEF Guided
    <3>3. QED
      BY <1>6, <1>10, <2>1, <3>1, <3>2, CompareIs
  <2> DEFINE low == keys[way[d] + 1]
             right == keys[L[d]]
  <2>3. IsKey(low) /\ IsKey(right) /\ (Compare(low, right, 3) = -1 \/ low = right)
    BY <1>10, <2>1
  <2>4. Compare(x, low, 3) = -1 /\ Compare(right, key, n) \in {-1, 0}
    BY <2>2
  <2> HIDE DEF low, right
  <2>5. Compare(x, right, 3) = -1
    <3>1. CASE low = right
      BY <2>4, <3>1
    <3>2. CASE Compare(low, right, 3) = -1
      BY <1>6, <2>3, <2>4, <3>2, CompareKeeps
    <3>3. QED
      BY <2>3, <3>1, <3>2
  <2>6. Compare(x, key, n) = -1
    BY <1>6, <2>3, <2>4, <2>5, CompareKeeps
  <2>7. QED
    BY <1>12, <2>6 DEF L, x
<1>13. CASE ~(way[d] < L[d])
  <2>1. way[d] \in 1..Len(keys) /\ L[d] + 1 \in 1..Len(keys) /\ L[d] < Len(keys)
        /\ (L[d] + 1 < way[d] \/ L[d] + 1 = way[d]) /\ way[d] > 0
    BY <1>3, <1>7, <1>9, <1>11, <1>13 DEF Guided
  <2> DEFINE low == keys[L[d] + 1]
             right == keys[way[d]]
  <2>2. Compare(low, key, n) = 1
    BY <2>1, <1>11 DEF Guided
  <2>3. IsKey(low) /\ IsKey(right) /\ (Compare(low, right, 3) = -1 \/ low = right)
    BY <1>10, <2>1
  <2>4. FourComponents(right, x) \in {-1, 0}
    BY <1>5, <2>1
  <2> HIDE DEF low, right
  <2>5. Compare(right, key, n) = 1
    <3>1. CASE low = right
      BY <2>2, <3>1
    <3>2. CASE Compare(low, right, 3) = -1
      BY <2>2, <2>3, <3>2, CompareKeeps
    <3>3. QED
      BY <2>3, <3>1, <3>2
  <2>6. Compare(right, x, 4) \in {-1, 0}
    BY <1>6, <2>3, <2>4, CompareIs
  <2>7. Compare(x, key, n) = 1
    BY <1>6, <2>3, <2>5, <2>6, CompareKeeps
  <2>8. QED
    BY <1>13, <2>7 DEF L, x
<1>14. QED
  BY <1>12, <1>13

-----------------------------------------------------------------------------
(* The way to a leaf.                                                      *)
LEMMA LeafWayIs ==
  ASSUME NEW tr, NEW stored, Len(stored) \in Nat, SearchTree(tr, stored),
         NEW way \in Ways(tr, tr.height - 1, Len(stored))
  PROVE  /\ tr.height \in Nat \ {0} /\ way \in Seq(Nat) /\ Len(way) = tr.height - 1
         /\ DOMAIN way = 1..(tr.height - 1) /\ \A d \in 1..(tr.height - 1) : way[d] \in Nat
<1> DEFINE high == tr.height - 1
           most == Len(stored)
<1>1. tr.height \in Nat \ {0} /\ high \in Nat /\ most \in Nat /\ way \in Ways(tr, high, most)
  BY TreeIs
<1> HIDE DEF high, most
<1>2. way \in Seq(Nat) /\ Len(way) = high /\ DOMAIN way = 1..high
  BY <1>1, WayIs
<1>3. \A d \in 1..high : way[d] \in Nat
  BY <1>2
<1>4. QED
  BY <1>1, <1>2, <1>3 DEF high

(* The path that ends at an item of a leaf.                                *)
EndsAt(tr, L, pos, to) ==
  /\ to \in Seq(Nat) /\ Len(to) = tr.height /\ to[tr.height] = pos
  /\ Leaf(tr, to).items = LeafItems(tr, L) /\ ItemAt(tr, to) = LeafItems(tr, L)[pos + 1]
  /\ \A d \in 1..(tr.height - 1) : to[d] = L[d] /\ NodeAt(tr, to, d) = NodeAt(tr, L, d)
  /\ pos > 0 => StepBack(to) = Append(L, pos - 1)

(* A way with a position added is a path to that item of the leaf.         *)
LEMMA PathIs ==
  ASSUME NEW tr, NEW stored, Len(stored) \in Nat, SearchTree(tr, stored),
         NEW L \in Ways(tr, tr.height - 1, Len(stored)), NEW pos \in Nat
  PROVE  EndsAt(tr, L, pos, Append(L, pos))
<1> DEFINE to == Append(L, pos)
           high == tr.height - 1
<1>1. tr.height \in Nat \ {0} /\ high \in Nat /\ L \in Ways(tr, high, Len(stored)) /\ high + 1 = tr.height
  BY TreeIs
<1> HIDE DEF high
<1>2. L \in Seq(Nat) /\ Len(L) = high
  BY <1>1, WayIs
<1>3. /\ to \in Seq(Nat) /\ Len(to) = high + 1 /\ DOMAIN to = 1..(high + 1)
      /\ (\A d \in 1..high : to[d] = L[d]) /\ to[high + 1] = pos
  BY <1>2, AppendIs
<1>4. pos > 0 => StepBack(to) = Append(L, pos - 1)
  <2> SUFFICES ASSUME pos > 0  PROVE StepBack(to) = Append(L, pos - 1)
    OBVIOUS
  <2>1. StepBack(to) = [to EXCEPT ![high + 1] = pos - 1]
    BY <1>3 DEF StepBack
  <2>2. pos - 1 \in Nat
    OBVIOUS
  <2> DEFINE back == Append(L, pos - 1)
  <2>3. /\ back \in Seq(Nat) /\ Len(back) = high + 1 /\ DOMAIN back = 1..(high + 1)
        /\ (\A d \in 1..high : back[d] = L[d]) /\ back[high + 1] = pos - 1
    BY <1>2, <2>2, AppendIs
  <2> HIDE DEF back, to
  <2> DEFINE set == [to EXCEPT ![high + 1] = pos - 1]
  <2>4. set \in Seq(Nat) /\ Len(set) = high + 1 /\ set[high + 1] = pos - 1
        /\ \A d \in 1..high : set[d] = to[d]
    BY <1>1, <1>3, <2>2
  <2> HIDE DEF set
  <2>5. \A d \in 1..(high + 1) : set[d] = back[d]
    <3>1. \A d \in 1..(high + 1) : d = high + 1 \/ d \in 1..high
      BY <1>1
    <3>2. QED
      BY <1>3, <2>3, <2>4, <3>1
  <2>6. set = back
    BY <2>3, <2>4, <2>5
  <2>7. QED
    BY <2>1, <2>6 DEF back, set
<1> HIDE DEF to
<1>5. \A d \in 1..tr.height : NodeAt(tr, to, d) = NodeAt(tr, L, d)
  <2> SUFFICES ASSUME NEW d \in 1..tr.height  PROVE NodeAt(tr, to, d) = NodeAt(tr, L, d)
    OBVIOUS
  <2>1. \A e \in 1..(d - 1) : to[e] = L[e]
    BY <1>1, <1>3
  <2>2. d \in Nat \ {0}
    OBVIOUS
  <2>3. QED
    BY <2>1, <2>2, NodeAtAgree
<1>6. NodeAt(tr, to, tr.height) = NodeAt(tr, L, tr.height)
  BY <1>1, <1>5
<1>7. Leaf(tr, to).items = LeafItems(tr, L) /\ ItemAt(tr, to) = LeafItems(tr, L)[pos + 1]
  BY <1>1, <1>3, <1>6 DEF Leaf, ItemAt, LeafItems
<1>8. \A d \in 1..(tr.height - 1) : to[d] = L[d] /\ NodeAt(tr, to, d) = NodeAt(tr, L, d)
  BY <1>1, <1>3, <1>5
<1>9. QED
  BY <1>1, <1>3, <1>4, <1>7, <1>8 DEF to, EndsAt

(* A key compares with itself as equal.                                    *)
LEMMA CompareSelf ==
  ASSUME NEW a, IsKey(a), NEW n \in {3, 4}
  PROVE  Compare(a, a, n) = 0
<1>1. n = 3 \/ n = 4
  OBVIOUS
<1>2. QED
  BY <1>1, CompareIs

(* A lookup comes to the item that is equal to the key.                    *)
LEMMA LookupLeads ==
  ASSUME NEW tr, NEW stored, Len(stored) \in Nat, SearchTree(tr, stored),
         NEW key, IsKey(key), NEW n \in {3, 4},
         NEW way \in Ways(tr, tr.height - 1, Len(stored)),
         NEW i \in DOMAIN LeafItems(tr, way),
         Compare(LeafItems(tr, way)[i], key, n) = 0
  PROVE  LET to == PathTo(tr, key, tr.height, n)
         IN  /\ LookupLeaf(tr, key, n) = way /\ to = Append(way, i - 1)
             /\ Found(tr, to, key, n) /\ ItemAt(tr, to) = LeafItems(tr, way)[i]
<1> DEFINE L == LookupLeaf(tr, key, n)
           at == LookupAt(tr, key, n)
           to == PathTo(tr, key, tr.height, n)
           high == tr.height - 1
<1>1. /\ tr.height \in Nat \ {0}
      /\ L \in Ways(tr, tr.height - 1, Len(stored))
      /\ SearchRight(at, key, LeafItems(tr, L), n)
      /\ to = Append(L, at.pos)
  BY LookupIs
<1>2. L = way
  <2>1. SUFFICES ASSUME L # way  PROVE FALSE
    OBVIOUS
  <2>2. high \in Nat /\ L \in Ways(tr, high, Len(stored)) /\ way \in Ways(tr, high, Len(stored))
    BY <1>1
  <2> HIDE DEF high, L
  <2>3. L \in Seq(Nat) /\ Len(L) = high /\ way \in Seq(Nat) /\ Len(way) = high
    BY <2>2, WayIs
  <2>4. PICK d \in 1..high : Part(way, L, d)
    BY <2>1, <2>2, <2>3, WaysPart
  <2>5. Compare(LeafItems(tr, way)[i], key, n) = IF way[d] < L[d] THEN -1 ELSE 1
    BY <2>4, Sides DEF L, high
  <2>6. QED
    BY <2>5
<1> DEFINE items == LeafItems(tr, way)
<1>3. Len(items) \in Nat /\ DOMAIN items = 1..Len(items) /\ Ordered(items)
  BY TreeIs
<1> HIDE DEF items, at
<1>4. SearchRight(at, key, items, n) /\ i \in 1..Len(items) /\ Compare(items[i], key, n) = 0
  BY <1>1, <1>2, <1>3 DEF items
<1>5. at.found
  BY <1>4 DEF SearchRight
<1>6. at.pos \in Nat /\ at.pos + 1 \in 1..Len(items) /\ Compare(items[at.pos + 1], key, n) = 0
  BY <1>3, <1>4, <1>5 DEF SearchRight
<1>7. at.pos + 1 = i
  <2>1. ASSUME NEW a \in 1..Len(items), NEW b \in 1..Len(items), a < b,
               Compare(items[a], key, n) = 0, Compare(items[b], key, n) = 0
        PROVE  FALSE
    <3>1. IsKey(items[a]) /\ IsKey(items[b]) /\ ThreeComponents(items[a], items[b]) = -1
      BY <1>3, <2>1 DEF Ordered, Sorted
    <3>2. Compare(items[a], items[b], 3) = -1
      BY <3>1, CompareIs
    <3>3. Compare(items[b], key, n) = 1
      BY <2>1, <3>1, <3>2, CompareKeeps
    <3>4. QED
      BY <2>1, <3>3
  <2>2. CASE at.pos + 1 < i
    BY <1>4, <1>6, <2>1, <2>2
  <2>3. CASE i < at.pos + 1
    BY <1>4, <1>6, <2>1, <2>3
  <2>4. QED
    BY <1>4, <1>6, <2>2, <2>3
<1>8. to = Append(way, i - 1)
  BY <1>1, <1>2, <1>4, <1>6, <1>7
<1>9. /\ Append(way, i - 1)[tr.height] = i - 1 /\ Leaf(tr, Append(way, i - 1)).items = items
      /\ ItemAt(tr, Append(way, i - 1)) = items[(i - 1) + 1]
  <2>1. i - 1 \in Nat
    BY <1>4
  <2> DEFINE pos == i - 1
  <2> HIDE DEF pos
  <2>2. pos \in Nat
    BY <2>1 DEF pos
  <2>3. EndsAt(tr, way, pos, Append(way, pos))
    BY <2>2, PathIs
  <2>4. QED
    BY <2>3 DEF pos, EndsAt, items
<1>10. (i - 1) + 1 = i /\ i - 1 < Len(items)
  BY <1>3, <1>4
<1> HIDE DEF to
<1>11. Found(tr, to, key, n) /\ ItemAt(tr, to) = items[i]
  BY <1>4, <1>8, <1>9, <1>10 DEF Found
<1>12. QED
  BY <1>2, <1>8, <1>11 DEF to, items

(* The items of a leaf come before those of a leaf right of it.            *)
LEMMA LeavesOrdered ==
  ASSUME NEW tr, NEW stored, Len(stored) \in Nat, SearchTree(tr, stored),
         NEW way \in Ways(tr, tr.height - 1, Len(stored)),
         NEW other \in Ways(tr, tr.height - 1, Len(stored)),
         NEW d \in 1..(tr.height - 1), Part(way, other, d), way[d] < other[d],
         NEW i \in DOMAIN LeafItems(tr, way), NEW j \in DOMAIN LeafItems(tr, other)
  PROVE  Compare(LeafItems(tr, way)[i], LeafItems(tr, other)[j], 3) = -1
<1> DEFINE key == LeafItems(tr, other)[j]
<1>1. IsKey(key)
  BY TreeIs DEF Ordered
<1>2. Compare(key, key, 3) = 0
  BY <1>1, CompareSelf
<1>3. LookupLeaf(tr, key, 3) = other
  <2> DEFINE n == 3
  <2>1. n \in {3, 4} /\ Compare(LeafItems(tr, other)[j], key, n) = 0
    BY <1>2
  <2> HIDE DEF n
  <2>2. LookupLeaf(tr, key, n) = other
    <3> HIDE DEF key
    <3>1. IsKey(key) /\ Compare(LeafItems(tr, other)[j], key, n) = 0
      BY <1>1, <2>1
    <3>2. QED
      BY <2>1, <3>1, LookupLeads
  <2>3. QED
    BY <2>2 DEF n
<1> HIDE DEF key
<1>4. Compare(LeafItems(tr, way)[i], key, 3) = -1
  <2> DEFINE n == 3
  <2>1. n \in {3, 4} /\ Part(way, LookupLeaf(tr, key, n), d) /\ way[d] < LookupLeaf(tr, key, n)[d]
    BY <1>3
  <2> HIDE DEF n
  <2>2. Compare(LeafItems(tr, way)[i], key, n) = -1
    BY <1>1, <2>1, Sides
  <2>3. QED
    BY <2>2 DEF n
<1>5. QED
  BY <1>4 DEF key

-----------------------------------------------------------------------------
(* Where a caller looks that takes the item before the place of a key that *)
(* is not there.                                                           *)
Come(tr, key, n) ==
  LET to == PathTo(tr, key, tr.height, n)
  IN  IF Found(tr, to, key, n) THEN to ELSE StepBack(to)

(* The last item that is not larger than the key.                          *)
LastBefore(stored, items, key, n, j) ==
  /\ j \in 1..Len(items) /\ Compare(items[j], key, n) \in {-1, 0}
  /\ \A k \in DOMAIN stored : \/ Compare(stored[k], key, n) = 1 \/ stored[k] = items[j]
                              \/ Compare(stored[k], items[j], 3) = -1

ComesTo(tr, stored, key, n, j) ==
  /\ LastBefore(stored, LeafItems(tr, LookupLeaf(tr, key, n)), key, n, j)
  /\ Come(tr, key, n) = Append(LookupLeaf(tr, key, n), j - 1)

(* It comes to this item when there is one that is not larger.             *)
LEMMA ComeIs ==
  ASSUME NEW tr, NEW stored, Len(stored) \in Nat, SearchTree(tr, stored),
         NEW key, IsKey(key), NEW n \in {3, 4},
         NEW least \in DOMAIN stored, Compare(stored[least], key, n) \in {-1, 0}
  PROVE  \E j \in Nat : ComesTo(tr, stored, key, n, j)
<1> DEFINE L == LookupLeaf(tr, key, n)
           at == LookupAt(tr, key, n)
           to == PathTo(tr, key, tr.height, n)
           high == tr.height - 1
           items == LeafItems(tr, L)
<1>1. /\ tr.height \in Nat \ {0}
      /\ L \in Ways(tr, tr.height - 1, Len(stored))
      /\ \A d \in 1..(tr.height - 1) : Guided(NodeAt(tr, L, d).keys, L[d], key, n)
      /\ SearchRight(at, key, items, n)
      /\ to = Append(L, at.pos)
  BY LookupIs
<1>2. /\ Len(items) \in Nat \ {0} /\ DOMAIN items = 1..Len(items) /\ Ordered(items)
      /\ LeafBounded(tr, L, items)
  BY <1>1, TreeIs
<1>3. \A k \in DOMAIN stored : \E way \in Ways(tr, high, Len(stored)) :
        \E i \in DOMAIN LeafItems(tr, way) : LeafItems(tr, way)[i] = stored[k]
  BY DEF SearchTree
<1>4. high \in Nat /\ L \in Ways(tr, high, Len(stored)) /\ high = tr.height - 1
  BY <1>1
<1>5. L \in Seq(Nat) /\ Len(L) = high /\ DOMAIN L = 1..high
  BY <1>1, LeafWayIs
<1> HIDE DEF L, high, items, to, at
<1>6. \A d \in 1..high : L[d] \in Nat
  BY <1>5
(* Every item is in the leaf, or left or right of it.                      *)
<1>7. ASSUME NEW k \in DOMAIN stored
      PROVE  \/ Compare(stored[k], key, n) = 1
             \/ \E i \in 1..Len(items) : items[i] = stored[k]
             \/ /\ Compare(stored[k], key, n) = -1 /\ \E d \in 1..high : L[d] > 0
                /\ \A j \in 1..Len(items) : Compare(stored[k], items[j], 3) = -1
  <2>1. PICK way \in Ways(tr, high, Len(stored)) :
          \E i \in DOMAIN LeafItems(tr, way) : LeafItems(tr, way)[i] = stored[k]
    BY <1>3
  <2>2. PICK i \in DOMAIN LeafItems(tr, way) : LeafItems(tr, way)[i] = stored[k]
    BY <2>1
  <2>3. CASE way = L
    BY <1>2, <2>2, <2>3 DEF items
  <2>4. CASE way # L
    <3>1. way \in Seq(Nat) /\ Len(way) = high
      BY LeafWayIs DEF high
    <3>2. PICK d \in 1..high : Part(way, L, d)
      BY <1>4, <1>5, <2>4, <3>1, WaysPart
    <3>3. Compare(stored[k], key, n) = IF way[d] < L[d] THEN -1 ELSE 1
      BY <1>4, <2>2, <3>2, Sides DEF L
    <3>4. CASE way[d] < L[d]
      <4>1. L[d] > 0
        <5>1. way[d] \in Nat
          BY <1>4, <3>1
        <5>2. QED
          BY <1>6, <3>4, <5>1
      <4>2. ASSUME NEW j \in 1..Len(items)
            PROVE  Compare(stored[k], items[j], 3) = -1
        <5>1. j \in DOMAIN LeafItems(tr, L)
          BY <1>2 DEF items
        <5>2. Compare(LeafItems(tr, way)[i], LeafItems(tr, L)[j], 3) = -1
          BY <1>4, <3>2, <3>4, <5>1, LeavesOrdered
        <5>3. QED
          BY <2>2, <5>2 DEF items
      <4>3. QED
        BY <3>3, <3>4, <4>1, <4>2
    <3>5. CASE ~(way[d] < L[d])
      BY <3>3, <3>5
    <3>6. QED
      BY <3>4, <3>5
  <2>5. QED
    BY <2>3, <2>4
<1>8. ASSUME NEW a \in 1..Len(items), NEW b \in 1..Len(items), a < b
      PROVE  /\ IsKey(items[a]) /\ IsKey(items[b]) /\ Compare(items[a], items[b], 3) = -1
             /\ Compare(items[a], key, n) = 0 => Compare(items[b], key, n) = 1
  <2>1. IsKey(items[a]) /\ IsKey(items[b]) /\ ThreeComponents(items[a], items[b]) = -1
    BY <1>2, <1>8 DEF Ordered, Sorted
  <2>2. Compare(items[a], items[b], 3) = -1
    BY <2>1, CompareIs
  <2>3. QED
    BY <2>1, <2>2, CompareKeeps
<1>9. at.pos \in Nat /\ at.pos <= Len(items)
  BY <1>1 DEF SearchRight
<1>10. /\ to[tr.height] = at.pos /\ Leaf(tr, to).items = items
       /\ ItemAt(tr, to) = items[at.pos + 1]
       /\ at.pos > 0 => StepBack(to) = Append(L, at.pos - 1)
  <2> DEFINE pos == at.pos
  <2>1. pos \in Nat /\ L \in Ways(tr, tr.height - 1, Len(stored)) /\ to = Append(L, pos)
    BY <1>1, <1>9
  <2> HIDE DEF pos
  <2>2. EndsAt(tr, L, pos, to)
    BY <2>1, PathIs
  <2>3. QED
    BY <2>1, <2>2 DEF items, pos, EndsAt
<1>11. CASE at.found
  <2>1. at.pos < Len(items) /\ Compare(items[at.pos + 1], key, n) = 0
    BY <1>1, <1>11 DEF SearchRight
  <2>2. Found(tr, to, key, n)
    BY <1>10, <2>1 DEF Found
  <2> DEFINE j == at.pos + 1
  <2>3. j \in 1..Len(items) /\ j \in Nat /\ j - 1 = at.pos /\ Compare(items[j], key, n) = 0
    BY <1>2, <1>9, <2>1
  <2> HIDE DEF j
  <2>4. ASSUME NEW k \in DOMAIN stored
        PROVE  \/ Compare(stored[k], key, n) = 1 \/ stored[k] = items[j]
               \/ Compare(stored[k], items[j], 3) = -1
    <3>1. ASSUME NEW i \in 1..Len(items), items[i] = stored[k]
          PROVE  \/ Compare(stored[k], key, n) = 1 \/ stored[k] = items[j]
                 \/ Compare(stored[k], items[j], 3) = -1
      <4>1. i < j \/ i = j \/ j < i
        BY <2>3
      <4>2. QED
        BY <1>8, <2>3, <3>1, <4>1
    <3>2. QED
      BY <1>7, <2>3, <3>1
  <2>5. LastBefore(stored, items, key, n, j)
    BY <2>3, <2>4 DEF LastBefore
  <2>6. Come(tr, key, n) = Append(L, j - 1)
    BY <1>1, <2>2, <2>3 DEF Come, to
  <2>7. QED
    BY <2>3, <2>5, <2>6 DEF ComesTo, items, L
<1>12. CASE ~at.found
  <2>1. \A i \in 1..Len(items) : Compare(items[i], key, n) = IF i <= at.pos THEN -1 ELSE 1
    BY <1>1, <1>12 DEF SearchRight
  <2>2. ~Found(tr, to, key, n)
    <3>1. SUFFICES ASSUME at.pos < Len(items), Compare(items[at.pos + 1], key, n) = 0  PROVE FALSE
      BY <1>10 DEF Found
    <3>2. at.pos + 1 \in 1..Len(items)
      BY <1>2, <1>9, <3>1
    <3>3. QED
      BY <2>1, <3>1, <3>2
(* The place is not left of the leaf: where the way last turned from the   *)
(* leftmost child, the key there is that of the leaf's first item.         *)
  <2>3. at.pos > 0
    <3>1. SUFFICES ASSUME at.pos = 0  PROVE FALSE
      BY <1>9
    <3>2. 1 \in 1..Len(items) /\ Compare(items[1], key, n) = 1
      BY <1>2, <2>1, <3>1
    <3>3. \A i \in 1..Len(items) : Compare(items[i], key, n) = 1
      BY <2>1, <3>1
    <3>4. PICK d \in 1..high : L[d] > 0
      <4>1. Compare(stored[least], key, n) # 1
        OBVIOUS
      <4>2. ~\E i \in 1..Len(items) : items[i] = stored[least]
        BY <3>3, <4>1
      <4>3. QED
        BY <1>7, <4>1, <4>2
    <3> DEFINE Turns == {e \in 1..high : L[e] > 0}
               Dist == {high - e : e \in Turns}
    <3>5. PICK e \in Turns : \A f \in Turns : f <= e
      <4>1. Dist \subseteq Nat /\ Dist # {}
        BY <1>4, <3>4
      <4>2. PICK m \in Dist : \A q \in Dist : m <= q
        BY <4>1, LeastExists
      <4>3. PICK e \in Turns : m = high - e
        BY <4>2
      <4>4. ASSUME NEW f \in Turns  PROVE f <= e
        <5>1. m <= high - f
          BY <4>2
        <5>2. f \in Int /\ e \in Int
          OBVIOUS
        <5>3. QED
          BY <1>4, <4>3, <5>1, <5>2
      <4>5. QED
        BY <4>3, <4>4
    <3>6. e \in 1..high /\ L[e] > 0 /\ \A f \in (e + 1)..high : L[f] = 0
      <4>1. e \in 1..high /\ L[e] > 0
        BY <3>5
      <4>2. ASSUME NEW f \in (e + 1)..high  PROVE L[f] = 0
        <5>1. f \in 1..high /\ ~(f <= e)
          BY <4>1
        <5>2. f \notin Turns
          BY <3>5, <5>1
        <5>3. QED
          BY <1>6, <5>1, <5>2
      <4>3. QED
        BY <4>1, <4>2
    <3> DEFINE sep == NodeAt(tr, L, e).keys[L[e]]
    <3>7. FourComponents(sep, items[1]) = 0
      BY <1>2, <1>4, <3>6 DEF LeafBounded
    <3>8. Compare(sep, key, n) \in {-1, 0}
      BY <1>1, <1>4, <3>6 DEF Guided
    <3>9. IsKey(sep)
      <4> DEFINE c == e - 1
                 up == PathTo(tr, key, c, n)
                 keys == NodeAt(tr, up, c + 1).keys
      <4>1. c \in 0..(tr.height - 2) /\ c \in 0..(tr.height - 1) /\ c + 1 = e /\ c <= tr.height - 1
            /\ tr.height - 1 \in 0..(tr.height - 1) /\ e \in Nat \ {0}
        BY <1>1, <1>4, <3>6, SMTT(40)
      <4> HIDE DEF c
      <4>2. up \in Ways(tr, c, Len(stored))
        BY <4>1, LookupWay
      <4>3. \A b \in 1..c : up[b] = L[b]
        BY <4>1, LookupHeld DEF LookupLeaf, L
      <4>4. NodeAt(tr, up, e) = NodeAt(tr, L, e)
        <5>1. \A b \in 1..(e - 1) : up[b] = L[b]
          BY <4>3 DEF c
        <5>2. QED
          BY <4>1, <5>1, NodeAtAgree
      <4>5. Len(keys) \in Nat /\ DOMAIN keys = 1..Len(keys) /\ Ordered(keys)
        BY <4>1, <4>2, TreeIs
      <4>6. keys = NodeAt(tr, L, e).keys
        BY <4>1, <4>4
      <4>7. L[e] \in 1..Len(keys)
        BY <1>1, <1>4, <1>6, <3>6, <4>5, <4>6 DEF Guided
      <4> HIDE DEF keys
      <4>8. IsKey(keys[L[e]])
        BY <4>5, <4>7 DEF Ordered
      <4>9. QED
        BY <4>6, <4>8
    <3> HIDE DEF sep
    <3>10. IsKey(items[1]) /\ Compare(sep, items[1], 4) = 0
      <4>1. IsKey(items[1])
        BY <1>2, <3>2 DEF Ordered
      <4>2. QED
        BY <3>7, <3>9, <4>1, CompareIs
    <3>11. Compare(sep, key, n) = Compare(items[1], key, n)
      BY <3>9, <3>10, CompareKeeps
    <3>12. QED
      BY <3>2, <3>8, <3>11
  <2> DEFINE j == at.pos
  <2>4. j \in 1..Len(items) /\ j \in Nat
    BY <1>2, <1>9, <2>3
  <2> HIDE DEF j
  <2>5. \A i \in 1..Len(items) : Compare(items[i], key, n) = IF i <= j THEN -1 ELSE 1
    BY <2>1 DEF j
  <2>6. Compare(items[j], key, n) = -1
    BY <2>4, <2>5
  <2>7. ASSUME NEW k \in DOMAIN stored
        PROVE  \/ Compare(stored[k], key, n) = 1 \/ stored[k] = items[j]
               \/ Compare(stored[k], items[j], 3) = -1
    <3>1. ASSUME NEW i \in 1..Len(items), items[i] = stored[k]
          PROVE  \/ Compare(stored[k], key, n) = 1 \/ stored[k] = items[j]
                 \/ Compare(stored[k], items[j], 3) = -1
      <4>1. i < j \/ i = j \/ (j < i /\ ~(i <= j))
        BY <2>4
      <4>2. QED
        BY <1>8, <2>4, <2>5, <3>1, <4>1
    <3>2. QED
      BY <1>7, <2>4, <3>1
  <2>8. LastBefore(stored, items, key, n, j)
    BY <2>4, <2>6, <2>7 DEF LastBefore
  <2>9. Come(tr, key, n) = Append(L, j - 1)
    BY <1>10, <2>2, <2>3 DEF Come, to, j
  <2>10. QED
    BY <2>4, <2>8, <2>9 DEF ComesTo, items, L
<1>13. QED
  BY <1>11, <1>12

-----------------------------------------------------------------------------
(* The objects.                                                            *)
(* What is in a tree and which of it are an object's items.                *)
LEMMA ObjectIs ==
  ASSUME NEW o \in Objects
  PROVE  /\ Len(o.stored) \in Nat /\ SearchTree(o.tree, o.stored)
         /\ \A k \in DOMAIN o.stored : IsKey(o.stored[k])
         /\ Len(o.items) \in Nat \ {0} /\ DOMAIN o.items = 1..Len(o.items)
         /\ \A k \in DOMAIN o.items :
              /\ IsKey(o.items[k]) /\ o.items[k].obj = Object
              /\ \E i \in DOMAIN o.stored : o.items[k] = o.stored[i]
         /\ \A i \in DOMAIN o.stored :
              o.stored[i].obj = Object => \E k \in DOMAIN o.items : o.stored[i] = o.items[k]
         /\ \A j, k \in DOMAIN o.items : j < k => Compare(o.items[j], o.items[k], 3) = -1
<1> DEFINE stored == o.stored
           items == o.items
           contents == {stored[k] : k \in DOMAIN stored}
           own == {stored[k] : k \in {i \in DOMAIN stored : stored[i].obj = Object}}
<1>1. /\ stored \in Seq(contents) /\ SearchTree(o.tree, stored)
      /\ items \in Seq({items[k] : k \in DOMAIN items}) \ {<<>>} /\ Sorted(items)
      /\ {items[k] : k \in DOMAIN items} = own
  BY ObjectsAssumption DEF Laid
<1>2. Len(stored) \in Nat
  <2> HIDE DEF contents
  <2>1. QED
    BY <1>1
<1>3. ASSUME NEW k \in DOMAIN stored  PROVE IsKey(stored[k])
  <2>1. PICK way \in Ways(o.tree, o.tree.height - 1, Len(stored)) :
          \E i \in DOMAIN LeafItems(o.tree, way) : LeafItems(o.tree, way)[i] = stored[k]
    BY <1>1 DEF SearchTree
  <2>2. Ordered(LeafItems(o.tree, way))
    BY <1>1 DEF SearchTree
  <2>3. QED
    BY <2>1, <2>2 DEF Ordered
<1>4. Len(items) \in Nat \ {0} /\ DOMAIN items = 1..Len(items)
  <2> DEFINE values == {items[k] : k \in DOMAIN items}
  <2>1. items \in Seq(values) /\ items # <<>>
    BY <1>1
  <2> HIDE DEF values, items
  <2>2. Len(items) \in Nat /\ DOMAIN items = 1..Len(items) /\ Len(items) # 0
    BY <2>1
  <2>3. QED
    BY <2>2
<1>5. ASSUME NEW k \in DOMAIN items
      PROVE  /\ IsKey(items[k]) /\ items[k].obj = Object
             /\ \E i \in DOMAIN stored : items[k] = stored[i]
  <2>1. items[k] \in own
    BY <1>1
  <2>2. PICK i \in DOMAIN stored : stored[i].obj = Object /\ items[k] = stored[i]
    BY <2>1
  <2>3. QED
    BY <1>3, <2>2
<1>6. ASSUME NEW i \in DOMAIN stored, stored[i].obj = Object
      PROVE  \E k \in DOMAIN items : stored[i] = items[k]
  <2>1. stored[i] \in own
    BY <1>6
  <2>2. QED
    BY <1>1, <2>1
<1>7. ASSUME NEW j \in DOMAIN items, NEW k \in DOMAIN items, j < k
      PROVE  Compare(items[j], items[k], 3) = -1
  <2>1. ThreeComponents(items[j], items[k]) = -1
    BY <1>1, <1>7 DEF Sorted
  <2>2. IsKey(items[j]) /\ IsKey(items[k])
    BY <1>5
  <2>3. QED
    BY <2>1, <2>2, CompareIs
<1>8. QED
  BY <1>1, <1>2, <1>3, <1>4, <1>5, <1>6, <1>7

(* The types and offsets of its items: only the first is a stat item.      *)
LEMMA ItemsAre ==
  ASSUME NEW o \in Objects
  PROVE  /\ o.kind \in {"file", "directory"}
         /\ o.kind = "file" => FileLaid(o)
         /\ o.kind # "file" => DirectoryLaid(o)
         /\ o.items[1].type = SD /\ o.items[1].off = 0
         /\ \A k \in 2..Len(o.items) : o.items[k].off # 0 /\ o.items[k].type \in {IT, DT, DR}
         /\ \A k \in 1..Len(o.items) : KeyOffset(o.items[k]) = o.items[k].off
<1>1. /\ o.items[1].type = SD /\ o.items[1].off = 0
      /\ \A k \in 2..Len(o.items) : o.items[k].off # 0
      /\ \/ o.kind = "file" /\ FileLaid(o)
         \/ o.kind = "directory" /\ DirectoryLaid(o)
  BY ObjectsAssumption DEF Laid
<1>2. \A k \in 2..Len(o.items) : o.items[k].type \in {IT, DT, DR}
  BY <1>1 DEF FileLaid, DirectoryLaid
<1>3. ASSUME NEW k \in 1..Len(o.items)  PROVE KeyOffset(o.items[k]) = o.items[k].off
  <2>1. Len(o.items) \in Nat
    BY ObjectIs
  <2>2. CASE k = 1
    <3>1. 0 % Wrap = 0
      BY WrapAssumption
    <3>2. QED
      BY <1>1, <2>2, <3>1 DEF KeyOffset, SD
  <2>3. CASE k # 1
    <3>1. k \in 2..Len(o.items)
      BY <2>1, <2>3
    <3>2. o.items[k].type \in {IT, DT, DR}
      BY <1>2, <3>1
    <3>3. o.items[k].type # SD
      BY <3>2 DEF SD, IT, DT, DR
    <3>4. QED
      BY <3>3 DEF KeyOffset
  <2>4. QED
    BY <2>2, <2>3
<1>4. QED
  BY <1>1, <1>2, <1>3

(* A path that ends at an item of the object, and which item of its leaf.  *)
Own(o, to, L, j) ==
  /\ L \in Ways(o.tree, o.tree.height - 1, Len(o.stored))
  /\ j \in 1..Len(LeafItems(o.tree, L)) /\ to = Append(L, j - 1)
  /\ LeafItems(o.tree, L)[j].obj = Object

(* Where such a path ends: at one of the object's items.                   *)
LEMMA OwnIs ==
  ASSUME NEW o \in Objects, NEW to, NEW L, NEW j, Own(o, to, L, j)
  PROVE  /\ ItemAt(o.tree, to) = LeafItems(o.tree, L)[j] /\ Len(to) = o.tree.height
         /\ j \in Nat /\ EndsAt(o.tree, L, j - 1, to)
         /\ \E k \in 1..Len(o.items) : ItemAt(o.tree, to) = o.items[k]
<1> DEFINE pos == j - 1
           items == LeafItems(o.tree, L)
<1>1. Len(o.stored) \in Nat /\ SearchTree(o.tree, o.stored)
  BY ObjectIs
<1>2. L \in Ways(o.tree, o.tree.height - 1, Len(o.stored))
  BY DEF Own
<1>3. /\ Len(items) \in Nat \ {0} /\ DOMAIN items = 1..Len(items)
      /\ \A i \in 1..Len(items) : \E k \in DOMAIN o.stored : items[i] = o.stored[k]
  BY <1>1, <1>2, TreeIs
<1>4. j \in 1..Len(items) /\ to = Append(L, pos) /\ items[j].obj = Object
  BY DEF Own
<1>5. pos \in Nat /\ pos + 1 = j /\ j \in Nat
  BY <1>3, <1>4
<1> HIDE DEF pos, items
<1>6. EndsAt(o.tree, L, pos, to)
  BY <1>1, <1>2, <1>4, <1>5, PathIs
<1>7. ItemAt(o.tree, to) = items[j] /\ Len(to) = o.tree.height
  BY <1>5, <1>6 DEF EndsAt, items
<1>8. PICK k \in DOMAIN o.stored : items[j] = o.stored[k]
  BY <1>3, <1>4
<1>9. \E i \in DOMAIN o.items : o.stored[k] = o.items[i]
  BY <1>4, <1>8, ObjectIs
<1>10. DOMAIN o.items = 1..Len(o.items)
  BY ObjectIs
<1>11. QED
  BY <1>5, <1>6, <1>7, <1>8, <1>9, <1>10 DEF pos, items

(* The lookup of the key of any item of a search tree comes to that item,  *)
(* through however many levels (tree.c:287-341, tools.c:282-318).          *)
THEOREM StoredFound ==
  ASSUME NEW o \in Objects, NEW k \in DOMAIN o.stored
  PROVE  LET to == PathTo(o.tree, o.stored[k], o.tree.height, 4)
         IN  Found(o.tree, to, o.stored[k], 4) /\ ItemAt(o.tree, to) = o.stored[k]
<1> DEFINE tr == o.tree
           stored == o.stored
           item == stored[k]
           n == 4
<1>1. Len(stored) \in Nat /\ SearchTree(tr, stored) /\ IsKey(item) /\ n \in {3, 4}
  BY ObjectIs
<1>2. PICK way \in Ways(tr, tr.height - 1, Len(stored)) :
        \E i \in DOMAIN LeafItems(tr, way) : LeafItems(tr, way)[i] = item
  BY <1>1 DEF SearchTree
<1>3. PICK i \in DOMAIN LeafItems(tr, way) : LeafItems(tr, way)[i] = item
  BY <1>2
<1> HIDE DEF tr, stored, item, n
<1>4. Compare(LeafItems(tr, way)[i], item, n) = 0
  BY <1>1, <1>3, CompareSelf
<1>5. LET to == PathTo(tr, item, tr.height, n)
      IN  Found(tr, to, item, n) /\ ItemAt(tr, to) = LeafItems(tr, way)[i]
  BY <1>1, <1>4, LookupLeads
<1>6. QED
  BY <1>3, <1>5 DEF tr, stored, item, n

(* A lookup that finds a key of the object comes to an item of it.         *)
LEMMA FoundOwn ==
  ASSUME NEW o \in Objects, NEW key, IsKey(key), key.obj = Object,
         NEW to, to = PathTo(o.tree, key, o.tree.height, 4), Found(o.tree, to, key, 4)
  PROVE  \E L, j : Own(o, to, L, j) /\ Compare(ItemAt(o.tree, to), key, 4) = 0
<1> DEFINE tr == o.tree
           stored == o.stored
           n == 4
           L == LookupLeaf(tr, key, n)
           at == LookupAt(tr, key, n)
           items == LeafItems(tr, L)
           pos == at.pos
<1>1. Len(stored) \in Nat /\ SearchTree(tr, stored) /\ n \in {3, 4}
  BY ObjectIs
<1>2. /\ L \in Ways(tr, tr.height - 1, Len(stored))
      /\ SearchRight(at, key, LeafItems(tr, L), n)
      /\ PathTo(tr, key, tr.height, n) = Append(L, pos)
  <2> HIDE DEF n, tr, stored
  <2>1. QED
    BY <1>1, LookupIs
<1>3. Len(items) \in Nat /\ DOMAIN items = 1..Len(items) /\ Ordered(items)
  BY <1>1, <1>2, TreeIs
<1>4. pos \in Nat /\ to = Append(L, pos)
  BY <1>2 DEF SearchRight
<1>5. EndsAt(tr, L, pos, to)
  <2> HIDE DEF L, pos, tr, stored
  <2>1. QED
    BY <1>1, <1>2, <1>4, PathIs
<1>6. pos < Len(items) /\ Compare(ItemAt(tr, to), key, n) = 0 /\ ItemAt(tr, to) = items[pos + 1]
  BY <1>5 DEF Found, EndsAt
<1> DEFINE j == pos + 1
<1>7. j \in 1..Len(items) /\ j - 1 = pos /\ ItemAt(tr, to) = items[j]
  BY <1>3, <1>4, <1>6
<1> HIDE DEF L, pos, items, j
<1>8. IsKey(items[j])
  BY <1>3, <1>7 DEF Ordered
<1>9. items[j].obj = Object
  <2>1. Compare(items[j], key, 4) = 0
    BY <1>6, <1>7
  <2>2. QED
    BY <1>8, <2>1, CompareIs
<1>10. Own(o, to, L, j)
  BY <1>2, <1>4, <1>7, <1>9 DEF Own, items
<1>11. QED
  BY <1>6, <1>10

-----------------------------------------------------------------------------
(* The object that is open.                                                *)
(* Its items are in the order of their offsets.                            *)
LEMMA Offsets ==
  ASSUME NEW o \in Objects, NEW j \in 1..Len(o.items), NEW k \in 1..Len(o.items), j < k
  PROVE  o.items[j].off \in Nat /\ o.items[k].off \in Nat /\ o.items[j].off < o.items[k].off
<1> DEFINE a == o.items[j]
           b == o.items[k]
<1>1. /\ IsKey(a) /\ IsKey(b) /\ a.obj = Object /\ b.obj = Object /\ Compare(a, b, 3) = -1
  BY ObjectIs
<1>2. KeyOffset(a) = a.off /\ KeyOffset(b) = b.off
  BY ItemsAre
<1> HIDE DEF a, b
<1>3. a.off \in Nat /\ b.off \in Nat
  BY <1>1 DEF IsKey
<1>4. a.off < b.off
  BY <1>1, <1>2, <1>3, CompareIs
<1>5. QED
  BY <1>3, <1>4 DEF a, b

(* Opening and rewinding come to the first item of the data.               *)
LEMMA FirstIs ==
  ASSUME object \in Objects, HasFirst
  PROVE  /\ \E L, j : Own(object, FirstPath, L, j)
         /\ 2 \in 1..Len(object.items) /\ ItemAt(tree, FirstPath) = object.items[2]
         /\ object.items[2].off = 1
<1> DEFINE items == object.items
           key == FirstKey
           to == FirstPath
           item == ItemAt(tree, to)
<1>1. Len(items) \in Nat \ {0} /\ DOMAIN items = 1..Len(items)
      /\ \A k \in 1..Len(items) : IsKey(items[k]) /\ items[k].obj = Object
  BY ObjectIs
<1>2. Object \in Nat
  <2>1. 1 \in 1..Len(items)
    BY <1>1
  <2>2. QED
    BY <1>1, <2>1 DEF IsKey
<1>3. /\ IsKey(key) /\ key.obj = Object /\ key.off = 1 /\ key.type \in {IT, DT, DR} /\ KeyOffset(key) = 1
  BY <1>2 DEF FirstKey, Key, IsKey, KeyOffset, SD, IT, DT, DR
<1>4. \E L, j : Own(object, to, L, j) /\ Compare(item, key, 4) = 0
  <2>1. to = PathTo(object.tree, key, object.tree.height, 4) /\ Found(object.tree, to, key, 4)
    BY DEF FirstPath, HasFirst, tree
  <2> HIDE DEF key, to
  <2>2. QED
    BY <1>3, <2>1, FoundOwn DEF tree
<1>5. PICK L, j : Own(object, to, L, j) /\ Compare(item, key, 4) = 0
  BY <1>4
<1>6. PICK m \in 1..Len(items) : item = items[m]
  BY <1>5, OwnIs DEF tree
<1> HIDE DEF items, key, to, item
<1>7. IsKey(item) /\ item.obj = Object
  BY <1>1, <1>6
<1>8. KeyOffset(item) = 1
  BY <1>3, <1>5, <1>7, CompareIs
<1>9. item.off = 1
  BY <1>6, <1>8, ItemsAre DEF items
<1>10. m # 1
  BY <1>6, <1>9, ItemsAre DEF items
<1>11. m \in 2..Len(items) /\ 2 \in 2..Len(items) /\ 2 \in 1..Len(items)
  BY <1>1, <1>6, <1>10
<1>12. items[2].off \in Nat /\ items[2].off # 0
  <2>1. IsKey(items[2])
    BY <1>1, <1>11
  <2>2. items[2].off # 0
    BY <1>11, ItemsAre DEF items
  <2>3. QED
    BY <2>1, <2>2 DEF IsKey
<1>13. ~(2 < m)
  <2>1. SUFFICES ASSUME 2 < m  PROVE FALSE
    OBVIOUS
  <2>2. items[2].off < items[m].off
    BY <1>6, <1>11, <2>1, Offsets DEF items
  <2>3. QED
    BY <1>6, <1>9, <1>12, <2>2
<1>14. m = 2
  BY <1>11, <1>13
<1>15. QED
  BY <1>5, <1>6, <1>9, <1>11, <1>14 DEF items, to, item

(* A seek in a file comes to the last item that begins at or before the    *)
(* place, as far as a key tells it.                                        *)
SoughtAt(place, L, j, m) ==
  /\ Own(object, Sought(place), L, j)
  /\ m \in 1..Len(object.items) /\ ItemAt(tree, Sought(place)) = object.items[m]
  /\ object.items[m].off <= (place + 1) % Wrap
  /\ \A k \in 1..Len(object.items) : k > m => object.items[k].off > (place + 1) % Wrap

(* A seek comes to the last item of the object not behind the place.       *)
LEMMA SoughtIs ==
  ASSUME object \in Objects, NEW place \in Nat
  PROVE  \E L, j, m : SoughtAt(place, L, j, m)
<1> DEFINE tr == object.tree
           stored == object.stored
           items == object.items
           key == SeekKey(place)
           n == 3
           L == LookupLeaf(tr, key, n)
           leaf == LeafItems(tr, L)
           at == (place + 1) % Wrap
<1>1. /\ Len(items) \in Nat \ {0} /\ DOMAIN items = 1..Len(items)
      /\ \A k \in 1..Len(items) :
           /\ IsKey(items[k]) /\ items[k].obj = Object
           /\ \E i \in DOMAIN stored : items[k] = stored[i]
      /\ Len(stored) \in Nat /\ SearchTree(tr, stored) /\ n \in {3, 4}
  BY ObjectIs
<1>2. 1 \in 1..Len(items) /\ Object \in Nat /\ at \in Nat /\ place + 1 \in Nat
  <2>1. 1 \in 1..Len(items)
    BY <1>1
  <2>2. at \in Nat
    BY WrapAssumption
  <2>3. QED
    BY <1>1, <2>1, <2>2 DEF IsKey
<1>3. IsKey(key) /\ key.obj = Object /\ KeyOffset(key) = at
  BY <1>2 DEF SeekKey, Key, IsKey, KeyOffset, SD
<1>4. \A k \in 1..Len(items) : KeyOffset(items[k]) = items[k].off
  BY ItemsAre
<1>5. PICK least \in DOMAIN stored : items[1] = stored[least]
  BY <1>1, <1>2
<1> HIDE DEF items, key, at, tr, stored, n, leaf, L
<1>6. ASSUME NEW k \in 1..Len(items)
      PROVE  /\ items[k].off \in Nat
             /\ Compare(items[k], key, 3) =
                  IF items[k].off < at THEN -1 ELSE IF items[k].off = at THEN 0 ELSE 1
  <2> DEFINE a == items[k]
  <2>1. IsKey(a) /\ a.obj = Object /\ KeyOffset(a) = a.off
    BY <1>1, <1>4
  <2> HIDE DEF a
  <2>2. a.off \in Nat
    BY <2>1 DEF IsKey
  <2>3. Compare(a, key, 3) = IF a.off < at THEN -1 ELSE IF a.off = at THEN 0 ELSE 1
    BY <1>2, <1>3, <2>1, <2>2, CompareIs
  <2>4. QED
    BY <2>2, <2>3 DEF a
<1>7. Compare(stored[least], key, n) \in {-1, 0}
  <2>1. items[1].off = 0
    BY ItemsAre DEF items
  <2>2. Compare(items[1], key, 3) \in {-1, 0}
    BY <1>2, <1>6, <2>1
  <2>3. QED
    BY <1>5, <2>2 DEF n
<1>8. PICK j \in Nat : ComesTo(tr, stored, key, n, j)
  BY <1>1, <1>3, <1>7, ComeIs
<1>9. Sought(place) = Append(L, j - 1)
  <2>1. Sought(place) = Come(tr, key, n)
    BY DEF Sought, Come, tree, tr, key, n
  <2>2. QED
    BY <1>8, <2>1 DEF ComesTo, L
<1> DEFINE x == leaf[j]
<1>10. /\ j \in 1..Len(leaf) /\ Compare(x, key, 3) \in {-1, 0}
       /\ \A k \in DOMAIN stored : \/ Compare(stored[k], key, 3) = 1 \/ stored[k] = x
                                   \/ Compare(stored[k], x, 3) = -1
  BY <1>8 DEF ComesTo, LastBefore, leaf, L, n
<1>11. L \in Ways(tr, tr.height - 1, Len(stored))
  BY <1>1, <1>3, LookupIs DEF L
<1>12. IsKey(x)
  BY <1>1, <1>10, <1>11, TreeIs DEF Ordered, leaf
<1> HIDE DEF x
<1>13. x.obj = Object
  <2>1. items[1] = x \/ Compare(items[1], x, 3) = -1
    <3>1. Compare(items[1], key, 3) # 1
      BY <1>5, <1>7 DEF n
    <3>2. QED
      BY <1>5, <1>10, <3>1
  <2>2. IsKey(items[1]) /\ items[1].obj = Object
    BY <1>1, <1>2
  <2>3. x.obj <= Object /\ x.obj \in Nat
    BY <1>3, <1>10, <1>12, CompareIs
  <2>4. Object <= x.obj
    BY <1>12, <2>1, <2>2, CompareIs
  <2>5. QED
    BY <1>2, <2>3, <2>4
<1>14. Own(object, Sought(place), L, j)
  BY <1>9, <1>10, <1>11, <1>13 DEF Own, tr, stored, leaf, x
<1>15. ItemAt(tree, Sought(place)) = x
  BY <1>14, OwnIs DEF tree, leaf, x, tr
<1>16. PICK m \in 1..Len(items) : ItemAt(tree, Sought(place)) = items[m]
  BY <1>14, OwnIs DEF tree, items
<1>17. items[m].off <= at
  BY <1>2, <1>6, <1>10, <1>15, <1>16
<1>18. ASSUME NEW k \in 1..Len(items), k > m  PROVE items[k].off > at
  <2>1. PICK i \in DOMAIN stored : items[k] = stored[i]
    BY <1>1
  <2>2. items[m].off < items[k].off /\ items[k].off \in Nat /\ items[m].off \in Nat
    BY <1>18, Offsets DEF items
  <2>3. items[k] # x
    BY <1>15, <1>16, <2>2
  <2>4. Compare(items[k], x, 3) # -1
    <3>1. Compare(items[m], items[k], 3) = -1
      BY <1>1, <1>18, ObjectIs DEF items
    <3>2. IsKey(items[m]) /\ IsKey(items[k])
      BY <1>1
    <3>3. Compare(items[k], items[m], 3) = -Compare(items[m], items[k], 3)
      BY <3>2, CompareKeeps
    <3>4. QED
      BY <1>15, <1>16, <3>1, <3>3
  <2>5. Compare(items[k], key, 3) = 1
    BY <1>10, <2>1, <2>3, <2>4
  <2>6. QED
    BY <1>2, <1>6, <2>2, <2>5
<1>19. SoughtAt(place, L, j, m)
  BY <1>14, <1>16, <1>17, <1>18 DEF SoughtAt, items, at
<1>20. QED
  BY <1>19

(* So a seek finds its item and a read that is not refused stays inside.   *)
LEMMA SeekRight ==
  ASSUME object \in Objects
  PROVE  SeekFindsItem
<1> DEFINE Right(place) ==
             LET item == ItemAt(tree, Sought(place))
             IN  /\ item.obj = Object /\ item.off <= place + 1
                 /\ \A k \in DOMAIN object.items :
                      object.items[k].off > item.off => object.items[k].off > place + 1
<1>1. ASSUME NEW place \in Nat, place + 1 < Wrap  PROVE Right(place)
  <2>1. PICK L, j, m : SoughtAt(place, L, j, m)
    BY SoughtIs
  <2>2. (place + 1) % Wrap = place + 1
    BY <1>1, WrapAssumption
  <2> DEFINE items == object.items
             item == ItemAt(tree, Sought(place))
  <2>3. /\ m \in 1..Len(items) /\ item = items[m] /\ item.off <= place + 1
        /\ \A k \in 1..Len(items) : k > m => items[k].off > place + 1
    BY <2>1, <2>2 DEF SoughtAt
  <2>4. Len(items) \in Nat /\ DOMAIN items = 1..Len(items) /\ items[m].obj = Object
    BY <2>3, ObjectIs
  <2>5. ASSUME NEW k \in 1..Len(items), items[k].off > item.off  PROVE k > m
    <3>1. k = m \/ k < m \/ k > m
      BY <2>3, <2>4
    <3>2. CASE k < m
      <4>1. items[k].off \in Nat /\ items[m].off \in Nat /\ items[k].off < items[m].off
        BY <2>3, <3>2, Offsets
      <4>2. QED
        BY <2>3, <2>5, <4>1
    <3>3. CASE k = m
      <4>1. IsKey(items[m])
        BY <2>3, <2>4, ObjectIs
      <4>2. items[m].off \in Nat
        BY <4>1 DEF IsKey
      <4>3. QED
        BY <2>3, <2>5, <3>3, <4>2
    <3>4. QED
      BY <3>1, <3>2, <3>3
  <2> HIDE DEF items, item
  <2>6. \A k \in 1..Len(items) : items[k].off > item.off => items[k].off > place + 1
    BY <2>3, <2>5
  <2>7. QED
    BY <2>3, <2>4, <2>6 DEF items, item
<1>2. ASSUME NEW place \in 0..(object.size - 1)  PROVE place \in Nat
  OBVIOUS
<1> HIDE DEF Right
<1>3. \A place \in 0..(object.size - 1) : place + 1 < Wrap => Right(place)
  BY <1>1, <1>2
<1>4. QED
  BY <1>3 DEF SeekFindsItem, Right

(* Every item of the tree the object is in is found by its key.            *)
LEMMA ItemsFound ==
  ASSUME object \in Objects
  PROVE  EveryItemFound
BY StoredFound DEF EveryItemFound, tree

-----------------------------------------------------------------------------
(* From leaf to leaf.                                                      *)
(* The keys of a node a way passes.                                        *)
LEMMA KeysAre ==
  ASSUME NEW tr, NEW stored, Len(stored) \in Nat, SearchTree(tr, stored),
         NEW way \in Ways(tr, tr.height - 1, Len(stored)), NEW d \in 1..(tr.height - 1)
  PROVE  LET node == NodeAt(tr, way, d)
         IN  /\ Len(node.keys) \in Nat /\ DOMAIN node.keys = 1..Len(node.keys) /\ Ordered(node.keys)
             /\ Len(node.children) = Len(node.keys) + 1 /\ Len(node.children) <= Len(stored)
             /\ way[d] \in Nat /\ way[d] <= Len(node.keys)
<1> DEFINE c == d - 1
           most == Len(stored)
           high == tr.height - 1
           up == [e \in 1..c |-> way[e]]
           node == NodeAt(tr, way, d)
<1>1. /\ tr.height \in Nat \ {0} /\ c \in Nat /\ c \in 0..(tr.height - 2) /\ c + 1 = d
      /\ d \in Nat \ {0} /\ most \in Nat /\ high \in Nat /\ way \in Ways(tr, high, most)
      /\ d \in 1..high
  <2>1. tr.height \in Nat \ {0}
    BY LeafWayIs
  <2>2. QED
    BY <2>1
<1> HIDE DEF high, most
<1>2. \A e \in 1..high : way[e] \in 0..(most - 1) /\ way[e] < Len(NodeAt(tr, way, e).children)
  BY <1>1, WayIs
<1>3. \A e \in 1..c : e \in 1..high /\ up[e] = way[e]
  BY <1>1
<1>4. \A e \in 1..d : NodeAt(tr, up, e) = NodeAt(tr, way, e)
  <2> SUFFICES ASSUME NEW e \in 1..d  PROVE NodeAt(tr, up, e) = NodeAt(tr, way, e)
    OBVIOUS
  <2>1. \A f \in 1..(e - 1) : up[f] = way[f]
    BY <1>1, <1>3
  <2>2. e \in Nat \ {0}
    BY <1>1
  <2> HIDE DEF up
  <2>3. QED
    BY <2>1, <2>2, NodeAtAgree
<1>5. up \in [1..c -> 0..(most - 1)]
  BY <1>2, <1>3
<1> HIDE DEF up, c
<1>6. \A e \in 1..c : up[e] < Len(NodeAt(tr, up, e).children)
  <2> SUFFICES ASSUME NEW e \in 1..c  PROVE up[e] < Len(NodeAt(tr, up, e).children)
    OBVIOUS
  <2>1. e \in 1..d
    BY <1>1
  <2>2. QED
    BY <1>2, <1>3, <1>4, <2>1
<1>7. up \in Ways(tr, c, most)
  BY <1>5, <1>6 DEF Ways
<1> DEFINE same == NodeAt(tr, up, c + 1)
<1>8. /\ Len(same.keys) \in Nat /\ DOMAIN same.keys = 1..Len(same.keys) /\ Ordered(same.keys)
      /\ Len(same.children) = Len(same.keys) + 1 /\ Len(same.keys) + 1 <= most
  BY <1>1, <1>7, TreeIs DEF most
<1>9. same = node
  BY <1>1, <1>4
<1>10. way[d] \in Nat /\ way[d] < Len(node.children)
  BY <1>1, <1>2
<1> HIDE DEF same, node
<1>11. way[d] <= Len(node.keys)
  BY <1>8, <1>9, <1>10
<1>12. QED
  BY <1>8, <1>9, <1>10, <1>11 DEF most, node

(* The leaf right of another one below the same node.                      *)
NextTo(tr, way, next) ==
  /\ Part(way, next, tr.height - 1) /\ next[tr.height - 1] = way[tr.height - 1] + 1
  /\ tr.height > 1

(* There is one unless the way takes the last child, and the key between   *)
(* them is that of its first item.                                         *)
Turned(tr, stored, way, next) ==
  LET key == NodeAt(tr, way, tr.height - 1).keys[way[tr.height - 1] + 1]
  IN  /\ next \in Ways(tr, tr.height - 1, Len(stored)) /\ NextTo(tr, way, next)
      /\ IsKey(key) /\ 1 \in DOMAIN LeafItems(tr, next)
      /\ Compare(LeafItems(tr, next)[1], key, 4) = 0

(* The key right of a child leads to the leaf right of it.                 *)
LEMMA NextLeaf ==
  ASSUME NEW tr, NEW stored, Len(stored) \in Nat, SearchTree(tr, stored),
         NEW way \in Ways(tr, tr.height - 1, Len(stored)), tr.height > 1,
         way[tr.height - 1] < Len(NodeAt(tr, way, tr.height - 1).keys)
  PROVE  \E next : Turned(tr, stored, way, next)
<1> DEFINE high == tr.height - 1
           most == Len(stored)
           keys == NodeAt(tr, way, high).keys
           next == [way EXCEPT ![high] = way[high] + 1]
           items == LeafItems(tr, next)
           key == keys[way[high] + 1]
<1>1. /\ high \in Nat \ {0} /\ most \in Nat /\ way \in Ways(tr, high, most) /\ high \in 1..high
      /\ high + 1 = tr.height /\ high \in 1..(tr.height - 1)
  BY LeafWayIs
<1>2. /\ Len(keys) \in Nat /\ DOMAIN keys = 1..Len(keys) /\ Ordered(keys)
      /\ Len(NodeAt(tr, way, high).children) = Len(keys) + 1 /\ Len(keys) + 1 <= most
      /\ way[high] \in Nat /\ way[high] < Len(keys)
  BY <1>1, KeysAre
<1> HIDE DEF high, most, keys
<1>3. /\ way \in [1..high -> 0..(most - 1)]
      /\ \A d \in 1..high : way[d] < Len(NodeAt(tr, way, d).children)
  BY <1>1 DEF Ways
<1>4. /\ next \in [1..high -> Nat] /\ next[high] = way[high] + 1
      /\ \A d \in 1..(high - 1) : next[d] = way[d]
  BY <1>1, <1>2, <1>3
<1>5. \A d \in 1..high : next[d] \in 0..(most - 1)
  <2>1. next[high] \in 0..(most - 1)
    BY <1>1, <1>2, <1>4
  <2>2. \A d \in 1..high : d = high \/ d \in 1..(high - 1)
    BY <1>1
  <2>3. QED
    BY <1>3, <1>4, <2>1, <2>2
<1>6. DOMAIN next = 1..high
  BY <1>4
<1> HIDE DEF next
<1>7. \A d \in 1..high : NodeAt(tr, next, d) = NodeAt(tr, way, d)
  <2> SUFFICES ASSUME NEW d \in 1..high  PROVE NodeAt(tr, next, d) = NodeAt(tr, way, d)
    OBVIOUS
  <2>1. \A e \in 1..(d - 1) : next[e] = way[e]
    BY <1>1, <1>4
  <2>2. d \in Nat \ {0}
    BY <1>1
  <2>3. QED
    BY <2>1, <2>2, NodeAtAgree
<1>8. \A d \in 1..high : next[d] < Len(NodeAt(tr, next, d).children)
  <2>1. next[high] < Len(NodeAt(tr, next, high).children)
    BY <1>1, <1>2, <1>4, <1>7
  <2>2. \A d \in 1..high : d = high \/ d \in 1..(high - 1)
    BY <1>1
  <2>3. QED
    BY <1>3, <1>4, <1>7, <2>1, <2>2
<1>9. next \in [1..high -> 0..(most - 1)]
  BY <1>4, <1>5
<1>10. next \in Ways(tr, high, most)
  BY <1>8, <1>9 DEF Ways
<1>11. /\ Len(items) \in Nat \ {0} /\ DOMAIN items = 1..Len(items) /\ Ordered(items)
       /\ LeafBounded(tr, next, items)
  BY <1>10, TreeIs DEF high, most
<1> HIDE DEF items
<1>12. IsKey(key)
  <2>1. way[high] + 1 \in 1..Len(keys)
    BY <1>2
  <2>2. QED
    BY <1>2, <2>1 DEF Ordered
<1>13. FourComponents(key, items[1]) = 0
  <2>1. next[high] > 0 /\ next[high] = way[high] + 1
    BY <1>2, <1>4
  <2>2. \A e \in (high + 1)..(tr.height - 1) : next[e] = 0
    BY <1>1
  <2>3. NodeAt(tr, next, high).keys = keys
    BY <1>1, <1>7 DEF keys
  <2>4. QED
    BY <1>1, <1>11, <2>1, <2>2, <2>3 DEF LeafBounded
<1>14. 1 \in DOMAIN items /\ IsKey(items[1])
  <2>1. 1 \in DOMAIN items
    BY <1>11
  <2>2. QED
    BY <1>11, <2>1 DEF Ordered
<1> HIDE DEF key
<1>15. Compare(items[1], key, 4) = 0
  <2>1. Compare(key, items[1], 4) = 0
    BY <1>12, <1>13, <1>14, CompareIs
  <2>2. Compare(items[1], key, 4) = -Compare(key, items[1], 4)
    BY <1>12, <1>14, CompareKeeps
  <2>3. QED
    BY <2>1, <2>2
<1>16. NextTo(tr, way, next)
  <2>1. way[high] # next[high]
    BY <1>2, <1>4
  <2>2. QED
    BY <1>1, <1>4, <2>1 DEF NextTo, Part, high
<1>17. Turned(tr, stored, way, next)
  BY <1>10, <1>12, <1>14, <1>15, <1>16 DEF Turned, high, most, items, key, keys
<1>18. QED
  BY <1>17

(* Nothing lies between two such leaves.                                   *)
LEMMA Neighbours ==
  ASSUME NEW tr, NEW stored, Len(stored) \in Nat, SearchTree(tr, stored),
         NEW way \in Ways(tr, tr.height - 1, Len(stored)),
         NEW next \in Ways(tr, tr.height - 1, Len(stored)), NextTo(tr, way, next),
         NEW other \in Ways(tr, tr.height - 1, Len(stored)),
         NEW i \in DOMAIN LeafItems(tr, other), NEW j \in DOMAIN LeafItems(tr, way),
         NEW k \in DOMAIN LeafItems(tr, next)
  PROVE  \/ other = way \/ other = next
         \/ Compare(LeafItems(tr, other)[i], LeafItems(tr, way)[j], 3) = -1
         \/ Compare(LeafItems(tr, next)[k], LeafItems(tr, other)[i], 3) = -1
<1> DEFINE high == tr.height - 1
<1>1. SUFFICES ASSUME other # way, other # next
               PROVE  \/ Compare(LeafItems(tr, other)[i], LeafItems(tr, way)[j], 3) = -1
                      \/ Compare(LeafItems(tr, next)[k], LeafItems(tr, other)[i], 3) = -1
  OBVIOUS
<1>2. /\ high \in Nat /\ way \in Seq(Nat) /\ Len(way) = high /\ next \in Seq(Nat) /\ Len(next) = high
      /\ other \in Seq(Nat) /\ Len(other) = high
      /\ \A d \in 1..high : way[d] \in Nat /\ next[d] \in Nat /\ other[d] \in Nat
  BY LeafWayIs
<1>3. /\ way[high] # next[high] /\ next[high] = way[high] + 1 /\ high \in 1..high
      /\ \A d \in 1..(high - 1) : way[d] = next[d]
  BY <1>2, SMTT(40) DEF NextTo, Part
<1> HIDE DEF high
<1>4. PICK d \in 1..high : Part(other, way, d)
  BY <1>1, <1>2, WaysPart
<1>5. CASE other[d] < way[d]
  BY <1>4, <1>5, LeavesOrdered DEF high
<1>6. CASE ~(other[d] < way[d])
  <2>1. way[d] < other[d] /\ \A e \in 1..(d - 1) : other[e] = way[e]
    BY <1>2, <1>4, <1>6 DEF Part
  <2>2. Part(next, other, d) /\ next[d] < other[d]
    <3>1. CASE d = high
      <4>1. other[high] # next[high]
        <5>1. SUFFICES ASSUME other[high] = next[high]  PROVE FALSE
          OBVIOUS
        <5>2. \A e \in 1..high : e = high \/ e \in 1..(high - 1)
          BY <1>2
        <5>3. \A e \in 1..high : other[e] = next[e]
          BY <1>3, <2>1, <3>1, <5>1, <5>2
        <5>4. other = next
          BY <1>2, <5>3
        <5>5. QED
          BY <1>1, <5>4
      <4>2. next[high] < other[high]
        BY <1>2, <1>3, <2>1, <3>1, <4>1
      <4>3. QED
        BY <1>3, <2>1, <3>1, <4>1, <4>2 DEF Part
    <3>2. CASE d # high
      <4>1. d \in 1..(high - 1) /\ \A e \in 1..(d - 1) : e \in 1..(high - 1)
        BY <1>2, <1>4, <3>2
      <4>2. QED
        BY <1>2, <1>3, <2>1, <4>1, SMTT(40) DEF Part
    <3>3. QED
      BY <3>1, <3>2
  <2>3. QED
    BY <1>4, <2>2, LeavesOrdered DEF high
<1>7. QED
  BY <1>5, <1>6

(* The items of a directory are directory items but for the first.         *)
LEMMA EntriesAre ==
  ASSUME NEW o \in Objects, o.kind # "file", NEW k \in 2..Len(o.items)
  PROVE  /\ o.items[k].type = DR /\ o.items[k].entries \in Seq(Nat) \ {<<>>}
         /\ Len(o.items[k].entries) \in Nat \ {0}
<1>1. DirectoryLaid(o)
  BY ItemsAre
<1>2. o.items[k].type = DR /\ o.items[k].entries \in Seq(Nat) \ {<<>>}
  BY <1>1 DEF DirectoryLaid
<1> DEFINE entries == o.items[k].entries
<1> HIDE DEF entries
<1>3. entries \in Seq(Nat) \ {<<>>} => Len(entries) \in Nat \ {0}
  OBVIOUS
<1>4. QED
  BY <1>2, <1>3 DEF entries

(* Where two items of an object are in their order.                        *)
LEMMA Placed ==
  ASSUME NEW o \in Objects, NEW j \in 1..Len(o.items), NEW k \in 1..Len(o.items),
         Compare(o.items[j], o.items[k], 3) = -1
  PROVE  j < k
<1>1. Len(o.items) \in Nat /\ j \in DOMAIN o.items /\ k \in DOMAIN o.items
  BY ObjectIs
<1>2. IsKey(o.items[j]) /\ IsKey(o.items[k])
  BY <1>1, ObjectIs
<1>3. CASE j = k
  <2> DEFINE a == o.items[j]
  <2>1. IsKey(a) /\ Compare(a, a, 3) = -1
    BY <1>2, <1>3
  <2> HIDE DEF a
  <2>2. QED
    BY <2>1, CompareIs
<1>4. CASE k < j
  <2>1. Compare(o.items[k], o.items[j], 3) = -1
    BY <1>1, <1>4, ObjectIs
  <2> DEFINE a == o.items[j]
             b == o.items[k]
  <2>2. IsKey(a) /\ IsKey(b) /\ Compare(a, b, 3) = -1 /\ Compare(b, a, 3) = -1
    BY <1>2, <2>1
  <2> HIDE DEF a, b
  <2>3. QED
    BY <2>2, CompareKeeps
<1>5. QED
  BY <1>1, <1>3, <1>4

(* The next item of a directory is not in the leaf of the one before it,   *)
(* and the first item of the leaf right of this one is not after it.       *)
LEMMA OnwardItem ==
  ASSUME NEW o \in Objects, o.kind # "file", NEW to, NEW L, NEW j, Own(o, to, L, j),
         NEW k \in 2..Len(o.items), ItemAt(o.tree, to) = o.items[k], k < Len(o.items),
         NEW W \in Ways(o.tree, o.tree.height - 1, Len(o.stored)),
         NEW i \in DOMAIN LeafItems(o.tree, W), LeafItems(o.tree, W)[i] = o.items[k + 1]
  PROVE  /\ W # L
         /\ \A d \in 1..(o.tree.height - 1) : Part(W, L, d) => L[d] < W[d]
         /\ \A next : Turned(o.tree, o.stored, L, next) =>
              LET y == LeafItems(o.tree, next)[1]
              IN  y = o.items[k + 1] \/ Compare(y, o.items[k + 1], 3) = -1
<1> DEFINE tr == o.tree
           stored == o.stored
           x == o.items[k]
           z == o.items[k + 1]
           high == tr.height - 1
<1>1. Len(stored) \in Nat /\ SearchTree(tr, stored) /\ L \in Ways(tr, high, Len(stored))
  BY ObjectIs DEF Own
<1>2. /\ Len(o.items) \in Nat /\ k \in 1..Len(o.items) /\ k + 1 \in 1..Len(o.items)
      /\ k + 1 \in 2..Len(o.items) /\ k < k + 1
  BY ObjectIs
<1>3. /\ IsKey(x) /\ IsKey(z) /\ x.obj = Object /\ z.obj = Object /\ Compare(x, z, 3) = -1
  <2>1. k \in DOMAIN o.items /\ k + 1 \in DOMAIN o.items
    BY <1>2, ObjectIs
  <2>2. QED
    BY <1>2, <2>1, ObjectIs
<1>4. x.type = DR /\ z.type = DR
  BY <1>2, EntriesAre
<1>5. /\ j \in DOMAIN LeafItems(tr, L) /\ LeafItems(tr, L)[j] = x
  <2>1. j \in 1..Len(LeafItems(tr, L)) /\ LeafItems(tr, L)[j] = x
    BY OwnIs, ZenonT(40) DEF Own
  <2>2. DOMAIN LeafItems(tr, L) = 1..Len(LeafItems(tr, L))
    BY <1>1, TreeIs
  <2>3. QED
    BY <2>1, <2>2
<1>6. Compare(z, x, 3) # -1
  <2> HIDE DEF x, z
  <2>1. Compare(z, x, 3) = -Compare(x, z, 3)
    BY <1>3, CompareKeeps
  <2>2. QED
    BY <1>3, <2>1
<1>7. W # L
  <2>1. SUFFICES ASSUME W = L  PROVE FALSE
    OBVIOUS
  <2>2. i \in DOMAIN LeafItems(tr, L) /\ LeafItems(tr, L)[i] = z
    BY <2>1
  <2>3. i = j
    <3>1. DirectoryLaid(o)
      BY ItemsAre
    <3>2. \A a, b \in DOMAIN LeafItems(tr, L) :
            LeafItems(tr, L)[a].obj = Object /\ LeafItems(tr, L)[b].obj = Object
            /\ LeafItems(tr, L)[a].type = DR /\ LeafItems(tr, L)[b].type = DR => a = b
      BY <1>1, <3>1 DEF DirectoryLaid
    <3>3. QED
      BY <1>3, <1>4, <1>5, <2>2, <3>2
  <2>4. x = z
    BY <1>5, <2>2, <2>3
  <2>5. Compare(x, x, 3) = 0
    BY <1>3, CompareSelf
  <2>6. QED
    BY <1>3, <2>4, <2>5
<1>8. ASSUME NEW d \in 1..high, Part(W, L, d)  PROVE L[d] < W[d]
  <2>1. tr.height \in Nat /\ W[d] \in Nat /\ L[d] \in Nat /\ W[d] # L[d]
    BY <1>1, <1>8, LeafWayIs DEF Part
  <2>2. SUFFICES ASSUME W[d] < L[d]  PROVE FALSE
    BY <2>1
  <2>3. Compare(LeafItems(tr, W)[i], LeafItems(tr, L)[j], 3) = -1
    BY <1>1, <1>5, <1>8, <2>2, LeavesOrdered
  <2>4. QED
    BY <1>5, <1>6, <2>3
<1>9. ASSUME NEW next, Turned(tr, stored, L, next)
      PROVE  LET y == LeafItems(tr, next)[1] IN y = z \/ Compare(y, z, 3) = -1
  <2>1. /\ next \in Ways(tr, high, Len(stored)) /\ NextTo(tr, L, next) /\ 1 \in DOMAIN LeafItems(tr, next)
    BY <1>9 DEF Turned
  <2>2. \/ W = L \/ W = next
        \/ Compare(LeafItems(tr, W)[i], LeafItems(tr, L)[j], 3) = -1
        \/ Compare(LeafItems(tr, next)[1], LeafItems(tr, W)[i], 3) = -1
    BY <1>1, <1>5, <2>1, Neighbours
  <2>3. CASE W = next
    <3>1. Len(LeafItems(tr, W)) \in Nat /\ DOMAIN LeafItems(tr, W) = 1..Len(LeafItems(tr, W))
          /\ Ordered(LeafItems(tr, W))
      BY <1>1, TreeIs
    <3>2. CASE i = 1
      BY <2>3, <3>2
    <3>3. CASE i # 1
      <4>1. 1 < i /\ 1 \in DOMAIN LeafItems(tr, W)
        BY <2>1, <2>3, <3>1, <3>3
      <4>2. /\ IsKey(LeafItems(tr, W)[1]) /\ IsKey(LeafItems(tr, W)[i])
            /\ ThreeComponents(LeafItems(tr, W)[1], LeafItems(tr, W)[i]) = -1
        BY <3>1, <4>1 DEF Ordered, Sorted
      <4>3. Compare(LeafItems(tr, W)[1], LeafItems(tr, W)[i], 3) = -1
        BY <4>2, CompareIs
      <4>4. QED
        BY <2>3, <4>3
    <3>4. QED
      BY <3>2, <3>3
  <2>4. QED
    BY <1>5, <1>6, <1>7, <2>2, <2>3
<1>10. QED
  BY <1>7, <1>8, <1>9

(* From the end of an item of a directory the lookup of the key right of   *)
(* the leaf in its parent comes to the directory's next item               *)
(* (dir.c:102-145).                                                        *)
THEOREM AcrossIs ==
  ASSUME object \in Objects, ~IsFile, NEW L, NEW j, Own(object, path, L, j),
         NEW k \in 2..Len(object.items), Item = object.items[k], GoesOn
  PROVE  /\ k + 1 \in 2..Len(object.items)
         /\ ItemAt(tree, PathTo(tree, RightKey, tree.height, 4)) = object.items[k + 1]
         /\ \E next : Own(object, PathTo(tree, RightKey, tree.height, 4), next, 1)
<1> DEFINE tr == object.tree
           stored == object.stored
           items == object.items
           high == tr.height - 1
           to == PathTo(tr, RightKey, tr.height, 4)
<1>1. /\ Len(stored) \in Nat /\ SearchTree(tr, stored) /\ L \in Ways(tr, high, Len(stored))
      /\ Len(items) \in Nat /\ DOMAIN items = 1..Len(items)
  BY ObjectIs DEF Own
<1>2. tr.height > 1 /\ tr.height \in Nat /\ high \in 1..high
  BY <1>1, TreeIs DEF GoesOn, tree
<1>3. EndsAt(tr, L, j - 1, path)
  BY OwnIs
<1>4. path[high] = L[high] /\ NodeAt(tr, path, high) = NodeAt(tr, L, high)
  BY <1>2, <1>3 DEF EndsAt
<1>5. L[high] < Len(NodeAt(tr, L, high).keys)
      /\ RightKey = NodeAt(tr, L, high).keys[L[high] + 1]
      /\ RightKey.obj = Object /\ RightKey.type = DR
  BY <1>4 DEF GoesOn, ParentPos, ParentKeys, RightKey, tree
<1>6. PICK next : Turned(tr, stored, L, next)
  BY <1>1, <1>2, <1>5, NextLeaf
<1> DEFINE y == LeafItems(tr, next)[1]
<1>7. /\ next \in Ways(tr, high, Len(stored)) /\ NextTo(tr, L, next) /\ IsKey(RightKey)
      /\ 1 \in DOMAIN LeafItems(tr, next) /\ Compare(y, RightKey, 4) = 0
  BY <1>5, <1>6 DEF Turned
<1>8. to = Append(next, 1 - 1) /\ ItemAt(tr, to) = y
  <2> DEFINE n == 4
             key == RightKey
             one == 1
             there == PathTo(tr, key, tr.height, n)
  <2>1. n \in {3, 4} /\ IsKey(key) /\ one \in DOMAIN LeafItems(tr, next)
        /\ Compare(LeafItems(tr, next)[one], key, n) = 0
    BY <1>7
  <2> HIDE DEF n, key, one
  <2>2. there = Append(next, one - 1) /\ ItemAt(tr, there) = LeafItems(tr, next)[one]
    BY <1>1, <1>7, <2>1, LookupLeads
  <2>3. QED
    BY <2>2 DEF n, key, one
<1>9. /\ Len(LeafItems(tr, next)) \in Nat \ {0} /\ DOMAIN LeafItems(tr, next) = 1..Len(LeafItems(tr, next))
      /\ Ordered(LeafItems(tr, next))
  BY <1>1, <1>7, TreeIs
<1>10. IsKey(y)
  BY <1>7, <1>9 DEF Ordered
<1> HIDE DEF y, to, high, tr, stored, items
<1>11. y.obj = Object
  BY <1>5, <1>7, <1>10, CompareIs, SMTT(40)
<1>12. Own(object, to, next, 1)
  BY <1>7, <1>8, <1>9, <1>11 DEF Own, y, high, tr, stored
<1>13. PICK m \in 1..Len(items) : y = items[m]
  BY <1>8, <1>12, OwnIs DEF tr, items
<1> DEFINE x == items[k]
<1>14. j \in DOMAIN LeafItems(tr, L) /\ LeafItems(tr, L)[j] = x
  <2>1. j \in 1..Len(LeafItems(tr, L)) /\ LeafItems(tr, L)[j] = x
    BY OwnIs, ZenonT(40) DEF Own, tr, items, Item, tree
  <2>2. DOMAIN LeafItems(tr, L) = 1..Len(LeafItems(tr, L))
    BY <1>1, TreeIs DEF high
  <2>3. QED
    BY <2>1, <2>2
<1>15. Compare(x, y, 3) = -1
  <2>1. Part(L, next, high) /\ L[high] < next[high] /\ L[high] \in Nat
    BY <1>1, <1>2, <1>7, LeafWayIs, SMTT(40) DEF NextTo, high
  <2>2. QED
    BY <1>1, <1>2, <1>7, <1>14, <2>1, LeavesOrdered, SMTT(40) DEF high, y
<1>16. k < m
  BY <1>1, <1>13, <1>15, Placed DEF items
<1>17. k \in 1..Len(items) /\ k + 1 \in 1..Len(items) /\ k + 1 \in 2..Len(items) /\ k < Len(items)
  BY <1>1, <1>13, <1>16 DEF items
<1>18. items[k + 1] = y
  <2>1. PICK q \in DOMAIN stored : items[k + 1] = stored[q]
    BY <1>1, <1>17, ObjectIs DEF items, stored
  <2>2. PICK W \in Ways(tr, high, Len(stored)) :
          \E i \in DOMAIN LeafItems(tr, W) : LeafItems(tr, W)[i] = stored[q]
    BY <1>1 DEF SearchTree, high
  <2>3. PICK i \in DOMAIN LeafItems(tr, W) : LeafItems(tr, W)[i] = items[k + 1]
    BY <2>1, <2>2
  <2>4. y = items[k + 1] \/ Compare(y, items[k + 1], 3) = -1
    <3>1. ItemAt(object.tree, path) = object.items[k]
      BY DEF Item, tree
    <3>2. object.kind # "file"
      BY DEF IsFile
    <3>3. QED
      BY <1>6, <1>17, <2>3, <3>1, <3>2, OnwardItem DEF tr, stored, items, high, y
  <2>5. CASE Compare(y, items[k + 1], 3) = -1
    <3>1. m < k + 1
      BY <1>13, <1>17, <2>5, Placed DEF items
    <3>2. QED
      BY <1>13, <1>16, <1>17, <3>1
  <2>6. QED
    BY <2>4, <2>5
<1>19. QED
  BY <1>8, <1>12, <1>17, <1>18 DEF tr, to, items, tree

(* Where it does not go on there is no further item, unless the leaves are *)
(* below different nodes.                                                  *)
LEMMA LastIs ==
  ASSUME object \in Objects, ~IsFile, NEW L, NEW j, Own(object, path, L, j),
         NEW k \in 2..Len(object.items), Item = object.items[k], ~GoesOn, tree.height < 3
  PROVE  k = Len(object.items)
<1> DEFINE tr == object.tree
           stored == object.stored
           items == object.items
           high == tr.height - 1
<1>1. /\ Len(stored) \in Nat /\ SearchTree(tr, stored) /\ L \in Ways(tr, high, Len(stored))
      /\ Len(items) \in Nat /\ DOMAIN items = 1..Len(items) /\ tr.height \in Nat \ {0}
  BY ObjectIs, TreeIs DEF Own
<1>2. SUFFICES ASSUME k < Len(items)  PROVE FALSE
  BY <1>1
<1>3. k \in 1..Len(items) /\ k + 1 \in 1..Len(items) /\ k + 1 \in 2..Len(items)
  BY <1>1, <1>2
<1>4. PICK q \in DOMAIN stored : items[k + 1] = stored[q]
  <2> HIDE DEF items, stored
  <2>1. k + 1 \in DOMAIN items
    BY <1>1, <1>3
  <2>2. QED
    BY <2>1, ObjectIs DEF items, stored
<1>5. PICK W \in Ways(tr, high, Len(stored)) :
        \E i \in DOMAIN LeafItems(tr, W) : LeafItems(tr, W)[i] = stored[q]
  BY <1>1 DEF SearchTree
<1>6. PICK i \in DOMAIN LeafItems(tr, W) : LeafItems(tr, W)[i] = items[k + 1]
  BY <1>4, <1>5
<1>7. ItemAt(object.tree, path) = object.items[k] /\ object.kind # "file"
  BY DEF Item, tree, IsFile
<1> DEFINE z == items[k + 1]
<1>8. /\ W # L /\ \A d \in 1..high : Part(W, L, d) => L[d] < W[d]
      /\ \A next : Turned(tr, stored, L, next) =>
           LET y == LeafItems(tr, next)[1] IN y = z \/ Compare(y, z, 3) = -1
  BY <1>2, <1>6, <1>7, OnwardItem
<1>9. /\ high \in Nat /\ L \in Seq(Nat) /\ Len(L) = high /\ W \in Seq(Nat) /\ Len(W) = high
  BY <1>1, LeafWayIs
<1> HIDE DEF high
<1>10. PICK d \in 1..high : Part(W, L, d)
  BY <1>8, <1>9, WaysPart
<1>11. high = 1 /\ d = 1 /\ tr.height = 2 /\ L[1] < W[1]
  BY <1>1, <1>8, <1>10 DEF high, tree
<1>12. /\ L[1] \in Nat /\ Len(NodeAt(tr, L, 1).keys) \in Nat /\ L[1] < Len(NodeAt(tr, L, 1).keys)
  <2>1. 1 \in 1..(tr.height - 1)
    BY <1>11
  <2>2. W[1] <= Len(NodeAt(tr, W, 1).keys) /\ W[1] \in Nat
    BY <1>1, <2>1, KeysAre DEF high
  <2>3. L[1] \in Nat /\ Len(NodeAt(tr, L, 1).keys) \in Nat
    BY <1>1, <2>1, KeysAre DEF high
  <2>4. NodeAt(tr, W, 1) = NodeAt(tr, L, 1)
    BY NodeAtIs
  <2>5. QED
    BY <1>11, <2>2, <2>3, <2>4
<1>13. PICK next : Turned(tr, stored, L, next)
  <2>1. L[tr.height - 1] < Len(NodeAt(tr, L, tr.height - 1).keys) /\ tr.height > 1
    BY <1>11, <1>12
  <2>2. QED
    BY <1>1, <2>1, NextLeaf DEF high
<1> DEFINE y == LeafItems(tr, next)[1]
           key == NodeAt(tr, L, 1).keys[L[1] + 1]
           x == items[k]
<1>14. /\ next \in Ways(tr, tr.height - 1, Len(stored)) /\ NextTo(tr, L, next) /\ IsKey(key)
       /\ 1 \in DOMAIN LeafItems(tr, next) /\ Compare(y, key, 4) = 0
  BY <1>11, <1>13 DEF Turned
<1>15. y = z \/ Compare(y, z, 3) = -1
  BY <1>8, <1>13
<1>16. IsKey(y) /\ \E p \in DOMAIN stored : y = stored[p]
  <2>1. /\ DOMAIN LeafItems(tr, next) = 1..Len(LeafItems(tr, next)) /\ Ordered(LeafItems(tr, next))
        /\ \A a \in 1..Len(LeafItems(tr, next)) : \E p \in DOMAIN stored : LeafItems(tr, next)[a] = stored[p]
    BY <1>1, <1>14, TreeIs, SMTT(40)
  <2>2. QED
    BY <1>14, <2>1 DEF Ordered
<1>17. Compare(x, y, 3) = -1
  <2>1. j \in 1..Len(LeafItems(tr, L)) /\ LeafItems(tr, L)[j] = x
    BY <1>7, OwnIs, ZenonT(40) DEF Own
  <2>2. DOMAIN LeafItems(tr, L) = 1..Len(LeafItems(tr, L))
    BY <1>1, TreeIs DEF high
  <2>3. Part(L, next, tr.height - 1) /\ L[tr.height - 1] < next[tr.height - 1]
        /\ tr.height - 1 \in 1..(tr.height - 1)
    BY <1>11, <1>12, <1>14 DEF NextTo
  <2>4. L \in Ways(tr, tr.height - 1, Len(stored)) /\ j \in DOMAIN LeafItems(tr, L)
    BY <1>1, <2>1, <2>2 DEF high
  <2>5. Compare(LeafItems(tr, L)[j], LeafItems(tr, next)[1], 3) = -1
    BY <1>1, <1>14, <2>3, <2>4, LeavesOrdered
  <2>6. QED
    BY <2>1, <2>5
<1>18. IsKey(x) /\ x.obj = Object /\ IsKey(z) /\ z.obj = Object
  BY <1>1, <1>3, ObjectIs
<1> HIDE DEF x, y, z, key
<1>19. y.obj = Object
  <2>1. x.obj \in Nat /\ y.obj \in Nat /\ x.obj <= y.obj
    BY <1>16, <1>17, <1>18, CompareIs, SMTT(40)
  <2>2. y.obj <= z.obj
    BY <1>15, <1>16, <1>18, <2>1, CompareIs, SMTT(40)
  <2>3. QED
    BY <1>18, <2>1, <2>2
<1>20. PICK m \in 1..Len(items) : y = items[m]
  <2> HIDE DEF items, stored
  <2>1. PICK p \in DOMAIN stored : y = stored[p]
    BY <1>16
  <2>2. stored[p].obj = Object
    BY <1>19, <2>1
  <2>3. \E m \in DOMAIN items : stored[p] = items[m]
    BY <2>2, ObjectIs DEF items, stored
  <2>4. QED
    BY <1>1, <2>1, <2>3
<1>21. k < m
  BY <1>3, <1>17, <1>20, Placed DEF x
<1>22. y.type = DR
  <2>1. m \in 2..Len(items)
    BY <1>1, <1>3, <1>20, <1>21
  <2>2. QED
    BY <1>7, <1>20, <2>1, EntriesAre
<1>23. key.obj = Object /\ key.type = DR
  <2>1. IsKey(y) /\ IsKey(key) /\ Compare(y, key, 4) = 0
    BY <1>14, <1>16
  <2>2. y.obj = key.obj /\ y.type = key.type
    BY <2>1, CompareIs, SMTT(40)
  <2>3. QED
    BY <1>19, <1>22, <2>2
<1>24. EndsAt(tr, L, j - 1, path)
  BY OwnIs
<1>25. path[1] = L[1] /\ NodeAt(tr, path, 1) = NodeAt(tr, L, 1)
  BY <1>11, <1>24 DEF EndsAt
<1>26. GoesOn
  BY <1>11, <1>12, <1>23, <1>25 DEF GoesOn, ParentPos, ParentKeys, RightKey, tree, key
<1>27. QED
  BY <1>26

-----------------------------------------------------------------------------
(* Lists of entries put one after the other.                               *)
Flats(lists) ==
  CHOOSE g : g = [i \in 1..Len(lists) |-> IF i = 1 THEN lists[i] ELSE g[i - 1] \o lists[i]]

Joined(lists, n) == IF n = 0 THEN <<>> ELSE Flats(lists)[n]

(* The function FlattenSeq is defined by, by the least length there would  *)
(* be none for.                                                            *)
LEMMA FlatsExist ==
  ASSUME NEW lists, Len(lists) \in Nat
  PROVE  \A i \in 1..Len(lists) : Flats(lists)[i] =
           IF i = 1 THEN lists[i] ELSE Flats(lists)[i - 1] \o lists[i]
<1> DEFINE Body(g, i) == IF i = 1 THEN lists[i] ELSE g[i - 1] \o lists[i]
           Bad == {k \in Nat : ~\E g : g = [i \in 1..k |-> Body(g, i)]}
           f == Flats(lists)
<1>1. Bad = {}
  <2>1. SUFFICES ASSUME Bad # {}  PROVE FALSE
    OBVIOUS
  <2>2. PICK k \in Bad : \A m \in Bad : k <= m
    BY <2>1, LeastExists
  <2>3. CASE k = 0
    <3> DEFINE g == [i \in 1..0 |-> 0]
    <3>1. g = [i \in 1..0 |-> Body(g, i)]
      OBVIOUS
    <3>2. QED
      BY <2>2, <2>3, <3>1
  <2>4. CASE k # 0
    <3>1. k - 1 \in Nat /\ k - 1 \notin Bad
      <4>1. k \in Nat /\ k - 1 \in Nat /\ ~(k <= k - 1)
        BY <2>2, <2>4
      <4> HIDE DEF Bad
      <4>2. QED
        BY <2>2, <4>1
    <3>2. PICK g : g = [i \in 1..(k - 1) |-> Body(g, i)]
      BY <3>1
    <3> DEFINE h == [i \in 1..k |-> Body(g, i)]
    <3>3. \A i \in 1..(k - 1) : h[i] = g[i]
      <4>1. \A i \in 1..(k - 1) : g[i] = Body(g, i)
        BY <3>2
      <4>2. \A i \in 1..(k - 1) : i \in 1..k
        BY <3>1
      <4> HIDE DEF Body
      <4>3. QED
        BY <4>1, <4>2
    <3>4. \A i \in 1..k : Body(h, i) = Body(g, i)
      <4> SUFFICES ASSUME NEW i \in 1..k  PROVE Body(h, i) = Body(g, i)
        OBVIOUS
      <4>1. i = 1 \/ i - 1 \in 1..(k - 1)
        OBVIOUS
      <4> HIDE DEF h
      <4>2. QED
        BY <4>1, <3>3
    <3>5. h = [i \in 1..k |-> Body(h, i)]
      BY <3>4
    <3> HIDE DEF h
    <3>6. QED
      BY <2>2, <3>5
  <2>5. QED
    BY <2>3, <2>4
<1>2. \E g : g = [i \in 1..Len(lists) |-> Body(g, i)]
  BY <1>1
<1>3. f = [i \in 1..Len(lists) |-> Body(f, i)]
  BY <1>2 DEF Flats
<1> HIDE DEF f
<1>4. \A i \in 1..Len(lists) : f[i] = Body(f, i)
  <2> HIDE DEF Body
  <2>1. QED
    BY <1>3
<1>5. QED
  BY <1>4 DEF f

(* One list more, and all of them.                                         *)
LEMMA JoinedIs ==
  ASSUME NEW lists \in Seq(Seq(Nat))
  PROVE  /\ Joined(lists, 0) = <<>> /\ FlattenSeq(lists) = Joined(lists, Len(lists))
         /\ \A n \in 0..Len(lists) : Joined(lists, n) \in Seq(Nat)
         /\ \A n \in 0..(Len(lists) - 1) : Joined(lists, n + 1) = Joined(lists, n) \o lists[n + 1]
<1> DEFINE f == Flats(lists)
           J(n) == Joined(lists, n)
           Bad == {n \in 0..Len(lists) : J(n) \notin Seq(Nat)}
<1>1. Len(lists) \in Nat /\ \A i \in 1..Len(lists) : lists[i] \in Seq(Nat)
  OBVIOUS
<1>2. \A i \in 1..Len(lists) : f[i] = IF i = 1 THEN lists[i] ELSE f[i - 1] \o lists[i]
  BY <1>1, FlatsExist
<1>3. J(0) = <<>>
  BY DEF Joined
<1>4. FlattenSeq(lists) = J(Len(lists))
  <2>1. CASE Len(lists) = 0
    <3>1. lists = <<>>
      BY <2>1
    <3>2. QED
      BY <1>3, <2>1, <3>1 DEF FlattenSeq
  <2>2. CASE Len(lists) # 0
    BY <2>2 DEF FlattenSeq, Joined, Flats
  <2>3. QED
    BY <2>1, <2>2
<1> HIDE DEF f
<1>5. ASSUME NEW n \in 0..(Len(lists) - 1)  PROVE J(n + 1) = J(n) \o lists[n + 1]
  <2>1. n + 1 \in 1..Len(lists) /\ n + 1 # 0
    BY <1>1
  <2>2. J(n + 1) = f[n + 1]
    BY <2>1 DEF Joined, f
  <2>3. CASE n = 0
    <3>1. f[1] = lists[1] /\ lists[1] \in Seq(Nat)
      BY <1>1, <1>2, <2>1, <2>3, SMTT(40)
    <3> DEFINE e == lists[1]
    <3> HIDE DEF e
    <3>2. e \in Seq(Nat) => <<>> \o e = e
      OBVIOUS
    <3>3. QED
      BY <1>3, <2>2, <2>3, <3>1, <3>2 DEF e
  <2>4. CASE n # 0
    <3>1. J(n) = f[n]
      BY <2>4 DEF Joined, f
    <3>2. n + 1 # 1 /\ (n + 1) - 1 = n
      BY <2>4
    <3>3. f[n + 1] = f[n] \o lists[n + 1]
      BY <1>2, <2>1, <3>2
    <3> HIDE DEF J
    <3>4. QED
      BY <2>2, <3>1, <3>3
  <2>5. QED
    BY <2>3, <2>4
<1> HIDE DEF J
<1>6. Bad = {}
  <2>1. SUFFICES ASSUME Bad # {}  PROVE FALSE
    OBVIOUS
  <2>2. PICK k \in Bad : \A m \in Bad : k <= m
    <3>1. Bad \subseteq Nat
      OBVIOUS
    <3>2. QED
      BY <2>1, <3>1, LeastExists
  <2>3. k # 0
    <3>1. <<>> \in Seq(Nat)
      OBVIOUS
    <3>2. QED
      BY <1>3, <2>2, <3>1
  <2>4. k - 1 \in 0..(Len(lists) - 1) /\ k - 1 \in 0..Len(lists) /\ ~(k <= k - 1) /\ (k - 1) + 1 = k
        /\ k \in 1..Len(lists)
    BY <1>1, <2>2, <2>3
  <2>5. k - 1 \notin Bad
    BY <2>2, <2>4
  <2>6. J(k - 1) \in Seq(Nat)
    BY <2>4, <2>5
  <2>7. J(k) = J(k - 1) \o lists[k]
    BY <1>5, <2>4
  <2>8. lists[k] \in Seq(Nat)
    BY <1>1, <2>4
  <2>9. J(k) \in Seq(Nat)
    BY <2>6, <2>7, <2>8
  <2>10. QED
    BY <2>2, <2>9
<1>7. QED
  BY <1>3, <1>4, <1>5, <1>6 DEF J

(* A sequence begins with another one.                                     *)
Begins(t, s) == Len(s) <= Len(t) /\ \A i \in 1..Len(s) : s[i] = t[i]

(* A beginning is a prefix.                                                *)
LEMMA BeginsIs ==
  ASSUME NEW s \in Seq(Nat), NEW t \in Seq(Nat), Begins(t, s)
  PROVE  IsPrefix(s, t)
<1>1. Len(s) \in Nat /\ Len(t) \in Nat /\ Len(s) <= Len(t)
  BY DEF Begins
<1>2. \A i \in 1..Len(s) : s[i] = t[i]
  BY DEF Begins
<1>3. SubSeq(s, 1, Len(s)) = SubSeq(t, 1, Len(s))
  BY <1>1, <1>2
<1>4. QED
  BY <1>1, <1>3 DEF IsPrefix

(* A list begins with itself, and one followed by another with the first.  *)
LEMMA BeginsWith ==
  ASSUME NEW s \in Seq(Nat), NEW t \in Seq(Nat)
  PROVE  Begins(s \o t, s) /\ Begins(s, s)
BY DEF Begins

(* The beginning of a beginning.                                           *)
LEMMA BeginsOn ==
  ASSUME NEW s \in Seq(Nat), NEW t \in Seq(Nat), NEW u \in Seq(Nat), Begins(t, s), Begins(u, t)
  PROVE  Begins(u, s)
<1>1. Len(s) \in Nat /\ Len(t) \in Nat /\ Len(u) \in Nat /\ Len(s) <= Len(t) /\ Len(t) <= Len(u)
  BY DEF Begins
<1>2. \A i \in 1..Len(s) : i \in 1..Len(t) /\ s[i] = t[i]
  BY <1>1 DEF Begins
<1>3. \A i \in 1..Len(s) : s[i] = u[i]
  BY <1>2 DEF Begins
<1>4. QED
  BY <1>1, <1>3 DEF Begins

(* Fewer lists are the beginning of more.                                  *)
LEMMA JoinedBegins ==
  ASSUME NEW lists \in Seq(Seq(Nat)), NEW n \in 0..Len(lists)
  PROVE  Begins(FlattenSeq(lists), Joined(lists, n))
<1> DEFINE J(m) == Joined(lists, m)
           Bad == {m \in 0..Len(lists) : n <= m /\ ~Begins(J(m), J(n))}
<1>1. Len(lists) \in Nat /\ n \in Nat /\ \A i \in 1..Len(lists) : lists[i] \in Seq(Nat)
  OBVIOUS
<1>2. /\ FlattenSeq(lists) = J(Len(lists)) /\ \A m \in 0..Len(lists) : J(m) \in Seq(Nat)
      /\ \A m \in 0..(Len(lists) - 1) : J(m + 1) = J(m) \o lists[m + 1]
  BY JoinedIs
<1> HIDE DEF J
<1>3. Bad = {}
  <2>1. SUFFICES ASSUME Bad # {}  PROVE FALSE
    OBVIOUS
  <2>2. PICK k \in Bad : \A m \in Bad : k <= m
    <3>1. Bad \subseteq Nat
      OBVIOUS
    <3>2. QED
      BY <2>1, <3>1, LeastExists
  <2>3. k # n
    BY <1>2, <2>2, BeginsWith
  <2>4. k - 1 \in 0..(Len(lists) - 1) /\ k - 1 \in 0..Len(lists) /\ ~(k <= k - 1) /\ (k - 1) + 1 = k
        /\ k \in 1..Len(lists) /\ n <= k - 1
    BY <1>1, <2>2, <2>3
  <2>5. k - 1 \notin Bad
    BY <2>2, <2>4
  <2>6. Begins(J(k - 1), J(n))
    BY <2>4, <2>5
  <2>7. J(k) = J(k - 1) \o lists[k]
    BY <1>2, <2>4
  <2>8. lists[k] \in Seq(Nat) /\ J(k - 1) \in Seq(Nat) /\ J(k) \in Seq(Nat) /\ J(n) \in Seq(Nat)
    BY <1>1, <1>2, <2>2, <2>4
  <2>9. Begins(J(k), J(k - 1))
    BY <2>7, <2>8, BeginsWith
  <2>10. Begins(J(k), J(n))
    BY <2>6, <2>8, <2>9, BeginsOn
  <2>11. QED
    BY <2>2, <2>10
<1>4. Len(lists) \in 0..Len(lists) /\ n <= Len(lists)
  BY <1>1
<1>5. QED
  BY <1>2, <1>3, <1>4 DEF J

(* Two sequences one behind the other, for the provers.                    *)
LEMMA ConcatIs ==
  ASSUME NEW S, NEW s \in Seq(S), NEW t \in Seq(S)
  PROVE  /\ s \o t \in Seq(S) /\ Len(s \o t) = Len(s) + Len(t)
         /\ \A i \in 1..(Len(s) + Len(t)) : (s \o t)[i] = IF i <= Len(s) THEN s[i] ELSE t[i - Len(s)]
OBVIOUS

(* What is appended to two sequences is appended to the second.            *)
LEMMA AppendJoined ==
  ASSUME NEW s \in Seq(Nat), NEW t \in Seq(Nat), NEW x \in Nat
  PROVE  Append(s \o t, x) = s \o Append(t, x)
<1> DEFINE a == Append(s \o t, x)
           u == Append(t, x)
           b == s \o u
<1>1. Len(s) \in Nat /\ Len(t) \in Nat
  OBVIOUS
<1>2. u \in Seq(Nat) /\ Len(u) = Len(t) + 1 /\ u[Len(t) + 1] = x /\ \A i \in 1..Len(t) : u[i] = t[i]
  OBVIOUS
<1>3. /\ a \in Seq(Nat) /\ Len(a) = Len(s) + Len(t) + 1 /\ a[Len(s) + Len(t) + 1] = x
      /\ \A i \in 1..(Len(s) + Len(t)) : a[i] = IF i <= Len(s) THEN s[i] ELSE t[i - Len(s)]
  OBVIOUS
<1> HIDE DEF u
<1>4. /\ b \in Seq(Nat) /\ Len(b) = Len(s) + Len(u)
      /\ \A i \in 1..(Len(s) + Len(u)) : b[i] = IF i <= Len(s) THEN s[i] ELSE u[i - Len(s)]
  <2>1. u \in Seq(Nat)
    BY <1>2
  <2>2. QED
    BY <2>1, ConcatIs
<1> HIDE DEF a, b
<1>5. \A i \in 1..(Len(s) + Len(t) + 1) : a[i] = b[i]
  <2> SUFFICES ASSUME NEW i \in 1..(Len(s) + Len(t) + 1)  PROVE a[i] = b[i]
    OBVIOUS
  <2>1. CASE i = Len(s) + Len(t) + 1
    BY <1>1, <1>2, <1>3, <1>4, <2>1
  <2>2. CASE i # Len(s) + Len(t) + 1
    <3>1. i \in 1..(Len(s) + Len(t)) /\ i \in 1..(Len(s) + Len(u))
      <4>1. Len(u) = Len(t) + 1
        BY <1>2
      <4>2. QED
        BY <1>1, <2>2, <4>1
    <3>2. i <= Len(s) \/ i - Len(s) \in 1..Len(t)
      BY <1>1, <3>1
    <3>3. QED
      BY <1>2, <1>3, <1>4, <3>1, <3>2
  <2>3. QED
    BY <2>1, <2>2
<1>6. a = b
  <2>1. Len(b) = Len(s) + Len(t) + 1
    BY <1>1, <1>2, <1>4
  <2>2. a \in Seq(Nat) /\ b \in Seq(Nat) /\ Len(a) = Len(s) + Len(t) + 1
    BY <1>3, <1>4
  <2>3. QED
    BY <1>5, <2>1, <2>2
<1>7. QED
  BY <1>6 DEF a, b, u

(* A list taken entry by entry.                                            *)
LEMMA TakeOn ==
  ASSUME NEW s \in Seq(Nat), NEW e \in Seq(Nat), NEW n \in 0..Len(e)
  PROVE  /\ s \o SubSeq(e, 1, n) \in Seq(Nat) /\ Begins(s \o e, s \o SubSeq(e, 1, n))
         /\ s \o SubSeq(e, 1, 0) = s /\ s \o SubSeq(e, 1, Len(e)) = s \o e
         /\ n < Len(e) => Append(s \o SubSeq(e, 1, n), e[n + 1]) = s \o SubSeq(e, 1, n + 1)
<1> DEFINE part == SubSeq(e, 1, n)
<1>1. n \in Nat /\ Len(e) \in Nat /\ n <= Len(e) /\ Len(s) \in Nat
  OBVIOUS
<1>2. part \in Seq(Nat) /\ Len(part) = n /\ \A i \in 1..n : part[i] = e[i]
  BY <1>1
<1>3. SubSeq(e, 1, 0) = <<>> /\ SubSeq(e, 1, Len(e)) = e /\ s \o <<>> = s
  BY <1>1
<1>4. ASSUME n < Len(e)
      PROVE  Append(s \o part, e[n + 1]) = s \o SubSeq(e, 1, n + 1)
  <2> DEFINE more == SubSeq(e, 1, n + 1)
  <2>1. more \in Seq(Nat) /\ Len(more) = n + 1 /\ \A i \in 1..(n + 1) : more[i] = e[i]
    BY <1>1, <1>4
  <2>2. e[n + 1] \in Nat
    BY <1>1, <1>4
  <2> HIDE DEF part, more
  <2> DEFINE x == e[n + 1]
             a == Append(s \o part, x)
             b == s \o more
  <2>3. more = Append(part, x)
    <3> DEFINE c == Append(part, x)
    <3>1. c \in Seq(Nat) /\ Len(c) = n + 1 /\ c[n + 1] = x /\ \A i \in 1..n : c[i] = part[i]
      BY <1>1, <1>2, <2>2, SMTT(40)
    <3> HIDE DEF c
    <3>2. \A i \in 1..(n + 1) : i = n + 1 \/ i \in 1..n
      BY <1>1
    <3>3. \A i \in 1..(n + 1) : more[i] = c[i]
      BY <1>2, <2>1, <3>1, <3>2
    <3>4. more = c
      BY <2>1, <3>1, <3>3
    <3>5. QED
      BY <3>4 DEF c
  <2>4. Append(s \o part, x) = s \o Append(part, x)
    <3>1. part \in Seq(Nat) /\ x \in Nat
      BY <1>2, <2>2
    <3> HIDE DEF x
    <3>2. QED
      BY <3>1, AppendJoined
  <2>5. QED
    BY <2>3, <2>4 DEF part, more
<1>5. Begins(s \o e, s \o part)
  <2> HIDE DEF part
  <2>1. Len(s \o part) = Len(s) + n /\ Len(s \o e) = Len(s) + Len(e)
    <3>1. part \in Seq(Nat) /\ Len(part) = n
      BY <1>2
    <3>2. Len(s \o part) = Len(s) + Len(part) /\ Len(s \o e) = Len(s) + Len(e)
      BY <3>1, ConcatIs
    <3>3. QED
      BY <3>1, <3>2
  <2>2. ASSUME NEW i \in 1..(Len(s) + n)
        PROVE  (s \o part)[i] = (s \o e)[i]
    <3>1. CASE i <= Len(s)
      BY <1>1, <1>2, <3>1
    <3>2. CASE ~(i <= Len(s))
      <4>1. i - Len(s) \in 1..n /\ i - Len(s) \in 1..Len(e)
        BY <1>1, <3>2
      <4>2. (s \o part)[i] = part[i - Len(s)] /\ (s \o e)[i] = e[i - Len(s)]
        BY <1>1, <1>2, <3>2, <4>1
      <4>3. QED
        BY <1>2, <4>1, <4>2
    <3>3. QED
      BY <3>1, <3>2
  <2>3. QED
    BY <1>1, <2>1, <2>2 DEF Begins
<1>6. s \o part \in Seq(Nat)
  BY <1>2
<1>7. QED
  BY <1>3, <1>4, <1>5, <1>6

-----------------------------------------------------------------------------
(* The invariant.                                                          *)
Open == pc \notin {"closed", "astray"}

Bytewise == Int \cup {"pad"}

(* The ranges, and that a read never has more than was asked for.          *)
Typed ==
  /\ object \in Objects
  /\ pc \in {"closed", "ready", "read", "item", "seek", "next", "astray"}
  /\ offset \in Nat /\ block \in Nat /\ byte \in Nat /\ local \in Nat /\ want \in Nat
  /\ got \in Seq(Bytewise) /\ fresh \in BOOLEAN /\ ended \in BOOLEAN
  /\ IsFile => pc \notin {"seek", "next"} /\ Len(got) <= want
  /\ ~IsFile => pc \notin {"read", "item"}

(* An open object stands at one of its items, within it.                   *)
Standing ==
  Open => /\ \E L, j : Own(object, path, L, j)
          /\ Item.type = DR => local <= Len(Item.entries)
          /\ Item.type = DT => byte <= Item.len
          /\ ~IsFile => \E k \in 2..Len(object.items) : Item = object.items[k]

(* Only what has a first item is opened, and nothing is read before.       *)
Opened ==
  /\ pc # "closed" => HasFirst
  /\ pc = "closed" => got = <<>> /\ ~ended

(* What a read or a seek in progress has still to do.                      *)
Underway ==
  /\ pc \in {"seek", "next", "read", "item"} => ~ended
  /\ pc \in {"read", "item"} => want > 0
  /\ pc \in {"seek", "next"} => offset <= want
  /\ pc = "seek" => ~fresh
  /\ pc = "next" => want <= offset + 1
  /\ pc = "next" => IF offset = want THEN local < Len(Item.entries) ELSE local >= Len(Item.entries)

(* The first read of a file without holes: it stays in the first item, has *)
(* read all the bytes before its place, and leaves the item only when it   *)
(* has all that is there.                                                  *)
There(first) == IF first.type = DT THEN first.len ELSE Len(first.ptrs) * BlockSize

FirstBytes(g, size) == \A i \in 1..Len(g) : i <= size => g[i] = i - 1
FirstEnds(o, e, w, g) ==
  e /\ Words(o.items[2]) > 0 => Len(g) >= Least(w, Least(o.size, There(o.items[2])))
FirstDirect(item, p, w, g, blk, byt) ==
  /\ blk = 0
  /\ p = "item" => byt = 0 /\ Len(g) = 0
  /\ p = "read" => Len(g) = 0 \/ Len(g) = Least(item.len, w)
FirstIndirect(item, p, w, g, blk) ==
  /\ Len(g) = 0 => blk = 0
  /\ p \in {"read", "item"} => Len(g) = Least(w, blk * BlockSize)
  /\ p = "read" => Len(g) = 0 \/ Len(g) >= w \/ blk >= Len(item.ptrs)

FilePart ==
  IsFile /\ fresh /\ Contiguous =>
    /\ FirstBytes(got, object.size) /\ FirstEnds(object, ended, want, got)
    /\ Open => /\ Item = object.items[2] /\ offset = Len(got)
               /\ Item.type = DT => FirstDirect(Item, pc, want, got, block, byte)
               /\ Item.type = IT => FirstIndirect(Item, pc, want, got, block)

(* The first reads of a directory: the entries of the items before the one *)
(* it stands at, and those of this one before the place.                   *)
Lists(o) == [k \in 1..(Len(o.items) - 1) |-> o.items[k + 1].entries]

ListedAt(o, k, item, l, g) ==
  /\ k \in 2..Len(o.items) /\ item = o.items[k]
  /\ g = Joined(Lists(o), k - 2) \o SubSeq(item.entries, 1, l)

DirectoryPart ==
  ~IsFile /\ fresh =>
    /\ IsPrefix(got, Entries)
    /\ ended /\ tree.height < 3 => got = Entries
    /\ Open => /\ \E k \in Nat : ListedAt(object, k, Item, local, got)
               /\ ended => local >= Len(Item.entries)

IInv == Typed /\ Standing /\ Opened /\ Underway /\ FilePart /\ DirectoryPart

-----------------------------------------------------------------------------
(* What the actions have in common.                                        *)
(* Nothing that is said of the object alone changes with it unchanged.     *)
LEMMA Same ==
  ASSUME object' = object
  PROVE  /\ IsFile' = IsFile /\ tree' = tree /\ HasFirst' = HasFirst /\ FirstPath' = FirstPath
         /\ Contiguous' = Contiguous /\ Entries' = Entries
         /\ Item' = ItemAt(tree, path') /\ (path' = path => Item' = Item)
<1>1. tree' = tree /\ IsFile' = IsFile
  BY DEF tree, IsFile
<1>2. FirstKey' = FirstKey
  BY <1>1 DEF FirstKey
<1>3. FirstPath' = FirstPath
  BY <1>1, <1>2 DEF FirstPath
<1>4. HasFirst' = HasFirst
  BY <1>1, <1>2, <1>3 DEF HasFirst
<1>5. Contiguous' = Contiguous /\ Entries' = Entries
  BY DEF Contiguous, Entries
<1>6. Item' = ItemAt(tree, path') /\ (path' = path => Item' = Item)
  BY <1>1 DEF Item
<1>7. QED
  BY <1>1, <1>3, <1>4, <1>5, <1>6

(* The item of a file.                                                     *)
LEMMA FileItem ==
  ASSUME object \in Objects, IsFile, NEW to, NEW L, NEW j, Own(object, to, L, j),
         NEW item, item = ItemAt(tree, to)
  PROVE  /\ item.off \in Nat /\ item.type \in {SD, IT, DT} /\ object.size \in Nat
         /\ item.type = IT => item.ptrs \in Seq(BOOLEAN) /\ Len(item.ptrs) \in Nat
         /\ item.type = DT => item.len \in Nat /\ object.size <= item.off - 1 + item.len
<1>1. PICK k \in 1..Len(object.items) : item = object.items[k]
  BY OwnIs DEF tree
<1>2. Len(object.items) \in Nat /\ IsKey(item)
  BY <1>1, ObjectIs
<1>3. FileLaid(object) /\ object.items[1].type = SD
  BY ItemsAre DEF IsFile
<1>4. k = 1 \/ k \in 2..Len(object.items)
  BY <1>2
<1>5. CASE k = 1
  BY <1>1, <1>2, <1>3, <1>5 DEF IsKey, FileLaid, SD, IT, DT
<1>6. CASE k \in 2..Len(object.items)
  <2>1. \/ item.type = IT /\ item.ptrs \in Seq(BOOLEAN)
        \/ item.type = DT /\ item.len \in Nat /\ object.size <= item.off - 1 + item.len
    BY <1>1, <1>3, <1>6 DEF FileLaid
  <2>2. item.ptrs \in Seq(BOOLEAN) => Len(item.ptrs) \in Nat
    OBVIOUS
  <2>3. QED
    BY <1>2, <1>3, <2>1, <2>2 DEF IsKey, FileLaid, IT, DT
<1>7. QED
  BY <1>4, <1>5, <1>6

(* A place in a file within the item the seek comes to.                    *)
MovedTo(place) ==
  LET item == ItemAt(tree, path')
  IN  /\ (\E L, j : Own(object, path', L, j)) /\ offset' = place
      /\ block' \in Nat /\ byte' \in Nat
      /\ item.type = DT => byte' <= item.len
      /\ item.type # DR

(* A seek within the file ends within an item of it.                       *)
LEMMA MoveIs ==
  ASSUME object \in Objects, IsFile, NEW place \in Nat, place < object.size, MoveTo(place)
  PROVE  MovedTo(place)
<1> DEFINE to == Sought(place)
           item == ItemAt(tree, to)
           start == KeyOffset(item)
           delta == IF place > start THEN place - start ELSE 0
<1>1. path' = to /\ offset' = place /\ block' = delta \div BlockSize /\ byte' = delta
  BY DEF MoveTo
<1>2. PICK L, j, m : SoughtAt(place, L, j, m)
  BY SoughtIs
<1>3. Own(object, to, L, j) /\ m \in 1..Len(object.items) /\ item = object.items[m]
  BY <1>2 DEF SoughtAt
<1>4. /\ item.off \in Nat /\ item.type \in {SD, IT, DT} /\ object.size \in Nat
      /\ item.type = DT => item.len \in Nat /\ object.size <= item.off - 1 + item.len
  BY <1>3, FileItem
<1>5. start = item.off
  BY <1>3, ItemsAre
<1> HIDE DEF to, item, start
<1>6. delta \in Nat /\ (item.type = DT => delta <= item.len)
  BY <1>4, <1>5
<1> HIDE DEF delta
<1>7. delta \div BlockSize \in Nat
  BY <1>6, SizesAssumption
<1>8. item.type # DR
  BY <1>4 DEF SD, IT, DT, DR
<1>9. QED
  BY <1>1, <1>3, <1>6, <1>7, <1>8 DEF MovedTo, item

(* A read from the start of a file moves to the start of its first item.   *)
LEMMA MoveFirst ==
  ASSUME object \in Objects, HasFirst, MoveTo(0)
  PROVE  ItemAt(tree, path') = object.items[2] /\ block' = 0 /\ byte' = 0
<1> DEFINE items == object.items
           to == Sought(0)
           start == KeyOffset(ItemAt(tree, to))
           delta == IF 0 > start THEN 0 - start ELSE 0
<1>1. path' = to /\ block' = delta \div BlockSize /\ byte' = delta
  BY DEF MoveTo
<1>2. PICK L, j, m : SoughtAt(0, L, j, m)
  BY SoughtIs
<1>3. (0 + 1) % Wrap = 1
  BY SizesAssumption, WrapAssumption
<1>4. /\ m \in 1..Len(items) /\ ItemAt(tree, to) = items[m] /\ items[m].off <= 1
      /\ \A k \in 1..Len(items) : k > m => items[k].off > 1
  BY <1>2, <1>3 DEF SoughtAt
<1>5. 2 \in 1..Len(items) /\ items[2].off = 1 /\ Len(items) \in Nat
  BY FirstIs, ObjectIs
<1>6. start = items[m].off
  BY <1>4, ItemsAre
<1> HIDE DEF start, to, items
<1>7. m = 2
  <2>1. ~(2 > m)
    BY <1>4, <1>5
  <2>2. ~(2 < m)
    <3>1. SUFFICES ASSUME 2 < m  PROVE FALSE
      OBVIOUS
    <3>2. items[2].off < items[m].off /\ items[m].off \in Nat
      BY <1>4, <1>5, <3>1, Offsets DEF items
    <3>3. QED
      BY <1>4, <1>5, <3>2
  <2>3. QED
    BY <1>4, <1>5, <2>1, <2>2
<1>8. delta = 0
  BY <1>5, <1>6, <1>7
<1>9. 0 \div BlockSize = 0
  BY SizesAssumption
<1>10. QED
  BY <1>1, <1>4, <1>7, <1>8, <1>9 DEF items

(* The bytes of a copy.                                                    *)
LEMMA CopyIs ==
  ASSUME NEW item, item.off \in Nat, object.size \in Nat, got \in Seq(Bytewise),
         NEW first \in Int, NEW n \in Nat, got' = got \o Bytes(item, first, n)
  PROVE  /\ got' \in Seq(Bytewise) /\ Len(got') = Len(got) + n
         /\ \A i \in 1..Len(got) : got'[i] = got[i]
         /\ \A i \in (Len(got) + 1)..(Len(got) + n) :
              got'[i] = LET at == item.off - 1 + first + (i - Len(got)) - 1
                        IN  IF at < object.size THEN at ELSE "pad"
<1> DEFINE bytes == Bytes(item, first, n)
           At(i) == item.off - 1 + first + i - 1
<1>1. bytes = [i \in 1..n |-> IF At(i) < object.size THEN At(i) ELSE "pad"]
  BY DEF Bytes
<1>2. \A i \in 1..n : At(i) \in Int
  OBVIOUS
<1>3. bytes \in [1..n -> Bytewise]
  <2> HIDE DEF At
  <2>1. \A i \in 1..n : (IF At(i) < object.size THEN At(i) ELSE "pad") \in Bytewise
    BY <1>2 DEF Bytewise
  <2>2. QED
    BY <1>1, <2>1
<1>4. bytes \in Seq(Bytewise) /\ Len(bytes) = n
  <2> HIDE DEF bytes
  <2>1. QED
    BY <1>3
<1>5. \A i \in 1..n : bytes[i] = IF At(i) < object.size THEN At(i) ELSE "pad"
  <2> HIDE DEF At
  <2>1. QED
    BY <1>1
<1> HIDE DEF bytes, At
<1> DEFINE s == got
           u == s \o bytes
<1>6. /\ u \in Seq(Bytewise) /\ Len(u) = Len(s) + Len(bytes) /\ Len(s) \in Nat
      /\ \A i \in 1..(Len(s) + Len(bytes)) : u[i] = IF i <= Len(s) THEN s[i] ELSE bytes[i - Len(s)]
  <2>1. s \in Seq(Bytewise) /\ bytes \in Seq(Bytewise)
    BY <1>4
  <2> HIDE DEF s
  <2>2. Len(s) \in Nat
    BY <2>1
  <2>3. QED
    BY <2>1, <2>2, ConcatIs
<1>7. got' = u
  BY DEF bytes
<1> HIDE DEF s, u
<1>8. ASSUME NEW i \in 1..Len(s)  PROVE u[i] = s[i]
  <2>1. Len(s) \in Nat /\ Len(bytes) \in Nat
    BY <1>4, <1>6
  <2>2. i \in 1..(Len(s) + Len(bytes)) /\ i <= Len(s)
    BY <2>1
  <2>3. QED
    BY <1>6, <2>2
<1>9. ASSUME NEW i \in (Len(s) + 1)..(Len(s) + n)
      PROVE  u[i] = LET at == item.off - 1 + first + (i - Len(s)) - 1
                    IN  IF at < object.size THEN at ELSE "pad"
  <2>1. i - Len(s) \in 1..n /\ i \in 1..(Len(s) + Len(bytes)) /\ ~(i <= Len(s))
    BY <1>4, <1>6, <1>9
  <2>2. u[i] = bytes[i - Len(s)]
    BY <1>6, <2>1
  <2>3. QED
    BY <1>5, <2>1, <2>2 DEF At
<1>10. QED
  BY <1>4, <1>6, <1>7, <1>8, <1>9 DEF s

(* How much of an item is copied at once.                                  *)
LEMMA LeastIs ==
  ASSUME NEW a \in Int, NEW b \in Int
  PROVE  /\ Least(a, b) \in {a, b} /\ Least(a, b) <= a /\ Least(a, b) <= b /\ Least(a, b) \in Int
         /\ (a >= 0 /\ b >= 0 => Least(a, b) \in Nat)
BY DEF Least

(* Whole blocks.                                                           *)
LEMMA Blocks ==
  ASSUME NEW a \in Nat
  PROVE  /\ a * BlockSize \in Nat /\ (a * BlockSize) % BlockSize = 0
         /\ (a + 1) * BlockSize = a * BlockSize + BlockSize
         /\ 0 * BlockSize = 0 /\ BlockSize \in Nat \ {0}
         /\ \A b \in Nat : a <= b => a * BlockSize <= b * BlockSize
<1>1. BlockSize \in Nat \ {0}
  BY SizesAssumption
<1>2. a * BlockSize \in Nat /\ (a + 1) * BlockSize = a * BlockSize + BlockSize /\ 0 * BlockSize = 0
  BY <1>1
<1>3. (a * BlockSize) % BlockSize = 0
  BY <1>1, <1>2
<1>4. ASSUME NEW b \in Nat, a <= b  PROVE a * BlockSize <= b * BlockSize
  BY <1>1, <1>4
<1>5. QED
  BY <1>1, <1>2, <1>3, <1>4

-----------------------------------------------------------------------------
(* The item of a directory, and its lists of entries.                      *)
LEMMA DirItem ==
  ASSUME object \in Objects, ~IsFile, NEW k \in 2..Len(object.items),
         NEW item, item = object.items[k]
  PROVE  /\ item.type = DR /\ item.type # DT /\ item.entries \in Seq(Nat) /\ Len(item.entries) \in Nat \ {0}
         /\ \A i \in 1..Len(item.entries) : item.entries[i] \in Nat
<1>1. object.kind # "file"
  BY DEF IsFile
<1>2. item.type = DR /\ item.entries \in Seq(Nat) /\ Len(item.entries) \in Nat \ {0}
  BY <1>1, EntriesAre
<1> DEFINE e == item.entries
<1> HIDE DEF e
<1>3. e \in Seq(Nat) => \A i \in 1..Len(e) : e[i] \in Nat
  OBVIOUS
<1>4. QED
  BY <1>2, <1>3 DEF e, DR, DT

(* The lists of entries are those of the items from the second on.         *)
LEMMA ListsAre ==
  ASSUME object \in Objects, ~IsFile
  PROVE  /\ Lists(object) \in Seq(Seq(Nat)) /\ Len(Lists(object)) = Len(object.items) - 1
         /\ Entries = FlattenSeq(Lists(object)) /\ Len(object.items) \in Nat \ {0}
         /\ \A k \in 2..Len(object.items) :
              /\ k - 1 \in 1..Len(Lists(object)) /\ k - 2 \in 0..(Len(Lists(object)) - 1)
              /\ Lists(object)[k - 1] = object.items[k].entries
<1> DEFINE n == Len(object.items) - 1
           lists == Lists(object)
<1>1. Len(object.items) \in Nat \ {0} /\ n \in Nat
  BY ObjectIs
<1>2. lists = [k \in 1..n |-> object.items[k + 1].entries]
  BY DEF Lists
<1>3. \A k \in 1..n : k + 1 \in 2..Len(object.items)
  BY <1>1
<1>4. \A k \in 1..n : object.items[k + 1].entries \in Seq(Nat)
  BY <1>3, DirItem
<1>5. lists \in [1..n -> Seq(Nat)]
  BY <1>2, <1>4
<1>6. lists \in Seq(Seq(Nat)) /\ Len(lists) = n
  <2> HIDE DEF lists, n
  <2>1. QED
    BY <1>1, <1>5
<1>7. ASSUME NEW k \in 2..Len(object.items)
      PROVE  /\ k - 1 \in 1..n /\ k - 2 \in 0..(n - 1)
             /\ lists[k - 1] = object.items[k].entries
  <2>1. k - 1 \in 1..n /\ k - 2 \in 0..(n - 1) /\ (k - 1) + 1 = k
    BY <1>1
  <2>2. QED
    BY <1>2, <2>1
<1>8. QED
  BY <1>1, <1>6, <1>7 DEF Entries, Lists

(* A directory of which no more than the first entries have been read.     *)
LEMMA ListedIs ==
  ASSUME object \in Objects, ~IsFile, NEW k \in 2..Len(object.items),
         NEW item, item = object.items[k]
  PROVE  LET part(l) == Joined(Lists(object), k - 2) \o SubSeq(item.entries, 1, l)
         IN  /\ \A l \in 0..Len(item.entries) : part(l) \in Seq(Nat) /\ IsPrefix(part(l), Entries)
             /\ part(0) = Joined(Lists(object), k - 2)
             /\ part(Len(item.entries)) = Joined(Lists(object), k - 1)
             /\ \A l \in 0..(Len(item.entries) - 1) : Append(part(l), item.entries[l + 1]) = part(l + 1)
             /\ k = Len(object.items) => Joined(Lists(object), k - 1) = Entries
<1> DEFINE lists == Lists(object)
           e == item.entries
           s == Joined(lists, k - 2)
           all == Joined(lists, k - 1)
<1>1. e \in Seq(Nat) /\ Len(e) \in Nat
  BY DirItem
<1>2. /\ lists \in Seq(Seq(Nat)) /\ Len(lists) = Len(object.items) - 1 /\ Entries = FlattenSeq(lists)
      /\ k - 1 \in 1..Len(lists) /\ k - 2 \in 0..(Len(lists) - 1) /\ lists[k - 1] = e
      /\ Len(object.items) \in Nat
  BY ListsAre
<1>3. k - 2 \in 0..Len(lists) /\ k - 1 \in 0..Len(lists) /\ (k - 2) + 1 = k - 1 /\ Len(lists) \in 0..Len(lists)
  BY <1>2
<1> HIDE DEF lists, e
<1>4. /\ s \in Seq(Nat) /\ all = s \o e /\ all \in Seq(Nat)
      /\ Entries = Joined(lists, Len(lists)) /\ Joined(lists, Len(lists)) \in Seq(Nat)
  <2> DEFINE m == k - 2
  <2>1. m \in 0..(Len(lists) - 1) /\ m \in 0..Len(lists) /\ m + 1 = k - 1
    BY <1>2, <1>3
  <2> HIDE DEF m
  <2>2. Joined(lists, m) \in Seq(Nat) /\ Joined(lists, m + 1) = Joined(lists, m) \o lists[m + 1]
    BY <1>2, <2>1, JoinedIs
  <2>3. QED
    BY <1>2, <1>3, <2>1, <2>2, JoinedIs DEF m
<1>5. Begins(Entries, all)
  BY <1>2, <1>3, JoinedBegins
<1>6. ASSUME NEW l \in 0..Len(e)
      PROVE  /\ s \o SubSeq(e, 1, l) \in Seq(Nat) /\ IsPrefix(s \o SubSeq(e, 1, l), Entries)
             /\ l < Len(e) => Append(s \o SubSeq(e, 1, l), e[l + 1]) = s \o SubSeq(e, 1, l + 1)
  <2> DEFINE part == s \o SubSeq(e, 1, l)
  <2> HIDE DEF s
  <2>1. /\ part \in Seq(Nat) /\ Begins(s \o e, part)
        /\ l < Len(e) => Append(s \o SubSeq(e, 1, l), e[l + 1]) = s \o SubSeq(e, 1, l + 1)
    BY <1>1, <1>4, TakeOn
  <2> HIDE DEF part, all
  <2>2. Begins(Entries, part)
    BY <1>4, <1>5, <2>1, BeginsOn
  <2>3. IsPrefix(part, Entries)
    BY <1>4, <2>1, <2>2, BeginsIs
  <2>4. QED
    BY <2>1, <2>3 DEF part
<1>7. s \o SubSeq(e, 1, 0) = s /\ s \o SubSeq(e, 1, Len(e)) = s \o e
  <2>1. 0 \in 0..Len(e)
    BY <1>1
  <2> HIDE DEF s
  <2>2. QED
    BY <1>1, <1>4, <2>1, TakeOn
<1>8. k = Len(object.items) => all = Entries
  BY <1>2, <1>4
<1>9. \A l \in 0..(Len(e) - 1) : l \in 0..Len(e) /\ l < Len(e)
  BY <1>1
<1> HIDE DEF s, all
<1>10. QED
  BY <1>4, <1>6, <1>7, <1>8, <1>9 DEF s, all, lists, e

-----------------------------------------------------------------------------
(* At the start.                                                           *)
Start ==
  /\ object \in Objects /\ path = FirstPath
  /\ pc = IF HasFirst THEN "ready" ELSE "closed"
  /\ offset = 0 /\ block = 0 /\ byte = 0 /\ local = 0 /\ want \in Nat
  /\ got = <<>> /\ fresh = TRUE /\ ended = FALSE

(* The invariant holds where reading starts.                               *)
LEMMA StartIsSound == Start => IInv
<1> SUFFICES ASSUME Start  PROVE IInv
  OBVIOUS
<1>1. /\ object \in Objects /\ path = FirstPath /\ pc = IF HasFirst THEN "ready" ELSE "closed"
      /\ offset = 0 /\ block = 0 /\ byte = 0 /\ local = 0 /\ want \in Nat
      /\ got = <<>> /\ fresh = TRUE /\ ended = FALSE
  BY DEF Start
<1>2. Len(got) = 0 /\ got \in Seq(Bytewise)
  BY <1>1
<1>3. Typed
  <2>1. pc \in {"ready", "closed"}
    BY <1>1
  <2>2. /\ pc \in {"closed", "ready", "read", "item", "seek", "next", "astray"}
        /\ pc \notin {"seek", "next"} /\ pc \notin {"read", "item"}
    BY <2>1
  <2>3. fresh \in BOOLEAN /\ ended \in BOOLEAN
    BY <1>1
  <2>4. offset \in Nat /\ block \in Nat /\ byte \in Nat /\ local \in Nat /\ Len(got) <= want
    BY <1>1, <1>2
  <2>5. QED
    BY <1>1, <1>2, <2>2, <2>3, <2>4 DEF Typed
<1>4. ASSUME Open
      PROVE  /\ HasFirst /\ Item = object.items[2] /\ 2 \in 2..Len(object.items)
             /\ \E L, j : Own(object, path, L, j)
  <2>1. HasFirst
    BY <1>1, <1>4 DEF Open
  <2>2. 2 \in 1..Len(object.items) /\ Item = object.items[2] /\ \E L, j : Own(object, path, L, j)
    BY <1>1, <2>1, FirstIs DEF Item
  <2>3. Len(object.items) \in Nat
    BY <1>1, ObjectIs
  <2>4. QED
    BY <2>1, <2>2, <2>3
<1>5. Standing
  <2> SUFFICES ASSUME Open
               PROVE  /\ \E L, j : Own(object, path, L, j)
                      /\ Item.type = DR => local <= Len(Item.entries)
                      /\ Item.type = DT => byte <= Item.len
                      /\ ~IsFile => \E k \in 2..Len(object.items) : Item = object.items[k]
    BY DEF Standing
  <2>1. PICK L, j : Own(object, path, L, j)
    BY <1>4
  <2>2. CASE IsFile
    <3>1. Item.type \in {SD, IT, DT} /\ (Item.type = DT => Item.len \in Nat)
      BY <1>1, <2>1, <2>2, FileItem DEF Item
    <3>2. QED
      BY <1>1, <2>1, <2>2, <3>1 DEF SD, IT, DT, DR
  <2>3. CASE ~IsFile
    <3>1. Item.type # DT /\ Len(Item.entries) \in Nat
      BY <1>1, <1>4, <2>3, DirItem
    <3>2. QED
      BY <1>1, <1>4, <2>1, <3>1
  <2>4. QED
    BY <2>2, <2>3
<1>6. Opened /\ Underway
  BY <1>1 DEF Opened, Underway
<1>7. FilePart
  BY <1>1, <1>2, <1>4 DEF FilePart, FirstBytes, FirstEnds, FirstDirect, FirstIndirect, Open
<1>8. DirectoryPart
  <2> SUFFICES ASSUME ~IsFile
               PROVE  /\ IsPrefix(got, Entries)
                      /\ Open => \E k \in Nat : ListedAt(object, k, Item, local, got)
    BY <1>1 DEF DirectoryPart
  <2>1. /\ Lists(object) \in Seq(Seq(Nat)) /\ Entries = FlattenSeq(Lists(object))
    BY <1>1, ListsAre
  <2>2. Joined(Lists(object), 0) = <<>> /\ Begins(Entries, <<>>)
    <3>1. 0 \in 0..Len(Lists(object))
      BY <2>1
    <3>2. QED
      BY <2>1, <3>1, JoinedIs, JoinedBegins
  <2>3. IsPrefix(got, Entries)
    <3>1. Entries \in Seq(Nat) /\ <<>> \in Seq(Nat)
      <4>1. Len(Lists(object)) \in 0..Len(Lists(object))
        BY <2>1
      <4>2. QED
        BY <2>1, <4>1, JoinedIs
    <3>2. QED
      BY <1>1, <2>2, <3>1, BeginsIs
  <2>4. ASSUME Open  PROVE ListedAt(object, 2, Item, local, got)
    <3> DEFINE k == 2
    <3>1. k \in 2..Len(object.items) /\ Item = object.items[k] /\ k - 2 = 0
      BY <1>4, <2>4
    <3> HIDE DEF k
    <3>2. Joined(Lists(object), k - 2) \o SubSeq(Item.entries, 1, 0) = Joined(Lists(object), k - 2)
      BY <1>1, <3>1, ListedIs
    <3>3. ListedAt(object, k, Item, 0, <<>>)
      BY <2>2, <3>1, <3>2 DEF ListedAt
    <3>4. QED
      BY <1>1, <3>3 DEF k
  <2>5. QED
    BY <2>3, <2>4
<1>9. QED
  BY <1>3, <1>5, <1>6, <1>7, <1>8 DEF IInv

-----------------------------------------------------------------------------
(* The actions.                                                            *)
(* So it does where reading starts again.                                  *)
LEMMA StartAgain == Start' => IInv'
BY StartIsSound, PTL

(* A step that changes nothing keeps the invariant.                        *)
LEMMA StutterIsSound ==
  ASSUME IInv, UNCHANGED vars
  PROVE  IInv'
<1>1. /\ object' = object /\ path' = path /\ offset' = offset /\ block' = block /\ byte' = byte
      /\ local' = local /\ pc' = pc /\ want' = want /\ got' = got /\ fresh' = fresh /\ ended' = ended
  BY DEF vars
<1>2. /\ IsFile' = IsFile /\ tree' = tree /\ HasFirst' = HasFirst
      /\ Contiguous' = Contiguous /\ Entries' = Entries /\ Item' = Item
  BY <1>1, Same
<1>3. Typed' /\ Opened' /\ Underway'
  BY <1>1, <1>2 DEF IInv, Typed, Opened, Underway
<1>4. Standing'
  BY <1>1, <1>2 DEF IInv, Standing, Open
<1>5. FilePart'
  BY <1>1, <1>2 DEF IInv, FilePart, Open
<1>6. DirectoryPart'
  BY <1>1, <1>2 DEF IInv, DirectoryPart, Open
<1>7. QED
  BY <1>3, <1>4, <1>5, <1>6 DEF IInv

(* A lookup that fails leaves all but the path as it was.                  *)
LEMMA LookupFailsIsSound ==
  ASSUME IInv, Open, NEW key, NEW n, LookupFails(key, n)
  PROVE  IInv'
<1>1. /\ object' = object /\ pc' = "astray" /\ offset' = offset /\ block' = block /\ byte' = byte
      /\ local' = local /\ want' = want /\ got' = got /\ fresh' = fresh /\ ended' = ended
  BY DEF LookupFails
<1>2. /\ IsFile' = IsFile /\ tree' = tree /\ HasFirst' = HasFirst
      /\ Contiguous' = Contiguous /\ Entries' = Entries
  BY <1>1, Same
<1>3. ~Open'
  BY <1>1 DEF Open
<1>4. Typed' /\ Opened' /\ Underway'
  BY <1>1, <1>2 DEF IInv, Typed, Opened, Underway, Open
<1>5. Standing'
  BY <1>3 DEF Standing
<1>6. FilePart'
  BY <1>1, <1>2, <1>3 DEF IInv, FilePart
<1>7. DirectoryPart'
  BY <1>1, <1>2, <1>3 DEF IInv, DirectoryPart
<1>8. QED
  BY <1>4, <1>5, <1>6, <1>7 DEF IInv

(* Rewinding is starting again.                                            *)
LEMMA RewindIsSound ==
  ASSUME IInv, Rewind
  PROVE  IInv'
<1>1. pc = "ready" /\ Open /\ object \in Objects /\ want \in Nat /\ HasFirst
  BY DEF Rewind, Open, IInv, Typed, Opened
<1>2. CASE LookupFails(FirstKey, 4)
  BY <1>1, <1>2, LookupFailsIsSound
<1>3. CASE /\ path' = FirstPath
           /\ offset' = 0 /\ block' = 0 /\ byte' = 0 /\ local' = 0
           /\ got' = <<>> /\ fresh' = TRUE /\ ended' = FALSE
           /\ UNCHANGED <<object, pc, want>>
  <2>1. object' = object /\ pc' = pc /\ want' = want
    BY <1>3
  <2>2. FirstPath' = FirstPath /\ HasFirst' = HasFirst
    BY <2>1, Same
  <2>3. Start'
    BY <1>1, <1>3, <2>1, <2>2 DEF Start
  <2>4. QED
    BY <2>3, StartAgain
<1>4. QED
  BY <1>2, <1>3 DEF Rewind

(* What is known of an open file, and of one at its first read.            *)
LEMMA FileIs ==
  ASSUME IInv, IsFile, Open
  PROVE  /\ object \in Objects /\ HasFirst /\ object.size \in Nat
         /\ offset \in Nat /\ block \in Nat /\ byte \in Nat /\ local \in Nat /\ want \in Nat
         /\ got \in Seq(Bytewise) /\ Len(got) \in Nat /\ Len(got) <= want
         /\ fresh \in BOOLEAN /\ ended \in BOOLEAN
         /\ \E L, j : Own(object, path, L, j)
         /\ Item.off \in Nat /\ Item.type \in {SD, IT, DT}
         /\ Item.type = IT => Len(Item.ptrs) \in Nat
         /\ Item.type = DT => Item.len \in Nat /\ byte <= Item.len
         /\ pc \in {"read", "item"} => ~ended /\ want > 0
<1>1. /\ object \in Objects /\ offset \in Nat /\ block \in Nat /\ byte \in Nat /\ local \in Nat
      /\ want \in Nat /\ got \in Seq(Bytewise) /\ Len(got) <= want
      /\ fresh \in BOOLEAN /\ ended \in BOOLEAN
  BY DEF IInv, Typed
<1>2. Len(got) \in Nat
  BY <1>1
<1>3. HasFirst
  BY DEF IInv, Opened, Open
<1>4. PICK L, j : Own(object, path, L, j)
  BY DEF IInv, Standing
<1>5. Item.type = DT => byte <= Item.len
  BY DEF IInv, Standing
<1>6. /\ Item.off \in Nat /\ Item.type \in {SD, IT, DT} /\ object.size \in Nat
      /\ Item.type = IT => Len(Item.ptrs) \in Nat
      /\ Item.type = DT => Item.len \in Nat
  BY <1>1, <1>4, FileItem DEF Item
<1>7. pc \in {"read", "item"} => ~ended /\ want > 0
  BY DEF IInv, Underway
<1>8. QED
  BY <1>1, <1>2, <1>3, <1>4, <1>5, <1>6, <1>7

(* At the first read the first item is all there is.                       *)
LEMMA FirstReadIs ==
  ASSUME IInv, IsFile, Open, fresh, Contiguous
  PROVE  /\ Item = object.items[2] /\ Item.off = 1 /\ offset = Len(got) /\ Item.type \in {IT, DT}
         /\ FirstBytes(got, object.size) /\ FirstEnds(object, ended, want, got)
         /\ Item.type = DT => /\ FirstDirect(Item, pc, want, got, block, byte)
                              /\ object.size <= Item.len /\ Words(Item) = Item.len \div PointerSize
         /\ Item.type = IT => /\ FirstIndirect(Item, pc, want, got, block)
                              /\ Words(Item) = Len(Item.ptrs)
                              /\ \A i \in 1..Len(Item.ptrs) : Item.ptrs[i]
<1>1. object \in Objects /\ HasFirst /\ \E L, j : Own(object, path, L, j)
  BY FileIs
<1>2. 2 \in 1..Len(object.items) /\ object.items[2].off = 1 /\ Len(object.items) \in Nat
  BY <1>1, FirstIs, ObjectIs
<1>3. /\ Item = object.items[2] /\ offset = Len(got)
      /\ FirstBytes(got, object.size) /\ FirstEnds(object, ended, want, got)
      /\ Item.type = DT => FirstDirect(Item, pc, want, got, block, byte)
      /\ Item.type = IT => FirstIndirect(Item, pc, want, got, block)
  BY DEF IInv, FilePart
<1>4. PICK L, j : Own(object, path, L, j)
  BY <1>1
<1>5. /\ Item.type \in {SD, IT, DT} /\ object.size \in Nat
      /\ Item.type = IT => Item.ptrs \in Seq(BOOLEAN)
      /\ Item.type = DT => Item.len \in Nat /\ object.size <= Item.off - 1 + Item.len
  BY <1>1, <1>4, FileItem DEF Item
<1>6. Item.type \in {IT, DT}
  <2>1. 2 \in 2..Len(object.items)
    BY <1>2
  <2>2. object.items[2].type \in {IT, DT, DR}
    BY <1>1, <2>1, ItemsAre
  <2>3. QED
    BY <1>3, <1>5, <2>2 DEF SD, IT, DT, DR
<1>7. Item.type = DT => object.size <= Item.len /\ Words(Item) = Item.len \div PointerSize
  <2>1. Item.type = DT => Words(Item) = Item.len \div PointerSize
    BY DEF Words, IT, DT
  <2>2. Item.type = DT => object.size <= Item.len
    BY <1>2, <1>3, <1>5
  <2>3. QED
    BY <2>1, <2>2
<1>8. ASSUME Item.type = IT
      PROVE  Words(Item) = Len(Item.ptrs) /\ \A i \in 1..Len(Item.ptrs) : Item.ptrs[i]
  <2>1. Words(Item) = Len(Item.ptrs)
    BY <1>8 DEF Words, IT, DT
  <2>2. 2 \in DOMAIN object.items
    BY <1>1, <1>2, ObjectIs
  <2>3. \A i \in DOMAIN Item.ptrs : Item.ptrs[i]
    BY <1>3, <1>8, <2>2 DEF Contiguous
  <2>4. DOMAIN Item.ptrs = 1..Len(Item.ptrs)
    BY <1>5, <1>8
  <2>5. QED
    BY <2>1, <2>3, <2>4
<1>9. QED
  BY <1>2, <1>3, <1>6, <1>7, <1>8

(* A step of an open file that leaves it open, but for its first read.     *)
LEMMA FileOn ==
  ASSUME IInv, IsFile, Open, object' = object, pc' \in {"ready", "read", "item"},
         NEW L, NEW j, Own(object, path', L, j),
         ItemAt(tree, path').type = DT => byte' <= ItemAt(tree, path').len,
         offset' \in Nat, block' \in Nat, byte' \in Nat, local' \in Nat, want' \in Nat,
         got' \in Seq(Bytewise), Len(got') <= want', fresh' \in BOOLEAN, ended' \in BOOLEAN,
         pc' \in {"read", "item"} => ~ended' /\ want' > 0,
         FilePart'
  PROVE  IInv'
<1>1. object \in Objects /\ HasFirst
  BY FileIs
<1>2. /\ IsFile' = IsFile /\ tree' = tree /\ HasFirst' = HasFirst /\ Item' = ItemAt(tree, path')
  BY Same
<1>3. Typed'
  <2>1. /\ pc' \in {"closed", "ready", "read", "item", "seek", "next", "astray"}
        /\ pc' \notin {"seek", "next"}
    OBVIOUS
  <2>2. object' \in Objects
    BY <1>1
  <2>3. QED
    BY <1>2, <2>1, <2>2 DEF Typed
<1>4. Standing'
  <2>1. Item'.type # DR
    <3>1. ItemAt(tree, path').type \in {SD, IT, DT}
      BY <1>1, FileItem
    <3>2. QED
      BY <1>2, <3>1 DEF SD, IT, DT, DR
  <2>2. Own(object', path', L, j)
    OBVIOUS
  <2>3. QED
    BY <1>2, <2>1, <2>2 DEF Standing
<1>5. Opened'
  BY <1>1, <1>2 DEF Opened
<1>6. Underway'
  BY DEF Underway
<1>7. DirectoryPart'
  BY <1>2 DEF DirectoryPart
<1>8. QED
  BY <1>3, <1>4, <1>5, <1>6, <1>7 DEF IInv

(* What has to be shown of the first read after a step.                    *)
LEMMA FilePartOn ==
  ASSUME object' = object, IsFile,
         fresh' /\ Contiguous =>
           /\ FirstBytes(got', object.size) /\ FirstEnds(object, ended', want', got')
           /\ ItemAt(tree, path') = object.items[2] /\ offset' = Len(got')
           /\ object.items[2].type = DT =>
                FirstDirect(object.items[2], pc', want', got', block', byte')
           /\ object.items[2].type = IT =>
                FirstIndirect(object.items[2], pc', want', got', block')
  PROVE  FilePart'
<1>1. /\ IsFile' = IsFile /\ Contiguous' = Contiguous /\ Item' = ItemAt(tree, path')
  BY Same
<1>2. QED
  BY <1>1 DEF FilePart

-----------------------------------------------------------------------------
(* The actions of a file.                                                  *)
(* A seek in a file: what is read behind it is no first read.              *)
LEMMA FileSeekIsSound ==
  ASSUME IInv, NEW place \in Places, FileSeek(place)
  PROVE  IInv'
<1>1. IsFile /\ pc = "ready" /\ Open /\ ~Refused(place) /\ place \in Nat
  BY InputsAssumption DEF FileSeek, Open
<1>2. CASE LookupFails(SeekKey(place), 3)
  BY <1>1, <1>2, LookupFailsIsSound
<1>3. CASE MoveTo(place) /\ fresh' = FALSE /\ UNCHANGED <<object, local, pc, want, got, ended>>
  <2>1. /\ object' = object /\ local' = local /\ pc' = pc /\ want' = want /\ got' = got
        /\ ended' = ended /\ fresh' = FALSE
    BY <1>3
  <2>2. /\ object \in Objects /\ object.size \in Nat /\ local \in Nat /\ want \in Nat
        /\ got \in Seq(Bytewise) /\ Len(got) <= want /\ ended \in BOOLEAN
    BY <1>1, FileIs
  <2>3. place < object.size
    BY <1>1, <2>2 DEF Refused
  <2>4. MovedTo(place)
    BY <1>1, <1>3, <2>2, <2>3, MoveIs
  <2>5. FilePart'
    BY <1>1, <2>1, FilePartOn
  <2>6. PICK L, j : Own(object, path', L, j)
    BY <2>4 DEF MovedTo
  <2>7. /\ offset' \in Nat /\ block' \in Nat /\ byte' \in Nat
        /\ ItemAt(tree, path').type = DT => byte' <= ItemAt(tree, path').len
    BY <1>1, <2>4 DEF MovedTo
  <2>8. QED
    BY <1>1, <2>1, <2>2, <2>5, <2>6, <2>7, FileOn
<1>4. QED
  BY <1>2, <1>3 DEF FileSeek

(* A read of a file begins with nothing.                                   *)
LEMMA FileReadIsSound ==
  ASSUME IInv, NEW n \in Wants, FileRead(n)
  PROVE  IInv'
<1>1. /\ IsFile /\ pc = "ready" /\ Open /\ n \in Nat \ {0}
      /\ pc' = "read" /\ want' = n /\ got' = <<>> /\ ended' = FALSE
      /\ fresh' = (fresh /\ offset = 0)
      /\ object' = object /\ path' = path /\ offset' = offset /\ block' = block /\ byte' = byte
      /\ local' = local
  BY InputsAssumption DEF FileRead, Open
<1>2. /\ object \in Objects /\ object.size \in Nat /\ offset \in Nat /\ block \in Nat /\ byte \in Nat
      /\ local \in Nat /\ fresh \in BOOLEAN /\ \E L, j : Own(object, path, L, j)
      /\ Item.type = DT => byte <= Item.len
  BY <1>1, FileIs
<1>3. got' \in Seq(Bytewise) /\ Len(got') = 0 /\ fresh' \in BOOLEAN
  BY <1>1, <1>2
<1>4. FilePart'
  <2> SUFFICES ASSUME fresh', Contiguous
               PROVE  /\ FirstBytes(got', object.size) /\ FirstEnds(object, ended', want', got')
                      /\ ItemAt(tree, path') = object.items[2] /\ offset' = Len(got')
                      /\ object.items[2].type = DT =>
                           FirstDirect(object.items[2], pc', want', got', block', byte')
                      /\ object.items[2].type = IT =>
                           FirstIndirect(object.items[2], pc', want', got', block')
    BY <1>1, FilePartOn
  <2>1. fresh /\ offset = 0
    BY <1>1
  <2>2. /\ Item = object.items[2] /\ offset = Len(got)
        /\ Item.type = DT => FirstDirect(Item, pc, want, got, block, byte)
        /\ Item.type = IT => FirstIndirect(Item, pc, want, got, block)
    BY <1>1, <2>1, FirstReadIs
  <2>3. ItemAt(tree, path') = object.items[2]
    BY <1>1, <2>2 DEF Item
  <2>4. FirstBytes(got', object.size) /\ FirstEnds(object, ended', want', got')
    BY <1>1, <1>3 DEF FirstBytes, FirstEnds
  <2>5. Item.type = DT => FirstDirect(Item, pc', want', got', block', byte')
    BY <1>1, <1>3, <2>2 DEF FirstDirect
  <2>6. Item.type = IT => FirstIndirect(Item, pc', want', got', block')
    <3>1. Item.type = IT => block' = 0
      BY <1>1, <2>1, <2>2 DEF FirstIndirect
    <3>2. Least(n, 0 * BlockSize) = 0
      BY <1>1, Blocks DEF Least
    <3>3. QED
      BY <1>1, <1>3, <3>1, <3>2 DEF FirstIndirect
  <2>7. QED
    BY <1>1, <1>3, <2>1, <2>2, <2>3, <2>4, <2>5, <2>6
<1>5. PICK L, j : Own(object, path, L, j)
  BY <1>2
<1>6. Own(object, path', L, j) /\ (ItemAt(tree, path').type = DT => byte' <= ItemAt(tree, path').len)
  BY <1>1, <1>2, <1>5 DEF Item
<1>7. /\ offset' \in Nat /\ block' \in Nat /\ byte' \in Nat /\ local' \in Nat
      /\ want' \in Nat /\ Len(got') <= want' /\ want' > 0
  BY <1>1, <1>2, <1>3
<1>8. pc' \in {"ready", "read", "item"} /\ ended' \in BOOLEAN /\ ~ended'
  BY <1>1
<1>9. QED
  BY <1>1, <1>3, <1>4, <1>6, <1>7, <1>8, FileOn

(* A read goes on in the item the place is in, at first the first one.     *)
LEMMA NextItemIsSound ==
  ASSUME IInv, NextItem
  PROVE  IInv'
<1>1. pc = "read" /\ Open /\ Len(got) < want /\ ~Refused(offset) /\ IsFile
  BY DEF NextItem, Open, IInv, Typed
<1>2. CASE LookupFails(SeekKey(offset), 3)
  BY <1>1, <1>2, LookupFailsIsSound
<1>3. CASE MoveTo(offset) /\ pc' = "item" /\ UNCHANGED <<object, local, want, got, fresh, ended>>
  <2>1. /\ object' = object /\ local' = local /\ pc' = "item" /\ want' = want /\ got' = got
        /\ ended' = ended /\ fresh' = fresh
    BY <1>3
  <2>2. /\ object \in Objects /\ HasFirst /\ object.size \in Nat /\ local \in Nat /\ want \in Nat
        /\ offset \in Nat /\ block \in Nat /\ fresh \in BOOLEAN
        /\ got \in Seq(Bytewise) /\ Len(got) <= want /\ ended \in BOOLEAN /\ ~ended /\ want > 0
        /\ Len(got) \in Nat
        /\ Item.type = DT => Item.len \in Nat
        /\ Item.type = IT => Len(Item.ptrs) \in Nat
    BY <1>1, FileIs
  <2>3. offset < object.size
    BY <1>1, <2>2 DEF Refused
  <2>4. MovedTo(offset)
    BY <1>1, <1>3, <2>2, <2>3, MoveIs
  <2>5. PICK L, j : Own(object, path', L, j)
    BY <2>4 DEF MovedTo
  <2>6. /\ offset' \in Nat /\ block' \in Nat /\ byte' \in Nat /\ offset' = offset
        /\ ItemAt(tree, path').type = DT => byte' <= ItemAt(tree, path').len
    BY <1>1, <2>2, <2>4 DEF MovedTo
  <2>7. FilePart'
    <3> SUFFICES ASSUME fresh', Contiguous
                 PROVE  /\ FirstBytes(got', object.size) /\ FirstEnds(object, ended', want', got')
                        /\ ItemAt(tree, path') = object.items[2] /\ offset' = Len(got')
                        /\ object.items[2].type = DT =>
                             FirstDirect(object.items[2], pc', want', got', block', byte')
                        /\ object.items[2].type = IT =>
                             FirstIndirect(object.items[2], pc', want', got', block')
      BY <1>1, <2>1, FilePartOn
    <3>1. /\ Item = object.items[2] /\ offset = Len(got) /\ Item.type \in {IT, DT}
          /\ FirstBytes(got, object.size) /\ FirstEnds(object, ended, want, got)
          /\ Item.type = DT => FirstDirect(Item, pc, want, got, block, byte) /\ object.size <= Item.len
          /\ Item.type = IT => FirstIndirect(Item, pc, want, got, block) /\ Words(Item) = Len(Item.ptrs)
      BY <1>1, <2>1, FirstReadIs
    <3>2. Len(got) = 0
      <4>1. CASE Item.type = DT
        <5>1. Len(got) = 0 \/ Len(got) = Least(Item.len, want)
          BY <1>1, <3>1, <4>1 DEF FirstDirect
        <5>2. Least(Item.len, want) = Item.len \/ Least(Item.len, want) = want
          BY DEF Least
        <5>3. QED
          BY <1>1, <2>2, <2>3, <3>1, <4>1, <5>1, <5>2
      <4>2. CASE Item.type = IT
        <5>1. Len(got) = 0 \/ Len(got) >= want \/ block >= Len(Item.ptrs)
          BY <1>1, <3>1, <4>2 DEF FirstIndirect
        <5>2. ~(block >= Len(Item.ptrs))
          BY <1>1, <3>1, <4>2 DEF Refused
        <5>3. QED
          BY <1>1, <2>2, <5>1, <5>2
      <4>3. QED
        BY <3>1, <4>1, <4>2
    <3>3. offset = 0 /\ MoveTo(0)
      BY <1>3, <3>1, <3>2
    <3>4. ItemAt(tree, path') = object.items[2] /\ block' = 0 /\ byte' = 0
      BY <2>2, <3>3, MoveFirst
    <3>5. FirstBytes(got', object.size) /\ FirstEnds(object, ended', want', got')
      BY <2>1, <3>1
    <3>6. FirstDirect(object.items[2], pc', want', got', block', byte')
      BY <2>1, <3>2, <3>4 DEF FirstDirect
    <3>7. FirstIndirect(object.items[2], pc', want', got', block')
      <4>1. Least(want, 0 * BlockSize) = 0
        BY <2>2, Blocks DEF Least
      <4>2. QED
        BY <2>1, <3>2, <3>4, <4>1 DEF FirstIndirect
    <3>8. QED
      BY <2>1, <2>6, <3>1, <3>4, <3>5, <3>6, <3>7
  <2>8. QED
    BY <1>1, <2>1, <2>2, <2>5, <2>6, <2>7, FileOn
<1>4. QED
  BY <1>2, <1>3 DEF NextItem

(* A step of a file that stays where it is, but for its first read.        *)
LEMMA FileStays ==
  ASSUME IInv, IsFile, Open, object' = object, path' = path, byte' = byte, local' = local,
         pc' \in {"ready", "read", "item"}, offset' = offset, block' \in Nat, want' = want,
         got' = got, fresh' = fresh, ended' \in BOOLEAN,
         pc' \in {"read", "item"} => ~ended' /\ want > 0,
         fresh /\ Contiguous =>
           /\ FirstEnds(object, ended', want, got)
           /\ Item.type = DT => FirstDirect(Item, pc', want, got, block', byte)
           /\ Item.type = IT => FirstIndirect(Item, pc', want, got, block')
  PROVE  IInv'
<1>1. /\ object \in Objects /\ offset \in Nat /\ byte \in Nat /\ local \in Nat /\ want \in Nat
      /\ got \in Seq(Bytewise) /\ Len(got) <= want /\ fresh \in BOOLEAN
      /\ \E L, j : Own(object, path, L, j)
      /\ Item.type = DT => byte <= Item.len
  BY FileIs
<1>2. Item = ItemAt(tree, path')
  BY DEF Item
<1>3. FilePart'
  <2> SUFFICES ASSUME fresh', Contiguous
               PROVE  /\ FirstBytes(got', object.size) /\ FirstEnds(object, ended', want', got')
                      /\ ItemAt(tree, path') = object.items[2] /\ offset' = Len(got')
                      /\ object.items[2].type = DT =>
                           FirstDirect(object.items[2], pc', want', got', block', byte')
                      /\ object.items[2].type = IT =>
                           FirstIndirect(object.items[2], pc', want', got', block')
    BY FilePartOn
  <2>1. /\ FirstEnds(object, ended', want, got)
        /\ Item.type = DT => FirstDirect(Item, pc', want, got, block', byte)
        /\ Item.type = IT => FirstIndirect(Item, pc', want, got, block')
    OBVIOUS
  <2>2. Item = object.items[2] /\ offset = Len(got) /\ FirstBytes(got, object.size)
    BY FirstReadIs
  <2>3. QED
    BY <1>2, <2>1, <2>2
<1>4. PICK L, j : Own(object, path, L, j)
  BY <1>1
<1>5. Own(object, path', L, j) /\ (ItemAt(tree, path').type = DT => byte' <= ItemAt(tree, path').len)
  BY <1>1, <1>2, <1>4
<1>6. /\ offset' \in Nat /\ block' \in Nat /\ byte' \in Nat /\ local' \in Nat /\ want' \in Nat
      /\ got' \in Seq(Bytewise) /\ Len(got') <= want' /\ fresh' \in BOOLEAN
      /\ pc' \in {"read", "item"} => ~ended' /\ want' > 0
  BY <1>1
<1>7. QED
  BY <1>3, <1>5, <1>6, FileOn

(* A read ends with all it asked for or at the end of an item.             *)
LEMMA ReadDoneIsSound ==
  ASSUME IInv, ReadDone
  PROVE  IInv'
<1>1. /\ pc = "read" /\ Open /\ IsFile /\ (Len(got) >= want \/ Refused(offset))
      /\ pc' = "ready" /\ ended' = TRUE
      /\ object' = object /\ path' = path /\ offset' = offset /\ block' = block /\ byte' = byte
      /\ local' = local /\ want' = want /\ got' = got /\ fresh' = fresh
  BY DEF ReadDone, Open, IInv, Typed
<1>2. /\ object.size \in Nat /\ offset \in Nat /\ block \in Nat /\ want \in Nat /\ want > 0
      /\ Len(got) \in Nat
      /\ Item.type = DT => Item.len \in Nat
      /\ Item.type = IT => Len(Item.ptrs) \in Nat
  BY <1>1, FileIs
<1>3. ASSUME fresh, Contiguous
      PROVE  /\ FirstEnds(object, TRUE, want, got)
             /\ Item.type = DT => FirstDirect(Item, "ready", want, got, block, byte)
             /\ Item.type = IT => FirstIndirect(Item, "ready", want, got, block)
  <2>1. /\ Item = object.items[2] /\ offset = Len(got) /\ Item.type \in {IT, DT}
        /\ Item.type = DT => FirstDirect(Item, pc, want, got, block, byte)
        /\ Item.type = IT => FirstIndirect(Item, pc, want, got, block) /\ Words(Item) = Len(Item.ptrs)
    BY <1>1, <1>3, FirstReadIs
  <2> DEFINE there == There(Item)
             all == Least(want, Least(object.size, there))
  <2>2. there \in Int
    <3>1. Item.type = IT => Len(Item.ptrs) * BlockSize \in Nat
      BY <1>2, Blocks
    <3>2. QED
      BY <1>2, <2>1, <3>1 DEF There
  <2>3. all <= want /\ all <= object.size /\ all <= there /\ all \in Int
    <3> DEFINE size == object.size
               m == Least(size, there)
    <3>1. size \in Int /\ want \in Int
      BY <1>2
    <3> HIDE DEF there, size
    <3>2. m \in Int /\ m <= size /\ m <= there
      BY <2>2, <3>1, LeastIs
    <3> HIDE DEF m
    <3>3. Least(want, m) \in Int /\ Least(want, m) <= want /\ Least(want, m) <= m
      BY <3>1, <3>2, LeastIs
    <3> DEFINE a == Least(want, m)
    <3>4. all = a
      BY DEF m, size
    <3> HIDE DEF a, all
    <3>5. all <= want /\ all <= size /\ all <= there /\ all \in Int
      BY <2>2, <3>1, <3>2, <3>3, <3>4 DEF a
    <3>6. QED
      BY <3>5 DEF size
  <2>4. ASSUME Words(Item) > 0  PROVE Len(got) >= all
    <3> HIDE DEF all
    <3>1. CASE Len(got) >= want \/ offset >= object.size
      BY <1>2, <2>1, <2>3, <3>1
    <3>2. CASE Len(got) < want /\ block >= Words(Item)
      <4>1. Item.type # DT
        <5>1. Item.type = DT => block = 0
          BY <2>1 DEF FirstDirect
        <5>2. Item.type = DT => Words(Item) \in Int
          <6>1. Item.type = DT => Words(Item) = Item.len \div PointerSize
            BY DEF Words, IT, DT
          <6>2. QED
            BY <1>2, <6>1, SizesAssumption
        <5>3. QED
          BY <2>4, <3>2, <5>1, <5>2
      <4>2. Item.type = IT /\ block >= Len(Item.ptrs) /\ Len(got) = Least(want, block * BlockSize)
        BY <1>1, <2>1, <3>2, <4>1 DEF FirstIndirect
      <4>3. Len(Item.ptrs) \in Nat
        BY <1>2, <4>2
      <4>4. there = Len(Item.ptrs) * BlockSize
        BY <4>2 DEF There, IT, DT
      <4> DEFINE n == Len(Item.ptrs)
      <4>5. n \in Nat /\ n <= block
        BY <1>2, <4>2, <4>3
      <4> HIDE DEF n, there
      <4>6. n * BlockSize <= block * BlockSize /\ n * BlockSize \in Nat /\ block * BlockSize \in Nat
        BY <1>2, <4>5, Blocks
      <4> DEFINE a == n * BlockSize
                 b == block * BlockSize
      <4>7. a <= b /\ a \in Nat /\ b \in Nat /\ there = a /\ Len(got) = Least(want, b)
        BY <4>2, <4>4, <4>6 DEF n
      <4> HIDE DEF a, b
      <4>8. QED
        BY <1>2, <2>3, <3>2, <4>7 DEF Least
    <3>3. QED
      BY <1>1, <1>2, <3>1, <3>2 DEF Refused
  <2>5. FirstEnds(object, TRUE, want, got)
    BY <2>1, <2>4 DEF FirstEnds
  <2>6. Item.type = DT => FirstDirect(Item, "ready", want, got, block, byte)
    BY <2>1 DEF FirstDirect
  <2>7. Item.type = IT => FirstIndirect(Item, "ready", want, got, block)
    BY <2>1 DEF FirstIndirect
  <2>8. QED
    BY <2>5, <2>6, <2>7
<1>4. pc' \in {"ready", "read", "item"} /\ ended' \in BOOLEAN /\ block' \in Nat
      /\ ~(pc' \in {"read", "item"})
  BY <1>1, <1>2
<1>5. fresh /\ Contiguous =>
        /\ FirstEnds(object, ended', want, got)
        /\ Item.type = DT => FirstDirect(Item, pc', want, got, block', byte)
        /\ Item.type = IT => FirstIndirect(Item, pc', want, got, block')
  BY <1>1, <1>3
<1>6. QED
  BY <1>1, <1>4, <1>5, FileStays

(* The bytes of a direct item, no more than are left in it.                *)
LEMMA ReadDirectIsSound ==
  ASSUME IInv, ReadDirect
  PROVE  IInv'
<1> DEFINE chunk == Least(Item.len - byte, Missing)
<1>1. /\ pc = "item" /\ Open /\ IsFile /\ Item.type = DT
      /\ got' = got \o Bytes(Item, byte, chunk) /\ offset' = offset + chunk /\ byte' = byte + chunk
      /\ pc' = "read" /\ object' = object /\ path' = path /\ block' = block
      /\ local' = local /\ want' = want /\ fresh' = fresh /\ ended' = ended
  BY DEF ReadDirect, Copy, Open, IInv, Typed
<1>2. /\ object \in Objects /\ object.size \in Nat /\ offset \in Nat /\ block \in Nat /\ byte \in Nat
      /\ local \in Nat /\ want \in Nat /\ got \in Seq(Bytewise) /\ Len(got) \in Nat /\ Len(got) <= want
      /\ fresh \in BOOLEAN /\ ended \in BOOLEAN /\ ~ended /\ want > 0
      /\ Item.off \in Nat /\ Item.len \in Nat /\ byte <= Item.len
      /\ \E L, j : Own(object, path, L, j)
  BY <1>1, FileIs
<1>3. chunk \in Nat /\ chunk <= Item.len - byte /\ chunk <= want - Len(got)
  <2> DEFINE a == Item.len - byte
             b == want - Len(got)
  <2>1. a \in Int /\ b \in Int /\ a >= 0 /\ b >= 0 /\ chunk = Least(a, b)
    BY <1>2 DEF Missing
  <2> HIDE DEF a, b, chunk
  <2>2. Least(a, b) <= a /\ Least(a, b) <= b /\ Least(a, b) \in Nat
    BY <2>1, LeastIs
  <2>3. QED
    BY <2>1, <2>2 DEF a, b
<1>4. fresh /\ Contiguous => byte = 0 /\ Len(got) = 0
  BY <1>1, FirstReadIs DEF FirstDirect
<1>5. fresh /\ Contiguous => chunk = Least(Item.len, want)
  <2>1. byte = 0 /\ Len(got) = 0 => Item.len - byte = Item.len /\ Missing = want
    BY <1>2 DEF Missing
  <2>2. QED
    BY <1>4, <2>1
<1> HIDE DEF chunk
<1>6. byte \in Int
  BY <1>2
<1>7. /\ got' \in Seq(Bytewise) /\ Len(got') = Len(got) + chunk
      /\ \A i \in 1..Len(got) : got'[i] = got[i]
      /\ \A i \in (Len(got) + 1)..(Len(got) + chunk) :
           got'[i] = LET at == Item.off - 1 + byte + (i - Len(got)) - 1
                     IN  IF at < object.size THEN at ELSE "pad"
  BY <1>1, <1>2, <1>3, <1>6, CopyIs
<1>8. Item = ItemAt(tree, path')
  BY <1>1 DEF Item
<1>9. FilePart'
  <2> SUFFICES ASSUME fresh', Contiguous
               PROVE  /\ FirstBytes(got', object.size) /\ FirstEnds(object, ended', want', got')
                      /\ ItemAt(tree, path') = object.items[2] /\ offset' = Len(got')
                      /\ object.items[2].type = DT =>
                           FirstDirect(object.items[2], pc', want', got', block', byte')
                      /\ object.items[2].type = IT =>
                           FirstIndirect(object.items[2], pc', want', got', block')
    BY <1>1, FilePartOn
  <2>1. /\ Item = object.items[2] /\ Item.off = 1 /\ offset = Len(got)
        /\ FirstDirect(Item, pc, want, got, block, byte)
    BY <1>1, FirstReadIs
  <2>2. byte = 0 /\ Len(got) = 0 /\ chunk = Least(Item.len, want)
    BY <1>1, <1>4, <1>5
  <2>3. FirstBytes(got', object.size)
    <3> SUFFICES ASSUME NEW i \in 1..Len(got'), i <= object.size  PROVE got'[i] = i - 1
      BY DEF FirstBytes
    <3>1. i \in (Len(got) + 1)..(Len(got) + chunk) /\ i \in Nat
      BY <1>3, <1>7, <2>2
    <3> DEFINE at == Item.off - 1 + byte + (i - Len(got)) - 1
    <3>2. got'[i] = IF at < object.size THEN at ELSE "pad"
      BY <1>7, <3>1
    <3>3. at = i - 1
      BY <2>1, <2>2, <3>1
    <3> HIDE DEF at
    <3>4. at < object.size
      BY <1>2, <3>1, <3>3
    <3>5. QED
      BY <3>2, <3>3, <3>4
  <2>4. FirstEnds(object, ended', want', got')
    BY <1>1, <1>2 DEF FirstEnds
  <2>5. offset' = Len(got')
    BY <1>1, <1>7, <2>1
  <2>6. FirstDirect(Item, pc', want', got', block', byte')
    <3>1. block = 0
      BY <2>1 DEF FirstDirect
    <3>2. Len(got') = Least(Item.len, want)
      BY <1>3, <1>7, <2>2
    <3>3. QED
      BY <1>1, <3>1, <3>2 DEF FirstDirect
  <2>7. QED
    BY <1>1, <1>8, <2>1, <2>3, <2>4, <2>5, <2>6 DEF DT, IT
<1>10. PICK L, j : Own(object, path, L, j)
  BY <1>2
<1>11. offset' \in Nat /\ byte' \in Nat /\ byte' <= Item.len /\ Len(got') <= want'
  BY <1>1, <1>2, <1>3, <1>7, SMTT(40)
<1>12. /\ pc' \in {"ready", "read", "item"} /\ block' \in Nat /\ local' \in Nat /\ want' \in Nat
       /\ fresh' \in BOOLEAN /\ ended' \in BOOLEAN /\ ~ended' /\ want' > 0 /\ Own(object, path', L, j)
       /\ ItemAt(tree, path').len = Item.len
  BY <1>1, <1>2, <1>8, <1>10
<1>13. QED
  BY <1>1, <1>7, <1>9, <1>11, <1>12, FileOn

(* A hole is passed; a file without holes has none.                        *)
LEMMA SkipHoleIsSound ==
  ASSUME IInv, SkipHole
  PROVE  IInv'
<1>1. /\ pc = "item" /\ Open /\ IsFile /\ Item.type # DT /\ block < Words(Item) /\ ~Item.ptrs[block + 1]
      /\ block' = block + 1 /\ object' = object /\ path' = path /\ offset' = offset /\ byte' = byte
      /\ local' = local /\ pc' = pc /\ want' = want /\ got' = got /\ fresh' = fresh /\ ended' = ended
  BY DEF SkipHole, More, IsHole, Open, IInv, Typed
<1>2. block \in Nat /\ ended \in BOOLEAN /\ ~ended /\ want > 0 /\ (Item.type = IT => Len(Item.ptrs) \in Nat)
  BY <1>1, FileIs
<1>3. ASSUME fresh, Contiguous  PROVE FALSE
  <2>1. /\ Item.type \in {IT, DT}
        /\ Item.type = IT => Words(Item) = Len(Item.ptrs) /\ \A i \in 1..Len(Item.ptrs) : Item.ptrs[i]
    BY <1>1, <1>3, FirstReadIs
  <2>2. block + 1 \in 1..Len(Item.ptrs)
    BY <1>1, <1>2, <2>1
  <2>3. QED
    BY <1>1, <2>1, <2>2
<1>4. block' \in Nat /\ pc' \in {"ready", "read", "item"}
  BY <1>1, <1>2
<1>5. QED
  BY <1>1, <1>2, <1>3, <1>4, FileStays

(* A block that cannot be read ends the read.                              *)
LEMMA ReadBlockFailsIsSound ==
  ASSUME IInv, ReadBlockFails
  PROVE  IInv'
<1>1. /\ pc = "item" /\ Open /\ IsFile /\ Item.type # DT
      /\ pc' = "ready" /\ block' = block /\ object' = object /\ path' = path /\ offset' = offset /\ byte' = byte
      /\ local' = local /\ want' = want /\ got' = got /\ fresh' = fresh /\ ended' = ended
  BY DEF ReadBlockFails, Open, IInv, Typed
<1>2. block \in Nat /\ ended \in BOOLEAN /\ ~ended
  BY <1>1, FileIs
<1>3. fresh /\ Contiguous =>
        /\ FirstEnds(object, ended', want, got)
        /\ Item.type = DT => FirstDirect(Item, pc', want, got, block', byte)
        /\ Item.type = IT => FirstIndirect(Item, pc', want, got, block')
  <2> SUFFICES ASSUME fresh, Contiguous
               PROVE  FirstEnds(object, FALSE, want, got) /\ (Item.type = IT => FirstIndirect(Item, "ready", want, got, block))
    BY <1>1, <1>2 DEF FirstEnds
  <2>1. Item.type = IT => FirstIndirect(Item, pc, want, got, block)
    BY <1>1, FirstReadIs
  <2>2. QED
    BY <2>1 DEF FirstEnds, FirstIndirect
<1>4. pc' \in {"ready", "read", "item"} /\ ~(pc' \in {"read", "item"}) /\ block' \in Nat /\ ended' \in BOOLEAN
  BY <1>1, <1>2
<1>5. QED
  BY <1>1, <1>3, <1>4, FileStays

(* The pointers of an item are used up, or the read has all.               *)
LEMMA ItemDoneIsSound ==
  ASSUME IInv, ItemDone
  PROVE  IInv'
<1>1. /\ pc = "item" /\ Open /\ IsFile /\ Item.type # DT /\ ~(block < Words(Item) /\ Missing > 0)
      /\ pc' = "read" /\ block' = block /\ object' = object /\ path' = path /\ offset' = offset /\ byte' = byte
      /\ local' = local /\ want' = want /\ got' = got /\ fresh' = fresh /\ ended' = ended
  BY DEF ItemDone, More, Open, IInv, Typed
<1>2. /\ block \in Nat /\ ended \in BOOLEAN /\ ~ended /\ want > 0 /\ want \in Nat /\ Len(got) \in Nat
      /\ Item.type = IT => Len(Item.ptrs) \in Nat
  BY <1>1, FileIs
<1>3. fresh /\ Contiguous =>
        /\ FirstEnds(object, ended', want, got)
        /\ Item.type = DT => FirstDirect(Item, pc', want, got, block', byte)
        /\ Item.type = IT => FirstIndirect(Item, pc', want, got, block')
  <2> SUFFICES ASSUME fresh, Contiguous
               PROVE  FirstEnds(object, FALSE, want, got) /\ (Item.type = IT => FirstIndirect(Item, "read", want, got, block))
    BY <1>1, <1>2 DEF FirstEnds
  <2>1. Item.type = IT => FirstIndirect(Item, pc, want, got, block) /\ Words(Item) = Len(Item.ptrs)
    BY <1>1, FirstReadIs
  <2>2. Item.type = IT => Len(got) >= want \/ block >= Len(Item.ptrs)
    BY <1>1, <1>2, <2>1 DEF Missing
  <2>3. QED
    BY <1>1, <2>1, <2>2 DEF FirstEnds, FirstIndirect
<1>4. pc' \in {"ready", "read", "item"} /\ block' \in Nat /\ ended' \in BOOLEAN /\ ~ended'
  BY <1>1, <1>2
<1>5. QED
  BY <1>1, <1>2, <1>3, <1>4, FileStays

(* The bytes of a block; in the first read they follow those read before.  *)
LEMMA ReadBlockIsSound ==
  ASSUME IInv, ReadBlock
  PROVE  IInv'
<1> DEFINE inside == offset % BlockSize
           first == block * BlockSize + inside
           chunk == Least(BlockSize - inside, Missing)
<1>1. /\ pc = "item" /\ Open /\ IsFile /\ Item.type # DT /\ block < Words(Item) /\ Missing > 0
      /\ got' = got \o Bytes(Item, first, chunk) /\ offset' = offset + chunk /\ block' = block + 1
      /\ object' = object /\ path' = path /\ byte' = byte
      /\ local' = local /\ pc' = pc /\ want' = want /\ fresh' = fresh /\ ended' = ended
  BY DEF ReadBlock, Copy, More, Open, IInv, Typed
<1>2. /\ object \in Objects /\ object.size \in Nat /\ offset \in Nat /\ block \in Nat /\ byte \in Nat
      /\ local \in Nat /\ want \in Nat /\ got \in Seq(Bytewise) /\ Len(got) \in Nat /\ Len(got) <= want
      /\ fresh \in BOOLEAN /\ ended \in BOOLEAN /\ ~ended /\ want > 0
      /\ Item.off \in Nat /\ \E L, j : Own(object, path, L, j)
  BY <1>1, FileIs
<1>3. BlockSize \in Nat \ {0} /\ block * BlockSize \in Nat
  BY <1>2, Blocks
<1>4. inside \in 0..(BlockSize - 1)
  BY <1>2, <1>3
<1>5. Len(got) < want /\ Missing = want - Len(got)
  BY <1>1, <1>2 DEF Missing
<1> HIDE DEF inside
<1>6. /\ chunk \in Nat /\ chunk > 0 /\ chunk <= BlockSize - inside /\ chunk <= want - Len(got)
      /\ chunk \in {BlockSize - inside, want - Len(got)}
  BY <1>2, <1>3, <1>4, <1>5 DEF Least
<1> DEFINE place == block * BlockSize
<1>7. first = place + inside /\ place \in Nat
  BY <1>3
<1> HIDE DEF chunk, first, place
<1>8. first \in Int
  BY <1>4, <1>7
<1>9. /\ got' \in Seq(Bytewise) /\ Len(got') = Len(got) + chunk
      /\ \A i \in 1..Len(got) : got'[i] = got[i]
      /\ \A i \in (Len(got) + 1)..(Len(got) + chunk) :
           got'[i] = LET at == Item.off - 1 + first + (i - Len(got)) - 1
                     IN  IF at < object.size THEN at ELSE "pad"
  BY <1>1, <1>2, <1>6, <1>8, CopyIs
<1>10. Item = ItemAt(tree, path')
  BY <1>1 DEF Item
<1>11. FilePart'
  <2> SUFFICES ASSUME fresh', Contiguous
               PROVE  /\ FirstBytes(got', object.size) /\ FirstEnds(object, ended', want', got')
                      /\ ItemAt(tree, path') = object.items[2] /\ offset' = Len(got')
                      /\ object.items[2].type = DT =>
                           FirstDirect(object.items[2], pc', want', got', block', byte')
                      /\ object.items[2].type = IT =>
                           FirstIndirect(object.items[2], pc', want', got', block')
    BY <1>1, FilePartOn
  <2>1. /\ Item = object.items[2] /\ Item.off = 1 /\ offset = Len(got) /\ Item.type \in {IT, DT}
        /\ FirstBytes(got, object.size)
        /\ Item.type = IT => FirstIndirect(Item, pc, want, got, block)
    BY <1>1, FirstReadIs
  <2>2. Item.type = IT /\ Len(got) = Least(want, place)
    BY <1>1, <2>1 DEF FirstIndirect, place
  <2>3. Len(got) = place
    BY <1>5, <2>2 DEF Least
  <2>4. inside = 0 /\ first = place
    <3>1. place % BlockSize = 0
      BY <1>2, Blocks DEF place
    <3>2. QED
      BY <1>7, <2>1, <2>3, <3>1 DEF inside
  <2>5. Len(got') = Least(want, (block + 1) * BlockSize)
    <3>1. (block + 1) * BlockSize = place + BlockSize
      BY <1>2, Blocks DEF place
    <3>2. chunk = Least(BlockSize, want - place)
      BY <1>3, <1>5, <2>3, <2>4 DEF chunk
    <3> HIDE DEF place
    <3>3. place + Least(BlockSize, want - place) = Least(want, place + BlockSize)
      BY <1>2, <1>3, <1>7 DEF Least
    <3>4. QED
      BY <1>9, <2>3, <3>1, <3>2, <3>3
  <2>6. FirstBytes(got', object.size)
    <3> SUFFICES ASSUME NEW i \in 1..Len(got'), i <= object.size  PROVE got'[i] = i - 1
      BY DEF FirstBytes
    <3>1. CASE i \in 1..Len(got)
      <4>1. got[i] = i - 1
        BY <2>1, <3>1 DEF FirstBytes
      <4>2. QED
        BY <1>9, <3>1, <4>1
    <3>2. CASE i \in (Len(got) + 1)..(Len(got) + chunk)
      <4> DEFINE at == Item.off - 1 + first + (i - Len(got)) - 1
      <4>1. got'[i] = IF at < object.size THEN at ELSE "pad"
        BY <1>9, <3>2
      <4>2. at = i - 1
        BY <1>2, <1>7, <2>1, <2>3, <2>4, <3>2
      <4> HIDE DEF at
      <4>3. at < object.size
        BY <1>2, <3>2, <4>2
      <4>4. QED
        BY <4>1, <4>2, <4>3
    <3>3. QED
      BY <1>2, <1>6, <1>9, <3>1, <3>2
  <2>7. FirstEnds(object, ended', want', got')
    BY <1>1, <1>2 DEF FirstEnds
  <2>8. offset' = Len(got')
    BY <1>1, <1>9, <2>1
  <2>9. FirstIndirect(Item, pc', want', got', block')
    <3>1. Len(got') # 0
      BY <1>2, <1>6, <1>9
    <3>2. QED
      BY <1>1, <2>5, <3>1 DEF FirstIndirect
  <2>10. QED
    BY <1>1, <1>10, <2>1, <2>6, <2>7, <2>8, <2>9
<1>12. PICK L, j : Own(object, path, L, j)
  BY <1>2
<1>13. offset' \in Nat /\ block' \in Nat /\ Len(got') <= want'
  BY <1>1, <1>2, <1>6, <1>9
<1>14. /\ pc' \in {"ready", "read", "item"} /\ byte' \in Nat /\ local' \in Nat /\ want' \in Nat
       /\ fresh' \in BOOLEAN /\ ended' \in BOOLEAN /\ ~ended' /\ want' > 0 /\ Own(object, path', L, j)
       /\ ItemAt(tree, path').type # DT
  BY <1>1, <1>2, <1>10, <1>12
<1>15. QED
  BY <1>1, <1>9, <1>11, <1>13, <1>14, FileOn

-----------------------------------------------------------------------------
(* The actions of a directory.                                             *)
(* What is known of an open directory.                                     *)
LEMMA DirIs ==
  ASSUME IInv, ~IsFile, Open
  PROVE  /\ object \in Objects /\ HasFirst
         /\ offset \in Nat /\ block \in Nat /\ byte \in Nat /\ local \in Nat /\ want \in Nat
         /\ got \in Seq(Bytewise) /\ fresh \in BOOLEAN /\ ended \in BOOLEAN
         /\ \E L, j : Own(object, path, L, j)
         /\ \E k \in 2..Len(object.items) : Item = object.items[k]
         /\ Item.type # DT /\ Item.entries \in Seq(Nat) /\ Len(Item.entries) \in Nat \ {0}
         /\ local <= Len(Item.entries)
         /\ \A i \in 1..Len(Item.entries) : Item.entries[i] \in Nat
<1>1. /\ object \in Objects /\ offset \in Nat /\ block \in Nat /\ byte \in Nat /\ local \in Nat
      /\ want \in Nat /\ got \in Seq(Bytewise)
      /\ fresh \in BOOLEAN /\ ended \in BOOLEAN
  BY DEF IInv, Typed
<1>2. HasFirst
  BY DEF IInv, Opened, Open
<1>3. /\ \E L, j : Own(object, path, L, j)
      /\ Item.type = DR => local <= Len(Item.entries)
      /\ \E k \in 2..Len(object.items) : Item = object.items[k]
  BY DEF IInv, Standing
<1>4. PICK k \in 2..Len(object.items) : Item = object.items[k]
  BY <1>3
<1>5. /\ Item.type = DR /\ Item.type # DT /\ Item.entries \in Seq(Nat) /\ Len(Item.entries) \in Nat \ {0}
      /\ \A i \in 1..Len(Item.entries) : Item.entries[i] \in Nat
  BY <1>1, <1>4, DirItem
<1>6. QED
  BY <1>1, <1>2, <1>3, <1>5

(* A step of an open directory that leaves it open, but for the entries.   *)
LEMMA DirOn ==
  ASSUME IInv, ~IsFile, Open, object' = object, pc' \in {"ready", "seek", "next"},
         NEW L, NEW j, Own(object, path', L, j),
         NEW k \in 2..Len(object.items), ItemAt(tree, path') = object.items[k],
         local' <= Len(object.items[k].entries),
         offset' \in Nat, block' \in Nat, byte' \in Nat, local' \in Nat, want' \in Nat,
         got' \in Seq(Bytewise), fresh' \in BOOLEAN, ended' \in BOOLEAN,
         Underway', DirectoryPart'
  PROVE  IInv'
<1>1. object \in Objects /\ HasFirst
  BY DirIs
<1>2. /\ IsFile' = IsFile /\ tree' = tree /\ HasFirst' = HasFirst /\ Item' = ItemAt(tree, path')
  BY Same
<1>3. Typed'
  <2>1. /\ pc' \in {"closed", "ready", "read", "item", "seek", "next", "astray"}
        /\ pc' \notin {"read", "item"}
    OBVIOUS
  <2>2. object' \in Objects
    BY <1>1
  <2>3. QED
    BY <1>2, <2>1, <2>2 DEF Typed
<1>4. Standing'
  <2>1. Item'.type # DT
    BY <1>1, <1>2, DirItem
  <2>2. Own(object', path', L, j) /\ Item' = object'.items[k] /\ k \in 2..Len(object'.items)
    BY <1>2
  <2>3. local' <= Len(Item'.entries)
    BY <1>2
  <2>4. \E m \in 2..Len(object'.items) : Item' = object'.items[m]
    BY <2>2
  <2>5. QED
    BY <2>1, <2>2, <2>3, <2>4 DEF Standing
<1>5. Opened'
  BY <1>1, <1>2 DEF Opened
<1>6. FilePart'
  BY <1>2 DEF FilePart
<1>7. QED
  BY <1>3, <1>4, <1>5, <1>6 DEF IInv

(* What has to be shown of the listing after a step.                       *)
LEMMA DirectoryPartOn ==
  ASSUME object' = object, ~IsFile,
         fresh' =>
           /\ IsPrefix(got', Entries)
           /\ ended' /\ tree.height < 3 => got' = Entries
           /\ \E k \in Nat : ListedAt(object, k, ItemAt(tree, path'), local', got')
           /\ ended' => local' >= Len(ItemAt(tree, path').entries)
  PROVE  DirectoryPart'
<1>1. /\ IsFile' = IsFile /\ tree' = tree /\ Entries' = Entries /\ Item' = ItemAt(tree, path')
  BY Same
<1>2. QED
  BY <1>1 DEF DirectoryPart

(* A step of a directory that stays where it is, but for an end of it.     *)
LEMMA DirStays ==
  ASSUME IInv, ~IsFile, Open, object' = object, path' = path, block' = block, byte' = byte,
         local' = local, pc' \in {"ready", "seek", "next"}, offset' = offset, want' \in Nat,
         got' = got, fresh' = fresh, ended' \in BOOLEAN, Underway',
         fresh /\ ended' => /\ tree.height < 3 => got = Entries
                            /\ local >= Len(Item.entries)
  PROVE  IInv'
<1>1. /\ object \in Objects /\ offset \in Nat /\ block \in Nat /\ byte \in Nat /\ local \in Nat
      /\ got \in Seq(Bytewise) /\ fresh \in BOOLEAN
      /\ \E L, j : Own(object, path, L, j)
      /\ \E k \in 2..Len(object.items) : Item = object.items[k]
      /\ local <= Len(Item.entries)
  BY DirIs
<1>2. Item = ItemAt(tree, path')
  BY DEF Item
<1>3. PICK L, j : Own(object, path, L, j)
  BY <1>1
<1>4. PICK k \in 2..Len(object.items) : Item = object.items[k]
  BY <1>1
<1>5. DirectoryPart'
  <2>1. fresh => /\ IsPrefix(got, Entries)
                 /\ \E m \in Nat : ListedAt(object, m, Item, local, got)
    BY DEF IInv, DirectoryPart
  <2>2. fresh' =>
           /\ IsPrefix(got', Entries)
           /\ ended' /\ tree.height < 3 => got' = Entries
           /\ \E m \in Nat : ListedAt(object, m, ItemAt(tree, path'), local', got')
           /\ ended' => local' >= Len(ItemAt(tree, path').entries)
    BY <1>2, <2>1
  <2>3. QED
    BY <2>2, DirectoryPartOn
<1>6. /\ Own(object, path', L, j) /\ ItemAt(tree, path') = object.items[k]
      /\ local' <= Len(object.items[k].entries)
  BY <1>1, <1>2, <1>3, <1>4
<1>7. offset' \in Nat /\ block' \in Nat /\ byte' \in Nat /\ local' \in Nat /\ got' \in Seq(Bytewise)
      /\ fresh' \in BOOLEAN
  BY <1>1
<1>8. QED
  BY <1>5, <1>6, <1>7, DirOn

(* A seek in a directory forwards, or from the start.                      *)
LEMMA DirSeekIsSound ==
  ASSUME IInv, NEW place \in Places, DirSeek(place)
  PROVE  IInv'
<1>1. ~IsFile /\ pc = "ready" /\ Open /\ place \in Nat
  BY InputsAssumption DEF DirSeek, Open
<1>2. CASE place < offset /\ LookupFails(FirstKey, 4)
  BY <1>1, <1>2, LookupFailsIsSound
<1>3. CASE /\ IF place < offset
              THEN path' = FirstPath /\ local' = 0 /\ offset' = 0
              ELSE UNCHANGED <<path, local, offset>>
           /\ pc' = "seek" /\ want' = place
           /\ got' = <<>> /\ fresh' = FALSE /\ ended' = FALSE
           /\ UNCHANGED <<object, block, byte>>
  <2>1. /\ pc' = "seek" /\ want' = place /\ got' = <<>> /\ fresh' = FALSE /\ ended' = FALSE
        /\ object' = object /\ block' = block /\ byte' = byte
    BY <1>3
  <2>2. /\ object \in Objects /\ HasFirst /\ offset \in Nat /\ block \in Nat /\ byte \in Nat /\ local \in Nat
        /\ \E L, j : Own(object, path, L, j)
        /\ \E k \in 2..Len(object.items) : Item = object.items[k]
        /\ local <= Len(Item.entries)
    BY <1>1, DirIs
  <2>3. DirectoryPart'
    BY <1>1, <2>1, DirectoryPartOn
  <2>4. got' \in Seq(Bytewise)
    BY <2>1
  <2>5. CASE place < offset
    <3>1. path' = FirstPath /\ local' = 0 /\ offset' = 0
      BY <1>3, <2>5
    <3>2. /\ \E L, j : Own(object, FirstPath, L, j)
          /\ 2 \in 1..Len(object.items) /\ ItemAt(tree, FirstPath) = object.items[2]
          /\ Len(object.items) \in Nat
      BY <2>2, FirstIs, ObjectIs
    <3>3. PICK L, j : Own(object, FirstPath, L, j)
      BY <3>2
    <3> DEFINE k == 2
    <3>4. k \in 2..Len(object.items) /\ ItemAt(tree, FirstPath) = object.items[k]
      BY <3>2
    <3> HIDE DEF k
    <3>5. Len(object.items[k].entries) \in Nat \ {0}
      BY <1>1, <2>2, <3>4, DirItem
    <3>6. Underway'
      BY <1>1, <2>1, <3>1 DEF Underway
    <3>7. /\ Own(object, path', L, j) /\ ItemAt(tree, path') = object.items[k]
          /\ local' <= Len(object.items[k].entries)
      BY <3>1, <3>3, <3>4, <3>5
    <3>8. /\ pc' \in {"ready", "seek", "next"} /\ offset' \in Nat /\ block' \in Nat /\ byte' \in Nat
          /\ local' \in Nat /\ want' \in Nat
      BY <1>1, <2>1, <2>2, <3>1
    <3>9. fresh' \in BOOLEAN /\ ended' \in BOOLEAN
      BY <2>1
    <3>10. QED
      BY <1>1, <2>1, <2>3, <2>4, <3>4, <3>6, <3>7, <3>8, <3>9, DirOn
  <2>6. CASE ~(place < offset)
    <3>1. path' = path /\ local' = local /\ offset' = offset
      BY <1>3, <2>6
    <3>2. PICK L, j : Own(object, path, L, j)
      BY <2>2
    <3>3. PICK k \in 2..Len(object.items) : Item = object.items[k]
      BY <2>2
    <3>4. /\ Own(object, path', L, j) /\ ItemAt(tree, path') = object.items[k]
          /\ local' <= Len(object.items[k].entries)
      BY <2>2, <3>1, <3>2, <3>3 DEF Item
    <3>5. Underway'
      BY <1>1, <2>1, <2>2, <2>6, <3>1 DEF Underway
    <3>6. /\ pc' \in {"ready", "seek", "next"} /\ offset' \in Nat /\ block' \in Nat /\ byte' \in Nat
          /\ local' \in Nat /\ want' \in Nat
      BY <1>1, <2>1, <2>2, <3>1
    <3>7. fresh' \in BOOLEAN /\ ended' \in BOOLEAN
      BY <2>1
    <3>8. QED
      BY <1>1, <2>1, <2>3, <2>4, <3>4, <3>5, <3>6, <3>7, DirOn
  <2>7. QED
    BY <2>5, <2>6
<1>4. QED
  BY <1>2, <1>3 DEF DirSeek

(* A seek in progress is one in a directory.                               *)
LEMMA SeekIsOpen ==
  ASSUME IInv, pc \in {"seek", "next"}
  PROVE  Open /\ ~IsFile /\ ~ended /\ offset <= want
BY DEF IInv, Typed, Underway, Open

(* A seek inside an item goes to its end at most.                          *)
LEMMA SeekInsideIsSound ==
  ASSUME IInv, SeekInside
  PROVE  IInv'
<1> DEFINE step == Least(Len(Item.entries) - local, want - offset)
<1>1. /\ pc \in {"seek", "next"} /\ offset # want /\ local < Len(Item.entries)
      /\ local' = local + step /\ offset' = offset + step
      /\ object' = object /\ path' = path /\ block' = block /\ byte' = byte /\ pc' = pc /\ want' = want
      /\ got' = got /\ fresh' = fresh /\ ended' = ended
  BY DEF SeekInside, Seeking
<1>2. Open /\ ~IsFile /\ ~ended /\ offset <= want
  BY <1>1, SeekIsOpen
<1>3. /\ object \in Objects /\ offset \in Nat /\ block \in Nat /\ byte \in Nat /\ local \in Nat /\ want \in Nat
      /\ got \in Seq(Bytewise) /\ fresh \in BOOLEAN /\ ended \in BOOLEAN
      /\ \E L, j : Own(object, path, L, j)
      /\ \E k \in 2..Len(object.items) : Item = object.items[k]
      /\ Len(Item.entries) \in Nat \ {0}
  BY <1>2, DirIs
<1>4. step \in Nat /\ step <= Len(Item.entries) - local /\ step <= want - offset
  BY <1>1, <1>2, <1>3, SMTT(40) DEF Least
<1> HIDE DEF step
<1>5. pc = "seek" /\ ~fresh
  <2>1. pc # "next"
    BY <1>1, <1>3 DEF IInv, Underway
  <2>2. QED
    BY <1>1, <2>1 DEF IInv, Underway
<1>6. PICK L, j : Own(object, path, L, j)
  BY <1>3
<1>7. PICK k \in 2..Len(object.items) : Item = object.items[k]
  BY <1>3
<1>8. local' \in Nat /\ offset' \in Nat /\ local' <= Len(Item.entries) /\ offset' <= want
  BY <1>1, <1>3, <1>4
<1>9. /\ Own(object, path', L, j) /\ ItemAt(tree, path') = object.items[k]
      /\ local' <= Len(object.items[k].entries)
  BY <1>1, <1>6, <1>7, <1>8 DEF Item
<1>10. Underway'
  BY <1>1, <1>2, <1>5, <1>8 DEF Underway
<1>11. DirectoryPart'
  BY <1>1, <1>2, <1>5, DirectoryPartOn
<1>12. /\ pc' \in {"ready", "seek", "next"} /\ block' \in Nat /\ byte' \in Nat /\ want' \in Nat
       /\ got' \in Seq(Bytewise) /\ fresh' \in BOOLEAN /\ ended' \in BOOLEAN
  BY <1>1, <1>3
<1>13. QED
  BY <1>1, <1>2, <1>8, <1>9, <1>10, <1>11, <1>12, DirOn

(* A seek beyond an item begins the next one of the directory.             *)
LEMMA SeekAcrossIsSound ==
  ASSUME IInv, SeekAcross
  PROVE  IInv'
<1> DEFINE to == PathTo(tree, RightKey, tree.height, 4)
<1>1. /\ pc \in {"seek", "next"} /\ offset # want /\ local >= Len(Item.entries) /\ GoesOn
  BY DEF SeekAcross, Seeking
<1>2. Open /\ ~IsFile /\ ~ended /\ offset <= want
  BY <1>1, SeekIsOpen
<1>3. CASE LookupFails(RightKey, 4)
  BY <1>2, <1>3, LookupFailsIsSound
<1>4. CASE /\ path' = to /\ local' = 0 /\ offset' = offset + 1
           /\ UNCHANGED <<object, block, byte, pc, want, got, fresh, ended>>
  <2>1. /\ path' = to /\ local' = 0 /\ offset' = offset + 1
        /\ object' = object /\ block' = block /\ byte' = byte /\ pc' = pc /\ want' = want
        /\ got' = got /\ fresh' = fresh /\ ended' = ended
    BY <1>4
  <2>2. /\ object \in Objects /\ offset \in Nat /\ block \in Nat /\ byte \in Nat /\ local \in Nat /\ want \in Nat
        /\ got \in Seq(Bytewise) /\ fresh \in BOOLEAN /\ ended \in BOOLEAN
        /\ \E L, j : Own(object, path, L, j)
        /\ \E k \in 2..Len(object.items) : Item = object.items[k]
        /\ Len(Item.entries) \in Nat \ {0} /\ local <= Len(Item.entries)
        /\ Len(object.items) \in Nat
    BY <1>2, DirIs, ObjectIs
  <2>3. PICK L, j : Own(object, path, L, j)
    BY <2>2
  <2>4. \E k \in 2..Len(object.items) :
           Item = object.items[k] /\ (fresh => ListedAt(object, k, Item, local, got))
    <3>1. CASE fresh
      <4>1. PICK k \in Nat : ListedAt(object, k, Item, local, got)
        BY <1>2, <3>1 DEF IInv, DirectoryPart
      <4>2. k \in 2..Len(object.items) /\ Item = object.items[k]
        BY <4>1 DEF ListedAt
      <4>3. QED
        BY <4>1, <4>2
    <3>2. CASE ~fresh
      BY <2>2, <3>2
    <3>3. QED
      BY <3>1, <3>2
  <2>5. PICK k \in 2..Len(object.items) :
           Item = object.items[k] /\ (fresh => ListedAt(object, k, Item, local, got))
    BY <2>4
  <2> DEFINE m == k + 1
  <2>6. m \in 2..Len(object.items) /\ ItemAt(tree, to) = object.items[m] /\ \E next : Own(object, to, next, 1)
    BY <1>1, <1>2, <2>2, <2>3, <2>5, AcrossIs
  <2>7. PICK next : Own(object, to, next, 1)
    BY <2>6
  <2>8. k \in Nat /\ m - 2 = k - 1
    BY <2>2
  <2> HIDE DEF m, to
  <2>9. Len(object.items[m].entries) \in Nat \ {0}
    BY <1>2, <2>2, <2>6, DirItem
  <2>10. Underway'
    <3>1. offset' <= want' /\ (pc = "next" => want = offset + 1) /\ local' < Len(ItemAt(tree, path').entries)
      BY <1>1, <1>2, <2>1, <2>2, <2>6, <2>9 DEF IInv, Underway
    <3>2. pc = "seek" => ~fresh
      BY DEF IInv, Underway
    <3>3. Item' = ItemAt(tree, path')
      BY <2>1, Same
    <3>4. QED
      BY <1>1, <1>2, <2>1, <2>2, <3>1, <3>2, <3>3 DEF Underway
  <2>11. DirectoryPart'
    <3>1. fresh => IsPrefix(got, Entries) /\ \E n \in Nat : ListedAt(object, n, ItemAt(tree, path'), local', got)
      <4> SUFFICES ASSUME fresh
                   PROVE  IsPrefix(got, Entries) /\ \E n \in Nat : ListedAt(object, n, ItemAt(tree, path'), local', got)
        OBVIOUS
      <4>1. IsPrefix(got, Entries)
        BY <1>2 DEF IInv, DirectoryPart
      <4>2. got = Joined(Lists(object), k - 2) \o SubSeq(Item.entries, 1, local) /\ local = Len(Item.entries)
        BY <1>1, <2>2, <2>5, SMTT(40) DEF ListedAt
      <4>3. got = Joined(Lists(object), k - 1)
        BY <1>2, <2>2, <2>5, <4>2, ListedIs
      <4> DEFINE item == object.items[m]
      <4>4. Joined(Lists(object), m - 2) \o SubSeq(item.entries, 1, 0) = Joined(Lists(object), m - 2)
        BY <1>2, <2>2, <2>6, ListedIs
      <4>5. got = Joined(Lists(object), m - 2) \o SubSeq(item.entries, 1, 0)
        BY <2>8, <4>3, <4>4
      <4>6. ListedAt(object, m, item, 0, got)
        BY <2>6, <4>5 DEF ListedAt
      <4>7. m \in Nat
        BY <2>6
      <4>8. QED
        BY <2>1, <2>6, <4>1, <4>6, <4>7
    <3>2. fresh' =>
           /\ IsPrefix(got', Entries)
           /\ ended' /\ tree.height < 3 => got' = Entries
           /\ \E n \in Nat : ListedAt(object, n, ItemAt(tree, path'), local', got')
           /\ ended' => local' >= Len(ItemAt(tree, path').entries)
      BY <1>2, <2>1, <3>1
    <3>3. QED
      BY <1>2, <2>1, <3>2, DirectoryPartOn
  <2>12. /\ Own(object, path', next, 1) /\ ItemAt(tree, path') = object.items[m]
         /\ local' <= Len(object.items[m].entries)
    BY <2>1, <2>6, <2>7, <2>9
  <2>13. /\ pc' \in {"ready", "seek", "next"} /\ block' \in Nat /\ byte' \in Nat /\ want' \in Nat
         /\ local' \in Nat /\ offset' \in Nat
         /\ got' \in Seq(Bytewise) /\ fresh' \in BOOLEAN /\ ended' \in BOOLEAN
    BY <1>1, <2>1, <2>2
  <2>14. QED
    BY <1>2, <2>1, <2>6, <2>10, <2>11, <2>12, <2>13, DirOn
<1>5. QED
  BY <1>3, <1>4 DEF SeekAcross

(* Where there is no next item the listing is at its end.                  *)
LEMMA SeekStuckIsSound ==
  ASSUME IInv, SeekStuck
  PROVE  IInv'
<1>1. /\ pc \in {"seek", "next"} /\ local >= Len(Item.entries) /\ ~GoesOn
      /\ pc' = "ready" /\ ended' = (pc = "next")
      /\ object' = object /\ path' = path /\ offset' = offset /\ block' = block /\ byte' = byte
      /\ local' = local /\ want' = want /\ got' = got /\ fresh' = fresh
  BY DEF SeekStuck, Seeking
<1>2. Open /\ ~IsFile
  BY <1>1, SeekIsOpen
<1>3. /\ object \in Objects /\ local \in Nat /\ want \in Nat /\ Len(Item.entries) \in Nat \ {0}
      /\ local <= Len(Item.entries) /\ \E L, j : Own(object, path, L, j)
  BY <1>2, DirIs
<1>4. ASSUME fresh, tree.height < 3  PROVE got = Entries
  <2>1. PICK k \in Nat : ListedAt(object, k, Item, local, got)
    BY <1>2, <1>4 DEF IInv, DirectoryPart
  <2>2. /\ k \in 2..Len(object.items) /\ Item = object.items[k] /\ local = Len(Item.entries)
        /\ got = Joined(Lists(object), k - 2) \o SubSeq(Item.entries, 1, local)
    BY <1>1, <1>3, <2>1 DEF ListedAt
  <2>3. PICK L, j : Own(object, path, L, j)
    BY <1>3
  <2>4. k = Len(object.items)
    BY <1>1, <1>2, <1>3, <1>4, <2>2, <2>3, LastIs
  <2>5. got = Joined(Lists(object), k - 1)
    BY <1>2, <1>3, <2>2, ListedIs
  <2>6. Joined(Lists(object), k - 1) = Entries
    BY <1>2, <1>3, <2>2, <2>4, ListedIs
  <2>7. QED
    BY <2>5, <2>6
<1>5. Underway'
  BY <1>1 DEF Underway
<1>6. pc' \in {"ready", "seek", "next"} /\ want' \in Nat /\ ended' \in BOOLEAN
  BY <1>1, <1>3
<1>7. QED
  BY <1>1, <1>2, <1>4, <1>5, <1>6, DirStays

(* A seek that has come to its place.                                      *)
LEMMA SeekDoneIsSound ==
  ASSUME IInv, SeekDone
  PROVE  IInv'
<1>1. /\ pc = "seek" /\ pc' = "ready"
      /\ object' = object /\ path' = path /\ offset' = offset /\ block' = block /\ byte' = byte
      /\ local' = local /\ want' = want /\ got' = got /\ fresh' = fresh /\ ended' = ended
  BY DEF SeekDone
<1>2. Open /\ ~IsFile /\ ~ended
  BY <1>1, SeekIsOpen
<1>3. want \in Nat /\ ended \in BOOLEAN
  BY <1>2, DirIs
<1>4. Underway'
  BY <1>1 DEF Underway
<1>5. pc' \in {"ready", "seek", "next"} /\ want' \in Nat /\ ended' \in BOOLEAN
  BY <1>1, <1>3
<1>6. QED
  BY <1>1, <1>2, <1>4, <1>5, DirStays

(* A read from the end of an item seeks the next one.                      *)
LEMMA DirReadNextIsSound ==
  ASSUME IInv, DirReadNext
  PROVE  IInv'
<1>1. /\ ~IsFile /\ pc = "ready" /\ Open /\ local >= Len(Item.entries)
      /\ pc' = "next" /\ want' = offset + 1 /\ ended' = FALSE
      /\ object' = object /\ path' = path /\ offset' = offset /\ block' = block /\ byte' = byte
      /\ local' = local /\ got' = got /\ fresh' = fresh
  BY DEF DirReadNext, Open
<1>2. offset \in Nat
  BY <1>1, DirIs
<1>3. Underway'
  <2>1. Item' = Item
    BY <1>1, Same
  <2>2. offset # want' /\ offset <= want'
    BY <1>1, <1>2
  <2>3. QED
    BY <1>1, <1>2, <2>1, <2>2 DEF Underway
<1>4. want' \in Nat
  BY <1>1, <1>2
<1>5. pc' \in {"ready", "seek", "next"} /\ ended' \in BOOLEAN /\ ~ended'
  BY <1>1
<1>6. QED
  BY <1>1, <1>3, <1>4, <1>5, DirStays

(* An entry more.                                                          *)
LEMMA TakeIsSound ==
  ASSUME IInv, ~IsFile, Open, local < Len(Item.entries), fresh => ~ended, TakeEntry
  PROVE  IInv'
<1>1. /\ got' = (IF fresh THEN Append(got, Item.entries[local + 1]) ELSE <<>>)
      /\ local' = local + 1 /\ offset' = offset + 1 /\ pc' = "ready"
      /\ object' = object /\ path' = path /\ block' = block /\ byte' = byte
      /\ want' = want /\ fresh' = fresh /\ ended' = ended
  BY DEF TakeEntry
<1>2. /\ object \in Objects /\ offset \in Nat /\ block \in Nat /\ byte \in Nat /\ local \in Nat /\ want \in Nat
      /\ got \in Seq(Bytewise) /\ fresh \in BOOLEAN /\ ended \in BOOLEAN
      /\ \E L, j : Own(object, path, L, j)
      /\ \E k \in 2..Len(object.items) : Item = object.items[k]
      /\ Len(Item.entries) \in Nat \ {0}
      /\ \A i \in 1..Len(Item.entries) : Item.entries[i] \in Nat
  BY DirIs
<1>3. Item = ItemAt(tree, path')
  BY <1>1 DEF Item
<1>4. PICK L, j : Own(object, path, L, j)
  BY <1>2
<1>5. PICK k \in 2..Len(object.items) : Item = object.items[k]
  BY <1>2
<1>6. local + 1 \in 1..Len(Item.entries) /\ local \in 0..(Len(Item.entries) - 1)
  BY <1>2
<1>7. got' \in Seq(Bytewise)
  <2> DEFINE x == Item.entries[local + 1]
  <2>1. x \in Bytewise
    BY <1>2, <1>6 DEF Bytewise
  <2> HIDE DEF x
  <2>2. Append(got, x) \in Seq(Bytewise) /\ <<>> \in Seq(Bytewise)
    BY <1>2, <2>1
  <2>3. QED
    BY <1>1, <2>2 DEF x
<1>8. Underway'
  BY <1>1 DEF Underway
<1>9. DirectoryPart'
  <2>1. ASSUME fresh
        PROVE  IsPrefix(got', Entries) /\ \E n \in Nat : ListedAt(object, n, ItemAt(tree, path'), local', got')
    <3>1. PICK n \in Nat : ListedAt(object, n, Item, local, got)
      BY <2>1 DEF IInv, DirectoryPart
    <3>2. /\ n \in 2..Len(object.items) /\ Item = object.items[n]
          /\ got = Joined(Lists(object), n - 2) \o SubSeq(Item.entries, 1, local)
      BY <3>1 DEF ListedAt
    <3>3. got' = Joined(Lists(object), n - 2) \o SubSeq(Item.entries, 1, local + 1)
      <4>1. got' = Append(got, Item.entries[local + 1])
        BY <1>1, <2>1
      <4>2. QED
        BY <1>2, <1>6, <3>2, <4>1, ListedIs
    <3>4. ListedAt(object, n, ItemAt(tree, path'), local', got')
      BY <1>1, <1>3, <3>2, <3>3 DEF ListedAt
    <3>5. IsPrefix(got', Entries)
      <4> DEFINE l == local + 1
      <4>1. l \in 0..Len(Item.entries)
        BY <1>2, <1>6
      <4> HIDE DEF l
      <4>2. IsPrefix(Joined(Lists(object), n - 2) \o SubSeq(Item.entries, 1, l), Entries)
        BY <1>2, <3>2, <4>1, ListedIs
      <4>3. QED
        BY <3>3, <4>2 DEF l
    <3>6. QED
      BY <3>4, <3>5
  <2>2. fresh' =>
           /\ IsPrefix(got', Entries)
           /\ ended' /\ tree.height < 3 => got' = Entries
           /\ \E n \in Nat : ListedAt(object, n, ItemAt(tree, path'), local', got')
           /\ ended' => local' >= Len(ItemAt(tree, path').entries)
    BY <1>1, <2>1
  <2>3. QED
    BY <1>1, <2>2, DirectoryPartOn
<1>10. /\ Own(object, path', L, j) /\ ItemAt(tree, path') = object.items[k]
       /\ local' <= Len(object.items[k].entries)
  BY <1>1, <1>3, <1>4, <1>5, <1>6
<1>11. /\ pc' \in {"ready", "seek", "next"} /\ block' \in Nat /\ byte' \in Nat /\ want' \in Nat
       /\ local' \in Nat /\ offset' \in Nat /\ fresh' \in BOOLEAN /\ ended' \in BOOLEAN
  BY <1>1, <1>2
<1>12. QED
  BY <1>1, <1>7, <1>8, <1>9, <1>10, <1>11, DirOn

(* A read within an item takes its next entry.                             *)
LEMMA DirReadHereIsSound ==
  ASSUME IInv, DirReadHere
  PROVE  IInv'
<1>1. ~IsFile /\ Open /\ local < Len(Item.entries) /\ TakeEntry
  BY DEF DirReadHere, Open
<1>2. local \in Nat /\ Len(Item.entries) \in Nat
  BY <1>1, DirIs
<1>3. fresh => ~ended
  BY <1>1, <1>2 DEF IInv, DirectoryPart
<1>4. QED
  BY <1>1, <1>3, TakeIsSound

(* A read from the end of an item takes the first entry of the next.       *)
LEMMA DirReadFoundIsSound ==
  ASSUME IInv, DirReadFound
  PROVE  IInv'
<1>1. pc = "next" /\ offset = want /\ TakeEntry
  BY DEF DirReadFound
<1>2. ~IsFile /\ Open /\ ~ended
  BY <1>1, SeekIsOpen
<1>3. local < Len(Item.entries)
  BY <1>1 DEF IInv, Underway
<1>4. QED
  BY <1>1, <1>2, <1>3, TakeIsSound

-----------------------------------------------------------------------------
(* Every action keeps the invariant.                                       *)
LEMMA InitIsSound == Init => IInv
<1>1. Init => Start
  BY DEF Init, Start
<1>2. QED
  BY <1>1, StartIsSound

(* Every step keeps the invariant.                                         *)
LEMMA NextIsSound == IInv /\ [Next]_vars => IInv'
<1> SUFFICES ASSUME IInv, [Next]_vars  PROVE IInv'
  OBVIOUS
<1>1. CASE Rewind
  BY <1>1, RewindIsSound
<1>2. ASSUME NEW place \in Places, FileSeek(place)  PROVE IInv'
  BY <1>2, FileSeekIsSound
<1>3. ASSUME NEW place \in Places, DirSeek(place)  PROVE IInv'
  BY <1>3, DirSeekIsSound
<1>4. ASSUME NEW n \in Wants, FileRead(n)  PROVE IInv'
  BY <1>4, FileReadIsSound
<1>5. CASE DirReadHere
  BY <1>5, DirReadHereIsSound
<1>6. CASE DirReadNext
  BY <1>6, DirReadNextIsSound
<1>7. CASE Step
  <2>1. CASE NextItem
    BY <2>1, NextItemIsSound
  <2>2. CASE ReadDone
    BY <2>2, ReadDoneIsSound
  <2>3. CASE ReadDirect
    BY <2>3, ReadDirectIsSound
  <2>4. CASE SkipHole
    BY <2>4, SkipHoleIsSound
  <2>5. CASE ReadBlock
    BY <2>5, ReadBlockIsSound
  <2>6. CASE ReadBlockFails
    BY <2>6, ReadBlockFailsIsSound
  <2>7. CASE ItemDone
    BY <2>7, ItemDoneIsSound
  <2>8. CASE SeekInside
    BY <2>8, SeekInsideIsSound
  <2>9. CASE SeekAcross
    BY <2>9, SeekAcrossIsSound
  <2>10. CASE SeekStuck
    BY <2>10, SeekStuckIsSound
  <2>11. CASE SeekDone
    BY <2>11, SeekDoneIsSound
  <2>12. CASE DirReadFound
    BY <2>12, DirReadFoundIsSound
  <2>13. QED
    BY <1>7, <2>1, <2>2, <2>3, <2>4, <2>5, <2>6, <2>7, <2>8, <2>9, <2>10, <2>11, <2>12 DEF Step
<1>8. CASE UNCHANGED vars
  BY <1>8, StutterIsSound
<1>9. QED
  BY <1>1, <1>2, <1>3, <1>4, <1>5, <1>6, <1>7, <1>8 DEF Next

-----------------------------------------------------------------------------
(* What follows from the invariant.                                        *)
LEMMA TypeIs ==
  ASSUME IInv
  PROVE  TypeOK
<1>1. /\ pc \in {"closed", "ready", "read", "item", "seek", "next", "astray"}
      /\ offset \in Nat /\ block \in Nat /\ byte \in Nat /\ local \in Nat /\ want \in Nat
      /\ IsFile => Len(got) <= want
      /\ object \in Objects
  BY DEF IInv, Typed
<1>2. ASSUME pc \notin {"closed", "astray"}
      PROVE  /\ Whole /\ Item.obj = Object
             /\ Item.type = DR => local <= Len(Item.entries)
             /\ Item.type = DT => byte <= Item.len
  <2>1. PICK L, j : Own(object, path, L, j)
    BY <1>2 DEF IInv, Standing, Open
  <2>2. Item.type = DR => local <= Len(Item.entries)
    BY <1>2 DEF IInv, Standing, Open
  <2>3. Item.type = DT => byte <= Item.len
    BY <1>2 DEF IInv, Standing, Open
  <2>4. Whole
    BY <1>1, <2>1, OwnIs DEF Whole, tree
  <2>5. Item.obj = Object
    <3>1. ItemAt(object.tree, path) = LeafItems(object.tree, L)[j]
      BY <1>1, <2>1, OwnIs
    <3>2. QED
      BY <2>1, <3>1 DEF Own, Item, tree
  <2>6. QED
    BY <2>2, <2>3, <2>4, <2>5
<1>3. QED
  BY <1>1, <1>2 DEF TypeOK

(* The invariant says of a first read what is promised.                    *)
LEMMA FirstReadRight ==
  ASSUME IInv
  PROVE  FirstRead
<1> SUFFICES ASSUME IsFile, fresh, Contiguous
             PROVE  /\ \A i \in 1..Least(Len(got), object.size) : got[i] = i - 1
                    /\ FirstEnds(object, ended, want, got)
  BY DEF FirstRead, FirstEnds, There
<1>1. FirstBytes(got, object.size) /\ FirstEnds(object, ended, want, got)
  BY DEF IInv, FilePart
<1>2. object \in Objects /\ got \in Seq(Bytewise)
  BY DEF IInv, Typed
<1>3. object.size \in Nat
  <2>1. object.kind = "file"
    BY DEF IsFile
  <2>2. FileLaid(object)
    BY <1>2, <2>1, ItemsAre
  <2>3. QED
    BY <2>2 DEF FileLaid
<1>4. ASSUME NEW i \in 1..Least(Len(got), object.size)  PROVE got[i] = i - 1
  <2> DEFINE size == object.size
             n == Len(got)
  <2>1. n \in Nat /\ size \in Nat
    BY <1>2, <1>3
  <2>2. i \in 1..Least(n, size)
    BY <1>4
  <2> HIDE DEF n, size
  <2>3. i \in 1..n /\ i <= size
    BY <2>1, <2>2 DEF Least
  <2>4. QED
    BY <1>1, <2>3 DEF FirstBytes, n, size
<1>5. QED
  BY <1>1, <1>4

(* The invariant says of a listing what is promised.                       *)
LEMMA ListedRight ==
  ASSUME IInv
  PROVE  DirectoryListed
BY DEF IInv, DirectoryPart, DirectoryListed

-----------------------------------------------------------------------------
(* The invariant holds in every reachable state of every object, whatever  *)
(* is read and sought in it and whichever reads of the device fail: an     *)
(* open object stands at one of its items, a first read has the bytes      *)
(* before its place and a listing the entries before its place             *)
(* (file.c:94-184, 233-278, dir.c:68-216).                                 *)
THEOREM Sound == Spec => []IInv
<1>1. Init => IInv
  BY InitIsSound
<1>2. IInv /\ [Next]_vars => IInv'
  BY NextIsSound
<1>3. QED
  BY <1>1, <1>2, PTL DEF Spec

(* Positions stay inside what they point into, every item of the tree is   *)
(* found by its key, and a seek in a file comes to the item that holds the *)
(* place, for every search tree (tree.c:287-341, tools.c:282-318,          *)
(* file.c:249-257).                                                        *)
THEOREM InvHolds == Spec => []Inv
<1>1. IInv => Inv
  <2> SUFFICES ASSUME IInv  PROVE Inv
    OBVIOUS
  <2>1. object \in Objects
    BY DEF IInv, Typed
  <2>2. QED
    BY <2>1, TypeIs, ItemsFound, SeekRight DEF Inv
<1>2. QED
  BY <1>1, Sound, PTL

(* The first read of a file returns its bytes, and a directory is listed   *)
(* entry by entry, for every file and every directory (file.c:110-184,     *)
(* dir.c:102-145, 201-216).                                                *)
THEOREM ReadRightHolds == Spec => []ReadRight
<1>1. IInv => ReadRight
  BY FirstReadRight, ListedRight DEF ReadRight
<1>2. QED
  BY <1>1, Sound, PTL

-----------------------------------------------------------------------------
(* The filesystem.                                                         *)
Contents == Range(world.stored)
IsStat(stat, obj) == stat \in Contents /\ stat.obj = obj /\ stat.type = SD

(* The items, where in the tree each is, and that its object and offset    *)
(* tell it from the others.                                                *)
LEMMA ContentsAre ==
  ASSUME world \in Worlds
  PROVE  /\ Len(world.stored) \in Nat /\ DOMAIN world.stored = 1..Len(world.stored)
         /\ SearchTree(fstree, world.stored) /\ IsFiniteSet(Contents)
         /\ \A item \in Contents :
              /\ IsKey(item) /\ KeyOffset(item) = item.off
              /\ \E L \in Ways(fstree, fstree.height - 1, Len(world.stored)) :
                   \E i \in DOMAIN LeafItems(fstree, L) : LeafItems(fstree, L)[i] = item
         /\ \A L \in Ways(fstree, fstree.height - 1, Len(world.stored)) :
              \A i \in DOMAIN LeafItems(fstree, L) : LeafItems(fstree, L)[i] \in Contents
         /\ \A a, b \in Contents : a.obj = b.obj /\ a.off = b.off => a = b
<1> DEFINE stored == world.stored
           contents == {stored[k] : k \in DOMAIN stored}
<1>1. WorldLaid(world)
  BY WorldsAssumption
<1>2. /\ stored \in Seq(contents) /\ SearchTree(fstree, stored) /\ contents = Contents
      /\ \A item \in contents : item.type = SD <=> item.off = 0
  BY <1>1 DEF WorldLaid, fstree, Contents, Range
<1> HIDE DEF contents
<1>3. Len(stored) \in Nat /\ DOMAIN stored = 1..Len(stored)
  BY <1>2
<1>4. IsFiniteSet(Contents)
  <2> DEFINE n == Len(stored)
  <2>1. IsFiniteSet(1..n)
    <3>1. n \in Int
      BY <1>3
    <3> HIDE DEF n
    <3>2. QED
      BY <3>1, FS_Interval
  <2>2. stored \in [1..Len(stored) -> Contents]
    BY <1>2, <1>3
  <2>3. \A item \in Contents : \E k \in 1..Len(stored) : stored[k] = item
    BY <1>3 DEF Contents, Range
  <2>4. stored \in Surjection(1..Len(stored), Contents)
    BY <2>2, <2>3 DEF Surjection
  <2>5. QED
    BY <2>1, <2>4, FS_Surjection
<1> HIDE DEF stored
<1>5. ASSUME NEW item \in Contents
      PROVE  \E L \in Ways(fstree, fstree.height - 1, Len(stored)) :
               \E i \in DOMAIN LeafItems(fstree, L) : LeafItems(fstree, L)[i] = item
  BY <1>2 DEF SearchTree, contents
<1>6. ASSUME NEW L \in Ways(fstree, fstree.height - 1, Len(stored))
      PROVE  /\ Ordered(LeafItems(fstree, L))
             /\ \A i \in DOMAIN LeafItems(fstree, L) : LeafItems(fstree, L)[i] \in Contents
  <2>1. LeafItems(fstree, L) \in Seq({stored[k] : k \in DOMAIN stored}) /\ Ordered(LeafItems(fstree, L))
    BY <1>2, <1>6 DEF SearchTree
  <2>2. \A i \in DOMAIN LeafItems(fstree, L) : LeafItems(fstree, L)[i] \in {stored[k] : k \in DOMAIN stored}
    BY <2>1
  <2>3. QED
    BY <1>2, <2>1, <2>2 DEF contents
<1>7. ASSUME NEW item \in Contents  PROVE IsKey(item) /\ KeyOffset(item) = item.off
  <2>1. IsKey(item)
    BY <1>5, <1>6 DEF Ordered
  <2>2. 0 % Wrap = 0
    BY WrapAssumption
  <2>3. QED
    BY <1>2, <2>1, <2>2 DEF KeyOffset
<1>8. ASSUME NEW a \in Contents, NEW b \in Contents, a.obj = b.obj, a.off = b.off
      PROVE  a = b
  <2> DEFINE n == 3
  <2>1. \E L \in Ways(fstree, fstree.height - 1, Len(stored)) :
          \E i \in DOMAIN LeafItems(fstree, L) : LeafItems(fstree, L)[i] = a
    BY <1>5
  <2>2. \E M \in Ways(fstree, fstree.height - 1, Len(stored)) :
          \E j \in DOMAIN LeafItems(fstree, M) : LeafItems(fstree, M)[j] = b
    BY <1>5
  <2>3. n \in {3, 4} /\ IsKey(a) /\ IsKey(b) /\ Compare(a, a, n) = 0 /\ Compare(b, a, n) = 0
    <3>1. IsKey(a) /\ IsKey(b) /\ KeyOffset(a) = KeyOffset(b)
      BY <1>7, <1>8
    <3>2. QED
      BY <1>8, <3>1, CompareIs
  <2> HIDE DEF n
  <2>4. ItemAt(fstree, PathTo(fstree, a, fstree.height, n)) = a
    BY <1>2, <1>3, <2>1, <2>3, LookupLeads
  <2>5. ItemAt(fstree, PathTo(fstree, a, fstree.height, n)) = b
    BY <1>2, <1>3, <2>2, <2>3, LookupLeads
  <2>6. QED
    BY <2>4, <2>5
<1>9. QED
  BY <1>2, <1>3, <1>4, <1>5, <1>6, <1>7, <1>8 DEF stored

(* What an object's items are.                                             *)
LEMMA ObjectItems ==
  ASSUME world \in Worlds, NEW item \in Contents
  PROVE  /\ item.type = SD <=> item.off = 0
         /\ \E stat : IsStat(stat, item.obj) /\ (item.type = SD \/ Beside(stat, item))
         /\ item.type = SD /\ item.mode = "lnk" =>
              \E text \in Contents : text.obj = item.obj /\ text.type = DT
         /\ item.type = DR =>
              EntriesLaid(item, {d \in Contents : d.obj = item.obj /\ d.type = DR})
<1>1. WorldLaid(world) /\ Contents = {world.stored[k] : k \in DOMAIN world.stored}
  BY WorldsAssumption DEF Contents, Range
<1>2. {d \in {i \in Contents : i.obj = item.obj} : d.type = DR}
        = {d \in Contents : d.obj = item.obj /\ d.type = DR}
  OBVIOUS
<1>3. QED
  BY <1>1, <1>2 DEF WorldLaid, IsStat

(* The root is a directory.                                                *)
LEMMA RootIs ==
  ASSUME world \in Worlds
  PROVE  \E stat : IsStat(stat, Root) /\ stat.mode = "dir"
  BY WorldsAssumption DEF WorldLaid, IsStat, Contents, Range

(* An object has one stat, and its mode is that of the object.             *)
LEMMA ModeIs ==
  ASSUME world \in Worlds, NEW obj
  PROVE  /\ \A stat : IsStat(stat, obj) => ModeOf(obj) = stat.mode
         /\ (~ \E stat : IsStat(stat, obj)) => ModeOf(obj) = "gone"
         /\ \A a, b : IsStat(a, obj) /\ IsStat(b, obj) => a = b
<1>1. \A a, b : IsStat(a, obj) /\ IsStat(b, obj) => a = b
  <2> SUFFICES ASSUME NEW a, NEW b, IsStat(a, obj), IsStat(b, obj)  PROVE a = b
    OBVIOUS
  <2>1. a.off = 0 /\ b.off = 0
    BY ObjectItems DEF IsStat
  <2>2. QED
    BY <2>1, ContentsAre DEF IsStat
<1>2. \A k \in StatOf(obj) : IsStat(world.stored[k], obj)
  BY DEF StatOf, ItemsOf, IsStat, Contents, Range
<1>3. \A stat : IsStat(stat, obj) => StatOf(obj) # {}
  BY DEF StatOf, ItemsOf, IsStat, Contents, Range
<1>4. StatOf(obj) # {} => IsStat(world.stored[CHOOSE k \in StatOf(obj) : TRUE], obj)
  BY <1>2
<1>5. QED
  BY <1>1, <1>2, <1>3, <1>4 DEF ModeOf

-----------------------------------------------------------------------------
(* Lookups.                                                                *)
(* Where a path of a lookup ends: at an item of a leaf.                    *)
Ending(to, L, i) ==
  /\ L \in Ways(fstree, fstree.height - 1, Len(world.stored))
  /\ i \in DOMAIN LeafItems(fstree, L)
  /\ Leaf(fstree, to).items = LeafItems(fstree, L)
  /\ to[fstree.height] = i - 1 /\ ItemAt(fstree, to) = LeafItems(fstree, L)[i]
  /\ LeafItems(fstree, L)[i] \in Contents
  /\ Len(LeafItems(fstree, L)) \in Nat /\ DOMAIN LeafItems(fstree, L) = 1..Len(LeafItems(fstree, L))

(* A path to a place of a leaf ends there.                                 *)
LEMMA EndingIs ==
  ASSUME world \in Worlds,
         NEW L \in Ways(fstree, fstree.height - 1, Len(world.stored)),
         NEW i \in DOMAIN LeafItems(fstree, L)
  PROVE  Ending(Append(L, i - 1), L, i)
<1> DEFINE pos == i - 1
           to == Append(L, pos)
           items == LeafItems(fstree, L)
<1>1. /\ Len(items) \in Nat /\ DOMAIN items = 1..Len(items)
  BY ContentsAre, TreeIs
<1>2. pos \in Nat /\ pos + 1 = i
  BY <1>1
<1> HIDE DEF pos
<1>3. EndsAt(fstree, L, pos, to)
  BY <1>2, ContentsAre, PathIs
<1>4. items[i] \in Contents
  BY ContentsAre
<1>5. QED
  BY <1>1, <1>2, <1>3, <1>4 DEF EndsAt, Ending, pos

(* A lookup finds the item that has the key, and no other.                 *)
LEMMA FoundIs ==
  ASSUME world \in Worlds, NEW key, IsKey(key)
  PROVE  LET to == PathTo(fstree, key, fstree.height, 4)
         IN  /\ Found(fstree, to, key, 4) =>
                  \E L, i : Ending(to, L, i) /\ ItemAt(fstree, to) \in Contents
                            /\ Compare(ItemAt(fstree, to), key, 4) = 0
             /\ \A item \in Contents : Compare(item, key, 4) = 0 =>
                  Found(fstree, to, key, 4) /\ ItemAt(fstree, to) = item
<1> DEFINE n == 4
           to == PathTo(fstree, key, fstree.height, n)
           L == LookupLeaf(fstree, key, n)
           at == LookupAt(fstree, key, n)
           items == LeafItems(fstree, L)
           stored == world.stored
<1>1. Len(stored) \in Nat /\ SearchTree(fstree, stored) /\ n \in {3, 4}
  BY ContentsAre
<1>2. ASSUME Found(fstree, to, key, n)
      PROVE  \E i : Ending(to, L, i) /\ ItemAt(fstree, to) \in Contents
                    /\ Compare(ItemAt(fstree, to), key, n) = 0
  <2> DEFINE pos == at.pos
             i == pos + 1
  <2>1. /\ L \in Ways(fstree, fstree.height - 1, Len(stored))
        /\ SearchRight(at, key, items, n)
        /\ to = Append(L, pos)
    <3> HIDE DEF n, stored
    <3>1. QED
      BY <1>1, LookupIs
  <2>2. Len(items) \in Nat /\ DOMAIN items = 1..Len(items)
    BY <1>1, <2>1, TreeIs
  <2>3. pos \in Nat
    BY <2>1 DEF SearchRight
  <2> HIDE DEF L, pos
  <2>4. EndsAt(fstree, L, pos, to)
    BY <1>1, <2>1, <2>3, PathIs
  <2>5. pos < Len(items) /\ Compare(ItemAt(fstree, to), key, n) = 0
    BY <1>2, <2>4 DEF Found, EndsAt
  <2>6. i \in DOMAIN items /\ i - 1 = pos
    BY <2>2, <2>3, <2>5
  <2> HIDE DEF i, items, to
  <2>7. Ending(to, L, i)
    BY <2>1, <2>6, EndingIs DEF items, stored
  <2>8. QED
    BY <2>5, <2>7 DEF Ending
<1>3. ASSUME NEW item \in Contents, Compare(item, key, n) = 0
      PROVE  Found(fstree, to, key, n) /\ ItemAt(fstree, to) = item
  <2>1. \E M \in Ways(fstree, fstree.height - 1, Len(stored)) :
          \E i \in DOMAIN LeafItems(fstree, M) : LeafItems(fstree, M)[i] = item
    BY ContentsAre
  <2> HIDE DEF n, stored
  <2>2. QED
    BY <1>1, <1>3, <2>1, LookupLeads
<1>4. QED
  BY <1>2, <1>3

(* The lookup of an object's stat.                                         *)
LEMMA StatIs ==
  ASSUME world \in Worlds, objkey \in Nat
  PROVE  /\ IsKey(StatKey)
         /\ HasStat => /\ IsStat(ItemAt(fstree, StatPath), objkey) /\ Mode = ModeOf(objkey)
                       /\ \E L, i : Ending(StatPath, L, i)
         /\ ~HasStat => ~ \E stat : IsStat(stat, objkey)
         /\ \A stat : IsStat(stat, objkey) => HasStat /\ ItemAt(fstree, StatPath) = stat
<1>1. IsKey(StatKey) /\ KeyOffset(StatKey) = 0 /\ StatKey.obj = objkey /\ StatKey.type = SD
  <2>1. 0 % Wrap = 0
    BY WrapAssumption
  <2>2. QED
    BY <2>1 DEF IsKey, StatKey, Key, KeyOffset, SD
<1>2. \A item \in Contents :
        Compare(item, StatKey, 4) = 0 <=> item.obj = objkey /\ item.type = SD
  <2> TAKE item \in Contents
  <2>1. IsKey(item) /\ KeyOffset(item) = item.off /\ (item.type = SD <=> item.off = 0)
    BY ContentsAre, ObjectItems
  <2>2. QED
    BY <1>1, <2>1, CompareIs
<1>3. HasStat => \E L, i : /\ Ending(StatPath, L, i) /\ ItemAt(fstree, StatPath) \in Contents
                           /\ Compare(ItemAt(fstree, StatPath), StatKey, 4) = 0
  <2> HIDE DEF StatKey
  <2>1. QED
    BY <1>1, FoundIs DEF HasStat, StatPath
<1>4. \A stat : IsStat(stat, objkey) => HasStat /\ ItemAt(fstree, StatPath) = stat
  <2> TAKE stat
  <2> HAVE IsStat(stat, objkey)
  <2>1. stat \in Contents /\ Compare(stat, StatKey, 4) = 0
    BY <1>2 DEF IsStat
  <2> HIDE DEF StatKey
  <2>2. QED
    BY <1>1, <2>1, FoundIs DEF HasStat, StatPath
<1>5. HasStat => IsStat(ItemAt(fstree, StatPath), objkey)
  BY <1>2, <1>3 DEF IsStat
<1>6. HasStat => Mode = ModeOf(objkey)
  BY <1>5, ModeIs DEF Mode
<1>7. QED
  BY <1>1, <1>3, <1>4, <1>5, <1>6

(* Two items that lie between the keys of a stat and an item of offset 1   *)
(* of the same object are these.                                           *)
LEMMA NothingBetween ==
  ASSUME world \in Worlds, NEW stat, NEW item, NEW text \in Contents,
         IsStat(stat, text.obj), text.off = 1, item \in Contents,
         Compare(stat, item, 3) = -1, Compare(item, text, 3) = -1
  PROVE  FALSE
<1>1. /\ IsKey(stat) /\ IsKey(item) /\ IsKey(text)
      /\ KeyOffset(stat) = stat.off /\ KeyOffset(item) = item.off /\ KeyOffset(text) = text.off
  BY ContentsAre DEF IsStat
<1>2. stat.off = 0 /\ stat.obj = text.obj
  BY ObjectItems DEF IsStat
<1>3. item.obj = text.obj /\ 0 < item.off /\ item.off < 1 /\ item.off \in Nat
  BY <1>1, <1>2, CompareIs
<1>4. QED
  BY <1>3

(* Compared with an item of a leaf, the one behind it is the next of all.  *)
LEMMA NextOfAll ==
  ASSUME world \in Worlds, NEW stat, NEW text \in Contents,
         IsStat(stat, text.obj), text.off = 1,
         NEW to, NEW L, NEW i, Ending(to, L, i), ItemAt(fstree, to) = stat,
         i + 1 \in DOMAIN LeafItems(fstree, L)
  PROVE  LeafItems(fstree, L)[i + 1] = text
<1> DEFINE items == LeafItems(fstree, L)
           next == items[i + 1]
           stored == world.stored
           high == fstree.height - 1
<1>1. /\ Len(stored) \in Nat /\ SearchTree(fstree, stored) /\ high \in Nat
      /\ L \in Ways(fstree, high, Len(stored))
  BY ContentsAre, TreeIs DEF Ending
<1>2. items[i] = stat /\ i \in DOMAIN items /\ next \in Contents /\ Len(items) \in Nat /\ DOMAIN items = 1..Len(items)
  BY ContentsAre DEF Ending
<1>3. \A x, y \in DOMAIN items : x < y => Compare(items[x], items[y], 3) = -1
  <2>1. Ordered(items)
    BY <1>1, TreeIs
  <2>2. QED
    BY <2>1, CompareIs DEF Ordered, Sorted
<1>4. Compare(stat, next, 3) = -1
  BY <1>2, <1>3
<1>5. Compare(stat, text, 3) = -1
  <2>1. IsKey(stat) /\ IsKey(text) /\ KeyOffset(stat) = stat.off /\ KeyOffset(text) = text.off
    BY ContentsAre DEF IsStat
  <2>2. stat.off = 0 /\ stat.obj = text.obj
    BY ObjectItems DEF IsStat
  <2>3. QED
    BY <2>1, <2>2, CompareIs
<1>6. Compare(text, stat, 3) = 1
  BY <1>2, <1>5, ContentsAre, CompareIs DEF IsStat
<1> HIDE DEF next, stored, high
<1>7. PICK M \in Ways(fstree, high, Len(stored)) :
        \E j \in DOMAIN LeafItems(fstree, M) : LeafItems(fstree, M)[j] = text
  BY ContentsAre DEF high, stored
<1>8. PICK j \in DOMAIN LeafItems(fstree, M) : LeafItems(fstree, M)[j] = text
  BY <1>7
<1>9. CASE M = L
  <2>1. j \in DOMAIN items /\ items[j] = text
    BY <1>8, <1>9
  <2>2. CASE j = i + 1
    BY <2>1, <2>2 DEF next
  <2>3. CASE j <= i
    BY <1>2, <1>3, <1>5, <1>6, <2>1, <2>3
  <2>4. CASE j > i + 1
    <3>1. Compare(next, text, 3) = -1
      BY <1>3, <2>1, <2>4 DEF next
    <3>2. QED
      BY <1>2, <1>4, <3>1, NothingBetween
  <2>5. QED
    BY <1>2, <2>1, <2>2, <2>3, <2>4
<1>10. CASE M # L
  <2>1. L \in Seq(Nat) /\ Len(L) = high /\ M \in Seq(Nat) /\ Len(M) = high
    BY <1>1, <1>7, LeafWayIs DEF high
  <2>2. PICK d \in 1..high : Part(L, M, d)
    BY <1>1, <1>10, <2>1, WaysPart
  <2>3. L[d] \in Nat /\ M[d] \in Nat /\ L[d] # M[d] /\ Part(M, L, d)
    BY <2>1, <2>2 DEF Part
  <2>4. CASE L[d] < M[d]
    <3>1. Compare(next, text, 3) = -1
      BY <1>1, <1>7, <1>8, <2>2, <2>4, LeavesOrdered DEF high, next
    <3>2. QED
      BY <1>2, <1>4, <3>1, NothingBetween
  <2>5. CASE M[d] < L[d]
    <3>1. Compare(text, stat, 3) = -1
      BY <1>1, <1>2, <1>7, <1>8, <2>3, <2>5, LeavesOrdered DEF high
    <3>2. QED
      BY <1>6, <3>1
  <2>6. QED
    BY <2>3, <2>4, <2>5
<1>11. QED
  BY <1>9, <1>10

(* Hashes are numbers.                                                     *)
LEMMA HashIs ==
  ASSUME NEW name \in Components \ {Blank}
  PROVE  HashValue(name) \in Nat
<1>1. CASE name \in {Dot, DotDot}
  <2>1. DotOffset \in Nat /\ DotDotOffset \in Nat /\ Generations \in Nat
    BY GenerationsAssumption DEF DotOffset, DotDotOffset
  <2>2. CASE name = Dot
    BY <2>1, <2>2, Zenon DEF HashValue
  <2>3. CASE name # Dot
    BY <1>1, <2>1, <2>3, Zenon DEF HashValue
  <2>4. QED
    BY <2>2, <2>3
<1>2. CASE name \notin {Dot, DotDot}
  <2>1. HashOf[name] \in Nat
    BY <1>2, NamesAssumption DEF Components
  <2> DEFINE h == HashOf[name]
             g == Generations
  <2>2. h \in Nat /\ g \in Nat \ {0}
    BY <2>1, GenerationsAssumption
  <2> HIDE DEF h, g
  <2>3. h - (h % g) \in Nat
    <3>1. h % g \in Nat /\ h % g <= h
      BY <2>2
    <3>2. QED
      BY <2>2, <3>1
  <2>4. HashValue(name) = IF h < g THEN g ELSE h - (h % g)
    BY <1>2 DEF HashValue, h, g
  <2>5. QED
    BY <2>2, <2>3, <2>4
<1>3. QED
  BY <1>1, <1>2

(* The search for an entry sees those of the object that have the hash,    *)
(* whichever items and leaves they are in.                                 *)
LEMMA EntriesFound ==
  ASSUME world \in Worlds, objkey \in Nat, NEW stat, IsStat(stat, objkey),
         NEW name \in Components \ {Blank}
  PROVE  EntriesAt(EntryPath(name), HashValue(name))
           = {e \in EntriesOf(objkey) : e.off = HashValue(name)}
<1> DEFINE hash == HashValue(name)
           key == EntryKey(name)
           n == 4
           stored == world.stored
           L == LookupLeaf(fstree, key, n)
           items == LeafItems(fstree, L)
<1>1. hash \in Nat
  BY HashIs
<1>2. IsKey(key) /\ key.obj = objkey /\ key.type = DR /\ KeyOffset(key) = hash
  BY <1>1 DEF EntryKey, Key, IsKey, KeyOffset, SD, DR
<1> HIDE DEF hash, key
<1>3. IsKey(stat) /\ KeyOffset(stat) = 0 /\ stat.obj = objkey /\ stat.type = SD /\ stat.off = 0
  BY ContentsAre, ObjectItems DEF IsStat
<1>4. Compare(stat, key, n) \in {-1, 0}
  BY <1>1, <1>2, <1>3, CompareIs DEF SD, DR
<1>5. PICK j \in Nat : ComesTo(fstree, stored, key, n, j)
  <2>1. Len(stored) \in Nat /\ SearchTree(fstree, stored) /\ n \in {3, 4}
    BY ContentsAre
  <2>2. PICK least \in DOMAIN stored : stored[least] = stat
    BY DEF IsStat, Contents, Range
  <2> HIDE DEF n, stored
  <2>3. Compare(stored[least], key, n) \in {-1, 0}
    BY <1>4, <2>2
  <2>4. QED
    BY <1>2, <2>1, <2>3, ComeIs
<1>6. L \in Ways(fstree, fstree.height - 1, Len(stored))
  <2>1. Len(stored) \in Nat /\ SearchTree(fstree, stored) /\ n \in {3, 4}
    BY ContentsAre
  <2> HIDE DEF n, stored
  <2>2. QED
    BY <1>2, <2>1, LookupIs
<1> DEFINE item == items[j]
           to == EntryPath(name)
<1>7. /\ j \in DOMAIN items /\ Compare(item, key, n) \in {-1, 0}
      /\ \A other \in Contents : \/ Compare(other, key, n) = 1 \/ other = item
                                 \/ Compare(other, item, 3) = -1
      /\ to = Append(L, j - 1)
  <2>1. DOMAIN items = 1..Len(items)
    BY <1>6, ContentsAre, TreeIs
  <2>2. LastBefore(stored, items, key, n, j) /\ Come(fstree, key, n) = Append(L, j - 1)
    BY <1>5 DEF ComesTo
  <2>3. to = Come(fstree, key, n)
    BY DEF EntryPath, Come, key
  <2>4. QED
    BY <2>1, <2>2, <2>3 DEF LastBefore, Contents, Range
<1> HIDE DEF n, L, to
<1>8. Ending(to, L, j)
  BY <1>6, <1>7, EndingIs
<1>9. /\ item \in Contents /\ ItemAt(fstree, to) = item /\ to[fstree.height] < Len(Leaf(fstree, to).items)
  BY <1>8 DEF Ending
<1> HIDE DEF items, item, stored
<1>10. IsKey(item) /\ KeyOffset(item) = item.off
  BY <1>9, ContentsAre
<1>11. item.obj = objkey /\ item.off <= hash
  <2>1. item.obj <= objkey /\ (item.obj = objkey => item.off <= hash)
    BY <1>2, <1>7, <1>10, CompareIs DEF n
  <2>2. stat = item \/ Compare(stat, item, 3) = -1
    BY <1>4, <1>7 DEF IsStat
  <2>3. objkey <= item.obj
    BY <1>3, <1>10, <2>2, CompareIs
  <2>4. item.obj \in Nat
    BY <1>10 DEF IsKey
  <2>5. QED
    BY <2>1, <2>3, <2>4
<1> DEFINE InPlace == {e \in EntriesOf(objkey) : e.off = hash}
           Here == IF item.type = DR THEN {e \in Range(item.entries) : e.off = hash} ELSE {}
<1>12. EntriesAt(to, hash) = Here
  BY <1>9 DEF EntriesAt
<1>13. Here \subseteq InPlace
  <2> SUFFICES ASSUME item.type = DR, NEW e \in Range(item.entries)
               PROVE  e \in EntriesOf(objkey)
    OBVIOUS
  <2>1. PICK k \in DOMAIN world.stored : world.stored[k] = item
    BY <1>9 DEF Contents, Range
  <2>2. QED
    BY <1>11, <2>1 DEF EntriesOf, ItemsOf
<1>14. ASSUME NEW e, e \in EntriesOf(objkey), e.off = hash  PROVE e \in Here
  <2>1. PICK d \in Contents : d.obj = objkey /\ d.type = DR /\ e \in Range(d.entries)
    BY <1>14 DEF EntriesOf, ItemsOf, Contents, Range
  <2>2. e.off = hash /\ d.off \in Nat /\ d.obj \in Nat
    BY <1>14, ContentsAre DEF IsKey
  <2>3. IsKey(d) /\ KeyOffset(d) = d.off /\ EntriesLaid(d, {f \in Contents : f.obj = objkey /\ f.type = DR})
    BY <2>1, ContentsAre, ObjectItems
  <2>4. d.off <= hash
    BY <2>1, <2>2, <2>3 DEF EntriesLaid
  <2>5. Compare(d, key, n) # 1
    BY <1>2, <2>1, <2>3, <2>4, CompareIs DEF n, IsKey
  <2>6. d = item => e \in Here
    <3>1. d.type = DR /\ e \in Range(d.entries) /\ e.off = hash
      BY <2>1, <2>2
    <3>2. QED
      BY <3>1
  <2> HIDE DEF Here
  <2>7. CASE d # item
    <3>1. Compare(d, item, 3) = -1
      BY <1>7, <2>5, <2>7
    <3>2. d.off < item.off
      BY <1>10, <1>11, <2>1, <2>3, <3>1, CompareIs
    <3>3. item.type = DR
      <4>1. PICK s : IsStat(s, objkey) /\ Beside(s, d)
        <5>1. \E s : IsStat(s, d.obj) /\ (d.type = SD \/ Beside(s, d))
          BY ObjectItems
        <5>2. d.obj = objkey /\ d.type # SD
          BY <2>1 DEF SD, DR
        <5>3. QED
          BY <5>1, <5>2
      <4>2. s.mode = "dir"
        BY <2>1, <4>1 DEF Beside, IT, DT, DR
      <4>3. PICK r : IsStat(r, objkey) /\ (item.type = SD \/ Beside(r, item))
        BY <1>9, <1>11, ObjectItems
      <4>4. r = s
        BY <4>1, <4>3, ModeIs
      <4>5. item.type # SD
        <5>1. d.off \in Nat /\ item.off \in Nat
          BY <1>10, <2>2 DEF IsKey
        <5>2. item.off # 0
          BY <3>2, <5>1
        <5>3. QED
          BY <1>9, <5>2, ObjectItems
      <4>6. QED
        BY <4>2, <4>3, <4>4, <4>5 DEF Beside
    <3>4. e.off < item.off
      BY <1>9, <1>11, <2>1, <2>3, <3>2, <3>3 DEF EntriesLaid
    <3>5. item.off \in Nat
      BY <1>10 DEF IsKey
    <3>6. QED
      BY <1>1, <1>11, <2>2, <3>4, <3>5
  <2>8. QED
    BY <2>6, <2>7
<1>15. QED
  BY <1>12, <1>13, <1>14 DEF to, hash

(* An entry leads to an object, and is one of those of all directories.    *)
LEMMA EntryIs ==
  ASSUME world \in Worlds, NEW obj, NEW e \in EntriesOf(obj)
  PROVE  /\ e \in AllEntries /\ e.obj \in Nat /\ e.off \in Nat /\ e.name \in Components \ {Blank}
         /\ \A f \in EntriesOf(obj) : e.name = f.name => e = f
<1>1. \A f \in EntriesOf(obj) : \E d \in Contents : d.obj = obj /\ d.type = DR /\ f \in Range(d.entries)
  BY DEF EntriesOf, ItemsOf, Contents, Range
<1>2. PICK d \in Contents : d.obj = obj /\ d.type = DR /\ e \in Range(d.entries)
  BY <1>1
<1>3. EntriesLaid(d, {f \in Contents : f.obj = obj /\ f.type = DR})
  BY <1>2, ObjectItems
<1>4. e \in [name : Components \ {Blank}, off : Nat, obj : Nat]
  <2> DEFINE EntryRecords == [name : Components \ {Blank}, off : Nat, obj : Nat]
  <2>1. d.entries \in Seq(EntryRecords)
    BY <1>3 DEF EntriesLaid
  <2> HIDE DEF EntryRecords
  <2>2. e \in EntryRecords
    BY <1>2, <2>1 DEF Range
  <2>3. QED
    BY <2>2 DEF EntryRecords
<1>5. e \in AllEntries
  BY <1>2 DEF AllEntries, Contents
<1>6. ASSUME NEW f \in EntriesOf(obj), e.name = f.name  PROVE e = f
  <2>1. PICK o \in Contents : o.obj = obj /\ o.type = DR /\ f \in Range(o.entries)
    BY <1>1
  <2>2. QED
    BY <1>2, <1>3, <1>6, <2>1 DEF EntriesLaid
<1>7. QED
  BY <1>4, <1>5, <1>6

(* Links are the objects with the mode of a link, and have one text.       *)
LEMMA LinkIs ==
  ASSUME world \in Worlds, NEW obj
  PROVE  /\ obj \in Links <=> ModeOf(obj) = "lnk"
         /\ obj \in Links <=> \E stat : IsStat(stat, obj) /\ stat.mode = "lnk"
         /\ obj \in Links =>
              /\ obj \in Nat /\ TextOf(obj) \in Seq(Components) \ {<<>>}
              /\ \E text \in Contents : /\ text.obj = obj /\ text.off = 1 /\ text.type = DT
                                        /\ text.text = TextOf(obj)
         /\ obj \in Links => \A stat : IsStat(stat, obj) => stat.mode = "lnk" /\ ~stat.large
<1>1. obj \in Links => ModeOf(obj) = "lnk"
  BY DEF Links
<1>2. ModeOf(obj) = "lnk" => \E stat : IsStat(stat, obj) /\ stat.mode = "lnk"
  <2>1. "gone" # "lnk"
    OBVIOUS
  <2>2. QED
    BY <2>1, ModeIs
<1>3. ASSUME NEW stat, IsStat(stat, obj), stat.mode = "lnk"
      PROVE  /\ obj \in Links /\ obj \in Nat /\ TextOf(obj) \in Seq(Components) \ {<<>>} /\ ~stat.large
             /\ \E text \in Contents : /\ text.obj = obj /\ text.off = 1 /\ text.type = DT
                                       /\ text.text = TextOf(obj)
  <2>1. ModeOf(obj) = "lnk" /\ obj \in Links
    <3>1. ModeOf(obj) = "lnk"
      BY <1>3, ModeIs
    <3>2. QED
      BY <1>3, <3>1 DEF Links, IsStat, Contents
  <2>2. obj \in Nat
    BY <1>3, ContentsAre DEF IsStat, IsKey
  <2>3. ASSUME NEW text \in Contents, text.obj = obj, text.type = DT
        PROVE  text.off = 1 /\ text.text \in Seq(Components) \ {<<>>} /\ ~stat.large
    <3>1. text.type # SD
      BY <2>3 DEF SD, DT
    <3>2. PICK s : IsStat(s, obj) /\ Beside(s, text)
      BY <2>3, <3>1, ObjectItems
    <3>3. s = stat
      BY <1>3, <3>2, ModeIs
    <3>4. QED
      BY <1>3, <3>2, <3>3 DEF Beside
  <2>4. \E text \in Contents : text.obj = obj /\ text.type = DT
    BY <1>3, ObjectItems DEF IsStat
  <2> DEFINE Texts == {k \in ItemsOf(obj) : world.stored[k].type = DT}
             text == world.stored[CHOOSE k \in Texts : TRUE]
  <2>5. Texts # {}
    BY <2>4 DEF ItemsOf, Contents, Range
  <2>6. text \in Contents /\ text.obj = obj /\ text.type = DT
    <3>1. \A k \in Texts : world.stored[k] \in Contents /\ world.stored[k].obj = obj /\ world.stored[k].type = DT
      BY DEF ItemsOf, Contents, Range
    <3>2. QED
      BY <2>5, <3>1
  <2>7. TextOf(obj) = text.text
    BY DEF TextOf
  <2> HIDE DEF text
  <2>8. QED
    BY <2>1, <2>2, <2>3, <2>6, <2>7
<1>4. obj \in Links => \E stat : IsStat(stat, obj) /\ stat.mode = "lnk"
  BY <1>1, <1>2
<1>5. obj \in Links => \A stat : IsStat(stat, obj) => stat.mode = "lnk" /\ ~stat.large
  <2> SUFFICES ASSUME obj \in Links, NEW stat, IsStat(stat, obj)
               PROVE  stat.mode = "lnk" /\ ~stat.large
    OBVIOUS
  <2>1. stat.mode = "lnk"
    BY <1>1, ModeIs
  <2>2. QED
    BY <1>3, <2>1
<1>6. obj \in Links =>
        /\ obj \in Nat /\ TextOf(obj) \in Seq(Components) \ {<<>>}
        /\ \E text \in Contents : /\ text.obj = obj /\ text.off = 1 /\ text.type = DT
                                  /\ text.text = TextOf(obj)
  BY <1>3, <1>4
<1>7. obj \in Links <=> ModeOf(obj) = "lnk"
  BY <1>1, <1>2, <1>3
<1>8. obj \in Links <=> \E stat : IsStat(stat, obj) /\ stat.mode = "lnk"
  BY <1>3, <1>4
<1>9. QED
  BY <1>5, <1>6, <1>7, <1>8

(* There are finitely many links.                                          *)
LEMMA LinksFinite ==
  ASSUME world \in Worlds
  PROVE  IsFiniteSet(Links) /\ Cardinality(Links) \in Nat
<1> DEFINE Objs == {item.obj : item \in Contents}
           f == [item \in Contents |-> item.obj]
<1>1. f \in Surjection(Contents, Objs)
  BY DEF Surjection
<1>2. IsFiniteSet(Objs)
  <2>1. IsFiniteSet(Contents)
    BY ContentsAre
  <2> HIDE DEF f, Objs
  <2>2. QED
    BY <1>1, <2>1, FS_Surjection
<1>3. Links \in SUBSET Objs
  BY DEF Links, Contents
<1> HIDE DEF Objs
<1>4. IsFiniteSet(Links)
  BY <1>2, <1>3, FS_Subset
<1>5. QED
  BY <1>4, FS_CardinalityType

(* What is behind the stat of a link in its leaf is the text of the link.  *)
LEMMA TextIs ==
  ASSUME world \in Worlds, objkey \in Nat, HasStat, Mode = "lnk", objpath = StatPath
  PROVE  /\ objkey \in Links
         /\ HasNext <=> TextNear(objkey)
         /\ HasNext => Leaf(fstree, objpath).items[AfterStat].type = DT /\ Text = TextOf(objkey)
<1>1. PICK L, i : Ending(StatPath, L, i)
  BY StatIs
<1>2. IsStat(ItemAt(fstree, StatPath), objkey) /\ ModeOf(objkey) = "lnk"
  BY StatIs
<1>3. objkey \in Links
  BY <1>2, LinkIs
<1>4. HasNext <=> TextNear(objkey)
  BY DEF HasNext, AfterStat, TextNear, StatPath, StatKey
<1>5. ASSUME HasNext
      PROVE  Leaf(fstree, objpath).items[AfterStat].type = DT /\ Text = TextOf(objkey)
  <2>1. PICK text \in Contents : /\ text.obj = objkey /\ text.off = 1 /\ text.type = DT
                                 /\ text.text = TextOf(objkey)
    BY <1>3, LinkIs
  <2>2. AfterStat = i + 1 /\ i + 1 \in DOMAIN LeafItems(fstree, L)
    BY <1>1, <1>5 DEF Ending, AfterStat, HasNext
  <2>3. LeafItems(fstree, L)[i + 1] = text
    BY <1>1, <1>2, <2>1, <2>2, NextOfAll
  <2>4. Leaf(fstree, objpath).items[AfterStat] = text
    BY <1>1, <2>2, <2>3 DEF Ending
  <2>5. QED
    BY <2>1, <2>4 DEF Text
<1>6. QED
  BY <1>3, <1>4, <1>5

-----------------------------------------------------------------------------
(* The inductive invariant.                                                *)
Frames == [rest : Seq(Components), named : BOOLEAN, as_link : BOOLEAN]
Walking == stage \in {"stat", "text", "name"}

NamesTyped ==
  /\ world \in Worlds
  /\ stage \in {"idle", "stat", "text", "name", "end", "kind", "open", "failed", "astray", "overflow"}
  /\ use \in Uses /\ asked \in Seq(Components) /\ unread \in BOOLEAN
  /\ frames \in Seq(Frames) /\ Len(frames) <= MaxNesting + 1
  /\ \A i \in 2..Len(frames) : frames[i].as_link
  /\ Walking \/ stage \in {"end", "kind", "open"} => objkey \in Nat /\ dirkey \in Nat
  /\ Walking => frames # <<>>

(* Where the path is and what is known of the object.                      *)
NamesStanding ==
  /\ stage = "name" => \E stat : IsStat(stat, objkey)
  /\ stage = "text" => objpath = StatPath /\ HasStat /\ Mode = "lnk" /\ ~(Top.as_link /\ Terminator)
  /\ stage = "kind" => objpath = StatPath /\ HasStat /\ Mode \in Accepted
  /\ stage = "open" => /\ objpath[fstree.height] < Len(Leaf(fstree, objpath).items)
                       /\ ItemAt(fstree, objpath).obj = objkey /\ ItemAt(fstree, objpath).off = 1
                       /\ ModeOf(objkey) \in Accepted

(* The rest of a name.                                                     *)
Behind(rest, name) ==
  /\ Len(rest) <= Len(name)
  /\ \A x \in 1..Len(rest) : rest[x] = name[Len(name) - Len(rest) + x]

(* The calls but the outermost are for the texts of links, each of which   *)
(* the text of the one before leads through; a link is only come to with a *)
(* component left that is not empty.                                       *)
Nest(l) ==
  /\ l \in [2..Len(frames) -> Links]
  /\ \A i \in 2..Len(frames) : Behind(frames[i].rest, TextOf(l[i]))
  /\ \A i \in 2..(Len(frames) - 1) : l[i + 1] \in Through[l[i]]
  /\ objkey \in Links /\ 2 <= Len(frames) =>
       /\ objkey \in Through[l[Len(frames)]]
       /\ \E x \in DOMAIN Top.rest : Top.rest[x] # Blank

(* The directory is a link only where no link is followed any more.        *)
NoLinkIn ==
  dirkey \in Links => (stage = "stat" /\ objkey = Root) \/ (Top.as_link /\ Terminator)

Nested == Walking => EndsAtLink \/ (NoLinkIn /\ \E l : Nest(l))

NamesIInv == NamesTyped /\ NamesStanding /\ Nested /\ NestingBounded

(* What depends on the filesystem alone does not change with it.           *)
LEMMA SameWorld ==
  ASSUME world' = world
  PROVE  /\ fstree' = fstree /\ Links' = Links /\ Through' = Through /\ Contents' = Contents
         /\ EndsAtLink' = EndsAtLink /\ ThroughItself' = ThroughItself
         /\ \A obj : ModeOf(obj)' = ModeOf(obj) /\ TextOf(obj)' = TextOf(obj)
         /\ \A stat, obj : IsStat(stat, obj)' = IsStat(stat, obj)
  BY DEF fstree, Links, Through, Contents, EndsAtLink, ThroughItself, ModeOf, TextOf, IsStat,
         StatOf, ItemsOf, NamedBy, AllEntries

(* And the stat of an object not with that.                                *)
LEMMA SameStat ==
  ASSUME world' = world, objkey' = objkey
  PROVE  /\ StatPath' = StatPath /\ HasStat' = HasStat
         /\ objpath' = objpath => Mode' = Mode
  BY DEF fstree, StatPath, HasStat, StatKey, Mode

(* A function of the first numbers is a sequence.                          *)
LEMMA SequenceOf ==
  ASSUME NEW S, NEW n \in Nat, NEW f \in [1..n -> S]
  PROVE  f \in Seq(S) /\ Len(f) = n
  OBVIOUS

(* The top of the calls after a component is taken from it.                *)
Taken ==
  frames' = [frames EXCEPT ![Len(frames)].rest = Strsep(@).rest, ![Len(frames)].named = TRUE]

(* And what it leaves.                                                     *)
LEMMA TakenIs ==
  ASSUME frames \in Seq(Frames), frames # <<>>, Top.rest # <<>>, Taken
  PROVE  /\ frames' \in Seq(Frames) /\ Len(frames') = Len(frames) /\ Len(frames) \in Nat \ {0}
         /\ \A i \in 1..Len(frames) : i # Len(frames) => frames'[i] = frames[i]
         /\ \A i \in 1..Len(frames) : frames'[i].as_link = frames[i].as_link
         /\ LET rest == frames'[Len(frames)].rest
            IN  /\ rest \in Seq(Components) /\ Top.rest \in Seq(Components)
                /\ Len(rest) = Len(Top.rest) - 1 /\ Len(Top.rest) \in Nat \ {0}
                /\ \A x \in 1..Len(rest) : rest[x] = Top.rest[x + 1]
                /\ Top.rest[1] = Head(Top.rest) /\ Head(Top.rest) \in Components
         /\ frames'[Len(frames)].named
<1> DEFINE n == Len(frames)
<1>1. n \in Nat \ {0} /\ DOMAIN frames = 1..n /\ n \in 1..n /\ frames \in [1..n -> Frames] /\ Top = frames[n]
  BY DEF Top
<1>2. frames[n] \in Frames
  BY <1>1
<1>3. frames[n].rest \in Seq(Components) /\ frames[n].rest # <<>>
  BY <1>1, <1>2 DEF Frames
<1> DEFINE r == frames[n].rest
           top == [frames[n] EXCEPT !.rest = Tail(r), !.named = TRUE]
<1>4. /\ Tail(r) \in Seq(Components) /\ Len(Tail(r)) = Len(r) - 1 /\ Len(r) \in Nat \ {0}
      /\ \A x \in 1..Len(Tail(r)) : Tail(r)[x] = r[x + 1]
      /\ r[1] = Head(r) /\ Head(r) \in Components
  <2> HIDE DEF r
  <2>1. r \in Seq(Components) /\ r # <<>>
    BY <1>3 DEF r
  <2>2. QED
    BY <2>1
<1>5. /\ top \in Frames /\ top.rest = Tail(r) /\ top.named /\ top.as_link = frames[n].as_link
  BY <1>2, <1>4 DEF Frames
<1>6. frames' = [frames EXCEPT ![n] = top]
  BY <1>1, <1>2 DEF Taken, Strsep, Frames
<1> HIDE DEF top, r
<1>7. frames' \in [1..n -> Frames] /\ frames'[n] = top /\ \A i \in 1..n : i # n => frames'[i] = frames[i]
  BY <1>1, <1>5, <1>6
<1>8. frames' \in Seq(Frames) /\ Len(frames') = n
  <2> DEFINE new == frames'
  <2>1. n \in Nat /\ new \in [1..n -> Frames]
    BY <1>1, <1>7
  <2> HIDE DEF n, new
  <2>2. new \in Seq(Frames) /\ Len(new) = n
    BY <2>1, SequenceOf
  <2>3. QED
    BY <2>2 DEF new
<1>9. QED
  BY <1>1, <1>3, <1>4, <1>5, <1>7, <1>8 DEF r

-----------------------------------------------------------------------------
(* Init and the steps.                                                     *)
(* Nothing to keep.                                                        *)
LEMMA OutsideIsSound ==
  ASSUME NamesIInv, world' = world, use' \in Uses, asked' \in Seq(Components), unread' \in BOOLEAN,
         \/ stage' \in {"failed", "idle"} /\ frames' = <<>>
         \/ stage' = "astray" /\ frames' = frames
  PROVE  NamesIInv'
<1>1. NamesTyped'
  <2>1. CASE frames' = <<>>
    <3>1. Len(frames') = 0 /\ frames' \in Seq(Frames) /\ 0 <= MaxNesting + 1 /\ 2..0 = {}
      BY <2>1, MaxNestingAssumption
    <3>2. QED
      BY <3>1 DEF NamesIInv, NamesTyped, Walking
  <2>2. CASE frames' = frames
    <3>1. stage' \in {"failed", "idle", "astray"}
      OBVIOUS
    <3>2. QED
      BY <2>2, <3>1 DEF NamesIInv, NamesTyped, Walking
  <2>3. QED
    BY <2>1, <2>2
<1>2. NamesStanding' /\ Nested' /\ NestingBounded'
  BY DEF NamesStanding, Nested, Walking, NestingBounded
<1>3. QED
  BY <1>1, <1>2 DEF NamesIInv

(* Closing an object, or giving up, leaves nothing open.                   *)
LEMMA CloseIsSound ==
  ASSUME NamesIInv, Close
  PROVE  NamesIInv'
<1>1. world' = world /\ use' \in Uses /\ asked' = <<>> /\ unread' \in BOOLEAN /\ stage' = "idle" /\ frames' = <<>>
  BY DEF Close, Uses
<1>2. asked' \in Seq(Components)
  BY <1>1
<1>3. QED
  BY <1>1, <1>2, OutsideIsSound

(* A search that fails or goes astray has nothing left to keep.            *)
LEMMA FailuresAreSound ==
  ASSUME NamesIInv, StatFails \/ NextNameFails \/ RewindFails \/ NoObject \/ NoText \/ TextElsewhere
  PROVE  NamesIInv'
<1>1. /\ world' = world /\ use' = use /\ asked' = asked /\ unread' \in BOOLEAN
      /\ \/ stage' = "failed" /\ frames' = <<>>
         \/ stage' = "astray" /\ frames' = frames
  BY DEF NamesIInv, NamesTyped, StatFails, NextNameFails, RewindFails, NoObject, NoText, TextElsewhere,
         SearchFails, Fail
<1>2. use \in Uses /\ asked \in Seq(Components)
  BY DEF NamesIInv, NamesTyped
<1>3. QED
  BY <1>1, <1>2, OutsideIsSound

(* The object that was found has a stat of the kind that was asked for.    *)
LEMMA FindStatIsSound ==
  ASSUME NamesIInv, FindStat
  PROVE  NamesIInv'
<1>1. /\ stage = "end" /\ objpath' = StatPath
      /\ stage' \in {"kind", "failed"} /\ (stage' = "kind" => HasStat /\ Mode \in Accepted)
      /\ world' = world /\ use' = use /\ asked' = asked /\ frames' = frames /\ objkey' = objkey
      /\ dirkey' = dirkey /\ unread' = unread
  BY DEF FindStat
<1>2. NamesTyped'
  BY <1>1 DEF NamesIInv, NamesTyped, Walking
<1>3. NamesStanding'
  <2>1. StatPath' = StatPath /\ HasStat' = HasStat
    BY <1>1, SameStat
  <2>2. ASSUME stage' = "kind"  PROVE Mode' \in Accepted'
    <3>1. HasStat /\ Mode \in Accepted
      BY <1>1, <2>2
    <3>2. Mode' = Mode /\ Accepted' = Accepted
      BY <1>1, <2>1 DEF Mode, Accepted, fstree
    <3>3. QED
      BY <3>1, <3>2
  <2>3. QED
    BY <1>1, <2>1, <2>2 DEF NamesStanding
<1>4. Nested' /\ NestingBounded'
  BY <1>1 DEF Nested, Walking, NestingBounded
<1>5. QED
  BY <1>2, <1>3, <1>4 DEF NamesIInv

(* What is opened stands at its first item.                                *)
LEMMA RewindOpenedIsSound ==
  ASSUME NamesIInv, RewindOpened
  PROVE  NamesIInv'
<1> DEFINE to == PathTo(fstree, FirstItemKey, fstree.height, 4)
<1>1. /\ stage = "kind" /\ objpath' = to
      /\ stage' \in {"open", "failed"} /\ (stage' = "open" => Found(fstree, to, FirstItemKey, 4))
      /\ world' = world /\ use' = use /\ asked' = asked /\ frames' = frames /\ objkey' = objkey
      /\ dirkey' = dirkey /\ unread' = unread
  BY DEF RewindOpened
<1>2. NamesTyped'
  BY <1>1 DEF NamesIInv, NamesTyped, Walking
<1>3. NamesStanding'
  <2> SUFFICES ASSUME stage' = "open"
               PROVE  /\ to[fstree.height] < Len(Leaf(fstree, to).items)
                      /\ ItemAt(fstree, to).obj = objkey /\ ItemAt(fstree, to).off = 1
                      /\ ModeOf(objkey)' \in Accepted'
    BY <1>1 DEF NamesStanding, fstree
  <2>1. Found(fstree, to, FirstItemKey, 4) /\ objkey \in Nat /\ world \in Worlds
    BY <1>1 DEF NamesIInv, NamesTyped
  <2>2. IsKey(FirstItemKey) /\ FirstItemKey.obj = objkey /\ KeyOffset(FirstItemKey) = 1
    BY <2>1 DEF IsKey, FirstItemKey, Key, KeyOffset, SD, DR, IT, DT
  <2> HIDE DEF to
  <2>3. ItemAt(fstree, to) \in Contents /\ Compare(ItemAt(fstree, to), FirstItemKey, 4) = 0
    <3> HIDE DEF FirstItemKey
    <3>1. QED
      BY <2>1, <2>2, FoundIs DEF to
  <2>4. ItemAt(fstree, to).obj = objkey /\ ItemAt(fstree, to).off = 1
    <3> DEFINE item == ItemAt(fstree, to)
               key == FirstItemKey
    <3>1. /\ IsKey(item) /\ KeyOffset(item) = item.off /\ Compare(item, key, 4) = 0
          /\ IsKey(key) /\ key.obj = objkey /\ KeyOffset(key) = 1
      BY <2>1, <2>2, <2>3, ContentsAre
    <3> HIDE DEF item, key
    <3>2. item.obj = objkey /\ item.off = 1
      BY <3>1, CompareIs
    <3>3. QED
      BY <3>2 DEF item
  <2>5. to[fstree.height] < Len(Leaf(fstree, to).items)
    BY <2>1 DEF Found
  <2>6. ModeOf(objkey)' \in Accepted'
    <3>1. HasStat /\ Mode \in Accepted
      BY <1>1 DEF NamesIInv, NamesStanding
    <3>2. ModeOf(objkey) \in Accepted
      BY <2>1, <3>1, StatIs
    <3>3. ModeOf(objkey)' = ModeOf(objkey) /\ Accepted' = Accepted
      BY <1>1 DEF Accepted, ModeOf, StatOf, ItemsOf
    <3>4. QED
      BY <3>2, <3>3
  <2>7. QED
    BY <2>4, <2>5, <2>6
<1>4. Nested' /\ NestingBounded'
  BY <1>1 DEF Nested, Walking, NestingBounded
<1>5. QED
  BY <1>2, <1>3, <1>4 DEF NamesIInv

(* The calls stay as they are.                                             *)
LEMMA NestSame ==
  ASSUME world' = world, frames' = frames, objkey' = objkey, NEW l, Nest(l)
  PROVE  Nest(l)'
<1>1. /\ Links' = Links /\ Through' = Through
      /\ \A obj : TextOf(obj)' = TextOf(obj)
  BY SameWorld
<1>2. Top' = Top
  BY DEF Top
<1> HIDE DEF Top
<1>3. QED
  BY <1>1, <1>2 DEF Nest, Behind

(* The object is no link to follow: it is the next directory.              *)
LEMMA NoLinkIsSound ==
  ASSUME NamesIInv, NoLink
  PROVE  NamesIInv'
<1>1. /\ stage = "stat" /\ HasStat /\ (Mode = "lnk" => Top.as_link /\ Terminator)
      /\ objpath' = StatPath /\ dirkey' = objkey /\ stage' = "name"
      /\ world' = world /\ use' = use /\ asked' = asked /\ frames' = frames /\ objkey' = objkey
      /\ unread' = unread
  BY DEF NoLink
<1>2. objkey \in Nat /\ world \in Worlds
  BY <1>1 DEF NamesIInv, NamesTyped, Walking
<1>3. NamesTyped'
  BY <1>1, <1>2 DEF NamesIInv, NamesTyped, Walking
<1>4. NamesStanding'
  <2>1. IsStat(ItemAt(fstree, StatPath), objkey)
    BY <1>1, <1>2, StatIs
  <2>2. \E stat : IsStat(stat, objkey)'
    BY <1>1, <2>1, SameWorld
  <2>3. QED
    BY <1>1, <2>2 DEF NamesStanding
<1>5. Nested'
  <2> SUFFICES ASSUME ~EndsAtLink  PROVE NoLinkIn' /\ \E l : Nest(l)'
    BY <1>1, SameWorld DEF Nested
  <2>1. PICK l : Nest(l)
    BY <1>1 DEF NamesIInv, Nested, Walking
  <2>2. Nest(l)'
    BY <1>1, <2>1, NestSame
  <2>3. objkey \in Links => Top.as_link /\ Terminator
    BY <1>1, <1>2, StatIs, LinkIs
  <2>4. NoLinkIn'
    BY <1>1, <2>3, SameWorld DEF NoLinkIn, Top, Terminator
  <2>5. QED
    BY <2>2, <2>4
<1>6. NestingBounded'
  BY <1>1 DEF NestingBounded
<1>7. QED
  BY <1>3, <1>4, <1>5, <1>6 DEF NamesIInv

(* The object is a link, and its text is behind its stat.                  *)
LEMMA IsLinkIsSound ==
  ASSUME NamesIInv, IsLink
  PROVE  NamesIInv'
<1>1. /\ stage = "stat" /\ HasStat /\ Mode = "lnk" /\ ~(Top.as_link /\ Terminator)
      /\ objpath' = StatPath /\ dirkey' = dirkey /\ stage' = "text"
      /\ world' = world /\ use' = use /\ asked' = asked /\ frames' = frames /\ objkey' = objkey
      /\ unread' = unread
  BY DEF IsLink
<1>2. objkey \in Nat /\ world \in Worlds
  BY <1>1 DEF NamesIInv, NamesTyped, Walking
<1>3. NamesTyped'
  BY <1>1, <1>2 DEF NamesIInv, NamesTyped, Walking
<1>4. NamesStanding'
  <2>1. StatPath' = StatPath /\ HasStat' = HasStat
    BY <1>1, SameStat
  <2>2. Mode' = Mode /\ Top' = Top /\ Terminator' = Terminator
    BY <1>1, <2>1 DEF Mode, fstree, Top, Terminator
  <2>3. QED
    BY <1>1, <2>1, <2>2 DEF NamesStanding
<1>5. Nested'
  <2> SUFFICES ASSUME ~EndsAtLink  PROVE NoLinkIn' /\ \E l : Nest(l)'
    BY <1>1, SameWorld DEF Nested
  <2>1. NoLinkIn /\ \E l : Nest(l)
    BY <1>1 DEF NamesIInv, Nested, Walking
  <2>2. \E l : Nest(l)'
    BY <1>1, <2>1, NestSame
  <2>3. objkey # Root
    <3>1. PICK stat : IsStat(stat, Root) /\ stat.mode = "dir"
      BY <1>2, RootIs
    <3>2. ModeOf(Root) = "dir"
      BY <1>2, <3>1, ModeIs
    <3>3. ModeOf(objkey) = "lnk"
      BY <1>1, <1>2, StatIs
    <3>4. QED
      BY <3>2, <3>3
  <2>4. dirkey \notin Links
    BY <1>1, <2>1, <2>3 DEF NoLinkIn
  <2>5. NoLinkIn'
    BY <1>1, <2>4, SameWorld DEF NoLinkIn
  <2>6. QED
    BY <2>2, <2>5
<1>6. NestingBounded'
  BY <1>1 DEF NestingBounded
<1>7. QED
  BY <1>3, <1>4, <1>5, <1>6 DEF NamesIInv

(* A name that is not absolute is searched from the working directory.     *)
LEMMA AbsoluteIs ==
  ASSUME NEW name \in Names
  PROVE  AbsoluteName(name) \in Seq(Components)
<1>1. name \in Seq(Components) /\ Cwd \in Seq(Components)
  BY NamesAssumption
<1>2. Cwd \o name \in Seq(Components)
  BY <1>1
<1>3. QED
  BY <1>1, <1>2 DEF AbsoluteName

(* A search begins with one call, at the root.                             *)
LEMMA ObjectCreateIsSound ==
  ASSUME NamesIInv, NEW name \in Names, NEW how \in Uses, ObjectCreate(name, how)
  PROVE  NamesIInv'
<1> DEFINE full == AbsoluteName(name)
           frame == [rest |-> full, named |-> FALSE, as_link |-> how = "link"]
<1>1. /\ stage' = "stat" /\ use' = how /\ asked' = full /\ frames' = <<frame>>
      /\ objkey' = Root /\ dirkey' = Nowhere /\ world' = world /\ unread' = unread
  BY DEF ObjectCreate, Frame
<1>2. full \in Seq(Components)
  BY AbsoluteIs
<1> HIDE DEF full
<1>3. frame \in Frames
  BY <1>2 DEF Frames
<1> HIDE DEF frame
<1>4. frames' \in Seq(Frames) /\ Len(frames') = 1 /\ frames' # <<>> /\ 2..1 = {} /\ 2..0 = {} /\ 1 <= MaxNesting + 1
  BY <1>1, <1>3, MaxNestingAssumption
<1>5. NamesTyped'
  BY <1>1, <1>2, <1>4, NamesAssumption DEF NamesIInv, NamesTyped, Walking
<1>6. NamesStanding'
  BY <1>1 DEF NamesStanding
<1>7. Nested'
  <2> DEFINE l == [i \in 2..1 |-> Root]
  <2>1. l \in [2..1 -> Links']
    BY <1>4
  <2>2. Nest(l)'
    BY <1>4, <2>1 DEF Nest
  <2>3. NoLinkIn'
    BY <1>1 DEF NoLinkIn
  <2>4. QED
    BY <2>2, <2>3 DEF Nested
<1>8. NestingBounded'
  BY <1>1 DEF NestingBounded
<1>9. QED
  BY <1>5, <1>6, <1>7, <1>8 DEF NamesIInv

(* What is left of the rest of a name is the rest of it too.               *)
LEMMA BehindOn ==
  ASSUME NEW name, Len(name) \in Nat, NEW rest, NEW left, Len(rest) \in Nat \ {0},
         Len(left) = Len(rest) - 1, \A x \in 1..Len(left) : left[x] = rest[x + 1],
         Behind(rest, name)
  PROVE  /\ Behind(left, name)
         /\ Len(name) - Len(rest) + 1 \in 1..Len(name)
         /\ rest[1] = name[Len(name) - Len(rest) + 1]
<1> DEFINE n == Len(name)
           r == Len(rest)
           m == Len(left)
<1>1. /\ n \in Nat /\ r \in Nat /\ r >= 1 /\ m = r - 1 /\ r <= n
      /\ \A x \in 1..r : rest[x] = name[n - r + x]
      /\ \A x \in 1..m : left[x] = rest[x + 1]
  BY DEF Behind
<1>2. Behind(left, name) <=> m <= n /\ \A x \in 1..m : left[x] = name[n - m + x]
  BY DEF Behind
<1> HIDE DEF n, r, m
<1>3. ASSUME NEW x \in 1..m  PROVE left[x] = name[n - m + x]
  <2>1. x + 1 \in 1..r /\ n - r + (x + 1) = n - m + x
    BY <1>1
  <2>2. QED
    BY <1>1, <2>1
<1>4. m <= n /\ n - r + 1 \in 1..n
  BY <1>1
<1>5. rest[1] = name[n - r + 1]
  BY <1>1
<1>6. QED
  BY <1>2, <1>3, <1>4, <1>5 DEF n, r

(* An entry a text names leads on, and when only separators are behind it, *)
(* the text ends there.                                                    *)
LEMMA TextLeads ==
  ASSUME world \in Worlds, NEW link \in Links, NEW rest, Len(rest) \in Nat \ {0},
         Behind(rest, TextOf(link)), rest[1] # Blank,
         NEW e \in AllEntries, e.off = HashValue(rest[1]), e.obj \in Links
  PROVE  /\ e.obj \in Through[link]
         /\ (\A x \in 2..Len(rest) : rest[x] = Blank) => EndsAtLink
<1> DEFINE text == TextOf(link)
           at == Len(text) - Len(rest) + 1
<1>1. Len(text) \in Nat /\ DOMAIN text = 1..Len(text)
  BY LinkIs
<1>2. /\ Len(rest) <= Len(text)
      /\ \A x \in 1..Len(rest) : rest[x] = text[Len(text) - Len(rest) + x]
  BY DEF Behind
<1>3. at \in DOMAIN text /\ text[at] = rest[1]
  BY <1>1, <1>2
<1>4. e.obj \in NamedBy({text[at]}) /\ e.obj \in NamedBy(Range(text))
  BY <1>3 DEF NamedBy, Range
<1>5. e.obj \in Through[link]
  BY <1>4 DEF Through
<1>6. ASSUME \A x \in 2..Len(rest) : rest[x] = Blank
      PROVE  EndsAtLink
  <2>1. ASSUME NEW j \in DOMAIN text, j > at  PROVE text[j] = Blank
    <3> DEFINE x == j - (Len(text) - Len(rest))
    <3>1. x \in 2..Len(rest) /\ Len(text) - Len(rest) + x = j /\ x \in 1..Len(rest)
      BY <1>1, <1>2, <2>1
    <3> HIDE DEF x
    <3>2. rest[x] = text[j]
      BY <1>2, <3>1
    <3>3. QED
      BY <1>6, <3>1, <3>2
  <2> HIDE DEF at
  <2>2. QED
    BY <1>3, <1>4, <2>1 DEF EndsAtLink
<1>7. QED
  BY <1>5, <1>6

(* The calls after a component.                                            *)
LEMMA NestTaken ==
  ASSUME NamesTyped, world' = world, Top.rest # <<>>, Taken, frames # <<>>, NEW l, Nest(l),
         objkey' \in Links /\ 2 <= Len(frames) =>
           /\ objkey' \in Through[l[Len(frames)]]
           /\ \E x \in 2..Len(Top.rest) : Top.rest[x] # Blank
  PROVE  Nest(l)'
<1> DEFINE n == Len(frames)
           old == Top.rest
           new == frames'[n].rest
<1>1. /\ frames' \in Seq(Frames) /\ Len(frames') = n /\ n \in Nat \ {0}
      /\ \A i \in 1..n : i # n => frames'[i] = frames[i]
      /\ new \in Seq(Components) /\ old \in Seq(Components)
      /\ Len(new) = Len(old) - 1 /\ Len(old) \in Nat \ {0}
      /\ \A x \in 1..Len(new) : new[x] = old[x + 1]
  BY TakenIs DEF NamesTyped
<1>2. /\ Links' = Links /\ Through' = Through /\ \A obj : TextOf(obj)' = TextOf(obj)
  BY SameWorld
<1>3. /\ l \in [2..n -> Links]
      /\ \A i \in 2..n : Behind(frames[i].rest, TextOf(l[i]))
      /\ \A i \in 2..(n - 1) : l[i + 1] \in Through[l[i]]
  BY DEF Nest
<1>4. Top' = frames'[n] /\ Top = frames[n]
  BY <1>1 DEF Top
<1> HIDE DEF Top
<1>5. ASSUME NEW i \in 2..n  PROVE Behind(frames'[i].rest, TextOf(l[i]))
  <2>1. CASE i # n
    BY <1>1, <1>3, <1>5, <2>1
  <2>2. CASE i = n
    <3>1. Behind(old, TextOf(l[n])) /\ l[n] \in Links
      BY <1>3, <1>4, <1>5, <2>2
    <3>2. Len(TextOf(l[n])) \in Nat
      BY <3>1, LinkIs DEF NamesTyped
    <3> HIDE DEF old, new
    <3>3. Behind(new, TextOf(l[n]))
      BY <1>1, <3>1, <3>2, BehindOn
    <3>4. QED
      BY <2>2, <3>3 DEF new
  <2>3. QED
    BY <2>1, <2>2
<1>6. ASSUME objkey' \in Links, 2 <= n
      PROVE  /\ objkey' \in Through[l[n]]
             /\ \E x \in DOMAIN new : new[x] # Blank
  <2>1. PICK x \in 2..Len(old) : old[x] # Blank
    BY <1>6
  <2> DEFINE y == x - 1
  <2>2. y \in 1..Len(new) /\ y + 1 = x /\ DOMAIN new = 1..Len(new)
    BY <1>1
  <2> HIDE DEF y
  <2>3. new[y] = old[x]
    BY <1>1, <2>2
  <2>4. QED
    BY <1>6, <2>1, <2>2, <2>3
<1> HIDE DEF n, old, new
<1>7. /\ l \in [2..Len(frames') -> Links']
      /\ \A i \in 2..Len(frames') : Behind(frames'[i].rest, TextOf(l[i])')
      /\ \A i \in 2..(Len(frames') - 1) : l[i + 1] \in Through'[l[i]]
      /\ objkey' \in Links' /\ 2 <= Len(frames') =>
           /\ objkey' \in Through'[l[Len(frames')]]
           /\ \E x \in DOMAIN frames'[n].rest : frames'[n].rest[x] # Blank
  BY <1>1, <1>2, <1>3, <1>5, <1>6 DEF n, new
<1>8. QED
  BY <1>4, <1>7 DEF Nest, Behind, n

(* After a component the calls are typed, and no link is where none was.   *)
LEMMA TypedTaken ==
  ASSUME NamesTyped, stage = "name", stage' = "stat", world' = world, use' = use, asked' = asked,
         dirkey' = dirkey, unread' = unread, objkey' \in Nat, Top.rest # <<>>, Taken
  PROVE  NamesTyped' /\ (NoLinkIn => NoLinkIn') /\ frames # <<>>
<1>1. frames \in Seq(Frames) /\ frames # <<>> /\ dirkey \in Nat
  BY DEF NamesTyped, Walking
<1>2. /\ frames' \in Seq(Frames) /\ Len(frames') = Len(frames) /\ Len(frames) \in Nat \ {0}
      /\ \A i \in 1..Len(frames) : frames'[i].as_link = frames[i].as_link
      /\ frames'[Len(frames)].named
      /\ Len(frames'[Len(frames)].rest) = Len(Top.rest) - 1 /\ Len(Top.rest) \in Nat \ {0}
  BY <1>1, TakenIs
<1>3. NamesTyped'
  <2>1. frames' # <<>>
    BY <1>2
  <2>2. \A i \in 2..Len(frames') : frames'[i].as_link
    BY <1>2 DEF NamesTyped
  <2>3. QED
    BY <1>1, <1>2, <2>1, <2>2 DEF NamesTyped, Walking
<1>4. ASSUME NoLinkIn  PROVE NoLinkIn'
  <2>1. Top' = frames'[Len(frames)] /\ Top = frames[Len(frames)]
    BY <1>2 DEF Top
  <2>2. Links' = Links
    BY SameWorld
  <2>3. Top.as_link /\ Terminator => Top'.as_link /\ Terminator'
    BY <1>2, <2>1 DEF Terminator
  <2>4. QED
    BY <1>4, <2>2, <2>3 DEF NoLinkIn
<1>5. QED
  BY <1>1, <1>3, <1>4

(* An empty component is taken.                                            *)
LEMMA NextEmptyIsSound ==
  ASSUME NamesIInv, NextEmpty
  PROVE  NamesIInv'
<1>1. /\ stage = "name" /\ Top.rest # <<>> /\ Head(Top.rest) = Blank /\ Taken /\ stage' = "stat"
      /\ world' = world /\ use' = use /\ asked' = asked /\ objkey' = objkey
      /\ dirkey' = dirkey /\ unread' = unread
  BY DEF NextEmpty, Strsep, Taken
<1>2. NamesTyped /\ objkey \in Nat /\ frames \in Seq(Frames)
  BY <1>1 DEF NamesIInv, NamesTyped, Walking
<1>3. NamesTyped' /\ (NoLinkIn => NoLinkIn') /\ frames # <<>>
  BY <1>1, <1>2, TypedTaken
<1>4. Nested'
  <2> SUFFICES ASSUME ~EndsAtLink  PROVE NoLinkIn' /\ \E l : Nest(l)'
    BY <1>1, SameWorld DEF Nested
  <2>1. NoLinkIn /\ \E l : Nest(l)
    BY <1>1 DEF NamesIInv, Nested, Walking
  <2>2. PICK l : Nest(l)
    BY <2>1
  <2>3. ASSUME objkey \in Links, 2 <= Len(frames)
        PROVE  /\ objkey \in Through[l[Len(frames)]]
               /\ \E x \in 2..Len(Top.rest) : Top.rest[x] # Blank
    <3>1. /\ objkey \in Through[l[Len(frames)]]
          /\ \E x \in DOMAIN Top.rest : Top.rest[x] # Blank
      BY <2>2, <2>3 DEF Nest
    <3>2. Top.rest[1] = Blank /\ Len(Top.rest) \in Nat /\ Top.rest \in Seq(Components)
      BY <1>1, <1>2, <1>3, TakenIs
    <3> DEFINE r == Top.rest
    <3>3. r[1] = Blank /\ Len(r) \in Nat /\ r \in Seq(Components) /\ \E x \in DOMAIN r : r[x] # Blank
      BY <3>1, <3>2
    <3> HIDE DEF r
    <3>4. \E x \in 2..Len(r) : r[x] # Blank
      BY <3>3
    <3>5. QED
      BY <3>1, <3>4 DEF r
  <2>4. Nest(l)'
    BY <1>1, <1>2, <1>3, <2>2, <2>3, NestTaken
  <2>5. QED
    BY <1>3, <2>1, <2>4
<1>5. NamesStanding' /\ NestingBounded'
  BY <1>1 DEF NamesStanding, NestingBounded
<1>6. QED
  BY <1>3, <1>4, <1>5 DEF NamesIInv

(* What an entry that is found for a component is.                         *)
LEMMA NextNameIs ==
  ASSUME NamesTyped, NamesStanding, NextName
  PROVE  LET name == Head(Top.rest)
         IN  /\ stage = "name" /\ Top.rest # <<>> /\ name # Blank /\ name \in Components \ {Blank}
             /\ world' = world /\ use' = use /\ asked' = asked /\ dirkey' = dirkey /\ unread' = unread
             /\ \/ /\ Taken /\ stage' = "stat"
                   /\ \E e \in EntriesOf(objkey) : e.off = HashValue(name) /\ objkey' = e.obj
                \/ /\ {e \in EntriesOf(objkey) : e.off = HashValue(name)} = {}
                   /\ Fail /\ objkey' = objkey
<1> DEFINE name == Head(Top.rest)
<1>1. /\ stage = "name" /\ Top.rest # <<>> /\ name # Blank /\ objpath' = EntryPath(name)
      /\ world' = world /\ use' = use /\ asked' = asked /\ dirkey' = dirkey /\ unread' = unread
      /\ \/ \E e \in EntriesAt(objpath', HashValue(name)) : objkey' = e.obj /\ stage' = "stat" /\ Taken
         \/ EntriesAt(objpath', HashValue(name)) = {} /\ Fail /\ objkey' = objkey
  BY DEF NextName, Strsep, Taken
<1>2. name \in Components \ {Blank} /\ objkey \in Nat /\ world \in Worlds
  <2>1. frames \in Seq(Frames) /\ frames # <<>>
    BY <1>1 DEF NamesTyped, Walking
  <2>2. Top \in Frames
    BY <2>1 DEF Top
  <2>3. Top.rest \in Seq(Components)
    BY <2>2 DEF Frames
  <2>4. name \in Components
    BY <1>1, <2>3
  <2>5. QED
    BY <1>1, <2>4 DEF NamesTyped, Walking
<1>3. PICK stat : IsStat(stat, objkey)
  BY <1>1 DEF NamesStanding
<1> HIDE DEF name
<1>4. EntriesAt(objpath', HashValue(name)) = {e \in EntriesOf(objkey) : e.off = HashValue(name)}
  BY <1>1, <1>2, <1>3, EntriesFound
<1>5. QED
  BY <1>1, <1>2, <1>4 DEF name

(* A component is taken and leads to an entry of the directory.            *)
LEMMA NextNameIsSound ==
  ASSUME NamesIInv, NextName
  PROVE  NamesIInv'
<1> DEFINE name == Head(Top.rest)
<1>1. /\ stage = "name" /\ Top.rest # <<>> /\ name # Blank
      /\ world' = world /\ use' = use /\ asked' = asked /\ dirkey' = dirkey /\ unread' = unread
      /\ \/ /\ Taken /\ stage' = "stat"
            /\ \E e \in EntriesOf(objkey) : e.off = HashValue(name) /\ objkey' = e.obj
         \/ Fail /\ objkey' = objkey
  BY NextNameIs DEF NamesIInv
<1>2. NamesTyped /\ frames \in Seq(Frames) /\ world \in Worlds /\ use \in Uses /\ asked \in Seq(Components)
      /\ unread \in BOOLEAN
  BY DEF NamesIInv, NamesTyped
<1>3. CASE Fail
  BY <1>1, <1>2, <1>3, OutsideIsSound DEF Fail
<1>4. ASSUME Taken, stage' = "stat", NEW e \in EntriesOf(objkey), e.off = HashValue(name), objkey' = e.obj
      PROVE  NamesIInv'
  <2>1. e \in AllEntries /\ e.obj \in Nat
    BY <1>2, EntryIs
  <2>2. NamesTyped' /\ (NoLinkIn => NoLinkIn') /\ frames # <<>>
    BY <1>1, <1>2, <1>4, <2>1, TypedTaken
  <2>3. Nested'
    <3> SUFFICES ASSUME ~EndsAtLink  PROVE NoLinkIn' /\ \E l : Nest(l)'
      BY <1>1, SameWorld DEF Nested
    <3>1. NoLinkIn /\ \E l : Nest(l)
      BY <1>1 DEF NamesIInv, Nested, Walking
    <3>2. PICK l : Nest(l)
      BY <3>1
    <3>3. ASSUME objkey' \in Links, 2 <= Len(frames)
          PROVE  /\ objkey' \in Through[l[Len(frames)]]
                 /\ \E x \in 2..Len(Top.rest) : Top.rest[x] # Blank
      <4> DEFINE link == l[Len(frames)]
                 rest == Top.rest
      <4>1. link \in Links /\ Behind(rest, TextOf(link))
        BY <1>2, <3>2, <3>3 DEF Nest, Top
      <4>2. Len(rest) \in Nat \ {0} /\ rest[1] = name
        BY <1>1, <1>2, <1>4, <2>2, TakenIs
      <4> HIDE DEF link, rest, name
      <4>3. e.obj \in Links /\ rest[1] # Blank /\ e.off = HashValue(rest[1])
        BY <1>1, <1>4, <3>3, <4>2
      <4>4. e.obj \in Through[link] /\ ((\A x \in 2..Len(rest) : rest[x] = Blank) => EndsAtLink)
        BY <1>2, <2>1, <4>1, <4>2, <4>3, TextLeads
      <4>5. QED
        BY <1>4, <4>4 DEF link, rest
    <3>4. Nest(l)'
      BY <1>1, <1>2, <1>4, <2>2, <3>2, <3>3, NestTaken
    <3>5. QED
      BY <2>2, <3>1, <3>4
  <2>4. NamesStanding' /\ NestingBounded'
    BY <1>4 DEF NamesStanding, NestingBounded
  <2>5. QED
    BY <2>2, <2>3, <2>4 DEF NamesIInv
<1>5. QED
  BY <1>1, <1>3, <1>4

(* The calls but the last.                                                 *)
LEMMA FrontIs ==
  ASSUME frames \in Seq(Frames), Len(frames) >= 2
  PROVE  /\ Front(frames) \in Seq(Frames) /\ Len(Front(frames)) = Len(frames) - 1
         /\ \A i \in 1..(Len(frames) - 1) : Front(frames)[i] = frames[i]
<1> DEFINE f == frames
<1>1. f \in Seq(Frames) /\ Len(f) >= 2
  OBVIOUS
<1> HIDE DEF f
<1>2. Front(f) = SubSeq(f, 1, Len(f) - 1)
  BY DEF Front
<1>3. SubSeq(f, 1, Len(f) - 1) \in Seq(Frames) /\ Len(SubSeq(f, 1, Len(f) - 1)) = Len(f) - 1
  BY <1>1
<1>4. \A i \in 1..(Len(f) - 1) : SubSeq(f, 1, Len(f) - 1)[i] = f[i]
  BY <1>1
<1>5. QED
  BY <1>2, <1>3, <1>4 DEF f

(* A call returns with its text read to the end: what it found is no link. *)
LEMMA ReturnIsSound ==
  ASSUME NamesIInv, Return
  PROVE  NamesIInv'
<1> DEFINE n == Len(frames)
<1>1. /\ stage = "name" /\ Top.rest = <<>> /\ stage' = (IF n = 1 THEN "end" ELSE "name")
      /\ frames' = Front(frames) /\ dirkey' = objkey
      /\ world' = world /\ use' = use /\ asked' = asked /\ objkey' = objkey /\ unread' = unread
      /\ objpath' = objpath
  BY DEF Return
<1>2. /\ objkey \in Nat /\ world \in Worlds /\ frames \in Seq(Frames) /\ frames # <<>>
      /\ n \in Nat \ {0} /\ n <= MaxNesting + 1
  BY <1>1 DEF NamesIInv, NamesTyped, Walking
<1>3. CASE n = 1
  <2>1. frames' = <<>>
    BY <1>1, <1>2, <1>3 DEF Front
  <2>2. Len(frames') = 0 /\ frames' \in Seq(Frames) /\ 0 <= MaxNesting + 1 /\ 2..0 = {}
    BY <2>1, MaxNestingAssumption
  <2>3. NamesTyped'
    BY <1>1, <1>2, <1>3, <2>2 DEF NamesIInv, NamesTyped, Walking
  <2>4. NamesStanding' /\ Nested' /\ NestingBounded'
    BY <1>1, <1>3 DEF NamesStanding, Nested, Walking, NestingBounded
  <2>5. QED
    BY <2>3, <2>4 DEF NamesIInv
<1>4. CASE n # 1
  <2>1. n >= 2 /\ stage' = "name"
    BY <1>1, <1>2, <1>4, SMTT(40)
  <2>2. /\ frames' \in Seq(Frames) /\ Len(frames') = n - 1
        /\ \A i \in 1..(n - 1) : frames'[i] = frames[i]
    BY <1>1, <1>2, <2>1, FrontIs
  <2>3. NamesTyped'
    <3>1. \A i \in 2..Len(frames') : frames'[i].as_link
      BY <1>2, <2>2 DEF NamesIInv, NamesTyped
    <3>2. frames' # <<>> /\ Len(frames') <= MaxNesting + 1
      BY <1>2, <2>1, <2>2, MaxNestingAssumption
    <3>3. QED
      BY <1>1, <1>2, <2>2, <3>1, <3>2 DEF NamesIInv, NamesTyped, Walking
  <2>4. NamesStanding'
    <3>1. PICK stat : IsStat(stat, objkey)
      BY <1>1 DEF NamesIInv, NamesStanding
    <3>2. IsStat(stat, objkey)'
      BY <1>1, <3>1, SameWorld
    <3>3. QED
      BY <2>1, <3>2 DEF NamesStanding
  <2>5. Nested'
    <3> SUFFICES ASSUME ~EndsAtLink  PROVE NoLinkIn' /\ \E l : Nest(l)'
      BY <1>1, SameWorld DEF Nested
    <3>1. PICK l : Nest(l)
      BY <1>1 DEF NamesIInv, Nested, Walking
    <3>2. Links' = Links /\ Through' = Through /\ \A obj : TextOf(obj)' = TextOf(obj)
      BY <1>1, SameWorld
    <3>3. objkey \notin Links
      <4>1. DOMAIN Top.rest = {}
        BY <1>1
      <4>2. QED
        BY <2>1, <3>1, <4>1 DEF Nest
    <3>4. NoLinkIn'
      BY <1>1, <3>2, <3>3 DEF NoLinkIn
    <3>5. /\ l \in [2..n -> Links]
          /\ \A i \in 2..n : Behind(frames[i].rest, TextOf(l[i]))
          /\ \A i \in 2..(n - 1) : l[i + 1] \in Through[l[i]]
      BY <3>1 DEF Nest
    <3>6. PICK k : /\ k \in [2..(n - 1) -> Links] /\ \A i \in 2..(n - 1) : k[i] = l[i]
                   /\ \A i \in 2..((n - 1) - 1) : k[i + 1] = l[i + 1] /\ k[i] = l[i]
      <4> DEFINE k == [i \in 2..(n - 1) |-> l[i]]
      <4>1. /\ k \in [2..(n - 1) -> Links] /\ \A i \in 2..(n - 1) : k[i] = l[i]
            /\ \A i \in 2..((n - 1) - 1) : k[i + 1] = l[i + 1] /\ k[i] = l[i]
        BY <1>2, <3>5
      <4>2. QED
        BY <4>1
    <3>7. \A i \in 2..(n - 1) : Behind(frames'[i].rest, TextOf(k[i]))
      BY <1>2, <2>2, <3>5, <3>6
    <3>8. \A i \in 2..((n - 1) - 1) : k[i + 1] \in Through[k[i]]
      BY <1>2, <3>5, <3>6
    <3> HIDE DEF n
    <3>9. Nest(k)'
      BY <1>1, <2>2, <3>2, <3>3, <3>6, <3>7, <3>8, ZenonT(40) DEF Nest, Behind
    <3>10. QED
      BY <3>4, <3>9
  <2>6. NestingBounded'
    BY <2>1 DEF NestingBounded
  <2>7. QED
    BY <2>3, <2>4, <2>5, <2>6 DEF NamesIInv
<1>5. QED
  BY <1>3, <1>4

-----------------------------------------------------------------------------
(* How far texts lead: the function ThroughItself is defined with.         *)
Reaches ==
  CHOOSE g : g = [n \in 0..Cardinality(Links) |->
    IF n = 0 THEN Through
    ELSE [l \in Links |-> g[n - 1][l] \cup UNION {Through[m] : m \in g[n - 1][l]}]]

(* There is such a function, by the least length there would be none for.  *)
LEMMA ReachesExist ==
  ASSUME NEW c \in Nat, c = Cardinality(Links)
  PROVE  \A n \in 0..c : Reaches[n] =
           IF n = 0 THEN Through
           ELSE [l \in Links |-> Reaches[n - 1][l] \cup UNION {Through[m] : m \in Reaches[n - 1][l]}]
<1> DEFINE Wider(r) == [l \in Links |-> r[l] \cup UNION {Through[m] : m \in r[l]}]
           Body(g, n) == IF n = 0 THEN Through ELSE Wider(g[n - 1])
           Bad == {k \in Nat : ~\E g : g = [n \in 0..k |-> Body(g, n)]}
           f == Reaches
<1> HIDE DEF Wider
<1>1. Bad = {}
  <2>1. SUFFICES ASSUME Bad # {}  PROVE FALSE
    OBVIOUS
  <2>2. PICK k \in Bad : \A m \in Bad : k <= m
    BY <2>1, LeastExists
  <2>3. CASE k = 0
    <3> DEFINE g == [n \in 0..0 |-> Through]
    <3>1. g = [n \in 0..0 |-> Body(g, n)]
      OBVIOUS
    <3>2. QED
      BY <2>2, <2>3, <3>1
  <2>4. CASE k # 0
    <3>1. k - 1 \in Nat /\ k - 1 \notin Bad
      <4>1. k \in Nat /\ k - 1 \in Nat /\ ~(k <= k - 1)
        BY <2>2, <2>4
      <4> HIDE DEF Bad
      <4>2. QED
        BY <2>2, <4>1
    <3>2. PICK g : g = [n \in 0..(k - 1) |-> Body(g, n)]
      BY <3>1
    <3> DEFINE h == [n \in 0..k |-> Body(g, n)]
    <3>3. \A n \in 0..(k - 1) : h[n] = g[n]
      <4>1. \A n \in 0..(k - 1) : g[n] = Body(g, n)
        BY <3>2
      <4>2. \A n \in 0..(k - 1) : n \in 0..k
        BY <3>1
      <4> HIDE DEF Body
      <4>3. QED
        BY <4>1, <4>2
    <3>4. \A n \in 0..k : Body(h, n) = Body(g, n)
      <4> SUFFICES ASSUME NEW n \in 0..k  PROVE Body(h, n) = Body(g, n)
        OBVIOUS
      <4>1. n = 0 \/ n - 1 \in 0..(k - 1)
        BY <2>2
      <4> HIDE DEF h
      <4>2. QED
        BY <4>1, <3>3
    <3>5. h = [n \in 0..k |-> Body(h, n)]
      BY <3>4
    <3> HIDE DEF h
    <3>6. QED
      BY <2>2, <3>5
  <2>5. QED
    BY <2>3, <2>4
<1>2. \E g : g = [n \in 0..c |-> Body(g, n)]
  BY <1>1
<1>3. f = [n \in 0..c |-> Body(f, n)]
  BY <1>2 DEF Reaches, Wider
<1> HIDE DEF f
<1>4. \A n \in 0..c : f[n] = Body(f, n)
  <2> HIDE DEF Body
  <2>1. QED
    BY <1>3
<1>5. QED
  BY <1>4 DEF f, Wider

(* Links that each lead to the next, more of them than there are, lead one *)
(* of them through itself.                                                 *)
LEMMA ChainTurns ==
  ASSUME world \in Worlds, NEW m, NEW c \in Nat, c = Cardinality(Links),
         m \in [1..(c + 1) -> Links], \A i \in 1..c : m[i + 1] \in Through[m[i]]
  PROVE  ThroughItself
<1>1. PICK i \in 1..(c + 1), j \in 1..(c + 1) : i # j /\ m[i] = m[j]
  <2> DEFINE top == c + 1
  <2>1. IsFiniteSet(Links)
    BY LinksFinite
  <2>2. top \in Int /\ top > Cardinality(Links) /\ top \in Nat
    OBVIOUS
  <2> HIDE DEF top
  <2>3. IsFiniteSet(1..top) /\ Cardinality(1..top) = top
    BY <2>2, FS_Interval
  <2>4. m \in [1..top -> Links]
    BY DEF top
  <2>5. \E x, y \in 1..top : x # y /\ m[x] = m[y]
    BY <2>1, <2>2, <2>3, <2>4, FS_PigeonHole
  <2>6. QED
    BY <2>5 DEF top
<1>2. PICK a \in 1..(c + 1), b \in 1..(c + 1) : a < b /\ m[a] = m[b]
  <2>1. CASE i < j
    BY <1>1, <2>1
  <2>2. CASE j < i
    BY <1>1, <2>2
  <2>3. QED
    BY <1>1, <2>1, <2>2
<1> DEFINE R == Reaches
           At(d) == IF a + d + 1 <= b THEN a + d + 1 ELSE b
           Bad == {d \in 0..c : m[At(d)] \notin R[d][m[a]]}
<1> HIDE DEF R
<1>3. /\ m[a] \in Links /\ R[0] = Through
      /\ \A n \in 0..c : n # 0 =>
           R[n] = [l \in Links |-> R[n - 1][l] \cup UNION {Through[x] : x \in R[n - 1][l]}]
  <2>1. 0 \in 0..c
    OBVIOUS
  <2> DEFINE Wider(r) == [l \in Links |-> r[l] \cup UNION {Through[x] : x \in r[l]}]
  <2>2. \A n \in 0..c : R[n] = IF n = 0 THEN Through ELSE Wider(R[n - 1])
    BY ReachesExist DEF R
  <2> HIDE DEF Wider
  <2>3. R[0] = Through
    BY <2>1, <2>2
  <2>4. \A n \in 0..c : n # 0 => R[n] = Wider(R[n - 1])
    BY <2>2
  <2>5. QED
    BY <2>3, <2>4 DEF Wider
<1>4. Bad = {}
  <2>1. SUFFICES ASSUME Bad # {}  PROVE FALSE
    OBVIOUS
  <2>2. PICK d \in Bad : \A e \in Bad : d <= e
    <3>1. Bad \subseteq Nat
      OBVIOUS
    <3>2. QED
      BY <2>1, <3>1, LeastExists
  <2>3. d \in 0..c /\ m[At(d)] \notin R[d][m[a]]
    BY <2>2
  <2>4. CASE d = 0
    <3>1. At(0) = a + 1 /\ a \in 1..c
      BY <1>2
    <3>2. m[a + 1] \in Through[m[a]]
      BY <3>1
    <3> HIDE DEF At
    <3>3. QED
      BY <1>3, <2>3, <2>4, <3>1, <3>2
  <2>5. CASE d # 0
    <3>1. d - 1 \in 0..c /\ ~(d <= d - 1) /\ d \in 0..c
      BY <2>3, <2>5
    <3>2. d - 1 \notin Bad
      <4> HIDE DEF Bad
      <4>1. QED
        BY <2>2, <3>1
    <3>3. m[At(d - 1)] \in R[d - 1][m[a]]
      BY <3>1, <3>2
    <3>4. R[d][m[a]] = R[d - 1][m[a]] \cup UNION {Through[x] : x \in R[d - 1][m[a]]}
      <4>1. R[d] = [l \in Links |-> R[d - 1][l] \cup UNION {Through[x] : x \in R[d - 1][l]}]
        BY <1>3, <2>5, <3>1
      <4>2. QED
        BY <1>3, <4>1
    <3>5. At(d) = At(d - 1) \/ (At(d - 1) \in 1..c /\ At(d) = At(d - 1) + 1)
      BY <1>2, <3>1
    <3> HIDE DEF At
    <3>6. m[At(d)] = m[At(d - 1)] \/ m[At(d)] \in Through[m[At(d - 1)]]
      BY <3>5
    <3>7. QED
      BY <2>3, <3>3, <3>4, <3>6
  <2>6. QED
    BY <2>4, <2>5
<1>5. At(c) = b
  BY <1>2
<1>6. m[a] \in R[c][m[a]]
  <2>1. c \notin Bad /\ c \in 0..c
    BY <1>4
  <2>2. m[At(c)] \in R[c][m[a]]
    BY <2>1
  <2> HIDE DEF At
  <2>3. QED
    BY <1>2, <1>5, <2>2
<1>7. ThroughItself <=> \E l \in Links : l \in R[Cardinality(Links)][l]
  BY DEF ThroughItself, R, Reaches
<1>8. QED
  BY <1>3, <1>6, <1>7

(* A link is followed by a call of its own, from the directory it is in.   *)
LEMMA FollowIsSound ==
  ASSUME NamesIInv, Follow
  PROVE  NamesIInv'
<1> DEFINE n == Len(frames)
           frame == [rest |-> Text, named |-> FALSE, as_link |-> TRUE]
<1>1. /\ stage = "text" /\ HasNext
      /\ objkey' = (IF Text[1] = Blank THEN Root ELSE dirkey)
      /\ \/ n <= MaxNesting /\ stage' = "stat" /\ frames' = Append(frames, frame)
         \/ ~(n <= MaxNesting) /\ stage' = "overflow" /\ frames' = frames
      /\ world' = world /\ use' = use /\ asked' = asked /\ dirkey' = dirkey /\ objpath' = objpath /\ unread' = unread
  BY DEF Follow, Frame
<1>2. /\ objkey \in Nat /\ dirkey \in Nat /\ world \in Worlds /\ frames \in Seq(Frames) /\ frames # <<>>
      /\ n \in Nat \ {0} /\ n <= MaxNesting + 1 /\ objkey' \in Nat
      /\ \A i \in 2..n : frames[i].as_link
  BY <1>1, NamesAssumption DEF NamesIInv, NamesTyped, Walking
<1>3. objpath = StatPath /\ HasStat /\ Mode = "lnk" /\ ~(Top.as_link /\ Terminator)
  BY <1>1 DEF NamesIInv, NamesStanding
<1>4. objkey \in Links /\ Text = TextOf(objkey) /\ Text \in Seq(Components) \ {<<>>}
  BY <1>1, <1>2, <1>3, TextIs, LinkIs
<1>5. frame \in Frames
  BY <1>4 DEF Frames
<1> DEFINE text == Text
<1> HIDE DEF text
<1>6. Links' = Links /\ Through' = Through /\ (EndsAtLink' <=> EndsAtLink)
      /\ (ThroughItself' <=> ThroughItself) /\ \A obj : TextOf(obj)' = TextOf(obj)
  BY <1>1, SameWorld
<1>7. ASSUME ~EndsAtLink
      PROVE  /\ dirkey \notin Links
             /\ \E l : Nest(l)
  BY <1>1, <1>3, <1>7 DEF NamesIInv, Nested, Walking, NoLinkIn
<1>8. CASE n <= MaxNesting
  <2>1. stage' = "stat" /\ frames' = Append(frames, frame)
    BY <1>1, <1>8
  <2> HIDE DEF frame
  <2>2. /\ frames' \in Seq(Frames) /\ Len(frames') = n + 1
        /\ frames'[n + 1] = frame /\ \A i \in 1..n : frames'[i] = frames[i]
    <3> DEFINE f == frames
    <3>1. f \in Seq(Frames) /\ frames' = Append(f, frame) /\ n = Len(f)
      BY <1>2, <2>1
    <3> HIDE DEF f, n
    <3>2. QED
      BY <1>5, <3>1 DEF f
  <2>3. frame.as_link /\ frame.rest = Text
    BY DEF frame
  <2>4. NamesTyped'
    <3>1. \A i \in 2..Len(frames') : frames'[i].as_link
      BY <1>2, <2>2, <2>3
    <3>2. Len(frames') <= MaxNesting + 1 /\ frames' # <<>>
      BY <1>2, <1>8, <2>2, MaxNestingAssumption
    <3>3. QED
      BY <1>1, <1>2, <2>1, <2>2, <3>1, <3>2 DEF NamesIInv, NamesTyped, Walking
  <2>5. Nested'
    <3> SUFFICES ASSUME ~EndsAtLink  PROVE NoLinkIn' /\ \E l : Nest(l)'
      BY <1>6 DEF Nested
    <3>1. dirkey \notin Links /\ \E l : Nest(l)
      BY <1>7
    <3>2. PICK l : Nest(l)
      BY <3>1
    <3>3. NoLinkIn'
      BY <1>1, <1>6, <3>1 DEF NoLinkIn
    <3>4. objkey' \notin Links
      <4>1. PICK stat : IsStat(stat, Root) /\ stat.mode = "dir"
        BY <1>2, RootIs
      <4>2. ModeOf(Root) = "dir"
        BY <1>2, <4>1, ModeIs
      <4>3. Root \notin Links
        BY <4>2 DEF Links
      <4>4. QED
        BY <1>1, <3>1, <4>3
    <3>5. /\ l \in [2..n -> Links]
          /\ \A i \in 2..n : Behind(frames[i].rest, TextOf(l[i]))
          /\ \A i \in 2..(n - 1) : l[i + 1] \in Through[l[i]]
          /\ 2 <= n => objkey \in Through[l[n]]
      BY <1>4, <3>2 DEF Nest
    <3>6. PICK k : /\ k \in [2..(n + 1) -> Links] /\ k[n + 1] = objkey
                   /\ \A i \in 2..n : k[i] = l[i]
      <4> DEFINE k == [i \in 2..(n + 1) |-> IF i = n + 1 THEN objkey ELSE l[i]]
      <4>1. /\ k \in [2..(n + 1) -> Links] /\ k[n + 1] = objkey
            /\ \A i \in 2..n : k[i] = l[i]
        BY <1>2, <1>4, <3>5
      <4>2. QED
        BY <4>1
    <3>7. ASSUME NEW i \in 2..(n + 1)  PROVE Behind(frames'[i].rest, TextOf(k[i]))
      <4>1. CASE i = n + 1
        <5>1. Behind(Text, Text)
          <6>1. Len(text) \in Nat
            BY <1>4 DEF text
          <6>2. Behind(text, text)
            BY <6>1 DEF Behind
          <6>3. QED
            BY <6>2 DEF text
        <5>2. QED
          BY <1>4, <2>2, <2>3, <3>6, <4>1, <5>1
      <4>2. CASE i # n + 1
        <5>1. i \in 2..n
          BY <1>2, <4>2
        <5>2. QED
          BY <2>2, <3>5, <3>6, <5>1
      <4>3. QED
        BY <4>1, <4>2
    <3>8. ASSUME NEW i \in 2..n  PROVE k[i + 1] \in Through[k[i]]
      <4>1. CASE i = n
        BY <1>2, <3>5, <3>6, <4>1
      <4>2. CASE i # n
        <5>1. i \in 2..(n - 1) /\ i + 1 \in 2..n
          BY <1>2, <4>2
        <5>2. QED
          BY <3>5, <3>6, <5>1
      <4>3. QED
        BY <4>1, <4>2
    <3>9. (n + 1) - 1 = n
      BY <1>2
    <3> HIDE DEF n
    <3>10. Nest(k)'
      BY <1>6, <2>2, <3>4, <3>6, <3>7, <3>8, <3>9 DEF Nest, Behind
    <3>11. QED
      BY <3>3, <3>10
  <2>6. NamesStanding' /\ NestingBounded'
    BY <2>1 DEF NamesStanding, NestingBounded
  <2>7. QED
    BY <2>4, <2>5, <2>6 DEF NamesIInv
<1>9. CASE ~(n <= MaxNesting)
  <2>1. stage' = "overflow" /\ frames' = frames /\ n = MaxNesting + 1
    BY <1>1, <1>2, <1>9, MaxNestingAssumption
  <2>2. NamesTyped'
    BY <1>1, <1>2, <2>1 DEF NamesIInv, NamesTyped, Walking
  <2>3. NestingBounded'
    <3> DEFINE c == Cardinality(Links)
    <3> SUFFICES ASSUME ~(MaxNesting < c), ~EndsAtLink  PROVE ThroughItself
      BY <1>6 DEF NestingBounded
    <3>1. c \in Nat /\ c <= MaxNesting /\ c + 1 <= n
      BY <1>2, <2>1, LinksFinite, MaxNestingAssumption
    <3>2. PICK l : Nest(l)
      BY <1>7
    <3>3. /\ l \in [2..n -> Links]
          /\ \A i \in 2..(n - 1) : l[i + 1] \in Through[l[i]]
          /\ 2 <= n => objkey \in Through[l[n]]
      BY <1>4, <3>2 DEF Nest
    <3> DEFINE m == [i \in 1..(c + 1) |-> IF i = n THEN objkey ELSE l[i + 1]]
    <3> HIDE DEF n, c
    <3>4. m \in [1..(c + 1) -> Links]
      <4>1. ASSUME NEW i \in 1..(c + 1), i # n  PROVE i + 1 \in 2..n
        BY <1>2, <3>1, <4>1
      <4>2. QED
        BY <1>4, <3>3, <4>1
    <3>5. ASSUME NEW i \in 1..c  PROVE m[i + 1] \in Through[m[i]]
      <4>1. i \in 1..(c + 1) /\ i + 1 \in 1..(c + 1) /\ i # n /\ i + 1 \in 2..n /\ 2 <= n
        BY <1>2, <3>1
      <4>2. m[i] = l[i + 1]
        BY <4>1
      <4>3. CASE i + 1 = n
        BY <3>3, <4>1, <4>2, <4>3
      <4>4. CASE i + 1 # n
        <5>1. i + 1 \in 2..(n - 1)
          BY <1>2, <3>1, <4>1, <4>4
        <5>2. m[i + 1] = l[(i + 1) + 1]
          BY <4>1, <4>4
        <5>3. l[(i + 1) + 1] \in Through[l[i + 1]]
          BY <3>3, <5>1
        <5>4. QED
          BY <4>2, <5>2, <5>3
      <4>5. QED
        BY <4>3, <4>4
    <3> HIDE DEF m
    <3>6. QED
      BY <1>2, <3>1, <3>4, <3>5, ChainTurns DEF c
  <2>4. NamesStanding' /\ Nested'
    BY <2>1 DEF NamesStanding, Nested, Walking
  <2>5. QED
    BY <2>2, <2>3, <2>4 DEF NamesIInv
<1>10. QED
  BY <1>8, <1>9

(* The invariant holds at first.                                           *)
LEMMA NamesInitIsSound ==
  ASSUME NamesInit
  PROVE  NamesIInv
<1>1. frames = <<>> /\ stage = "idle" /\ world \in Worlds /\ use = "file" /\ asked = <<>> /\ unread = FALSE
  BY DEF NamesInit, Idle
<1>2. Len(frames) = 0 /\ frames \in Seq(Frames) /\ asked \in Seq(Components) /\ 0 <= MaxNesting + 1 /\ 2..0 = {}
  BY <1>1, MaxNestingAssumption
<1>3. NamesTyped
  BY <1>1, <1>2 DEF NamesTyped, Walking, Uses
<1>4. NamesStanding /\ Nested /\ NestingBounded
  BY <1>1 DEF NamesStanding, Nested, Walking, NestingBounded
<1>5. QED
  BY <1>3, <1>4 DEF NamesIInv

(* And every step keeps it.                                                *)
LEMMA NamesNextIsSound ==
  ASSUME NamesIInv, [NamesNext]_namesVars
  PROVE  NamesIInv'
<1>1. CASE UNCHANGED namesVars
  <2>1. /\ world' = world /\ stage' = stage /\ use' = use /\ asked' = asked /\ frames' = frames
        /\ objkey' = objkey /\ dirkey' = dirkey /\ objpath' = objpath /\ unread' = unread
    BY <1>1 DEF namesVars
  <2>2. NamesTyped'
    BY <2>1 DEF NamesIInv, NamesTyped, Walking
  <2>3. StatPath' = StatPath /\ HasStat' = HasStat /\ Mode' = Mode /\ Top' = Top
    BY <2>1, SameStat DEF Top
  <2>4. Terminator' = Terminator /\ Accepted' = Accepted
    BY <2>1, <2>3 DEF Terminator, Accepted
  <2>5. NamesStanding'
    <3>1. fstree' = fstree /\ \A stat, obj : IsStat(stat, obj)' = IsStat(stat, obj)
      BY <2>1, SameWorld
    <3>2. \A obj : ModeOf(obj)' = ModeOf(obj)
      BY <2>1, SameWorld
    <3>3. (\E stat : IsStat(stat, objkey)) => \E stat : IsStat(stat, objkey)'
      BY <2>1, <3>1
    <3>4. NamesStanding
      BY DEF NamesIInv
    <3>5. stage' = "name" => \E stat : IsStat(stat, objkey)'
      BY <2>1, <3>3, <3>4 DEF NamesStanding
    <3>6. stage' = "open" => /\ objpath'[fstree'.height] < Len(Leaf(fstree, objpath)'.items)
                             /\ ItemAt(fstree, objpath)'.obj = objkey' /\ ItemAt(fstree, objpath)'.off = 1
                             /\ ModeOf(objkey)' \in Accepted'
      BY <2>1, <2>4, <3>1, <3>2, <3>4 DEF NamesStanding
    <3>7. QED
      BY <2>1, <2>3, <2>4, <3>4, <3>5, <3>6 DEF NamesStanding
  <2>6. Nested'
    <3> SUFFICES ASSUME Walking, ~EndsAtLink  PROVE NoLinkIn' /\ \E l : Nest(l)'
      BY <2>1, SameWorld DEF Nested, Walking
    <3>1. NoLinkIn /\ \E l : Nest(l)
      BY DEF NamesIInv, Nested
    <3>2. \E l : Nest(l)'
      BY <2>1, <3>1, NestSame
    <3>3. NoLinkIn'
      BY <2>1, <2>3, <2>4, <3>1, SameWorld DEF NoLinkIn
    <3>4. QED
      BY <3>2, <3>3
  <2>7. NestingBounded'
    BY <2>1, SameWorld DEF NamesIInv, NestingBounded
  <2>8. QED
    BY <2>2, <2>5, <2>6, <2>7 DEF NamesIInv
<1>2. CASE NamesNext
  BY <1>2, ObjectCreateIsSound, FailuresAreSound, NoLinkIsSound, IsLinkIsSound, FollowIsSound,
     NextEmptyIsSound, NextNameIsSound, ReturnIsSound, FindStatIsSound, RewindOpenedIsSound,
     CloseIsSound DEF NamesNext, NamesStep
<1>3. QED
  BY <1>1, <1>2

(* The inductive invariant holds of every name in every filesystem.        *)
THEOREM NamesSound == NamesSpec => []NamesIInv
  BY NamesInitIsSound, NamesNextIsSound, PTL DEF NamesSpec

(* Positions stay inside the leaves they point into, what is opened is of  *)
(* the kind that was asked for, and the calls are nested no deeper than    *)
(* there are links unless a link leads through itself or ends at another   *)
(* (object.c:276-448).                                                     *)
THEOREM NamesInvHolds == NamesSpec => []NamesInv
<1>1. NamesIInv => NamesInv
  BY DEF NamesIInv, NamesInv, NamesTypeOK, NamesTyped, NamesStanding
<1>2. QED
  BY <1>1, NamesSound, PTL

-----------------------------------------------------------------------------
(* Where names lead: the functions Walk and LinkEnds are defined with.     *)
Fars(links, at, name, mode) ==
  CHOOSE g : g = [k \in 0..Len(name) |->
    IF k = 0 THEN at ELSE Onward(links, g[k - 1], name, k, mode)]

Depths ==
  CHOOSE g : g = [depth \in 0..MaxNesting |->
    IF depth = 0 THEN [x \in Ids \X Links |-> Unclear]
    ELSE [x \in Ids \X Links |-> LinkEnd(g[depth - 1], x[1], TextOf(x[2]))]]

(* There is such a function, by the least length there would be none for.  *)
LEMMA FarsExist ==
  ASSUME NEW links, NEW at, NEW name, NEW mode, Len(name) \in Nat
  PROVE  /\ Walk(links, at, name, mode)[0] = at
         /\ \A k \in 1..Len(name) :
              Walk(links, at, name, mode)[k]
                = Onward(links, Walk(links, at, name, mode)[k - 1], name, k, mode)
<1> DEFINE c == Len(name)
           Wider(r, n) == Onward(links, r, name, n, mode)
           Body(g, n) == IF n = 0 THEN at ELSE Wider(g[n - 1], n)
           Bad == {k \in Nat : ~\E g : g = [n \in 0..k |-> Body(g, n)]}
           f == Fars(links, at, name, mode)
<1> HIDE DEF Wider
<1>1. Bad = {}
  <2>1. SUFFICES ASSUME Bad # {}  PROVE FALSE
    OBVIOUS
  <2>2. PICK k \in Bad : \A m \in Bad : k <= m
    BY <2>1, LeastExists
  <2>3. CASE k = 0
    <3> DEFINE g == [n \in 0..0 |-> at]
    <3>1. g = [n \in 0..0 |-> Body(g, n)]
      OBVIOUS
    <3>2. QED
      BY <2>2, <2>3, <3>1
  <2>4. CASE k # 0
    <3>1. k - 1 \in Nat /\ k - 1 \notin Bad
      <4>1. k \in Nat /\ k - 1 \in Nat /\ ~(k <= k - 1)
        BY <2>2, <2>4
      <4> HIDE DEF Bad
      <4>2. QED
        BY <2>2, <4>1
    <3>2. PICK g : g = [n \in 0..(k - 1) |-> Body(g, n)]
      BY <3>1
    <3> DEFINE h == [n \in 0..k |-> Body(g, n)]
    <3>3. \A n \in 0..(k - 1) : h[n] = g[n]
      <4>1. \A n \in 0..(k - 1) : g[n] = Body(g, n)
        BY <3>2
      <4>2. \A n \in 0..(k - 1) : n \in 0..k
        BY <3>1
      <4> HIDE DEF Body
      <4>3. QED
        BY <4>1, <4>2
    <3>4. \A n \in 0..k : Body(h, n) = Body(g, n)
      <4> SUFFICES ASSUME NEW n \in 0..k  PROVE Body(h, n) = Body(g, n)
        OBVIOUS
      <4>1. n = 0 \/ n - 1 \in 0..(k - 1)
        BY <2>2
      <4> HIDE DEF h
      <4>2. QED
        BY <4>1, <3>3
    <3>5. h = [n \in 0..k |-> Body(h, n)]
      BY <3>4
    <3> HIDE DEF h
    <3>6. QED
      BY <2>2, <3>5
  <2>5. QED
    BY <2>3, <2>4
<1>2. \E g : g = [n \in 0..c |-> Body(g, n)]
  BY <1>1
<1>3. f = [n \in 0..c |-> Body(f, n)]
  BY <1>2 DEF Fars, Wider
<1>4. f = Walk(links, at, name, mode)
  BY DEF Walk, Fars
<1> HIDE DEF f
<1>5. \A n \in 0..c : f[n] = Body(f, n)
  <2> HIDE DEF Body
  <2>1. QED
    BY <1>3
<1>6. f[0] = at
  <2>1. 0 \in 0..c
    OBVIOUS
  <2>2. QED
    BY <1>5, <2>1
<1>7. \A n \in 1..c : f[n] = Wider(f[n - 1], n)
  <2> SUFFICES ASSUME NEW n \in 1..c  PROVE f[n] = Wider(f[n - 1], n)
    OBVIOUS
  <2>1. n \in 0..c /\ n # 0
    OBVIOUS
  <2>2. QED
    BY <1>5, <2>1
<1>8. QED
  BY <1>4, <1>6, <1>7 DEF Wider

(* The same for links in links.                                            *)
LEMMA DepthsExist ==
  /\ LinkEnds[0] = [x \in Ids \X Links |-> Unclear]
  /\ \A d \in 1..MaxNesting :
       LinkEnds[d] = [x \in Ids \X Links |-> LinkEnd(LinkEnds[d - 1], x[1], TextOf(x[2]))]
<1> DEFINE c == MaxNesting
           Wider(r) == [x \in Ids \X Links |-> LinkEnd(r, x[1], TextOf(x[2]))]
           Lowest == [x \in Ids \X Links |-> Unclear]
           Body(g, n) == IF n = 0 THEN Lowest ELSE Wider(g[n - 1])
           Bad == {k \in Nat : ~\E g : g = [n \in 0..k |-> Body(g, n)]}
           f == Depths
<1> HIDE DEF Wider, Lowest
<1>1. Bad = {}
  <2>1. SUFFICES ASSUME Bad # {}  PROVE FALSE
    OBVIOUS
  <2>2. PICK k \in Bad : \A m \in Bad : k <= m
    BY <2>1, LeastExists
  <2>3. CASE k = 0
    <3> DEFINE g == [n \in 0..0 |-> Lowest]
    <3>1. g = [n \in 0..0 |-> Body(g, n)]
      OBVIOUS
    <3>2. QED
      BY <2>2, <2>3, <3>1
  <2>4. CASE k # 0
    <3>1. k - 1 \in Nat /\ k - 1 \notin Bad
      <4>1. k \in Nat /\ k - 1 \in Nat /\ ~(k <= k - 1)
        BY <2>2, <2>4
      <4> HIDE DEF Bad
      <4>2. QED
        BY <2>2, <4>1
    <3>2. PICK g : g = [n \in 0..(k - 1) |-> Body(g, n)]
      BY <3>1
    <3> DEFINE h == [n \in 0..k |-> Body(g, n)]
    <3>3. \A n \in 0..(k - 1) : h[n] = g[n]
      <4>1. \A n \in 0..(k - 1) : g[n] = Body(g, n)
        BY <3>2
      <4>2. \A n \in 0..(k - 1) : n \in 0..k
        BY <3>1
      <4> HIDE DEF Body
      <4>3. QED
        BY <4>1, <4>2
    <3>4. \A n \in 0..k : Body(h, n) = Body(g, n)
      <4> SUFFICES ASSUME NEW n \in 0..k  PROVE Body(h, n) = Body(g, n)
        OBVIOUS
      <4>1. n = 0 \/ n - 1 \in 0..(k - 1)
        BY <2>2
      <4> HIDE DEF h
      <4>2. QED
        BY <4>1, <3>3
    <3>5. h = [n \in 0..k |-> Body(h, n)]
      BY <3>4
    <3> HIDE DEF h
    <3>6. QED
      BY <2>2, <3>5
  <2>5. QED
    BY <2>3, <2>4
<1>2. \E g : g = [n \in 0..c |-> Body(g, n)]
  BY <1>1, MaxNestingAssumption
<1>3. f = [n \in 0..c |-> Body(f, n)]
  BY <1>2 DEF Depths, Wider, Lowest
<1>4. f = LinkEnds
  BY DEF Depths, LinkEnds
<1> HIDE DEF f
<1>5. \A n \in 0..c : f[n] = Body(f, n)
  <2> HIDE DEF Body
  <2>1. QED
    BY <1>3
<1>6. f[0] = Lowest
  <2>1. 0 \in 0..c
    BY MaxNestingAssumption
  <2>2. QED
    BY <1>5, <2>1
<1>7. \A n \in 1..c : f[n] = Wider(f[n - 1])
  <2> SUFFICES ASSUME NEW n \in 1..c  PROVE f[n] = Wider(f[n - 1])
    OBVIOUS
  <2>1. n \in 0..c /\ n # 0
    BY MaxNestingAssumption
  <2>2. QED
    BY <1>5, <2>1
<1>8. QED
  BY <1>4, <1>6, <1>7, ZenonT(40) DEF Wider, Lowest

(* What cannot be opened and has no entries.                               *)
Dead(obj) == ModeOf(obj) \notin {"dir", "reg", "lnk"}

(* Only a directory has entries.                                           *)
LEMMA EntriesOfDir ==
  ASSUME world \in Worlds, NEW obj, ModeOf(obj) # "dir"
  PROVE  EntriesOf(obj) = {}
<1> SUFFICES ASSUME NEW e \in EntriesOf(obj)  PROVE FALSE
  OBVIOUS
<1>1. PICK d \in Contents : d.obj = obj /\ d.type = DR
  BY DEF EntriesOf, ItemsOf, Contents, Range
<1>2. PICK stat : IsStat(stat, obj) /\ (d.type = SD \/ Beside(stat, d))
  BY <1>1, ObjectItems
<1>3. stat.mode = "dir"
  BY <1>1, <1>2 DEF Beside, SD, IT, DT, DR
<1>4. QED
  BY <1>2, <1>3, ModeIs

(* None and Unclear are no objects.                                        *)
LEMMA NoneIsDead ==
  ASSUME world \in Worlds
  PROVE  /\ Dead(None) /\ Dead(Unclear) /\ None # Unclear
         /\ None \notin Nat /\ Unclear \notin Nat
<1>1. None \notin Nat /\ Unclear \notin Nat /\ None # Unclear
  BY DEF None, Unclear
<1>2. ASSUME NEW obj, obj \notin Nat  PROVE Dead(obj)
  <2>1. ~ \E stat : IsStat(stat, obj)
    BY <1>2, ContentsAre DEF IsStat, IsKey
  <2>2. ModeOf(obj) = "gone"
    BY <2>1, ModeIs
  <2>3. QED
    BY <2>2 DEF Dead
<1>3. QED
  BY <1>1, <1>2

(* Nothing leads on from where there is nothing.                           *)
LEMMA OnwardDead ==
  ASSUME world \in Worlds, NEW links, NEW at, NEW name, NEW k, NEW mode
  PROVE  /\ Dead(at) => Dead(Onward(links, at, name, k, mode))
         /\ at = Unclear => Onward(links, at, name, k, mode) = Unclear
<1>1. at \in {None, Unclear} => Onward(links, at, name, k, mode) = at
  BY DEF Onward
<1>2. ASSUME Dead(at), at \notin {None, Unclear}
      PROVE  Onward(links, at, name, k, mode) \in {at, None}
  <2>1. EntriesOf(at) = {}
    BY <1>2, EntriesOfDir DEF Dead
  <2>2. {e \in EntriesOf(at) : e.name = name[k]} = {} /\ {e \in EntriesOf(at) : e.off = HashValue(name[k])} = {}
    BY <2>1
  <2>3. None \notin Links
    BY NoneIsDead, LinkIs
  <2>4. QED
    BY <2>2, <2>3 DEF Onward
<1>3. QED
  BY <1>1, <1>2, NoneIsDead

(* Nor does a name.                                                        *)
LEMMA WalkDead ==
  ASSUME world \in Worlds, NEW links, NEW at, NEW name, NEW mode, Len(name) \in Nat,
         NEW k \in 0..Len(name)
  PROVE  LET far == Walk(links, at, name, mode)
         IN  /\ Dead(far[k]) => Dead(far[Len(name)])
             /\ far[k] = Unclear => far[Len(name)] = Unclear
<1> DEFINE far == Walk(links, at, name, mode)
           n == Len(name)
           Kept(x) == (Dead(far[k]) => Dead(x)) /\ (far[k] = Unclear => x = Unclear)
           Bad == {j \in k..n : ~Kept(far[j])}
<1>1. \A j \in 1..n : far[j] = Onward(links, far[j - 1], name, j, mode)
  BY FarsExist
<1> HIDE DEF far, n
<1>2. \A j \in 1..n : Kept(far[j - 1]) => Kept(far[j])
  BY <1>1, OnwardDead
<1>3. n \in Nat /\ k \in 0..n
  BY DEF n
<1>4. Kept(far[k])
  OBVIOUS
<1> HIDE DEF Kept
<1>5. Bad = {}
  <2>1. SUFFICES ASSUME Bad # {}  PROVE FALSE
    OBVIOUS
  <2>2. PICK j \in Bad : \A m \in Bad : j <= m
    <3>1. Bad \subseteq Nat
      BY <1>3
    <3>2. QED
      BY <2>1, <3>1, LeastExists
  <2>3. j # k /\ j \in k..n /\ ~Kept(far[j])
    BY <1>4, <2>2
  <2>4. j - 1 \in k..n /\ ~(j <= j - 1) /\ j \in 1..n
    BY <1>3, <2>3
  <2>5. Kept(far[j - 1])
    BY <2>2, <2>4
  <2>6. QED
    BY <1>2, <2>3, <2>4, <2>5
<1>6. n \in k..n
  BY <1>3
<1>7. Kept(far[n])
  BY <1>5, <1>6
<1>8. QED
  BY <1>7 DEF Kept, far, n

-----------------------------------------------------------------------------
(* How far each call has come with its name, and where that leads.         *)
Mood(i) == IF i = 1 THEN use ELSE "text"
Far(nm, st, i) == Walk(LinkEnds[MaxNesting - i + 1], st[i], nm[i], Mood(i))
Here(nm, st, i) == Far(nm, st, i)[Len(nm[i]) - Len(frames[i].rest)]
End(nm, st, i) == Far(nm, st, i)[Len(nm[i])]

(* The link that was asked for itself.                                     *)
Kept == Len(frames) = 1 /\ use = "link" /\ Top.rest = <<>>

(* A link that is to be followed.                                          *)
ByLink(far) ==
  /\ objkey \in Links /\ ~(Top.as_link /\ Len(Top.rest) <= 1) /\ TextNear(objkey)
  /\ dirkey \in Ids \ Links
  /\ far = LinkEnds[MaxNesting - Len(frames) + 1][<<dirkey, objkey>>]

At(far) ==
  /\ stage = "name" => far = objkey /\ (objkey \notin Links \/ Kept)
  /\ stage = "stat" => \/ far = objkey /\ (objkey \notin Links \/ (Kept /\ Top.named))
                       \/ ByLink(far)
  /\ stage = "text" => ByLink(far)

(* Each call has read some of its name, nm, from its directory, st, and    *)
(* come to where the name of the next one leads in the end.                *)
Road(nm, st) ==
  LET n == Len(frames)
  IN  /\ nm \in [1..n -> Seq(Components)] /\ st \in [1..n -> Ids] /\ nm[1] = asked /\ st[1] = Root
      /\ \A i \in 1..n : Behind(frames[i].rest, nm[i])
      /\ \A i \in 1..n : frames[i].as_link <=> (i > 1 \/ use = "link")
      /\ \A i \in 1..(n - 1) : Here(nm, st, i) = End(nm, st, i + 1)
      /\ At(Here(nm, st, n))

Roads == Meant # Unclear => \E nm, st : Road(nm, st)

OnRoad ==
  /\ Walking => objkey \in Ids /\ (dirkey \in Ids \/ objkey = Root) /\ Roads
  /\ stage = "name" => dirkey = objkey
  /\ stage \in {"end", "kind", "open"} /\ Meant # Unclear => objkey = Meant
  /\ stage = "failed" /\ ~unread => ~Opens(Meant)
  /\ stage = "astray" /\ ~unread => Meant = Unclear

(* The meaning of names does not change with the calls.                    *)
LEMMA SameMeaning ==
  ASSUME world' = world
  PROVE  /\ LinkEnds' = LinkEnds /\ Ids' = Ids
         /\ \A links, at, name, mode : Walk(links, at, name, mode)' = Walk(links, at, name, mode)
         /\ \A obj : TextNear(obj)' = TextNear(obj)
<1>1. Links' = Links /\ Ids' = Ids /\ \A obj : TextOf(obj)' = TextOf(obj)
  BY SameWorld DEF Ids, AllEntries
<1>2. \A obj : TextNear(obj)' = TextNear(obj) /\ EntriesOf(obj)' = EntriesOf(obj)
  BY DEF TextNear, fstree, EntriesOf, ItemsOf
<1>3. \A links, at, name, k, mode :
        Onward(links, at, name, k, mode)' = Onward(links, at, name, k, mode)
  <2> SUFFICES ASSUME NEW links, NEW at, NEW name, NEW k, NEW mode
               PROVE  Onward(links, at, name, k, mode)' = Onward(links, at, name, k, mode)
    OBVIOUS
  <2> DEFINE named(E) == {e \in E : e.name = name[k]}
             alike(E) == {e \in E : e.off = HashValue(name[k])}
             next(E) == IF named(E) = {} THEN None ELSE (CHOOSE e \in named(E) : TRUE).obj
             last == mode \in {"link", "text"} /\ k >= Len(name) - 1
             kept == mode = "link" /\ k = Len(name)
             On(E, L, near) ==
               IF name[k] = Blank \/ at \in {None, Unclear} THEN at
               ELSE IF named(E) # alike(E) THEN Unclear
               ELSE IF next(E) \notin L \/ kept THEN next(E)
               ELSE IF last \/ ~near THEN Unclear
               ELSE links[<<at, next(E)>>]
  <2>1. Onward(links, at, name, k, mode) = On(EntriesOf(at), Links, TextNear(next(EntriesOf(at))))
    BY DEF Onward
  <2>2. Onward(links, at, name, k, mode)'
          = On(EntriesOf(at)', Links', TextNear(next(EntriesOf(at)))')
    BY DEF Onward
  <2> HIDE DEF On, next
  <2>3. TextNear(next(EntriesOf(at)))' = TextNear(next(EntriesOf(at)))
    BY <1>2
  <2>4. QED
    BY <1>1, <1>2, <2>1, <2>2, <2>3
<1>4. \A links, at, name, mode : Walk(links, at, name, mode)' = Walk(links, at, name, mode)
  BY <1>3 DEF Walk
<1>5. \A links, at, text : LinkEnd(links, at, text)' = LinkEnd(links, at, text)
  BY <1>4 DEF LinkEnd
<1>6. LinkEnds' = LinkEnds
  BY <1>1, <1>5, ZenonT(40) DEF LinkEnds
<1>7. QED
  BY <1>1, <1>2, <1>4, <1>6

(* Nor do they change what was asked for.                                  *)
LEMMA SameMeant ==
  ASSUME world' = world, use' = use, asked' = asked
  PROVE  /\ Meant' = Meant /\ Opens(Meant)' = Opens(Meant)
         /\ \A nm, st, i : Far(nm, st, i)' = Far(nm, st, i)
<1>1. Meant' = Meant
  BY SameMeaning DEF Meant
<1>2. \A obj : Opens(obj)' = Opens(obj)
  BY SameWorld DEF Opens, Accepted, ItemsOf
<1>3. \A nm, st, i : Far(nm, st, i)' = Far(nm, st, i)
  BY SameMeaning DEF Far, Mood
<1>4. QED
  BY <1>1, <1>2, <1>3

(* What is left of a number.                                               *)
LEMMA DifferenceIs ==
  ASSUME NEW a \in Nat, NEW b \in Nat, b <= a
  PROVE  a - b \in 0..a
  OBVIOUS

(* Where the last call's name leads nowhere, so does the one asked for.    *)
LEMMA RoadDead ==
  ASSUME NamesTyped, frames # <<>>, NEW nm, NEW st, Road(nm, st)
  PROVE  /\ Dead(End(nm, st, Len(frames))) => Dead(Meant)
         /\ End(nm, st, Len(frames)) = Unclear => Meant = Unclear
<1> DEFINE n == Len(frames)
           E(i) == End(nm, st, i)
           Kept1(x) == (Dead(E(n)) => Dead(x)) /\ (E(n) = Unclear => x = Unclear)
           T == {j \in 0..(n - 1) : ~Kept1(E(n - j))}
<1>1. n \in Nat \ {0} /\ world \in Worlds
  BY DEF NamesTyped
<1>2. E(1) = Meant
  <2>1. E(1) = Walk(LinkEnds[MaxNesting - 1 + 1], st[1], nm[1], Mood(1))[Len(nm[1])]
    BY DEF End, Far
  <2>2. MaxNesting - 1 + 1 = MaxNesting /\ Mood(1) = use
    BY MaxNestingAssumption DEF Mood
  <2>3. st[1] = Root /\ nm[1] = asked
    BY DEF Road
  <2>4. QED
    BY <2>1, <2>2, <2>3 DEF Meant
<1>3. ASSUME NEW i \in 1..(n - 1)  PROVE Kept1(E(i + 1)) => Kept1(E(i))
  <2>1. Here(nm, st, i) = E(i + 1) /\ nm[i] \in Seq(Components) /\ Behind(frames[i].rest, nm[i])
    BY <1>1, <1>3 DEF Road
  <2>2. frames[i] \in Frames
    BY <1>1, <1>3 DEF NamesTyped
  <2> DEFINE k == Len(nm[i]) - Len(frames[i].rest)
             far == Far(nm, st, i)
  <2>3. Len(nm[i]) \in Nat /\ Len(frames[i].rest) \in Nat
    BY <2>1, <2>2 DEF Frames
  <2>4. k \in 0..Len(nm[i])
    <3>1. Len(frames[i].rest) <= Len(nm[i])
      BY <2>1 DEF Behind
    <3>2. QED
      BY <2>3, <3>1, DifferenceIs
  <2>5. Here(nm, st, i) = far[k] /\ E(i) = far[Len(nm[i])]
    BY DEF Here, End
  <2> HIDE DEF k, E
  <2>6. (Dead(far[k]) => Dead(far[Len(nm[i])])) /\ (far[k] = Unclear => far[Len(nm[i])] = Unclear)
    BY <1>1, <2>3, <2>4, WalkDead DEF Far
  <2>7. QED
    BY <2>1, <2>5, <2>6
<1> HIDE DEF n, E
<1>4. Kept1(E(n))
  OBVIOUS
<1> HIDE DEF Kept1
<1>5. T = {}
  <2>1. SUFFICES ASSUME T # {}  PROVE FALSE
    OBVIOUS
  <2>2. PICK j \in T : \A m \in T : j <= m
    <3>1. T \subseteq Nat
      BY <1>1
    <3>2. QED
      BY <2>1, <3>1, LeastExists
  <2>3. j \in 0..(n - 1) /\ ~Kept1(E(n - j))
    BY <2>2
  <2>4. j # 0
    <3>1. n - 0 = n
      BY <1>1
    <3>2. QED
      BY <1>4, <2>3, <3>1
  <2>5. j - 1 \in 0..(n - 1) /\ ~(j <= j - 1) /\ n - j \in 1..(n - 1) /\ (n - j) + 1 = n - (j - 1)
    BY <1>1, <2>3, <2>4
  <2>6. j - 1 \notin T
    BY <2>2, <2>5
  <2>7. Kept1(E((n - j) + 1))
    BY <2>5, <2>6
  <2>8. QED
    BY <1>3, <2>3, <2>5, <2>7
<1>6. n - 1 \in 0..(n - 1) /\ n - (n - 1) = 1
  BY <1>1
<1>7. Kept1(E(1))
  BY <1>5, <1>6
<1>8. QED
  BY <1>2, <1>7 DEF Kept1, n, E

(* And so it does where the last call has come to nothing.                 *)
LEMMA HereDead ==
  ASSUME NamesTyped, frames # <<>>, NEW nm, NEW st, Road(nm, st), NEW k \in 0..Len(nm[Len(frames)])
  PROVE  /\ Dead(Far(nm, st, Len(frames))[k]) => Dead(Meant)
         /\ Far(nm, st, Len(frames))[k] = Unclear => Meant = Unclear
<1> DEFINE n == Len(frames)
<1>1. n \in Nat \ {0} /\ world \in Worlds
  BY DEF NamesTyped
<1>2. nm[n] \in Seq(Components)
  BY <1>1 DEF Road
<1>3. Len(nm[n]) \in Nat
  BY <1>2
<1> HIDE DEF n
<1>4. k \in 0..Len(nm[n])
  BY DEF n
<1>5. /\ Dead(Far(nm, st, n)[k]) => Dead(End(nm, st, n))
      /\ Far(nm, st, n)[k] = Unclear => End(nm, st, n) = Unclear
  BY <1>1, <1>3, <1>4, WalkDead DEF Far, End
<1>6. QED
  BY <1>5, RoadDead DEF n

(* What the last call has come to.                                         *)
LEMMA HereIs ==
  ASSUME NamesTyped, frames # <<>>, NEW nm, NEW st, Road(nm, st)
  PROVE  LET n == Len(frames)
             k == Len(nm[n]) - Len(Top.rest)
         IN  /\ n \in Nat \ {0} /\ nm[n] \in Seq(Components) /\ Top = frames[n] /\ Top \in Frames
             /\ Top.rest \in Seq(Components) /\ Len(Top.rest) \in Nat /\ Len(nm[n]) \in Nat
             /\ k \in 0..Len(nm[n]) /\ Here(nm, st, n) = Far(nm, st, n)[k]
             /\ \A x \in 1..Len(Top.rest) : Top.rest[x] = nm[n][k + x]
             /\ Dead(Here(nm, st, n)) => Dead(Meant)
             /\ Here(nm, st, n) = Unclear => Meant = Unclear
             /\ At(Here(nm, st, n)) /\ (Top.as_link <=> (n > 1 \/ use = "link"))
<1> DEFINE n == Len(frames)
           k == Len(nm[n]) - Len(Top.rest)
<1>1. n \in Nat \ {0} /\ n \in 1..n /\ Top = frames[n] /\ Top \in Frames
  BY DEF NamesTyped, Top
<1>2. /\ nm[n] \in Seq(Components) /\ Behind(Top.rest, nm[n]) /\ At(Here(nm, st, n))
      /\ Top.as_link <=> (n > 1 \/ use = "link")
  BY <1>1 DEF Road
<1>3. Top.rest \in Seq(Components) /\ Len(Top.rest) \in Nat /\ Len(nm[n]) \in Nat
  BY <1>1, <1>2 DEF Frames
<1>4. k \in 0..Len(nm[n]) /\ \A x \in 1..Len(Top.rest) : Top.rest[x] = nm[n][k + x]
  <2>1. Len(Top.rest) <= Len(nm[n])
    BY <1>2 DEF Behind
  <2>2. \A x \in 1..Len(Top.rest) : Top.rest[x] = nm[n][k + x]
    BY <1>2 DEF Behind
  <2>3. k \in 0..Len(nm[n])
    BY <1>3, <2>1, DifferenceIs
  <2>4. QED
    BY <2>2, <2>3
<1>5. Here(nm, st, n) = Far(nm, st, n)[k]
  BY <1>1 DEF Here
<1>6. (Dead(Here(nm, st, n)) => Dead(Meant)) /\ (Here(nm, st, n) = Unclear => Meant = Unclear)
  BY <1>4, <1>5, HereDead
<1>7. QED
  BY <1>1, <1>2, <1>3, <1>4, <1>5, <1>6

(* The calls go on, the last one perhaps with less of its name.            *)
LEMMA RoadOn ==
  ASSUME NamesTyped, frames # <<>>, world' = world, use' = use, asked' = asked,
         NEW nm, NEW st, Road(nm, st), Len(frames') = Len(frames),
         \A i \in 1..Len(frames) : i # Len(frames) => frames'[i] = frames[i],
         \A i \in 1..Len(frames) : frames'[i].as_link = frames[i].as_link,
         Behind(frames'[Len(frames)].rest, nm[Len(frames)]),
         NEW far, At(far)',
         far = Far(nm, st, Len(frames))[Len(nm[Len(frames)]) - Len(frames'[Len(frames)].rest)]
  PROVE  Road(nm, st)'
<1> DEFINE n == Len(frames)
<1>1. n \in Nat \ {0}
  BY DEF NamesTyped
<1>2. \A i : Far(nm, st, i)' = Far(nm, st, i) /\ End(nm, st, i)' = End(nm, st, i)
  BY SameMeant DEF End
<1>3. \A i \in 1..n : Behind(frames'[i].rest, nm[i])
  BY <1>1 DEF Road
<1>4. ASSUME NEW i \in 1..(n - 1)  PROVE Here(nm, st, i)' = End(nm, st, i + 1)'
  <2>1. frames'[i] = frames[i]
    BY <1>1, <1>4
  <2>2. Here(nm, st, i)' = Here(nm, st, i)
    BY <1>2, <2>1 DEF Here
  <2>3. Here(nm, st, i) = End(nm, st, i + 1)
    BY <1>4 DEF Road
  <2>4. QED
    BY <1>2, <2>2, <2>3
<1>5. Here(nm, st, n)' = far
  BY <1>2 DEF Here
<1>6. Ids' = Ids
  BY SameMeaning
<1>7. \A i \in 1..n : frames'[i].as_link <=> (i > 1 \/ use = "link")
  BY DEF Road
<1>8. nm \in [1..n -> Seq(Components)] /\ st \in [1..n -> Ids] /\ nm[1] = asked /\ st[1] = Root
  BY DEF Road
<1>9. Len(frames') = n /\ use' = use /\ asked' = asked
  OBVIOUS
<1>10. At(Here(nm, st, Len(frames)))'
  <2>1. Here(nm, st, n)' = far /\ At(far)'
    BY <1>5
  <2>2. At(Here(nm, st, Len(frames)))' <=> At(far)'
    BY <1>5, <1>9 DEF At, ByLink
  <2>3. QED
    BY <2>1, <2>2
<1>11. Road(nm, st)' <=>
         LET m == Len(frames')
         IN  /\ nm \in [1..m -> Seq(Components)] /\ st \in [1..m -> Ids'] /\ nm[1] = asked' /\ st[1] = Root
             /\ \A i \in 1..m : Behind(frames[i].rest, nm[i])'
             /\ \A i \in 1..m : frames'[i].as_link <=> (i > 1 \/ use' = "link")
             /\ \A i \in 1..(m - 1) : Here(nm, st, i)' = End(nm, st, i + 1)'
             /\ At(Here(nm, st, Len(frames)))'
  BY DEF Road
<1>12. \A i \in 1..n : Behind(frames[i].rest, nm[i])'
  BY <1>3 DEF Behind
<1> HIDE DEF n
<1>13. QED
  BY <1>4, <1>6, <1>7, <1>8, <1>9, <1>10, <1>11, <1>12

(* The same when nothing of a name was read.                               *)
LEMMA RoadSame ==
  ASSUME NamesTyped, frames # <<>>, world' = world, use' = use, asked' = asked, frames' = frames,
         NEW nm, NEW st, Road(nm, st), NEW far, far = Here(nm, st, Len(frames)), At(far)'
  PROVE  Road(nm, st)'
<1>1. Behind(frames[Len(frames)].rest, nm[Len(frames)])
  <2>1. Len(frames) \in 1..Len(frames)
    BY DEF NamesTyped
  <2>2. QED
    BY <2>1 DEF Road
<1>2. far = Far(nm, st, Len(frames))[Len(nm[Len(frames)]) - Len(frames[Len(frames)].rest)]
  BY DEF Here
<1>3. QED
  BY <1>1, <1>2, RoadOn

(* There is something, but no link to follow.                              *)
LEMMA NoLinkOnRoad ==
  ASSUME NamesIInv, OnRoad, NoLink
  PROVE  OnRoad'
<1>1. /\ stage = "stat" /\ HasStat /\ (Mode = "lnk" => Top.as_link /\ Terminator)
      /\ dirkey' = objkey /\ stage' = "name"
      /\ world' = world /\ use' = use /\ asked' = asked /\ frames' = frames /\ objkey' = objkey
  BY DEF NoLink
<1>2. NamesTyped /\ frames # <<>> /\ objkey \in Nat /\ world \in Worlds /\ objkey \in Ids
  BY <1>1 DEF NamesIInv, NamesTyped, Walking, OnRoad
<1>3. Meant' = Meant /\ Ids' = Ids /\ Links' = Links
  BY <1>1, SameMeant, SameMeaning, SameWorld
<1>4. ASSUME Meant # Unclear  PROVE \E nm, st : Road(nm, st)'
  <2>1. PICK nm, st : Road(nm, st)
    BY <1>1, <1>4 DEF OnRoad, Walking, Roads
  <2>2. PICK far : far = Here(nm, st, Len(frames))
    OBVIOUS
  <2>3. At(far)
    BY <1>2, <2>1, <2>2, HereIs
  <2>4. objkey \in Links => Mode = "lnk"
    BY <1>1, <1>2, StatIs, LinkIs
  <2>5. far = objkey /\ (objkey \notin Links \/ Kept)
    BY <1>1, <2>3, <2>4 DEF At, ByLink, Terminator
  <2>6. Kept' = Kept
    BY <1>1 DEF Kept, Top
  <2>7. At(far)'
    BY <1>1, <1>3, <2>5, <2>6 DEF At
  <2>8. Road(nm, st)'
    BY <1>1, <1>2, <2>1, <2>2, <2>7, RoadSame
  <2>9. QED
    BY <2>8
<1>5. Roads'
  BY <1>3, <1>4 DEF Roads, Unclear
<1>6. QED
  BY <1>1, <1>2, <1>3, <1>5 DEF OnRoad

(* There is a link to follow.                                              *)
LEMMA IsLinkOnRoad ==
  ASSUME NamesIInv, OnRoad, IsLink
  PROVE  OnRoad'
<1>1. /\ stage = "stat" /\ HasStat /\ Mode = "lnk" /\ ~(Top.as_link /\ Terminator)
      /\ dirkey' = dirkey /\ stage' = "text"
      /\ world' = world /\ use' = use /\ asked' = asked /\ frames' = frames /\ objkey' = objkey
  BY DEF IsLink
<1>2. NamesTyped /\ frames # <<>> /\ objkey \in Nat /\ world \in Worlds /\ objkey \in Ids
      /\ (dirkey \in Ids \/ objkey = Root)
  BY <1>1 DEF NamesIInv, NamesTyped, Walking, OnRoad
<1>3. Meant' = Meant /\ Ids' = Ids /\ Links' = Links /\ LinkEnds' = LinkEnds /\ Top' = Top
      /\ TextNear(objkey)' = TextNear(objkey)
  BY <1>1, SameMeant, SameMeaning, SameWorld DEF Top, TextNear, fstree
<1>4. ASSUME Meant # Unclear  PROVE \E nm, st : Road(nm, st)'
  <2>1. PICK nm, st : Road(nm, st)
    BY <1>1, <1>4 DEF OnRoad, Walking, Roads
  <2>2. PICK far : far = Here(nm, st, Len(frames))
    OBVIOUS
  <2>3. At(far) /\ (Top.as_link <=> (Len(frames) > 1 \/ use = "link"))
    BY <1>2, <2>1, <2>2, HereIs
  <2>4. objkey \in Links
    BY <1>1, <1>2, StatIs, LinkIs
  <2>5. ~(Kept /\ Top.named)
    <3>1. Len(<<>>) <= 1
      OBVIOUS
    <3>2. QED
      BY <1>1, <2>3, <3>1 DEF Kept, Terminator
  <2>6. ByLink(far)
    BY <1>1, <2>3, <2>4, <2>5 DEF At
  <2>7. ByLink(far)'
    BY <1>1, <1>3, <2>6 DEF ByLink
  <2>8. At(far)'
    BY <1>1, <2>7 DEF At
  <2>9. Road(nm, st)'
    BY <1>1, <1>2, <2>1, <2>2, <2>8, RoadSame
  <2>10. QED
    BY <2>9
<1>5. Roads'
  BY <1>3, <1>4 DEF Roads, Unclear
<1>6. QED
  BY <1>1, <1>2, <1>3, <1>5 DEF OnRoad

(* The next component.                                                     *)
LEMMA NextIs ==
  ASSUME NamesTyped, frames # <<>>, Top.rest # <<>>, Taken, NEW nm, NEW st, Road(nm, st)
  PROVE  LET n == Len(frames)
             k == Len(nm[n]) - Len(Top.rest)
             far == Far(nm, st, n)
         IN  /\ k + 1 \in 1..Len(nm[n]) /\ k + 1 \in 0..Len(nm[n]) /\ (k + 1) - 1 = k
             /\ Len(Top.rest) = Len(nm[n]) - k
             /\ nm[n][k + 1] = Head(Top.rest)
             /\ Len(nm[n]) - Len(frames'[n].rest) = k + 1
             /\ Behind(frames'[n].rest, nm[n])
             /\ far[k + 1] = Onward(LinkEnds[MaxNesting - n + 1], far[k], nm[n], k + 1, Mood(n))
             /\ Here(nm, st, n) = far[k]
<1> DEFINE n == Len(frames)
           k == Len(nm[n]) - Len(Top.rest)
           far == Far(nm, st, n)
           new == frames'[n].rest
<1>1. /\ n \in Nat \ {0} /\ nm[n] \in Seq(Components) /\ Top = frames[n]
      /\ Len(Top.rest) \in Nat /\ Len(nm[n]) \in Nat /\ k \in 0..Len(nm[n])
      /\ Here(nm, st, n) = far[k] /\ \A x \in 1..Len(Top.rest) : Top.rest[x] = nm[n][k + x]
  BY HereIs
<1>2. /\ Len(new) = Len(Top.rest) - 1 /\ Len(Top.rest) \in Nat \ {0}
      /\ \A x \in 1..Len(new) : new[x] = Top.rest[x + 1]
      /\ Top.rest[1] = Head(Top.rest)
  BY TakenIs DEF NamesTyped
<1>3. Behind(Top.rest, nm[n])
  BY <1>1 DEF Road
<1> DEFINE rest == Top.rest
           name == nm[n]
<1>4. Behind(new, name) /\ Len(name) - Len(rest) + 1 \in 1..Len(name)
      /\ rest[1] = name[Len(name) - Len(rest) + 1]
  <2> HIDE DEF new, rest, name
  <2>1. Len(name) \in Nat /\ Len(rest) \in Nat \ {0} /\ Len(new) = Len(rest) - 1
        /\ (\A x \in 1..Len(new) : new[x] = rest[x + 1]) /\ Behind(rest, name)
    BY <1>1, <1>2, <1>3 DEF rest, name
  <2>2. QED
    BY <2>1, BehindOn, SMTT(60)
<1>5. Walk(LinkEnds[MaxNesting - n + 1], st[n], nm[n], Mood(n))[k + 1]
        = Onward(LinkEnds[MaxNesting - n + 1],
                 Walk(LinkEnds[MaxNesting - n + 1], st[n], nm[n], Mood(n))[(k + 1) - 1],
                 nm[n], k + 1, Mood(n))
  <2> DEFINE links == LinkEnds[MaxNesting - n + 1]
             at == st[n]
             mode == Mood(n)
             j == k + 1
  <2>1. j \in 1..Len(name) /\ Len(name) \in Nat
    BY <1>1, <1>4
  <2> HIDE DEF links, at, mode, name, j
  <2>2. Walk(links, at, name, mode)[j]
          = Onward(links, Walk(links, at, name, mode)[j - 1], name, j, mode)
    BY <2>1, FarsExist
  <2>3. QED
    BY <2>2 DEF links, at, mode, name, j
<1>6. (k + 1) - 1 = k /\ k + 1 \in 0..Len(nm[n]) /\ Len(rest) = Len(name) - k
      /\ Len(name) - Len(new) = k + 1
  <2> DEFINE a == Len(name)
             b == Len(rest)
             c == Len(new)
  <2>1. a \in Nat /\ b \in Nat /\ c = b - 1 /\ a - b + 1 \in 1..a
    BY <1>1, <1>2, <1>4
  <2>2. k = a - b
    OBVIOUS
  <2> HIDE DEF a, b, c, k
  <2>3. (k + 1) - 1 = k /\ k + 1 \in 0..a /\ b = a - k /\ a - c = k + 1
    BY <2>1, <2>2
  <2>4. QED
    BY <2>3 DEF a, b, c
<1>7. QED
  BY <1>1, <1>2, <1>4, <1>5, <1>6 DEF Far

(* A component that is empty leads nowhere else.                           *)
LEMMA NextEmptyOnRoad ==
  ASSUME NamesIInv, OnRoad, NextEmpty
  PROVE  OnRoad'
<1> DEFINE n == Len(frames)
<1>1. /\ stage = "name" /\ Top.rest # <<>> /\ Head(Top.rest) = Blank /\ Taken /\ stage' = "stat"
      /\ world' = world /\ use' = use /\ asked' = asked /\ objkey' = objkey /\ dirkey' = dirkey
  BY DEF NextEmpty, Strsep, Taken
<1>2. NamesTyped /\ frames # <<>> /\ frames \in Seq(Frames) /\ objkey \in Ids
  BY <1>1 DEF NamesIInv, NamesTyped, Walking, OnRoad
<1>3. Meant' = Meant /\ Ids' = Ids /\ Links' = Links
  BY <1>1, SameMeant, SameMeaning, SameWorld
<1>4. ASSUME Meant # Unclear  PROVE \E nm, st : Road(nm, st)'
  <2>1. PICK nm, st : Road(nm, st)
    BY <1>1, <1>4 DEF OnRoad, Walking, Roads
  <2> DEFINE k == Len(nm[n]) - Len(Top.rest)
             fars == Far(nm, st, n)
  <2>2. /\ nm[n][k + 1] = Blank /\ Behind(frames'[n].rest, nm[n])
        /\ Len(nm[n]) - Len(frames'[n].rest) = k + 1
        /\ fars[k + 1] = Onward(LinkEnds[MaxNesting - n + 1], fars[k], nm[n], k + 1, Mood(n))
        /\ Here(nm, st, n) = fars[k]
    BY <1>1, <1>2, <2>1, NextIs
  <2>3. fars[k + 1] = fars[k]
    BY <2>2 DEF Onward
  <2>4. fars[k] = objkey /\ objkey \notin Links
    <3>1. At(Here(nm, st, n))
      BY <1>2, <2>1, HereIs
    <3>2. QED
      BY <1>1, <2>2, <3>1 DEF At, Kept
  <2>5. PICK far : far = fars[k + 1]
    OBVIOUS
  <2>6. At(far)'
    BY <1>1, <1>3, <2>3, <2>4, <2>5 DEF At
  <2>7. /\ Len(frames') = n /\ \A i \in 1..n : i # n => frames'[i] = frames[i]
        /\ \A i \in 1..n : frames'[i].as_link = frames[i].as_link
    BY <1>1, <1>2, TakenIs
  <2>8. far = Far(nm, st, n)[Len(nm[n]) - Len(frames'[n].rest)]
    BY <2>2, <2>5
  <2>9. Road(nm, st)'
    BY <1>1, <1>2, <2>1, <2>2, <2>6, <2>7, <2>8, RoadOn
  <2>10. QED
    BY <2>9
<1>5. Roads'
  BY <1>3, <1>4 DEF Roads, Unclear
<1>6. QED
  BY <1>1, <1>2, <1>3, <1>5 DEF OnRoad

(* What is dead is refused.                                                *)
LEMMA DeadIsClosed ==
  ASSUME NEW obj, Dead(obj)
  PROVE  ~Opens(obj)
  BY DEF Dead, Opens, Accepted

(* Where a component leads that is not empty.                              *)
LEMMA NextLeads ==
  ASSUME NamesIInv, OnRoad, stage = "name", Top.rest # <<>>, NEW nm, NEW st, Road(nm, st)
  PROVE  LET n == Len(frames)
             k == Len(nm[n]) - Len(Top.rest)
         IN  Here(nm, st, n) = objkey /\ objkey \notin Links /\ objkey \notin {None, Unclear}
             /\ dirkey = objkey /\ objkey \in Ids /\ objkey \in Nat /\ world \in Worlds
<1>1. NamesTyped /\ frames # <<>> /\ objkey \in Nat /\ world \in Worlds /\ dirkey = objkey /\ objkey \in Ids
  BY DEF NamesIInv, NamesTyped, Walking, OnRoad
<1>2. At(Here(nm, st, Len(frames)))
  BY <1>1, HereIs
<1>3. objkey \notin {None, Unclear}
  BY <1>1, NoneIsDead
<1>4. QED
  BY <1>1, <1>2, <1>3 DEF At, Kept

(* An entry is found, and it is the one with the name.                     *)
LEMMA NextNameOnRoad ==
  ASSUME NamesIInv, OnRoad, NextName
  PROVE  OnRoad'
<1> DEFINE n == Len(frames)
           name == Head(Top.rest)
           named == {e \in EntriesOf(objkey) : e.name = name}
           alike == {e \in EntriesOf(objkey) : e.off = HashValue(name)}
<1>1. /\ stage = "name" /\ Top.rest # <<>> /\ name # Blank
      /\ world' = world /\ use' = use /\ asked' = asked /\ dirkey' = dirkey /\ unread' = unread
      /\ \/ /\ Taken /\ stage' = "stat"
            /\ \E e \in EntriesOf(objkey) : e.off = HashValue(name) /\ objkey' = e.obj
         \/ alike = {} /\ Fail /\ objkey' = objkey
  BY NextNameIs DEF NamesIInv
<1>2. /\ NamesTyped /\ frames # <<>> /\ frames \in Seq(Frames) /\ use \in Uses
      /\ objkey \in Ids /\ objkey \in Nat /\ dirkey = objkey /\ world \in Worlds
  BY <1>1 DEF NamesIInv, NamesTyped, Walking, OnRoad
<1>3. Meant' = Meant /\ Opens(Meant)' = Opens(Meant) /\ Ids' = Ids /\ Links' = Links
      /\ LinkEnds' = LinkEnds /\ \A obj : TextNear(obj)' = TextNear(obj)
  BY <1>1, SameMeant, SameMeaning, SameWorld
<1>4. ASSUME Meant # Unclear, NEW nm, NEW st, Road(nm, st), NEW k, k = Len(nm[n]) - Len(Top.rest)
      PROVE  /\ named = alike /\ k + 1 \in 0..Len(nm[n])
             /\ alike = {} => Dead(Meant)
             /\ \A e \in alike :
                  Far(nm, st, n)[k + 1] =
                    IF e.obj \notin Links \/ (Mood(n) = "link" /\ k + 1 = Len(nm[n])) THEN e.obj
                    ELSE IF (Mood(n) \in {"link", "text"} /\ k + 1 >= Len(nm[n]) - 1) \/ ~TextNear(e.obj)
                         THEN Unclear
                    ELSE LinkEnds[MaxNesting - n + 1][<<objkey, e.obj>>]
  <2> DEFINE fars == Far(nm, st, n)
             links == LinkEnds[MaxNesting - n + 1]
             mode == Mood(n)
             text == nm[n]
             next == IF named = {} THEN None ELSE (CHOOSE e \in named : TRUE).obj
             last == mode \in {"link", "text"} /\ k + 1 >= Len(text) - 1
             kept == mode = "link" /\ k + 1 = Len(text)
  <2>1. fars[k] = objkey /\ objkey \notin {None, Unclear}
    <3>1. Here(nm, st, n) = objkey /\ objkey \notin {None, Unclear}
      BY <1>1, <1>4, NextLeads
    <3>2. Here(nm, st, n) = Far(nm, st, n)[Len(nm[n]) - Len(Top.rest)]
      BY <1>2, <1>4, HereIs
    <3>3. QED
      BY <1>4, <3>1, <3>2
  <2>2. frames' = frames' /\ k + 1 \in 0..Len(nm[n]) /\ nm[n][k + 1] = name
        /\ fars[k + 1] = Onward(links, fars[k], text, k + 1, mode)
    <3>1. /\ n \in Nat \ {0} /\ text \in Seq(Components) /\ Top = frames[n] /\ Top \in Frames
          /\ Top.rest \in Seq(Components) /\ Len(Top.rest) \in Nat /\ Len(text) \in Nat
          /\ k \in 0..Len(text)
          /\ \A x \in 1..Len(Top.rest) : Top.rest[x] = text[k + x]
      BY <1>2, <1>4, HereIs
    <3> DEFINE rest == Top.rest
               at == st[n]
    <3>2. rest \in Seq(Components) /\ rest # <<>> /\ Len(rest) \in Nat
      BY <1>1, <3>1
    <3>3. k = Len(text) - Len(rest)
      BY <1>4
    <3> HIDE DEF rest, text, links, mode, at
    <3>4. Len(rest) >= 1 /\ rest[1] = Head(rest)
      BY <3>2
    <3>5. k + 1 \in 1..Len(text) /\ (k + 1) - 1 = k /\ k + 1 \in 0..Len(text)
      BY <3>1, <3>2, <3>3, <3>4
    <3>6. text[k + 1] = name
      BY <3>1, <3>4 DEF rest
    <3>7. Walk(links, at, text, mode)[k + 1]
            = Onward(links, Walk(links, at, text, mode)[(k + 1) - 1], text, k + 1, mode)
      BY <3>1, <3>5, FarsExist
    <3>8. fars = Walk(links, at, text, mode)
      BY DEF Far, links, at, text, mode
    <3>9. QED
      BY <3>5, <3>6, <3>7, <3>8 DEF text
  <2>3. fars[k + 1] = IF named # alike THEN Unclear
                      ELSE IF next \notin Links \/ kept THEN next
                      ELSE IF last \/ ~TextNear(next) THEN Unclear
                      ELSE links[<<objkey, next>>]
    <3> HIDE DEF fars, links, mode, n
    <3>1. fars[k + 1] = Onward(links, objkey, text, k + 1, mode) /\ text[k + 1] = name
      BY <2>1, <2>2
    <3> HIDE DEF text
    <3>2. QED
      BY <1>1, <2>1, <3>1 DEF Onward
  <2>4. (Dead(fars[k + 1]) => Dead(Meant)) /\ (fars[k + 1] = Unclear => Meant = Unclear)
    BY <1>2, <1>4, <2>2, HereDead
  <2> HIDE DEF fars, links
  <2>5. named = alike
    BY <1>4, <2>3, <2>4
  <2>6. ASSUME alike = {}  PROVE Dead(Meant)
    <3>1. next = None /\ Dead(None) /\ None \notin Nat
      BY <1>2, <2>5, <2>6, NoneIsDead
    <3>2. None \notin Links
      BY <1>2, <3>1, LinkIs
    <3> HIDE DEF next
    <3>3. QED
      BY <2>3, <2>4, <2>5, <3>1, <3>2
  <2>7. ASSUME NEW e \in alike  PROVE next = e.obj
    <3>1. \A f \in named : f = e
      <4> SUFFICES ASSUME NEW f \in named  PROVE f = e
        OBVIOUS
      <4>1. e \in EntriesOf(objkey) /\ f \in EntriesOf(objkey) /\ e.name = f.name
        BY <2>5, <2>7
      <4>2. QED
        BY <1>2, <4>1, EntryIs
    <3>2. e \in named
      BY <2>5, <2>7
    <3>3. QED
      BY <3>1, <3>2
  <2> HIDE DEF next, named, alike, n, mode
  <2>8. ASSUME NEW e \in alike
        PROVE  fars[k + 1] = IF e.obj \notin Links \/ kept THEN e.obj
                             ELSE IF last \/ ~TextNear(e.obj) THEN Unclear
                             ELSE links[<<objkey, e.obj>>]
    BY <2>3, <2>5, <2>7, <2>8
  <2>9. QED
    BY <2>2, <2>5, <2>6, <2>8 DEF fars, links, mode
<1>5. CASE alike = {} /\ Fail
  <2>1. ASSUME Meant # Unclear  PROVE ~Opens(Meant)
    <3>1. PICK nm, st : Road(nm, st)
      BY <1>1, <2>1 DEF OnRoad, Walking, Roads
    <3>2. Dead(Meant)
      BY <1>4, <1>5, <2>1, <3>1
    <3>3. QED
      BY <3>2, DeadIsClosed
  <2>2. ~Opens(Unclear)
    BY <1>2, NoneIsDead, DeadIsClosed
  <2>3. ~Opens(Meant)
    BY <2>1, <2>2
  <2>4. QED
    BY <1>3, <1>5, <2>3 DEF OnRoad, Fail, Walking
<1>6. ASSUME Taken, stage' = "stat", NEW e \in alike, objkey' = e.obj
      PROVE  OnRoad'
  <2>1. objkey' \in Ids
    <3>1. e \in AllEntries
      BY <1>2, <1>6, EntryIs
    <3>2. QED
      BY <1>6, <3>1 DEF Ids
  <2>2. ASSUME Meant # Unclear  PROVE \E nm, st : Road(nm, st)'
    <3>1. PICK nm, st : Road(nm, st)
      BY <1>1, <2>2 DEF OnRoad, Walking, Roads
    <3>2. PICK k : k = Len(nm[n]) - Len(Top.rest)
      OBVIOUS
    <3>3. PICK far : far = Far(nm, st, n)[k + 1]
      OBVIOUS
    <3>4. /\ Behind(frames'[n].rest, nm[n])
          /\ Len(nm[n]) - Len(frames'[n].rest) = k + 1
      BY <1>1, <1>2, <1>6, <3>1, <3>2, NextIs
    <3>5. /\ n \in Nat \ {0} /\ Len(nm[n]) \in Nat /\ Top = frames[n]
          /\ Top.as_link <=> (n > 1 \/ use = "link")
          /\ objkey \notin Links
      BY <1>1, <1>2, <3>1, HereIs, NextLeads
    <3>6. /\ Len(frames') = n /\ \A i \in 1..n : i # n => frames'[i] = frames[i]
          /\ \A i \in 1..n : frames'[i].as_link = frames[i].as_link
          /\ frames'[n].named /\ frames'[n].rest \in Seq(Components)
      BY <1>1, <1>2, <1>6, TakenIs
    <3> DEFINE new == frames'[n].rest
               m == Len(nm[n])
    <3>7. Top' = frames'[n] /\ Top'.as_link = Top.as_link
      BY <3>5, <3>6 DEF Top
    <3>8. Len(new) \in Nat /\ (new = <<>> <=> Len(new) = 0) /\ (Len(new) <= 1 <=> k + 1 >= m - 1)
          /\ (Len(new) = 0 <=> k + 1 = m)
      <4> DEFINE s == new
      <4>1. s \in Seq(Components) /\ m - Len(s) = k + 1 /\ m \in Nat
        BY <3>4, <3>5, <3>6
      <4>2. k + 1 \in 0..m
        BY <1>4, <2>2, <3>1, <3>2
      <4> HIDE DEF s, m
      <4>3. Len(s) \in Nat /\ (s = <<>> <=> Len(s) = 0)
        BY <4>1
      <4>4. Len(s) = m - (k + 1)
        BY <4>1, <4>2, <4>3
      <4>5. (Len(s) <= 1 <=> k + 1 >= m - 1) /\ (Len(s) = 0 <=> k + 1 = m)
        BY <4>1, <4>2, <4>3, <4>4
      <4>6. QED
        BY <4>3, <4>5 DEF s
    <3> HIDE DEF m
    <3>9. /\ Mood(n) = "link" <=> (n = 1 /\ use = "link")
          /\ Mood(n) \in {"link", "text"} <=> Top'.as_link
      <4>1. CASE n = 1
        <5>1. Mood(n) = use /\ (Top.as_link <=> use = "link")
          BY <3>5, <4>1 DEF Mood
        <5>2. use \in {"file", "link", "dir"}
          BY <1>2 DEF Uses
        <5>3. QED
          BY <3>7, <4>1, <5>1, <5>2
      <4>2. CASE n # 1
        <5>1. Mood(n) = "text"
          BY <4>2 DEF Mood
        <5>2. n \in Nat \ {0}
          BY <3>5
        <5> HIDE DEF n
        <5>3. n > 1
          BY <4>2, <5>2
        <5>4. QED
          BY <3>5, <3>7, <4>2, <5>1, <5>3
      <4>3. QED
        BY <4>1, <4>2
    <3>10. far = IF objkey' \notin Links \/ (Mood(n) = "link" /\ k + 1 = m) THEN objkey'
                 ELSE IF (Mood(n) \in {"link", "text"} /\ k + 1 >= m - 1) \/ ~TextNear(objkey')
                      THEN Unclear
                 ELSE LinkEnds[MaxNesting - n + 1][<<objkey, objkey'>>]
      BY <1>4, <1>6, <2>2, <3>1, <3>2, <3>3, ZenonT(40) DEF m
    <3>11. far # Unclear
      <4>1. k + 1 \in 0..Len(nm[n])
        BY <1>4, <2>2, <3>1, <3>2
      <4>2. QED
        BY <1>2, <2>2, <3>1, <3>3, <4>1, HereDead
    <3>12. Kept' <=> (n = 1 /\ use = "link" /\ k + 1 = m)
      BY <1>1, <3>6, <3>7, <3>8 DEF Kept
    <3>13. Top'.named /\ Top'.rest = new
      BY <3>6, <3>7
    <3> HIDE DEF new
    <3>14. (far = objkey' /\ (objkey' \notin Links \/ (Kept' /\ Top'.named))) \/ ByLink(far)'
      <4>1. CASE objkey' \notin Links \/ (Mood(n) = "link" /\ k + 1 = m)
        BY <3>9, <3>10, <3>12, <3>13, <4>1
      <4>2. CASE ~(objkey' \notin Links \/ (Mood(n) = "link" /\ k + 1 = m))
        <5>1. /\ objkey' \in Links /\ ~(Mood(n) \in {"link", "text"} /\ k + 1 >= m - 1)
              /\ TextNear(objkey') /\ far = LinkEnds[MaxNesting - n + 1][<<objkey, objkey'>>]
          BY <3>10, <3>11, <4>2
        <5>2. ~(Top'.as_link /\ Len(Top'.rest) <= 1)
          BY <3>8, <3>9, <3>13, <5>1
        <5>3. TextNear(objkey)'
          BY <1>3, <5>1
        <5>4. ByLink(far)'
          BY <1>1, <1>2, <1>3, <3>5, <3>6, <5>1, <5>2, <5>3 DEF ByLink
        <5>5. QED
          BY <5>4
      <4>3. QED
        BY <4>1, <4>2
    <3>15. At(far)'
      BY <1>3, <1>6, <3>14 DEF At
    <3>16. Road(nm, st)'
      BY <1>1, <1>2, <3>1, <3>2, <3>3, <3>4, <3>6, <3>15, RoadOn
    <3>17. QED
      BY <3>16
  <2>3. Roads'
    BY <1>3, <2>2 DEF Roads, Unclear
  <2>4. QED
    BY <1>1, <1>2, <1>3, <1>6, <2>1, <2>3 DEF OnRoad
<1>7. QED
  BY <1>1, <1>5, <1>6

(* The search begins at the root.                                          *)
LEMMA CreateOnRoad ==
  ASSUME NamesIInv, NEW name \in Names, NEW how \in Uses, ObjectCreate(name, how)
  PROVE  OnRoad'
<1> DEFINE full == AbsoluteName(name)
           frame == [rest |-> full, named |-> FALSE, as_link |-> how = "link"]
<1>1. /\ stage' = "stat" /\ use' = how /\ asked' = full /\ frames' = <<frame>>
      /\ objkey' = Root /\ world' = world
  BY DEF ObjectCreate, Frame
<1>2. full \in Seq(Components) /\ world \in Worlds
  BY AbsoluteIs DEF NamesIInv, NamesTyped
<1>3. Root \in Ids' /\ Root \notin Links'
  <2>1. PICK stat : IsStat(stat, Root) /\ stat.mode = "dir"
    BY <1>2, RootIs
  <2>2. ModeOf(Root) = "dir"
    BY <1>2, <2>1, ModeIs
  <2>3. Root \notin Links
    BY <2>2 DEF Links
  <2>4. QED
    BY <1>1, <2>3, SameWorld DEF Ids
<1>4. PICK nm, st, n : nm = <<asked'>> /\ st = <<Root>> /\ n = Len(frames')
  OBVIOUS
<1>5. n = 1 /\ frames'[1] = frame /\ nm[1] = asked' /\ st[1] = Root /\ 1..1 = {1}
  BY <1>1, <1>4
<1>6. frame.rest = asked' /\ (frame.as_link <=> use' = "link") /\ Len(asked') \in Nat
  <2>1. frame.rest = full /\ frame.as_link = (how = "link")
    OBVIOUS
  <2>2. Len(full) \in Nat
    <3> HIDE DEF full
    <3>1. QED
      BY <1>2
  <2> HIDE DEF frame, full
  <2>3. QED
    BY <1>1, <2>1, <2>2
<1> HIDE DEF frame, full
<1>7. nm \in [1..n -> Seq(Components)] /\ st \in [1..n -> Ids']
  BY <1>1, <1>2, <1>3, <1>4, <1>5
<1>8. Behind(frames'[1].rest, nm[1])
  <2> DEFINE a == asked'
  <2>1. Len(a) \in Nat
    BY <1>6
  <2> HIDE DEF a
  <2>2. Behind(a, a)
    BY <2>1 DEF Behind
  <2>3. QED
    BY <1>5, <1>6, <2>2 DEF a
<1>9. PICK far : far = Here(nm, st, n)'
  OBVIOUS
<1>10. far = Root
  <2> DEFINE a == asked'
             links == LinkEnds'[MaxNesting - n + 1]
             mode == IF n = 1 THEN use' ELSE "text"
  <2>1. far = Far(nm, st, n)'[Len(nm[n]) - Len(frames'[n].rest)]
    BY <1>9 DEF Here
  <2>2. Far(nm, st, n)' = Walk(links, st[n], nm[n], mode)
    <3>1. PICK ends, how1 : ends = LinkEnds' /\ how1 = use'
      OBVIOUS
    <3>2. Far(nm, st, n)' = Walk(ends[MaxNesting - n + 1], st[n], nm[n], IF n = 1 THEN how1 ELSE "text")'
      BY <3>1 DEF Far, Mood
    <3>3. QED
      BY <1>1, <3>1, <3>2, SameMeaning
  <2>3. Len(nm[n]) - Len(frames'[n].rest) = 0
    <3>1. Len(nm[n]) = Len(a) /\ Len(frames'[n].rest) = Len(a) /\ Len(a) \in Nat
      BY <1>5, <1>6
    <3> HIDE DEF a
    <3>2. QED
      BY <3>1
  <2> HIDE DEF links, mode
  <2>4. Walk(links, st[n], nm[n], mode)[0] = st[n]
    <3>1. Len(nm[n]) \in Nat
      BY <1>5, <1>6
    <3>2. QED
      BY <3>1, FarsExist
  <2>5. QED
    BY <1>5, <2>1, <2>2, <2>3, <2>4
<1>11. At(far)'
  BY <1>1, <1>3, <1>10 DEF At
<1>12. Road(nm, st)'
  <2>1. At(Here(nm, st, Len(frames)))'
    BY <1>4, <1>9, <1>11 DEF At, ByLink
  <2>2. \A i \in 1..n : Behind(frames[i].rest, nm[i])'
    BY <1>5, <1>8 DEF Behind
  <2>3. \A i \in 1..n : frames'[i].as_link <=> (i > 1 \/ use' = "link")
    BY <1>5, <1>6
  <2>4. 1..(n - 1) = {}
    BY <1>5
  <2>5. Road(nm, st)' <=>
          LET m == Len(frames')
          IN  /\ nm \in [1..m -> Seq(Components)] /\ st \in [1..m -> Ids'] /\ nm[1] = asked' /\ st[1] = Root
              /\ \A i \in 1..m : Behind(frames[i].rest, nm[i])'
              /\ \A i \in 1..m : frames'[i].as_link <=> (i > 1 \/ use' = "link")
              /\ \A i \in 1..(m - 1) : Here(nm, st, i)' = End(nm, st, i + 1)'
              /\ At(Here(nm, st, Len(frames)))'
    BY DEF Road
  <2>6. QED
    BY <1>4, <1>5, <1>7, <2>1, <2>2, <2>3, <2>4, <2>5
<1>13. Roads'
  BY <1>12 DEF Roads
<1>14. QED
  BY <1>1, <1>3, <1>13 DEF OnRoad

(* What the last call found is what it was called for.                     *)
LEMMA ReturnOnRoad ==
  ASSUME NamesIInv, OnRoad, Return
  PROVE  OnRoad'
<1> DEFINE n == Len(frames)
<1>1. /\ stage = "name" /\ Top.rest = <<>> /\ stage' = (IF n = 1 THEN "end" ELSE "name")
      /\ frames' = Front(frames) /\ dirkey' = objkey
      /\ world' = world /\ use' = use /\ asked' = asked /\ objkey' = objkey
  BY DEF Return
<1>2. /\ NamesTyped /\ frames # <<>> /\ frames \in Seq(Frames) /\ n \in Nat \ {0}
      /\ objkey \in Ids /\ world \in Worlds
  BY <1>1 DEF NamesIInv, NamesTyped, Walking, OnRoad
<1>3. Meant' = Meant /\ Ids' = Ids /\ Links' = Links
      /\ \A nm, st, i : Far(nm, st, i)' = Far(nm, st, i)
  BY <1>1, SameMeant, SameMeaning, SameWorld
<1>4. ASSUME NEW nm, NEW st, Road(nm, st)
      PROVE  End(nm, st, n) = objkey /\ (objkey \notin Links \/ Kept)
  <2>1. Len(Top.rest) = 0
    BY <1>1
  <2>2. /\ At(Here(nm, st, n)) /\ Len(nm[n]) \in Nat
        /\ Here(nm, st, n) = Far(nm, st, n)[Len(nm[n]) - Len(Top.rest)]
    BY <1>2, <1>4, HereIs
  <2>3. Len(nm[n]) - Len(Top.rest) = Len(nm[n])
    BY <2>1, <2>2
  <2>4. QED
    BY <1>1, <2>2, <2>3 DEF At, End
<1>5. CASE n = 1
  <2>1. ASSUME Meant # Unclear  PROVE objkey = Meant
    <3>1. PICK nm, st : Road(nm, st)
      BY <1>1, <2>1 DEF OnRoad, Walking, Roads
    <3>2. End(nm, st, 1) = Meant
      <4>1. End(nm, st, 1) = Walk(LinkEnds[MaxNesting - 1 + 1], st[1], nm[1], Mood(1))[Len(nm[1])]
        BY DEF End, Far
      <4>2. MaxNesting - 1 + 1 = MaxNesting /\ Mood(1) = use
        BY MaxNestingAssumption DEF Mood
      <4>3. st[1] = Root /\ nm[1] = asked
        BY <3>1 DEF Road
      <4>4. QED
        BY <4>1, <4>2, <4>3 DEF Meant
    <3>3. End(nm, st, n) = objkey
      BY <1>4, <3>1
    <3>4. QED
      BY <1>5, <3>2, <3>3
  <2>2. stage' = "end"
    BY <1>1, <1>5
  <2>3. QED
    BY <1>1, <1>3, <2>1, <2>2 DEF OnRoad, Walking, Unclear
<1>6. CASE n # 1
  <2>1. n >= 2 /\ stage' = "name" /\ n - 1 \in 1..(n - 1) /\ (n - 1) + 1 = n
    <3>1. stage' = "name" /\ n \in Nat \ {0} /\ n # 1
      BY <1>1, <1>2, <1>6
    <3> HIDE DEF n
    <3>2. QED
      BY <3>1
  <2>2. /\ frames' \in Seq(Frames) /\ Len(frames') = n - 1
        /\ \A i \in 1..(n - 1) : frames'[i] = frames[i]
    BY <1>1, <1>2, <2>1, FrontIs
  <2>3. ASSUME Meant # Unclear  PROVE \E nm, st : Road(nm, st)'
    <3>1. PICK nm, st : Road(nm, st)
      BY <1>1, <2>3 DEF OnRoad, Walking, Roads
    <3>2. /\ nm \in [1..n -> Seq(Components)] /\ st \in [1..n -> Ids] /\ nm[1] = asked /\ st[1] = Root
          /\ \A i \in 1..n : Behind(frames[i].rest, nm[i])
          /\ \A i \in 1..n : frames[i].as_link <=> (i > 1 \/ use = "link")
          /\ \A i \in 1..(n - 1) : Here(nm, st, i) = End(nm, st, i + 1)
      BY <3>1 DEF Road
    <3>3. PICK nm1, st1 : /\ nm1 \in [1..(n - 1) -> Seq(Components)] /\ st1 \in [1..(n - 1) -> Ids]
                          /\ \A i \in 1..(n - 1) : nm1[i] = nm[i] /\ st1[i] = st[i]
      <4> DEFINE a == [i \in 1..(n - 1) |-> nm[i]]
                 b == [i \in 1..(n - 1) |-> st[i]]
      <4>1. /\ a \in [1..(n - 1) -> Seq(Components)] /\ b \in [1..(n - 1) -> Ids]
            /\ \A i \in 1..(n - 1) : a[i] = nm[i] /\ b[i] = st[i]
        BY <1>2, <3>2
      <4> HIDE DEF a, b
      <4>2. QED
        BY <4>1
    <3>4. ASSUME NEW i \in 1..(n - 1)
          PROVE  Here(nm1, st1, i)' = Here(nm, st, i) /\ End(nm1, st1, i)' = End(nm, st, i)
      <4>1. frames'[i] = frames[i] /\ nm1[i] = nm[i] /\ st1[i] = st[i]
        BY <2>2, <3>3
      <4>2. Far(nm1, st1, i)' = Far(nm1, st1, i) /\ Far(nm1, st1, i) = Far(nm, st, i)
        BY <1>3, <4>1 DEF Far
      <4>3. QED
        BY <4>1, <4>2 DEF Here, End
    <3>5. ASSUME NEW i \in 1..((n - 1) - 1)
          PROVE  Here(nm1, st1, i)' = End(nm1, st1, i + 1)'
      <4>1. i \in 1..(n - 1) /\ i + 1 \in 1..(n - 1)
        BY <1>2, <3>5
      <4>2. QED
        BY <3>2, <3>4, <4>1
    <3>6. PICK far : far = Here(nm, st, n - 1)
      OBVIOUS
    <3>7. far = objkey /\ objkey \notin Links
      <4>1. far = End(nm, st, n)
        BY <2>1, <3>2, <3>6
      <4>2. ~Kept
        BY <1>6 DEF Kept
      <4>3. QED
        BY <1>4, <3>1, <4>1, <4>2
    <3>8. At(far)'
      BY <1>1, <1>3, <2>1, <3>7 DEF At
    <3>9. At(Here(nm1, st1, Len(frames)))'
      <4>1. Here(nm1, st1, Len(frames))' = far
        BY <2>1, <2>2, <3>4, <3>6
      <4>2. QED
        BY <3>8, <4>1 DEF At, ByLink
    <3>10. \A i \in 1..(n - 1) : Behind(frames[i].rest, nm1[i])'
      <4> SUFFICES ASSUME NEW i \in 1..(n - 1)  PROVE Behind(frames[i].rest, nm1[i])'
        OBVIOUS
      <4>1. i \in 1..n /\ frames'[i] = frames[i] /\ nm1[i] = nm[i]
        BY <1>2, <2>2, <3>3
      <4>2. Behind(frames[i].rest, nm[i])
        BY <3>2, <4>1
      <4>3. QED
        BY <4>1, <4>2 DEF Behind
    <3>11. \A i \in 1..(n - 1) : frames'[i].as_link <=> (i > 1 \/ use' = "link")
      <4> SUFFICES ASSUME NEW i \in 1..(n - 1)  PROVE frames'[i].as_link <=> (i > 1 \/ use' = "link")
        OBVIOUS
      <4>1. i \in 1..n /\ frames'[i] = frames[i]
        BY <1>2, <2>2
      <4>2. QED
        BY <1>1, <3>2, <4>1
    <3>12. nm1[1] = asked' /\ st1[1] = Root
      <4>1. 1 \in 1..(n - 1)
        BY <1>2, <2>1
      <4>2. QED
        BY <1>1, <3>2, <3>3, <4>1
    <3>13. Road(nm1, st1)' <=>
             LET m == Len(frames')
             IN  /\ nm1 \in [1..m -> Seq(Components)] /\ st1 \in [1..m -> Ids']
                 /\ nm1[1] = asked' /\ st1[1] = Root
                 /\ \A i \in 1..m : Behind(frames[i].rest, nm1[i])'
                 /\ \A i \in 1..m : frames'[i].as_link <=> (i > 1 \/ use' = "link")
                 /\ \A i \in 1..(m - 1) : Here(nm1, st1, i)' = End(nm1, st1, i + 1)'
                 /\ At(Here(nm1, st1, Len(frames)))'
      BY DEF Road
    <3> HIDE DEF n
    <3>14. Road(nm1, st1)'
      BY <1>3, <2>2, <3>3, <3>5, <3>9, <3>10, <3>11, <3>12, <3>13
    <3>15. QED
      BY <3>14
  <2>4. Roads'
    BY <1>3, <2>3 DEF Roads, Unclear
  <2>5. QED
    BY <1>1, <1>2, <1>3, <2>1, <2>4 DEF OnRoad
<1>7. QED
  BY <1>5, <1>6

(* The text of a link leads to where the link does.                        *)
LEMMA LinkLeads ==
  ASSUME NamesIInv, OnRoad, stage = "text", HasNext, Meant # Unclear, NEW nm, NEW st, Road(nm, st)
  PROVE  LET d == MaxNesting - Len(frames) + 1
             links == LinkEnds[d - 1]
         IN  /\ ByLink(Here(nm, st, Len(frames)))
             /\ d \in 1..MaxNesting /\ d - 1 = MaxNesting - (Len(frames) + 1) + 1
             /\ Here(nm, st, Len(frames)) =
                  IF Text = <<Blank>> THEN None
                  ELSE Walk(links, IF Text[1] = Blank THEN Root ELSE dirkey, Text, "text")[Len(Text)]
<1> DEFINE n == Len(frames)
           d == MaxNesting - n + 1
           links == LinkEnds[d - 1]
           x == <<dirkey, objkey>>
           far == Here(nm, st, n)
<1>1. /\ NamesTyped /\ frames # <<>> /\ objkey \in Nat /\ world \in Worlds
      /\ objpath = StatPath /\ HasStat /\ Mode = "lnk"
  BY DEF NamesIInv, NamesTyped, Walking, NamesStanding
<1>2. Text = TextOf(objkey)
  BY <1>1, TextIs
<1>3. n \in Nat \ {0} /\ n <= MaxNesting + 1 /\ At(far) /\ (far = Unclear => Meant = Unclear)
  BY <1>1, HereIs DEF NamesTyped
<1>4. ByLink(far) /\ far # Unclear
  BY <1>3 DEF At
<1>5. x \in Ids \X Links /\ far = LinkEnds[d][x]
  BY <1>4 DEF ByLink
<1>6. d \in 0..MaxNesting
  BY <1>3, MaxNestingAssumption
<1>7. d # 0
  <2>1. LinkEnds[0][x] = Unclear
    BY <1>5, DepthsExist
  <2> HIDE DEF x, d, far
  <2>2. QED
    BY <1>4, <1>5, <2>1
<1>8. d \in 1..MaxNesting /\ d - 1 = MaxNesting - (n + 1) + 1
  BY <1>3, <1>6, <1>7, MaxNestingAssumption
<1>9. far = LinkEnd(links, dirkey, Text)
  <2> DEFINE e == d
  <2>1. e \in 1..MaxNesting /\ x \in Ids \X Links /\ far = LinkEnds[e][x]
    BY <1>5, <1>8
  <2>2. x[1] = dirkey /\ x[2] = objkey
    OBVIOUS
  <2> HIDE DEF x, e, far
  <2>3. LinkEnds[e] = [y \in Ids \X Links |-> LinkEnd(LinkEnds[e - 1], y[1], TextOf(y[2]))]
    BY <2>1, DepthsExist
  <2>4. LinkEnds[e][x] = LinkEnd(LinkEnds[e - 1], x[1], TextOf(x[2]))
    BY <2>1, <2>3
  <2>5. QED
    BY <1>2, <2>1, <2>2, <2>4 DEF e
<1> HIDE DEF n, links, far
<1>10. QED
  BY <1>4, <1>8, <1>9 DEF LinkEnd, n, links, far

(* A link is followed to where it leads.                                   *)
LEMMA FollowOnRoad ==
  ASSUME NamesIInv, OnRoad, Follow
  PROVE  OnRoad'
<1> DEFINE n == Len(frames)
           frame == [rest |-> Text, named |-> FALSE, as_link |-> TRUE]
<1>1. /\ stage = "text" /\ HasNext /\ Text # <<Blank>>
      /\ objkey' = (IF Text[1] = Blank THEN Root ELSE dirkey)
      /\ \/ stage' = "stat" /\ frames' = Append(frames, frame)
         \/ stage' = "overflow"
      /\ world' = world /\ use' = use /\ asked' = asked /\ dirkey' = dirkey
  BY DEF Follow, Frame
<1>2. /\ NamesTyped /\ frames # <<>> /\ frames \in Seq(Frames) /\ n \in Nat \ {0}
      /\ objkey \in Nat /\ world \in Worlds
  BY <1>1 DEF NamesIInv, NamesTyped, Walking
<1>3. /\ Meant' = Meant /\ Ids' = Ids /\ Links' = Links /\ LinkEnds' = LinkEnds
      /\ \A nm, st, i : Far(nm, st, i)' = Far(nm, st, i)
  BY <1>1, SameMeant, SameMeaning, SameWorld
<1>4. objpath = StatPath /\ HasStat /\ Mode = "lnk"
  BY <1>1 DEF NamesIInv, NamesStanding
<1>5. objkey \in Links /\ Text = TextOf(objkey) /\ Text \in Seq(Components) /\ Root \notin Links
  <2>1. PICK stat : IsStat(stat, Root) /\ stat.mode = "dir"
    BY <1>2, RootIs
  <2>2. ModeOf(Root) = "dir"
    BY <1>2, <2>1, ModeIs
  <2>3. Root \notin Links
    BY <2>2 DEF Links
  <2>4. QED
    BY <1>1, <1>2, <1>4, <2>3, TextIs, LinkIs
<1>6. objkey' \in Ids /\ dirkey \in Ids
  <2>1. dirkey \in Ids
    BY <1>1, <1>5 DEF OnRoad, Walking
  <2>2. QED
    BY <1>1, <2>1 DEF Ids
<1>7. CASE stage' = "overflow"
  BY <1>7 DEF OnRoad, Walking
<1>8. CASE stage' = "stat" /\ frames' = Append(frames, frame)
  <2> HIDE DEF frame
  <2>1. /\ Len(frames') = n + 1
        /\ frames'[n + 1] = frame /\ \A i \in 1..n : frames'[i] = frames[i]
    <3> DEFINE f == frames
    <3>1. f \in Seq(Frames) /\ frames' = Append(f, frame) /\ n = Len(f)
      BY <1>2, <1>8
    <3> HIDE DEF f, n
    <3>2. QED
      BY <3>1 DEF f
  <2>2. frame.as_link /\ frame.rest = Text
    BY DEF frame
  <2>3. ASSUME Meant # Unclear  PROVE \E nm, st : Road(nm, st)'
    <3>1. PICK nm, st : Road(nm, st)
      BY <1>1, <2>3 DEF OnRoad, Walking, Roads
    <3>2. /\ nm \in [1..n -> Seq(Components)] /\ st \in [1..n -> Ids] /\ nm[1] = asked /\ st[1] = Root
          /\ \A i \in 1..n : Behind(frames[i].rest, nm[i])
          /\ \A i \in 1..n : frames[i].as_link <=> (i > 1 \/ use = "link")
          /\ \A i \in 1..(n - 1) : Here(nm, st, i) = End(nm, st, i + 1)
      BY <3>1 DEF Road
    <3> DEFINE d == MaxNesting - n + 1
               links == LinkEnds[d - 1]
    <3>3. /\ ByLink(Here(nm, st, n)) /\ d - 1 = MaxNesting - (n + 1) + 1
          /\ Here(nm, st, n) = Walk(links, objkey', Text, "text")[Len(Text)]
      BY <1>1, <2>3, <3>1, LinkLeads
    <3>4. objkey' \notin Links
      BY <1>1, <1>5, <3>3 DEF ByLink
    <3>5. PICK nm1, st1, text, obj, j :
               /\ j = n + 1 /\ text = Text /\ obj = objkey'
               /\ nm1 \in [1..(n + 1) -> Seq(Components)] /\ st1 \in [1..(n + 1) -> Ids]
               /\ nm1[n + 1] = text /\ st1[n + 1] = obj
               /\ \A i \in 1..n : nm1[i] = nm[i] /\ st1[i] = st[i]
      <4> DEFINE a == [i \in 1..(n + 1) |-> IF i = n + 1 THEN Text ELSE nm[i]]
                 b == [i \in 1..(n + 1) |-> IF i = n + 1 THEN objkey' ELSE st[i]]
      <4>1. /\ a \in [1..(n + 1) -> Seq(Components)] /\ b \in [1..(n + 1) -> Ids]
            /\ a[n + 1] = Text /\ b[n + 1] = objkey'
            /\ \A i \in 1..n : a[i] = nm[i] /\ b[i] = st[i]
        <5>1. Text \in Seq(Components) /\ objkey' \in Ids /\ n \in Nat \ {0}
          BY <1>2, <1>5, <1>6
        <5> HIDE DEF n
        <5>2. QED
          BY <3>2, <5>1
      <4> HIDE DEF a, b
      <4>2. QED
        BY <4>1
    <3>6. ASSUME NEW i \in 1..n
          PROVE  Here(nm1, st1, i)' = Here(nm, st, i) /\ End(nm1, st1, i)' = End(nm, st, i)
      <4>1. frames'[i] = frames[i] /\ nm1[i] = nm[i] /\ st1[i] = st[i]
        BY <2>1, <3>5
      <4>2. Far(nm1, st1, i)' = Far(nm1, st1, i) /\ Far(nm1, st1, i) = Far(nm, st, i)
        BY <1>3, <4>1 DEF Far
      <4>3. QED
        BY <4>1, <4>2 DEF Here, End
    <3>7. /\ Here(nm1, st1, j)' = Walk(links, obj, text, "text")[0]
          /\ End(nm1, st1, j)' = Here(nm, st, n)
      <4>1. j = n + 1
        BY <3>5
      <4>2. j # 1 /\ nm1[j] = text /\ st1[j] = obj /\ frames'[j].rest = text
        BY <1>2, <2>1, <2>2, <3>5, <4>1
      <4>3. MaxNesting - j + 1 = d - 1
        BY <3>3, <4>1
      <4>4. Far(nm1, st1, j) = Walk(links, obj, text, "text")
        <5>1. Mood(j) = "text"
          BY <4>2 DEF Mood
        <5> HIDE DEF d
        <5>2. QED
          BY <4>2, <4>3, <5>1 DEF Far
      <4>5. Far(nm1, st1, j)' = Walk(links, obj, text, "text")
        BY <1>3, <4>4
      <4>6. Len(text) - Len(text) = 0
        <5>1. Len(text) \in Nat
          BY <1>5, <3>5
        <5>2. QED
          BY <5>1
      <4>7. Here(nm1, st1, j)' = Walk(links, obj, text, "text")[0]
        BY <4>2, <4>5, <4>6 DEF Here
      <4>8. End(nm1, st1, j)' = Walk(links, obj, text, "text")[Len(text)]
        BY <4>2, <4>5 DEF End
      <4>9. Here(nm, st, n) = Walk(links, obj, text, "text")[Len(text)]
        BY <3>3, <3>5
      <4> HIDE DEF links, n
      <4>10. QED
        BY <4>7, <4>8, <4>9
    <3>8. ASSUME NEW i \in 1..n  PROVE Here(nm1, st1, i)' = End(nm1, st1, i + 1)'
      <4>1. CASE i = n
        <5>1. i + 1 = j /\ Here(nm1, st1, i)' = Here(nm, st, i) /\ Here(nm, st, i) = Here(nm, st, n)
          BY <3>5, <3>6, <4>1
        <5> HIDE DEF n
        <5>2. QED
          BY <3>7, <5>1
      <4>2. CASE i # n
        <5>1. i \in 1..(n - 1) /\ i + 1 \in 1..n
          BY <1>2, <4>2
        <5>2. QED
          BY <3>2, <3>6, <5>1
      <4>3. QED
        BY <4>1, <4>2
    <3>9. PICK far : far = Here(nm1, st1, j)'
      OBVIOUS
    <3>10. far = objkey'
      <4>1. Len(text) \in Nat
        BY <1>5, <3>5
      <4> HIDE DEF links
      <4>2. Walk(links, obj, text, "text")[0] = obj
        BY <4>1, FarsExist
      <4>3. QED
        BY <3>5, <3>7, <3>9, <4>2
    <3>11. At(far)'
      BY <1>3, <1>8, <3>4, <3>10 DEF At
    <3>12. At(Here(nm1, st1, Len(frames)))'
      <4>1. Here(nm1, st1, Len(frames))' = far
        <5>1. j = Len(frames')
          BY <2>1, <3>5
        <5>2. QED
          BY <3>9, <5>1 DEF Here, Far, Mood
      <4>2. QED
        BY <3>11, <4>1 DEF At, ByLink
    <3>13. \A i \in 1..(n + 1) : Behind(frames[i].rest, nm1[i])'
      <4> SUFFICES ASSUME NEW i \in 1..(n + 1)  PROVE Behind(frames[i].rest, nm1[i])'
        OBVIOUS
      <4>1. CASE i \in 1..n
        <5>1. frames'[i] = frames[i] /\ nm1[i] = nm[i] /\ Behind(frames[i].rest, nm[i])
          BY <2>1, <3>2, <3>5, <4>1
        <5>2. QED
          BY <5>1 DEF Behind
      <4>2. CASE i = n + 1
        <5>1. frames'[i].rest = text /\ nm1[i] = text
          BY <2>1, <2>2, <3>5, <4>2
        <5>2. Len(text) \in Nat
          BY <1>5, <3>5
        <5>3. Behind(text, text)
          BY <5>2 DEF Behind
        <5>4. QED
          BY <5>1, <5>3 DEF Behind
      <4>3. i \in 1..n \/ i = n + 1
        BY <1>2
      <4>4. QED
        BY <4>1, <4>2, <4>3
    <3>14. \A i \in 1..(n + 1) : frames'[i].as_link <=> (i > 1 \/ use' = "link")
      <4> SUFFICES ASSUME NEW i \in 1..(n + 1)  PROVE frames'[i].as_link <=> (i > 1 \/ use' = "link")
        OBVIOUS
      <4>1. CASE i \in 1..n
        <5>1. frames'[i] = frames[i]
          BY <2>1, <4>1
        <5>2. QED
          BY <1>1, <3>2, <4>1, <5>1
      <4>2. CASE i = n + 1
        <5>1. i > 1
          BY <1>2, <4>2
        <5>2. QED
          BY <2>1, <2>2, <4>2, <5>1
      <4>3. i \in 1..n \/ i = n + 1
        BY <1>2
      <4>4. QED
        BY <4>1, <4>2, <4>3
    <3>15. nm1[1] = asked' /\ st1[1] = Root
      <4>1. 1 \in 1..n
        BY <1>2
      <4>2. QED
        BY <1>1, <3>2, <3>5, <4>1
    <3>16. Road(nm1, st1)' <=>
             LET m == Len(frames')
             IN  /\ nm1 \in [1..m -> Seq(Components)] /\ st1 \in [1..m -> Ids']
                 /\ nm1[1] = asked' /\ st1[1] = Root
                 /\ \A i \in 1..m : Behind(frames[i].rest, nm1[i])'
                 /\ \A i \in 1..m : frames'[i].as_link <=> (i > 1 \/ use' = "link")
                 /\ \A i \in 1..(m - 1) : Here(nm1, st1, i)' = End(nm1, st1, i + 1)'
                 /\ At(Here(nm1, st1, Len(frames)))'
      BY DEF Road
    <3>17. (n + 1) - 1 = n
      BY <1>2
    <3> HIDE DEF n
    <3>18. Road(nm1, st1)'
      BY <1>3, <2>1, <3>5, <3>8, <3>12, <3>13, <3>14, <3>15, <3>16, <3>17
    <3>19. QED
      BY <3>18
  <2>4. Roads'
    BY <1>3, <2>3 DEF Roads, Unclear
  <2>5. QED
    BY <1>1, <1>3, <1>6, <1>8, <2>4 DEF OnRoad
<1>9. QED
  BY <1>1, <1>7, <1>8

(* A read that failed leaves nothing to be said.                           *)
LEMMA UnreadOnRoad ==
  ASSUME unread' = TRUE, stage' \in {"failed", "astray"}
  PROVE  OnRoad'
  BY DEF OnRoad, Walking

(* What is refused is no object, or nothing that can be opened, and        *)
(* without reads that fail the search goes astray on a text that is not    *)
(* next to its stat only.                                                  *)
LEMMA RefusalsOnRoad ==
  ASSUME NamesIInv, OnRoad, NoObject \/ NoText \/ TextElsewhere
  PROVE  OnRoad'
<1>1. /\ world' = world /\ use' = use /\ asked' = asked /\ stage' \in {"failed", "astray"}
      /\ stage' = "astray" => TextElsewhere
  BY DEF NoObject, NoText, TextElsewhere, Fail
<1>2. /\ NamesTyped /\ frames # <<>> /\ objkey \in Nat /\ world \in Worlds
      /\ Walking /\ Roads /\ ~Opens(Unclear)
  <2>1. Walking
    BY DEF NoObject, NoText, TextElsewhere, Walking
  <2>2. /\ NamesTyped /\ frames # <<>> /\ objkey \in Nat /\ world \in Worlds /\ Roads
    BY <2>1 DEF NamesIInv, NamesTyped, OnRoad
  <2>3. QED
    BY <2>1, <2>2, NoneIsDead, DeadIsClosed
<1>3. Meant' = Meant /\ Opens(Meant)' = Opens(Meant)
  BY <1>1, SameMeant
<1>4. ASSUME Meant # Unclear, NoObject  PROVE Dead(Meant)
  <2>1. stage = "stat" /\ (HasStat => Mode \notin {"dir", "reg", "lnk"})
    BY <1>4 DEF NoObject
  <2>2. Dead(objkey)
    <3>1. CASE HasStat
      BY <1>2, <2>1, <3>1, StatIs DEF Dead
    <3>2. CASE ~HasStat
      <4>1. ModeOf(objkey) = "gone"
        BY <1>2, <3>2, StatIs, ModeIs
      <4>2. QED
        BY <4>1 DEF Dead
    <3>3. QED
      BY <3>1, <3>2
  <2>3. PICK nm, st : Road(nm, st)
    BY <1>2, <1>4 DEF Roads
  <2>4. /\ At(Here(nm, st, Len(frames)))
        /\ Dead(Here(nm, st, Len(frames))) => Dead(Meant)
    BY <1>2, <2>3, HereIs
  <2>5. objkey \notin Links
    BY <2>2 DEF Dead, Links
  <2>6. Here(nm, st, Len(frames)) = objkey
    BY <2>1, <2>4, <2>5 DEF At, ByLink
  <2>7. QED
    BY <2>2, <2>4, <2>6
<1>5. ASSUME Meant # Unclear, NoText  PROVE Dead(Meant)
  <2>1. stage = "text" /\ HasNext /\ (Leaf(fstree, objpath).items[AfterStat].type # DT \/ Text = <<Blank>>)
    BY <1>5 DEF NoText
  <2>2. objpath = StatPath /\ HasStat /\ Mode = "lnk"
    BY <2>1 DEF NamesIInv, NamesStanding
  <2>3. Text = <<Blank>>
    BY <1>2, <2>1, <2>2, TextIs
  <2>4. PICK nm, st : Road(nm, st)
    BY <1>2, <1>5 DEF Roads
  <2>5. Here(nm, st, Len(frames)) = None
    BY <1>5, <2>1, <2>3, <2>4, LinkLeads
  <2>6. Dead(Here(nm, st, Len(frames)))
    BY <1>2, <2>5, NoneIsDead
  <2>7. QED
    BY <1>2, <2>4, <2>6, HereIs
<1>6. ASSUME Meant # Unclear, TextElsewhere  PROVE FALSE
  <2>1. stage = "text" /\ ~HasNext
    BY <1>6 DEF TextElsewhere
  <2>2. objpath = StatPath /\ HasStat /\ Mode = "lnk"
    BY <2>1 DEF NamesIInv, NamesStanding
  <2>3. ~TextNear(objkey)
    BY <1>2, <2>1, <2>2, TextIs
  <2>4. PICK nm, st : Road(nm, st)
    BY <1>2, <1>6 DEF Roads
  <2>5. At(Here(nm, st, Len(frames)))
    BY <1>2, <2>4, HereIs
  <2>6. QED
    BY <2>1, <2>3, <2>5 DEF At, ByLink
<1>7. ~Opens(Meant)
  BY <1>2, <1>4, <1>5, <1>6, DeadIsClosed
<1>8. stage' = "astray" => Meant = Unclear
  BY <1>1, <1>6
<1>9. QED
  BY <1>1, <1>3, <1>7, <1>8 DEF OnRoad, Walking, Unclear

(* An object without a stat of the kind that was asked for is not opened.  *)
LEMMA FindStatOnRoad ==
  ASSUME NamesIInv, OnRoad, FindStat
  PROVE  OnRoad'
<1>1. /\ stage = "end" /\ stage' = (IF HasStat /\ Mode \in Accepted THEN "kind" ELSE "failed")
      /\ world' = world /\ use' = use /\ asked' = asked /\ objkey' = objkey
  BY DEF FindStat
<1>2. objkey \in Nat /\ world \in Worlds /\ (Meant # Unclear => objkey = Meant)
  BY <1>1 DEF NamesIInv, NamesTyped, OnRoad
<1>3. Meant' = Meant /\ Opens(Meant)' = Opens(Meant)
  BY <1>1, SameMeant
<1>4. ~(HasStat /\ Mode \in Accepted) => ~Opens(objkey)
  <2>1. CASE HasStat
    BY <1>2, <2>1, StatIs DEF Opens
  <2>2. CASE ~HasStat
    <3>1. ModeOf(objkey) = "gone"
      BY <1>2, <2>2, StatIs, ModeIs
    <3>2. QED
      BY <3>1 DEF Opens, Accepted
  <2>3. QED
    BY <2>1, <2>2
<1>5. ~Opens(Unclear)
  BY <1>2, NoneIsDead, DeadIsClosed
<1>6. ~(HasStat /\ Mode \in Accepted) => ~Opens(Meant)
  BY <1>2, <1>4, <1>5
<1>7. CASE HasStat /\ Mode \in Accepted
  <2>1. stage' = "kind"
    BY <1>1, <1>7
  <2>2. QED
    BY <1>1, <1>2, <1>3, <2>1 DEF OnRoad, Walking, Unclear
<1>8. CASE ~(HasStat /\ Mode \in Accepted)
  <2>1. stage' = "failed"
    BY <1>1, <1>8
  <2>2. QED
    BY <1>3, <1>6, <1>8, <2>1 DEF OnRoad, Walking
<1>9. QED
  BY <1>7, <1>8

(* What has its first item is found to have it.                            *)
LEMMA RewindOnRoad ==
  ASSUME NamesIInv, OnRoad, RewindOpened
  PROVE  OnRoad'
<1> DEFINE to == PathTo(fstree, FirstItemKey, fstree.height, 4)
<1>1. /\ stage = "kind" /\ stage' = (IF Found(fstree, to, FirstItemKey, 4) THEN "open" ELSE "failed")
      /\ world' = world /\ use' = use /\ asked' = asked /\ objkey' = objkey
  BY DEF RewindOpened
<1>2. /\ objkey \in Nat /\ world \in Worlds /\ use \in Uses /\ (Meant # Unclear => objkey = Meant)
      /\ objpath = StatPath /\ HasStat /\ Mode \in Accepted
  BY <1>1 DEF NamesIInv, NamesTyped, NamesStanding, OnRoad
<1>3. Meant' = Meant /\ Opens(Meant)' = Opens(Meant)
  BY <1>1, SameMeant
<1>4. ASSUME Opens(objkey)  PROVE Found(fstree, to, FirstItemKey, 4)
  <2> DEFINE stat == ItemAt(fstree, objpath)
  <2>1. IsStat(stat, objkey) /\ stat.mode \in Accepted
    <3>1. IsStat(ItemAt(fstree, StatPath), objkey)
      BY <1>2, StatIs
    <3>2. QED
      BY <1>2, <3>1 DEF Mode
  <2> HIDE DEF stat
  <2>2. PICK item \in Contents : item.obj = objkey /\ item.off = 1
    BY <1>4 DEF Opens, ItemsOf, Contents, Range
  <2>3. Beside(stat, item)
    <3>1. item.type # SD
      <4>1. item.type = SD <=> item.off = 0
        BY <1>2, ObjectItems
      <4>2. item.off # 0
        BY <2>2
      <4>3. QED
        BY <4>1, <4>2
    <3>2. PICK s : IsStat(s, objkey) /\ Beside(s, item)
      BY <1>2, <2>2, <3>1, ObjectItems
    <3>3. s = stat
      BY <1>2, <2>1, <3>2, ModeIs
    <3>4. QED
      BY <3>2, <3>3
  <2>4. item.type = FirstItemKey.type
    <3>1. FirstItemKey.type = IF use = "dir" THEN DR ELSE IF stat.large THEN IT ELSE DT
      BY DEF FirstItemKey, Key, stat
    <3>2. CASE use = "dir"
      BY <2>1, <2>3, <3>1, <3>2 DEF Accepted, Beside
    <3>3. CASE use # "dir"
      BY <2>1, <2>2, <2>3, <3>1, <3>3 DEF Accepted, Beside
    <3>4. QED
      BY <3>2, <3>3
  <2>5. IsKey(FirstItemKey) /\ FirstItemKey.obj = objkey /\ KeyOffset(FirstItemKey) = 1
    BY <1>2 DEF IsKey, FirstItemKey, Key, KeyOffset, SD, DR, IT, DT
  <2>6. IsKey(item) /\ KeyOffset(item) = 1
    BY <1>2, <2>2, ContentsAre
  <2> DEFINE key == FirstItemKey
  <2>7. IsKey(key) /\ key.obj = item.obj /\ KeyOffset(key) = KeyOffset(item) /\ key.type = item.type
    BY <2>2, <2>4, <2>5, <2>6
  <2> HIDE DEF key
  <2>8. Compare(item, key, 4) = 0
    BY <2>6, <2>7, CompareIs
  <2>9. Found(fstree, PathTo(fstree, key, fstree.height, 4), key, 4)
    BY <1>2, <2>2, <2>7, <2>8, FoundIs
  <2>10. QED
    BY <2>9 DEF key
<1>5. ~Opens(Unclear)
  BY <1>2, NoneIsDead, DeadIsClosed
<1>6. CASE Found(fstree, to, FirstItemKey, 4)
  <2>1. stage' = "open"
    BY <1>1, <1>6
  <2> HIDE DEF to
  <2>2. QED
    BY <1>1, <1>2, <1>3, <2>1 DEF OnRoad, Walking, Unclear
<1>7. CASE ~Found(fstree, to, FirstItemKey, 4)
  <2>1. stage' = "failed" /\ ~Opens(objkey)
    BY <1>1, <1>4, <1>7
  <2>2. ~Opens(Meant)
    BY <1>2, <1>5, <2>1
  <2> HIDE DEF to
  <2>3. QED
    BY <1>3, <2>1, <2>2 DEF OnRoad, Walking
<1>8. QED
  BY <1>6, <1>7

(* Every step stays on the road.                                           *)
LEMMA NextOnRoad ==
  ASSUME NamesIInv, OnRoad, [NamesNext]_namesVars
  PROVE  OnRoad'
<1>1. CASE UNCHANGED namesVars
  <2>1. /\ world' = world /\ stage' = stage /\ use' = use /\ asked' = asked /\ frames' = frames
        /\ objkey' = objkey /\ dirkey' = dirkey /\ objpath' = objpath /\ unread' = unread
    BY <1>1 DEF namesVars
  <2>2. Meant' = Meant /\ Opens(Meant)' = Opens(Meant) /\ Ids' = Ids /\ Links' = Links
        /\ LinkEnds' = LinkEnds /\ Top' = Top /\ TextNear(objkey)' = TextNear(objkey)
    BY <2>1, SameMeant, SameMeaning, SameWorld DEF Top, TextNear, fstree
  <2>3. ASSUME Walking, Meant # Unclear  PROVE \E nm, st : Road(nm, st)'
    <3>1. NamesTyped /\ frames # <<>>
      BY <2>3 DEF NamesIInv, NamesTyped
    <3>2. PICK nm, st : Road(nm, st)
      BY <2>3 DEF OnRoad, Roads
    <3>3. PICK far : far = Here(nm, st, Len(frames))
      OBVIOUS
    <3>4. At(far)
      BY <3>1, <3>2, <3>3, HereIs
    <3>5. (ByLink(far)' <=> ByLink(far)) /\ (Kept' <=> Kept)
      BY <2>1, <2>2 DEF ByLink, Kept
    <3>6. At(far)'
      BY <2>1, <2>2, <3>4, <3>5 DEF At
    <3>7. Road(nm, st)'
      BY <2>1, <3>1, <3>2, <3>3, <3>6, RoadSame
    <3>8. QED
      BY <3>7
  <2>4. Walking => Roads'
    BY <2>2, <2>3 DEF Roads, Unclear
  <2>5. QED
    BY <2>1, <2>2, <2>4 DEF OnRoad, Walking, Unclear
<1>2. CASE NamesNext
  <2>1. ASSUME Close  PROVE OnRoad'
    BY <2>1 DEF Close, OnRoad, Walking
  <2>2. ASSUME StatFails \/ NextNameFails \/ RewindFails  PROVE OnRoad'
    BY <2>2, UnreadOnRoad DEF StatFails, NextNameFails, RewindFails, SearchFails, Fail
  <2>3. QED
    BY <1>2, <2>1, <2>2, CreateOnRoad, RefusalsOnRoad, NoLinkOnRoad, IsLinkOnRoad, FollowOnRoad,
       NextEmptyOnRoad, NextNameOnRoad, ReturnOnRoad, FindStatOnRoad, RewindOnRoad
       DEF NamesNext, NamesStep
<1>3. QED
  BY <1>1, <1>2

(* Through every search tree that holds a filesystem, and through links in *)
(* any place: what is opened is the object the name stands for, and a name *)
(* that stands for one is not refused unless a read failed                 *)
(* (object.c:333-448, file.c:44-58, dir.c:58-64).                          *)
THEOREM ResolvesRightHolds == NamesSpec => []ResolvesRight
<1>1. NamesInit => OnRoad
  BY DEF NamesInit, Idle, OnRoad, Walking
<1>2. NamesIInv /\ OnRoad /\ [NamesNext]_namesVars => OnRoad'
  BY NextOnRoad
<1>3. OnRoad => ResolvesRight
  BY DEF OnRoad, ResolvesRight
<1>4. QED
  BY <1>1, <1>2, <1>3, NamesSound, PTL DEF NamesSpec
=============================================================================
