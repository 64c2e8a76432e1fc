------------------------ MODULE JournalDevicesProofs ------------------------
(***************************************************************************)
(* Proofs about JournalLog for rings of every length, whatever the         *)
(* transactions log; and about Devices for any number of devices, names,   *)
(* handles and descriptors, any contents and any block sizes.              *)
(***************************************************************************)
EXTENDS JournalLog, Devices, TLAPS, FiniteSetTheorems, WellFoundedInduction

-----------------------------------------------------------------------------
(* The journal log.                                                        *)
(***************************************************************************)
(* The inductive invariant.                                                *)
(***************************************************************************)
(* How far behind the kernel's next offset a block of the ring lies: the   *)
(* kernel will write the blocks in this order.                             *)
Dist(k) == (k - pos) % JLen

Kinds == {"empty", "desc", "data", "comm"}
Transactions == [id : 1..MaxId, at : Offsets, blocks : Writes]

Typed ==
  /\ log \in [Offsets -> [kind : Kinds, id : 0..MaxId, blocks : Seq(Blocks)]]
  /\ replay \in Offsets /\ pos \in Offsets
  /\ flushed \in 0..MaxId /\ nextId \in 1..(MaxId + 1)
  /\ unflushed \in Seq(Transactions)
  /\ wrapped \in BOOLEAN
  /\ verdict \in {"none", "accepted", "refused", "crashed", "unread"}

(* The transaction described at k is complete: it does not reach over the  *)
(* kernel's next offset, and its blocks and its commit block are there.    *)
Whole(k) ==
  /\ Dist(k) + Extent(log[k].blocks) <= JLen
  /\ \A n \in DOMAIN log[k].blocks :
       log[(k + n) % JLen] = Cell("data", log[k].id, <<log[k].blocks[n]>>)
  /\ log[CommitOffset(k)] = Cell("comm", log[k].id, log[k].blocks)

(* A description belongs to a complete transaction, or to the one the      *)
(* kernel was stopped in, which has no commit block yet.                   *)
Described ==
  \A k \in Offsets : log[k].kind = "desc" =>
    /\ log[k].blocks \in Writes
    /\ IF log[k].id = nextId THEN k = pos ELSE log[k].id < nextId /\ Whole(k)

Committed == \A k \in Offsets : log[k].kind = "comm" => log[k].id < nextId

(* The transactions that are not flushed lie in the ring one after the     *)
(* other, up to the kernel's next offset, and fill what is in use.         *)
Queued ==
  /\ InUse <= JLen
  /\ \A n \in DOMAIN unflushed :
       LET t == unflushed[n] IN
         /\ t.id < nextId
         /\ log[t.at] = Cell("desc", t.id, t.blocks)
         /\ Dist(t.at) >= JLen - InUse
         /\ Dist(t.at) + Extent(t.blocks) <= JLen
         /\ n = 1 => Dist(t.at) = JLen - InUse
         /\ n + 1 \in DOMAIN unflushed =>
              Dist(unflushed[n + 1].at) = Dist(t.at) + Extent(t.blocks)
         /\ \A m \in DOMAIN unflushed : n < m =>
              Dist(t.at) + Extent(t.blocks) <= Dist(unflushed[m].at)
         /\ n + 1 \notin DOMAIN unflushed => Dist(t.at) + Extent(t.blocks) = JLen

(* In the first lap, the unflushed transactions begin at the replay offset *)
(* and no other complete one lies there or further on.                     *)
FirstLap ==
  ~wrapped =>
    /\ replay + InUse = pos
    /\ \A k \in Offsets :
         log[k].kind = "desc" /\ log[k].id # nextId /\ replay <= k =>
           \E n \in DOMAIN unflushed : unflushed[n].at = k

IInv == Typed /\ Described /\ Committed /\ Queued /\ FirstLap

-----------------------------------------------------------------------------
(* A set of natural numbers that is not empty has a least element.         *)
LEMMA Least ==
  ASSUME NEW T, T \subseteq Nat, T # {}
  PROVE  \E m \in T : \A n \in T : m <= n
<1> DEFINE U == {0..n : n \in T}
<1>1. U \subseteq FiniteSubsetsOf(Nat) /\ U # {}
  <2>1. \A n \in T : IsFiniteSet(0..n)
    BY FS_Interval
  <2>2. \A n \in T : 0..n \in SUBSET Nat
    OBVIOUS
  <2>3. QED
    BY <2>1, <2>2 DEF FiniteSubsetsOf
<1>2. PICK u \in U : \A v \in U : <<v, u>> \notin StrictSubsetOrdering(Nat)
  BY <1>1, FS_StrictSubsetOrderingWellFounded, WFMin
<1>3. PICK m \in T : u = 0..m
  OBVIOUS
<1>4. ASSUME NEW n \in T, n < m  PROVE FALSE
  <2>1. 0..n \subseteq 0..m /\ m \in 0..m /\ m \notin 0..n
    BY <1>4
  <2>2. <<0..n, 0..m>> \in StrictSubsetOrdering(Nat)
    BY <2>1 DEF StrictSubsetOrdering
  <2>3. QED
    BY <1>2, <1>3, <2>2
<1>5. QED
  BY <1>4

(* One that is bounded as well has a greatest element.                     *)
LEMMA Greatest ==
  ASSUME NEW top \in Nat, NEW T, T \subseteq 0..top, T # {}
  PROVE  \E m \in T : \A n \in T : n <= m
<1> DEFINE U == {top - n : n \in T}
<1>1. U \subseteq Nat /\ U # {}
  OBVIOUS
<1>2. PICK u \in U : \A v \in U : u <= v
  BY <1>1, Least
<1>3. PICK m \in T : u = top - m
  OBVIOUS
<1>4. \A n \in T : n <= m
  <2> SUFFICES ASSUME NEW n \in T  PROVE n <= m
    OBVIOUS
  <2>1. top - m <= top - n
    BY <1>2, <1>3
  <2>2. QED
    BY <2>1
<1>5. QED
  BY <1>4

(* The remainder of a number that is at most one lap off the ring.         *)
LEMMA OneLap ==
  ASSUME NEW x \in Int, -JLen <= x, x < 2 * JLen
  PROVE  /\ x % JLen \in Offsets
         /\ x % JLen = IF x < 0 THEN x + JLen ELSE IF x < JLen THEN x ELSE x - JLen
<1> DEFINE q == x \div JLen
           r == x % JLen
<1>1. JLen \in Nat \ {0}
  BY LenAssumption
<1>2. q \in Int /\ r \in 0..(JLen - 1) /\ x = JLen * q + r
  BY <1>1
<1> HIDE DEF q, r
<1>3. q >= -1
  <2> SUFFICES ASSUME q <= -2  PROVE FALSE
    BY <1>2
  <2>1. JLen * q <= JLen * (-2)
    BY <1>1, <1>2
  <2>2. QED
    BY <1>1, <1>2, <2>1
<1>4. q <= 1
  <2> SUFFICES ASSUME q >= 2  PROVE FALSE
    BY <1>2
  <2>1. JLen * q >= JLen * 2
    BY <1>1, <1>2
  <2>2. QED
    BY <1>1, <1>2, <2>1
<1>5. q = -1 \/ q = 0 \/ q = 1
  BY <1>2, <1>3, <1>4
<1>6. JLen * (-1) = -JLen /\ JLen * 0 = 0 /\ JLen * 1 = JLen
  BY <1>1
<1>7. x = r - JLen \/ x = r \/ x = r + JLen
  BY <1>1, <1>2, <1>5, <1>6
<1>8. QED
  BY <1>1, <1>2, <1>7 DEF r, Offsets

(* Going i blocks on from k, short of p, brings one i blocks further from p. *)
LEMMA Further ==
  ASSUME NEW p \in Offsets, NEW k \in Offsets, NEW i \in Nat,
         ((k - p) % JLen) + i < JLen
  PROVE  /\ (k + i) % JLen \in Offsets
         /\ (((k + i) % JLen) - p) % JLen = ((k - p) % JLen) + i
<1>1. JLen \in Nat \ {0} /\ p \in 0..(JLen - 1) /\ k \in 0..(JLen - 1)
  BY LenAssumption DEF Offsets
<1>2. k - p \in Int /\ -JLen <= k - p /\ k - p < 2 * JLen
  BY <1>1
<1>3. (k - p) % JLen = IF k - p < 0 THEN k - p + JLen ELSE k - p
  BY <1>1, <1>2, OneLap
<1>4. k + i \in Int /\ -JLen <= k + i /\ k + i < 2 * JLen
  BY <1>1, <1>3
<1> DEFINE m == (k + i) % JLen
<1>5. m \in Offsets /\ m = IF k + i < JLen THEN k + i ELSE k + i - JLen
  BY <1>1, <1>4, OneLap
<1> HIDE DEF m
<1>6. m - p \in Int /\ -JLen <= m - p /\ m - p < 2 * JLen
  BY <1>1, <1>5 DEF Offsets
<1>7. (m - p) % JLen = IF m - p < 0 THEN m - p + JLen ELSE m - p
  BY <1>1, <1>5, <1>6, OneLap DEF Offsets
<1>8. (m - p) % JLen = ((k - p) % JLen) + i
  BY <1>1, <1>3, <1>5, <1>7
<1>9. QED
  BY <1>5, <1>8 DEF m

(* When the place to write moves e blocks on, what lies there is last.     *)
LEMMA Advance ==
  ASSUME NEW p \in Offsets, NEW k \in Offsets, NEW e \in 1..JLen
  PROVE  /\ (p + e) % JLen \in Offsets
         /\ (k - p) % JLen \in Offsets
         /\ (k - p) % JLen = 0 <=> k = p
         /\ (k - ((p + e) % JLen)) % JLen =
              IF (k - p) % JLen < e THEN ((k - p) % JLen) - e + JLen
              ELSE ((k - p) % JLen) - e
<1>1. JLen \in Nat \ {0} /\ p \in 0..(JLen - 1) /\ k \in 0..(JLen - 1)
  BY LenAssumption DEF Offsets
<1>2. k - p \in Int /\ -JLen <= k - p /\ k - p < 2 * JLen
  BY <1>1
<1>3. (k - p) % JLen \in Offsets /\ (k - p) % JLen = IF k - p < 0 THEN k - p + JLen ELSE k - p
  BY <1>1, <1>2, OneLap
<1>4. p + e \in Int /\ -JLen <= p + e /\ p + e < 2 * JLen
  BY <1>1
<1> DEFINE m == (p + e) % JLen
<1>5. m \in Offsets /\ m = IF p + e < JLen THEN p + e ELSE p + e - JLen
  BY <1>1, <1>4, OneLap
<1> HIDE DEF m
<1>6. k - m \in Int /\ -JLen <= k - m /\ k - m < 2 * JLen
  BY <1>1, <1>5 DEF Offsets
<1>7. (k - m) % JLen = IF k - m < 0 THEN k - m + JLen ELSE k - m
  BY <1>1, <1>5, <1>6, OneLap DEF Offsets
<1>8. (k - m) % JLen = IF (k - p) % JLen < e THEN ((k - p) % JLen) - e + JLen
                       ELSE ((k - p) % JLen) - e
  BY <1>1, <1>3, <1>5, <1>7
<1>9. (k - p) % JLen = 0 <=> k = p
  BY <1>1, <1>3
<1>10. QED
  BY <1>3, <1>5, <1>8, <1>9 DEF m

(* An offset is its own remainder, and one that moves on may start over.   *)
LEMMA InRing ==
  ASSUME NEW x \in Offsets
  PROVE  x % JLen = x
<1>1. JLen \in Nat \ {0} /\ x \in 0..(JLen - 1)
  BY LenAssumption DEF Offsets
<1>2. x \in Int /\ -JLen <= x /\ x < 2 * JLen
  BY <1>1
<1>3. QED
  BY <1>1, <1>2, OneLap

LEMMA Forward ==
  ASSUME NEW k \in Offsets, NEW e \in 1..JLen
  PROVE  /\ (k + e) % JLen \in Offsets
         /\ (k + e) % JLen = IF k + e < JLen THEN k + e ELSE k + e - JLen
<1>1. JLen \in Nat \ {0} /\ k \in 0..(JLen - 1)
  BY LenAssumption DEF Offsets
<1>2. k + e \in Int /\ -JLen <= k + e /\ k + e < 2 * JLen /\ ~(k + e < 0)
  BY <1>1
<1>3. QED
  BY <1>1, <1>2, OneLap

-----------------------------------------------------------------------------
(* What a sequence of transactions occupies, as InUse sums it up.          *)
Used(u) ==
  LET Sum[k \in 0..Len(u)] ==
        IF k = 0 THEN 0 ELSE Sum[k - 1] + Extent(u[k].blocks)
  IN  Sum[Len(u)]

(* s is the running total of what the transactions of u occupy.            *)
Totals(u, s) ==
  /\ s \in [0..Len(u) -> Nat] /\ s[0] = 0
  /\ \A k \in 1..Len(u) : s[k] = s[k - 1] + Extent(u[k].blocks)

(* A transaction occupies three blocks or more, and fits in the ring.      *)
LEMMA Extents ==
  ASSUME NEW w \in Writes
  PROVE  /\ w \in Seq(Blocks) /\ Len(w) \in Nat \ {0} /\ DOMAIN w = 1..Len(w)
         /\ Extent(w) = Len(w) + 2 /\ Extent(w) \in 3..JLen
BY WritesAssumption, LenAssumption DEF Extent

(* What a transaction of the model is.                                     *)
LEMMA InTransactions ==
  ASSUME NEW t \in Transactions
  PROVE  /\ t.id \in 1..MaxId /\ t.at \in Offsets /\ t.blocks \in Writes
         /\ Extent(t.blocks) \in 3..JLen /\ Extent(t.blocks) \in Nat
         /\ Extent(t.blocks) = Len(t.blocks) + 2
         /\ Len(t.blocks) \in Nat \ {0} /\ DOMAIN t.blocks = 1..Len(t.blocks)
<1>1. t.id \in 1..MaxId /\ t.at \in Offsets /\ t.blocks \in Writes
  BY DEF Transactions
<1>2. QED
  BY <1>1, Extents

(* The recursive sum exists, by the least length for which it would not.   *)
LEMMA UsedIsTotal ==
  ASSUME NEW u \in Seq(Transactions)
  PROVE  \E s : Totals(u, s) /\ Used(u) = s[Len(u)]
<1> DEFINE L == Len(u)
           E(k) == Extent(u[k].blocks)
           Body(g, k) == IF k = 0 THEN 0 ELSE g[k - 1] + E(k)
           Part(k) == {g \in [0..k -> Nat] : \A i \in 0..k : g[i] = Body(g, i)}
           g0 == CHOOSE g : g = [k \in 0..L |-> Body(g, k)]
<1>1. L \in Nat /\ \A k \in 1..L : E(k) \in Nat
  <2>1. L \in Nat /\ \A k \in 1..L : u[k] \in Transactions
    OBVIOUS
  <2>2. QED
    BY <2>1, InTransactions
<1>2. Used(u) = g0[L]
  BY DEF Used
<1> HIDE DEF L, E
<1>3. \A k \in 0..L : Part(k) # {}
  <2> DEFINE Bad == {k \in 0..L : Part(k) = {}}
  <2>1. SUFFICES ASSUME Bad # {}  PROVE FALSE
    OBVIOUS
  <2>2. PICK k \in Bad : \A n \in Bad : k <= n
    <3>1. Bad \subseteq Nat
      BY <1>1
    <3>2. QED
      BY <2>1, <3>1, Least
  <2>3. CASE k = 0
    <3>1. [i \in 0..0 |-> 0] \in Part(0)
      OBVIOUS
    <3>2. QED
      BY <2>2, <2>3, <3>1
  <2>4. CASE k # 0
    <3>1. k \in 1..L /\ k - 1 \in 0..L /\ Part(k) = {}
      <4>1. k \in 0..L /\ Part(k) = {}
        BY <2>2
      <4> HIDE DEF Part
      <4>2. QED
        BY <1>1, <2>4, <4>1
    <3>2. k - 1 \in Bad => k <= k - 1
      BY <2>2, Zenon
    <3>3. PICK g : g \in Part(k - 1)
      <4> HIDE DEF Part
      <4>1. QED
        BY <3>1, <3>2
    <3> DEFINE h == [i \in 0..k |-> IF i = k THEN g[k - 1] + E(k) ELSE g[i]]
    <3>4. \A i \in 0..k : i # k => i \in 0..(k - 1)
      BY <3>1
    <3>5. \A i \in 0..(k - 1) : h[i] = g[i] /\ g[i] \in Nat /\ g[i] = Body(g, i)
      BY <3>1, <3>3
    <3>6. h[k] = g[k - 1] + E(k) /\ h[k] \in Nat
      BY <1>1, <3>1, <3>3
    <3>7. \A i \in 0..(k - 1) : h[i] = Body(h, i)
      <4> SUFFICES ASSUME NEW i \in 0..(k - 1)  PROVE h[i] = Body(h, i)
        OBVIOUS
      <4>1. i # 0 => h[i - 1] = g[i - 1]
        <5>1. i # 0 => i - 1 \in 0..(k - 1)
          BY <3>1
        <5>2. QED
          BY <3>5, <5>1
      <4> HIDE DEF h
      <4>2. QED
        BY <3>5, <4>1
    <3>8. h[k] = Body(h, k)
      <4>1. k - 1 \in 0..(k - 1)
        BY <3>1
      <4> HIDE DEF h
      <4>2. QED
        BY <3>1, <3>5, <3>6, <4>1
    <3>9. h \in Part(k)
      <4>1. h \in [0..k -> Nat]
        BY <3>4, <3>5, <3>6
      <4> HIDE DEF h
      <4>2. QED
        BY <3>4, <3>7, <3>8, <4>1
    <3>10. QED
      BY <3>1, <3>9
  <2>5. QED
    BY <2>3, <2>4
<1>4. PICK g : g \in Part(L)
  <2>1. L \in 0..L
    BY <1>1
  <2> HIDE DEF Part
  <2>2. QED
    BY <1>3, <2>1
<1>5. g0 = [k \in 0..L |-> Body(g0, k)]
  <2>1. g = [k \in 0..L |-> Body(g, k)]
    BY <1>4
  <2>2. QED
    BY <2>1
<1> HIDE DEF g0
<1>6. \A k \in 0..L : g0[k] = Body(g0, k)
  BY <1>5
<1>7. \A k \in 0..L : g0[k] = g[k]
  <2> DEFINE Bad == {k \in 0..L : g0[k] # g[k]}
  <2>1. SUFFICES ASSUME Bad # {}  PROVE FALSE
    OBVIOUS
  <2>2. PICK k \in Bad : \A n \in Bad : k <= n
    <3>1. Bad \subseteq Nat
      BY <1>1
    <3>2. QED
      BY <2>1, <3>1, Least
  <2>3. k \in 0..L /\ g0[k] # g[k] /\ g[k] = Body(g, k) /\ g0[k] = Body(g0, k)
    BY <1>4, <1>6, <2>2
  <2>4. k # 0 => k - 1 \in 0..L /\ k - 1 \notin Bad
    BY <1>1, <2>2
  <2>5. k # 0 => g0[k - 1] = g[k - 1]
    BY <2>4
  <2>6. QED
    BY <2>3, <2>5
<1>8. Totals(u, g0)
  <2>1. g0 \in [0..L -> Nat]
    <3>1. \A k \in 0..L : g0[k] \in Nat
      BY <1>4, <1>7
    <3>2. QED
      BY <1>5, <3>1
  <2>2. g0[0] = 0
    BY <1>1, <1>6
  <2>3. \A k \in 1..L : g0[k] = g0[k - 1] + E(k)
    BY <1>1, <1>6
  <2>4. QED
    BY <2>1, <2>2, <2>3 DEF Totals, L, E
<1>9. QED
  BY <1>2, <1>8 DEF L

(* a starts c above b and grows as b does.                                 *)
Parallel(L, a, b, c) ==
  /\ L \in Nat /\ c \in Int
  /\ \A k \in 0..L : a[k] \in Int /\ b[k] \in Int
  /\ a[0] = b[0] + c
  /\ \A k \in 1..L : a[k] - a[k - 1] = b[k] - b[k - 1]

(* Two running totals that grow alike differ by the same everywhere.       *)
LEMMA SameGrowth ==
  ASSUME NEW L, NEW a, NEW b, NEW c, Parallel(L, a, b, c)
  PROVE  \A k \in 0..L : a[k] = b[k] + c
<1> USE DEF Parallel
<1> DEFINE Bad == {k \in 0..L : a[k] # b[k] + c}
<1>1. SUFFICES ASSUME Bad # {}  PROVE FALSE
  OBVIOUS
<1>2. PICK k \in Bad : \A n \in Bad : k <= n
  <2>1. Bad \subseteq Nat
    OBVIOUS
  <2>2. QED
    BY <1>1, <2>1, Least
<1>3. k \in 1..L /\ k - 1 \in 0..L /\ a[k] # b[k] + c
  BY <1>2
<1>4. k - 1 \in Bad => k <= k - 1
  BY <1>2, Zenon
<1>5. a[k - 1] = b[k - 1] + c
  BY <1>3, <1>4
<1>6. a[k] - a[k - 1] = b[k] - b[k - 1]
  BY <1>3
<1>7. k \in 0..L
  BY <1>3
<1>8. QED
  BY <1>3, <1>5, <1>6, <1>7

(* The sum of no transactions, of one more and of one less.                *)
LEMMA UsedEmpty == Used(<<>>) = 0
<1>1. <<>> \in Seq(Transactions) /\ Len(<<>>) = 0
  OBVIOUS
<1>2. QED
  BY <1>1, UsedIsTotal DEF Totals

LEMMA UsedAppend ==
  ASSUME NEW u \in Seq(Transactions), NEW t \in Transactions
  PROVE  Used(u) \in Nat /\ Used(Append(u, t)) = Used(u) + Extent(t.blocks)
<1> DEFINE v == Append(u, t)
           L == Len(u)
<1>1. L \in Nat /\ v \in Seq(Transactions) /\ Len(v) = L + 1 /\ v[L + 1] = t
      /\ \A k \in 1..L : v[k] = u[k]
  OBVIOUS
<1>2. PICK a : Totals(u, a) /\ Used(u) = a[L]
  BY UsedIsTotal
<1>3. PICK b : Totals(v, b) /\ Used(v) = b[L + 1]
  BY <1>1, UsedIsTotal
<1>4. \A k \in 1..L : Extent(u[k].blocks) \in Nat /\ Extent(v[k].blocks) = Extent(u[k].blocks)
  <2>1. \A k \in 1..L : u[k] \in Transactions
    OBVIOUS
  <2> HIDE DEF v, L
  <2>2. QED
    BY <1>1, <2>1, InTransactions
<1> HIDE DEF v, L
<1>5. /\ \A k \in 0..L : a[k] \in Nat
      /\ \A k \in 0..(L + 1) : b[k] \in Nat
      /\ a[0] = 0 /\ b[0] = 0
      /\ \A k \in 1..L : a[k] = a[k - 1] + Extent(u[k].blocks)
      /\ \A k \in 1..(L + 1) : b[k] = b[k - 1] + Extent(v[k].blocks)
  BY <1>1, <1>2, <1>3 DEF Totals, L
<1>6. \A k \in 1..L : b[k] - b[k - 1] = a[k] - a[k - 1]
  <2> SUFFICES ASSUME NEW k \in 1..L  PROVE b[k] - b[k - 1] = a[k] - a[k - 1]
    OBVIOUS
  <2>1. k \in 0..L /\ k - 1 \in 0..L /\ k \in 1..(L + 1) /\ k \in 0..(L + 1) /\ k - 1 \in 0..(L + 1)
    BY <1>1
  <2>2. a[k] = a[k - 1] + Extent(u[k].blocks) /\ b[k] = b[k - 1] + Extent(v[k].blocks)
    BY <1>5, <2>1
  <2>3. a[k] \in Int /\ a[k - 1] \in Int /\ b[k] \in Int /\ b[k - 1] \in Int
    BY <1>5, <2>1
  <2>4. Extent(u[k].blocks) \in Nat /\ Extent(v[k].blocks) = Extent(u[k].blocks)
    BY <1>4
  <2>5. QED
    BY <2>2, <2>3, <2>4
<1>7. \A k \in 0..L : b[k] = a[k] + 0
  <2>1. \A k \in 0..L : k \in 0..(L + 1)
    BY <1>1
  <2>2. \A k \in 0..L : b[k] \in Int /\ a[k] \in Int
    BY <1>5, <2>1
  <2>3. b[0] = a[0] + 0 /\ 0 \in Int /\ L \in Nat
    BY <1>1, <1>5
  <2>4. QED
    <3>1. Parallel(L, b, a, 0)
      BY <1>6, <2>2, <2>3 DEF Parallel
    <3>2. QED
      BY <3>1, SameGrowth
<1>8. b[L] = a[L] /\ a[L] \in Nat
  BY <1>1, <1>5, <1>7
<1>9. b[L + 1] = b[L] + Extent(v[L + 1].blocks)
  <2>1. L + 1 \in 1..(L + 1) /\ (L + 1) - 1 = L
    BY <1>1
  <2>2. QED
    BY <1>5, <2>1
<1>10. QED
  BY <1>1, <1>2, <1>3, <1>8, <1>9 DEF v

LEMMA UsedTail ==
  ASSUME NEW u \in Seq(Transactions), u # <<>>
  PROVE  Used(Tail(u)) \in Nat /\ Used(u) = Used(Tail(u)) + Extent(Head(u).blocks)
<1> DEFINE v == Tail(u)
           L == Len(v)
           e == Extent(Head(u).blocks)
<1>1. L \in Nat /\ v \in Seq(Transactions) /\ Len(u) = L + 1 /\ u[1] = Head(u)
      /\ \A k \in 1..L : v[k] = u[k + 1]
  OBVIOUS
<1>2. PICK a : Totals(u, a) /\ Used(u) = a[L + 1]
  BY <1>1, UsedIsTotal
<1>3. PICK b : Totals(v, b) /\ Used(v) = b[L]
  BY <1>1, UsedIsTotal
<1>4. e \in Nat /\ e = Extent(u[1].blocks)
  <2>1. Head(u) \in Transactions
    OBVIOUS
  <2>2. QED
    BY <1>1, <2>1, InTransactions
<1>5. \A k \in 1..L : Extent(v[k].blocks) \in Nat /\ Extent(v[k].blocks) = Extent(u[k + 1].blocks)
  <2>1. \A k \in 1..L : v[k] \in Transactions
    BY <1>1
  <2> HIDE DEF v, L
  <2>2. QED
    BY <1>1, <2>1, InTransactions
<1>6. /\ \A k \in 0..(L + 1) : a[k] \in Nat
      /\ \A k \in 0..L : b[k] \in Nat
      /\ a[0] = 0 /\ b[0] = 0
      /\ \A k \in 1..(L + 1) : a[k] = a[k - 1] + Extent(u[k].blocks)
      /\ \A k \in 1..L : b[k] = b[k - 1] + Extent(v[k].blocks)
  BY <1>1, <1>2, <1>3 DEF Totals
<1> HIDE DEF v, L, e
<1> DEFINE c == [k \in 0..L |-> a[k + 1]]
<1>7. \A k \in 0..L : c[k] = a[k + 1] /\ c[k] \in Int /\ b[k] \in Int
  <2>1. \A k \in 0..L : k + 1 \in 0..(L + 1)
    BY <1>1
  <2>2. QED
    BY <1>6, <2>1
<1> HIDE DEF c
<1>8. c[0] = b[0] + e
  <2>1. 0 \in 0..L /\ 0 + 1 = 1 /\ 1 \in 1..(L + 1) /\ 1 - 1 = 0
    BY <1>1
  <2>2. a[1] = a[0] + Extent(u[1].blocks)
    BY <1>6, <2>1
  <2>3. c[0] = a[1]
    BY <1>7, <2>1
  <2>4. QED
    BY <1>4, <1>6, <2>2, <2>3
<1>9. \A k \in 1..L : c[k] - c[k - 1] = b[k] - b[k - 1]
  <2> SUFFICES ASSUME NEW k \in 1..L  PROVE c[k] - c[k - 1] = b[k] - b[k - 1]
    OBVIOUS
  <2>1. k \in 0..L /\ k - 1 \in 0..L /\ k + 1 \in 1..(L + 1) /\ (k + 1) - 1 = k
        /\ (k - 1) + 1 = k /\ k \in 0..(L + 1) /\ k + 1 \in 0..(L + 1)
    BY <1>1
  <2>2. c[k] = a[k + 1] /\ c[k - 1] = a[k]
    BY <1>7, <2>1
  <2>3. a[k + 1] = a[k] + Extent(u[k + 1].blocks) /\ b[k] = b[k - 1] + Extent(v[k].blocks)
    BY <1>6, <2>1
  <2>4. a[k] \in Int /\ a[k + 1] \in Int /\ b[k] \in Int /\ b[k - 1] \in Int
    BY <1>6, <2>1
  <2>5. Extent(v[k].blocks) \in Nat /\ Extent(v[k].blocks) = Extent(u[k + 1].blocks)
    BY <1>5
  <2>6. QED
    BY <2>2, <2>3, <2>4, <2>5
<1>10. \A k \in 0..L : c[k] = b[k] + e
  <2>1. e \in Int /\ L \in Nat
    BY <1>1, <1>4
  <2>2. \A k \in 0..L : c[k] \in Int /\ b[k] \in Int
    BY <1>7
  <2>3. QED
    <3>1. Parallel(L, c, b, e)
      BY <1>8, <1>9, <2>1, <2>2 DEF Parallel
    <3>2. QED
      BY <3>1, SameGrowth
<1>11. a[L + 1] = b[L] + e /\ b[L] \in Nat
  BY <1>1, <1>6, <1>7, <1>10
<1>12. QED
  BY <1>2, <1>3, <1>11 DEF v, e

-----------------------------------------------------------------------------
(* A transaction that looks valid is stepped over as a whole without       *)
(* missing another.                                                        *)
Skips ==
  \A k \in Offsets : Valid(k) =>
    /\ Extent(log[k].blocks) \in 3..JLen
    /\ \A m \in Offsets : k < m /\ m < k + Extent(log[k].blocks) => ~Valid(m)

(* s holds the offsets from k on where a transaction is valid, in order.   *)
Enumerates(s, k) ==
  /\ s \in Seq(Nat)
  /\ \A i \in 1..Len(s) : s[i] \in k..(JLen - 1) /\ Valid(s[i])
  /\ \A i, j \in 1..Len(s) : i < j => s[i] < s[j]
  /\ \A m \in k..(JLen - 1) : Valid(m) => \E i \in 1..Len(s) : s[i] = m

(* A number in front of a list of greater ones.                            *)
LEMMA InFront ==
  ASSUME NEW k \in Offsets, NEW j \in Nat, NEW s, k < j, Valid(k), Enumerates(s, j),
         \A m \in Offsets : k < m /\ m < j => ~Valid(m)
  PROVE  Enumerates(<<k>> \o s, k)
<1> DEFINE t == <<k>> \o s
           L == Len(s)
<1>1. JLen \in Nat /\ k \in Nat /\ k < JLen
  BY LenAssumption DEF Offsets
<1>2. L \in Nat /\ s \in Seq(Nat)
  BY DEF Enumerates
<1>3. t \in Seq(Nat) /\ Len(t) = L + 1 /\ t[1] = k /\ \A i \in 1..L : t[i + 1] = s[i]
  BY <1>1, <1>2
<1>4. /\ \A i \in 1..L : s[i] \in j..(JLen - 1) /\ Valid(s[i])
      /\ \A a, b \in 1..L : a < b => s[a] < s[b]
      /\ \A m \in j..(JLen - 1) : Valid(m) => \E i \in 1..L : s[i] = m
  BY DEF Enumerates
<1> HIDE DEF t, L
<1>5. \A i \in 1..(L + 1) : i = 1 \/ (i - 1 \in 1..L /\ t[i] = s[i - 1])
  <2> SUFFICES ASSUME NEW i \in 1..(L + 1), i # 1  PROVE i - 1 \in 1..L /\ t[i] = s[i - 1]
    OBVIOUS
  <2>1. i - 1 \in 1..L /\ (i - 1) + 1 = i
    BY <1>2
  <2>2. QED
    BY <1>3, <2>1
<1>6. \A i \in 1..(L + 1) : t[i] \in k..(JLen - 1) /\ Valid(t[i])
  <2>1. k \in k..(JLen - 1) /\ Valid(k)
    BY <1>1
  <2>2. \A n \in j..(JLen - 1) : n \in k..(JLen - 1)
    BY <1>1
  <2>3. \A i \in 1..L : s[i] \in k..(JLen - 1) /\ Valid(s[i])
    BY <1>4, <2>2
  <2> HIDE DEF Valid
  <2>4. QED
    BY <1>3, <1>5, <2>1, <2>3
<1>7. ASSUME NEW a \in 1..(L + 1), NEW b \in 1..(L + 1), a < b  PROVE t[a] < t[b]
  <2>1. b - 1 \in 1..L /\ t[b] = s[b - 1]
    BY <1>2, <1>5, <1>7
  <2>2. CASE a = 1
    BY <1>1, <1>3, <1>4, <2>1, <2>2
  <2>3. CASE a # 1
    <3>1. a - 1 \in 1..L /\ t[a] = s[a - 1] /\ a - 1 < b - 1
      BY <1>5, <1>7, <2>3
    <3>2. QED
      BY <1>4, <2>1, <3>1
  <2>4. QED
    BY <2>2, <2>3
<1>8. ASSUME NEW m \in k..(JLen - 1), Valid(m)  PROVE \E i \in 1..(L + 1) : t[i] = m
  <2>1. CASE m = k
    BY <1>2, <1>3, <2>1
  <2>2. CASE m # k
    <3>1. m \in Offsets /\ k < m
      BY <1>1, <2>2 DEF Offsets
    <3>2. m \in j..(JLen - 1)
      BY <1>1, <1>8, <3>1
    <3>3. PICK i \in 1..L : s[i] = m
      BY <1>4, <1>8, <3>2
    <3>4. i + 1 \in 1..(L + 1) /\ t[i + 1] = m
      BY <1>2, <1>3, <3>3
    <3>5. QED
      BY <3>4
  <2>3. QED
    BY <2>1, <2>2
<1>9. Enumerates(t, k)
  BY <1>3, <1>6, <1>7, <1>8 DEF Enumerates
<1>10. QED
  BY <1>9 DEF t

(* reiserfs_journal_pipe hands on just the valid transactions, in order:   *)
(* its recursive function exists and is right for every offset, by the     *)
(* last one for which it would not be.                                     *)
LEMMA PipeIsExact ==
  ASSUME Skips, NEW from \in Offsets
  PROVE  Enumerates(Pipe(from), from)
<1> DEFINE end == 2 * JLen
           X(i) == i + Extent(log[i].blocks)
           Body(g, i) ==
             IF i >= JLen THEN <<>>
             ELSE IF Valid(i) THEN <<i>> \o g[i + Extent(log[i].blocks)]
             ELSE g[i + 1]
           Part(k) == {g \in [(end - k)..end -> Seq(Nat)] :
                         \A i \in (end - k)..end : g[i] = Body(g, i)}
           g0 == CHOOSE g : g = [i \in 0..end |-> Body(g, i)]
<1>1. JLen \in Nat \ {0} /\ end = JLen + JLen /\ end \in Nat
  BY LenAssumption
<1>2. Pipe(from) = g0[from]
  BY DEF Pipe
<1>3. \A i \in 0..end : \A a, b :
        (i < JLen => a[i + 1] = b[i + 1]) /\ (i < JLen /\ Valid(i) => a[X(i)] = b[X(i)])
          => Body(a, i) = Body(b, i)
  BY <1>1
<1>4. \A i \in 0..end : i < JLen /\ Valid(i) => X(i) \in (i + 1)..end
  <2> SUFFICES ASSUME NEW i \in 0..end, i < JLen, Valid(i)  PROVE X(i) \in (i + 1)..end
    OBVIOUS
  <2>1. i \in Offsets
    BY <1>1 DEF Offsets
  <2>2. Extent(log[i].blocks) \in 3..JLen
    BY <2>1 DEF Skips
  <2> HIDE DEF end
  <2>3. QED
    BY <1>1, <2>2
<1>5. \A i \in 0..end : \A g :
        (i < JLen => g[i + 1] \in Seq(Nat)) /\ (i < JLen /\ Valid(i) => g[X(i)] \in Seq(Nat))
          => Body(g, i) \in Seq(Nat)
  BY <1>1
<1>6. \A i \in 0..end : \A g : i >= JLen => Body(g, i) = <<>>
  BY <1>1
<1>7. \A i \in 0..end : \A g : i < JLen =>
        Body(g, i) = IF Valid(i) THEN <<i>> \o g[X(i)] ELSE g[i + 1]
  BY <1>1
<1> HIDE DEF end, X, Body
<1>8. \A k \in 0..end : Part(k) # {}
  <2> DEFINE Bad == {k \in 0..end : Part(k) = {}}
  <2>1. SUFFICES ASSUME Bad # {}  PROVE FALSE
    OBVIOUS
  <2>2. PICK k \in Bad : \A n \in Bad : k <= n
    <3>1. Bad \subseteq Nat
      BY <1>1
    <3>2. QED
      BY <2>1, <3>1, Least
  <2>3. k \in 0..end /\ Part(k) = {}
    BY <2>2
  <2>4. CASE k = 0
    <3> DEFINE g == [i \in (end - 0)..end |-> <<>>]
    <3>1. g \in [(end - 0)..end -> Seq(Nat)]
      OBVIOUS
    <3>2. \A i \in (end - 0)..end : i \in 0..end /\ i >= JLen /\ g[i] = <<>>
      BY <1>1
    <3> HIDE DEF g
    <3>3. \A i \in (end - 0)..end : g[i] = Body(g, i)
      BY <1>6, <3>2
    <3>4. g \in Part(0)
      BY <3>1, <3>3
    <3>5. QED
      BY <2>3, <2>4, <3>4
  <2>5. CASE k # 0
    <3>1. k \in 0..end /\ k - 1 \in 0..end /\ k \in Nat \ {0}
      <4> HIDE DEF Part, Bad
      <4>1. QED
        BY <1>1, <2>3, <2>5
    <3>2. PICK g \in [(end - (k - 1))..end -> Seq(Nat)] :
            \A i \in (end - (k - 1))..end : g[i] = Body(g, i)
      <4>1. k - 1 \in Bad => k <= k - 1
        BY <2>2, Zenon
      <4>2. Part(k - 1) # {}
        <5>1. k - 1 \in 0..end /\ k - 1 \notin Bad
          <6> HIDE DEF Bad
          <6>1. QED
            BY <3>1, <4>1
        <5> HIDE DEF Part
        <5>2. QED
          BY <5>1
      <4>3. QED
        BY <4>2
    <3> DEFINE h == [i \in (end - k)..end |-> IF i = end - k THEN Body(g, i) ELSE g[i]]
    <3>3. /\ end - k \in 0..end /\ end - k < end
          /\ \A i \in (end - k)..end : i \in 0..end /\ (i = end - k \/ i \in (end - (k - 1))..end)
      BY <1>1, <3>1
    <3>4. \A i \in (end - (k - 1))..end : i \in (end - k)..end /\ i # end - k
      BY <1>1, <3>1
    <3>5. \A i \in (end - (k - 1))..end : h[i] = g[i]
      BY <3>4
    <3>6. h[end - k] = Body(g, end - k)
      BY <1>1, <3>3
    <3>7. \A i \in (end - k)..end : i < JLen => i + 1 \in (end - (k - 1))..end
      BY <1>1, <3>1
    <3>8. \A i \in (end - k)..end : i < JLen /\ Valid(i) => X(i) \in (end - (k - 1))..end
      <4> SUFFICES ASSUME NEW i \in (end - k)..end, i < JLen, Valid(i)
                   PROVE  X(i) \in (end - (k - 1))..end
        OBVIOUS
      <4>1. X(i) \in (i + 1)..end
        BY <1>4, <3>3
      <4>2. QED
        BY <1>1, <3>1, <4>1
    <3>9. \A i \in (end - k)..end : Body(h, i) = Body(g, i)
      <4> SUFFICES ASSUME NEW i \in (end - k)..end  PROVE Body(h, i) = Body(g, i)
        OBVIOUS
      <4>1. i < JLen => h[i + 1] = g[i + 1]
        BY <3>5, <3>7
      <4>2. i < JLen /\ Valid(i) => h[X(i)] = g[X(i)]
        BY <3>5, <3>8
      <4> HIDE DEF h
      <4>3. i \in 0..end
        BY <3>3
      <4>4. QED
        BY <1>3, <4>1, <4>2, <4>3
    <3>10. Body(g, end - k) \in Seq(Nat)
      <4>1. end - k \in (end - k)..end
        BY <1>1, <3>1
      <4>2. end - k < JLen => g[(end - k) + 1] \in Seq(Nat)
        BY <3>2, <3>7, <4>1
      <4>3. end - k < JLen /\ Valid(end - k) => g[X(end - k)] \in Seq(Nat)
        BY <3>2, <3>8, <4>1
      <4>4. QED
        BY <1>5, <3>3, <4>2, <4>3
    <3>11. h \in [(end - k)..end -> Seq(Nat)]
      BY <3>2, <3>3, <3>10
    <3> HIDE DEF h
    <3>12. \A i \in (end - k)..end : h[i] = Body(h, i)
      BY <3>2, <3>3, <3>5, <3>6, <3>9
    <3>13. h \in Part(k)
      BY <3>11, <3>12
    <3>14. QED
      BY <2>3, <3>13
  <2>6. QED
    BY <2>4, <2>5
<1>9. g0 = [i \in 0..end |-> Body(g0, i)]
  <2>1. Part(end) # {}
    <3> HIDE DEF Part
    <3>1. end \in 0..end
      BY <1>1
    <3>2. QED
      BY <1>8, <3>1
  <2>2. PICK g \in Part(end) : TRUE
    BY <2>1
  <2>3. g \in [0..end -> Seq(Nat)] /\ \A i \in 0..end : g[i] = Body(g, i)
    <3>1. end - end = 0
      BY <1>1
    <3>2. QED
      BY <2>2, <3>1
  <2>4. g = [i \in 0..end |-> Body(g, i)]
    BY <2>3
  <2>5. QED
    BY <2>4
<1> HIDE DEF g0
<1>10. \A i \in 0..end : g0[i] = Body(g0, i)
  BY <1>9
<1>11. \A k \in 0..end : Enumerates(g0[end - k], end - k)
  <2> DEFINE Bad == {k \in 0..end : ~Enumerates(g0[end - k], end - k)}
  <2>1. SUFFICES ASSUME Bad # {}  PROVE FALSE
    OBVIOUS
  <2>2. PICK k \in Bad : \A n \in Bad : k <= n
    <3>1. Bad \subseteq Nat
      BY <1>1
    <3>2. QED
      BY <2>1, <3>1, Least
  <2> DEFINE j == end - k
  <2>3. k \in 0..end /\ ~Enumerates(g0[j], j)
    BY <2>2
  <2>4. \A i \in (j + 1)..end : Enumerates(g0[i], i)
    <3> SUFFICES ASSUME NEW i \in (j + 1)..end  PROVE Enumerates(g0[i], i)
      OBVIOUS
    <3>1. end - i \in 0..end /\ end - i < k /\ end - (end - i) = i /\ end - i \in Int /\ k \in Int
      BY <1>1, <2>3
    <3>2. end - i \in Bad => k <= end - i
      BY <2>2, Zenon
    <3>3. end - i \notin Bad
      <4> HIDE DEF Bad
      <4>1. QED
        BY <3>1, <3>2
    <3>4. Enumerates(g0[end - (end - i)], end - (end - i))
      BY <3>1, <3>3
    <3>5. QED
      BY <3>1, <3>4
  <2>5. j \in 0..end /\ j \in Nat
    BY <1>1, <2>3
  <2> HIDE DEF j, Bad
  <2>6. g0[j] = Body(g0, j)
    BY <1>10, <2>5
  <2>7. CASE j >= JLen
    <3>1. g0[j] = <<>>
      BY <1>6, <2>5, <2>6, <2>7
    <3>2. Enumerates(<<>>, j)
      BY <1>1, <2>5, <2>7 DEF Enumerates
    <3>3. QED
      BY <2>3, <3>1, <3>2
  <2>8. CASE j < JLen /\ Valid(j)
    <3>1. g0[j] = <<j>> \o g0[X(j)]
      BY <1>7, <2>5, <2>6, <2>8
    <3>2. X(j) \in (j + 1)..end
      BY <1>4, <2>5, <2>8
    <3>3. Enumerates(g0[X(j)], X(j))
      BY <2>4, <3>2
    <3>4. j \in Offsets
      BY <1>1, <2>5, <2>8 DEF Offsets
    <3>5. \A m \in Offsets : j < m /\ m < X(j) => ~Valid(m)
      BY <2>8, <3>4 DEF Skips, X
    <3>6. X(j) \in Nat /\ j < X(j)
      BY <1>1, <2>5, <3>2
    <3>7. Enumerates(<<j>> \o g0[X(j)], j)
      BY <2>8, <3>3, <3>4, <3>5, <3>6, InFront
    <3>8. QED
      BY <2>3, <3>1, <3>7
  <2>9. CASE j < JLen /\ ~Valid(j)
    <3>1. g0[j] = g0[j + 1]
      BY <1>7, <2>5, <2>6, <2>9
    <3>2. Enumerates(g0[j + 1], j + 1)
      BY <1>1, <2>4, <2>5, <2>9
    <3>3. \A m \in j..(JLen - 1) : m = j \/ m \in (j + 1)..(JLen - 1)
      BY <1>1, <2>5
    <3>4. \A m \in (j + 1)..(JLen - 1) : m \in j..(JLen - 1)
      BY <1>1, <2>5
    <3>5. Enumerates(g0[j + 1], j)
      BY <2>9, <3>2, <3>3, <3>4 DEF Enumerates
    <3>6. QED
      BY <2>3, <3>1, <3>5
  <2>10. QED
    BY <1>1, <2>5, <2>7, <2>8, <2>9
<1>12. end - from \in 0..end /\ end - (end - from) = from
  BY <1>1 DEF Offsets
<1>13. QED
  BY <1>2, <1>11, <1>12

-----------------------------------------------------------------------------
LEMMA InUseIsUsed == InUse = Used(unflushed)
BY DEF InUse, Used

(* The commit block of a transaction lies in the ring.                     *)
LEMMA CommitInRing ==
  ASSUME NEW k \in Offsets, NEW w \in Writes
  PROVE  (k + Len(w) + 1) % JLen \in Offsets
<1>1. JLen \in Nat /\ Len(w) \in Nat /\ Len(w) + 2 <= JLen
  BY Extents, LenAssumption
<1>2. k + Len(w) + 1 \in Int /\ -JLen <= k + Len(w) + 1 /\ k + Len(w) + 1 < 2 * JLen
  BY <1>1 DEF Offsets
<1>3. QED
  BY <1>2, OneLap

(* What looks valid is a complete transaction, and the other way round:    *)
(* the one the kernel was stopped in has no commit block with its id.      *)
LEMMA ValidIsWhole ==
  ASSUME IInv, NEW k \in Offsets
  PROVE  /\ Valid(k) => /\ log[k].kind = "desc" /\ log[k].blocks \in Writes
                        /\ log[k].id # nextId /\ Whole(k)
         /\ log[k].kind = "desc" /\ log[k].id # nextId => Valid(k)
<1>1. ASSUME log[k].kind = "desc"
      PROVE  /\ log[k].blocks \in Writes
             /\ log[k].id = nextId \/ (log[k].id < nextId /\ Whole(k))
             /\ CommitOffset(k) \in Offsets
  <2>1. log[k].blocks \in Writes
        /\ (log[k].id = nextId \/ (log[k].id < nextId /\ Whole(k)))
    BY <1>1 DEF IInv, Described
  <2>2. QED
    BY <2>1, CommitInRing DEF CommitOffset
<1>2. ASSUME Valid(k)  PROVE log[k].id # nextId
  <2>1. log[CommitOffset(k)].id < nextId
    BY <1>1, <1>2 DEF IInv, Committed, Valid
  <2>2. nextId \in Int
    BY DEF IInv, Typed
  <2>3. QED
    BY <1>2, <2>1, <2>2 DEF Valid
<1>3. Whole(k) /\ log[k].kind = "desc" => Valid(k)
  BY DEF Whole, Valid, Cell
<1>4. QED
  BY <1>1, <1>2, <1>3 DEF Valid

(* No transaction is described inside another one that is complete.        *)
LEMMA InvSkips ==
  ASSUME IInv
  PROVE  Skips
<1> SUFFICES ASSUME NEW k \in Offsets, Valid(k)
             PROVE  /\ Extent(log[k].blocks) \in 3..JLen
                    /\ \A m \in Offsets : k < m /\ m < k + Extent(log[k].blocks) => ~Valid(m)
  BY DEF Skips
<1> DEFINE w == log[k].blocks
<1>1. w \in Writes /\ Whole(k)
  BY ValidIsWhole
<1>2. Len(w) \in Nat /\ DOMAIN w = 1..Len(w) /\ Extent(w) = Len(w) + 2 /\ Extent(w) \in 3..JLen
  BY <1>1, Extents
<1>3. ASSUME NEW m \in Offsets, k < m, m < k + Extent(w)  PROVE log[m].kind # "desc"
  <2>1. JLen \in Nat \ {0}
    BY LenAssumption
  <2>2. m \in Nat /\ m < JLen /\ k \in Nat
    BY <2>1 DEF Offsets
  <2>3. m \in Int /\ -JLen <= m /\ m < 2 * JLen
    BY <2>1, <2>2
  <2>4. m % JLen = m
    BY <2>2, <2>3, OneLap
  <2>5. m - k \in 1..(Len(w) + 1) /\ k + (m - k) = m
    BY <1>2, <1>3, <2>2
  <2>6. CASE m - k \in 1..Len(w)
    <3>1. log[(k + (m - k)) % JLen] = Cell("data", log[k].id, <<log[k].blocks[m - k]>>)
      BY <1>1, <1>2, <2>6 DEF Whole
    <3>2. QED
      BY <2>4, <2>5, <3>1 DEF Cell
  <2>7. CASE m - k = Len(w) + 1
    <3>1. k + Len(w) + 1 = m
      BY <1>2, <2>2, <2>7
    <3>2. log[m] = Cell("comm", log[k].id, log[k].blocks)
      BY <1>1, <2>4, <3>1 DEF Whole, CommitOffset
    <3>3. QED
      BY <3>2 DEF Cell
  <2>8. QED
    BY <1>2, <2>5, <2>6, <2>7
<1>4. \A m \in Offsets : k < m /\ m < k + Extent(w) => ~Valid(m)
  BY <1>3 DEF Valid
<1>5. QED
  BY <1>2, <1>4

(* What the kernel writes in its first n blocks, and what stays.           *)
LEMMA Overwrites ==
  ASSUME Typed, NEW w \in Writes, NEW n \in 1..Extent(w), nextId <= MaxId, WriteCells(w, n)
  PROVE  /\ log' \in [Offsets -> [kind : Kinds, id : 0..MaxId, blocks : Seq(Blocks)]]
         /\ \A k \in Offsets :
              /\ Dist(k) \in Offsets /\ (Dist(k) = 0 <=> k = pos)
              /\ Dist(k) < n => log'[k] = CellOf(w, Dist(k))
              /\ Dist(k) >= n => log'[k] = log[k]
<1>1. w \in Seq(Blocks) /\ Len(w) \in Nat \ {0} /\ DOMAIN w = 1..Len(w)
      /\ Extent(w) = Len(w) + 2 /\ Extent(w) \in 3..JLen /\ JLen \in Nat
  BY Extents, LenAssumption
<1>2. \A k \in Offsets : Dist(k) \in Offsets /\ (Dist(k) = 0 <=> k = pos)
  <2>1. pos \in Offsets /\ 1 \in 1..JLen
    BY <1>1 DEF Typed
  <2>2. QED
    BY <2>1, Advance DEF Dist
<1>3. \A j \in Offsets : CellOf(w, j) \in [kind : Kinds, id : 0..MaxId, blocks : Seq(Blocks)]
  <2> SUFFICES ASSUME NEW j \in Offsets
               PROVE  CellOf(w, j) \in [kind : Kinds, id : 0..MaxId, blocks : Seq(Blocks)]
    OBVIOUS
  <2>1. nextId \in 0..MaxId
    BY MaxIdAssumption DEF Typed
  <2>2. j \in Nat
    BY <1>1 DEF Offsets
  <2>3. j # 0 /\ j <= Len(w) => <<w[j]>> \in Seq(Blocks)
    <3>1. j # 0 /\ j <= Len(w) => w[j] \in Blocks
      BY <1>1, <2>2
    <3>2. QED
      BY <3>1
  <2>4. QED
    BY <1>1, <2>1, <2>2, <2>3 DEF CellOf, Cell, Kinds
<1>4. log' = [k \in Offsets |-> IF Dist(k) < n THEN CellOf(w, Dist(k)) ELSE log[k]]
  BY DEF WriteCells, Dist
<1>5. \A k \in Offsets : Dist(k) \in Int
  BY <1>2 DEF Offsets
<1>6. \A k \in Offsets : log[k] \in [kind : Kinds, id : 0..MaxId, blocks : Seq(Blocks)]
  BY DEF Typed
<1> DEFINE Cells == [kind : Kinds, id : 0..MaxId, blocks : Seq(Blocks)]
<1>7. log' \in [Offsets -> Cells]
  <2>1. \A k \in Offsets : CellOf(w, Dist(k)) \in Cells /\ log[k] \in Cells
    BY <1>2, <1>3, <1>6
  <2> HIDE DEF Cells
  <2>2. QED
    BY <1>4, <2>1
<1>8. \A k \in Offsets : /\ Dist(k) < n => log'[k] = CellOf(w, Dist(k))
                         /\ Dist(k) >= n => log'[k] = log[k]
  <2>1. n \in Int
    BY <1>1
  <2> HIDE DEF Cells
  <2>2. QED
    BY <1>4, <1>5, <2>1
<1>9. QED
  BY <1>2, <1>7, <1>8

(* A complete transaction the kernel does not begin to overwrite stays.    *)
LEMMA StaysWhole ==
  ASSUME Typed, NEW w \in Writes, NEW n \in 1..Extent(w), nextId <= MaxId, WriteCells(w, n),
         NEW k \in Offsets, log[k].blocks \in Writes, Whole(k), Dist(k) >= n
  PROVE  /\ log'[k] = log[k]
         /\ \A i \in DOMAIN log[k].blocks : log'[(k + i) % JLen] = log[(k + i) % JLen]
         /\ log'[CommitOffset(k)] = log[CommitOffset(k)]
<1> DEFINE L == Len(log[k].blocks)
<1>1. L \in Nat /\ DOMAIN log[k].blocks = 1..L /\ Dist(k) + (L + 2) <= JLen
      /\ JLen \in Nat /\ n \in Int /\ Dist(k) \in Nat
  <2>1. L \in Nat /\ DOMAIN log[k].blocks = 1..L /\ Extent(log[k].blocks) = L + 2
    BY Extents
  <2>2. Dist(k) \in Nat /\ Extent(w) \in Nat /\ JLen \in Nat
    BY Overwrites, Extents, LenAssumption DEF Offsets
  <2>3. QED
    BY <2>1, <2>2 DEF Whole
<1>2. ASSUME NEW i \in 0..(L + 1)  PROVE log'[(k + i) % JLen] = log[(k + i) % JLen]
  <2>1. pos \in Offsets /\ i \in Nat /\ ((k - pos) % JLen) + i < JLen
    BY <1>1, SMTT(40) DEF Typed, Dist
  <2>2. (k + i) % JLen \in Offsets /\ Dist((k + i) % JLen) = Dist(k) + i
    BY <2>1, Further DEF Dist
  <2>3. Dist((k + i) % JLen) >= n
    BY <1>1, <2>1, <2>2
  <2>4. QED
    BY <2>2, <2>3, Overwrites
<1>3. CommitOffset(k) = (k + (L + 1)) % JLen
  <2>1. k + L + 1 = k + (L + 1)
    BY <1>1 DEF Offsets
  <2>2. QED
    BY <2>1 DEF CommitOffset
<1>4. log'[k] = log[k]
  BY Overwrites
<1>5. \A i \in DOMAIN log[k].blocks : i \in 0..(L + 1)
  BY <1>1
<1>6. L + 1 \in 0..(L + 1)
  BY <1>1
<1>7. QED
  BY <1>2, <1>3, <1>4, <1>5, <1>6

(* The kinds of the blocks of a transaction.                               *)
LEMMA CellsOf ==
  ASSUME NEW w \in Writes, NEW j \in Nat
  PROVE  /\ CellOf(w, j).id = nextId
         /\ CellOf(w, j).kind = "desc" <=> j = 0
         /\ CellOf(w, j).kind = "comm" <=> j > Len(w)
         /\ j = 0 => CellOf(w, j) = Cell("desc", nextId, w)
         /\ j \in 1..Len(w) => CellOf(w, j) = Cell("data", nextId, <<w[j]>>)
         /\ j = Len(w) + 1 => CellOf(w, j) = Cell("comm", nextId, w)
<1>1. Len(w) \in Nat \ {0}
  BY Extents
<1>2. QED
  BY <1>1 DEF CellOf, Cell

-----------------------------------------------------------------------------
(* The invariant holds in an empty ring.                                   *)
LEMMA InitIsSound == Init => IInv
<1> SUFFICES ASSUME Init  PROVE IInv
  OBVIOUS
<1>1. JLen \in Nat \ {0} /\ 0 \in Offsets
  BY LenAssumption DEF Offsets
<1>2. InUse = 0
  BY InUseIsUsed, UsedEmpty DEF Init
<1>3. \A k \in Offsets : log[k].kind = "empty"
  BY DEF Init, Cell
<1>4. Typed
  <2>1. <<>> \in Seq(Blocks) /\ <<>> \in Seq(Transactions)
    OBVIOUS
  <2>2. Cell("empty", 0, <<>>) \in [kind : Kinds, id : 0..MaxId, blocks : Seq(Blocks)]
    BY <2>1, MaxIdAssumption DEF Cell, Kinds
  <2>3. log \in [Offsets -> [kind : Kinds, id : 0..MaxId, blocks : Seq(Blocks)]]
    BY <2>2 DEF Init
  <2>4. replay \in Offsets /\ pos \in Offsets /\ unflushed \in Seq(Transactions)
    BY <1>1, <2>1 DEF Init
  <2>5. flushed \in 0..MaxId /\ nextId \in 1..(MaxId + 1)
    BY MaxIdAssumption DEF Init
  <2>6. wrapped \in BOOLEAN /\ verdict \in {"none", "accepted", "refused", "crashed", "unread"}
    BY DEF Init
  <2>7. QED
    BY <2>3, <2>4, <2>5, <2>6 DEF Typed
<1>5. Described /\ Committed
  BY <1>3 DEF Described, Committed
<1>6. DOMAIN unflushed = {}
  BY DEF Init
<1>7. Queued /\ FirstLap
  BY <1>1, <1>2, <1>3, <1>6 DEF Queued, FirstLap, Init
<1>8. QED
  BY <1>4, <1>5, <1>7 DEF IInv

(* Each transaction that is not flushed, as the invariant describes it.    *)
LEMMA InQueue ==
  ASSUME IInv, NEW n \in DOMAIN unflushed
  PROVE  /\ unflushed[n] \in Transactions
         /\ unflushed[n].at \in Offsets /\ unflushed[n].blocks \in Writes
         /\ log[unflushed[n].at] = Cell("desc", unflushed[n].id, unflushed[n].blocks)
         /\ unflushed[n].id < nextId /\ unflushed[n].id # nextId
         /\ Whole(unflushed[n].at) /\ Valid(unflushed[n].at)
<1>1. unflushed[n] \in Transactions
  BY DEF IInv, Typed
<1>2. unflushed[n].at \in Offsets /\ unflushed[n].blocks \in Writes /\ unflushed[n].id \in Int
  BY <1>1, InTransactions
<1>3. /\ log[unflushed[n].at] = Cell("desc", unflushed[n].id, unflushed[n].blocks)
      /\ unflushed[n].id < nextId
  BY DEF IInv, Queued
<1>4. nextId \in Int
  BY DEF IInv, Typed
<1>5. log[unflushed[n].at].kind = "desc" /\ log[unflushed[n].at].id # nextId
  BY <1>2, <1>3, <1>4 DEF Cell
<1>6. QED
  BY <1>1, <1>2, <1>3, <1>4, <1>5, ValidIsWhole

(* A transaction that is written as a whole: all the kernel overwrites are *)
(* flushed ones, for the others fill the end of the lap.                   *)
LEMMA CommitPreserves ==
  ASSUME IInv, NEW w \in Writes, Commit(w)
  PROVE  IInv'
<1> DEFINE e == Extent(w)
           L == Len(unflushed)
           t == [id |-> nextId, at |-> pos, blocks |-> w]
<1>1. /\ nextId <= MaxId /\ InUse + e <= JLen /\ WriteCells(w, e)
      /\ unflushed' = Append(unflushed, t) /\ pos' = (pos + e) % JLen
      /\ nextId' = nextId + 1 /\ replay' = replay /\ flushed' = flushed
      /\ wrapped' = (wrapped \/ pos + e >= JLen) /\ verdict' = "none"
  BY DEF Commit
<1>2. /\ Typed /\ nextId \in Nat \ {0} /\ pos \in Offsets /\ JLen \in Nat \ {0}
      /\ MaxId \in Nat /\ L \in Nat /\ DOMAIN unflushed = 1..L /\ unflushed \in Seq(Transactions)
  BY LenAssumption, MaxIdAssumption DEF IInv, Typed
<1>3. w \in Seq(Blocks) /\ Len(w) \in Nat \ {0} /\ DOMAIN w = 1..Len(w)
      /\ e = Len(w) + 2 /\ e \in 3..JLen /\ e \in 1..JLen /\ e \in 1..e
  BY Extents, <1>2
<1>4. t \in Transactions
  BY <1>1, <1>2 DEF Transactions
<1>5. InUse \in Nat /\ InUse' = InUse + e
  <2>1. InUse' = Used(unflushed')
    BY DEF InUse, Used
  <2>2. t.blocks = w
    OBVIOUS
  <2> HIDE DEF t
  <2>3. QED
    BY <1>1, <1>2, <1>4, <2>1, <2>2, UsedAppend, InUseIsUsed
<1>6. /\ DOMAIN unflushed' = 1..(L + 1) /\ unflushed' \in Seq(Transactions)
      /\ unflushed'[L + 1] = t /\ \A n \in 1..L : unflushed'[n] = unflushed[n]
  BY <1>1, <1>2, <1>4
<1> HIDE DEF L, e
<1> PICK p : p = pos
  OBVIOUS
<1> DEFINE q == (p + e) % JLen
           Behind(k) == (k - q) % JLen
<1>7. /\ log' \in [Offsets -> [kind : Kinds, id : 0..MaxId, blocks : Seq(Blocks)]]
      /\ \A k \in Offsets : /\ Dist(k) \in Nat /\ Dist(k) < JLen /\ (Dist(k) = 0 <=> k = pos)
                            /\ Dist(k) < e => log'[k] = CellOf(w, Dist(k))
                            /\ Dist(k) >= e => log'[k] = log[k]
  <2>1. e \in 1..Extent(w) /\ WriteCells(w, e)
    BY <1>1, <1>3 DEF e
  <2>2. \A k \in Offsets : Dist(k) \in Offsets
    BY <1>1, <1>2, <2>1, Overwrites
  <2>3. \A k \in Offsets : Dist(k) \in Nat /\ Dist(k) < JLen
    BY <1>2, <2>2 DEF Offsets
  <2>4. QED
    BY <1>1, <1>2, <2>1, <2>3, Overwrites
<1>8. /\ pos' = q /\ q \in Offsets
      /\ \A k \in Offsets :
           Behind(k) = IF Dist(k) < e THEN Dist(k) - e + JLen ELSE Dist(k) - e
  BY <1>1, <1>2, <1>3, Advance, ZenonT(40) DEF Dist, e
<1>9. Typed'
  <2>1. nextId' \in 1..(MaxId + 1)
    BY <1>1, <1>2
  <2>2. replay' \in Offsets /\ flushed' \in 0..MaxId
    BY <1>1, <1>2 DEF Typed
  <2>3. wrapped' \in BOOLEAN
    BY <1>1, Zenon
  <2>4. verdict' \in {"none", "accepted", "refused", "crashed", "unread"}
    BY <1>1
  <2>5. pos' \in Offsets
    BY <1>8
  <2>6. QED
    BY <1>6, <1>7, <2>1, <2>2, <2>3, <2>4, <2>5 DEF Typed
<1> HIDE DEF Behind, q
<1>10. p \in Offsets /\ log'[p] = Cell("desc", nextId, w) /\ Behind(p) = JLen - e
  <2>1. p \in Offsets /\ Dist(p) = 0 /\ 0 < e
    BY <1>2, <1>3, <1>7
  <2>2. log'[p] = CellOf(w, 0)
    BY <1>7, <2>1
  <2>3. Behind(p) = 0 - e + JLen
    BY <1>8, <2>1
  <2>4. CellOf(w, 0) = Cell("desc", nextId, w)
    <3>1. 0 \in Nat
      OBVIOUS
    <3>2. QED
      BY <3>1, CellsOf
  <2>5. QED
    BY <1>2, <1>3, <2>1, <2>2, <2>3, <2>4
<1>11. ASSUME NEW k \in Offsets, Dist(k) >= e, log[k].kind = "desc"
       PROVE  /\ log'[k] = log[k] /\ log[k].id < nextId /\ log[k].blocks \in Writes
              /\ Whole(k) /\ Whole(k)'
  <2>1. k # pos
    BY <1>3, <1>7, <1>11
  <2>2. log[k].blocks \in Writes /\ log[k].id < nextId /\ Whole(k)
    BY <1>11, <2>1 DEF IInv, Described
  <2>3. /\ log'[k] = log[k]
        /\ \A i \in DOMAIN log[k].blocks : log'[(k + i) % JLen] = log[(k + i) % JLen]
        /\ log'[CommitOffset(k)] = log[CommitOffset(k)]
    BY <1>1, <1>2, <1>3, <1>11, <2>2, StaysWhole DEF e
  <2>4. CommitOffset(k)' = CommitOffset(k)
    BY <2>3 DEF CommitOffset
  <2>5. Dist(k)' + Extent(log[k].blocks) <= JLen
    <3>1. Extent(log[k].blocks) \in Nat /\ Dist(k) + Extent(log[k].blocks) <= JLen
      BY <2>2, Extents DEF Whole
    <3>2. Dist(k)' = Behind(k)
      BY <1>8 DEF Dist, Behind
    <3>3. Dist(k) \in Nat /\ Behind(k) = Dist(k) - e
      <4>1. ~(Dist(k) < e)
        BY <1>3, <1>7, <1>11
      <4>2. QED
        BY <1>7, <1>8, <4>1
    <3>4. QED
      BY <1>2, <1>3, <3>1, <3>2, <3>3
  <2>6. Whole(k)'
    BY <2>2, <2>3, <2>4, <2>5 DEF Whole
  <2>7. QED
    BY <2>2, <2>3, <2>6
<1>12. Whole(p)'
  <2>1. Dist(p)' + e <= JLen
    <3>1. Dist(p)' = Behind(p)
      BY <1>8 DEF Dist, Behind
    <3>2. QED
      BY <1>2, <1>3, <1>10, <3>1
  <2>2. ASSUME NEW i \in 1..(Len(w) + 1)  PROVE log'[(p + i) % JLen] = CellOf(w, i)
    <3>1. (p - p) % JLen = 0
      BY <1>7, <1>10 DEF Dist
    <3>2. i \in Nat /\ i < JLen /\ i < e
      BY <1>2, <1>3
    <3>3. (p + i) % JLen \in Offsets /\ (((p + i) % JLen) - p) % JLen = 0 + i
      BY <1>2, <1>10, <3>1, <3>2, Further
    <3>4. Dist((p + i) % JLen) = i
      BY <3>2, <3>3 DEF Dist
    <3>5. QED
      BY <1>7, <3>2, <3>3, <3>4
  <2>3. \A i \in 1..Len(w) : log'[(p + i) % JLen] = Cell("data", nextId, <<w[i]>>)
    <3>1. \A i \in 1..Len(w) : i \in 1..(Len(w) + 1) /\ i \in Nat
      BY <1>3
    <3>2. QED
      BY <2>2, <3>1, CellsOf
  <2>4. log'[(p + (Len(w) + 1)) % JLen] = Cell("comm", nextId, w)
    <3>1. Len(w) + 1 \in 1..(Len(w) + 1) /\ Len(w) + 1 \in Nat
      BY <1>3
    <3>2. QED
      BY <2>2, <3>1, CellsOf
  <2>5. log'[p].id = nextId /\ log'[p].blocks = w
    BY <1>10 DEF Cell
  <2>6. p + Len(w) + 1 = p + (Len(w) + 1)
    BY <1>2, <1>3, <1>10 DEF Offsets
  <2>7. QED
    BY <1>3, <2>1, <2>3, <2>4, <2>5, <2>6 DEF Whole, CommitOffset, e
<1>13. Described'
  <2> SUFFICES ASSUME NEW k \in Offsets, log'[k].kind = "desc"
               PROVE  /\ log'[k].blocks \in Writes
                      /\ log'[k].id < nextId' /\ log'[k].id # nextId' /\ Whole(k)'
    BY DEF Described
  <2>1. CASE Dist(k) < e
    <3>1. k = p
      BY <1>7, <2>1, CellsOf
    <3>2. log'[p].blocks = w /\ log'[p].id = nextId
      BY <1>10 DEF Cell
    <3>3. QED
      BY <1>1, <1>2, <1>12, <3>1, <3>2
  <2>2. CASE Dist(k) >= e
    <3>1. log[k].id \in Int /\ nextId \in Int
      BY <1>2 DEF Typed
    <3>2. log'[k] = log[k]
      BY <1>7, <2>2
    <3>3. /\ log[k].id < nextId /\ log[k].blocks \in Writes /\ Whole(k)'
      BY <1>11, <2>2, <3>2
    <3>4. QED
      BY <1>1, <3>1, <3>2, <3>3
  <2>3. QED
    BY <1>3, <1>7, <2>1, <2>2
<1>14. Committed'
  <2> SUFFICES ASSUME NEW k \in Offsets, log'[k].kind = "comm"
               PROVE  log'[k].id < nextId'
    BY DEF Committed
  <2>1. CASE Dist(k) < e
    <3>1. log'[k].id = nextId
      BY <1>7, <2>1, CellsOf, ZenonT(40)
    <3>2. QED
      BY <1>1, <1>2, <3>1
  <2>2. CASE Dist(k) >= e
    <3>1. log'[k] = log[k] /\ log[k].id < nextId /\ log[k].id \in Int
      BY <1>2, <1>7, <2>2, SMTT(30) DEF IInv, Committed, Typed
    <3>2. QED
      BY <1>1, <1>2, <3>1
  <2>3. QED
    BY <1>3, <1>7, <2>1, <2>2
<1> DEFINE d(n) == Dist(unflushed[n].at)
           x(n) == Extent(unflushed[n].blocks)
<1>15. ASSUME NEW n \in 1..L
       PROVE  /\ unflushed[n].at \in Offsets
              /\ d(n) \in Nat /\ x(n) \in Nat /\ d(n) >= e
              /\ d(n) >= JLen - InUse /\ d(n) + x(n) <= JLen
              /\ n = 1 => d(n) = JLen - InUse
              /\ n + 1 \in 1..L => d(n + 1) = d(n) + x(n)
              /\ \A m \in 1..L : n < m => d(n) + x(n) <= d(m)
              /\ n + 1 \notin 1..L => d(n) + x(n) = JLen
              /\ Dist(unflushed[n].at)' = d(n) - e
              /\ log'[unflushed[n].at] = log[unflushed[n].at]
  <2>1. n \in DOMAIN unflushed
    BY <1>2
  <2>2. unflushed[n].at \in Offsets /\ x(n) \in Nat
    BY <2>1, InQueue, Extents
  <2>3. d(n) \in Nat
    BY <1>7, <2>2
  <2>4. /\ d(n) >= JLen - InUse /\ d(n) + x(n) <= JLen
        /\ n = 1 => d(n) = JLen - InUse
        /\ n + 1 \in 1..L => d(n + 1) = d(n) + x(n)
        /\ \A m \in 1..L : n < m => d(n) + x(n) <= d(m)
        /\ n + 1 \notin 1..L => d(n) + x(n) = JLen
    BY <1>2, <2>1 DEF IInv, Queued
  <2>5. d(n) >= e
    <3> HIDE DEF d, x
    <3>1. QED
      BY <1>1, <1>2, <1>3, <1>5, <2>3, <2>4 DEF e
  <2>6. Dist(unflushed[n].at)' = d(n) - e
    <3>1. unflushed'[n] = unflushed[n]
      BY <1>6
    <3>2. Dist(unflushed[n].at)' = Behind(unflushed[n].at)
      BY <1>8, <3>1 DEF Dist, Behind
    <3>3. ~(d(n) < e)
      <4> HIDE DEF d
      <4>1. QED
        BY <1>3, <2>3, <2>5
    <3>4. Behind(unflushed[n].at) = d(n) - e
      BY <1>8, <2>2, <3>3
    <3>5. QED
      BY <3>2, <3>4
  <2>7. log'[unflushed[n].at] = log[unflushed[n].at]
    BY <1>7, <2>2, <2>5
  <2>8. QED
    BY <2>2, <2>3, <2>4, <2>5, <2>6, <2>7
<1> HIDE DEF d, x
<1>16. ASSUME NEW n \in 1..(L + 1)
       PROVE  /\ unflushed'[n].id < nextId'
              /\ log'[unflushed'[n].at] = Cell("desc", unflushed'[n].id, unflushed'[n].blocks)
              /\ Behind(unflushed'[n].at) >= JLen - InUse'
              /\ Behind(unflushed'[n].at) + Extent(unflushed'[n].blocks) <= JLen
              /\ n = 1 => Behind(unflushed'[n].at) = JLen - InUse'
              /\ n + 1 \in 1..(L + 1) =>
                   Behind(unflushed'[n + 1].at)
                     = Behind(unflushed'[n].at) + Extent(unflushed'[n].blocks)
              /\ \A m \in 1..(L + 1) : n < m =>
                   Behind(unflushed'[n].at) + Extent(unflushed'[n].blocks)
                     <= Behind(unflushed'[m].at)
              /\ n + 1 \notin 1..(L + 1) =>
                   Behind(unflushed'[n].at) + Extent(unflushed'[n].blocks) = JLen
  <2>1. /\ unflushed'[L + 1].at = p /\ unflushed'[L + 1].blocks = w
        /\ unflushed'[L + 1].id = nextId
        /\ Behind(unflushed'[L + 1].at) = JLen - e /\ Extent(unflushed'[L + 1].blocks) = e
    BY <1>6, <1>10 DEF e
  <2>2. \A m \in 1..L : /\ unflushed'[m] = unflushed[m]
                        /\ Behind(unflushed'[m].at) = d(m) - e
                        /\ Extent(unflushed'[m].blocks) = x(m)
    <3> SUFFICES ASSUME NEW m \in 1..L
                 PROVE  /\ unflushed'[m] = unflushed[m]
                        /\ Behind(unflushed'[m].at) = d(m) - e
                        /\ Extent(unflushed'[m].blocks) = x(m)
      OBVIOUS
    <3>1. unflushed'[m] = unflushed[m]
      BY <1>6
    <3>2. Dist(unflushed[m].at)' = Behind(unflushed'[m].at)
      BY <1>8 DEF Dist, Behind
    <3>3. QED
      BY <1>15, <3>1, <3>2 DEF x
  <2>3. CASE n = L + 1
    <3>1. L + 1 = 1 => InUse = 0
      <4>1. L = 0 => unflushed = <<>>
        BY <1>2 DEF L
      <4>2. QED
        BY <1>2, <4>1, UsedEmpty, InUseIsUsed
    <3>2. log'[unflushed'[n].at] = Cell("desc", unflushed'[n].id, unflushed'[n].blocks)
      BY <1>10, <2>1, <2>3
    <3>3. unflushed'[n].id < nextId'
      BY <1>1, <1>2, <2>1, <2>3
    <3>4. /\ JLen - e >= JLen - InUse' /\ JLen - e + e <= JLen /\ JLen - e + e = JLen
          /\ L + 1 = 1 => JLen - e = JLen - InUse'
      BY <1>2, <1>3, <1>5, <3>1
    <3>5. ~(n + 1 \in 1..(L + 1)) /\ ~(\E m \in 1..(L + 1) : n < m)
      BY <1>2, <2>3
    <3>6. QED
      BY <2>1, <2>3, <3>2, <3>3, <3>4, <3>5
  <2>4. CASE n \in 1..L
    <3>1. /\ d(n) \in Nat /\ x(n) \in Nat /\ d(n) >= e
          /\ d(n) >= JLen - InUse /\ d(n) + x(n) <= JLen
          /\ n = 1 => d(n) = JLen - InUse
          /\ n + 1 \in 1..L => d(n + 1) = d(n) + x(n)
          /\ \A m \in 1..L : n < m => d(n) + x(n) <= d(m)
          /\ n + 1 \notin 1..L => d(n) + x(n) = JLen
      BY <1>15, <2>4
    <3>2. /\ unflushed'[n] = unflushed[n]
          /\ Behind(unflushed'[n].at) = d(n) - e /\ Extent(unflushed'[n].blocks) = x(n)
      BY <2>2, <2>4
    <3>3. /\ unflushed'[n].id < nextId'
          /\ log'[unflushed'[n].at] = Cell("desc", unflushed'[n].id, unflushed'[n].blocks)
      <4>1. /\ log[unflushed[n].at] = Cell("desc", unflushed[n].id, unflushed[n].blocks)
            /\ unflushed[n].id < nextId /\ unflushed[n].id \in Int
        BY <1>2, <2>4, InQueue, InTransactions
      <4>2. log'[unflushed[n].at] = log[unflushed[n].at]
        BY <1>15, <2>4
      <4>3. QED
        BY <1>1, <1>2, <3>2, <4>1, <4>2
    <3>4. /\ d(n) - e >= JLen - InUse' /\ d(n) - e + x(n) <= JLen
          /\ n = 1 => d(n) - e = JLen - InUse'
      <4>1. JLen \in Int /\ e \in Int /\ e > 0 /\ InUse \in Int /\ InUse' = InUse + e
        BY <1>2, <1>3, <1>5
      <4>2. /\ d(n) \in Int /\ x(n) \in Int /\ d(n) >= JLen - InUse
            /\ d(n) + x(n) <= JLen
            /\ n = 1 => d(n) = JLen - InUse
        BY <3>1
      <4> HIDE DEF d, x, e
      <4>3. QED
        BY <4>1, <4>2
    <3>5. n + 1 \in 1..(L + 1)
      BY <1>2, <2>4
    <3>6. Behind(unflushed'[n + 1].at) = d(n) - e + x(n)
      <4>1. CASE n + 1 \in 1..L
        <5>1. Behind(unflushed'[n + 1].at) = d(n + 1) - e
          BY <2>2, <4>1
        <5>2. QED
          BY <1>3, <3>1, <4>1, <5>1
      <4>2. CASE n + 1 \notin 1..L
        <5>1. n + 1 = L + 1
          BY <1>2, <2>4, <4>2
        <5>2. Behind(unflushed'[n + 1].at) = JLen - e
          BY <2>1, <5>1
        <5>3. d(n) + x(n) = JLen /\ d(n) \in Int /\ x(n) \in Int /\ e \in Int
          BY <1>3, <3>1, <4>2
        <5>4. QED
          BY <5>2, <5>3
      <4>3. QED
        BY <4>1, <4>2
    <3>7. ASSUME NEW m \in 1..(L + 1), n < m
          PROVE  d(n) - e + x(n) <= Behind(unflushed'[m].at)
      <4>1. CASE m \in 1..L
        <5>1. Behind(unflushed'[m].at) = d(m) - e /\ d(m) \in Nat /\ d(n) + x(n) <= d(m)
          BY <1>15, <2>2, <3>1, <3>7, <4>1
        <5>2. QED
          BY <1>3, <3>1, <5>1
      <4>2. CASE m = L + 1
        BY <1>2, <1>3, <2>1, <3>1, <4>2
      <4>3. QED
        BY <1>2, <4>1, <4>2
    <3>8. QED
      BY <3>2, <3>3, <3>4, <3>5, <3>6, <3>7
  <2>5. QED
    BY <1>2, <2>3, <2>4
<1>17. Queued'
  <2>1. InUse' <= JLen
    BY <1>1, <1>2, <1>3, <1>5 DEF e
  <2>2. \A n \in 1..(L + 1) : Dist(unflushed[n].at)' = Behind(unflushed'[n].at)
    BY <1>8 DEF Dist, Behind
  <2>3. \A n \in 1..(L + 1) : n + 1 \in 1..(L + 1) =>
          Dist(unflushed[n + 1].at)' = Behind(unflushed'[n + 1].at)
    BY <1>8 DEF Dist, Behind
  <2> HIDE DEF Behind
  <2>4. QED
    BY <1>6, <1>16, <2>1, <2>2, <2>3 DEF Queued
<1>18. FirstLap'
  <2> SUFFICES ASSUME ~wrapped'
               PROVE  /\ replay' + InUse' = pos'
                      /\ \A k \in Offsets :
                           log'[k].kind = "desc" /\ log'[k].id # nextId' /\ replay' <= k =>
                             \E n \in DOMAIN unflushed' : unflushed'[n].at = k
    BY DEF FirstLap
  <2>1. ~wrapped /\ p + e < JLen
    <3>1. ~wrapped /\ ~(p + e >= JLen)
      BY <1>1, Zenon DEF e
    <3>2. p \in Int /\ e \in Int /\ JLen \in Int
      BY <1>2, <1>3, <1>10 DEF Offsets
    <3>3. QED
      BY <3>1, <3>2
  <2>2. p + e \in Int /\ -JLen <= p + e /\ p + e < 2 * JLen /\ ~(p + e < 0)
    BY <1>2, <1>3, <1>10, <2>1 DEF Offsets
  <2>3. pos' = p + e
    BY <1>8, <2>1, <2>2, OneLap DEF q
  <2>4. replay + InUse = p /\ replay \in Int
    BY <1>2, <2>1 DEF IInv, FirstLap, Typed, Offsets
  <2>5. replay' + InUse' = pos'
    BY <1>1, <1>3, <1>5, <2>3, <2>4
  <2>6. ASSUME NEW k \in Offsets, log'[k].kind = "desc", log'[k].id # nextId', replay' <= k
        PROVE  \E n \in 1..(L + 1) : unflushed'[n].at = k
    <3>1. CASE Dist(k) < e
      <4>1. k = p
        BY <1>7, <2>6, <3>1, CellsOf
      <4>2. L + 1 \in 1..(L + 1)
        BY <1>2
      <4>3. unflushed'[L + 1].at = p
        BY <1>6
      <4>4. QED
        BY <4>1, <4>2, <4>3
    <3>2. CASE Dist(k) >= e
      <4>1. log'[k] = log[k] /\ log[k].id < nextId /\ log[k].id \in Int
        BY <1>2, <1>7, <1>11, <2>6, <3>2, SMTT(40) DEF Typed
      <4>2. \E n \in DOMAIN unflushed : unflushed[n].at = k
        BY <1>1, <1>2, <2>1, <2>6, <4>1 DEF IInv, FirstLap
      <4>3. \A n \in 1..L : n \in 1..(L + 1)
        BY <1>2
      <4>4. PICK n \in 1..L : unflushed[n].at = k
        BY <1>2, <4>2
      <4>5. n \in 1..(L + 1) /\ unflushed'[n] = unflushed[n]
        BY <1>6, <4>3
      <4>6. QED
        BY <4>4, <4>5
    <3>3. Dist(k) \in Int /\ e \in Int
      BY <1>3, <1>7
    <3>4. QED
      BY <3>1, <3>2, <3>3
  <2>7. QED
    BY <1>6, <2>5, <2>6
<1>19. QED
  BY <1>9, <1>13, <1>14, <1>17, <1>18 DEF IInv

(* A transaction the kernel is stopped in: it too only overwrites flushed  *)
(* ones, and lacks its commit block.                                       *)
LEMMA TornPreserves ==
  ASSUME IInv, NEW w \in Writes, NEW n \in 1..JLen, Torn(w, n)
  PROVE  IInv'
<1>1. /\ nextId <= MaxId /\ InUse + Extent(w) <= JLen /\ n < Extent(w) /\ WriteCells(w, n)
      /\ verdict' = "none"
      /\ replay' = replay /\ flushed' = flushed /\ pos' = pos /\ nextId' = nextId
      /\ unflushed' = unflushed /\ wrapped' = wrapped
  BY DEF Torn
<1>2. /\ Typed /\ nextId \in Nat \ {0} /\ pos \in Offsets /\ JLen \in Nat \ {0}
      /\ Extent(w) = Len(w) + 2 /\ Len(w) \in Nat \ {0} /\ n \in 1..Extent(w)
  BY <1>1, Extents, LenAssumption DEF IInv, Typed
<1>3. InUse' = InUse
  BY <1>1 DEF InUse
<1>4. InUse \in Nat
  <2>1. unflushed \in Seq(Transactions)
    BY <1>2 DEF Typed
  <2>2. PICK s : Totals(unflushed, s) /\ Used(unflushed) = s[Len(unflushed)]
    BY <2>1, UsedIsTotal
  <2>3. Len(unflushed) \in 0..Len(unflushed)
    BY <2>1
  <2>4. QED
    BY <2>2, <2>3, InUseIsUsed DEF Totals
<1>5. /\ log' \in [Offsets -> [kind : Kinds, id : 0..MaxId, blocks : Seq(Blocks)]]
      /\ \A k \in Offsets : /\ Dist(k) \in Nat /\ Dist(k) < JLen /\ (Dist(k) = 0 <=> k = pos)
                            /\ Dist(k) < n => log'[k] = CellOf(w, Dist(k))
                            /\ Dist(k) >= n => log'[k] = log[k]
  <2>1. \A k \in Offsets : Dist(k) \in Offsets
    BY <1>1, <1>2, Overwrites
  <2>2. \A k \in Offsets : Dist(k) \in Nat /\ Dist(k) < JLen
    BY <1>2, <2>1 DEF Offsets
  <2>3. QED
    BY <1>1, <1>2, <2>2, Overwrites
<1>6. Typed'
  <2>1. /\ replay' \in Offsets /\ pos' \in Offsets
        /\ flushed' \in 0..MaxId /\ nextId' \in 1..(MaxId + 1)
        /\ unflushed' \in Seq(Transactions)
    BY <1>1, <1>2 DEF Typed
  <2>2. wrapped' \in BOOLEAN
    BY <1>1, <1>2, Zenon DEF Typed
  <2>3. QED
    BY <1>1, <1>5, <2>1, <2>2 DEF Typed
<1>7. ASSUME NEW k \in Offsets, Dist(k) >= n, log[k].kind = "desc"
      PROVE  /\ log'[k] = log[k] /\ log[k].id < nextId /\ log[k].blocks \in Writes
             /\ Whole(k) /\ Whole(k)'
  <2>1. k # pos
    BY <1>5, <1>7
  <2>2. log[k].blocks \in Writes /\ log[k].id < nextId /\ Whole(k)
    BY <1>7, <2>1 DEF IInv, Described
  <2>3. /\ log'[k] = log[k]
        /\ \A i \in DOMAIN log[k].blocks : log'[(k + i) % JLen] = log[(k + i) % JLen]
        /\ log'[CommitOffset(k)] = log[CommitOffset(k)]
    BY <1>1, <1>2, <1>7, <2>2, StaysWhole
  <2>4. CommitOffset(k)' = CommitOffset(k)
    BY <2>3 DEF CommitOffset
  <2>5. Dist(k)' = Dist(k)
    BY <1>1 DEF Dist
  <2>6. Whole(k)'
    BY <2>2, <2>3, <2>4, <2>5 DEF Whole
  <2>7. QED
    BY <2>2, <2>3, <2>6
<1>8. Described'
  <2> SUFFICES ASSUME NEW k \in Offsets, log'[k].kind = "desc"
               PROVE  /\ log'[k].blocks \in Writes
                      /\ IF log'[k].id = nextId' THEN k = pos'
                         ELSE log'[k].id < nextId' /\ Whole(k)'
    BY DEF Described
  <2>1. CASE Dist(k) < n
    <3>1. log'[k] = CellOf(w, Dist(k)) /\ Dist(k) \in Nat
      BY <1>5, <2>1
    <3>2. Dist(k) = 0 /\ log'[k] = Cell("desc", nextId, w)
      BY <3>1, CellsOf
    <3>3. k = pos /\ log'[k].id = nextId /\ log'[k].blocks = w
      BY <1>5, <3>2 DEF Cell
    <3>4. QED
      BY <1>1, <3>3
  <2>2. CASE Dist(k) >= n
    <3>1. log'[k] = log[k]
      BY <1>5, <2>2
    <3>2. log[k].id < nextId /\ log[k].blocks \in Writes /\ Whole(k)'
      BY <1>7, <2>2, <3>1
    <3>3. log[k].id \in Int /\ nextId \in Int
      BY <1>2 DEF Typed
    <3>4. QED
      BY <1>1, <3>1, <3>2, <3>3
  <2>3. Dist(k) \in Int /\ n \in Int
    BY <1>5
  <2>4. QED
    BY <2>1, <2>2, <2>3
<1>9. Committed'
  <2> SUFFICES ASSUME NEW k \in Offsets, log'[k].kind = "comm"
               PROVE  log'[k].id < nextId'
    BY DEF Committed
  <2>1. CASE Dist(k) < n
    <3>1. log'[k] = CellOf(w, Dist(k)) /\ Dist(k) \in Nat
      BY <1>5, <2>1
    <3>2. Dist(k) > Len(w)
      BY <3>1, CellsOf
    <3>3. QED
      BY <1>1, <1>2, <2>1, <3>1, <3>2
  <2>2. CASE Dist(k) >= n
    BY <1>1, <1>5, <2>2 DEF IInv, Committed
  <2>3. Dist(k) \in Int /\ n \in Int
    BY <1>5
  <2>4. QED
    BY <2>1, <2>2, <2>3
<1>10. \A m \in DOMAIN unflushed :
         Dist(unflushed[m].at)' = Dist(unflushed[m].at) /\ log'[unflushed[m].at] = log[unflushed[m].at]
  <2> SUFFICES ASSUME NEW m \in DOMAIN unflushed
               PROVE  /\ Dist(unflushed[m].at)' = Dist(unflushed[m].at)
                      /\ log'[unflushed[m].at] = log[unflushed[m].at]
    OBVIOUS
  <2>1. Dist(unflushed[m].at)' = Dist(unflushed[m].at)
    BY <1>1 DEF Dist
  <2>2. unflushed[m].at \in Offsets
    BY InQueue
  <2>3. Dist(unflushed[m].at) >= JLen - InUse
    BY DEF IInv, Queued
  <2>4. Dist(unflushed[m].at) \in Nat
    BY <1>5, <2>2
  <2>5. Dist(unflushed[m].at) >= n
    BY <1>1, <1>2, <1>4, <2>3, <2>4
  <2>6. QED
    BY <1>5, <2>1, <2>2, <2>5
<1>11. Queued'
  <2>1. \A m \in DOMAIN unflushed : m + 1 \in DOMAIN unflushed =>
          Dist(unflushed[m + 1].at)' = Dist(unflushed[m + 1].at)
    BY <1>10
  <2>2. \A m \in DOMAIN unflushed :
          /\ log'[unflushed[m].at] = Cell("desc", unflushed[m].id, unflushed[m].blocks)
          /\ unflushed[m].id < nextId
    BY <1>10 DEF IInv, Queued
  <2>3. InUse <= JLen
    BY DEF IInv, Queued
  <2>4. \A m \in DOMAIN unflushed :
          /\ Dist(unflushed[m].at)' >= JLen - InUse
          /\ Dist(unflushed[m].at)' + Extent(unflushed[m].blocks) <= JLen
          /\ m = 1 => Dist(unflushed[m].at)' = JLen - InUse
          /\ m + 1 \in DOMAIN unflushed =>
               Dist(unflushed[m + 1].at)' = Dist(unflushed[m].at)' + Extent(unflushed[m].blocks)
          /\ m + 1 \notin DOMAIN unflushed =>
               Dist(unflushed[m].at)' + Extent(unflushed[m].blocks) = JLen
          /\ \A l \in DOMAIN unflushed : m < l =>
               Dist(unflushed[m].at)' + Extent(unflushed[m].blocks) <= Dist(unflushed[l].at)'
    BY <1>10, <2>1 DEF IInv, Queued
  <2>5. QED
    BY <1>1, <1>3, <2>2, <2>3, <2>4 DEF Queued
<1>12. FirstLap'
  <2>1. \A k \in Offsets : log'[k].kind = "desc" /\ log'[k].id # nextId => log'[k] = log[k]
    <3> SUFFICES ASSUME NEW k \in Offsets, log'[k].kind = "desc", log'[k].id # nextId
                 PROVE  log'[k] = log[k]
      OBVIOUS
    <3>1. Dist(k) \in Nat /\ (Dist(k) < n => log'[k] = CellOf(w, Dist(k)))
      BY <1>5
    <3>2. ~(Dist(k) < n)
      BY <3>1, CellsOf
    <3>3. QED
      BY <1>5, <3>1, <3>2
  <2>2. QED
    BY <1>1, <1>3, <2>1 DEF IInv, FirstLap
<1>13. QED
  BY <1>6, <1>8, <1>9, <1>11, <1>12 DEF IInv

(* The oldest transaction is flushed.                                      *)
LEMMA FlushPreserves ==
  ASSUME IInv, Flush
  PROVE  IInv'
<1> DEFINE u == unflushed
           L == Len(Tail(u))
           e == Extent(Head(u).blocks)
<1>1. /\ u # <<>> /\ flushed' = Head(u).id /\ replay' = (Head(u).at + e) % JLen
      /\ unflushed' = Tail(u) /\ verdict' = "none"
      /\ log' = log /\ pos' = pos /\ nextId' = nextId /\ wrapped' = wrapped
  BY DEF Flush
<1>2. /\ Typed /\ u \in Seq(Transactions) /\ pos \in Offsets /\ JLen \in Nat \ {0}
      /\ nextId \in Int /\ MaxId \in Nat
  BY LenAssumption, MaxIdAssumption DEF IInv, Typed
<1>3. /\ L \in Nat /\ DOMAIN u = 1..(L + 1) /\ DOMAIN unflushed' = 1..L
      /\ unflushed' \in Seq(Transactions) /\ Head(u) = u[1]
      /\ \A n \in 1..L : unflushed'[n] = u[n + 1]
  BY <1>1, <1>2
<1>4. Head(u) \in Transactions /\ e \in 3..JLen /\ Head(u).at \in Offsets /\ Head(u).id \in 1..MaxId
  <2>1. Head(u) \in Transactions
    BY <1>1, <1>2
  <2>2. QED
    BY <2>1, InTransactions
<1>5. InUse \in Nat /\ InUse' \in Nat /\ InUse' = InUse - e
  <2>1. Used(Tail(u)) \in Nat /\ Used(u) = Used(Tail(u)) + e
    BY <1>1, <1>2, UsedTail
  <2>2. Used(u) \in Nat /\ Used(Tail(u)) = Used(u) - e
    <3> HIDE DEF e
    <3>1. e \in Nat
      BY <1>4
    <3>2. QED
      BY <2>1, <3>1
  <2>3. InUse' = Used(Tail(u))
    BY <1>1 DEF InUse, Used
  <2>4. InUse = Used(u)
    BY InUseIsUsed
  <2> HIDE DEF e
  <2>5. QED
    BY <2>1, <2>2, <2>3, <2>4
<1> HIDE DEF L, e
<1>15. /\ JLen \in Int /\ e \in Int /\ 0 < e /\ e <= JLen
       /\ pos \in Int /\ pos < JLen
       /\ InUse \in Int /\ InUse' \in Int /\ 0 <= InUse'
  BY <1>2, <1>4, <1>5 DEF Offsets
<1>6. /\ (Head(u).at + e) % JLen \in Offsets
      /\ (Head(u).at + e) % JLen = IF Head(u).at + e < JLen THEN Head(u).at + e
                                   ELSE Head(u).at + e - JLen
  <2>1. e \in 1..JLen
    BY <1>4
  <2>2. QED
    BY <1>4, <2>1, Forward
<1>7. Typed'
  <2>1. /\ replay' \in Offsets /\ pos' \in Offsets
        /\ flushed' \in 0..MaxId /\ nextId' \in 1..(MaxId + 1)
        /\ unflushed' \in Seq(Transactions)
    <3>1. replay \in Offsets /\ pos \in Offsets /\ nextId \in 1..(MaxId + 1)
      BY <1>2 DEF Typed
    <3>2. Head(u).id \in 0..MaxId
      BY <1>2, <1>4
    <3>3. QED
      BY <1>1, <1>3, <1>6, <3>1, <3>2
  <2>2. wrapped' \in BOOLEAN
    BY <1>1, <1>2, Zenon DEF Typed
  <2>3. QED
    BY <1>1, <1>2, <2>1, <2>2 DEF Typed
<1>8. Described' /\ Committed'
  <2>1. \A k \in Offsets : Whole(k)' = Whole(k)
    BY <1>1 DEF Whole, Dist, CommitOffset
  <2>2. QED
    BY <1>1, <2>1 DEF IInv, Described, Committed
<1> DEFINE d(n) == Dist(u[n].at)
           x(n) == Extent(u[n].blocks)
<1>9. ASSUME NEW n \in 1..(L + 1)
      PROVE  /\ u[n].id < nextId
             /\ log[u[n].at] = Cell("desc", u[n].id, u[n].blocks)
             /\ d(n) \in Nat /\ x(n) \in Nat
             /\ d(n) >= JLen - InUse /\ d(n) + x(n) <= JLen
             /\ n = 1 => d(n) = JLen - InUse
             /\ n + 1 \in 1..(L + 1) => d(n + 1) = d(n) + x(n)
             /\ \A m \in 1..(L + 1) : n < m => d(n) + x(n) <= d(m)
             /\ n + 1 \notin 1..(L + 1) => d(n) + x(n) = JLen
  <2>1. n \in DOMAIN unflushed
    BY <1>3
  <2>2. u[n].at \in Offsets /\ x(n) \in Nat
    BY <2>1, InQueue, Extents
  <2>3. d(n) \in Nat
    BY <1>2, <2>2, <1>4, Advance DEF Dist, Offsets
  <2>4. QED
    BY <1>3, <2>1, <2>2, <2>3 DEF IInv, Queued
<1>10. x(1) = e /\ 1 \in 1..(L + 1)
  BY <1>3 DEF e
<1> HIDE DEF d, x
<1>11. ASSUME NEW n \in 1..L
       PROVE  LET t == u[n + 1] IN
              /\ t.id < nextId
              /\ log[t.at] = Cell("desc", t.id, t.blocks)
              /\ d(n + 1) >= JLen - InUse' /\ d(n + 1) + x(n + 1) <= JLen
              /\ n = 1 => d(n + 1) = JLen - InUse'
              /\ n + 1 \in 1..L => d((n + 1) + 1) = d(n + 1) + x(n + 1)
              /\ \A m \in 1..L : n < m => d(n + 1) + x(n + 1) <= d(m + 1)
              /\ n + 1 \notin 1..L => d(n + 1) + x(n + 1) = JLen
  <2>1. n + 1 \in 1..(L + 1) /\ 1 < n + 1
    BY <1>3
  <2>2. /\ u[n + 1].id < nextId
        /\ log[u[n + 1].at] = Cell("desc", u[n + 1].id, u[n + 1].blocks)
        /\ d(n + 1) \in Nat /\ x(n + 1) \in Nat /\ d(n + 1) + x(n + 1) <= JLen
        /\ (n + 1) + 1 \in 1..(L + 1) => d((n + 1) + 1) = d(n + 1) + x(n + 1)
        /\ (n + 1) + 1 \notin 1..(L + 1) => d(n + 1) + x(n + 1) = JLen
    BY <1>9, <2>1
  <2>3. d(1) = JLen - InUse /\ d(1) + e <= d(n + 1) /\ d(1) \in Nat
    BY <1>9, <1>10, <2>1
  <2>4. d(n + 1) >= JLen - InUse'
    <3>1. JLen \in Int /\ e \in Int /\ InUse' \in Int /\ d(n + 1) \in Int
      BY <1>2, <1>4, <1>5, <2>2
    <3>2. QED
      BY <1>5, <2>3, <3>1
  <2>5. n = 1 => d(n + 1) = JLen - InUse'
    <3>1. n = 1 => d(1 + 1) = d(1) + e
      <4>1. n = 1 => 1 + 1 \in 1..(L + 1)
        BY <2>1
      <4>2. QED
        BY <1>9, <1>10, <4>1
    <3>2. JLen \in Int /\ e \in Int /\ InUse' \in Int
      BY <1>2, <1>4, <1>5
    <3>3. QED
      BY <1>5, <2>3, <3>1, <3>2
  <2>6. \A m \in 1..L : n < m => d(n + 1) + x(n + 1) <= d(m + 1)
    <3>1. \A m \in 1..L : n < m => m + 1 \in 1..(L + 1) /\ n + 1 < m + 1
      BY <1>3
    <3>2. QED
      BY <1>9, <2>1, <3>1
  <2>7. n + 1 \in 1..L <=> (n + 1) + 1 \in 1..(L + 1)
    BY <1>3
  <2>8. QED
    BY <2>2, <2>4, <2>5, <2>6, <2>7
<1>12. Queued'
  <2>1. InUse' <= JLen
    <3>1. InUse <= JLen
      BY DEF IInv, Queued
    <3>2. QED
      BY <1>5, <1>15, <3>1
  <2>2. \A n \in 1..L : /\ Dist(unflushed[n].at)' = d(n + 1)
                        /\ Extent(unflushed'[n].blocks) = x(n + 1)
    BY <1>1, <1>3 DEF Dist, d, x
  <2>3. \A n \in 1..L : n + 1 \in 1..L => Dist(unflushed[n + 1].at)' = d((n + 1) + 1)
    BY <1>1, <1>3 DEF Dist, d
  <2>4. \A n \in 1..L :
          /\ unflushed'[n].id < nextId'
          /\ log'[unflushed'[n].at] = Cell("desc", unflushed'[n].id, unflushed'[n].blocks)
    BY <1>1, <1>3, <1>11
  <2>5. \A n \in 1..L :
          /\ Dist(unflushed[n].at)' >= JLen - InUse'
          /\ Dist(unflushed[n].at)' + Extent(unflushed'[n].blocks) <= JLen
          /\ n = 1 => Dist(unflushed[n].at)' = JLen - InUse'
          /\ n + 1 \in 1..L =>
               Dist(unflushed[n + 1].at)'
                 = Dist(unflushed[n].at)' + Extent(unflushed'[n].blocks)
          /\ \A m \in 1..L : n < m =>
               Dist(unflushed[n].at)' + Extent(unflushed'[n].blocks) <= Dist(unflushed[m].at)'
          /\ n + 1 \notin 1..L =>
               Dist(unflushed[n].at)' + Extent(unflushed'[n].blocks) = JLen
    BY <1>11, <2>2, <2>3
  <2>6. QED
    BY <1>3, <2>1, <2>4, <2>5 DEF Queued
<1>13. FirstLap'
  <2> SUFFICES ASSUME ~wrapped
               PROVE  /\ replay' + InUse' = pos
                      /\ \A k \in Offsets :
                           log[k].kind = "desc" /\ log[k].id # nextId /\ replay' <= k =>
                             \E n \in 1..L : unflushed'[n].at = k
    BY <1>1, <1>3 DEF FirstLap
  <2>1. replay + InUse = pos /\ replay \in Offsets
    BY <1>2 DEF IInv, FirstLap, Typed
  <2>2. Head(u).at = replay
    <3>1. d(1) = JLen - InUse /\ Dist(Head(u).at) = d(1)
      BY <1>3, <1>9, <1>10 DEF d
    <3>2. Head(u).at - pos \in Int /\ -JLen <= Head(u).at - pos /\ Head(u).at - pos < 2 * JLen
          /\ Head(u).at - pos < JLen
      BY <1>2, <1>4 DEF Offsets
    <3>3. Dist(Head(u).at) = IF Head(u).at - pos < 0 THEN Head(u).at - pos + JLen
                             ELSE Head(u).at - pos
      BY <3>2, OneLap DEF Dist
    <3>4. Head(u).at \in Int /\ pos \in Int /\ JLen \in Int /\ InUse \in Int /\ replay \in Int
          /\ Head(u).at < JLen /\ 0 <= replay
      BY <1>2, <1>4, <1>5, <2>1 DEF Offsets
    <3>5. QED
      BY <2>1, <3>1, <3>3, <3>4
  <2>3. replay' = replay + e
    <3>1. replay \in Int
      BY <2>1 DEF Offsets
    <3>2. replay + e < JLen
      BY <1>5, <1>15, <2>1, <3>1
    <3>3. QED
      BY <1>1, <1>6, <2>2, <3>2
  <2>4. replay' + InUse' = pos
    <3>1. replay \in Int
      BY <2>1 DEF Offsets
    <3>2. QED
      BY <1>5, <1>15, <2>1, <2>3, <3>1
  <2>5. ASSUME NEW k \in Offsets, log[k].kind = "desc", log[k].id # nextId, replay' <= k
        PROVE  \E n \in 1..L : unflushed'[n].at = k
    <3>1. replay <= k /\ replay # k
      BY <1>2, <1>4, <2>1, <2>3, <2>5 DEF Offsets
    <3>2. PICK n \in 1..(L + 1) : u[n].at = k
      BY <1>3, <2>5, <3>1 DEF IInv, FirstLap
    <3>3. n # 1
      BY <1>3, <2>2, <3>1, <3>2
    <3>4. n - 1 \in 1..L /\ (n - 1) + 1 = n
      BY <1>3, <3>3
    <3>5. unflushed'[n - 1].at = k
      BY <1>3, <3>2, <3>4
    <3>6. QED
      BY <3>4, <3>5
  <2>6. QED
    BY <2>4, <2>5
<1>14. QED
  BY <1>7, <1>8, <1>12, <1>13 DEF IInv

LEMMA NextIsSound == IInv /\ [Next]_vars => IInv'
<1> SUFFICES ASSUME IInv, [Next]_vars  PROVE IInv'
  OBVIOUS
<1>1. ASSUME NEW w \in Writes, Commit(w)  PROVE IInv'
  BY <1>1, CommitPreserves
<1>2. ASSUME NEW w \in Writes, NEW n \in 1..JLen, Torn(w, n)  PROVE IInv'
  BY <1>2, TornPreserves
<1>3. CASE Flush
  BY <1>3, FlushPreserves
<1>4. ASSUME UNCHANGED kernel,
             verdict' \in {"none", "accepted", "refused", "crashed", "unread"}
      PROVE  IInv'
  <2>1. /\ log' = log /\ replay' = replay /\ flushed' = flushed /\ pos' = pos
        /\ nextId' = nextId /\ unflushed' = unflushed /\ wrapped' = wrapped
    BY <1>4 DEF kernel
  <2>2. Typed'
    <3>1. wrapped' \in BOOLEAN
      BY <2>1, Zenon DEF IInv, Typed
    <3>2. QED
      BY <1>4, <2>1, <3>1 DEF IInv, Typed
  <2>3. \A k \in Offsets : Whole(k)' = Whole(k)
    BY <2>1 DEF Whole, Dist, CommitOffset
  <2>4. Described' /\ Committed'
    BY <2>1, <2>3 DEF IInv, Described, Committed
  <2>5. InUse' = InUse /\ \A n \in DOMAIN unflushed : Dist(unflushed[n].at)' = Dist(unflushed[n].at)
    BY <2>1 DEF InUse, Dist
  <2>6. Queued' /\ FirstLap'
    BY <2>1, <2>5 DEF IInv, Queued, FirstLap, Dist
  <2>7. QED
    BY <2>2, <2>4, <2>6 DEF IInv
<1>5. CASE TuneCheck
  BY <1>4, <1>5 DEF TuneCheck
<1>6. CASE TuneCheckReadFails
  BY <1>4, <1>6 DEF TuneCheckReadFails
<1>7. CASE UNCHANGED vars
  <2>1. UNCHANGED kernel /\ verdict' = verdict
    BY <1>7 DEF vars
  <2>2. verdict \in {"none", "accepted", "refused", "crashed", "unread"}
    BY DEF IInv, Typed
  <2>3. QED
    BY <1>4, <2>1, <2>2
<1>8. QED
  BY <1>1, <1>2, <1>3, <1>5, <1>6, <1>7 DEF Next

(* The ring is as the invariant describes it, however the kernel commits,  *)
(* is stopped and flushes.                                                 *)
THEOREM Sound == Spec => []IInv
<1>1. QED
  BY InitIsSound, NextIsSound, PTL DEF Spec

-----------------------------------------------------------------------------
(* A scan from an offset visits the complete transactions from there on.   *)
LEMMA VisitedAreValid ==
  ASSUME IInv, NEW from \in Offsets
  PROVE  /\ Visited(from) \subseteq Offsets
         /\ \A k \in Offsets : k \in Visited(from) <=> from <= k /\ Valid(k)
<1> DEFINE s == Pipe(from)
<1>1. Enumerates(s, from)
  BY InvSkips, PipeIsExact
<1> HIDE DEF s
<1>2. /\ s \in Seq(Nat) /\ DOMAIN s = 1..Len(s)
      /\ \A i \in 1..Len(s) : s[i] \in from..(JLen - 1) /\ Valid(s[i])
      /\ \A m \in from..(JLen - 1) : Valid(m) => \E i \in 1..Len(s) : s[i] = m
  BY <1>1 DEF Enumerates
<1>3. Visited(from) = {s[n] : n \in 1..Len(s)}
  BY <1>2 DEF Visited, s
<1>4. JLen \in Nat
  BY LenAssumption
<1>5. \A k : k \in from..(JLen - 1) <=> k \in Offsets /\ from <= k
  BY <1>4 DEF Offsets
<1>6. QED
  BY <1>2, <1>3, <1>5

(* The scan is exact, whatever stopped in the middle of a transaction, for *)
(* rings of every length: it meets every transaction that is committed and *)
(* not flushed and hands on none that is not whole.                        *)
THEOREM InvHolds == Spec => []Inv
<1>1. ASSUME IInv  PROVE Inv
  <2>1. TypeOK
    <3>1. \A k \in Offsets : log[k].kind \in {"empty", "desc", "data", "comm"}
      BY <1>1 DEF IInv, Typed, Kinds
    <3>2. \A k \in Offsets : log[k].kind = "desc" => CommitOffset(k) \in Offsets
      <4>1. \A k \in Offsets : log[k].kind = "desc" => log[k].blocks \in Writes
        BY <1>1 DEF IInv, Described
      <4>2. QED
        BY <4>1, CommitInRing DEF CommitOffset
    <3>3. InUse <= JLen
      BY <1>1 DEF IInv, Queued
    <3>4. wrapped \in BOOLEAN
      BY <1>1, Zenon DEF IInv, Typed
    <3>5. /\ replay \in Offsets /\ pos \in Offsets
          /\ flushed \in 0..MaxId /\ nextId \in 1..(MaxId + 1)
          /\ verdict \in {"none", "accepted", "refused", "crashed", "unread"}
      BY <1>1 DEF IInv, Typed
    <3>6. QED
      BY <3>1, <3>2, <3>3, <3>4, <3>5, Zenon DEF TypeOK
  <2>2. ScanFindsUnflushed
    <3> SUFFICES ASSUME NEW n \in DOMAIN unflushed  PROVE unflushed[n].at \in Visited(0)
      BY DEF ScanFindsUnflushed
    <3>1. unflushed[n].at \in Offsets /\ Valid(unflushed[n].at)
      BY <1>1, InQueue
    <3>2. 0 \in Offsets /\ 0 <= unflushed[n].at
      BY <3>1, LenAssumption DEF Offsets
    <3>3. QED
      BY <1>1, <3>1, <3>2, VisitedAreValid
  <2>3. ScanFindsWhole
    <3> SUFFICES ASSUME NEW from \in Offsets, NEW k \in Visited(from),
                        NEW n \in DOMAIN log[k].blocks
                 PROVE  log[(k + n) % JLen] = Cell("data", log[k].id, <<log[k].blocks[n]>>)
      BY DEF ScanFindsWhole
    <3>1. k \in Offsets /\ Valid(k)
      BY <1>1, VisitedAreValid
    <3>2. QED
      BY <1>1, <3>1, ValidIsWhole DEF Whole
  <2>4. QED
    BY <2>1, <2>2, <2>3 DEF Inv
<1>2. QED
  BY <1>1, Sound, PTL

(* In the first lap the unflushed transactions lie in the ring from the    *)
(* replay offset up to the kernel's next one, in the order of their ids.   *)
LEMMA InLine ==
  ASSUME IInv, ~wrapped, NEW n \in DOMAIN unflushed
  PROVE  /\ replay <= unflushed[n].at
         /\ unflushed[n].at + Extent(unflushed[n].blocks) <= replay + InUse
         /\ \A m \in DOMAIN unflushed : n < m => unflushed[n].at < unflushed[m].at
<1>1. pos \in Offsets /\ replay \in Offsets /\ replay + InUse = pos /\ InUse <= JLen
  BY DEF IInv, Typed, FirstLap, Queued
<1>2. JLen \in Int /\ pos \in Int /\ replay \in Int /\ 0 <= replay /\ pos < JLen
      /\ replay < JLen /\ 0 <= pos
  BY <1>1, LenAssumption DEF Offsets
<1>3. InUse \in Int
  <2>1. unflushed \in Seq(Transactions)
    BY DEF IInv, Typed
  <2>2. PICK s : Totals(unflushed, s) /\ Used(unflushed) = s[Len(unflushed)]
    BY <2>1, UsedIsTotal
  <2>3. Len(unflushed) \in 0..Len(unflushed)
    BY <2>1
  <2>4. QED
    BY <2>2, <2>3, InUseIsUsed DEF Totals
<1>4. ASSUME NEW m \in DOMAIN unflushed
      PROVE  /\ unflushed[m].at \in Int /\ Extent(unflushed[m].blocks) \in 3..JLen
             /\ Dist(unflushed[m].at) \in Int
             /\ Dist(unflushed[m].at) = unflushed[m].at - pos + JLen
             /\ Dist(unflushed[m].at) >= JLen - InUse
             /\ Dist(unflushed[m].at) + Extent(unflushed[m].blocks) <= JLen
  <2>1. unflushed[m].at \in Offsets /\ Extent(unflushed[m].blocks) \in 3..JLen
    BY InQueue, Extents
  <2>2. /\ Dist(unflushed[m].at) >= JLen - InUse
        /\ Dist(unflushed[m].at) + Extent(unflushed[m].blocks) <= JLen
    BY DEF IInv, Queued
  <2>3. \A a \in Offsets : /\ a \in Int /\ a < JLen
                           /\ Dist(a) = IF a - pos < 0 THEN a - pos + JLen ELSE a - pos
    <3> SUFFICES ASSUME NEW a \in Offsets
                 PROVE  /\ a \in Int /\ a < JLen
                        /\ Dist(a) = IF a - pos < 0 THEN a - pos + JLen ELSE a - pos
      OBVIOUS
    <3>1. a \in Int /\ a < JLen /\ 0 <= a
      BY <1>2 DEF Offsets
    <3>2. a - pos \in Int /\ -JLen <= a - pos /\ a - pos < 2 * JLen /\ a - pos < JLen
      BY <1>2, <3>1
    <3>3. QED
      BY <3>1, <3>2, OneLap DEF Dist
  <2>4. unflushed[m].at < pos
    <3>1. \A a, d \in Int : a < JLen /\ d >= JLen - InUse /\ d = a - pos => a < pos
      BY <1>1, <1>2, <1>3
    <3>2. unflushed[m].at \in Int /\ pos \in Int /\ unflushed[m].at < JLen
      BY <1>2, <2>1, <2>3
    <3>3. ~(unflushed[m].at - pos < 0) => Dist(unflushed[m].at) = unflushed[m].at - pos
      BY <2>1, <2>3
    <3>4. QED
      BY <2>2, <3>1, <3>2, <3>3
  <2>5. QED
    BY <1>2, <2>1, <2>2, <2>3, <2>4
<1>5. \A m \in DOMAIN unflushed : n < m =>
        Dist(unflushed[n].at) + Extent(unflushed[n].blocks) <= Dist(unflushed[m].at)
  BY DEF IInv, Queued
<1>6. \A a, d, x \in Int : d = a - pos + JLen /\ d >= JLen - InUse /\ d + x <= JLen =>
        replay <= a /\ a + x <= replay + InUse
  BY <1>1, <1>2, <1>3
<1>7. Extent(unflushed[n].blocks) \in Int
  BY <1>4
<1>8. ASSUME NEW m \in DOMAIN unflushed, n < m  PROVE unflushed[n].at < unflushed[m].at
  <2>1. \A a, b, c, d, x \in Int :
          c = a - pos + JLen /\ d = b - pos + JLen /\ x > 0 /\ c + x <= d => a < b
    BY <1>2
  <2>2. Extent(unflushed[n].blocks) > 0
    BY <1>2, <1>4
  <2>3. /\ unflushed[n].at \in Int /\ unflushed[m].at \in Int
        /\ Dist(unflushed[n].at) \in Int /\ Dist(unflushed[m].at) \in Int
        /\ Dist(unflushed[n].at) = unflushed[n].at - pos + JLen
        /\ Dist(unflushed[m].at) = unflushed[m].at - pos + JLen
    BY <1>4
  <2>4. Dist(unflushed[n].at) + Extent(unflushed[n].blocks) <= Dist(unflushed[m].at)
    BY <1>5, <1>8
  <2>5. QED
    BY <1>7, <2>1, <2>2, <2>3, <2>4
<1>9. QED
  BY <1>4, <1>6, <1>7, <1>8

(* Until the ring is full for the first time, what reiserfs_journal_read   *)
(* finds of a block some unflushed transaction holds is its newest version,*)
(* in every ring whose length is a power of two, as long as the masked     *)
(* number stays inside (journal.c:235-276).                                *)
THEOREM FirstLapReadHolds == Spec => []FirstLapRead
<1>1. ASSUME IInv  PROVE FirstLapRead
  <2> SUFFICES ASSUME PowerOfTwo, NEW b \in Blocks, Newest(b) # 0, ~wrapped,
                      JStart + InUse + replay <= JLen
               PROVE  ReadBlock(JournalRead(b)) = Cell("data", Newest(b), <<b>>)
    BY DEF FirstLapRead
  <2> DEFINE u == unflushed
             has == {n \in DOMAIN u : \E k \in DOMAIN u[n].blocks : u[n].blocks[k] = b}
             g == CHOOSE n \in has : \A m \in has : m <= n
             order == Pipe(replay)
             holding == {m \in DOMAIN order : Copies(order[m], b) # {}}
             m == CHOOSE x \in holding : \A y \in holding : y <= x
             n == CHOOSE x \in Copies(order[m], b) : \A y \in Copies(order[m], b) : y <= x
             found == FoundAt(order[m], n)
  <2>1. has # {} /\ Newest(b) = u[g].id
    BY DEF Newest
  <2>2. JournalRead(b) = IF holding = {} \/ found > JStart + JLen - 1 THEN 0 ELSE found
    BY DEF JournalRead
  <2>3. u \in Seq(Transactions) /\ replay \in Offsets /\ JLen \in Nat \ {0} /\ JStart \in Nat
        /\ Len(u) \in Nat /\ DOMAIN u = 1..Len(u)
    BY <1>1, LenAssumption, JStartAssumption DEF IInv, Typed
  <2>4. g \in has /\ \A k \in has : k <= g
    <3>1. has \subseteq 0..Len(u)
      BY <2>3
    <3> HIDE DEF has
    <3>2. \E k \in has : \A l \in has : l <= k
      BY <2>1, <2>3, <3>1, Greatest
    <3>3. QED
      BY <3>2
  <2> HIDE DEF g, n, m, found
  <2>5. Enumerates(order, replay)
    BY <1>1, <2>3, InvSkips, PipeIsExact
  <2> HIDE DEF order
  <2>6. /\ order \in Seq(Nat) /\ Len(order) \in Nat /\ DOMAIN order = 1..Len(order)
        /\ \A i \in 1..Len(order) : order[i] \in replay..(JLen - 1) /\ Valid(order[i])
        /\ \A i, j \in 1..Len(order) : i < j => order[i] < order[j]
        /\ \A k \in replay..(JLen - 1) : Valid(k) => \E i \in 1..Len(order) : order[i] = k
    BY <2>5 DEF Enumerates
  <2> DEFINE at == u[g].at
             w == u[g].blocks
  <2>7. /\ at \in Offsets /\ w \in Writes /\ log[at] = Cell("desc", u[g].id, w)
        /\ Whole(at) /\ Valid(at) /\ replay <= at
        /\ at + Extent(w) <= replay + InUse
    <3>1. g \in DOMAIN unflushed
      BY <2>4
    <3>2. QED
      BY <1>1, <3>1, InQueue, InLine
  <2>8. log[at].blocks = w /\ log[at].id = u[g].id
    BY <2>7 DEF Cell
  <2>9. PICK i \in 1..Len(order) : order[i] = at
    <3>1. at \in replay..(JLen - 1)
      BY <2>3, <2>7 DEF Offsets
    <3>2. QED
      BY <2>6, <2>7, <3>1
  <2>10. Copies(at, b) # {}
    BY <2>4, <2>8 DEF Copies
  <2>11. i \in holding
    BY <2>6, <2>9, <2>10
  <2>12. m \in holding /\ \A k \in holding : k <= m
    <3>1. holding \subseteq 0..Len(order)
      BY <2>6
    <3>2. holding # {}
      BY <2>11
    <3> HIDE DEF holding
    <3>3. \E k \in holding : \A l \in holding : l <= k
      BY <2>6, <3>1, <3>2, Greatest
    <3>4. QED
      BY <3>3 DEF m
  <2>13. order[m] = at
    <3>1. m \in 1..Len(order) /\ Copies(order[m], b) # {} /\ i <= m
      BY <2>6, <2>11, <2>12
    <3>2. order[m] \in replay..(JLen - 1) /\ Valid(order[m])
      BY <2>6, <3>1
    <3>3. order[m] \in Offsets /\ replay <= order[m] /\ order[m] \in Int
      BY <2>3, <3>2 DEF Offsets
    <3>4. log[order[m]].kind = "desc" /\ log[order[m]].id # nextId
      BY <1>1, <3>2, <3>3, ValidIsWhole
    <3>5. PICK k \in DOMAIN u : u[k].at = order[m]
      BY <1>1, <3>3, <3>4 DEF IInv, FirstLap
    <3>6. log[order[m]].blocks = u[k].blocks
      <4>1. log[u[k].at] = Cell("desc", u[k].id, u[k].blocks)
        BY <1>1, <3>5, InQueue
      <4>2. log[order[m]] = Cell("desc", u[k].id, u[k].blocks)
        BY <3>5, <4>1
      <4>3. QED
        BY <4>2 DEF Cell
    <3>7. k \in has
      BY <3>1, <3>5, <3>6 DEF Copies
    <3>8. k <= g /\ k \in Int /\ g \in Int /\ g \in DOMAIN u
      BY <2>3, <2>4, <3>7
    <3>9. k < g => u[k].at < u[g].at
      BY <1>1, <3>8, InLine
    <3>10. i < m => order[i] < order[m]
      BY <2>6, <3>1
    <3>11. u[k].at \in Int /\ at \in Int
      BY <2>3, <2>7, <3>3, <3>5 DEF Offsets
    <3>12. CASE k = g
      BY <3>5, <3>12
    <3>13. CASE k < g
      <4>1. order[m] < order[i]
        BY <2>9, <3>5, <3>9, <3>13
      <4>2. i = m \/ i < m
        BY <3>1
      <4>3. order[i] \in Int
        BY <2>9, <3>11
      <4>4. QED
        BY <3>3, <3>10, <4>1, <4>2, <4>3
    <3>14. QED
      BY <3>8, <3>12, <3>13
  <2>14. n \in 1..Len(w) /\ w[n] = b /\ Len(w) \in Nat /\ Extent(w) = Len(w) + 2
    <3>1. w \in Seq(Blocks) /\ Len(w) \in Nat /\ DOMAIN w = 1..Len(w) /\ Extent(w) = Len(w) + 2
      BY <2>7, Extents
    <3>2. Copies(at, b) = {x \in 1..Len(w) : w[x] = b}
      BY <2>8, <3>1 DEF Copies
    <3> HIDE DEF w, at
    <3>3. Copies(at, b) \subseteq 0..Len(w)
      BY <3>1, <3>2
    <3>4. \E x \in Copies(at, b) : \A y \in Copies(at, b) : y <= x
      BY <2>10, <3>1, <3>3, Greatest
    <3>5. n \in Copies(at, b)
      BY <2>13, <3>4 DEF n
    <3>6. QED
      BY <3>1, <3>2, <3>5
  <2> HIDE DEF w, at
  <2>15. /\ JStart + at + n \in Int /\ 0 <= JStart + at + n /\ JStart + at + n < JLen
         /\ at + n \in Int /\ 0 <= at + n /\ at + n < JLen
         /\ at \in Int /\ n \in Int /\ JStart \in Int /\ JLen \in Int
    <3>1. /\ at \in Int /\ 0 <= at /\ replay \in Int /\ JStart \in Int /\ JLen \in Int
          /\ n \in Int /\ 1 <= n /\ n <= Len(w) /\ Len(w) \in Int /\ 0 <= JStart
      BY <2>3, <2>7, <2>14 DEF Offsets
    <3>2. replay + InUse = pos /\ pos \in Int
      BY <1>1 DEF IInv, FirstLap, Typed, Offsets
    <3>3. at + (Len(w) + 2) <= pos
      BY <2>7, <2>14, <3>2
    <3>4. InUse \in Int
      <4>1. PICK s : Totals(unflushed, s) /\ Used(unflushed) = s[Len(unflushed)]
        BY <2>3, UsedIsTotal
      <4>2. Len(unflushed) \in 0..Len(unflushed)
        BY <2>3
      <4>3. QED
        BY <4>1, <4>2, InUseIsUsed DEF Totals
    <3>5. JStart + pos <= JLen
      BY <3>1, <3>2, <3>4
    <3>6. QED
      BY <3>1, <3>2, <3>3, <3>5
  <2>16. found = JStart + at + n
    <3>1. JStart + at + n \in Offsets
      BY <2>15 DEF Offsets
    <3>2. (JStart + at + n) % JLen = JStart + at + n
      BY <3>1, InRing
    <3>3. QED
      BY <2>13, <3>2 DEF found, FoundAt, Masked
  <2>17. JournalRead(b) = JStart + at + n
    <3>1. ~(JStart + at + n > JStart + JLen - 1)
      BY <2>15
    <3>2. holding # {}
      BY <2>11
    <3> HIDE DEF holding
    <3>3. QED
      BY <2>2, <2>16, <3>1, <3>2
  <2>18. ReadBlock(JStart + at + n) = log[at + n]
    <3>1. ~(JStart + at + n < JStart) /\ (JStart + at + n) - JStart = at + n
      BY <2>15
    <3>2. QED
      BY <3>1 DEF ReadBlock
  <2>19. log[at + n] = Cell("data", u[g].id, <<b>>)
    <3>1. n \in DOMAIN log[at].blocks
      BY <2>7, <2>8, <2>14, Extents
    <3>2. log[(at + n) % JLen] = Cell("data", log[at].id, <<log[at].blocks[n]>>)
      BY <2>7, <3>1 DEF Whole
    <3>3. at + n \in Offsets
      BY <2>15 DEF Offsets
    <3>4. (at + n) % JLen = at + n
      BY <3>3, InRing
    <3>5. QED
      BY <2>8, <2>14, <3>2, <3>4
  <2>20. QED
    BY <2>1, <2>17, <2>18, <2>19
<1>2. QED
  BY <1>1, Sound, PTL

-----------------------------------------------------------------------------
(* The devices.                                                            *)
(***************************************************************************)
(* The inductive invariant.                                                *)
(***************************************************************************)
(* What a unit of a device or of a buffer may be.                          *)
Units == Held \cup {0, "behind"}

Dals == [data : Names \cup {Closed}, fd : 0..MaxFd, blocksize : Nat \ {0},
         flags : {"r", "rw", Closed}]

DevicesTyped ==
  /\ content \in [DOMAIN Contents -> Seq(Units)]
  /\ fds \in [1..MaxFd -> DOMAIN Contents \cup {Closed}]
  /\ dals \in [Handles -> Dals]
  /\ block \in [offset : Nat, dal : Handles \cup {Closed}, data : Seq(Units)]
  /\ lost \in BOOLEAN

(* An opened device has a descriptor, and a block size that dal_open takes. *)
HandlesDescribed ==
  \A h \in Handles : dals[h].data # Closed =>
    dals[h].fd \in 1..MaxFd /\ PowOfTwo(dals[h].blocksize)

(* The buffer belongs to an opened device.                                 *)
Owned == block.dal # Closed => block.dal \in Handles /\ dals[block.dal].data # Closed

LengthsKept ==
  \A device \in DOMAIN Contents :
    Len(content[device]) # Len(Contents[device]) => device \in Regular

(* As OwnDescriptor says it.                                               *)
Apart ==
  ~lost => \A h \in Handles : dals[h].data # Closed =>
    /\ fds[dals[h].fd] = Target[dals[h].data]
    /\ \A other \in Handles : other # h /\ dals[other].data # Closed =>
         dals[other].fd # dals[h].fd

DevicesIInv == DevicesTyped /\ HandlesDescribed /\ Owned /\ LengthsKept /\ Apart /\ TransferIsWhole

-----------------------------------------------------------------------------
(* open() answers a descriptor that is free, when one is.                  *)
LEMMA LowestIsFree ==
  ASSUME NEW table, NEW f \in 1..MaxFd, table[f] = Closed
  PROVE  Lowest(table) \in 1..MaxFd /\ table[Lowest(table)] = Closed
<1>1. Free(table) \subseteq Nat /\ Free(table) # {}
  BY DEF Free
<1>2. \E fd \in Free(table) : \A other \in Free(table) : fd <= other
  BY <1>1, Least
<1>3. Lowest(table) \in Free(table)
  BY <1>2 DEF Lowest
<1>4. QED
  BY <1>3 DEF Free

(* The units of the devices at first are units.                            *)
LEMMA ContentsAreUnits == Contents \in [DOMAIN Contents -> Seq(Units)]
<1>1. Seq(Held) \subseteq Seq(Units)
  BY DEF Units
<1>2. QED
  BY <1>1, ContentsAssumption

(* What lies inside a device is found in full.                             *)
LEMMA UnitsInside ==
  ASSUME NEW s \in Seq(Units), NEW off \in Nat, NEW len \in Nat, off + len <= Len(s)
  PROVE  /\ UnitsAt(s, off, len) \in Seq(Units) /\ Len(UnitsAt(s, off, len)) = len
         /\ \A i \in 1..len : UnitsAt(s, off, len)[i] = s[off + i]
<1>1. UnitsAt(s, off, len) = SubSeq(s, off + 1, off + len)
  BY DEF UnitsAt
<1>2. off + 1 \in Int /\ off + len \in Int /\ Len(s) \in Nat /\ 1 <= off + 1
      /\ (off + len) - (off + 1) + 1 = len
  OBVIOUS
<1>3. SubSeq(s, off + 1, off + len) = [i \in 1..len |-> s[(off + 1) + i - 1]]
  BY <1>2
<1>4. \A i \in 1..len : (off + 1) + i - 1 = off + i /\ off + i \in 1..Len(s)
  BY <1>2
<1>5. \A i \in 1..len : s[off + i] \in Units
  BY <1>4
<1>6. SubSeq(s, off + 1, off + len) = [i \in 1..len |-> s[off + i]]
  BY <1>3, <1>4
<1>7. [i \in 1..len |-> s[off + i]] \in Seq(Units)
  BY <1>5
<1>8. Len([i \in 1..len |-> s[off + i]]) = len
  OBVIOUS
<1>9. QED
  BY <1>1, <1>6, <1>7, <1>8

(* A block inside a device ends inside it.                                 *)
LEMMA InsideFits ==
  ASSUME NEW n \in Nat, NEW size \in Nat \ {0}, NEW nr \in Nat, nr < n \div size
  PROVE  nr * size \in Nat /\ nr * size + size <= n
<1> DEFINE q == n \div size
           r == n % size
<1>1. q \in Int /\ r \in 0..(size - 1) /\ n = size * q + r
  OBVIOUS
<1> HIDE DEF q, r
<1>2. (nr + 1) * size <= q * size
  BY <1>1 DEF q
<1>3. (nr + 1) * size = nr * size + size /\ nr * size \in Nat /\ q * size \in Int
      /\ size * q = q * size
  BY <1>1
<1>4. QED
  BY <1>1, <1>2, <1>3

(* A step that transfers nothing leaves no claim about a transfer.         *)
LEMMA NoTransfer == last' = Nothing => TransferIsWhole'
BY DEF TransferIsWhole, Nothing

LEMMA DevicesInitIsSound == DevicesInit => DevicesIInv
<1> SUFFICES ASSUME DevicesInit  PROVE DevicesIInv
  OBVIOUS
<1>1. \A h \in Handles : dals[h] = NoDal
  BY DEF DevicesInit
<1>2. DevicesTyped
  <2>1. content \in [DOMAIN Contents -> Seq(Units)]
    BY ContentsAreUnits DEF DevicesInit
  <2>2. dals \in [Handles -> Dals]
    <3>1. NoDal \in Dals
      BY BoundsAssumption DEF NoDal, Dals
    <3>2. QED
      BY <3>1 DEF DevicesInit
  <2>3. fds \in [1..MaxFd -> DOMAIN Contents \cup {Closed}]
    BY DEF DevicesInit
  <2>4. <<>> \in Seq(Units)
    OBVIOUS
  <2>5. QED
    BY <2>1, <2>2, <2>3, <2>4 DEF DevicesInit, DevicesTyped, NoBlock
<1>3. HandlesDescribed /\ Apart
  BY <1>1 DEF HandlesDescribed, Apart, NoDal
<1>4. Owned /\ LengthsKept /\ TransferIsWhole
  BY DEF DevicesInit, NoBlock, Nothing, Owned, LengthsKept, TransferIsWhole
<1>5. QED
  BY <1>2, <1>3, <1>4 DEF DevicesIInv

-----------------------------------------------------------------------------
(* The devices, each with its fields.                                      *)
LEMMA Fields ==
  ASSUME DevicesIInv, NEW h \in Handles
  PROVE  /\ dals[h] \in Dals
         /\ dals[h].data \in Names \cup {Closed} /\ dals[h].fd \in 0..MaxFd
         /\ dals[h].blocksize \in Nat \ {0} /\ dals[h].flags \in {"r", "rw", Closed}
         /\ h \in Opened =>
              /\ dals[h].fd \in 1..MaxFd /\ dals[h].data \in Names
              /\ PowOfTwo(dals[h].blocksize)
<1>1. dals[h] \in Dals
  BY DEF DevicesIInv, DevicesTyped
<1>2. QED
  BY <1>1 DEF Dals, Opened, DevicesIInv, HandlesDescribed

LEMMA FileOpenPreserves ==
  ASSUME DevicesIInv, NEW h \in Handles, NEW name \in Names, NEW size \in Sizes,
         NEW flags \in {"r", "rw"}, FileOpen(h, name, size, flags)
  PROVE  DevicesIInv'
<1> DEFINE f == Lowest(fds)
           d == [data |-> name, fd |-> f, blocksize |-> size, flags |-> flags]
<1>1. /\ h \notin Opened /\ PowOfTwo(size) /\ Free(fds) # {}
      /\ fds' = [fds EXCEPT ![f] = Target[name]] /\ dals' = [dals EXCEPT ![h] = d]
      /\ last' = Nothing /\ content' = content /\ block' = block /\ lost' = lost
  BY DEF FileOpen
<1>2. f \in 1..MaxFd /\ fds[f] = Closed
  BY <1>1, LowestIsFree DEF Free
<1>3. name # Closed /\ Target[name] \in DOMAIN Contents /\ size \in Nat \ {0}
  BY NamesAssumption, SizesAssumption
<1>4. d \in Dals
  <2>1. f \in 0..MaxFd
    BY <1>2, BoundsAssumption
  <2> HIDE DEF f
  <2>2. QED
    BY <1>3, <2>1 DEF Dals
<1>5. d.data = name /\ d.fd = f /\ d.blocksize = size
  OBVIOUS
<1> HIDE DEF f, d
<1>6. DevicesTyped
  BY DEF DevicesIInv
<1>7. \A k \in Handles : dals'[k] = IF k = h THEN d ELSE dals[k]
  BY <1>1, <1>6 DEF DevicesTyped
<1>8. \A fd \in 1..MaxFd : fds'[fd] = IF fd = f THEN Target[name] ELSE fds[fd]
  BY <1>1, <1>6 DEF DevicesTyped
<1>9. DevicesTyped'
  <2>1. dals' \in [Handles -> Dals]
    BY <1>1, <1>4, <1>6 DEF DevicesTyped
  <2>2. fds' \in [1..MaxFd -> DOMAIN Contents \cup {Closed}]
    BY <1>1, <1>2, <1>3, <1>6 DEF DevicesTyped
  <2>3. lost' \in BOOLEAN
    BY <1>1, <1>6, Zenon DEF DevicesTyped
  <2>4. QED
    BY <1>1, <1>6, <2>1, <2>2, <2>3 DEF DevicesTyped
<1>10. HandlesDescribed'
  BY <1>1, <1>2, <1>5, <1>7 DEF HandlesDescribed, DevicesIInv
<1>11. Owned' /\ LengthsKept'
  <2>1. dals[h].data = Closed
    BY <1>1 DEF Opened
  <2>2. QED
    BY <1>1, <1>7, <2>1 DEF Owned, LengthsKept, DevicesIInv
<1>12. Apart'
  <2> SUFFICES ASSUME ~lost, NEW k \in Handles, dals'[k].data # Closed
               PROVE  /\ fds'[dals'[k].fd] = Target[dals'[k].data]
                      /\ \A other \in Handles : other # k /\ dals'[other].data # Closed =>
                           dals'[other].fd # dals'[k].fd
    BY <1>1 DEF Apart
  <2>1. \A o \in Handles : dals[o].data # Closed =>
          /\ dals[o].fd \in 1..MaxFd /\ fds[dals[o].fd] = Target[dals[o].data]
          /\ fds[dals[o].fd] # Closed /\ dals[o].fd # f
    <3> SUFFICES ASSUME NEW o \in Handles, dals[o].data # Closed
                 PROVE  /\ dals[o].fd \in 1..MaxFd /\ fds[dals[o].fd] = Target[dals[o].data]
                        /\ fds[dals[o].fd] # Closed /\ dals[o].fd # f
      OBVIOUS
    <3>1. dals[o].fd \in 1..MaxFd /\ dals[o].data \in Names
      BY Fields DEF Opened
    <3>2. fds[dals[o].fd] = Target[dals[o].data]
      BY DEF DevicesIInv, Apart
    <3>3. Target[dals[o].data] # Closed
      BY <3>1, NamesAssumption
    <3>4. QED
      BY <1>2, <3>1, <3>2, <3>3
  <2>2. CASE k = h
    BY <1>2, <1>5, <1>7, <1>8, <2>1, <2>2
  <2>3. CASE k # h
    <3>1. \A other \in Handles : other # k /\ dals[other].data # Closed =>
            dals[other].fd # dals[k].fd
      BY <1>7, <2>3 DEF DevicesIInv, Apart
    <3>2. QED
      BY <1>2, <1>5, <1>7, <1>8, <2>1, <2>3, <3>1
  <2>4. QED
    BY <2>2, <2>3
<1>13. QED
  BY <1>1, <1>9, <1>10, <1>11, <1>12, NoTransfer DEF DevicesIInv

LEMMA FileReopenPreserves ==
  ASSUME DevicesIInv, NEW h \in Handles, NEW flags \in {"r", "rw"}, FileReopen(h, flags)
  PROVE  DevicesIInv'
<1> DEFINE own == dals[h].fd
           closed == [fds EXCEPT ![own] = Closed]
           f == Lowest(closed)
<1>1. /\ h \in Opened /\ last' = Nothing /\ content' = content /\ block' = block
      /\ \/ /\ fds' = [closed EXCEPT ![f] = Target[dals[h].data]]
            /\ dals' = [dals EXCEPT ![h].fd = f, ![h].flags = flags]
            /\ lost' = lost
         \/ fds' = closed /\ lost' = TRUE /\ dals' = dals
  BY DEF FileReopen
<1>2. own \in 1..MaxFd /\ dals[h].data \in Names /\ dals[h].data # Closed
  BY <1>1, Fields DEF Opened
<1>3. DevicesTyped /\ HandlesDescribed
  BY DEF DevicesIInv
<1>4. /\ closed \in [1..MaxFd -> DOMAIN Contents \cup {Closed}]
      /\ \A fd \in 1..MaxFd : closed[fd] = IF fd = own THEN Closed ELSE fds[fd]
  BY <1>2, <1>3 DEF DevicesTyped
<1> HIDE DEF closed, own
<1>5. f \in 1..MaxFd /\ closed[f] = Closed
  BY <1>2, <1>4, LowestIsFree
<1> HIDE DEF f
<1>6. Target[dals[h].data] \in DOMAIN Contents
  BY <1>2, NamesAssumption
<1>7. CASE fds' = closed /\ lost' = TRUE /\ dals' = dals
  <2>1. DevicesTyped'
    BY <1>1, <1>3, <1>4, <1>7 DEF DevicesTyped
  <2>2. HandlesDescribed' /\ Owned' /\ LengthsKept' /\ Apart'
    BY <1>1, <1>7 DEF DevicesIInv, HandlesDescribed, Owned, LengthsKept, Apart
  <2>3. QED
    BY <1>1, <2>1, <2>2, NoTransfer DEF DevicesIInv
<1>8. CASE /\ fds' = [closed EXCEPT ![f] = Target[dals[h].data]]
           /\ dals' = [dals EXCEPT ![h].fd = f, ![h].flags = flags]
           /\ lost' = lost
  <2>1. /\ \A k \in Handles : k # h => dals'[k] = dals[k]
        /\ dals'[h] \in Dals /\ dals'[h].fd = f /\ dals'[h].data = dals[h].data
        /\ dals'[h].blocksize = dals[h].blocksize
    <3>1. dals' = [dals EXCEPT ![h] = [[dals[h] EXCEPT !.fd = f] EXCEPT !.flags = flags]]
      BY <1>3, <1>8 DEF DevicesTyped
    <3>2. f \in 0..MaxFd /\ dals[h] \in Dals
      BY <1>5, BoundsAssumption, Fields
    <3>3. QED
      BY <1>3, <3>1, <3>2 DEF DevicesTyped, Dals
  <2>2. \A fd \in 1..MaxFd : fds'[fd] = IF fd = f THEN Target[dals[h].data] ELSE closed[fd]
    BY <1>4, <1>8
  <2>3. DevicesTyped'
    <3>1. dals' \in [Handles -> Dals]
      <4>1. \A k \in Handles : dals'[k] \in Dals
        BY <1>3, <2>1 DEF DevicesTyped
      <4>2. DOMAIN dals' = Handles /\ dals' = [k \in Handles |-> dals'[k]]
        BY <1>3, <1>8 DEF DevicesTyped
      <4>3. QED
        BY <4>1, <4>2
    <3>2. fds' \in [1..MaxFd -> DOMAIN Contents \cup {Closed}]
      BY <1>4, <1>5, <1>6, <1>8
    <3>3. lost' \in BOOLEAN
      BY <1>3, <1>8, Zenon DEF DevicesTyped
    <3>4. QED
      BY <1>1, <1>3, <3>1, <3>2, <3>3 DEF DevicesTyped
  <2>4. HandlesDescribed'
    BY <1>3, <1>5, <2>1 DEF HandlesDescribed
  <2>5. Owned' /\ LengthsKept'
    BY <1>1, <2>1 DEF DevicesIInv, Owned, LengthsKept
  <2>6. Apart'
    <3> SUFFICES ASSUME ~lost, NEW k \in Handles, dals'[k].data # Closed
                 PROVE  /\ fds'[dals'[k].fd] = Target[dals'[k].data]
                        /\ \A other \in Handles : other # k /\ dals'[other].data # Closed =>
                             dals'[other].fd # dals'[k].fd
      BY <1>8 DEF Apart
    <3>1. \A o \in Handles : o # h /\ dals[o].data # Closed =>
            /\ dals[o].fd \in 1..MaxFd /\ closed[dals[o].fd] = Target[dals[o].data]
            /\ dals[o].fd # f
      <4> SUFFICES ASSUME NEW o \in Handles, o # h, dals[o].data # Closed
                   PROVE  /\ dals[o].fd \in 1..MaxFd
                          /\ closed[dals[o].fd] = Target[dals[o].data]
                          /\ dals[o].fd # f
        OBVIOUS
      <4>1. dals[o].fd \in 1..MaxFd /\ dals[o].data \in Names
        BY Fields DEF Opened
      <4>2. fds[dals[o].fd] = Target[dals[o].data] /\ dals[o].fd # own
        BY <1>2 DEF DevicesIInv, Apart, own
      <4>3. closed[dals[o].fd] = Target[dals[o].data]
        BY <1>4, <4>1, <4>2
      <4>4. Target[dals[o].data] # Closed
        BY <4>1, NamesAssumption
      <4>5. QED
        BY <1>5, <4>1, <4>3, <4>4
    <3>2. CASE k = h
      BY <1>5, <2>1, <2>2, <3>1, <3>2
    <3>3. CASE k # h
      <4>1. \A other \in Handles : other # k /\ dals[other].data # Closed =>
              dals[other].fd # dals[k].fd
        BY <2>1, <3>3 DEF DevicesIInv, Apart
      <4>2. QED
        BY <1>5, <2>1, <2>2, <3>1, <3>3, <4>1
    <3>4. QED
      BY <3>2, <3>3
  <2>7. QED
    BY <1>1, <2>3, <2>4, <2>5, <2>6, NoTransfer DEF DevicesIInv
<1>9. QED
  BY <1>1, <1>7, <1>8

LEMMA FileClosePreserves ==
  ASSUME DevicesIInv, NEW h \in Handles, FileClose(h)
  PROVE  DevicesIInv'
<1> DEFINE own == dals[h].fd
<1>1. /\ h \in Opened /\ (block.dal # Closed => block.dal # h)
      /\ fds' = [fds EXCEPT ![own] = Closed] /\ dals' = [dals EXCEPT ![h] = NoDal]
      /\ last' = Nothing /\ content' = content /\ block' = block /\ lost' = lost
  BY DEF FileClose, HasBlock
<1>2. own \in 1..MaxFd /\ DevicesTyped /\ dals[h].data # Closed
  BY <1>1, Fields DEF DevicesIInv, Opened
<1> HIDE DEF own
<1>3. NoDal \in Dals /\ NoDal.data = Closed
  BY BoundsAssumption DEF NoDal, Dals
<1>4. \A k \in Handles : dals'[k] = IF k = h THEN NoDal ELSE dals[k]
  BY <1>1, <1>2 DEF DevicesTyped
<1>5. \A fd \in 1..MaxFd : fds'[fd] = IF fd = own THEN Closed ELSE fds[fd]
  BY <1>1, <1>2 DEF DevicesTyped
<1>6. DevicesTyped'
  <2>1. dals' \in [Handles -> Dals] /\ fds' \in [1..MaxFd -> DOMAIN Contents \cup {Closed}]
    BY <1>1, <1>2, <1>3 DEF DevicesTyped
  <2>2. lost' \in BOOLEAN
    BY <1>1, <1>2, Zenon DEF DevicesTyped
  <2>3. QED
    BY <1>1, <1>2, <2>1, <2>2 DEF DevicesTyped
<1>7. HandlesDescribed' /\ Owned' /\ LengthsKept'
  BY <1>1, <1>3, <1>4 DEF DevicesIInv, HandlesDescribed, Owned, LengthsKept
<1>8. Apart'
  <2> SUFFICES ASSUME ~lost, NEW k \in Handles, dals'[k].data # Closed
               PROVE  /\ fds'[dals'[k].fd] = Target[dals'[k].data]
                      /\ \A other \in Handles : other # k /\ dals'[other].data # Closed =>
                           dals'[other].fd # dals'[k].fd
    BY <1>1 DEF Apart
  <2>1. k # h /\ dals'[k] = dals[k] /\ dals[k].fd \in 1..MaxFd
    BY <1>3, <1>4, Fields DEF Opened
  <2>2. /\ fds[dals[k].fd] = Target[dals[k].data] /\ dals[k].fd # own
        /\ \A other \in Handles : other # k /\ dals[other].data # Closed =>
             dals[other].fd # dals[k].fd
    BY <1>2, <2>1 DEF DevicesIInv, Apart, own
  <2>3. QED
    BY <1>3, <1>4, <1>5, <2>1, <2>2
<1>9. QED
  BY <1>1, <1>6, <1>7, <1>8, NoTransfer DEF DevicesIInv

LEMMA DalSetBlocksizePreserves ==
  ASSUME DevicesIInv, NEW h \in Handles, NEW size \in Sizes, DalSetBlocksize(h, size)
  PROVE  DevicesIInv'
<1>1. /\ h \in Opened /\ dals' = [dals EXCEPT ![h] = SetBlocksize(dals[h], size)]
      /\ last' = Nothing /\ content' = content /\ fds' = fds /\ block' = block /\ lost' = lost
  BY DEF DalSetBlocksize
<1>2. DevicesTyped
  BY DEF DevicesIInv
<1> DEFINE d == SetBlocksize(dals[h], size)
<1>3. /\ d \in Dals /\ d.data = dals[h].data /\ d.fd = dals[h].fd /\ PowOfTwo(d.blocksize)
  <2>1. dals[h] \in Dals /\ PowOfTwo(dals[h].blocksize) /\ size \in Nat \ {0}
    BY <1>1, Fields, SizesAssumption
  <2>2. CASE PowOfTwo(size)
    <3>1. d = [dals[h] EXCEPT !.blocksize = size]
      BY <2>2 DEF SetBlocksize
    <3>2. d \in Dals /\ d.data = dals[h].data /\ d.fd = dals[h].fd /\ d.blocksize = size
      BY <2>1, <3>1 DEF Dals
    <3>3. QED
      BY <2>2, <3>2
  <2>3. CASE ~PowOfTwo(size)
    BY <2>1, <2>3 DEF SetBlocksize
  <2>4. QED
    BY <2>2, <2>3
<1> HIDE DEF d
<1>4. \A k \in Handles : dals'[k] = IF k = h THEN d ELSE dals[k]
  BY <1>1, <1>2 DEF DevicesTyped, d
<1>5. DevicesTyped'
  <2>1. dals' \in [Handles -> Dals]
    BY <1>1, <1>2, <1>3 DEF DevicesTyped, d
  <2>2. lost' \in BOOLEAN
    BY <1>1, <1>2, Zenon DEF DevicesTyped
  <2>3. QED
    BY <1>1, <1>2, <2>1, <2>2 DEF DevicesTyped
<1>6. \A k \in Handles : dals'[k].data = dals[k].data /\ dals'[k].fd = dals[k].fd
  BY <1>3, <1>4
<1>7. HandlesDescribed'
  BY <1>3, <1>4 DEF DevicesIInv, HandlesDescribed
<1>8. Owned' /\ LengthsKept' /\ Apart'
  BY <1>1, <1>6 DEF DevicesIInv, Owned, LengthsKept, Apart
<1>9. QED
  BY <1>1, <1>5, <1>7, <1>8, NoTransfer DEF DevicesIInv

(* The buffer alone changes.                                               *)
LEMMA BufferPreserves ==
  ASSUME DevicesIInv, content' = content, fds' = fds, dals' = dals, lost' = lost,
         block' \in [offset : Nat, dal : Handles \cup {Closed}, data : Seq(Units)],
         block'.dal # Closed => block'.dal \in Opened, TransferIsWhole'
  PROVE  DevicesIInv'
<1>1. DevicesTyped
  BY DEF DevicesIInv
<1>2. lost' \in BOOLEAN
  BY <1>1, Zenon DEF DevicesTyped
<1>3. DevicesTyped'
  BY <1>1, <1>2 DEF DevicesTyped
<1>4. HandlesDescribed' /\ Owned' /\ LengthsKept' /\ Apart'
  BY DEF DevicesIInv, HandlesDescribed, Owned, LengthsKept, Apart, Opened
<1>5. QED
  BY <1>3, <1>4 DEF DevicesIInv

(* A buffer of any length is one of units.                                 *)
LEMMA Buffers ==
  ASSUME NEW n \in Nat
  PROVE  Zeros(n) \in Seq(Units) /\ Len(Zeros(n)) = n
<1>1. 0 \in Units
  BY DEF Units
<1>2. QED
  BY <1>1 DEF Zeros

LEMMA Grown ==
  ASSUME NEW n \in Nat, NEW s \in Seq(Units)
  PROVE  [i \in 1..n |-> IF i <= Len(s) THEN s[i] ELSE "behind"] \in Seq(Units)
<1>1. "behind" \in Units
  BY DEF Units
<1>2. \A i \in 1..n : (IF i <= Len(s) THEN s[i] ELSE "behind") \in Units
  BY <1>1
<1>3. QED
  BY <1>2

(* A block has a place on its device.                                      *)
LEMMA OffsetsAre ==
  ASSUME DevicesIInv, NEW h \in Handles, NEW nr \in Nat
  PROVE  Offset(dals[h], nr) \in Nat /\ Offset(dals[h], nr) = nr * dals[h].blocksize
<1>1. dals[h].blocksize \in Nat
  BY Fields
<1>2. nr * dals[h].blocksize \in Nat
  BY <1>1
<1>3. QED
  BY <1>2 DEF Offset

LEMMA BlockAllocPreserves ==
  ASSUME DevicesIInv, NEW h \in Handles, NEW nr \in Numbers, BlockAlloc(h, nr)
  PROVE  DevicesIInv'
<1>1. /\ h \in Opened /\ block' = Allocated(h, nr) /\ last' = Nothing
      /\ content' = content /\ fds' = fds /\ dals' = dals /\ lost' = lost
  BY DEF BlockAlloc
<1>2. Offset(dals[h], nr) \in Nat
  BY OffsetsAre, BoundsAssumption
<1>3. Zeros(dals[h].blocksize) \in Seq(Units)
  BY Fields, Buffers
<1>4. /\ block' \in [offset : Nat, dal : Handles \cup {Closed}, data : Seq(Units)]
      /\ block'.dal = h
  BY <1>1, <1>2, <1>3 DEF Allocated
<1>5. QED
  BY <1>1, <1>4, NoTransfer, BufferPreserves

LEMMA BlockSetNrPreserves ==
  ASSUME DevicesIInv, NEW nr \in Numbers, BlockSetNr(nr) \/ BlockRealloc(nr)
  PROVE  DevicesIInv'
<1> DEFINE size == dals[block.dal].blocksize
           data == [i \in 1..size |-> IF i <= Len(block.data) THEN block.data[i] ELSE "behind"]
           off == Offset(dals[block.dal], nr)
<1>1. /\ HasBlock /\ last' = Nothing
      /\ content' = content /\ fds' = fds /\ dals' = dals /\ lost' = lost
      /\ \/ block' = [block EXCEPT !.offset = off]
         \/ block' = [[block EXCEPT !.data = data] EXCEPT !.offset = off]
  BY DEF BlockSetNr, BlockRealloc
<1>2. /\ block \in [offset : Nat, dal : Handles \cup {Closed}, data : Seq(Units)]
      /\ block.dal \in Handles /\ block.dal \in Opened
  BY <1>1 DEF DevicesIInv, DevicesTyped, Owned, HasBlock, Opened
<1>3. size \in Nat
  BY <1>2, Fields
<1>4. data \in Seq(Units)
  BY <1>2, <1>3, Grown
<1>5. off \in Nat
  BY <1>2, OffsetsAre, BoundsAssumption
<1> HIDE DEF size, data, off
<1>6. /\ block' \in [offset : Nat, dal : Handles \cup {Closed}, data : Seq(Units)]
      /\ block'.dal = block.dal
  BY <1>1, <1>2, <1>4, <1>5
<1>7. QED
  BY <1>1, <1>2, <1>6, NoTransfer, BufferPreserves

LEMMA BlockSetDalPreserves ==
  ASSUME DevicesIInv, NEW h \in Handles, BlockSetDal(h)
  PROVE  DevicesIInv'
<1>1. /\ h \in Opened /\ block' = [block EXCEPT !.dal = h] /\ last' = Nothing
      /\ content' = content /\ fds' = fds /\ dals' = dals /\ lost' = lost
  BY DEF BlockSetDal
<1>2. block \in [offset : Nat, dal : Handles \cup {Closed}, data : Seq(Units)]
  BY DEF DevicesIInv, DevicesTyped
<1>3. /\ block' \in [offset : Nat, dal : Handles \cup {Closed}, data : Seq(Units)]
      /\ block'.dal = h
  BY <1>1, <1>2
<1>4. QED
  BY <1>1, <1>3, NoTransfer, BufferPreserves

LEMMA BlockFreePreserves ==
  ASSUME DevicesIInv, BlockFree
  PROVE  DevicesIInv'
<1>1. /\ block' = NoBlock /\ last' = Nothing
      /\ content' = content /\ fds' = fds /\ dals' = dals /\ lost' = lost
  BY DEF BlockFree
<1>2. <<>> \in Seq(Units)
  OBVIOUS
<1>3. /\ block' \in [offset : Nat, dal : Handles \cup {Closed}, data : Seq(Units)]
      /\ block'.dal = Closed
  BY <1>1, <1>2 DEF NoBlock
<1>4. QED
  BY <1>1, <1>3, NoTransfer, BufferPreserves

(* What is inside a device is there in full.                               *)
LEMMA InsideIsThere ==
  ASSUME DevicesIInv, NEW h \in Opened, NEW nr \in Nat, Inside(h, nr)
  PROVE  /\ DeviceOf(h) \in DOMAIN Contents /\ content[DeviceOf(h)] \in Seq(Units)
         /\ Offset(dals[h], nr) \in Nat
         /\ Offset(dals[h], nr) + dals[h].blocksize <= Len(content[DeviceOf(h)])
<1> DEFINE n == Len(content[DeviceOf(h)])
           size == dals[h].blocksize
<1>1. DeviceOf(h) # Closed /\ nr < n \div size
  BY DEF Inside, DalLen
<1>2. h \in Handles /\ size \in Nat \ {0} /\ dals[h].fd \in 1..MaxFd
  BY Fields DEF Opened
<1>3. DeviceOf(h) \in DOMAIN Contents /\ content[DeviceOf(h)] \in Seq(Units)
  BY <1>1, <1>2 DEF DevicesIInv, DevicesTyped, DeviceOf
<1>4. n \in Nat
  BY <1>3
<1>5. Offset(dals[h], nr) = nr * size
  BY DEF Offset
<1> HIDE DEF n, size
<1>6. nr * size \in Nat /\ nr * size + size <= n
  BY <1>1, <1>2, <1>4, InsideFits
<1>7. QED
  BY <1>3, <1>5, <1>6 DEF n, size

(* What is read is all from the device: a block that is inside ends there. *)
LEMMA BlockReadPreserves ==
  ASSUME DevicesIInv, NEW h \in Handles, NEW nr \in Numbers, BlockRead(h, nr)
  PROVE  DevicesIInv'
<1> DEFINE c == content[DeviceOf(h)]
           size == dals[h].blocksize
           off == Offset(dals[h], nr)
           units == UnitsAt(c, off, size)
           rest == SubSeq(Zeros(size), Len(units) + 1, Len(Zeros(size)))
<1>1. /\ h \in Opened /\ Inside(h, nr)
      /\ block' = [Allocated(h, nr) EXCEPT !.data = units \o rest]
      /\ last' = [op |-> "read", dal |-> h, nr |-> nr, inside |-> TRUE]
      /\ content' = content /\ fds' = fds /\ dals' = dals /\ lost' = lost
  BY DEF BlockRead, FileRead
<1>2. nr \in Nat /\ size \in Nat /\ dals[h].fd \in 1..MaxFd
  BY <1>1, Fields, BoundsAssumption
<1>3. c \in Seq(Units) /\ off \in Nat /\ off + size <= Len(c)
  BY <1>1, <1>2, InsideIsThere
<1>4. Zeros(size) \in Seq(Units) /\ Len(Zeros(size)) = size
  BY <1>2, Buffers
<1> HIDE DEF c, off
<1>5. units \in Seq(Units) /\ Len(units) = size
  BY <1>2, <1>3, UnitsInside
<1>6. rest = <<>>
  <2> HIDE DEF units, size
  <2>1. SubSeq(Zeros(size), size + 1, size) = <<>>
    BY <1>2, <1>4
  <2>2. QED
    BY <1>4, <1>5, <2>1
<1> HIDE DEF units, rest
<1>7. units \o rest = units
  BY <1>5, <1>6
<1>8. /\ block' \in [offset : Nat, dal : Handles \cup {Closed}, data : Seq(Units)]
      /\ block'.dal = h /\ block'.data = units
  BY <1>1, <1>3, <1>5, <1>7 DEF Allocated, off
<1>9. TransferIsWhole'
  <2>1. last'.op = "read" /\ last'.dal = h /\ last'.nr = nr
    BY <1>1
  <2>2. DeviceOf(h)' = DeviceOf(h)
    BY <1>1 DEF DeviceOf
  <2>3. UnitsAt(content'[fds'[dals'[h].fd]], Offset(dals'[h], nr), dals'[h].blocksize) = units
    BY <1>1 DEF DeviceOf, units, c, off
  <2>4. QED
    BY <1>8, <2>1, <2>3 DEF TransferIsWhole, DeviceOf
<1>10. QED
  BY <1>1, <1>8, <1>9, BufferPreserves

(* Two sequences with the same elements are the same.                      *)
LEMMA SameUnits ==
  ASSUME NEW s \in Seq(Units), NEW t \in Seq(Units), NEW n \in Nat, Len(s) = n, Len(t) = n,
         \A i \in 1..n : s[i] = t[i]
  PROVE  s = t
OBVIOUS

(* What is written is stored as far as it fits, and no device changes its  *)
(* length; inside the device that is the whole buffer.                     *)
LEMMA BlockWritePreserves ==
  ASSUME DevicesIInv, NEW h \in Handles, BlockWrite(h)
  PROVE  DevicesIInv'
<1> DEFINE D == DeviceOf(h)
           c == content[D]
           size == dals[h].blocksize
           nr == GetNr
           off == Offset(dals[h], nr)
           units == Written(h)
<1>1. /\ h \in Opened /\ block.dal # Closed /\ D # Closed
      /\ last' = [op |-> "write", dal |-> h, nr |-> nr, inside |-> Inside(h, nr)]
      /\ fds' = fds /\ dals' = dals /\ block' = block /\ lost' = lost
  BY DEF BlockWrite, HasBlock
<1>2. PICK n \in Fits(h, nr) :
        content' = [content EXCEPT ![D] = FileWrite(dals[h], c, units, nr, n)]
  BY DEF BlockWrite
<1>3. DevicesTyped /\ Owned
  BY DEF DevicesIInv
<1>4. size \in Nat \ {0} /\ dals[h].fd \in 1..MaxFd
  BY <1>1, Fields
<1>5. D \in DOMAIN Contents /\ c \in Seq(Units) /\ Len(c) \in Nat
  BY <1>1, <1>3, <1>4 DEF DevicesTyped, DeviceOf
<1>6. block.offset \in Nat /\ block.data \in Seq(Units) /\ block.dal \in Handles
  BY <1>1, <1>3 DEF DevicesTyped, Owned
<1>7. nr \in Nat
  <2>1. dals[block.dal].blocksize \in Nat \ {0}
    BY <1>6, Fields
  <2>2. \A a \in Nat : \A b \in Nat \ {0} : a \div b \in Nat
    OBVIOUS
  <2>3. QED
    BY <1>6, <2>1, <2>2 DEF GetNr
<1>8. off \in Nat
  BY <1>7, OffsetsAre
<1>9. units = [i \in 1..size |-> IF i <= Len(block.data) THEN block.data[i] ELSE "behind"]
  BY DEF Written
<1>10. units \in Seq(Units) /\ \A i \in 1..size : units[i] \in Units
  <2>1. units \in Seq(Units)
    BY <1>4, <1>6, <1>9, Grown
  <2>2. DOMAIN units = 1..size
    BY <1>9
  <2>3. Len(units) = size
    BY <1>4, <2>1, <2>2
  <2>4. QED
    BY <2>1, <2>3
<1>11. Fits(h, nr) =
         IF off + size <= Len(c) THEN {size}
         ELSE IF D \in Regular
         THEN {m \in 1..size : off + m >= Len(c) /\ off + m <= MaxLength}
         ELSE {m \in 1..size : off + m = Len(c)}
  BY DEF Fits
<1> DEFINE upto == IF off + n > Len(c) THEN off + n ELSE Len(c)
           new == [i \in 1..upto |->
                     IF i > off /\ i <= off + n THEN units[i - off]
                     ELSE IF i <= Len(c) THEN c[i] ELSE 0]
<1>12. content' = [content EXCEPT ![D] = new]
  BY <1>2 DEF FileWrite
<1> HIDE DEF D, c, size, nr, off, units
<1>13. n \in 1..size /\ (off + size <= Len(c) => n = size)
       /\ (D \notin Regular => off + n <= Len(c))
  BY <1>2, <1>4, <1>11
<1>14. upto \in Nat
  BY <1>5, <1>8, <1>13
<1>15. new \in Seq(Units) /\ Len(new) = upto
  <2>1. \A i \in 1..upto :
          (IF i > off /\ i <= off + n THEN units[i - off]
           ELSE IF i <= Len(c) THEN c[i] ELSE 0) \in Units
    <3> SUFFICES ASSUME NEW i \in 1..upto
                 PROVE  (IF i > off /\ i <= off + n THEN units[i - off]
                         ELSE IF i <= Len(c) THEN c[i] ELSE 0) \in Units
      OBVIOUS
    <3>1. i \in Int /\ 1 <= i
      BY <1>14
    <3> HIDE DEF upto
    <3>2. i > off /\ i <= off + n => i - off \in 1..size
      BY <1>4, <1>8, <1>13, <3>1
    <3>3. i <= Len(c) => c[i] \in Units
      BY <1>5, <3>1
    <3>4. 0 \in Units
      BY DEF Units
    <3>5. QED
      BY <1>10, <3>2, <3>3, <3>4
  <2> HIDE DEF upto
  <2>2. QED
    BY <1>14, <2>1
<1> HIDE DEF new
<1>16. content' \in [DOMAIN Contents -> Seq(Units)] /\ content'[D] = new
       /\ \A device \in DOMAIN Contents : device # D => content'[device] = content[device]
  BY <1>3, <1>5, <1>12, <1>15 DEF DevicesTyped
<1>17. DevicesTyped'
  <2>1. lost' \in BOOLEAN
    BY <1>1, <1>3, Zenon DEF DevicesTyped
  <2>2. QED
    BY <1>1, <1>3, <1>16, <2>1 DEF DevicesTyped
<1>18. LengthsKept'
  <2> SUFFICES ASSUME NEW device \in DOMAIN Contents,
                      Len(content'[device]) # Len(Contents[device])
               PROVE  device \in Regular
    BY DEF LengthsKept
  <2>1. Len(content[device]) # Len(Contents[device]) => device \in Regular
    BY DEF DevicesIInv, LengthsKept
  <2>2. CASE device = D /\ D \notin Regular
    <3>1. upto = Len(c)
      BY <1>5, <1>8, <1>13, <2>2
    <3>2. QED
      BY <1>15, <1>16, <2>1, <2>2, <3>1 DEF c
  <2>3. QED
    BY <1>16, <2>1, <2>2
<1>19. HandlesDescribed' /\ Owned' /\ Apart'
  BY <1>1 DEF DevicesIInv, HandlesDescribed, Owned, Apart
<1>20. TransferIsWhole'
  <2>1. last'.op = "write" /\ last'.dal = h /\ last'.nr = nr /\ last'.inside = Inside(h, nr)
    BY <1>1
  <2>2. UnitsAt(content'[fds'[dals'[h].fd]], Offset(dals'[h], nr), dals'[h].blocksize)
          = UnitsAt(new, off, size)
    BY <1>1, <1>16 DEF D, DeviceOf, off, size
  <2>3. ASSUME Inside(h, nr), Len(block.data) = size  PROVE block.data = UnitsAt(new, off, size)
    <3>1. off + size <= Len(c)
      BY <1>1, <1>7, <2>3, InsideIsThere DEF off, size, c, D
    <3>2. n = size /\ upto = Len(c)
      BY <1>4, <1>5, <1>8, <1>13, <3>1
    <3>3. /\ UnitsAt(new, off, size) \in Seq(Units) /\ Len(UnitsAt(new, off, size)) = size
          /\ \A i \in 1..size : UnitsAt(new, off, size)[i] = new[off + i]
      <4>1. size \in Nat
        BY <1>4
      <4>2. off + size <= Len(new)
        BY <1>15, <3>1, <3>2
      <4> HIDE DEF upto
      <4>3. new \in Seq(Units)
        BY <1>15
      <4>4. QED
        BY <1>8, <4>1, <4>2, <4>3, UnitsInside
    <3>4. \A i \in 1..size : new[off + i] = block.data[i]
      <4> SUFFICES ASSUME NEW i \in 1..size  PROVE new[off + i] = block.data[i]
        OBVIOUS
      <4>1. off + i \in 1..upto /\ off + i > off /\ off + i <= off + n /\ (off + i) - off = i
        BY <1>4, <1>5, <1>8, <3>1, <3>2
      <4> HIDE DEF upto
      <4>2. new[off + i] = units[i]
        BY <4>1 DEF new
      <4>3. i <= Len(block.data)
        BY <1>4, <2>3
      <4>4. QED
        BY <1>9, <4>2, <4>3 DEF size
    <3>5. size \in Nat
      BY <1>4
    <3>6. QED
      BY <1>6, <2>3, <3>3, <3>4, <3>5, SameUnits
  <2>4. last'.op # "read"
    BY <2>1
  <2>5. QED
    BY <1>1, <2>1, <2>2, <2>3, <2>4 DEF TransferIsWhole, DeviceOf, size
<1>21. QED
  BY <1>17, <1>18, <1>19, <1>20 DEF DevicesIInv

LEMMA DevicesNextIsSound == DevicesIInv /\ [DevicesNext]_devicesVars => DevicesIInv'
<1> SUFFICES ASSUME DevicesIInv, [DevicesNext]_devicesVars  PROVE DevicesIInv'
  OBVIOUS
<1>1. ASSUME NEW h \in Handles, NEW name \in Names, NEW size \in Sizes,
             NEW flags \in {"r", "rw"}, FileOpen(h, name, size, flags)
      PROVE  DevicesIInv'
  BY <1>1, FileOpenPreserves
<1>2. ASSUME NEW h \in Handles, NEW flags \in {"r", "rw"}, FileReopen(h, flags)  PROVE DevicesIInv'
  BY <1>2, FileReopenPreserves
<1>3. ASSUME NEW h \in Handles, FileClose(h)  PROVE DevicesIInv'
  BY <1>3, FileClosePreserves
<1>4. ASSUME NEW h \in Handles, NEW size \in Sizes, DalSetBlocksize(h, size)  PROVE DevicesIInv'
  BY <1>4, DalSetBlocksizePreserves
<1>5. ASSUME NEW h \in Handles, NEW nr \in Numbers, BlockAlloc(h, nr) \/ BlockRead(h, nr)
      PROVE  DevicesIInv'
  BY <1>5, BlockAllocPreserves, BlockReadPreserves
<1>6. ASSUME NEW h \in Handles, BlockWrite(h) \/ BlockSetDal(h)  PROVE DevicesIInv'
  BY <1>6, BlockWritePreserves, BlockSetDalPreserves
<1>7. ASSUME NEW nr \in Numbers, BlockSetNr(nr) \/ BlockRealloc(nr)  PROVE DevicesIInv'
  BY <1>7, BlockSetNrPreserves
<1>8. CASE BlockFree
  BY <1>8, BlockFreePreserves
<1>9. CASE UNCHANGED devicesVars
  <2>1. /\ content' = content /\ fds' = fds /\ dals' = dals /\ block' = block
        /\ last' = last /\ lost' = lost
    BY <1>9 DEF devicesVars
  <2>2. block \in [offset : Nat, dal : Handles \cup {Closed}, data : Seq(Units)]
        /\ (block.dal # Closed => block.dal \in Opened)
    BY DEF DevicesIInv, DevicesTyped, Owned, Opened
  <2>3. TransferIsWhole'
    BY <2>1 DEF DevicesIInv, TransferIsWhole, DeviceOf
  <2>4. QED
    BY <2>1, <2>2, <2>3, BufferPreserves
<1>10. QED
  BY <1>1, <1>2, <1>3, <1>4, <1>5, <1>6, <1>7, <1>8, <1>9 DEF DevicesNext

-----------------------------------------------------------------------------
(* Descriptors, buffers and contents are as the invariant says, however    *)
(* devices are opened, reopened, closed, read and written.                 *)
THEOREM DevicesSound == DevicesSpec => []DevicesIInv
<1>1. QED
  BY DevicesInitIsSound, DevicesNextIsSound, PTL DEF DevicesSpec

(* Block sizes stay powers of two, only plain files change their length,   *)
(* and every transfer inside a device is whole, for all block sizes and    *)
(* contents.                                                               *)
THEOREM DevicesInvHolds == DevicesSpec => []DevicesInv
<1>1. ASSUME DevicesIInv  PROVE DevicesInv
  <2>1. \A h \in Opened : /\ dals[h].data \in Names /\ dals[h].fd \in 1..MaxFd
                          /\ dals[h].blocksize # 0 /\ PowOfTwo(dals[h].blocksize)
    <3> SUFFICES ASSUME NEW h \in Opened
                 PROVE  /\ dals[h].data \in Names /\ dals[h].fd \in 1..MaxFd
                        /\ dals[h].blocksize # 0 /\ PowOfTwo(dals[h].blocksize)
      OBVIOUS
    <3>1. h \in Handles
      BY DEF Opened
    <3>2. QED
      BY <1>1, <3>1, Fields
  <2>2. HasBlock => block.dal \in Opened /\ block.offset \in Nat
    BY <1>1 DEF DevicesIInv, DevicesTyped, Owned, HasBlock, Opened
  <2>3. \A device \in DOMAIN content :
          Len(content[device]) # Len(Contents[device]) => device \in Regular
    BY <1>1 DEF DevicesIInv, DevicesTyped, LengthsKept
  <2>4. QED
    BY <1>1, <2>1, <2>2, <2>3 DEF DevicesInv, DevicesTypeOK, DevicesIInv
<1>2. QED
  BY <1>1, DevicesSound, PTL

(* As long as no reopen failed, each opened device has a descriptor of its *)
(* own that is open on what its name is for, with any number of them.      *)
THEOREM OwnDescriptorHolds == DevicesSpec => []OwnDescriptor
<1>1. ASSUME DevicesIInv  PROVE OwnDescriptor
  BY <1>1 DEF DevicesIInv, Apart, OwnDescriptor, Opened, DeviceOf
<1>2. QED
  BY <1>1, DevicesSound, PTL
====
