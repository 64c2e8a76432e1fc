----------------------------- MODULE BitmapProofs -----------------------------
(***************************************************************************)
(* Proofs about Bitmap for all widths, lengths and placements of the       *)
(* bitmap's first block.                                                   *)
(***************************************************************************)
EXTENDS Bitmap, TLAPS, FiniteSetTheorems, WellFoundedInduction

(* A set of natural numbers that is not empty has a least element.         *)
LEMMA Least ==
  ASSUME NEW T, T \subseteq Nat, T # {}
  PROVE  \E m \in T : \A n \in T : m <= n
<1> DEFINE U == {0..n : n \in T}
<1>1. U \subseteq FiniteSubsetsOf(Nat) /\ U # {}
  <2>1. \A n \in T : IsFiniteSet(0..n)
    BY FS_Interval
  <2>2. \A n \in T : 0..n \in SUBSET Nat
    OBVIOUS
  <2>3. QED
    BY <2>1, <2>2 DEF FiniteSubsetsOf
<1>2. PICK u \in U : \A v \in U : <<v, u>> \notin StrictSubsetOrdering(Nat)
  BY <1>1, FS_StrictSubsetOrderingWellFounded, WFMin
<1>3. PICK m \in T : u = 0..m
  OBVIOUS
<1>4. ASSUME NEW n \in T, n < m  PROVE FALSE
  <2>1. 0..n \subseteq 0..m /\ m \in 0..m /\ m \notin 0..n
    BY <1>4
  <2>2. <<0..n, 0..m>> \in StrictSubsetOrdering(Nat)
    BY <2>1 DEF StrictSubsetOrdering
  <2>3. QED
    BY <1>2, <1>3, <2>2
<1>5. QED
  BY <1>4

(* Quotient and remainder.                                                 *)
LEMMA Division ==
  ASSUME NEW n \in Int, NEW d \in Nat \ {0}
  PROVE  /\ n \div d \in Int /\ n % d \in 0..(d - 1)
         /\ n = d * (n \div d) + (n % d)
OBVIOUS

(* A bound on a quotient is a bound on what is divided.                    *)
LEMMA DivBound ==
  ASSUME NEW n \in Int, NEW d \in Nat \ {0}, NEW q \in Int
  PROVE  /\ q <= n \div d <=> q * d <= n
         /\ n < q * d <=> n \div d < q
<1> DEFINE k == n \div d
           r == n % d
<1>1. k \in Int /\ r \in 0..(d-1) /\ n = d * k + r
  BY Division
<1> HIDE DEF k, r
<1>2. CASE q <= k
  <2>1. q * d <= k * d
    BY <1>1, <1>2
  <2>2. QED
    BY <1>1, <1>2, <2>1 DEF k
<1>3. CASE q >= k + 1
  <2>1. q * d >= (k + 1) * d
    BY <1>1, <1>3
  <2>2. (k + 1) * d = d * k + d
    BY <1>1
  <2>3. q * d \in Int
    OBVIOUS
  <2>4. QED
    BY <1>1, <1>3, <2>1, <2>2, <2>3 DEF k
<1>4. QED
  BY <1>1, <1>2, <1>3

(* The count of reiserfs_bitmap_calc is a number for every map and length: *)
(* the recursive function exists and has numbers for values, by the least  *)
(* number of bits before the end for which it would not.                   *)
LEMMA CalcIsInt ==
  ASSUME NEW m, NEW end \in Nat, NEW isFree \in {0, 1}
  PROVE  Calc(m, end, isFree) \in Int
<1> DEFINE Whole(i) ==
             /\ i % ByteBits = 0 /\ i + WordBits < end
             /\ \A k \in i..(i + WordBits - 1) : (k \in m) <=> isFree = 0
           Body(g, i) ==
             IF i = end THEN 0
             ELSE IF Whole(i) THEN WordBits + g[i + WordBits]
             ELSE (IF i \in m THEN isFree ELSE 1 - isFree) + g[i + 1]
           Part(k) == {g \in [(end - k)..end -> Int] :
                         \A i \in (end - k)..end : g[i] = Body(g, i)}
           g0 == CHOOSE g : g = [i \in 0..end |-> Body(g, i)]
<1>1. WordBits \in Nat \ {0}
  BY WidthAssumption DEF WordBits
<1>2. \A i \in 0..end : \A a, b :
        (i < end => a[i + 1] = b[i + 1]) /\ (Whole(i) => a[i + WordBits] = b[i + WordBits])
          => Body(a, i) = Body(b, i)
  OBVIOUS
<1>3. \A i \in 0..end : Whole(i) => i + WordBits \in (i + 1)..end
  BY <1>1
<1>4. \A i \in 0..end : \A g :
        (i < end => g[i + 1] \in Int) /\ (Whole(i) => g[i + WordBits] \in Int)
          => Body(g, i) \in Int
  BY <1>1
<1>5. Calc(m, end, isFree) = g0[0]
  BY DEF Calc
<1> HIDE DEF Whole, Body
<1>6. \A k \in 0..end : Part(k) # {}
  <2> DEFINE Bad == {k \in 0..end : Part(k) = {}}
  <2>1. SUFFICES ASSUME Bad # {}  PROVE FALSE
    OBVIOUS
  <2>2. PICK k \in Bad : \A n \in Bad : k <= n
    <3>1. Bad \subseteq Nat
      OBVIOUS
    <3>2. QED
      BY <2>1, <3>1, Least
  <2>3. CASE k = 0
    <3> DEFINE g == [i \in (end - 0)..end |-> 0]
    <3>1. g \in [(end - 0)..end -> Int]
      OBVIOUS
    <3>2. \A i \in (end - 0)..end : i = end /\ g[i] = 0
      OBVIOUS
    <3>3. \A i \in (end - 0)..end : Body(g, i) = 0
      BY <3>2 DEF Body
    <3> HIDE DEF g
    <3>4. g \in Part(0)
      BY <3>1, <3>2, <3>3
    <3>5. QED
      BY <2>2, <2>3, <3>4
  <2>4. CASE k # 0
    <3>1. k \in 0..end /\ k - 1 \in 0..end /\ Part(k) = {}
      BY <2>2, <2>4
    <3>2. PICK g \in [(end - (k - 1))..end -> Int] :
            \A i \in (end - (k - 1))..end : g[i] = Body(g, i)
      <4>1. k - 1 \in Bad => k <= k - 1
        BY <2>2, Zenon
      <4>2. Part(k - 1) # {}
        BY <3>1, <4>1
      <4>3. QED
        BY <4>2
    <3> DEFINE h == [i \in (end - k)..end |-> IF i = end - k THEN Body(g, i) ELSE g[i]]
    <3>3. /\ end - k \in 0..end /\ end - k < end
          /\ \A i \in (end - k)..end : i = end - k \/ i \in (end - (k - 1))..end
      BY <3>1
    <3>4. \A i \in (end - (k - 1))..end : i \in (end - k)..end /\ i # end - k
      BY <3>1
    <3>5. \A i \in (end - (k - 1))..end : h[i] = g[i]
      BY <3>4
    <3>6. h[end - k] = Body(g, end - k)
      BY <3>3
    <3>7. \A i \in (end - k)..end : Body(h, i) = Body(g, i)
      <4> SUFFICES ASSUME NEW i \in (end - k)..end  PROVE Body(h, i) = Body(g, i)
        OBVIOUS
      <4>1. i < end => i + 1 \in (end - (k - 1))..end
        BY <3>1
      <4>2. i \in 0..end
        BY <3>1
      <4>3. Whole(i) => i + WordBits \in (end - (k - 1))..end
        BY <4>2, <1>1, <1>3, <3>1
      <4>4. QED
        BY <4>1, <4>2, <4>3, <1>2, <3>5
    <3>8. Body(g, end - k) \in Int
      <4>1. end - k < end => (end - k) + 1 \in (end - (k - 1))..end
        BY <3>1
      <4>2. Whole(end - k) => (end - k) + WordBits \in (end - (k - 1))..end
        BY <1>1, <1>3, <3>1, <3>3
      <4>3. QED
        BY <4>1, <4>2, <3>2, <3>3, <1>4
    <3>9. h \in [(end - k)..end -> Int]
      BY <3>2, <3>3, <3>8
    <3> HIDE DEF h
    <3>10. \A i \in (end - k)..end : h[i] = Body(h, i)
      BY <3>2, <3>3, <3>5, <3>6, <3>7
    <3>11. h \in Part(k)
      BY <3>9, <3>10
    <3>12. QED
      BY <3>1, <3>11
  <2>5. QED
    BY <2>3, <2>4
<1>7. g0 = [i \in 0..end |-> Body(g0, i)]
  <2>1. PICK g \in Part(end) : TRUE
    BY <1>6
  <2>2. g \in [0..end -> Int] /\ \A i \in 0..end : g[i] = Body(g, i)
    BY <2>1
  <2>3. g = [i \in 0..end |-> Body(g, i)]
    BY <2>2
  <2>4. QED
    BY <2>3
<1> HIDE DEF g0
<1>8. \A i \in 0..end : g0[i] = Body(g0, i)
  BY <1>7
<1>9. \A k \in 0..end : g0[end - k] \in Int
  <2> DEFINE Bad == {k \in 0..end : g0[end - k] \notin Int}
  <2>1. SUFFICES ASSUME Bad # {}  PROVE FALSE
    OBVIOUS
  <2>2. PICK k \in Bad : \A n \in Bad : k <= n
    <3>1. Bad \subseteq Nat
      OBVIOUS
    <3>2. QED
      BY <2>1, <3>1, Least
  <2>3. \A i \in (end - k + 1)..end : g0[i] \in Int
    <3> SUFFICES ASSUME NEW i \in (end - k + 1)..end  PROVE g0[i] \in Int
      OBVIOUS
    <3>1. end - i \in 0..end /\ end - i < k /\ end - (end - i) = i
      BY <2>2
    <3>2. end - i \notin Bad
      BY <2>2, <3>1
    <3>3. g0[end - (end - i)] \in Int
      BY <3>1, <3>2
    <3>4. QED
      BY <3>1, <3>3
  <2>4. end - k \in 0..end /\ g0[end - k] = Body(g0, end - k)
    BY <1>8, <2>2
  <2>5. end - k < end => (end - k) + 1 \in (end - k + 1)..end
    BY <2>2
  <2>6. Whole(end - k) => (end - k) + WordBits \in (end - k + 1)..end
    BY <1>3, <2>4
  <2>7. Body(g0, end - k) \in Int
    BY <1>4, <2>3, <2>4, <2>5, <2>6
  <2>8. QED
    BY <2>2, <2>4, <2>7
<1>10. g0[0] \in Int
  BY <1>9
<1>11. QED
  BY <1>5, <1>10

(* The widths the code fixes: bits in a byte, bytes and bits in a block.   *)
Widths == ByteBits \in Nat \ {0} /\ BlockBytes \in Nat \ {0} /\ BlockBits \in Nat \ {0}

(* The three widths are positive.                                          *)
LEMMA WidthsArePositive == Widths
BY WidthAssumption DEF Widths, BlockBits

(* The bytes of a bitmap hold its bits, and no whole byte more.            *)
LEMMA SizeBounds ==
  ASSUME NEW n \in Nat \ {0}
  PROVE  /\ Size(n) \in Nat \ {0}
         /\ n <= Size(n) * ByteBits
         /\ Size(n) * ByteBits < n + ByteBits
<1> DEFINE s == Size(n)
<1>1. ByteBits \in Nat \ {0}
  BY WidthAssumption
<1>2. n + ByteBits - 1 \in Int
  BY <1>1
<1>3. s \in Int
  BY <1>1, <1>2, Division DEF Size
<1>4. /\ 1 <= s
      /\ s * ByteBits <= n + ByteBits - 1
      /\ n + ByteBits - 1 < (s + 1) * ByteBits
  <2>1. 1 <= (n + ByteBits - 1) \div ByteBits <=> 1 * ByteBits <= n + ByteBits - 1
    BY <1>1, <1>2, DivBound
  <2>2. s <= (n + ByteBits - 1) \div ByteBits <=> s * ByteBits <= n + ByteBits - 1
    BY <1>1, <1>2, <1>3, DivBound
  <2>3. n + ByteBits - 1 < (s + 1) * ByteBits <=> (n + ByteBits - 1) \div ByteBits < s + 1
    BY <1>1, <1>2, <1>3, DivBound, SMTT(40)
  <2>4. s = (n + ByteBits - 1) \div ByteBits
    BY DEF Size
  <2> HIDE DEF s
  <2>5. QED
    BY <1>1, <1>3, <2>1, <2>2, <2>3, <2>4
<1> HIDE DEF s
<1>5. (s + 1) * ByteBits = s * ByteBits + ByteBits /\ s * ByteBits \in Int
  BY <1>1, <1>3
<1>6. s \in Nat \ {0} /\ n <= s * ByteBits /\ s * ByteBits < n + ByteBits
  BY <1>1, <1>3, <1>4, <1>5
<1>7. QED
  BY <1>6 DEF s

(* The bitmap blocks hold its bits, and no whole block more.               *)
LEMMA BlockBounds ==
  ASSUME NEW n \in Nat \ {0}
  PROVE  /\ BlocksFor(n) \in Nat \ {0}
         /\ \A i \in Int : i <= BlocksFor(n) - 1 <=> i * BlockBits <= n - 1
<1>1. BlockBits \in Nat \ {0}
  BY WidthsArePositive DEF Widths
<1>2. (n - 1) \div BlockBits \in Int /\ BlocksFor(n) = (n - 1) \div BlockBits + 1
  BY <1>1, Division DEF BlocksFor
<1>3. \A i \in Int : i <= (n - 1) \div BlockBits <=> i * BlockBits <= n - 1
  BY <1>1, DivBound
<1>4. 0 <= (n - 1) \div BlockBits <=> 0 * BlockBits <= n - 1
  BY <1>3
<1>5. 0 * BlockBits = 0
  BY <1>1
<1>6. QED
  BY <1>2, <1>3, <1>4, <1>5

(* Bytes and blocks: a block of the bitmap is a whole number of bytes.     *)
LEMMA BlocksBySize ==
  ASSUME NEW n \in Nat \ {0}, NEW i \in Int
  PROVE  i * BlockBits <= n - 1 <=> i * BlockBytes < Size(n)
<1> DEFINE s == Size(n)
           q == i * BlockBytes
<1>1. ByteBits \in Nat \ {0} /\ BlockBytes \in Nat \ {0}
  BY WidthAssumption
<1>2. s \in Nat \ {0} /\ n <= s * ByteBits /\ s * ByteBits < n + ByteBits
  BY SizeBounds
<1>3. q \in Int /\ i * BlockBits = q * ByteBits
  BY <1>1 DEF BlockBits
<1> HIDE DEF s, q
<1>4. CASE q < s
  <2>1. (q + 1) * ByteBits <= s * ByteBits /\ (q + 1) * ByteBits = q * ByteBits + ByteBits
    BY <1>1, <1>2, <1>3, <1>4
  <2>2. q * ByteBits \in Int /\ s * ByteBits \in Int
    BY <1>1, <1>2, <1>3
  <2>3. QED
    BY <1>1, <1>2, <1>3, <1>4, <2>1, <2>2 DEF q, s
<1>5. CASE q >= s
  <2>1. q * ByteBits >= s * ByteBits
    BY <1>1, <1>2, <1>3, <1>5
  <2>2. q * ByteBits \in Int /\ s * ByteBits \in Int
    BY <1>1, <1>2, <1>3
  <2>3. QED
    BY <1>1, <1>2, <1>3, <1>5, <2>1, <2>2 DEF q, s
<1>6. QED
  BY <1>2, <1>3, <1>4, <1>5

(* Bitmaps of as many bytes occupy as many blocks.                         *)
LEMMA SameSizeSameBlocks ==
  ASSUME NEW n \in Nat \ {0}, NEW k \in Nat \ {0}, Size(n) = Size(k)
  PROVE  BlocksFor(n) = BlocksFor(k)
<1>1. BlocksFor(n) \in Int /\ BlocksFor(k) \in Int
  BY BlockBounds
<1>2. \A i \in Int : i <= BlocksFor(n) - 1 <=> i <= BlocksFor(k) - 1
  BY BlockBounds, BlocksBySize
<1>3. BlocksFor(n) - 1 <= BlocksFor(k) - 1 /\ BlocksFor(k) - 1 <= BlocksFor(n) - 1
  BY <1>1, <1>2
<1>4. QED
  BY <1>1, <1>3

(* The super block and the first bitmap block lie inside the filesystem.   *)
LEMMA LengthsArePositive ==
  ASSUME NEW n \in Lengths
  PROVE  n \in Nat \ {0} /\ Start \in Nat \ {0} /\ Start < n
BY StartAssumption, LengthsAssumption, WidthsArePositive DEF Widths

(* So do all the bitmap blocks.                                            *)
LEMMA BitmapBlocksBelowEnd ==
  ASSUME NEW n \in Lengths, NEW b \in BitmapBlocks(n)
  PROVE  b \in Nat /\ b < n /\ b \in Blocks
<1>1. n \in Nat \ {0} /\ Start \in Nat /\ Start < n
  BY LengthsArePositive
<1>2. CASE b = Start
  BY <1>1, <1>2 DEF Blocks
<1>3. CASE b # Start
  <2>1. PICK i \in 1..(BlocksFor(n) - 1) : b = i * BlockBits
    BY <1>3 DEF BitmapBlocks
  <2>2. b <= n - 1
    BY <1>1, <2>1, BlockBounds
  <2>3. b \in Nat
    BY <1>1, <2>1, WidthsArePositive, BlockBounds DEF Widths
  <2>4. QED
    BY <1>1, <2>2, <2>3 DEF Blocks
<1>4. QED
  BY <1>2, <1>3

(* The first zero from a bit of a byte on, when there is one.              *)
LEMMA FirstZero ==
  ASSUME NEW m, NEW byte \in Nat, NEW from \in Nat,
         \E k \in from..(byte * ByteBits + ByteBits - 1) : k \notin m
  PROVE  /\ FirstZeroIn(m, byte, from) \in from..(byte * ByteBits + ByteBits - 1)
         /\ FirstZeroIn(m, byte, from) \notin m
         /\ \A j \in from..(FirstZeroIn(m, byte, from) - 1) : j \in m
<1> DEFINE last == byte * ByteBits + ByteBits - 1
           Zeros == {k \in from..last : k \notin m}
<1>1. last \in Int
  BY WidthAssumption
<1> HIDE DEF last
<1>2. PICK k \in Zeros : \A j \in Zeros : k <= j
  <2>1. Zeros \subseteq Nat /\ Zeros # {}
    BY <1>1 DEF last
  <2>2. QED
    BY <2>1, Least
<1>3. \A j \in from..(k - 1) : j \in m
  <2> SUFFICES ASSUME NEW j \in from..(k - 1), j \notin m  PROVE FALSE
    OBVIOUS
  <2>1. k \in from..last
    BY <1>2
  <2>2. j \in Zeros /\ j < k
    BY <1>1, <2>1
  <2>3. k <= j
    BY <1>2, <2>2
  <2>4. QED
    BY <1>1, <2>1, <2>2, <2>3
<1>4. k \in from..last /\ k \notin m
  BY <1>2
<1>5. \E z \in from..last : z \notin m /\ \A j \in from..(z - 1) : j \in m
  BY <1>3, <1>4
<1>6. FirstZeroIn(m, byte, from) =
        CHOOSE z \in from..last : z \notin m /\ \A j \in from..(z - 1) : j \in m
  BY DEF FirstZeroIn, last
<1>7. QED
  BY <1>5, <1>6 DEF last

(* A run of full bytes has no zero.                                        *)
LEMMA FullBytes ==
  ASSUME NEW m, NEW a \in Nat, NEW b \in Nat, \A byte \in a..(b - 1) : FullByte(m, byte)
  PROVE  \A k \in (a * ByteBits)..(b * ByteBits - 1) : k \in m
<1>1. ByteBits \in Nat \ {0} /\ a * ByteBits \in Nat /\ b * ByteBits \in Nat
  BY WidthAssumption
<1> SUFFICES ASSUME NEW k \in (a * ByteBits)..(b * ByteBits - 1)  PROVE k \in m
  OBVIOUS
<1>2. k \in Int /\ a * ByteBits <= k /\ k < b * ByteBits
  BY <1>1
<1>3. /\ k \div ByteBits \in Int /\ k % ByteBits \in 0..(ByteBits - 1)
      /\ k = ByteBits * (k \div ByteBits) + (k % ByteBits)
  BY <1>1, <1>2, Division
<1>4. a <= k \div ByteBits /\ k \div ByteBits < b
  BY <1>1, <1>2, DivBound
<1>5. FullByte(m, k \div ByteBits)
  BY <1>3, <1>4
<1>6. (k \div ByteBits) * ByteBits + (k % ByteBits) \in m
  BY <1>3, <1>5 DEF FullByte
<1>7. ByteBits * (k \div ByteBits) = (k \div ByteBits) * ByteBits
  BY <1>1, <1>3
<1>8. QED
  BY <1>3, <1>6, <1>7

(* The search by bytes skips no zero and stops at one inside the map.      *)
LEMMA NextZero ==
  ASSUME NEW m, NEW size \in Nat \ {0}, NEW offset \in Nat, offset < size
  PROVE  /\ FindNextZeroBit(m, size, offset) \in Nat
         /\ \A k \in offset..(size - 1) : k < FindNextZeroBit(m, size, offset) => k \in m
         /\ FindNextZeroBit(m, size, offset) < size =>
              /\ FindNextZeroBit(m, size, offset) \notin m
              /\ FindNextZeroBit(m, size, offset) >= offset
<1> DEFINE first == offset \div ByteBits
           rest  == IF offset % ByteBits = 0 THEN first ELSE first + 1
           open  == {byte \in rest..(Size(size) - 1) : ~FullByte(m, byte)}
           lowest == CHOOSE byte \in open : \A other \in open : byte <= other
           found == FindNextZeroBit(m, size, offset)
           half == rest # first /\ \E k \in offset..(rest * ByteBits - 1) : k \notin m
<1>1. found = IF half THEN FirstZeroIn(m, first, offset)
              ELSE IF open = {} THEN Size(size) * ByteBits
              ELSE FirstZeroIn(m, lowest, lowest * ByteBits)
  BY DEF FindNextZeroBit
<1>2. ByteBits \in Nat \ {0}
  BY WidthAssumption
<1>3. Size(size) \in Nat \ {0} /\ size <= Size(size) * ByteBits
  BY SizeBounds
<1>4. /\ first \in Nat /\ first * ByteBits <= offset /\ offset < (first + 1) * ByteBits
      /\ offset % ByteBits = 0 => offset = first * ByteBits
  <2>1. /\ first \in Int /\ offset % ByteBits \in 0..(ByteBits - 1)
        /\ offset = ByteBits * first + (offset % ByteBits)
    BY <1>2, Division
  <2>2. 0 <= first <=> 0 * ByteBits <= offset
    BY <1>2, DivBound
  <2>3. first <= first <=> first * ByteBits <= offset
    BY <1>2, <2>1, DivBound
  <2>4. offset < (first + 1) * ByteBits <=> first < first + 1
    BY <1>2, <2>1, DivBound
  <2> HIDE DEF first
  <2>5. 0 * ByteBits = 0 /\ ByteBits * first = first * ByteBits
    BY <1>2, <2>1
  <2>6. QED
    BY <1>2, <2>1, <2>2, <2>3, <2>4, <2>5
<1>5. rest \in Nat /\ (rest = first \/ rest = first + 1)
      /\ (rest = first => rest * ByteBits = offset)
  BY <1>4
<1>6. (first + 1) * ByteBits = first * ByteBits + ByteBits /\ first * ByteBits \in Nat
      /\ rest * ByteBits \in Nat /\ Size(size) * ByteBits \in Nat
  BY <1>2, <1>3, <1>4, <1>5
<1> HIDE DEF first, rest, found, half
<1>7. CASE half
  <2>1. rest = first + 1 /\ \E k \in offset..(rest * ByteBits - 1) : k \notin m
    BY <1>5, <1>7 DEF half
  <2>2. \E k \in offset..(first * ByteBits + ByteBits - 1) : k \notin m
    <3>1. rest * ByteBits = first * ByteBits + ByteBits
      BY <1>6, <2>1
    <3>2. PICK k \in offset..(rest * ByteBits - 1) : k \notin m
      BY <2>1
    <3>3. k \in offset..(first * ByteBits + ByteBits - 1)
      <4>1. k \in Int /\ offset <= k /\ k <= rest * ByteBits - 1
        BY <1>6, <3>2
      <4>2. first * ByteBits \in Int /\ ByteBits \in Int
        BY <1>2, <1>6
      <4>3. QED
        BY <3>1, <4>1, <4>2
    <3>4. QED
      BY <3>2, <3>3
  <2>3. /\ found \in offset..(first * ByteBits + ByteBits - 1) /\ found \notin m
        /\ \A j \in offset..(found - 1) : j \in m
    BY <1>1, <1>4, <1>7, <2>2, FirstZero
  <2>4. QED
    BY <1>2, <1>6, <2>3 DEF found
<1>8. ASSUME ~half  PROVE \A k \in offset..(rest * ByteBits - 1) : k \in m
  BY <1>5, <1>6, <1>8 DEF half
<1>9. CASE ~half /\ open = {}
  <2>1. found = Size(size) * ByteBits
    BY <1>1, <1>9
  <2>2. \A byte \in rest..(Size(size) - 1) : FullByte(m, byte)
    BY <1>9
  <2>3. \A k \in (rest * ByteBits)..(Size(size) * ByteBits - 1) : k \in m
    BY <1>3, <1>5, <2>2, FullBytes
  <2>4. QED
    BY <1>3, <1>6, <1>8, <1>9, <2>1, <2>3 DEF found
<1>10. CASE ~half /\ open # {}
  <2>1. lowest \in open /\ \A other \in open : lowest <= other
    <3>1. open \subseteq Nat
      BY <1>3, <1>5
    <3>2. \E low \in open : \A other \in open : low <= other
      BY <1>10, <3>1, Least
    <3>3. QED
      BY <3>2
  <2>2. found = FirstZeroIn(m, lowest, lowest * ByteBits)
    BY <1>1, <1>10
  <2> HIDE DEF lowest
  <2>3. /\ lowest \in Nat /\ rest <= lowest /\ ~FullByte(m, lowest)
        /\ lowest * ByteBits \in Nat
    BY <1>2, <1>3, <1>5, <2>1
  <2>4. \E k \in (lowest * ByteBits)..(lowest * ByteBits + ByteBits - 1) : k \notin m
    <3>1. PICK k \in 0..(ByteBits - 1) : lowest * ByteBits + k \notin m
      BY <2>3 DEF FullByte
    <3>2. QED
      BY <1>2, <2>3, <3>1
  <2>5. /\ found \in (lowest * ByteBits)..(lowest * ByteBits + ByteBits - 1)
        /\ found \notin m /\ \A j \in (lowest * ByteBits)..(found - 1) : j \in m
    BY <2>2, <2>3, <2>4, FirstZero
  <2>6. \A byte \in rest..(lowest - 1) : FullByte(m, byte)
    <3> SUFFICES ASSUME NEW byte \in rest..(lowest - 1), ~FullByte(m, byte)  PROVE FALSE
      OBVIOUS
    <3>1. lowest \in rest..(Size(size) - 1)
      BY <2>1
    <3>2. byte \in open /\ byte < lowest
      BY <1>3, <1>5, <2>3, <3>1
    <3>3. QED
      BY <1>5, <2>1, <2>3, <3>2
  <2>7. \A k \in (rest * ByteBits)..(lowest * ByteBits - 1) : k \in m
    BY <1>5, <2>3, <2>6, FullBytes
  <2>8. rest * ByteBits <= lowest * ByteBits
    BY <1>2, <1>5, <2>3
  <2>9. offset <= rest * ByteBits
    BY <1>2, <1>4, <1>5, <1>6
  <2>10. QED
    BY <1>2, <1>6, <1>8, <1>10, <2>3, <2>5, <2>7, <2>8, <2>9 DEF found
<1>11. QED
  BY <1>7, <1>9, <1>10

(* A block that find_free returns is the lowest free one, and it returns 0 *)
(* only when there is none.                                                *)
LEMMA FindFreeIsLowest ==
  ASSUME TypeOK, NEW hint \in Nat, hint < total
  PROVE  LET free == {b \in hint..(total - 1) : b \notin map}
         IN  IF free = {} THEN FindFree(hint) = 0
             ELSE FindFree(hint) \in free /\ \A c \in free : FindFree(hint) <= c
<1> DEFINE free == {b \in hint..(total - 1) : b \notin map}
           found == FindNextZeroBit(map, total, hint)
<1>1. total \in Nat \ {0}
  BY LengthsArePositive DEF TypeOK
<1>2. /\ found \in Nat
      /\ \A k \in hint..(total - 1) : k < found => k \in map
      /\ found < total => found \notin map /\ found >= hint
  BY <1>1, NextZero
<1>3. FindFree(hint) = IF found >= total THEN 0 ELSE found
  BY <1>1 DEF FindFree
<1> HIDE DEF found
<1>4. CASE found >= total
  <2>1. free = {}
    BY <1>1, <1>2, <1>4
  <2>2. QED
    BY <1>3, <1>4, <2>1
<1>5. CASE found < total
  <2>1. found \in free /\ \A c \in free : found <= c
    BY <1>1, <1>2, <1>5
  <2>2. FindFree(hint) = found
    BY <1>1, <1>2, <1>3, <1>5
  <2> HIDE DEF free
  <2>3. QED
    BY <2>1, <2>2 DEF free
<1>6. QED
  BY <1>1, <1>2, <1>4, <1>5

-----------------------------------------------------------------------------
(* The inductive invariant: besides what the run checks, total_blocks and  *)
(* the super block's count occupy the same bytes, and only a resize that   *)
(* kept the number of bytes has made them differ.                          *)
Sized == Size(len) = Size(total)
Level == ~lagged => total = len

IInv ==
  /\ TypeOK /\ NoBitBeyondEnd /\ BitmapBlocksUsed
  /\ CleanIsStored /\ BeyondEndTaken /\ Sized /\ Level

(* Blocks are numbers.                                                     *)
LEMMA BlocksAreNaturals == Blocks \subseteq Nat
BY LengthsAssumption DEF Blocks

(* A new bitmap marks what lies before it and its own blocks.              *)
LEMMA InitIsSound == Init => IInv
<1> SUFFICES ASSUME NEW n \in Lengths, total = n, len = n, map = Reserved(n),
                    used = Cardinality(Reserved(n)), disk = {}, clean = FALSE, lagged = FALSE
             PROVE  IInv
  BY DEF Init
<1>1. n \in Nat \ {0} /\ Start \in Nat \ {0} /\ Start < n
  BY LengthsArePositive
<1>2. \A b \in Reserved(n) : b \in Nat /\ b < n /\ b \in Blocks
  <2>1. \A b \in 0..(Start - 1) : b \in Nat /\ b < n /\ b \in Blocks
    BY <1>1 DEF Blocks
  <2>2. QED
    BY <2>1, BitmapBlocksBelowEnd DEF Reserved
<1>3. used \in Int
  <2>1. Reserved(n) \subseteq 0..n
    BY <1>1, <1>2
  <2>2. IsFiniteSet(Reserved(n))
    <3>1. IsFiniteSet(0..n)
      BY <1>1, FS_Interval
    <3>2. QED
      BY <2>1, <3>1, FS_Subset
  <2>3. QED
    BY <2>2, FS_CardinalityType
<1>4. QED
  BY <1>2, <1>3 DEF IInv, TypeOK, NoBitBeyondEnd, BitmapBlocksUsed, Reserved, CleanIsStored,
     BeyondEndTaken, Sized, Level

(* Marking a block used, one that the search found or any other.           *)
LEMMA UseBlockPreserves ==
  ASSUME IInv, NEW b \in Nat, UseBlock(b)  PROVE IInv'
<1>1. total \in Lengths /\ map' \subseteq Blocks
  BY LengthsAssumption DEF IInv, TypeOK, UseBlock, Blocks
<1>2. TypeOK'
  <2>1. used' \in Int
    BY DEF IInv, TypeOK, UseBlock
  <2>2. QED
    BY <1>1, <2>1, Zenon DEF IInv, TypeOK, UseBlock
<1>3. NoBitBeyondEnd' /\ BitmapBlocksUsed'
  BY DEF IInv, UseBlock, NoBitBeyondEnd, BitmapBlocksUsed
<1>4. QED
  BY <1>2, <1>3 DEF IInv, UseBlock, CleanIsStored, BeyondEndTaken, Sized, Level

(* Taking the lowest free block marks a block of the filesystem.           *)
LEMMA TakeFreePreserves ==
  ASSUME IInv, NEW hint \in Nat, TakeFree(hint)  PROVE IInv'
<1>1. total \in Nat
  BY LengthsArePositive DEF IInv, TypeOK
<1>2. hint < total
  BY <1>1 DEF TakeFree, FindFree
<1>3. FindFree(hint) \in Nat
  BY <1>1, <1>2, FindFreeIsLowest DEF IInv
<1>4. QED
  BY <1>3, UseBlockPreserves DEF TakeFree

(* Giving back a block that is not one of the bitmap's own.                *)
LEMMA UnuseBlockPreserves ==
  ASSUME IInv, NEW b \in Blocks \ Reserved(total), UnuseBlock(b)  PROVE IInv'
<1>1. TypeOK'
  <2>1. used' \in Int
    BY DEF IInv, TypeOK, UnuseBlock
  <2>2. map' \subseteq Blocks
    BY DEF IInv, TypeOK, UnuseBlock
  <2>3. QED
    BY <2>1, <2>2, Zenon DEF IInv, TypeOK, UnuseBlock
<1>2. NoBitBeyondEnd' /\ BitmapBlocksUsed'
  BY DEF IInv, UnuseBlock, NoBitBeyondEnd, BitmapBlocksUsed, Reserved
<1>3. QED
  BY <1>1, <1>2 DEF IInv, UnuseBlock, CleanIsStored, BeyondEndTaken, Sized, Level

(* A resize that keeps the number of bytes leaves the bitmap as it is; any *)
(* other one cuts it off at the end of a byte and marks the new bitmap     *)
(* blocks.                                                                 *)
LEMMA ResizePreserves ==
  ASSUME IInv, NEW end \in Lengths, Resize(end)  PROVE IInv'
<1>1. /\ total \in Nat \ {0} /\ end \in Nat \ {0} /\ total \in Lengths
      /\ Start \in Nat \ {0} /\ Start < end
  BY LengthsArePositive DEF IInv, TypeOK
<1>2. CASE Size(end) = Size(total)
  BY <1>2 DEF IInv, TypeOK, Resize, NoBitBeyondEnd, BitmapBlocksUsed, CleanIsStored,
     BeyondEndTaken, Sized, Level
<1>3. CASE Size(end) # Size(total)
  <2> DEFINE kept == {b \in map : b < Size(end) * ByteBits}
             added == Added(end) \ kept
  <2>1. /\ total' = end /\ len' = end /\ clean' = FALSE /\ map' = kept \cup added
        /\ used' = used + Cardinality(added) /\ lagged' = lagged /\ disk' = disk
        /\ CutIsEmpty(end)
    BY <1>3 DEF Resize, IInv, TypeOK
  <2>2. /\ ByteBits \in Nat \ {0} /\ BlockBytes \in Nat \ {0} /\ BlockBits \in Nat \ {0}
        /\ Size(end) \in Nat \ {0} /\ Size(total) \in Nat \ {0}
        /\ end <= Size(end) * ByteBits /\ Size(end) * ByteBits < end + ByteBits
        /\ BlocksFor(end) \in Nat \ {0} /\ Size(total) \div BlockBytes \in Int
        /\ 0 <= Size(total) \div BlockBytes
    <3>1. /\ ByteBits \in Nat \ {0} /\ BlockBytes \in Nat \ {0} /\ BlockBits \in Nat \ {0}
      BY WidthsArePositive DEF Widths
    <3>2. /\ Size(end) \in Nat \ {0} /\ Size(total) \in Nat \ {0}
          /\ end <= Size(end) * ByteBits /\ Size(end) * ByteBits < end + ByteBits
      BY <1>1, SizeBounds
    <3>3. BlocksFor(end) \in Nat \ {0}
      BY <1>1, BlockBounds
    <3>4. /\ Size(total) \div BlockBytes \in Int
          /\ 0 <= Size(total) \div BlockBytes <=> 0 * BlockBytes <= Size(total)
      <4>1. Size(total) \in Int /\ 0 \in Int
        BY <3>2
      <4>2. Size(total) \div BlockBytes \in Int
        BY <3>1, <4>1, Division
      <4>3. QED
        BY <3>1, <4>1, <4>2, DivBound
    <3>5. 0 * BlockBytes = 0
      BY <3>1
    <3>6. QED
      BY <3>1, <3>2, <3>3, <3>4, <3>5
  <2>3. \A b \in Added(end) : b \in Nat /\ b < end /\ b \in Blocks
    <3> SUFFICES ASSUME NEW i \in (Size(total) \div BlockBytes)..(BlocksFor(end) - 1)
                 PROVE  /\ i * BlockBits \in Nat /\ i * BlockBits < end
                        /\ i * BlockBits \in Blocks
      BY DEF Added
    <3>1. i \in Nat /\ i <= BlocksFor(end) - 1
      BY <2>2
    <3>2. i * BlockBits <= end - 1 /\ i * BlockBits \in Nat
      BY <1>1, <2>2, <3>1, BlockBounds
    <3>3. QED
      BY <1>1, <3>2 DEF Blocks
  <2>4. \A b \in kept : b < end
    <3> SUFFICES ASSUME NEW b \in map, b < Size(end) * ByteBits, b >= end  PROVE FALSE
      BY <1>1, BlocksAreNaturals DEF IInv, TypeOK
    <3>1. b \in BitmapBlocks(total) /\ b # Start
      BY <1>1, <2>1 DEF CutIsEmpty
    <3>2. PICK i \in 1..(BlocksFor(total) - 1) : b = i * BlockBits
      BY <3>1 DEF BitmapBlocks
    <3> DEFINE q == i * BlockBytes
    <3>3. i \in Nat /\ q \in Nat /\ b = q * ByteBits
      BY <2>2, <3>2 DEF BlockBits
    <3> HIDE DEF q
    <3>4. CASE q >= Size(end)
      <4>1. q * ByteBits >= Size(end) * ByteBits
        BY <2>2, <3>3, <3>4
      <4>2. QED
        BY <2>2, <3>3, <4>1
    <3>5. CASE q < Size(end)
      <4>1. (q + 1) * ByteBits <= Size(end) * ByteBits
        BY <2>2, <3>3, <3>5
      <4>2. (q + 1) * ByteBits = q * ByteBits + ByteBits
        BY <2>2, <3>3
      <4>3. QED
        BY <1>1, <2>2, <3>3, <4>1, <4>2
    <3>6. QED
      BY <2>2, <3>3, <3>4, <3>5
  <2>5. TypeOK'
    <3>1. Added(end) \subseteq 0..end
      BY <1>1, <2>3
    <3>2. IsFiniteSet(added)
      <4>1. IsFiniteSet(0..end)
        BY <1>1, FS_Interval
      <4>2. added \subseteq 0..end
        BY <3>1
      <4>3. QED
        BY <4>1, <4>2, FS_Subset
    <3>3. Cardinality(added) \in Nat
      BY <3>2, FS_CardinalityType
    <3>4. map' \subseteq Blocks
      BY <2>1, <2>3 DEF IInv, TypeOK
    <3> HIDE DEF added
    <3>5. used' \in Int
      BY <2>1, <3>3 DEF IInv, TypeOK
    <3>6. QED
      BY <2>1, <3>4, <3>5, Zenon DEF IInv, TypeOK
  <2>6. NoBitBeyondEnd'
    BY <2>1, <2>3, <2>4 DEF NoBitBeyondEnd
  <2>7. BitmapBlocksUsed'
    <3> SUFFICES ASSUME NEW b \in BitmapBlocks(end)  PROVE b \in kept \/ b \in Added(end)
      BY <2>1 DEF BitmapBlocksUsed
    <3>1. b \in Nat /\ b < end /\ b < Size(end) * ByteBits
      <4>1. b \in Nat /\ b < end
        BY BitmapBlocksBelowEnd
      <4>2. Size(end) * ByteBits \in Int
        BY <2>2
      <4>3. QED
        BY <1>1, <2>2, <4>1, <4>2
    <3>2. CASE b = Start
      <4>1. b \in map
        BY <3>2 DEF IInv, BitmapBlocksUsed, BitmapBlocks
      <4>2. QED
        BY <3>1, <4>1
    <3>3. CASE b # Start
      <4>1. PICK i \in 1..(BlocksFor(end) - 1) : b = i * BlockBits
        BY <3>3 DEF BitmapBlocks
      <4>2. i \in Nat \ {0} /\ i <= BlocksFor(end) - 1
        BY <2>2, <4>1
      <4>3. CASE i >= Size(total) \div BlockBytes
        BY <2>2, <4>1, <4>2, <4>3 DEF Added
      <4>4. CASE i < Size(total) \div BlockBytes
        <5>1. i + 1 <= Size(total) \div BlockBytes
          BY <2>2, <4>2, <4>4
        <5>2. (i + 1) * BlockBytes <= Size(total)
          BY <2>2, <4>2, <5>1, DivBound
        <5>3. i * BlockBytes < Size(total)
          <6>1. (i + 1) * BlockBytes = i * BlockBytes + BlockBytes /\ i * BlockBytes \in Int
            BY <2>2, <4>2
          <6>2. QED
            BY <2>2, <5>2, <6>1
        <5>4. i * BlockBits <= total - 1
          BY <1>1, <4>2, <5>3, BlocksBySize
        <5>5. i <= BlocksFor(total) - 1
          BY <1>1, <4>2, <5>4, BlockBounds
        <5>6. BlocksFor(total) \in Nat
          BY <1>1, BlockBounds
        <5>7. i \in 1..(BlocksFor(total) - 1)
          BY <4>2, <5>5, <5>6
        <5>8. b \in map
          BY <4>1, <5>7 DEF IInv, BitmapBlocksUsed, BitmapBlocks
        <5>9. QED
          BY <3>1, <5>8
      <4>5. QED
        BY <2>2, <4>2, <4>3, <4>4
    <3>4. QED
      BY <3>2, <3>3
  <2>8. CleanIsStored' /\ BeyondEndTaken'
    BY <2>1 DEF CleanIsStored, BeyondEndTaken
  <2>9. Sized' /\ Level'
    BY <2>1 DEF Sized, Level
  <2>10. QED
    BY <2>5, <2>6, <2>7, <2>8, <2>9 DEF IInv
<1>4. QED
  BY <1>2, <1>3

(* Syncing writes whole blocks: what the first n of them hold afterwards.  *)
LEMMA Written ==
  ASSUME NEW n \in Nat, NEW b \in Nat, SyncBlocks(n), disk \subseteq Nat
  PROVE  /\ ChunkOf(b) < n => (b \in disk' <=> b \in map \/ b >= total)
         /\ ChunkOf(b) >= n => (b \in disk' <=> b \in disk)
<1> DEFINE c == ChunkOf(b)
<1>1. BlockBits \in Nat \ {0}
  BY WidthsArePositive DEF Widths
<1>2. /\ c \in Nat
      /\ \A d \in Nat : b \in (d * BlockBits)..((d + 1) * BlockBits - 1) <=> d = c
  <2>1. c \in Int /\ b \div BlockBits = c
    BY <1>1, Division DEF ChunkOf
  <2>2. \A q \in Int : (q <= c <=> q * BlockBits <= b) /\ (b < q * BlockBits <=> c < q)
    <3>1. \A q \in Int : /\ q <= b \div BlockBits <=> q * BlockBits <= b
                         /\ b < q * BlockBits <=> b \div BlockBits < q
      BY <1>1, DivBound
    <3> HIDE DEF c
    <3>2. QED
      BY <2>1, <3>1
  <2>3. 0 * BlockBits = 0
    BY <1>1
  <2> HIDE DEF c
  <2>4. c \in Nat
    BY <2>1, <2>2, <2>3
  <2>5. ASSUME NEW d \in Nat
        PROVE  b \in (d * BlockBits)..((d + 1) * BlockBits - 1) <=> d = c
    <3>1. d * BlockBits \in Int /\ (d + 1) * BlockBits \in Int
      BY <1>1
    <3>2. (d <= c <=> d * BlockBits <= b) /\ (b < (d + 1) * BlockBits <=> c < d + 1)
      BY <2>2
    <3>3. QED
      BY <2>4, <3>1, <3>2
  <2>6. QED
    BY <2>4, <2>5
<1>3. disk' = {k \in disk : ChunkOf(k) >= n} \cup UNION {Flushed(d) : d \in 0..(n - 1)}
  BY DEF SyncBlocks
<1>4. \A d \in Nat : b \in Flushed(d) <=> d = c /\ (b \in map \/ b >= total)
  BY <1>2 DEF Flushed
<1>5. b \in disk' <=> (b \in disk /\ c >= n) \/ \E d \in 0..(n - 1) : b \in Flushed(d)
  BY <1>3
<1> HIDE DEF c
<1>6. (\E d \in 0..(n - 1) : b \in Flushed(d)) <=> c < n /\ (b \in map \/ b >= total)
  BY <1>2, <1>4
<1>7. QED
  BY <1>2, <1>5, <1>6 DEF c

(* What is written are the numbers of bits.                                *)
LEMMA WrittenIsNatural ==
  ASSUME NEW n \in Nat, SyncBlocks(n), disk \subseteq Nat
  PROVE  disk' \subseteq Nat
<1>1. BlockBits \in Nat \ {0}
  BY WidthsArePositive DEF Widths
<1>2. ASSUME NEW d \in Nat, NEW b \in Flushed(d)  PROVE b \in Nat
  <2>1. b \in (d * BlockBits)..((d + 1) * BlockBits - 1)
    BY <1>2 DEF Flushed
  <2>2. d * BlockBits \in Nat
    BY <1>1
  <2>3. QED
    BY <2>1, <2>2
<1>3. disk' = {k \in disk : ChunkOf(k) >= n} \cup UNION {Flushed(d) : d \in 0..(n - 1)}
  BY DEF SyncBlocks
<1>4. ASSUME NEW b \in disk'  PROVE b \in Nat
  <2>1. b \in disk \/ \E d \in 0..(n - 1) : b \in Flushed(d)
    BY <1>3
  <2>2. CASE b \in disk
    BY <2>2
  <2>3. ASSUME NEW d \in 0..(n - 1), b \in Flushed(d)  PROVE b \in Nat
    <3>1. d \in Nat
      OBVIOUS
    <3>2. QED
      BY <1>2, <2>3, <3>1
  <2>4. QED
    BY <2>1, <2>2, <2>3
<1>5. QED
  BY <1>4

(* The block of the bitmap that holds the bit of b.                        *)
LEMMA ChunkBelow ==
  ASSUME NEW n \in Nat \ {0}, NEW b \in Nat
  PROVE  /\ ChunkOf(b) \in Nat
         /\ b < BlocksFor(n) * BlockBits <=> ChunkOf(b) < BlocksFor(n)
         /\ b < n => ChunkOf(b) < BlocksFor(n)
<1>1. BlockBits \in Nat \ {0}
  BY WidthsArePositive DEF Widths
<1>2. BlocksFor(n) \in Nat \ {0}
  BY BlockBounds
<1>3. ChunkOf(b) \in Int /\ ChunkOf(b) = b \div BlockBits
  BY <1>1, Division DEF ChunkOf
<1>4. 0 <= ChunkOf(b) <=> 0 * BlockBits <= b
  BY <1>1, <1>3, DivBound
<1>5. b < BlocksFor(n) * BlockBits <=> ChunkOf(b) < BlocksFor(n)
  BY <1>1, <1>2, <1>3, DivBound
<1>6. ~(BlocksFor(n) * BlockBits <= n - 1)
  BY <1>2, BlockBounds
<1>7. BlocksFor(n) * BlockBits \in Int /\ 0 * BlockBits = 0
  BY <1>1, <1>2
<1>8. QED
  BY <1>2, <1>3, <1>4, <1>5, <1>6, <1>7

(* A sync writes every block of the bitmap, and makes it clean.            *)
LEMMA SyncPreserves ==
  ASSUME IInv, Sync  PROVE IInv'
<1>1. /\ total \in Nat \ {0} /\ len \in Nat \ {0} /\ BlocksFor(total) \in Nat \ {0}
      /\ Start \in Nat
  BY LengthsArePositive, BlockBounds DEF IInv, TypeOK
<1>2. /\ SyncBlocks(BlocksFor(total)) /\ clean' = TRUE
      /\ map' = map /\ total' = total /\ used' = used /\ len' = len /\ lagged' = lagged
  BY DEF Sync
<1>3. TypeOK'
  BY <1>1, <1>2, WrittenIsNatural DEF IInv, TypeOK
<1>4. CleanIsStored'
  BY <1>1, <1>2, Written, ChunkBelow DEF IInv, TypeOK, CleanIsStored
<1>5. BeyondEndTaken'
  <2> SUFFICES ASSUME ~lagged, NEW b \in len..(BlocksFor(len) * BlockBits - 1)
               PROVE  b \in disk'
    BY <1>2 DEF BeyondEndTaken
  <2>1. total = len
    BY DEF IInv, Level
  <2>2. b \in Nat /\ b >= total /\ b < BlocksFor(total) * BlockBits
    <3>1. BlocksFor(len) * BlockBits \in Int
      BY <1>1, <2>1, WidthsArePositive DEF Widths
    <3>2. QED
      BY <1>1, <2>1, <3>1
  <2>3. ChunkOf(b) < BlocksFor(total)
    BY <1>1, <2>2, ChunkBelow
  <2>4. QED
    BY <1>1, <1>2, <2>2, <2>3, Written DEF IInv, TypeOK
<1>6. QED
  BY <1>2, <1>3, <1>4, <1>5
     DEF IInv, NoBitBeyondEnd, BitmapBlocksUsed, Sized, Level

(* A sync that fails has rewritten some blocks of the bitmap: of a clean   *)
(* one, as they were.                                                      *)
LEMMA SyncFailsPreserves ==
  ASSUME IInv, NEW n \in 0..(BlocksFor(total) - 1), SyncFails(n)  PROVE IInv'
<1>1. /\ total \in Nat \ {0} /\ len \in Nat \ {0} /\ BlocksFor(total) \in Nat \ {0}
      /\ BlocksFor(len) \in Nat \ {0}
  BY LengthsArePositive, BlockBounds DEF IInv, TypeOK
<1>2. /\ SyncBlocks(n) /\ n \in Nat /\ clean' = clean
      /\ map' = map /\ total' = total /\ used' = used /\ len' = len /\ lagged' = lagged
  BY <1>1 DEF SyncFails
<1>3. TypeOK'
  BY <1>1, <1>2, WrittenIsNatural DEF IInv, TypeOK
<1>4. CleanIsStored'
  <2> SUFFICES ASSUME clean, NEW b \in 0..(total - 1)  PROVE b \in disk' <=> b \in map
    BY <1>2 DEF CleanIsStored
  <2>1. b \in Nat /\ b < total /\ (b \in disk <=> b \in map)
    BY <1>1 DEF IInv, CleanIsStored
  <2>2. ChunkOf(b) \in Nat
    BY <1>1, <2>1, ChunkBelow
  <2>3. QED
    BY <1>1, <1>2, <2>1, <2>2, Written DEF IInv, TypeOK
<1>5. BeyondEndTaken'
  <2> SUFFICES ASSUME clean, ~lagged, NEW b \in len..(BlocksFor(len) * BlockBits - 1)
               PROVE  b \in disk'
    BY <1>2 DEF BeyondEndTaken
  <2>1. total = len /\ b \in disk
    BY DEF IInv, Level, BeyondEndTaken
  <2>2. b \in Nat /\ b >= total
    <3>1. BlocksFor(len) * BlockBits \in Int
      BY <1>1, WidthsArePositive DEF Widths
    <3>2. QED
      BY <1>1, <2>1, <3>1
  <2>3. ChunkOf(b) \in Nat
    BY <1>1, <2>2, ChunkBelow
  <2>4. QED
    BY <1>1, <1>2, <2>1, <2>2, <2>3, Written DEF IInv, TypeOK
<1>6. QED
  BY <1>2, <1>3, <1>4, <1>5
     DEF IInv, NoBitBeyondEnd, BitmapBlocksUsed, Sized, Level

(* What is read back for the super block's count has every bit of a clean  *)
(* bitmap, and its blocks are those of the bitmap that was written.        *)
LEMMA OpenPreserves ==
  ASSUME IInv, Open  PROVE IInv'
<1>1. /\ total \in Nat \ {0} /\ len \in Nat \ {0} /\ len \in Lengths /\ total \in Lengths
      /\ disk \subseteq Nat
  BY LengthsArePositive DEF IInv, TypeOK
<1>2. /\ clean = TRUE /\ clean' = clean /\ map' = Fetched /\ total' = len
      /\ used' = CalcUsed(Fetched, len) /\ disk' = disk /\ len' = len /\ lagged' = lagged
  BY DEF Open, IInv, TypeOK
<1>3. TypeOK'
  <2>1. used' \in Int
    BY <1>1, <1>2, CalcIsInt DEF CalcUsed
  <2>2. map' \subseteq Blocks
    <3> SUFFICES ASSUME NEW b \in disk, b < len  PROVE b \in Blocks
      BY <1>2 DEF Fetched
    <3>1. b \in 0..(len - 1)
      BY <1>1
    <3>2. QED
      BY <1>1, <3>1 DEF Blocks
  <2>3. QED
    BY <1>1, <1>2, <2>1, <2>2, Zenon DEF IInv, TypeOK
<1>4. NoBitBeyondEnd'
  BY <1>2 DEF NoBitBeyondEnd, Fetched
<1>5. BitmapBlocksUsed'
  <2>1. BitmapBlocks(len) = BitmapBlocks(total)
    BY <1>1, SameSizeSameBlocks DEF IInv, Sized, BitmapBlocks
  <2>2. ASSUME NEW b \in BitmapBlocks(len)  PROVE b \in Fetched
    <3>1. b \in Nat /\ b < len /\ b < total /\ b \in map
      BY <1>1, <2>1, <2>2, BitmapBlocksBelowEnd DEF IInv, BitmapBlocksUsed
    <3>2. b \in disk
      BY <1>1, <1>2, <3>1 DEF IInv, CleanIsStored
    <3>3. QED
      BY <3>1, <3>2 DEF Fetched
  <2>3. QED
    BY <1>2, <2>2 DEF BitmapBlocksUsed
<1>6. CleanIsStored'
  BY <1>1, <1>2 DEF CleanIsStored, Fetched
<1>7. BeyondEndTaken' /\ Sized' /\ Level'
  BY <1>2 DEF IInv, BeyondEndTaken, Sized, Level
<1>8. QED
  BY <1>3, <1>4, <1>5, <1>6, <1>7 DEF IInv

(* Every step preserves the inductive invariant.                           *)
LEMMA NextIsSound == IInv /\ [Next]_vars => IInv'
<1> SUFFICES ASSUME IInv, [Next]_vars  PROVE IInv'
  OBVIOUS
<1>1. ASSUME NEW b \in Blocks, UseBlock(b)  PROVE IInv'
  BY <1>1, BlocksAreNaturals, UseBlockPreserves
<1>2. ASSUME NEW b \in Blocks, TakeFree(b)  PROVE IInv'
  BY <1>2, BlocksAreNaturals, TakeFreePreserves
<1>3. ASSUME NEW b \in Blocks \ Reserved(total), UnuseBlock(b)  PROVE IInv'
  BY <1>3, UnuseBlockPreserves
<1>4. ASSUME NEW n \in Lengths, Resize(n)  PROVE IInv'
  BY <1>4, ResizePreserves
<1>5. CASE Sync
  BY <1>5, SyncPreserves
<1>6. ASSUME NEW n \in 0..(BlocksFor(total) - 1), SyncFails(n)  PROVE IInv'
  BY <1>6, SyncFailsPreserves
<1>7. CASE Open
  BY <1>7, OpenPreserves
<1>8. CASE UNCHANGED vars
  BY <1>8 DEF vars, IInv, TypeOK, NoBitBeyondEnd, BitmapBlocksUsed, CleanIsStored,
     BeyondEndTaken, Sized, Level
<1>9. QED
  BY <1>1, <1>2, <1>3, <1>4, <1>5, <1>6, <1>7, <1>8 DEF Next

(* Whatever is marked, given back, resized, written in part or read back,  *)
(* the bitmap keeps the inductive invariant (bitmap.c:165-303, 376-433).   *)
THEOREM Sound == Spec => []IInv
<1>1. QED
  BY InitIsSound, NextIsSound, PTL DEF Spec

(* No bit beyond the end is set in memory and the bitmap's own blocks are  *)
(* marked used (bitmap.c:268-303, 376-388).                                *)
THEOREM InvHolds == Spec => []Inv
<1>1. IInv => Inv
  BY DEF IInv, Inv
<1>2. QED
  BY <1>1, Sound, PTL

(* The search for a free block, by bytes and within a byte, returns the    *)
(* lowest one from the hint on (bitmap.c:52-63, tools.c:84-105).           *)
THEOREM FindFreeExactHolds == Spec => []FindFreeExact
<1>1. IInv => FindFreeExact
  <2> SUFFICES ASSUME IInv, NEW hint \in 0..(total - 1)
               PROVE  LET free == {b \in hint..(total - 1) : b \notin map}
                      IN  FindFree(hint) = IF free = {} THEN 0
                                           ELSE CHOOSE b \in free : \A c \in free : b <= c
    BY DEF FindFreeExact
  <2> DEFINE free == {b \in hint..(total - 1) : b \notin map}
  <2>1. total \in Nat /\ hint \in Nat /\ hint < total
    BY LengthsArePositive DEF IInv, TypeOK
  <2>2. IF free = {} THEN FindFree(hint) = 0
        ELSE FindFree(hint) \in free /\ \A c \in free : FindFree(hint) <= c
    BY <2>1, FindFreeIsLowest DEF IInv
  <2>3. free \subseteq Nat
    BY <2>1
  <2> HIDE DEF free
  <2>4. CASE free # {}
    <3> DEFINE low == CHOOSE b \in free : \A c \in free : b <= c
    <3>1. low \in free /\ \A c \in free : low <= c
      BY <2>2, <2>4
    <3> HIDE DEF low
    <3>2. low <= FindFree(hint) /\ FindFree(hint) <= low
      BY <2>2, <2>4, <3>1
    <3>3. low = FindFree(hint)
      <4>1. low \in Nat /\ FindFree(hint) \in Nat
        BY <2>2, <2>3, <2>4, <3>1
      <4>2. QED
        BY <3>2, <4>1
    <3>4. QED
      BY <2>4, <3>3 DEF low, free
  <2>5. QED
    BY <2>2, <2>4 DEF free
<1>2. QED
  BY <1>1, Sound, PTL

(* A clean bitmap is on the device bit for bit (bitmap.c:165-217, 427-433). *)
THEOREM CleanIsStoredHolds == Spec => []CleanIsStored
<1>1. IInv => CleanIsStored
  BY DEF IInv
<1>2. QED
  BY <1>1, Sound, PTL

(* The bits of the last bitmap block beyond the end are written as used,   *)
(* as long as each resize changed the number of bytes (bitmap.c:171-184).  *)
THEOREM BeyondEndTakenHolds == Spec => []BeyondEndTaken
<1>1. IInv => BeyondEndTaken
  BY DEF IInv
<1>2. QED
  BY <1>1, Sound, PTL
==============================================================================
