------------------------ MODULE ObjectSegmentProofs ------------------------
(***************************************************************************)
(* Proofs about ObjectidMap for every MaxId and MaxSize, the inductive     *)
(* invariant behind "no id is lost" and the refinement of IdReservation;   *)
(* and about SegmentMove for every pair of segments on devices of any      *)
(* length: a block that was copied is in its new place, one that was not   *)
(* is still in its old place, because the direction keeps the copy from    *)
(* running over blocks it has yet to read.                                 *)
(***************************************************************************)
EXTENDS ObjectidMap, SegmentMove, TLAPS

-----------------------------------------------------------------------------
(* The object id map.                                                      *)
Inv == TypeOK /\ Increasing /\ NoIdLost

-----------------------------------------------------------------------------
(* Arithmetic of the array's indices: a pair's upper bound is in the array *)
(* and two pairs are at least two entries apart.                           *)
LEMMA PairBounds ==
  ASSUME TypeOK
  PROVE  /\ cursize \in Nat
         /\ \A k \in 0..(cursize - 1) : objectids[k] \in 1..(MaxId + 1) /\ objectids[k] \in Int
         /\ \A p \in Pairs : /\ p \in Int
                             /\ p \in 0..(cursize - 1)
                             /\ p + 1 \in 0..(cursize - 1)
                             /\ objectids[p] \in Int /\ objectids[p + 1] \in Int
         /\ \A p, j \in Pairs : j < p => j + 2 <= p
BY MaxSizeAssumption, MaxIdAssumption DEF TypeOK, Pairs

LEMMA IdInt == \A id \in Ids : id \in Int /\ id >= 1 /\ id <= MaxId
BY MaxIdAssumption DEF Ids

(* Test, with its early exit, answers exactly whether an interval holds    *)
(* the id.                                                                 *)
LEMMA TestExact ==
  ASSUME TypeOK, Increasing, NEW id \in Ids
  PROVE  Test(id) <=> id \in Covered
<1>1. ASSUME Test(id) PROVE id \in Covered
  <2>1. PICK p \in Pairs : objectids[p] <= id /\ (id = objectids[p] \/ id < objectids[p + 1])
    BY <1>1 DEF Test
  <2>2. objectids[p] < objectids[p + 1]
    BY PairBounds, <2>1 DEF Increasing
  <2>3. id < objectids[p + 1]
    BY <2>1, <2>2, PairBounds, IdInt
  <2>4. QED
    BY <2>1, <2>3 DEF Covered
<1>2. ASSUME id \in Covered PROVE Test(id)
  <2>1. PICK p \in Pairs : objectids[p] <= id /\ id < objectids[p + 1]
    BY <1>2 DEF Covered
  <2>2. ASSUME NEW j \in Pairs, j < p PROVE id >= objectids[j]
    <3>1. objectids[j] < objectids[p]
      BY <2>2, PairBounds DEF Increasing
    <3>2. QED
      BY <2>1, <3>1, PairBounds, IdInt
  <2>3. QED
    BY <2>1, <2>2 DEF Test
<1>3. QED
  BY <1>1, <1>2

(* Where the scan did not stop, the id lies strictly above the interval.   *)
LEMMA PassedPairs ==
  ASSUME TypeOK, Increasing, NEW id \in Ids, ~Test(id),
         NEW j \in Pairs, ~Stops(j, id)
  PROVE  objectids[j] < id /\ objectids[j + 1] < id
<1>2. id \notin Covered
  BY TestExact
<1>3. ~(objectids[j] <= id /\ id < objectids[j + 1])
  BY <1>2 DEF Covered
<1>4. objectids[j] < objectids[j + 1]
  BY PairBounds DEF Increasing
<1>5. QED
  BY <1>3, <1>4, PairBounds, IdInt DEF Stops

(* Every entry is the lower or the upper bound of a pair.                  *)
LEMMA EntryOfPair ==
  ASSUME TypeOK, NEW k \in 0..(cursize - 1)
  PROVE  \E j \in Pairs : k = j \/ k = j + 1
<1>1. k \in Int /\ 0 <= k /\ k <= cursize - 1 /\ cursize \in Nat
  BY PairBounds
<1>2. CASE k % 2 = 0
  BY <1>2 DEF Pairs
<1>3. CASE k % 2 = 1
  <2>1. k # 0 /\ (k - 1) % 2 = 0
    BY <1>1, <1>3
  <2>2. k - 1 \in Pairs
    BY <1>1, <2>1 DEF Pairs
  <2>3. QED
    BY <2>2, <1>1
<1>4. QED
  BY <1>1, <1>2, <1>3

(* Every bound below the pair the scan stops at is below the id.           *)
LEMMA ScanBelow ==
  ASSUME TypeOK, Increasing, NEW id \in Ids, NEW p \in Pairs, StopsFirst(p, id),
         NEW k \in 0..(cursize - 1), k < p
  PROVE  objectids[k] < id
<1>1. PICK j \in Pairs : k = j \/ k = j + 1
  BY EntryOfPair
<1>2. j < p
  BY <1>1, PairBounds
<1>3. ~Test(id) /\ ~Stops(j, id)
  BY <1>2 DEF StopsFirst
<1>4. QED
  BY <1>1, <1>3, PassedPairs

LEMMA ScanAll ==
  ASSUME TypeOK, Increasing, NEW id \in Ids, AboveAll(id), NEW k \in 0..(cursize - 1)
  PROVE  objectids[k] < id
<1>1. PICK j \in Pairs : k = j \/ k = j + 1
  BY EntryOfPair
<1>2. ~Test(id) /\ ~Stops(j, id)
  BY <1>1 DEF AboveAll
<1>3. QED
  BY <1>1, <1>2, PassedPairs

-----------------------------------------------------------------------------
(* What each alternative does to the array and to the set of ids it holds. *)
LEMMA GrowDownStep ==
  ASSUME TypeOK, Increasing, NEW id \in Ids, NEW p \in Pairs, GrowDown(p, id)
  PROVE  TypeOK' /\ Increasing' /\ Covered' = Covered \cup {id}
<1>1. /\ cursize' = cursize /\ Pairs' = Pairs /\ id + 1 = objectids[p]
      /\ p \in 0..(cursize - 1) /\ p + 1 \in 0..(cursize - 1)
  BY PairBounds DEF GrowDown, Pairs
<1>2. \A k \in 0..(cursize - 1) : objectids'[k] = IF k = p THEN id ELSE objectids[k]
  BY DEF GrowDown, TypeOK
<1>3. TypeOK'
  BY <1>1, IdInt, MaxIdAssumption DEF GrowDown, TypeOK, MarkSuper
<1>4. Increasing'
  <2> SUFFICES ASSUME NEW j \in 0..(cursize - 1), NEW k \in 0..(cursize - 1), j < k
               PROVE  objectids'[j] < objectids'[k]
    BY <1>1 DEF Increasing
  <2>1. objectids[j] < objectids[k]
    BY DEF Increasing
  <2>2. k = p => objectids[j] < id
    BY ScanBelow DEF GrowDown
  <2>3. QED
    BY <1>1, <1>2, <2>1, <2>2, PairBounds, IdInt
<1>5. ASSUME NEW o \in Ids PROVE o \in Covered' <=> o \in Covered \cup {id}
  <2>1. objectids[p] < objectids[p + 1]
    BY <1>1, PairBounds DEF Increasing
  <2>2. \A j \in Pairs : (objectids'[j] <= o /\ o < objectids'[j + 1])
                         <=> (objectids[j] <= o /\ o < objectids[j + 1]) \/ (j = p /\ o = id)
    <3> SUFFICES ASSUME NEW j \in Pairs
                 PROVE  (objectids'[j] <= o /\ o < objectids'[j + 1])
                         <=> (objectids[j] <= o /\ o < objectids[j + 1]) \/ (j = p /\ o = id)
      OBVIOUS
    <3>1. j + 1 # p
      BY PairBounds DEF Pairs
    <3>2. /\ objectids'[j] = (IF j = p THEN id ELSE objectids[j])
          /\ objectids'[j + 1] = objectids[j + 1]
      BY <1>2, <3>1, PairBounds
    <3>3. QED
      BY <3>2, <1>1, <2>1, PairBounds, IdInt
  <2>3. QED
    BY <1>1, <2>2 DEF Covered
<1>6. QED
  BY <1>3, <1>4, <1>5 DEF Covered

LEMMA GrowUpStep ==
  ASSUME TypeOK, Increasing, NEW id \in Ids, NEW p \in Pairs, GrowUp(p, id)
  PROVE  TypeOK' /\ Increasing' /\ Covered' = Covered \cup {id}
<1>1. /\ cursize' = cursize /\ Pairs' = Pairs /\ id = objectids[p + 1]
      /\ p \in 0..(cursize - 1) /\ p + 1 \in 0..(cursize - 1)
  BY PairBounds DEF GrowUp, Pairs
<1>2. \A k \in 0..(cursize - 1) :
        objectids'[k] = IF k = p + 1 THEN id + 1 ELSE objectids[k]
  BY <1>1 DEF GrowUp, TypeOK
<1>3. TypeOK'
  <2>1. objectids' \in [0..(cursize - 1) -> 1..(MaxId + 1)]
    BY <1>1, IdInt, MaxIdAssumption DEF GrowUp, TypeOK
  <2>2. QED
    BY <1>1, <2>1 DEF GrowUp, TypeOK, MarkSuper
<1>4. Increasing'
  <2> SUFFICES ASSUME NEW j \in 0..(cursize - 1), NEW k \in 0..(cursize - 1), j < k
               PROVE  objectids'[j] < objectids'[k]
    BY <1>1 DEF Increasing
  <2>1. objectids[j] < objectids[k]
    BY DEF Increasing
  <2>2. ASSUME j = p + 1 PROVE id + 1 < objectids[k]
    <3>1. p + 2 \in 0..(cursize - 1) /\ p + 2 < cursize
      BY <2>2, PairBounds, <1>1
    <3>2. id < objectids[p + 2] /\ id + 1 # objectids[p + 2]
      BY <1>1, <3>1, PairBounds DEF Increasing, GrowUp, ReachesNext
    <3>3. k = p + 2 \/ (p + 2 < k /\ objectids[p + 2] < objectids[k])
      BY <2>2, <3>1, PairBounds, <1>1 DEF Increasing
    <3>4. QED
      BY <3>1, <3>2, <3>3, PairBounds, IdInt
  <2>3. QED
    BY <1>1, <1>2, <2>1, <2>2, PairBounds, IdInt
<1>5. ASSUME NEW o \in Ids PROVE o \in Covered' <=> o \in Covered \cup {id}
  <2>1. objectids[p] < objectids[p + 1]
    BY <1>1, PairBounds DEF Increasing
  <2>2. \A j \in Pairs : (objectids'[j] <= o /\ o < objectids'[j + 1])
                         <=> (objectids[j] <= o /\ o < objectids[j + 1]) \/ (j = p /\ o = id)
    <3> SUFFICES ASSUME NEW j \in Pairs
                 PROVE  (objectids'[j] <= o /\ o < objectids'[j + 1])
                         <=> (objectids[j] <= o /\ o < objectids[j + 1]) \/ (j = p /\ o = id)
      OBVIOUS
    <3>1. j # p + 1
      BY PairBounds DEF Pairs
    <3>2. /\ objectids'[j + 1] = (IF j = p THEN id + 1 ELSE objectids[j + 1])
          /\ objectids'[j] = objectids[j]
      BY <1>2, <3>1, PairBounds
    <3>3. QED
      BY <3>2, <1>1, <2>1, PairBounds, IdInt
  <2>3. QED
    BY <1>1, <2>2 DEF Covered
<1>6. QED
  BY <1>3, <1>4, <1>5 DEF Covered

(* The pair p takes the upper bound of the next one, and the pairs above   *)
(* are the same intervals two entries lower.                               *)
LEMMA JoinStep ==
  ASSUME TypeOK, Increasing, NEW id \in Ids, NEW p \in Pairs, Join(p, id)
  PROVE  TypeOK' /\ Increasing' /\ Covered' = Covered \cup {id}
<1>1. /\ cursize' = cursize - 2 /\ id = objectids[p + 1] /\ id + 1 = objectids[p + 2]
      /\ p \in 0..(cursize - 1) /\ p + 1 \in 0..(cursize - 1)
      /\ p + 2 \in Pairs /\ p + 2 \in 0..(cursize - 1)
  BY PairBounds DEF Join, Pairs, ReachesNext
<1>2. p + 3 \in 0..(cursize - 1)
  BY <1>1, PairBounds
<1>3. \A k \in 0..(cursize - 3) :
        objectids'[k] = IF k <= p THEN objectids[k] ELSE objectids[k + 2]
  BY DEF Join
<1>4. \A k \in 0..(cursize - 3) : k \in 0..(cursize - 1) /\ k + 2 \in 0..(cursize - 1)
  BY PairBounds
<1>5. TypeOK'
  <2>1. \A k \in 0..(cursize - 3) : objectids'[k] \in 1..(MaxId + 1)
    BY <1>3, <1>4, PairBounds
  <2>2. objectids' \in [0..(cursize' - 1) -> 1..(MaxId + 1)]
    <3>1. cursize' - 1 = cursize - 3
      BY <1>1, PairBounds
    <3>2. objectids' = [k \in 0..(cursize - 3) |->
                          IF k <= p THEN objectids[k] ELSE objectids[k + 2]]
      BY DEF Join
    <3>3. objectids' \in [0..(cursize - 3) -> 1..(MaxId + 1)]
      BY ONLY <1>3, <2>1, <3>2
    <3>4. QED
      BY <3>1, <3>3
  <2>3. cursize' \in 0..MaxSize /\ cursize' % 2 = 0
    BY <1>1, <1>2, MaxSizeAssumption DEF TypeOK
  <2>4. QED
    BY <2>2, <2>3 DEF Join, TypeOK, MarkSuper
<1>6. Increasing'
  <2> SUFFICES ASSUME NEW j \in 0..(cursize - 3), NEW k \in 0..(cursize - 3), j < k
               PROVE  objectids'[j] < objectids'[k]
    BY <1>1, PairBounds DEF Increasing
  <2>1. /\ objectids[j] < objectids[k] /\ objectids[j] < objectids[k + 2]
        /\ objectids[j + 2] < objectids[k + 2]
    BY <1>4 DEF Increasing
  <2>2. QED
    BY <1>1, <1>3, <2>1
<1>7. Pairs' = {j \in Pairs : j <= cursize - 3}
  BY <1>1, PairBounds DEF Pairs
<1>8. ASSUME NEW o \in Ids PROVE o \in Covered' <=> o \in Covered \cup {id}
  <2>1. /\ objectids[p] < objectids[p + 1] /\ objectids[p + 2] < objectids[p + 3]
    BY <1>1, <1>2, PairBounds DEF Increasing
  <2>2. ASSUME NEW j \in Pairs', j < p
        PROVE  objectids'[j] = objectids[j] /\ objectids'[j + 1] = objectids[j + 1]
    BY <1>1, <1>3, <1>7, <2>2, PairBounds
  <2>3. p \in Pairs' /\ objectids'[p] = objectids[p] /\ objectids'[p + 1] = objectids[p + 3]
    BY <1>1, <1>2, <1>3, <1>7, PairBounds
  <2>4. ASSUME NEW j \in Pairs', j > p
        PROVE  /\ j + 2 \in Pairs
               /\ objectids'[j] = objectids[j + 2] /\ objectids'[j + 1] = objectids[j + 3]
    <3>1. j \in Pairs /\ j <= cursize - 4 /\ j \in Int
      <4>1. j \in Pairs /\ j <= cursize - 3 /\ j \in Int
        BY <1>7, PairBounds
      <4>2. j % 2 = 0 /\ cursize % 2 = 0
        BY <4>1 DEF Pairs, TypeOK
      <4>3. QED
        BY <4>1, <4>2, PairBounds
    <3>2. j + 2 \in Pairs
      BY <3>1, PairBounds DEF Pairs
    <3>3. QED
      BY <3>1, <3>2, <1>1, <1>3, <2>4, PairBounds
  <2>5. ASSUME o \in Covered' PROVE o \in Covered \cup {id}
    <3>1. PICK j \in Pairs' : objectids'[j] <= o /\ o < objectids'[j + 1]
      BY <2>5 DEF Covered
    <3>2. CASE j < p
      BY <3>1, <3>2, <2>2, <1>7 DEF Covered
    <3>3. CASE j > p
      <4>1. /\ j + 2 \in Pairs /\ (j + 2) + 1 = j + 3
            /\ objectids[j + 2] <= o /\ o < objectids[j + 3]
        BY <3>1, <3>3, <2>4, <1>7, PairBounds
      <4>2. QED
        BY <4>1 DEF Covered
    <3>4. CASE j = p
      <4>1. \/ objectids[p] <= o /\ o < objectids[p + 1]
            \/ o = id
            \/ objectids[p + 2] <= o /\ o < objectids[p + 3]
        BY <3>1, <3>4, <2>3, <1>1, <1>2, PairBounds, IdInt
      <4>2. QED
        BY <4>1, <1>1 DEF Covered
    <3>5. QED
      BY <3>2, <3>3, <3>4, <1>7, PairBounds
  <2>6. ASSUME o = id PROVE o \in Covered'
    BY <2>6, <2>3, <2>1, <1>1, <1>2, PairBounds, IdInt DEF Covered
  <2>7. ASSUME o \in Covered PROVE o \in Covered'
    <3>1. PICK j \in Pairs : objectids[j] <= o /\ o < objectids[j + 1]
      BY <2>7 DEF Covered
    <3>2. CASE j < p
      <4>1. j \in Pairs'
        BY <3>2, <1>1, <1>7, PairBounds
      <4>2. QED
        BY <3>1, <3>2, <4>1, <2>2 DEF Covered
    <3>3. CASE j = p \/ j = p + 2
      BY <3>1, <3>3, <2>3, <2>1, <1>1, <1>2, PairBounds, IdInt DEF Covered
    <3>4. CASE j > p + 2
      <4>1. j - 2 \in Pairs' /\ j - 2 > p
        BY <3>4, <1>1, PairBounds DEF Pairs, TypeOK
      <4>2. objectids'[j - 2] = objectids[j] /\ objectids'[(j - 2) + 1] = objectids[j + 1]
        BY <4>1, <2>4, PairBounds
      <4>3. QED
        BY <3>1, <4>1, <4>2 DEF Covered
    <3>5. j # p + 1
      BY <3>1 DEF Pairs
    <3>6. QED
      BY <3>2, <3>3, <3>4, <3>5, PairBounds, <1>1
  <2>8. QED
    BY <2>5, <2>6, <2>7
<1>9. QED
  BY <1>5, <1>6, <1>8 DEF Covered

(* The pairs from p up are the same intervals two entries higher, and pair *)
(* p holds the id alone.                                                   *)
LEMMA InsertStep ==
  ASSUME TypeOK, Increasing, NEW id \in Ids, NEW p \in Pairs, Insert(p, id)
  PROVE  TypeOK' /\ Increasing' /\ Covered' = Covered \cup {id}
<1>1. /\ cursize' = cursize + 2 /\ id + 1 < objectids[p]
      /\ p \in 0..(cursize - 1) /\ p + 1 \in 0..(cursize - 1)
  BY PairBounds, IdInt DEF Insert
<1>2. \A k \in 0..(cursize + 1) :
        objectids'[k] = IF k < p THEN objectids[k]
                        ELSE IF k = p THEN id
                        ELSE IF k = p + 1 THEN id + 1
                        ELSE objectids[k - 2]
  BY DEF Insert
<1>3. \A k \in 0..(cursize - 1) :
        k < p => objectids'[k] = objectids[k] /\ objectids[k] < id
  BY <1>2, PairBounds, ScanBelow DEF Insert
<1>4. objectids'[p] = id /\ objectids'[p + 1] = id + 1
  BY <1>1, <1>2, PairBounds
<1>5. \A k \in 0..(cursize - 1) :
        k >= p => objectids'[k + 2] = objectids[k] /\ id + 1 < objectids[k]
  <2> SUFFICES ASSUME NEW k \in 0..(cursize - 1), k >= p
               PROVE  objectids'[k + 2] = objectids[k] /\ id + 1 < objectids[k]
    OBVIOUS
  <2>1. objectids'[k + 2] = objectids[k]
    BY <1>1, <1>2, PairBounds
  <2>2. k = p \/ objectids[p] < objectids[k]
    BY <1>1, PairBounds DEF Increasing
  <2>3. QED
    BY <2>1, <2>2, <1>1, PairBounds, IdInt
<1>6. \A k \in 0..(cursize + 1) :
        \/ k \in 0..(cursize - 1) /\ k < p
        \/ k = p \/ k = p + 1
        \/ k - 2 \in 0..(cursize - 1) /\ k - 2 >= p
  BY <1>1, PairBounds
<1>7. TypeOK'
  <2>1. \A k \in 0..(cursize + 1) : objectids'[k] \in 1..(MaxId + 1)
    <3> SUFFICES ASSUME NEW k \in 0..(cursize + 1) PROVE objectids'[k] \in 1..(MaxId + 1)
      OBVIOUS
    <3>1. CASE k \in 0..(cursize - 1) /\ k < p
      BY <3>1, <1>3, PairBounds
    <3>2. CASE k = p \/ k = p + 1
      BY <3>2, <1>4, IdInt, MaxIdAssumption
    <3>3. CASE k - 2 \in 0..(cursize - 1) /\ k - 2 >= p
      <4>1. objectids'[(k - 2) + 2] = objectids[k - 2] /\ (k - 2) + 2 = k
        BY <3>3, <1>5
      <4>2. QED
        BY <3>3, <4>1, PairBounds
    <3>4. QED
      BY <3>1, <3>2, <3>3, <1>6
  <2>2. objectids' \in [0..(cursize' - 1) -> 1..(MaxId + 1)]
    <3>1. cursize' - 1 = cursize + 1
      BY <1>1, PairBounds
    <3>2. QED
      BY <2>1, <3>1 DEF Insert
  <2>3. cursize' \in 0..MaxSize /\ cursize' % 2 = 0
    <3>1. cursize \in Nat /\ cursize < MaxSize /\ cursize % 2 = 0
      BY PairBounds, MaxSizeAssumption DEF TypeOK, Insert
    <3>2. cursize # MaxSize - 1
      BY <3>1, MaxSizeAssumption
    <3>3. QED
      BY <3>1, <3>2, <1>1, MaxSizeAssumption
  <2>4. QED
    BY <2>2, <2>3 DEF Insert, TypeOK, MarkSuper
<1>8. Increasing'
  <2> SUFFICES ASSUME NEW j \in 0..(cursize + 1), NEW k \in 0..(cursize + 1), j < k
               PROVE  objectids'[j] < objectids'[k]
    BY <1>1, PairBounds DEF Increasing
  <2>1. \A a, b \in 0..(cursize - 1) : a < b => objectids[a] < objectids[b]
    BY DEF Increasing
  <2>2. CASE k - 2 \in 0..(cursize - 1) /\ k - 2 >= p
    <3>1. objectids'[k] = objectids[k - 2] /\ id + 1 < objectids[k - 2]
      <4>1. objectids'[(k - 2) + 2] = objectids[k - 2] /\ (k - 2) + 2 = k
        BY <2>2, <1>5
      <4>2. QED
        BY <4>1, <2>2, <1>5
    <3>2. CASE j - 2 \in 0..(cursize - 1) /\ j - 2 >= p
      <4>1. objectids'[(j - 2) + 2] = objectids[j - 2] /\ (j - 2) + 2 = j
        BY <3>2, <1>5
      <4>2. QED
        BY <3>1, <3>2, <4>1, <2>1, <2>2
    <3>3. CASE ~(j - 2 \in 0..(cursize - 1) /\ j - 2 >= p)
      BY <3>1, <3>3, <1>3, <1>4, <1>6, <2>2, PairBounds, IdInt
    <3>4. QED
      BY <3>2, <3>3
  <2>3. CASE ~(k - 2 \in 0..(cursize - 1) /\ k - 2 >= p)
    BY <2>3, <2>1, <1>1, <1>3, <1>4, <1>6, PairBounds, IdInt
  <2>4. QED
    BY <2>2, <2>3
<1>9. /\ \A j \in Pairs : j < p => j \in Pairs'
      /\ p \in Pairs'
      /\ \A j \in Pairs : j + 2 \in Pairs'
      /\ \A j \in Pairs' : \/ j < p /\ j \in Pairs
                           \/ j = p
                           \/ j >= p + 2 /\ j - 2 \in Pairs
  <2>1. \A j \in 0..(cursize + 1) : j % 2 = 0 /\ j > p => j >= p + 2
    BY PairBounds DEF Pairs
  <2>2. \A j \in 0..(cursize + 1) : j % 2 = 0 => (j - 2) % 2 = 0
    OBVIOUS
  <2>3. cursize + 1 = cursize' - 1
    BY <1>1, PairBounds
  <2>4. Pairs' = {j \in 0..(cursize + 1) : j % 2 = 0}
    BY <2>3 DEF Pairs
  <2>5. ASSUME NEW j \in Pairs'
        PROVE  \/ j < p /\ j \in Pairs
               \/ j = p
               \/ j >= p + 2 /\ j - 2 \in Pairs
    <3>1. j \in Int /\ j \in 0..(cursize + 1) /\ j % 2 = 0 /\ p \in Int
      BY <2>4, PairBounds
    <3>2. CASE j < p
      BY <3>1, <3>2, <1>1, PairBounds DEF Pairs
    <3>3. CASE j > p
      <4>1. j >= p + 2 /\ (j - 2) % 2 = 0 /\ j - 2 \in 0..(cursize - 1)
        BY <3>1, <3>3, <2>1, <2>2, <1>1, PairBounds
      <4>2. QED
        BY <4>1 DEF Pairs
    <3>4. QED
      BY <3>1, <3>2, <3>3
  <2>6. ASSUME NEW j \in Pairs PROVE j \in Pairs' /\ j + 2 \in Pairs'
    BY <2>4, PairBounds DEF Pairs
  <2>7. QED
    BY <2>5, <2>6
<1>10. ASSUME NEW o \in Ids PROVE o \in Covered' <=> o \in Covered \cup {id}
  <2>1. ASSUME o \in Covered' PROVE o \in Covered \cup {id}
    <3>1. PICK j \in Pairs' : objectids'[j] <= o /\ o < objectids'[j + 1]
      BY <2>1 DEF Covered
    <3>2. CASE j < p /\ j \in Pairs
      BY <3>1, <3>2, <1>3, PairBounds DEF Covered
    <3>3. CASE j = p
      BY <3>1, <3>3, <1>4, IdInt
    <3>4. CASE j >= p + 2 /\ j - 2 \in Pairs
      <4> DEFINE b == j - 2
      <4>0. j \in Int
        BY DEF Pairs
      <4>a. /\ b \in Pairs /\ b >= p /\ b + 1 >= p /\ b + 2 = j /\ (b + 1) + 2 = j + 1
        BY <4>0, <3>4, PairBounds
      <4>b. b \in 0..(cursize - 1) /\ b + 1 \in 0..(cursize - 1)
        BY <4>a, PairBounds
      <4> HIDE DEF b
      <4>1. /\ objectids'[b + 2] = objectids[b]
            /\ objectids'[(b + 1) + 2] = objectids[b + 1]
        BY <4>a, <4>b, <1>5
      <4>2. QED
        BY <3>1, <4>1, <4>a DEF Covered
    <3>5. QED
      BY <3>2, <3>3, <3>4, <1>9
  <2>2. ASSUME o = id PROVE o \in Covered'
    BY <2>2, <1>4, <1>9, IdInt DEF Covered
  <2>3. ASSUME o \in Covered PROVE o \in Covered'
    <3>1. PICK j \in Pairs : objectids[j] <= o /\ o < objectids[j + 1]
      BY <2>3 DEF Covered
    <3>2. CASE j < p
      <4>1. j + 1 < p
        BY <3>2, PairBounds
      <4>2. objectids'[j] = objectids[j] /\ objectids'[j + 1] = objectids[j + 1]
        BY <3>2, <4>1, <1>3, PairBounds
      <4>3. QED
        BY <3>1, <3>2, <4>2, <1>9 DEF Covered
    <3>3. CASE j >= p
      <4>1. /\ objectids'[j + 2] = objectids[j]
            /\ objectids'[(j + 1) + 2] = objectids[j + 1] /\ (j + 1) + 2 = (j + 2) + 1
        BY <3>3, <1>5, PairBounds
      <4>2. QED
        BY <3>1, <4>1, <1>9 DEF Covered
    <3>4. QED
      BY <3>2, <3>3, PairBounds
  <2>4. QED
    BY <2>1, <2>2, <2>3
<1>11. QED
  BY <1>7, <1>8, <1>10 DEF Covered

(* With the array full the interval above only ever gains ids.             *)
LEMMA WidenDownStep ==
  ASSUME TypeOK, Increasing, NEW id \in Ids, NEW p \in Pairs, WidenDown(p, id)
  PROVE  TypeOK' /\ Increasing' /\ Covered \cup {id} \subseteq Covered'
<1>1. /\ cursize' = cursize /\ Pairs' = Pairs /\ id < objectids[p]
      /\ p \in 0..(cursize - 1) /\ p + 1 \in 0..(cursize - 1)
  BY PairBounds DEF WidenDown, Pairs
<1>2. \A k \in 0..(cursize - 1) : objectids'[k] = IF k = p THEN id ELSE objectids[k]
  BY DEF WidenDown, TypeOK
<1>3. TypeOK'
  BY <1>1, IdInt, MaxIdAssumption DEF WidenDown, TypeOK, MarkSuper
<1>4. Increasing'
  <2> SUFFICES ASSUME NEW j \in 0..(cursize - 1), NEW k \in 0..(cursize - 1), j < k
               PROVE  objectids'[j] < objectids'[k]
    BY <1>1 DEF Increasing
  <2>1. objectids[j] < objectids[k]
    BY DEF Increasing
  <2>2. k = p => objectids[j] < id
    BY ScanBelow DEF WidenDown
  <2>3. QED
    BY <1>1, <1>2, <2>1, <2>2, PairBounds, IdInt
<1>5. ASSUME NEW o \in Covered \cup {id} PROVE o \in Covered'
  <2>1. objectids[p] < objectids[p + 1]
    BY <1>1, PairBounds DEF Increasing
  <2>2. \A j \in Pairs : /\ objectids'[j] <= objectids[j]
                         /\ objectids'[j + 1] = objectids[j + 1]
                         /\ j = p => objectids'[j] = id
    <3> SUFFICES ASSUME NEW j \in Pairs
                 PROVE  /\ objectids'[j] <= objectids[j]
                        /\ objectids'[j + 1] = objectids[j + 1]
                        /\ j = p => objectids'[j] = id
      OBVIOUS
    <3>1. j + 1 # p
      BY PairBounds DEF Pairs
    <3>2. QED
      BY <1>1, <1>2, <3>1, PairBounds, IdInt
  <2>3. o \in Ids
    BY DEF Covered
  <2>4. CASE o = id
    BY <2>4, <1>1, <2>1, <2>2, PairBounds, IdInt DEF Covered
  <2>5. CASE o \in Covered
    <3>1. PICK j \in Pairs : objectids[j] <= o /\ o < objectids[j + 1]
      BY <2>5 DEF Covered
    <3>2. objectids'[j] \in Int
      BY <1>2, PairBounds, IdInt
    <3>3. objectids'[j] <= o /\ o < objectids'[j + 1]
      BY <3>1, <3>2, <2>2, <2>3, PairBounds, IdInt
    <3>4. QED
      BY <3>3, <2>3, <1>1 DEF Covered
  <2>6. QED
    BY <2>4, <2>5
<1>6. QED
  BY <1>3, <1>4, <1>5

LEMMA AppendPairStep ==
  ASSUME TypeOK, Increasing, NEW id \in Ids, AppendPair(id)
  PROVE  TypeOK' /\ Increasing' /\ Covered' = Covered \cup {id}
<1>1. cursize' = cursize + 2 /\ cursize \in Nat /\ cursize' - 1 = cursize + 1
  BY PairBounds DEF AppendPair
<1>2. \A k \in 0..(cursize - 1) : objectids'[k] = objectids[k] /\ objectids[k] < id
  BY <1>1, ScanAll DEF AppendPair
<1>3. objectids'[cursize] = id /\ objectids'[cursize + 1] = id + 1
  BY <1>1 DEF AppendPair
<1>4. \A k \in 0..(cursize + 1) :
        k \in 0..(cursize - 1) \/ k = cursize \/ k = cursize + 1
  BY <1>1
<1>5. TypeOK'
  <2>1. \A k \in 0..(cursize + 1) : objectids'[k] \in 1..(MaxId + 1)
    BY <1>2, <1>3, <1>4, PairBounds, IdInt, MaxIdAssumption
  <2>2. objectids' \in [0..(cursize' - 1) -> 1..(MaxId + 1)]
    BY <2>1, <1>1 DEF AppendPair
  <2>3. cursize' \in 0..MaxSize /\ cursize' % 2 = 0
    <3>1. cursize < MaxSize /\ cursize % 2 = 0
      BY DEF TypeOK, AppendPair
    <3>2. cursize # MaxSize - 1
      BY <3>1, <1>1, MaxSizeAssumption
    <3>3. QED
      BY <3>1, <3>2, <1>1, MaxSizeAssumption
  <2>4. QED
    BY <2>2, <2>3 DEF AppendPair, TypeOK, MarkSuper
<1>6. Increasing'
  <2> SUFFICES ASSUME NEW j \in 0..(cursize + 1), NEW k \in 0..(cursize + 1), j < k
               PROVE  objectids'[j] < objectids'[k]
    BY <1>1 DEF Increasing
  <2>1. j \in 0..(cursize - 1) /\ k \in 0..(cursize - 1) => objectids[j] < objectids[k]
    BY DEF Increasing
  <2>2. QED
    BY <2>1, <1>1, <1>2, <1>3, <1>4, PairBounds, IdInt
<1>7. Pairs' = Pairs \cup {cursize}
  <2>1. cursize % 2 = 0
    BY DEF TypeOK
  <2>2. (cursize + 1) % 2 # 0
    BY <2>1, <1>1
  <2>3. QED
    BY <2>1, <2>2, <1>1, <1>4 DEF Pairs
<1>8. ASSUME NEW o \in Ids PROVE o \in Covered' <=> o \in Covered \cup {id}
  <2>1. \A j \in Pairs : objectids'[j] = objectids[j] /\ objectids'[j + 1] = objectids[j + 1]
    BY <1>2, PairBounds
  <2>2. (objectids'[cursize] <= o /\ o < objectids'[cursize + 1]) <=> o = id
    BY <1>3, IdInt
  <2>3. QED
    BY <1>7, <2>1, <2>2 DEF Covered
<1>9. QED
  BY <1>5, <1>6, <1>8 DEF Covered

LEMMA WidenUpStep ==
  ASSUME TypeOK, Increasing, NEW id \in Ids, WidenUp(id)
  PROVE  TypeOK' /\ Increasing' /\ Covered \cup {id} \subseteq Covered'
<1>1. /\ cursize' = cursize /\ Pairs' = Pairs /\ cursize = MaxSize /\ cursize \in Nat
      /\ cursize - 1 \in 0..(cursize - 1) /\ cursize - 2 \in Pairs
      /\ (cursize - 2) + 1 = cursize - 1
  BY MaxSizeAssumption DEF WidenUp, Pairs
<1>2. \A k \in 0..(cursize - 1) :
        objectids'[k] = IF k = cursize - 1 THEN id + 1 ELSE objectids[k]
  BY <1>1 DEF WidenUp, TypeOK
<1>3. \A k \in 0..(cursize - 1) : objectids[k] < id
  BY ScanAll DEF WidenUp
<1>4. TypeOK'
  BY <1>1, IdInt, MaxIdAssumption DEF WidenUp, TypeOK, MarkSuper
<1>5. Increasing'
  <2> SUFFICES ASSUME NEW j \in 0..(cursize - 1), NEW k \in 0..(cursize - 1), j < k
               PROVE  objectids'[j] < objectids'[k]
    BY <1>1 DEF Increasing
  <2>1. objectids[j] < objectids[k]
    BY DEF Increasing
  <2>2. QED
    BY <2>1, <1>1, <1>2, <1>3, PairBounds, IdInt
<1>6. ASSUME NEW o \in Covered \cup {id} PROVE o \in Covered'
  <2>1. o \in Ids
    BY DEF Covered
  <2>2. \A j \in Pairs : objectids'[j] = objectids[j] /\ objectids'[j + 1] >= objectids[j + 1]
    <3> SUFFICES ASSUME NEW j \in Pairs
                 PROVE  objectids'[j] = objectids[j] /\ objectids'[j + 1] >= objectids[j + 1]
      OBVIOUS
    <3>1. j # cursize - 1
      BY <1>1, PairBounds
    <3>2. QED
      BY <3>1, <1>1, <1>2, <1>3, PairBounds, IdInt
  <2>3. CASE o = id
    <3>1. objectids'[cursize - 2] < id /\ objectids'[(cursize - 2) + 1] = id + 1
      BY <1>1, <1>2, <1>3, PairBounds
    <3>2. objectids'[cursize - 2] \in Int
      BY <1>1, <2>2, PairBounds
    <3>3. QED
      BY <2>3, <3>1, <3>2, <1>1, <2>1, IdInt DEF Covered
  <2>4. CASE o \in Covered
    <3>1. PICK j \in Pairs : objectids[j] <= o /\ o < objectids[j + 1]
      BY <2>4 DEF Covered
    <3>2. objectids'[j + 1] \in Int
      BY <1>2, PairBounds, IdInt
    <3>3. objectids'[j] <= o /\ o < objectids'[j + 1]
      BY <3>1, <3>2, <2>1, <2>2, PairBounds, IdInt
    <3>4. QED
      BY <3>3, <2>1, <1>1 DEF Covered
  <2>5. QED
    BY <2>3, <2>4
<1>7. QED
  BY <1>4, <1>5, <1>6

-----------------------------------------------------------------------------
(* One call of reiserfs_object_use, whatever alternative it takes.         *)
LEMMA ObjectUseStep ==
  ASSUME TypeOK, Increasing, NEW id \in Ids, ObjectUse(id)
  PROVE  /\ TypeOK' /\ Increasing'
         /\ Covered \cup {id} \subseteq Covered'
         /\ cursize < MaxSize => Covered' = Covered \cup {id}
         /\ used' = used \cup {id}
<1>1. CASE AlreadyUsed(id)
  <2>1. id \in Covered /\ Covered' = Covered
    BY <1>1, TestExact DEF AlreadyUsed, Covered, Pairs
  <2>2. TypeOK' /\ Increasing'
    BY <1>1 DEF AlreadyUsed, TypeOK, Increasing
  <2>3. QED
    BY <1>1, <2>1, <2>2 DEF AlreadyUsed
<1>2. ASSUME NEW p \in Pairs, GrowDown(p, id) PROVE Covered' = Covered \cup {id} /\ TypeOK' /\ Increasing'
  BY <1>2, GrowDownStep
<1>3. ASSUME NEW p \in Pairs, GrowUp(p, id) PROVE Covered' = Covered \cup {id} /\ TypeOK' /\ Increasing'
  BY <1>3, GrowUpStep
<1>4. ASSUME NEW p \in Pairs, Join(p, id) PROVE Covered' = Covered \cup {id} /\ TypeOK' /\ Increasing'
  BY <1>4, JoinStep
<1>5. ASSUME NEW p \in Pairs, Insert(p, id) PROVE Covered' = Covered \cup {id} /\ TypeOK' /\ Increasing'
  BY <1>5, InsertStep
<1>6. ASSUME NEW p \in Pairs, WidenDown(p, id)
      PROVE  Covered \cup {id} \subseteq Covered' /\ ~(cursize < MaxSize) /\ TypeOK' /\ Increasing'
  <2>1. cursize = MaxSize
    BY <1>6 DEF WidenDown
  <2>2. QED
    BY <1>6, <2>1, WidenDownStep, MaxSizeAssumption
<1>7. CASE AppendPair(id)
  BY <1>7, AppendPairStep DEF AppendPair, MarkSuper
<1>8. CASE WidenUp(id)
  <2>1. cursize = MaxSize /\ used' = used \cup {id}
    BY <1>8 DEF WidenUp, MarkSuper
  <2>2. QED
    BY <1>8, <2>1, WidenUpStep, MaxSizeAssumption
<1>9. CASE \E p \in Pairs : \/ GrowDown(p, id) \/ GrowUp(p, id) \/ Join(p, id)
                           \/ Insert(p, id) \/ WidenDown(p, id)
  <2>1. used' = used \cup {id}
    BY <1>9 DEF GrowDown, GrowUp, Join, Insert, WidenDown, MarkSuper
  <2>2. QED
    BY <1>9, <2>1, <1>2, <1>3, <1>4, <1>5, <1>6
<1>10. QED
  BY <1>1, <1>7, <1>8, <1>9 DEF ObjectUse

LEMMA SyncSuperStep ==
  ASSUME TypeOK, Increasing, SyncSuper
  PROVE  TypeOK' /\ Increasing' /\ Covered' = Covered /\ used' = used
BY DEF SyncSuper, TypeOK, Increasing, Covered, Pairs

LEMMA InitInv == Init => Inv
<1> SUFFICES ASSUME Init PROVE Inv
  OBVIOUS
<1>1. 0..(cursize - 1) = {} /\ cursize = 0 /\ used = {} /\ dirty = FALSE
  BY DEF Init
<1>2. objectids \in [0..(cursize - 1) -> 1..(MaxId + 1)]
  BY <1>1 DEF Init
<1>3. cursize \in 0..MaxSize /\ cursize % 2 = 0
  BY <1>1, MaxSizeAssumption
<1>4. QED
  BY <1>1, <1>2, <1>3 DEF Inv, TypeOK, Increasing, NoIdLost

LEMMA InvStep == Inv /\ [Next]_vars => Inv'
<1> SUFFICES ASSUME Inv, [Next]_vars PROVE Inv'
  OBVIOUS
<1> USE DEF Inv
<1>1. ASSUME NEW id \in Ids, ObjectUse(id) PROVE Inv'
  BY <1>1, ObjectUseStep DEF NoIdLost
<1>2. CASE SyncSuper
  BY <1>2, SyncSuperStep DEF NoIdLost
<1>3. CASE UNCHANGED vars
  BY <1>3 DEF vars, TypeOK, Increasing, NoIdLost, Covered, Pairs
<1>4. QED
  BY <1>1, <1>2, <1>3 DEF Next

(* The inductive invariant holds throughout: the array's type, the order   *)
(* of its bounds and that every id used is covered.                        *)
THEOREM Invariance == Spec => []Inv
BY InitInv, InvStep, PTL DEF Spec

(* The array stays within the block and its entries within an id's range   *)
(* (object.c:139-160).                                                     *)
THEOREM TypeCorrect == Spec => []TypeOK
BY Invariance, PTL DEF Inv

(* The bounds are strictly increasing after every call (object.c:116-160). *)
THEOREM AlwaysIncreasing == Spec => []Increasing
BY Invariance, PTL DEF Inv

(* No id ever recorded is lost (object.c:104-167).                         *)
THEOREM AlwaysNoIdLost == Spec => []NoIdLost
BY Invariance, PTL DEF Inv

(* A clean super block is the stored one (object.c:164, core.c:637-661).   *)
THEOREM AlwaysCleanIsStored == Spec => []CleanIsStored
<1>1. Init => CleanIsStored
  BY DEF Init, CleanIsStored
<1>2. CleanIsStored /\ [Next]_vars => CleanIsStored'
  BY DEF CleanIsStored, Next, vars, SyncSuper, ObjectUse, AlreadyUsed, GrowDown, GrowUp,
         Join, Insert, WidenDown, AppendPair, WidenUp, MarkSuper
<1>3. QED
  BY <1>1, <1>2, PTL DEF Spec

(* The array implements the reservation of ids: nothing reserved is freed, *)
(* and while the array has room nothing but the id asked for is reserved.  *)
THEOREM Refinement == Spec => ReservesIds
<1>1. Init => Reservation!Init
  BY MaxSizeAssumption DEF Init, Reservation!Init, Covered, Pairs
<1>2. Inv /\ [Next]_vars => [Reservation!Next]_(Reservation!vars)
  <2> SUFFICES ASSUME Inv, [Next]_vars PROVE [Reservation!Next]_(Reservation!vars)
    OBVIOUS
  <2>1. ASSUME NEW id \in Ids, ObjectUse(id) PROVE Reservation!Next
    <3>1. /\ Covered \cup {id} \subseteq Covered'
          /\ cursize < MaxSize => Covered' = Covered \cup {id}
      BY <2>1, ObjectUseStep DEF Inv
    <3>2. Covered' \subseteq Ids
      BY DEF Covered
    <3>3. Reservation!Reserve(id)
      BY <3>1, <3>2 DEF Reservation!Reserve
    <3>4. QED
      BY <3>3 DEF Reservation!Next
  <2>2. CASE SyncSuper \/ UNCHANGED vars
    <3>1. UNCHANGED <<cursize, objectids>>
      BY <2>2 DEF SyncSuper, vars
    <3>2. QED
      BY <3>1 DEF Reservation!vars, Covered, Pairs
  <2>3. QED
    BY <2>1, <2>2 DEF Next
<1>3. QED
  BY <1>1, <1>2, Invariance, PTL DEF Spec, ReservesIds, Reservation!Spec

-----------------------------------------------------------------------------
(* reiserfs_segment_move.                                                  *)

(* The blocks of the segment whose copy is on the destination.             *)
Copied(k) ==
  \/ pc = "done"
  \/ pc \in {"call", "refused"} /\ k = i
  \/ IF Downwards THEN k > i ELSE k < i

Progress ==
  \A k \in 0..(len - 1) : (Copied(k) => Moved(k)) /\ (~Copied(k) => InPlace(k))

Held == pc = "write" => block = Original[src, from + i]

MoveInv == MoveTypeOK /\ Progress /\ Held /\ OthersKept

-----------------------------------------------------------------------------
(* The addresses of the segments are addresses of the devices.             *)
LEMMA Addresses ==
  ASSUME MoveTypeOK, NEW k \in 0..(len - 1)
  PROVE  /\ <<src, from + k>> \in Devices \X (0..(DevLen - 1))
         /\ <<dst, to + k>> \in Devices \X (0..(DevLen - 1))
         /\ from + k \in Int /\ to + k \in Int
         /\ k \in Int /\ i \in Int /\ len \in Int /\ from \in Int /\ to \in Int
BY DevLenAssumption DEF MoveTypeOK

LEMMA MoveInitInv == MoveInit => MoveInv
<1> SUFFICES ASSUME MoveInit PROVE MoveInv
  OBVIOUS
<1>1. len \in Nat \ {0} /\ from \in Nat /\ to \in Nat
  BY StartsAssumption, LensAssumption DEF MoveInit
<1>2. MoveTypeOK
  BY <1>1, OriginalAssumption DEF MoveInit, MoveTypeOK, Downwards
<1>3. ASSUME NEW k \in 0..(len - 1) PROVE ~Copied(k) /\ InPlace(k)
  BY <1>1 DEF MoveInit, Copied, InPlace, Downwards
<1>4. QED
  BY <1>2, <1>3 DEF MoveInv, Progress, Held, OthersKept, MoveInit

LEMMA MoveTypeStep == MoveInv /\ [MoveNext]_moveVars => MoveTypeOK'
<1> SUFFICES ASSUME MoveInv, [MoveNext]_moveVars PROVE MoveTypeOK'
  OBVIOUS
<1>0. MoveTypeOK
  BY DEF MoveInv
<1>a. i \in 0..(len - 1)
  BY <1>0 DEF MoveTypeOK
<1>b. <<src, from + i>> \in Devices \X (0..(DevLen - 1))
  BY <1>0, <1>a, Addresses
<1>1. CASE Read
  BY <1>0, <1>1, <1>b DEF MoveTypeOK, Read, job
<1>2. CASE Write
  BY <1>0, <1>2 DEF MoveTypeOK, Write, job
<1>3. CASE Called
  BY <1>0, <1>3 DEF MoveTypeOK, Called, Last, Downwards, job
<1>4. CASE Fails
  BY <1>0, <1>4 DEF MoveTypeOK, Fails, job
<1>5. CASE Refused
  BY <1>0, <1>5 DEF MoveTypeOK, Refused, job
<1>6. CASE UNCHANGED moveVars
  BY <1>0, <1>6 DEF MoveTypeOK, moveVars, job
<1>7. QED
  BY <1>1, <1>2, <1>3, <1>4, <1>5, <1>6 DEF MoveNext

(* Steps that leave the device alone carry the invariant along when the    *)
(* set of copied blocks stays the same.                                    *)
LEMMA MoveQuietStep ==
  ASSUME MoveInv, UNCHANGED <<job, disk>>,
         \A k \in 0..(len - 1) : Copied(k)' <=> Copied(k)
  PROVE  Progress' /\ OthersKept'
BY DEF MoveInv, Progress, OthersKept, Moved, InPlace, job

(* The write puts one more block in its place and spares those that still  *)
(* wait: the counter moves away from the destination's side.               *)
LEMMA MoveWriteStep == MoveInv /\ Write => Progress' /\ OthersKept'
<1> SUFFICES ASSUME MoveInv, Write PROVE Progress' /\ OthersKept'
  OBVIOUS
<1>0. MoveTypeOK /\ i \in 0..(len - 1) /\ UNCHANGED job /\ UNCHANGED i /\ pc = "write" /\ pc' = "call"
  BY DEF MoveInv, MoveTypeOK, Write
<1>n. from \in Int /\ to \in Int /\ len \in Int /\ i \in Int
  BY <1>0 DEF MoveTypeOK
<1>1. disk' = [disk EXCEPT ![<<dst, to + i>>] = Original[src, from + i]]
  BY DEF MoveInv, Held, Write
<1>2. disk \in [Devices \X (0..(DevLen - 1)) -> Contents]
  BY <1>0 DEF MoveTypeOK
<1>3. ASSUME NEW k \in 0..(len - 1), Copied(k)' PROVE Moved(k)'
  <2>1. CASE k = i
    BY <2>1, <1>0, <1>1, <1>2, Addresses DEF Moved, job
  <2>2. CASE k # i
    <3>1. Copied(k)
      BY <1>0, <1>3, <2>2 DEF Copied, Downwards, job
    <3>2. Moved(k)
      BY <3>1 DEF MoveInv, Progress
    <3>3. to + k # to + i
      BY <1>n, <2>2
    <3>4. QED
      BY <3>2, <3>3, <1>0, <1>1, <1>2, Addresses DEF Moved, job
  <2>3. QED
    BY <2>1, <2>2
<1>4. ASSUME NEW k \in 0..(len - 1), ~Copied(k)' PROVE InPlace(k)'
  <2>1. k # i /\ ~Copied(k)
    BY <1>0, <1>4 DEF Copied, Downwards, job
  <2>2. InPlace(k)
    BY <2>1 DEF MoveInv, Progress
  <2>3. from + k # to + i
    <3>1. CASE from < to
      BY <3>1, <1>0, <1>n, <2>1 DEF Copied, Downwards
    <3>2. CASE ~(from < to)
      BY <3>2, <1>0, <1>n, <2>1 DEF Copied, Downwards
    <3>3. QED
      BY <3>1, <3>2
  <2>4. QED
    BY <2>2, <2>3, <1>0, <1>1, <1>2, Addresses DEF InPlace, job
<1>5. OthersKept'
  <2> SUFFICES ASSUME NEW d \in Devices, NEW b \in 0..(DevLen - 1),
                      ~(d = dst /\ to <= b /\ b < to + len)
               PROVE  disk'[d, b] = Original[d, b]
    BY <1>0 DEF OthersKept, job
  <2>1. disk[d, b] = Original[d, b]
    BY DEF MoveInv, OthersKept
  <2>2. <<d, b>> # <<dst, to + i>>
    BY <1>0, <1>n
  <2>3. QED
    BY <2>1, <2>2, <1>1, <1>2
<1>6. \A k \in 0..(len - 1) : (Copied(k)' => Moved(k)') /\ (~Copied(k)' => InPlace(k)')
  BY <1>3, <1>4
<1>7. QED
  BY <1>5, <1>6, <1>0 DEF Progress, job

LEMMA MoveNextInv == MoveInv /\ [MoveNext]_moveVars => MoveInv'
<1> SUFFICES ASSUME MoveInv, [MoveNext]_moveVars PROVE MoveInv'
  OBVIOUS
<1>0. MoveTypeOK /\ i \in 0..(len - 1)
  BY DEF MoveInv, MoveTypeOK
<1>t. MoveTypeOK'
  BY MoveTypeStep
<1>1. CASE Read
  <2>1. \A k \in 0..(len - 1) : Copied(k)' <=> Copied(k)
    BY <1>1 DEF Read, Copied, Downwards, job
  <2>2. Progress' /\ OthersKept'
    BY <1>1, <2>1, MoveQuietStep DEF Read
  <2>a. i \in Int
    BY <1>0, Addresses
  <2>b. ~(i > i) /\ ~(i < i)
    BY <2>a
  <2>3. ~Copied(i)
    BY <1>1, <2>b DEF Read, Copied
  <2>4. Held'
    BY <1>0, <1>1, <2>3 DEF Read, Held, MoveInv, Progress, InPlace, job
  <2>5. QED
    BY <1>t, <2>2, <2>4 DEF MoveInv
<1>2. CASE Write
  BY <1>2, <1>t, MoveWriteStep DEF MoveInv, Held, Write
<1>3. CASE Called
  <2>1. ASSUME NEW k \in 0..(len - 1) PROVE Copied(k)' <=> Copied(k)
    <3>1. k \in Int /\ i \in Int /\ len \in Int
      BY <1>0, Addresses
    <3>2. CASE Last
      BY <1>0, <1>3, <3>1, <3>2 DEF Called, Copied, Downwards, Last, job
    <3>3. CASE ~Last
      BY <1>0, <1>3, <3>1, <3>3 DEF Called, Copied, Downwards, Last, job
    <3>4. QED
      BY <3>2, <3>3
  <2>2. Progress' /\ OthersKept'
    BY <1>3, <2>1, MoveQuietStep DEF Called
  <2>3. QED
    BY <1>3, <1>t, <2>2 DEF MoveInv, Held, Called
<1>4. CASE Fails
  <2>1. \A k \in 0..(len - 1) : Copied(k)' <=> Copied(k)
    BY <1>4 DEF Fails, Copied, Downwards, job
  <2>2. QED
    BY <1>4, <1>t, <2>1, MoveQuietStep DEF MoveInv, Held, Fails
<1>5. CASE Refused
  <2>1. \A k \in 0..(len - 1) : Copied(k)' <=> Copied(k)
    BY <1>5 DEF Refused, Copied, Downwards, job
  <2>2. QED
    BY <1>5, <1>t, <2>1, MoveQuietStep DEF MoveInv, Held, Refused
<1>6. CASE UNCHANGED moveVars
  BY <1>6, <1>t DEF MoveInv, Progress, Copied, Downwards, Moved, InPlace, Held, OthersKept, moveVars, job
<1>7. QED
  BY <1>1, <1>2, <1>3, <1>4, <1>5, <1>6 DEF MoveNext

(* MoveInv is an invariant of reiserfs_segment_move.                       *)
THEOREM MoveInvariance == MoveSpec => []MoveInv
<1>1. QED
  BY MoveInitInv, MoveNextInv, PTL DEF MoveSpec

(* The counter stays inside the segment, in both directions.               *)
THEOREM MoveTypeCorrect == MoveSpec => []MoveTypeOK
<1>1. MoveInv => MoveTypeOK
  BY DEF MoveInv
<1>2. QED
  BY <1>1, MoveInvariance, PTL

(* A move that succeeds has moved every block of the segment as it was,    *)
(* however the segments overlap (segment.c:262-263).                       *)
THEOREM MoveComplete == MoveSpec => []AllMoved
<1>1. MoveInv => AllMoved
  BY DEF MoveInv, Progress, AllMoved, Copied
<1>2. QED
  BY <1>1, MoveInvariance, PTL

(* A move that stops anywhere has lost no block (segment.c:266-294).       *)
THEOREM FailureLosesNothing == MoveSpec => []NothingLost
<1>1. MoveInv => NothingLost
  BY DEF MoveInv, Progress, NothingLost
<1>2. QED
  BY <1>1, MoveInvariance, PTL

(* Blocks outside the destination segment never change.                    *)
THEOREM OnlyDestinationChanges == MoveSpec => []OthersKept
<1>1. MoveInv => OthersKept
  BY DEF MoveInv
<1>2. QED
  BY <1>1, MoveInvariance, PTL
=============================================================================
