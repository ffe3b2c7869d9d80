--------------------------- MODULE ProgressProofs ---------------------------
(***************************************************************************)
(* Proofs about Progress.tla, for any pool, any set of entries and any     *)
(* number of lines per stage.                                              *)
(***************************************************************************)
EXTENDS Progress, Induction, FiniteSetTheorems

-----------------------------------------------------------------------------
(* Arithmetic and cardinality.                                             *)

LEMMA TimesMonotone ==
  ASSUME NEW m \in Nat, NEW k \in Nat, NEW l \in Nat, m <= k
  PROVE  m * l <= k * l
  <1>1. PICK d \in Nat : k = m + d
    <2>1. k - m \in Nat /\ k = m + (k - m)
      OBVIOUS
    <2> QED
      BY <2>1
  <1>2. k * l = m * l + d * l /\ d * l \in Nat
    BY <1>1
  <1> QED
    BY <1>2

(* A count lies on the scale.                                              *)
LEMMA BucketRange ==
  ASSUME NEW c \in 0..Total
  PROVE  Bucket(c) \in 0..Buckets
  <1> USE ProgressAssumption
  <1> DEFINE x == c * Buckets
             q == x \div Total
  <1>1. x \in Nat /\ x <= Buckets * Total
    BY TimesMonotone
  <1>2. q \in Int /\ Total * q <= x /\ x < Total * q + Total
    <2> HIDE DEF x
    <2> QED
      BY <1>1
  <1>3. Bucket(c) = q
    BY DEF Bucket
  <1> HIDE DEF x, q
  <1>4. q <= Buckets
    <2>1. SUFFICES ASSUME q >= Buckets + 1 PROVE FALSE
      BY <1>2
    <2>2. Total * (Buckets + 1) <= Total * q
      BY <1>2, <2>1, TimesMonotone
    <2>3. Total * (Buckets + 1) = Buckets * Total + Total
      OBVIOUS
    <2> QED
      BY <1>1, <1>2, <2>2, <2>3
  <1>5. q >= 0
    <2>1. SUFFICES ASSUME q <= -1 PROVE FALSE
      BY <1>2
    <2>2. Total * q + Total <= 0
      BY <1>2, <2>1
    <2> QED
      BY <1>1, <1>2, <2>2
  <1> QED
    BY <1>2, <1>3, <1>4, <1>5

(* The values of a function are no more than its arguments.                *)
LEMMA ImageIsNoLarger ==
  ASSUME NEW S, IsFiniteSet(S), NEW f
  PROVE  Cardinality({f[x] : x \in S}) <= Cardinality(S)
  <1> DEFINE T == {f[x] : x \in S}
             k == Cardinality(S)
  <1>1. k \in Nat /\ ExistsBijection(1..k, S)
    BY FS_CardinalityType
  <1> HIDE DEF k
  <1>2. PICK m \in [1..k -> S] : \A x \in S : \E i \in 1..k : m[i] = x
    BY <1>1, Zenon DEF ExistsBijection, Bijection, Surjection
  <1> DEFINE g == [i \in 1..k |-> f[m[i]]]
  <1>3. g \in [1..k -> T] /\ \A t \in T : \E i \in 1..k : g[i] = t
    BY <1>2
  <1>4. ExistsSurjection(1..k, T)
    <2> HIDE DEF g, T
    <2> QED
      BY <1>3, Zenon DEF ExistsSurjection, Surjection
  <1> HIDE DEF T
  <1>5. Cardinality(T) <= k
    BY <1>1, <1>4, FS_SurjCardinalityBound
  <1> QED
    BY <1>5 DEF T, k

-----------------------------------------------------------------------------
(* The bytes of sets of entries.                                           *)

(* f has the sums of the prefixes of a set of entries.                     *)
Sums(f, entries) ==
    /\ f \in [0..Total -> Nat]
    /\ f[0] = 0
    /\ \A i \in 1..Total : f[i] = f[i - 1] + (IF i \in entries THEN Size[i] ELSE 0)

LEMMA SizeOfSums ==
  ASSUME NEW entries
  PROVE  \E f : Sums(f, entries) /\ SizeOf(entries) = f[Total]
  <1> DEFINE step == [p \in Nat \X (1..Total) |->
                        p[1] + (IF p[2] \in entries THEN Size[p[2]] ELSE 0)]
             Body(f) == [i \in 0..Total |->
                           IF i = 0 THEN 0
                           ELSE f[i - 1] + (IF i \in entries THEN Size[i] ELSE 0)]
             sum == CHOOSE f : f = Body(f)
  <1> USE ProgressAssumption
  <1>1. step \in [Nat \X (1..Total) -> Nat]
    OBVIOUS
  <1>2. PICK f : Iterates(f, Nat, 0, Total, step)
    <2> HIDE DEF step
    <2> QED
      BY <1>1, RecursionExists
  <1>3. Sums(f, entries)
    <2>1. ASSUME NEW i \in 1..Total
          PROVE  f[i] = f[i - 1] + (IF i \in entries THEN Size[i] ELSE 0)
      <3>1. <<f[i - 1], i>> \in Nat \X (1..Total)
        BY <1>2 DEF Iterates
      <3> QED
        BY <1>2, <3>1 DEF Iterates
    <2> QED
      BY <1>2, <2>1 DEF Iterates, Sums
  <1>4. f = Body(f)
    BY <1>3 DEF Sums
  <1>5. sum = Body(sum)
    <2> HIDE DEF Body
    <2> QED
      BY <1>4, Zenon
  <1>6. SizeOf(entries) = sum[Total]
    BY DEF SizeOf
  <1> HIDE DEF sum, step
  <1>7. SameSteps(sum, f, 0, Total)
    BY <1>3, <1>5 DEF SameSteps, Sums
  <1>8. sum[Total] = f[Total]
    BY <1>7, RecursionAgrees
  <1> QED
    BY <1>3, <1>6, <1>8

LEMMA SizeOfType == ASSUME NEW entries PROVE SizeOf(entries) \in Nat
  <1>1. PICK f : Sums(f, entries) /\ SizeOf(entries) = f[Total]
    BY SizeOfSums
  <1> QED
    BY <1>1, ProgressAssumption DEF Sums

LEMMA SizeOfEmpty == SizeOf({}) = 0
  <1>1. PICK f : Sums(f, {}) /\ SizeOf({}) = f[Total]
    BY SizeOfSums
  <1> DEFINE g == [i \in 0..Total |-> 0]
  <1>2. SameSteps(f, g, 0, Total)
    BY <1>1, ProgressAssumption DEF SameSteps, Sums
  <1>3. f[Total] = g[Total]
    <2> HIDE DEF g
    <2> QED
      BY <1>2, RecursionAgrees, ProgressAssumption
  <1> QED
    BY <1>1, <1>3, ProgressAssumption

LEMMA SizeOfOneMore ==
  ASSUME NEW entries, NEW x \in 1..Total, x \notin entries
  PROVE  SizeOf(entries \cup {x}) = SizeOf(entries) + Size[x]
  <1> USE ProgressAssumption
  <1>1. PICK f : Sums(f, entries) /\ SizeOf(entries) = f[Total]
    BY SizeOfSums
  <1>2. PICK g : Sums(g, entries \cup {x}) /\ SizeOf(entries \cup {x}) = g[Total]
    BY SizeOfSums
  <1> DEFINE h == [i \in 0..Total |-> f[i] + (IF i >= x THEN Size[x] ELSE 0)]
  <1>3. SameSteps(g, h, 0, Total)
    <2>1. g[0] = h[0]
      BY <1>1, <1>2 DEF Sums
    <2>2. ASSUME NEW i \in 1..Total, g[i - 1] = h[i - 1] PROVE g[i] = h[i]
      <3>1. /\ i - 1 \in 0..Total /\ i \in 0..Total
            /\ f[i - 1] \in Nat /\ f[i] \in Nat /\ Size[x] \in Nat /\ Size[i] \in Nat
        BY <1>1 DEF Sums
      <3>2. f[i] = f[i - 1] + (IF i \in entries THEN Size[i] ELSE 0)
        BY <1>1 DEF Sums
      <3>3. g[i] = g[i - 1] + (IF i \in entries \cup {x} THEN Size[i] ELSE 0)
        BY <1>2 DEF Sums
      <3>4. CASE i = x
        BY <2>2, <3>1, <3>2, <3>3, <3>4
      <3>5. CASE i < x
        BY <2>2, <3>1, <3>2, <3>3, <3>5
      <3>6. CASE i > x
        BY <2>2, <3>1, <3>2, <3>3, <3>6
      <3> QED
        BY <3>4, <3>5, <3>6
    <2> HIDE DEF h
    <2> QED
      BY <2>1, <2>2 DEF SameSteps
  <1>4. g[Total] = h[Total]
    <2> HIDE DEF h
    <2> QED
      BY <1>3, RecursionAgrees
  <1> QED
    BY <1>1, <1>2, <1>4

LEMMA SizeOfMonotone ==
  ASSUME NEW entries, NEW more, entries \subseteq more
  PROVE  SizeOf(entries) <= SizeOf(more)
  <1> USE ProgressAssumption
  <1>1. PICK f : Sums(f, entries) /\ SizeOf(entries) = f[Total]
    BY SizeOfSums
  <1>2. PICK g : Sums(g, more) /\ SizeOf(more) = g[Total]
    BY SizeOfSums
  <1> DEFINE below == {k \in Nat : k <= Total => f[k] <= g[k]}
  <1>3. 0 \in below
    BY <1>1, <1>2 DEF Sums
  <1>4. ASSUME NEW k \in Nat, k \in below PROVE k + 1 \in below
    <2>1. SUFFICES ASSUME k + 1 <= Total PROVE f[k + 1] <= g[k + 1]
      OBVIOUS
    <2>2. /\ k \in 0..Total /\ k + 1 \in 1..Total /\ k + 1 - 1 = k
          /\ f[k] \in Nat /\ g[k] \in Nat /\ Size[k + 1] \in Nat
      BY <1>1, <1>2, <2>1 DEF Sums
    <2>3. /\ f[k + 1] = f[k] + (IF k + 1 \in entries THEN Size[k + 1] ELSE 0)
          /\ g[k + 1] = g[k] + (IF k + 1 \in more THEN Size[k + 1] ELSE 0)
      BY <1>1, <1>2, <2>2 DEF Sums
    <2>4. f[k] <= g[k]
      BY <1>4, <2>2
    <2> QED
      BY <2>2, <2>3, <2>4
  <1>5. Nat \subseteq below
    <2> HIDE DEF below
    <2> QED
      BY <1>3, <1>4, SetInduction
  <1> QED
    BY <1>1, <1>2, <1>5

LEMMA LargestIsLargest ==
  Largest \in Nat /\ \A i \in 1..Total : Size[i] <= Largest
  <1> USE ProgressAssumption
  <1> DEFINE sizes == {Size[i] : i \in 1..Total}
  <1>1. ASSUME NEW i \in 1..Total PROVE Size[i] <= SizeOfAll
    <2>1. SizeOf({} \cup {i}) = SizeOf({}) + Size[i]
      BY SizeOfOneMore
    <2>2. SizeOf({} \cup {i}) = Size[i]
      BY <2>1, SizeOfEmpty
    <2>3. SizeOf({} \cup {i}) <= SizeOf(1..Total)
      BY SizeOfMonotone
    <2> QED
      BY <2>2, <2>3 DEF SizeOfAll
  <1>2. /\ sizes \in SUBSET Nat /\ sizes # {} /\ SizeOfAll \in Nat
        /\ \A x \in sizes : x <= SizeOfAll
    BY <1>1, SizeOfType DEF SizeOfAll
  <1> HIDE DEF sizes
  <1>3. Max(sizes) \in sizes /\ \A y \in sizes : Max(sizes) >= y
    BY <1>2, MaxIsGreatest
  <1>4. Largest = Max(sizes)
    BY DEF Largest, sizes
  <1> QED
    BY <1>2, <1>3, <1>4 DEF sizes

LEMMA MissingIsBounded ==
  ASSUME NEW entries \in SUBSET (1..Total)
  PROVE  /\ Cardinality((1..Total) \ entries) \in Nat
         /\ SizeOfAll <= SizeOf(entries)
                           + Cardinality((1..Total) \ entries) * Largest
  <1> USE ProgressAssumption
  <1> DEFINE Missing(E) == (1..Total) \ E
             bounded == {k \in Nat : \A E \in SUBSET (1..Total) :
                           Cardinality(Missing(E)) = k =>
                             SizeOfAll <= SizeOf(E) + k * Largest}
  <1>1. ASSUME NEW E \in SUBSET (1..Total)
        PROVE  IsFiniteSet(Missing(E)) /\ Cardinality(Missing(E)) \in Nat
    <2>1. IsFiniteSet(1..Total)
      BY FS_Interval
    <2>2. IsFiniteSet(Missing(E))
      <3>1. Missing(E) \in SUBSET (1..Total)
        OBVIOUS
      <3> HIDE DEF Missing
      <3> QED
        BY <2>1, <3>1, FS_Subset
    <2> QED
      BY <2>2, FS_CardinalityType
  <1>2. 0 \in bounded
    <2>1. SUFFICES ASSUME NEW E \in SUBSET (1..Total), Cardinality(Missing(E)) = 0
                   PROVE  SizeOfAll <= SizeOf(E) + 0 * Largest
      OBVIOUS
    <2>2. Missing(E) = {}
      BY <1>1, <2>1, FS_EmptySet
    <2>3. E = 1..Total
      BY <2>2
    <2> QED
      BY <2>3, SizeOfType, LargestIsLargest DEF SizeOfAll
  <1>3. ASSUME NEW k \in Nat, k \in bounded PROVE k + 1 \in bounded
    <2>1. SUFFICES ASSUME NEW E \in SUBSET (1..Total), Cardinality(Missing(E)) = k + 1
                   PROVE  SizeOfAll <= SizeOf(E) + (k + 1) * Largest
      OBVIOUS
    <2>2. Missing(E) # {}
      <3>1. Missing(E) = {} => Cardinality(Missing(E)) = 0
        BY <1>1, FS_EmptySet, Zenon
      <3> QED
        BY <2>1, <3>1
    <2>3. PICK x \in Missing(E) : TRUE
      BY <2>2
    <2>4. E \cup {x} \in SUBSET (1..Total) /\ Missing(E \cup {x}) = Missing(E) \ {x}
      OBVIOUS
    <2>5. Cardinality(Missing(E) \ {x}) = Cardinality(Missing(E)) - 1
      BY <1>1, FS_RemoveElement
    <2>6. SizeOfAll <= SizeOf(E \cup {x}) + k * Largest
      BY <1>3, <2>1, <2>4, <2>5
    <2>7. SizeOf(E \cup {x}) = SizeOf(E) + Size[x] /\ Size[x] <= Largest
      BY SizeOfOneMore, LargestIsLargest
    <2>8. (k + 1) * Largest = k * Largest + Largest /\ k * Largest \in Nat
      BY LargestIsLargest
    <2>9. SizeOf(E) \in Nat /\ SizeOfAll \in Nat /\ Size[x] \in Nat /\ Largest \in Nat
      BY SizeOfType, LargestIsLargest DEF SizeOfAll
    <2> QED
      BY <2>6, <2>7, <2>8, <2>9
  <1>4. Nat \subseteq bounded
    <2> HIDE DEF bounded
    <2> QED
      BY <1>2, <1>3, SetInduction
  <1> QED
    BY <1>1, <1>4
-----------------------------------------------------------------------------
(* The invariant.                                                          *)

(* The steps of one worker.                                                *)
Worker(w) == \/ Fetched(w) \/ AddDone(w) \/ AddBytes(w)
             \/ Compare(w) \/ Store(w) \/ PrintLine(w)

LEMMA InitEstablishes == Init => IInv
  <1> SUFFICES ASSUME Init PROVE IInv
    OBVIOUS
  <1>1. Shape
    BY ProgressAssumption DEF Init, Shape
  <1>2. NoneForgotten
    <2>1. Uncounted = {}
      BY DEF Init, Uncounted
    <2> QED
      BY <2>1, FS_EmptySet DEF Init, NoneForgotten
  <1>3. LastCountIsOnce
    BY ProgressAssumption DEF Init, LastCountIsOnce, Holding
  <1>4. StepsAreCovered
    BY DEF Init, StepsAreCovered
  <1>5. BytesAreOfTheAdded
    <2>1. Adding = {} /\ Added = {}
      BY DEF Init, Adding, Added
    <2> QED
      BY <2>1, SizeOfEmpty DEF Init, BytesAreOfTheAdded
  <1>6. LastCountLags
    BY DEF Init, LastCountLags
  <1>7. TypeOK
    BY SizeOfType, ProgressAssumption DEF Init, TypeOK, SizeOfAll
  <1> QED
    BY <1>1, <1>2, <1>3, <1>4, <1>5, <1>6, <1>7 DEF IInv

LEMMA ShapeKeeps ==
  ASSUME Shape, NEW w \in Workers, Worker(w)
  PROVE  Shape'
  <1> USE ProgressAssumption DEF Shape, Goto
  <1>1. CASE Fetched(w)
    BY <1>1 DEF Fetched
  <1>2. CASE AddDone(w)
    BY <1>2 DEF AddDone
  <1>3. CASE AddBytes(w)
    <2>1. job[w] \in 1..Total /\ Size[job[w]] \in Nat
      BY <1>3 DEF AddBytes
    <2> QED
      BY <1>3, <2>1 DEF AddBytes
  <1>4. CASE Compare(w)
    BY <1>4 DEF Compare
  <1>5. CASE Store(w)
    BY <1>5 DEF Store
  <1>6. CASE PrintLine(w)
    BY <1>6 DEF PrintLine
  <1> QED
    BY <1>1, <1>2, <1>3, <1>4, <1>5, <1>6 DEF Worker

LEMMA NoneForgottenKeeps ==
  ASSUME Shape, NoneForgotten, NEW w \in Workers, Worker(w)
  PROVE  NoneForgotten'
  <1>1. IsFiniteSet(Uncounted) /\ Cardinality(Uncounted) \in Nat
    BY ProgressAssumption, FS_Subset, FS_CardinalityType DEF Uncounted
  <1>2. CASE Fetched(w)
    <2>1. Uncounted' = Uncounted \cup {w} /\ w \notin Uncounted
      BY <1>2 DEF Fetched, Goto, Uncounted, Shape
    <2>2. Cardinality(Uncounted') = Cardinality(Uncounted) + 1
      BY <1>1, <2>1, FS_AddElement
    <2> QED
      BY <1>1, <1>2, <2>2 DEF Fetched, NoneForgotten, Shape
  <1>3. CASE AddDone(w)
    <2>1. Uncounted' = Uncounted \ {w} /\ w \in Uncounted
      BY <1>3 DEF AddDone, Goto, Uncounted, Shape
    <2>2. Cardinality(Uncounted') = Cardinality(Uncounted) - 1
      BY <1>1, <2>1, FS_RemoveElement
    <2> QED
      BY <1>1, <1>3, <2>2 DEF AddDone, NoneForgotten, Shape
  <1>4. CASE AddBytes(w) \/ Compare(w) \/ Store(w) \/ PrintLine(w)
    <2>1. Uncounted' = Uncounted
      BY <1>4 DEF AddBytes, Compare, Store, PrintLine, Goto, Uncounted, Shape
    <2> QED
      BY <1>4, <2>1 DEF AddBytes, Compare, Store, PrintLine, NoneForgotten
  <1> QED
    BY <1>2, <1>3, <1>4 DEF Worker

(* A count below the total is handed out as long as an entry is on its     *)
(* way to be counted.                                                      *)
LEMMA DoneIsBounded ==
  ASSUME Shape, NoneForgotten
  PROVE  /\ done <= Total
         /\ \A w \in Workers : pc[w] = "count" => done < Total
         /\ Quiet => done = Total
  <1>1. IsFiniteSet(Uncounted) /\ Cardinality(Uncounted) \in Nat
    BY ProgressAssumption, FS_Subset, FS_CardinalityType DEF Uncounted
  <1>2. done <= Total
    BY <1>1, ProgressAssumption DEF Shape, NoneForgotten
  <1>3. ASSUME NEW w \in Workers, pc[w] = "count" PROVE done < Total
    <2>1. Cardinality(Uncounted) # 0
      BY <1>1, <1>3, FS_EmptySet DEF Uncounted
    <2> QED
      BY <1>1, <2>1, ProgressAssumption DEF Shape, NoneForgotten
  <1>4. ASSUME Quiet PROVE done = Total
    <2>1. Uncounted = {}
      BY <1>4 DEF Quiet, Uncounted
    <2> QED
      BY <1>4, <2>1, FS_EmptySet, ProgressAssumption DEF Quiet, Shape, NoneForgotten
  <1> QED
    BY <1>2, <1>3, <1>4

(* The line a worker adds.                                                 *)
LEMMA PrintLineAdds ==
  ASSUME Shape, NEW w \in Workers, PrintLine(w)
  PROVE  /\ DOMAIN lines' = DOMAIN lines \cup {Len(lines) + 1}
         /\ Len(lines) + 1 \notin DOMAIN lines
         /\ \A k \in DOMAIN lines : lines'[k] = lines[k]
         /\ lines'[Len(lines) + 1][1] = n[w]
         /\ lines'[Len(lines) + 1][2] = b[w]
  <1>1. lines \in Seq(Nat \X Nat) /\ <<n[w], b[w]>> \in Nat \X Nat
    BY DEF Shape
  <1>2. lines' = Append(lines, <<n[w], b[w]>>)
    BY DEF PrintLine
  <1> QED
    BY <1>1, <1>2

LEMMA LastCountKeeps ==
  ASSUME Shape, NoneForgotten, LastCountIsOnce, NEW w \in Workers, Worker(w)
  PROVE  LastCountIsOnce'
  <1>0. PrintLine(w) =>
          /\ DOMAIN lines' = DOMAIN lines \cup {Len(lines) + 1}
          /\ Len(lines) + 1 \notin DOMAIN lines
          /\ \A k \in DOMAIN lines : lines'[k] = lines[k]
          /\ lines'[Len(lines) + 1][1] = n[w]
    BY PrintLineAdds
  <1> USE ProgressAssumption DEF Shape, Goto, LastCountIsOnce, Holding
  <1>1. CASE Fetched(w)
    BY <1>1 DEF Fetched
  <1>2. CASE AddDone(w)
    <2>1. done < Total /\ done' = done + 1
      BY <1>2, DoneIsBounded DEF AddDone
    <2>2. /\ pc[w] = "count" /\ pc' = [pc EXCEPT ![w] = "bytes"]
          /\ n' = [n EXCEPT ![w] = done + 1] /\ lines' = lines
      BY <1>2, <2>1 DEF AddDone
    <2>3. \A v \in Workers : Holding(v)' => n'[v] \in 1..done'
      BY <2>1, <2>2
    <2>4. \A k \in DOMAIN lines' : lines'[k][1] <= done'
      <3>1. \A k \in DOMAIN lines : lines[k][1] \in Nat
        OBVIOUS
      <3> QED
        BY <2>1, <2>2, <3>1
    <2>5. \A v, u \in Workers :
             Holding(v)' /\ Holding(u)' /\ n'[v] = Total /\ n'[u] = Total => v = u
      BY <2>1, <2>2
    <2>6. \A k, l \in DOMAIN lines' :
             lines'[k][1] = Total /\ lines'[l][1] = Total => k = l
      BY <2>2
    <2>7. \A k \in DOMAIN lines', v \in Workers :
             lines'[k][1] = Total => ~ (Holding(v)' /\ n'[v] = Total)
      BY <2>1, <2>2
    <2>8. done' = Total => \E v \in Workers : Holding(v)' /\ n'[v] = Total
      BY <2>1, <2>2
    <2> QED
      BY <2>3, <2>4, <2>5, <2>6, <2>7, <2>8
  <1>3. CASE AddBytes(w)
    BY <1>3 DEF AddBytes
  <1>4. CASE Compare(w)
    BY <1>4 DEF Compare
  <1>5. CASE Store(w)
    BY <1>5 DEF Store
  <1>6. CASE PrintLine(w)
    <2>1. /\ pc[w] = "print" /\ pc' = [pc EXCEPT ![w] = "fetch"]
          /\ UNCHANGED <<done, n>>
      BY <1>6 DEF PrintLine
    <2>2. \A v \in Workers : Holding(v)' <=> v # w /\ Holding(v)
      BY <2>1
    <2>3. Holding(w) /\ n[w] \in 1..done
      BY <2>1
    <2>4. \A k \in DOMAIN lines' : lines'[k][1] <= done'
      BY <1>0, <1>6, <2>1, <2>3
    <2>5. ASSUME NEW k \in DOMAIN lines', NEW l \in DOMAIN lines',
                 lines'[k][1] = Total, lines'[l][1] = Total
          PROVE  k = l
      <3>1. n[w] = Total => \A i \in DOMAIN lines : lines[i][1] # Total
        BY <2>3
      <3>2. CASE k \in DOMAIN lines /\ l \in DOMAIN lines
        BY <1>0, <1>6, <2>5, <3>2
      <3>3. CASE k = Len(lines) + 1 \/ l = Len(lines) + 1
        BY <1>0, <1>6, <2>5, <3>1, <3>3
      <3> QED
        BY <1>0, <1>6, <3>2, <3>3
    <2>6. \A k \in DOMAIN lines', v \in Workers :
             lines'[k][1] = Total => ~ (Holding(v)' /\ n'[v] = Total)
      BY <1>0, <1>6, <2>1, <2>2, <2>3
    <2>7. done' = Total => \/ \E v \in Workers : Holding(v)' /\ n'[v] = Total
                           \/ \E k \in DOMAIN lines' : lines'[k][1] = Total
      BY <1>0, <1>6, <2>1, <2>2, <2>3
    <2> QED
      BY <2>1, <2>2, <2>4, <2>5, <2>6, <2>7
  <1> QED
    BY <1>1, <1>2, <1>3, <1>4, <1>5, <1>6 DEF Worker

(* A step is covered by a line, or by a worker on its way to one.          *)
LEMMA StepsKeep ==
  ASSUME Shape, StepsAreCovered, NEW w \in Workers, Worker(w)
  PROVE  StepsAreCovered'
  <1>0. PrintLine(w) =>
          /\ DOMAIN lines' = DOMAIN lines \cup {Len(lines) + 1}
          /\ Len(lines) + 1 \notin DOMAIN lines
          /\ \A k \in DOMAIN lines : lines'[k] = lines[k]
          /\ lines'[Len(lines) + 1][1] = n[w]
    BY PrintLineAdds
  <1> USE DEF Shape, Goto, StepsAreCovered, Holding, Reported
  <1>1. CASE Fetched(w)
    BY <1>1 DEF Fetched
  <1>2. CASE AddDone(w)
    <2>1. /\ pc[w] = "count" /\ pc' = [pc EXCEPT ![w] = "bytes"]
          /\ done' = done + 1 /\ n' = [n EXCEPT ![w] = done + 1]
          /\ UNCHANGED <<lines, lastBucket>>
      BY <1>2 DEF AddDone
    <2>2. ASSUME NEW v \in Workers, Holding(v)
          PROVE  v # w /\ n'[v] = n[v] /\ pc'[v] = pc[v] /\ Holding(v)'
      BY <2>1, <2>2
    <2>3. n'[w] = done' /\ Holding(w)'
      BY <2>1
    <2>4. ASSUME NEW c \in 1..done', Bucket(c) # 0
          PROVE  \/ Reported(Bucket(c))'
                 \/ \E v \in Workers : Holding(v)' /\ Bucket(n'[v]) = Bucket(c)
      <3>1. c \in 1..done \/ c = done'
        BY <2>1
      <3> QED
        BY <2>1, <2>2, <2>3, <2>4, <3>1
    <2>5. lastBucket' # 0 =>
             \/ Reported(lastBucket)'
             \/ \E v \in Workers : pc'[v] = "print" /\ Bucket(n'[v]) = lastBucket'
      BY <2>1, <2>2
    <2> QED
      BY <2>4, <2>5
  <1>3. CASE AddBytes(w)
    BY <1>3 DEF AddBytes
  <1>4. CASE Compare(w)
    <2>1. /\ pc[w] = "compare" /\ UNCHANGED <<lines, lastBucket, done, n>>
          /\ \/ pc' = [pc EXCEPT ![w] = "store"]
             \/ pc' = [pc EXCEPT ![w] = "fetch"] /\ Bucket(n[w]) = lastBucket
      BY <1>4 DEF Compare
    <2>2. \A v \in Workers : pc[v] = "print" <=> pc'[v] = "print"
      BY <2>1
    <2>3. \A v \in Workers : Holding(v) => Holding(v)' \/ Bucket(n[v]) = lastBucket
      BY <2>1
    <2>4. ASSUME NEW c \in 1..done, Bucket(c) # 0
          PROVE  \/ Reported(Bucket(c))
                 \/ \E v \in Workers : Holding(v)' /\ Bucket(n[v]) = Bucket(c)
      BY <2>2, <2>3, <2>4
    <2> QED
      BY <2>1, <2>2, <2>4
  <1>5. CASE Store(w)
    BY <1>5 DEF Store
  <1>6. CASE PrintLine(w)
    <2>1. /\ pc[w] = "print" /\ pc' = [pc EXCEPT ![w] = "fetch"]
          /\ UNCHANGED <<lastBucket, done, n>>
      BY <1>6 DEF PrintLine
    <2>2. ASSUME NEW step, \E k \in DOMAIN lines : Bucket(lines[k][1]) = step
          PROVE  \E k \in DOMAIN lines' : Bucket(lines'[k][1]) = step
      BY <1>0, <1>6, <2>2
    <2>4. \E k \in DOMAIN lines' : Bucket(lines'[k][1]) = Bucket(n[w])
      BY <1>0, <1>6
    <2>3. \A v \in Workers : v # w => (Holding(v) <=> Holding(v)') /\ pc'[v] = pc[v]
      BY <2>1
    <2>5. ASSUME lastBucket # 0
          PROVE  \/ \E k \in DOMAIN lines' : Bucket(lines'[k][1]) = lastBucket
                 \/ \E v \in Workers : pc'[v] = "print" /\ Bucket(n[v]) = lastBucket
      <3>1. CASE \E k \in DOMAIN lines : Bucket(lines[k][1]) = lastBucket
        BY <2>2, <3>1
      <3>2. CASE \E v \in Workers : pc[v] = "print" /\ Bucket(n[v]) = lastBucket
        BY <2>3, <2>4, <3>2
      <3> QED
        BY <2>5, <3>1, <3>2
    <2>6. ASSUME NEW c \in 1..done, Bucket(c) # 0
          PROVE  \/ \E k \in DOMAIN lines' : Bucket(lines'[k][1]) = Bucket(c)
                 \/ \E v \in Workers : Holding(v)' /\ Bucket(n[v]) = Bucket(c)
      <3>1. CASE \E k \in DOMAIN lines : Bucket(lines[k][1]) = Bucket(c)
        BY <2>2, <3>1
      <3>2. CASE \E v \in Workers : Holding(v) /\ Bucket(n[v]) = Bucket(c)
        BY <2>3, <2>4, <3>2
      <3> QED
        BY <2>6, <3>1, <3>2
    <2> QED
      BY <2>1, <2>5, <2>6
  <1> QED
    BY <1>1, <1>2, <1>3, <1>4, <1>5, <1>6 DEF Worker

(* bytesDone is exact.                                                     *)
LEMMA BytesKeep ==
  ASSUME Shape, BytesAreOfTheAdded, NEW w \in Workers, Worker(w)
  PROVE  BytesAreOfTheAdded'
  <1> USE ProgressAssumption
  <1>1. CASE Fetched(w)
    <2>1. /\ next \in Nat /\ next' = next + 1 /\ bytesDone' = bytesDone
          /\ job' = [job EXCEPT ![w] = next]
          /\ Adding' = Adding \cup {w} /\ w \notin Adding
      BY <1>1 DEF Fetched, Goto, Shape, Adding
    <2>2. \A v \in Adding : v # w /\ job'[v] = job[v] /\ job[v] < next
      BY <2>1 DEF Shape, BytesAreOfTheAdded, Adding
    <2>3. job'[w] = next
      BY <2>1 DEF Shape
    <2>4. Added' = Added
      BY <2>1, <2>2, <2>3 DEF Added
    <2>5. job \in [Workers -> Nat] /\ Adding \in SUBSET Workers
      BY DEF Shape, Adding
    <2>6. /\ \A v \in Adding' : job'[v] < next'
          /\ \A u, v \in Adding' : job'[u] = job'[v] => u = v
      BY <2>1, <2>2, <2>3, <2>5 DEF BytesAreOfTheAdded
    <2> QED
      BY <2>1, <2>4, <2>6 DEF BytesAreOfTheAdded
  <1>2. CASE AddDone(w) \/ Compare(w) \/ Store(w) \/ PrintLine(w)
    <2>1. Adding' = Adding /\ UNCHANGED <<next, job, bytesDone>>
      BY <1>2 DEF AddDone, Compare, Store, PrintLine, Goto, Shape, Adding
    <2>2. Added' = Added
      BY <2>1 DEF Added
    <2> QED
      BY <2>1, <2>2 DEF BytesAreOfTheAdded
  <1>3. CASE AddBytes(w)
    <2>1. /\ bytesDone' = bytesDone + Size[job[w]] /\ UNCHANGED <<next, job>>
          /\ Adding' = Adding \ {w} /\ w \in Adding
      BY <1>3 DEF AddBytes, Goto, Shape, Adding
    <2>2. job[w] \in 1..(next - 1) /\ job[w] \in 1..Total
      BY <1>3, <2>1 DEF AddBytes, Shape, BytesAreOfTheAdded, Adding
    <2>3. Added' = Added \cup {job[w]} /\ job[w] \notin Added
      BY <2>1, <2>2 DEF Added, BytesAreOfTheAdded
    <2>4. SizeOf(Added') = SizeOf(Added) + Size[job[w]]
      BY <2>2, <2>3, SizeOfOneMore
    <2> QED
      BY <2>1, <2>4 DEF BytesAreOfTheAdded
  <1> QED
    BY <1>1, <1>2, <1>3 DEF Worker

(* When all are counted, what a worker finds in bytesDone misses at most   *)
(* what the others have to add.                                            *)
LEMMA OthersAreMissing ==
  ASSUME NEW adding \in SUBSET Workers, NEW w \in Workers \ adding, NEW jobs,
         \A v \in adding : jobs[v] \in 0..Total
  PROVE  LagsByThePool(SizeOf((1..Total) \ {jobs[v] : v \in adding}))
  <1> USE ProgressAssumption
  <1> DEFINE held == {jobs[v] : v \in adding}
             rest == (1..Total) \ held
             missing == (1..Total) \ rest
  <1>1. rest \in SUBSET (1..Total) /\ missing \subseteq held
    OBVIOUS
  <1>2. IsFiniteSet(adding) /\ Cardinality(adding) <= Cardinality(Workers) - 1
    <2>1. adding \in SUBSET (Workers \ {w})
      OBVIOUS
    <2>2. /\ IsFiniteSet(Workers \ {w})
          /\ Cardinality(Workers \ {w}) = Cardinality(Workers) - 1
      BY FS_RemoveElement
    <2>3. /\ IsFiniteSet(adding)
          /\ Cardinality(adding) <= Cardinality(Workers \ {w})
      BY <2>1, <2>2, FS_Subset
    <2> QED
      BY <2>2, <2>3
  <1>3. IsFiniteSet(held) /\ Cardinality(held) <= Cardinality(adding)
    <2>1. held \in SUBSET (0..Total)
      OBVIOUS
    <2>2. IsFiniteSet(held)
      <3>1. IsFiniteSet(0..Total)
        BY FS_Interval
      <3> HIDE DEF held
      <3> QED
        BY <2>1, <3>1, FS_Subset
    <2> QED
      BY <1>2, <2>2, ImageIsNoLarger
  <1> HIDE DEF held
  <1>4. Cardinality(missing) <= Cardinality(held)
    <2> HIDE DEF missing
    <2> QED
      BY <1>1, <1>3, FS_Subset
  <1>5. /\ Cardinality(missing) \in Nat /\ Cardinality(held) \in Nat
        /\ Cardinality(adding) \in Nat /\ Cardinality(Workers) \in Nat
    BY <1>1, <1>2, <1>3, MissingIsBounded, FS_CardinalityType
  <1> DEFINE k == Cardinality(missing)
             pool == Cardinality(Workers) - 1
  <1>6. k \in Nat /\ pool \in Nat /\ k <= pool
    BY <1>2, <1>3, <1>4, <1>5
  <1>7. SizeOfAll <= SizeOf(rest) + k * Largest
    BY <1>1, MissingIsBounded
  <1>8. LagsByThePool(SizeOf(rest)) <=> SizeOf(rest) + pool * Largest >= SizeOfAll
    BY DEF LagsByThePool
  <1> HIDE DEF k, pool, rest
  <1>9. k * Largest <= pool * Largest /\ k * Largest \in Nat /\ pool * Largest \in Nat
    BY <1>6, TimesMonotone, LargestIsLargest
  <1>10. SizeOf(rest) \in Nat /\ SizeOfAll \in Nat
    BY SizeOfType DEF SizeOfAll
  <1> QED
    BY <1>7, <1>8, <1>9, <1>10 DEF rest, held

LEMMA LagsKeep ==
  ASSUME Shape, Shape', NoneForgotten, NoneForgotten', LastCountIsOnce,
         BytesAreOfTheAdded, BytesAreOfTheAdded', LastCountLags,
         NEW w \in Workers, Worker(w)
  PROVE  LastCountLags'
  <1>0. PrintLine(w) =>
          /\ DOMAIN lines' = DOMAIN lines \cup {Len(lines) + 1}
          /\ Len(lines) + 1 \notin DOMAIN lines
          /\ \A k \in DOMAIN lines : lines'[k] = lines[k]
          /\ lines'[Len(lines) + 1][1] = n[w]
          /\ lines'[Len(lines) + 1][2] = b[w]
    BY PrintLineAdds
  <1>1. CASE Fetched(w) \/ Compare(w) \/ Store(w)
    BY <1>1 DEF Fetched, Compare, Store, Goto, Shape, LastCountLags
  <1>2. CASE AddDone(w)
    BY <1>2 DEF AddDone, Goto, Shape, LastCountLags
  <1>3. CASE AddBytes(w)
    <2>1. /\ pc[w] = "bytes" /\ pc' = [pc EXCEPT ![w] = "compare"]
          /\ b' = [b EXCEPT ![w] = bytesDone'] /\ UNCHANGED <<next, n, done, lines>>
      BY <1>3 DEF AddBytes, Goto
    <2>2. \A v \in Workers : v # w => pc'[v] = pc[v] /\ b'[v] = b[v]
      BY <2>1 DEF Shape
    <2>3. ASSUME n[w] = Total PROVE LagsByThePool(bytesDone')
      <3>1. done = Total
        BY <2>1, <2>3, DoneIsBounded, ProgressAssumption
           DEF LastCountIsOnce, Holding, Shape
      <3>2. next' = Total + 1
        <4>1. IsFiniteSet(Uncounted) /\ Cardinality(Uncounted) \in Nat
          BY ProgressAssumption, FS_Subset, FS_CardinalityType DEF Uncounted
        <4> QED
          BY <2>1, <3>1, <4>1, ProgressAssumption DEF NoneForgotten, Shape
      <3>3. Adding' \in SUBSET Workers /\ w \in Workers \ Adding'
        BY <2>1 DEF Adding, Shape
      <3>4. \A v \in Adding' : job'[v] \in 0..Total
        BY <3>3 DEF Shape
      <3>5. LagsByThePool(SizeOf((1..Total) \ {job'[v] : v \in Adding'}))
        BY <3>3, <3>4, OthersAreMissing
      <3>6. Added' = (1..Total) \ {job'[v] : v \in Adding'}
        BY <3>2, ProgressAssumption DEF Added
      <3> QED
        BY <3>5, <3>6 DEF BytesAreOfTheAdded
    <2> QED
      BY <2>1, <2>2, <2>3 DEF LastCountLags, Shape
  <1>4. CASE PrintLine(w)
    <2>1. /\ pc[w] = "print" /\ pc' = [pc EXCEPT ![w] = "fetch"]
          /\ UNCHANGED <<n, b>>
      BY <1>4 DEF PrintLine, Goto
    <2>2. n[w] = Total => LagsByThePool(b[w])
      BY <2>1 DEF LastCountLags
    <2>3. ASSUME NEW k \in DOMAIN lines', lines'[k][1] = Total
          PROVE  LagsByThePool(lines'[k][2])
      BY <1>0, <1>4, <2>2, <2>3 DEF LastCountLags
    <2> QED
      BY <2>1, <2>3 DEF LastCountLags, Shape
  <1> QED
    BY <1>1, <1>2, <1>3, <1>4 DEF Worker

(* The ranges of the counters.                                             *)
LEMMA TypeKeeps ==
  ASSUME TypeOK, Shape, Shape', NoneForgotten, LastCountIsOnce,
         BytesAreOfTheAdded', NEW w \in Workers, Worker(w)
  PROVE  TypeOK'
  <1> USE ProgressAssumption
  <1>1. bytesDone' \in 0..SizeOfAll /\ SizeOfAll \in Nat
    <2>1. Added' \subseteq 1..Total
      BY DEF Added, Shape
    <2>2. SizeOf(Added') <= SizeOf(1..Total) /\ SizeOf(Added') \in Nat
      BY <2>1, SizeOfMonotone, SizeOfType
    <2> QED
      BY <2>2, SizeOfType DEF BytesAreOfTheAdded, SizeOfAll
  <1>2. done' \in 0..Total /\ n' \in [Workers -> 0..Total]
    <2>1. CASE AddDone(w)
      <3>1. done < Total /\ done \in Nat
        BY <2>1, DoneIsBounded DEF AddDone, Shape
      <3> QED
        BY <2>1, <3>1 DEF AddDone, TypeOK
    <2>2. CASE ~ AddDone(w)
      BY <2>2 DEF Worker, Fetched, AddBytes, Compare, Store, PrintLine, TypeOK
    <2> QED
      BY <2>1, <2>2
  <1>3. b' \in [Workers -> 0..SizeOfAll]
    BY <1>1 DEF Worker, Fetched, AddDone, AddBytes, Compare, Store, PrintLine, TypeOK
  <1>4. lastBucket' \in 0..Buckets
    BY BucketRange DEF Worker, Fetched, AddDone, AddBytes, Compare, Store, PrintLine,
                       TypeOK
  <1>5. lines' \in Seq((1..Total) \X (0..SizeOfAll))
    <2>1. CASE PrintLine(w)
      <3>1. n[w] \in 1..Total /\ b[w] \in 0..SizeOfAll
        BY <2>1 DEF PrintLine, LastCountIsOnce, Holding, TypeOK
      <3>2. <<n[w], b[w]>> \in (1..Total) \X (0..SizeOfAll)
        BY <3>1
      <3>3. lines' = Append(lines, <<n[w], b[w]>>)
        BY <2>1 DEF PrintLine
      <3>4. lines \in Seq((1..Total) \X (0..SizeOfAll))
        BY DEF TypeOK
      <3> QED
        BY <3>2, <3>3, <3>4
    <2>2. CASE ~ PrintLine(w)
      BY <2>2 DEF Worker, Fetched, AddDone, AddBytes, Compare, Store, TypeOK
    <2> QED
      BY <2>1, <2>2
  <1> QED
    BY <1>1, <1>2, <1>3, <1>4, <1>5 DEF TypeOK, Shape

LEMMA NextKeeps == IInv /\ [Next]_vars => IInv'
  <1> SUFFICES ASSUME IInv, [Next]_vars PROVE IInv'
    OBVIOUS
  <1>1. ASSUME NEW w \in Workers, Worker(w) PROVE IInv'
    <2>1. /\ Shape' /\ NoneForgotten' /\ LastCountIsOnce' /\ StepsAreCovered'
          /\ BytesAreOfTheAdded'
      BY <1>1, ShapeKeeps, NoneForgottenKeeps, LastCountKeeps, StepsKeep, BytesKeep
         DEF IInv
    <2>2. LastCountLags' /\ TypeOK'
      BY <1>1, <2>1, LagsKeep, TypeKeeps DEF IInv
    <2> QED
      BY <2>1, <2>2 DEF IInv
  <1>2. CASE Finished \/ UNCHANGED vars
    <2>1. Shape' /\ NoneForgotten' /\ LastCountIsOnce' /\ StepsAreCovered'
      BY <1>2 DEF Finished, vars, IInv, Shape, NoneForgotten, Uncounted,
                  LastCountIsOnce, Holding, StepsAreCovered, Reported
    <2>2. BytesAreOfTheAdded'
      BY <1>2 DEF Finished, vars, IInv, BytesAreOfTheAdded, Adding, Added
    <2>3. LastCountLags' /\ TypeOK'
      BY <1>2 DEF Finished, vars, IInv, LastCountLags, TypeOK
    <2> QED
      BY <2>1, <2>2, <2>3 DEF IInv
  <1> QED
    BY <1>1, <1>2 DEF Next, Worker

-----------------------------------------------------------------------------
(* The theorems.                                                           *)

\* Each count is one worker's until it is on a line, and each step that was
\* reached has its line or somebody who will print it (install.go:126-133).
THEOREM InductiveInvariant == Spec => []IInv
  BY InitEstablishes, NextKeeps, PTL DEF Spec

\* However the callers race on lastBucket, no step of the scale is lost
\* (install.go:119, 128-131).
THEOREM NoStepIsLost == Spec => []EveryStepReported
  <1>1. IInv => EveryStepReported
    <2> SUFFICES ASSUME IInv, Quiet, NEW c \in 1..Total, Bucket(c) > 0
                 PROVE  \E line \in Printed : Bucket(line[1]) = Bucket(c)
      BY DEF EveryStepReported
    <2>1. c \in 1..done /\ Bucket(c) # 0
      BY DoneIsBounded DEF IInv
    <2>2. Reported(Bucket(c))
      BY <2>1 DEF IInv, StepsAreCovered, Quiet, Holding
    <2> QED
      BY <2>2 DEF Reported, Printed, IInv, Shape
  <1> QED
    BY <1>1, InductiveInvariant, PTL

\* The end of a stage is reported once, although lastBucket is no lock
\* (install.go:128).
THEOREM TheEndIsReportedOnce == Spec => []OneLastLine
  <1>1. IInv => OneLastLine
    <2> SUFFICES ASSUME IInv, Quiet
                 PROVE  Cardinality({k \in 1..Len(lines) : lines[k][1] = Total}) = 1
      BY DEF OneLastLine
    <2>1. PICK k \in DOMAIN lines : lines[k][1] = Total
      BY DoneIsBounded DEF IInv, LastCountIsOnce, Quiet, Holding
    <2>2. {l \in 1..Len(lines) : lines[l][1] = Total} = {k}
      BY <2>1 DEF IInv, LastCountIsOnce, Shape
    <2> QED
      BY <2>2, FS_Singleton
  <1> QED
    BY <1>1, InductiveInvariant, PTL

\* The counters and the copies of them stay within the totals of the set, and
\* the bucket within the scale (assets.go:106-110, install.go:127).
THEOREM TypeCorrect == Spec => []TypeOK
  <1>1. IInv => TypeOK
    BY DEF IInv
  <1> QED
    BY <1>1, InductiveInvariant, PTL

\* The two additions are not one, but the 100% line is short of no more bytes
\* than the other workers hold (assets.go:106-110).
THEOREM TheEndLagsByThePool == Spec => []LastLineLagsByThePool
  <1>1. IInv => LastLineLagsByThePool
    BY DEF IInv, LastCountLags, LastLineLagsByThePool, Printed, Shape
  <1> QED
    BY <1>1, InductiveInvariant, PTL

\* However the additions interleave, none is lost: when all workers are done
\* the two counters hold the whole set (assets.go:106-110).
THEOREM NothingIsLost ==
  Spec => [](Quiet => done = Total /\ bytesDone = SizeOfAll)
  <1>1. IInv => (Quiet => done = Total /\ bytesDone = SizeOfAll)
    <2> SUFFICES ASSUME IInv, Quiet PROVE done = Total /\ bytesDone = SizeOfAll
      OBVIOUS
    <2>1. next = Total + 1 /\ Adding = {}
      BY ProgressAssumption DEF IInv, Shape, Quiet, Adding
    <2>2. Added = 1..Total
      BY <2>1, ProgressAssumption DEF Added
    <2> QED
      BY <2>2, DoneIsBounded DEF IInv, BytesAreOfTheAdded, SizeOfAll
  <1> QED
    BY <1>1, InductiveInvariant, PTL
=============================================================================
