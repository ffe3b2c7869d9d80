----------------------------- MODULE Induction -----------------------------
(***************************************************************************)
(* Induction, and what it gives of the recursions the models use: a        *)
(* recursive function on 0..n, Max, and FlattenSeq.  The library's         *)
(* induction theorems take a predicate or a definition as a parameter,     *)
(* which the installed provers cannot instantiate; WFMin takes a relation  *)
(* and a set, which they can, and the rest follows from it.                *)
(***************************************************************************)
EXTENDS Integers, SequencesExt, WellFoundedInduction, TLAPS

-----------------------------------------------------------------------------
(* Numbers.                                                                *)

\* A set of numbers that has one has a least one.
LEMMA LeastExists ==
  ASSUME NEW T \in SUBSET Nat, T # {}
  PROVE  \E x \in T : \A y \in T : x <= y
  <1>1. PICK x \in T : \A y \in T : ~ (<<y, x>> \in OpToRel(<, Nat))
    BY NatLessThanWellFounded, WFMin
  <1>2. ASSUME NEW y \in T PROVE ~ (y < x)
    <2>1. <<y, x>> \notin OpToRel(<, Nat)
      BY <1>1
    <2> QED
      BY <2>1 DEF OpToRel
  <1>3. \A y \in T : ~ (y < x)
    BY <1>2
  <1> HIDE <1>1
  <1> QED
    BY <1>3

\* Induction over the numbers, on a set: what holds is said as membership, so
\* that the fact can be cited where a predicate could not be passed.
LEMMA SetInduction ==
  ASSUME NEW S, 0 \in S, \A n \in Nat : n \in S => n + 1 \in S
  PROVE  Nat \subseteq S
  <1>1. SUFFICES ASSUME Nat \ S # {} PROVE FALSE
    OBVIOUS
  <1>2. PICK x \in Nat \ S : \A y \in Nat \ S : x <= y
    BY <1>1, LeastExists
  <1>3. x # 0 /\ x - 1 \in Nat /\ x - 1 + 1 = x
    BY <1>2
  <1> QED
    BY <1>2, <1>3

\* A bounded set of numbers that has one has a greatest one.
LEMMA GreatestExists ==
  ASSUME NEW T \in SUBSET Nat, T # {}, NEW bound \in Nat, \A x \in T : x <= bound
  PROVE  \E x \in T : \A y \in T : x >= y
  <1> DEFINE above == {k \in Nat : \A y \in T : y <= k}
  <1>1. above \in SUBSET Nat /\ above # {}
    OBVIOUS
  <1> HIDE DEF above
  <1>2. PICK x \in above : \A y \in above : x <= y
    BY <1>1, LeastExists
  <1>3. x \in Nat /\ \A y \in T : y <= x
    BY <1>2 DEF above
  <1>4. x \in T
    <2>1. SUFFICES ASSUME x \notin T PROVE FALSE
      OBVIOUS
    <2>2. x - 1 \in Nat /\ \A y \in T : y <= x - 1
      <3>1. \A y \in T : y \in Nat /\ y < x
        BY <1>3, <2>1
      <3>2. PICK z \in T : TRUE
        OBVIOUS
      <3> QED
        BY <1>3, <3>1, <3>2
    <2>3. x - 1 \in above
      BY <2>2 DEF above
    <2> QED
      BY <1>2, <1>3, <2>3
  <1> QED
    BY <1>3, <1>4

\* What Max of the community modules chooses.
LEMMA MaxIsGreatest ==
  ASSUME NEW T \in SUBSET Nat, T # {}, NEW bound \in Nat, \A x \in T : x <= bound
  PROVE  Max(T) \in T /\ \A y \in T : Max(T) >= y
  <1>1. \E x \in T : \A y \in T : x >= y
    BY GreatestExists
  <1> QED
    BY <1>1, Zenon DEF Max

-----------------------------------------------------------------------------
(* Recursive functions.                                                    *)

(* f is what a recursion over 0..n makes of a step given as data.          *)
Iterates(f, S, base, n, step) ==
    /\ f \in [0..n -> S]
    /\ f[0] = base
    /\ \A i \in 1..n : f[i] = step[<<f[i - 1], i>>]

\* A recursive function is defined up to any number of steps.
LEMMA RecursionExists ==
  ASSUME NEW S, NEW base \in S, NEW n \in Nat, NEW step \in [S \X (1..n) -> S]
  PROVE  \E f : Iterates(f, S, base, n, step)
  <1> DEFINE reached == {k \in Nat : k <= n => \E f : Iterates(f, S, base, k, step)}
  <1>1. 0 \in reached
    <2>1. Iterates([i \in 0..0 |-> base], S, base, 0, step)
      BY DEF Iterates
    <2> QED
      BY <2>1
  <1>2. ASSUME NEW k \in Nat, k \in reached PROVE k + 1 \in reached
    <2>1. SUFFICES ASSUME k + 1 <= n PROVE \E f : Iterates(f, S, base, k + 1, step)
      OBVIOUS
    <2>2. PICK f : Iterates(f, S, base, k, step)
      BY <1>2, <2>1
    <2> DEFINE g == [i \in 0..(k + 1) |-> IF i = k + 1 THEN step[<<f[k], i>>] ELSE f[i]]
    <2>3. step[<<f[k], k + 1>>] \in S
      BY <2>1, <2>2 DEF Iterates
    <2>4. g \in [0..(k + 1) -> S]
      BY <2>2, <2>3 DEF Iterates
    <2>5. g[0] = base /\ \A i \in 1..(k + 1) : g[i] = step[<<g[i - 1], i>>]
      BY <2>2 DEF Iterates
    <2>6. Iterates(g, S, base, k + 1, step)
      BY <2>4, <2>5 DEF Iterates
    <2> QED
      BY <2>6
  <1>3. Nat \subseteq reached
    <2> HIDE DEF reached
    <2> QED
      BY <1>1, <1>2, SetInduction
  <1> QED
    BY <1>3

(* f and g begin alike at m, and each of their steps up to n is alike.     *)
SameSteps(f, g, m, n) ==
    /\ m <= n => f[m] = g[m]
    /\ \A i \in (m + 1)..n : f[i - 1] = g[i - 1] => f[i] = g[i]

\* Two functions whose steps are alike are the same.
LEMMA RecursionAgrees ==
  ASSUME NEW m \in Nat, NEW n \in Nat, NEW f, NEW g, SameSteps(f, g, m, n)
  PROVE  \A i \in m..n : f[i] = g[i]
  <1> DEFINE agree == {k \in Nat : m + k <= n => f[m + k] = g[m + k]}
  <1>1. 0 \in agree
    BY DEF SameSteps
  <1>2. ASSUME NEW k \in Nat, k \in agree PROVE k + 1 \in agree
    <2>1. SUFFICES ASSUME m + (k + 1) <= n PROVE f[m + (k + 1)] = g[m + (k + 1)]
      OBVIOUS
    <2>2. m + (k + 1) \in (m + 1)..n /\ m + (k + 1) - 1 = m + k /\ m + k <= n
      BY <2>1
    <2>3. f[m + k] = g[m + k]
      BY <1>2, <2>2
    <2> QED
      BY <2>2, <2>3 DEF SameSteps
  <1>3. Nat \subseteq agree
    <2> HIDE DEF agree
    <2> QED
      BY <1>1, <1>2, SetInduction
  <1>4. ASSUME NEW i \in m..n PROVE f[i] = g[i]
    <2>1. i - m \in Nat /\ m + (i - m) = i /\ i <= n
      OBVIOUS
    <2> QED
      BY <1>3, <2>1
  <1> QED
    BY <1>4

-----------------------------------------------------------------------------
(* FlattenSeq.                                                             *)

(* The prefixes of a concatenation.                                        *)
Concatenates(g, S, seqs) ==
    /\ g \in [0..Len(seqs) -> Seq(S)]
    /\ g[0] = <<>>
    /\ \A i \in 1..Len(seqs) : g[i] = g[i - 1] \o seqs[i]

\* A sequence of sequences has its prefixes.
LEMMA PrefixesExist ==
  ASSUME NEW S, NEW seqs \in Seq(Seq(S))
  PROVE  \E g : Concatenates(g, S, seqs)
  <1> DEFINE n == Len(seqs)
             step == [p \in Seq(S) \X (1..n) |-> p[1] \o seqs[p[2]]]
  <1>1. n \in Nat /\ \A i \in 1..n : seqs[i] \in Seq(S)
    OBVIOUS
  <1> HIDE DEF n
  <1>2. \A p \in Seq(S) \X (1..n) : p[1] \o seqs[p[2]] \in Seq(S)
    BY <1>1
  <1>3. <<>> \in Seq(S) /\ step \in [Seq(S) \X (1..n) -> Seq(S)]
    BY <1>2
  <1>4. PICK g : Iterates(g, Seq(S), <<>>, n, step)
    <2> HIDE DEF step
    <2> QED
      BY <1>1, <1>3, RecursionExists
  <1>5. g \in [0..n -> Seq(S)] /\ g[0] = <<>>
    BY <1>4 DEF Iterates
  <1>6. ASSUME NEW i \in 1..n PROVE g[i] = g[i - 1] \o seqs[i]
    <2>1. i - 1 \in 0..n
      BY <1>1
    <2>2. <<g[i - 1], i>> \in Seq(S) \X (1..n)
      BY <1>5, <2>1
    <2>3. g[i] = step[<<g[i - 1], i>>]
      BY <1>4 DEF Iterates
    <2> QED
      BY <2>2, <2>3
  <1> QED
    BY <1>5, <1>6, Zenon DEF Concatenates, n

\* FlattenSeq is the last of them.
LEMMA FlattenIsThePrefix ==
  ASSUME NEW S, NEW seqs \in Seq(Seq(S)), NEW g, Concatenates(g, S, seqs), Len(seqs) > 0
  PROVE  FlattenSeq(seqs) = g[Len(seqs)]
  <1> DEFINE n == Len(seqs)
             Body(f) == [i \in 1..n |-> IF i = 1 THEN seqs[i] ELSE f[i - 1] \o seqs[i]]
             h == [i \in 1..n |-> g[i]]
             flatten == CHOOSE f : f = Body(f)
  <1>1. n \in Nat /\ 1 \in 1..n /\ n \in 1..n /\ seqs[1] \in Seq(S)
    OBVIOUS
  <1>2. g[0] = <<>> /\ \A i \in 1..n : g[i] = g[i - 1] \o seqs[i]
    BY Zenon DEF Concatenates
  <1>3. FlattenSeq(seqs) = flatten[n]
    BY DEF FlattenSeq
  <1> HIDE DEF n
  <1>4. g[1] = seqs[1]
    <2>1. g[1] = g[1 - 1] \o seqs[1]
      BY <1>1, <1>2, Zenon
    <2>2. g[1 - 1] = <<>>
      BY <1>2
    <2> QED
      BY <1>1, <2>1, <2>2
  <1>5. h = Body(h)
    <2>1. ASSUME NEW i \in 1..n
          PROVE  g[i] = IF i = 1 THEN seqs[i] ELSE h[i - 1] \o seqs[i]
      <3>1. CASE i = 1
        BY <1>4, <3>1, Zenon
      <3>2. CASE i # 1
        <4>1. i - 1 \in 1..n
          BY <1>1, <3>2
        <4>2. h[i - 1] = g[i - 1]
          BY <4>1
        <4> QED
          BY <1>2, <3>2, <4>2, Zenon
      <3> QED
        BY <3>1, <3>2
    <2> QED
      BY <2>1, Zenon
  <1>6. flatten = Body(flatten)
    <2> HIDE DEF h, Body
    <2> QED
      BY <1>5, Zenon
  <1> HIDE DEF flatten
  <1>7. \A i \in 1..n : flatten[i] = IF i = 1 THEN seqs[i] ELSE flatten[i - 1] \o seqs[i]
    BY <1>6, Zenon
  <1>8. flatten[1] = g[1]
    BY <1>1, <1>4, <1>7, Zenon
  <1>9. ASSUME NEW i \in (1 + 1)..n, flatten[i - 1] = g[i - 1]
        PROVE  flatten[i] = g[i]
    <2>1. i \in 1..n /\ i # 1
      BY <1>1
    <2> QED
      BY <1>2, <1>7, <1>9, <2>1, Zenon
  <1>10. \A i \in 1..n : flatten[i] = g[i]
    <2>1. SameSteps(flatten, g, 1, n)
      BY <1>8, <1>9, Zenon DEF SameSteps
    <2> QED
      BY <1>1, <2>1, RecursionAgrees
  <1> QED
    BY <1>1, <1>3, <1>10 DEF n

\* What \o gives, and what is in it.
LEMMA ConcatRange ==
  ASSUME NEW S, NEW s \in Seq(S), NEW t \in Seq(S)
  PROVE  s \o t \in Seq(S) /\ ToSet(s \o t) = ToSet(s) \cup ToSet(t)
  <1>1. /\ s \o t \in Seq(S) /\ Len(s \o t) = Len(s) + Len(t)
        /\ \A i \in 1..Len(s) : (s \o t)[i] = s[i]
        /\ \A i \in 1..Len(t) : (s \o t)[Len(s) + i] = t[i]
    OBVIOUS
  <1>2. /\ DOMAIN (s \o t) = 1..Len(s \o t)
        /\ DOMAIN s = 1..Len(s) /\ Len(s) \in Nat
        /\ DOMAIN t = 1..Len(t) /\ Len(t) \in Nat
    BY <1>1
  <1> DEFINE u == s \o t
  <1> HIDE DEF u
  <1>3. ASSUME NEW x \in ToSet(u) PROVE x \in ToSet(s) \cup ToSet(t)
    <2>1. PICK i \in 1..(Len(s) + Len(t)) : x = u[i]
      BY <1>1, <1>2 DEF ToSet, u
    <2>2. CASE i <= Len(s)
      <3>1. i \in 1..Len(s)
        BY <1>2, <2>2
      <3> QED
        BY <1>1, <1>2, <2>1, <3>1 DEF ToSet, u
    <2>3. CASE i > Len(s)
      <3>1. i - Len(s) \in 1..Len(t) /\ Len(s) + (i - Len(s)) = i
        BY <1>2, <2>3
      <3>2. x = t[i - Len(s)]
        BY <1>1, <2>1, <3>1 DEF u
      <3> QED
        BY <1>2, <3>1, <3>2 DEF ToSet
    <2> QED
      BY <1>2, <2>2, <2>3
  <1>4. ASSUME NEW x \in ToSet(s) PROVE x \in ToSet(u)
    <2>1. PICK i \in 1..Len(s) : x = s[i]
      BY <1>2 DEF ToSet
    <2>2. i \in 1..(Len(s) + Len(t))
      BY <1>2
    <2> QED
      BY <1>1, <1>2, <2>1, <2>2 DEF ToSet, u
  <1>5. ASSUME NEW x \in ToSet(t) PROVE x \in ToSet(u)
    <2>1. PICK i \in 1..Len(t) : x = t[i]
      BY <1>2 DEF ToSet
    <2>2. Len(s) + i \in 1..(Len(s) + Len(t))
      BY <1>2
    <2> QED
      BY <1>1, <1>2, <2>1, <2>2 DEF ToSet, u
  <1> QED
    BY <1>1, <1>3, <1>4, <1>5 DEF u

\* FlattenSeq gives a sequence,
LEMMA FlattenSeqType ==
  ASSUME NEW S, NEW seqs \in Seq(Seq(S))
  PROVE  FlattenSeq(seqs) \in Seq(S)
  <1>1. CASE Len(seqs) = 0
    <2>1. FlattenSeq(seqs) = seqs /\ seqs = <<>>
      BY <1>1 DEF FlattenSeq
    <2> QED
      BY <2>1
  <1>2. CASE Len(seqs) > 0
    <2>1. PICK g : Concatenates(g, S, seqs)
      BY PrefixesExist
    <2>2. Len(seqs) \in 0..Len(seqs)
      OBVIOUS
    <2> QED
      BY <1>2, <2>1, <2>2, FlattenIsThePrefix DEF Concatenates
  <1>3. Len(seqs) \in Nat
    OBVIOUS
  <1> QED
    BY <1>1, <1>2, <1>3

\* of the elements of the sequences,
LEMMA FlattenSeqRange ==
  ASSUME NEW S, NEW seqs \in Seq(Seq(S))
  PROVE  ToSet(FlattenSeq(seqs)) = UNION {ToSet(seqs[i]) : i \in DOMAIN seqs}
  <1>0. /\ Len(seqs) \in Nat /\ DOMAIN seqs = 1..Len(seqs)
        /\ \A i \in 1..Len(seqs) : seqs[i] \in Seq(S)
    OBVIOUS
  <1>1. CASE Len(seqs) = 0
    <2>1. FlattenSeq(seqs) = seqs /\ DOMAIN seqs = {}
      BY <1>1 DEF FlattenSeq
    <2> QED
      BY <2>1 DEF ToSet
  <1>2. CASE Len(seqs) > 0
    <2>1. PICK g : Concatenates(g, S, seqs)
      BY PrefixesExist
    <2> DEFINE n == Len(seqs)
               Upto(k) == UNION {ToSet(seqs[i]) : i \in 1..k}
               right == {k \in Nat : k <= n => ToSet(g[k]) = Upto(k)}
    <2> HIDE DEF n
    <2>2. 0 \in right
      <3>1. g[0] = <<>>
        BY <2>1 DEF Concatenates
      <3>2. ToSet(g[0]) = {} /\ 1..0 = {}
        BY <3>1 DEF ToSet
      <3> QED
        BY <3>2
    <2>3. ASSUME NEW k \in Nat, k \in right PROVE k + 1 \in right
      <3>1. SUFFICES ASSUME k + 1 <= n PROVE ToSet(g[k + 1]) = Upto(k + 1)
        OBVIOUS
      <3>2. k \in 0..n /\ \E j \in 1..n : j = k + 1 /\ j - 1 = k
        BY <1>0, <3>1 DEF n
      <3>3. PICK j \in 1..n : j = k + 1 /\ j - 1 = k
        BY <3>2
      <3>4. \A i \in 1..n : g[i] = g[i - 1] \o seqs[i]
        BY <2>1, Zenon DEF Concatenates, n
      <3>5. g[j] = g[k] \o seqs[j] /\ g[k] \in Seq(S)
        <4>1. g[j] = g[j - 1] \o seqs[j]
          BY <3>4, Zenon
        <4>2. g[k] \in Seq(S)
          BY <2>1, <3>2 DEF Concatenates, n
        <4> QED
          BY <3>3, <4>1, <4>2, Zenon
      <3>6. ToSet(g[j]) = ToSet(g[k]) \cup ToSet(seqs[j])
        <4>1. seqs[j] \in Seq(S)
          BY <1>0 DEF n
        <4>2. ToSet(g[k] \o seqs[j]) = ToSet(g[k]) \cup ToSet(seqs[j])
          BY <3>5, <4>1, ConcatRange
        <4> QED
          BY <3>5, <4>2, Zenon
      <3>7. ToSet(g[k]) = Upto(k)
        BY <1>0, <2>3, <3>1 DEF n
      <3>8. 1..(k + 1) = (1..k) \cup {k + 1}
        OBVIOUS
      <3> QED
        BY <3>3, <3>6, <3>7, <3>8
    <2>4. Nat \subseteq right
      <3> HIDE DEF right
      <3> QED
        BY <2>2, <2>3, SetInduction
    <2>5. ToSet(g[n]) = Upto(n)
      BY <1>0, <2>4 DEF n
    <2> QED
      BY <1>0, <1>2, <2>1, <2>5, FlattenIsThePrefix DEF n
  <1> QED
    BY <1>0, <1>1, <1>2

(* Where each of the sequences is in the concatenation.                    *)
Offsets(off, seqs, whole) ==
    \A i \in DOMAIN seqs :
        /\ off[i] \in Nat
        /\ off[i] + Len(seqs[i]) <= Len(whole)
        /\ \A k \in 1..Len(seqs[i]) : whole[off[i] + k] = seqs[i][k]
        /\ \A j \in DOMAIN seqs : i < j => off[i] + Len(seqs[i]) <= off[j]

(* u is s, and then t.                                                     *)
Joins(u, s, t) ==
    /\ Len(s) \in Nat /\ Len(t) \in Nat /\ Len(u) = Len(s) + Len(t)
    /\ \A k \in 1..Len(s) : u[k] = s[k]
    /\ \A k \in 1..Len(t) : u[Len(s) + k] = t[k]

\* \o joins.
LEMMA ConcatJoins ==
  ASSUME NEW S, NEW s \in Seq(S), NEW t \in Seq(S)
  PROVE  Joins(s \o t, s, t)
  BY DEF Joins

\* with each sequence whole, in its place, and after the ones before it.
LEMMA FlattenSeqOffsets ==
  ASSUME NEW S, NEW seqs \in Seq(Seq(S))
  PROVE  \E off : Offsets(off, seqs, FlattenSeq(seqs))
  <1> DEFINE n == Len(seqs)
  <1>0. /\ n \in Nat /\ DOMAIN seqs = 1..n
        /\ \A i \in 1..n : seqs[i] \in Seq(S) /\ Len(seqs[i]) \in Nat
    OBVIOUS
  <1>1. CASE n = 0
    <2>1. DOMAIN seqs = {}
      BY <1>0, <1>1
    <2> QED
      BY <2>1 DEF Offsets
  <1>2. CASE n > 0
    <2>1. PICK g : Concatenates(g, S, seqs)
      BY PrefixesExist
    <2>2. \A i \in 1..n : g[i] = g[i - 1] \o seqs[i]
      BY <2>1, Zenon DEF Concatenates
    <2>3. \A i \in 0..n : g[i] \in Seq(S) /\ Len(g[i]) \in Nat
      <3>1. g \in [0..n -> Seq(S)]
        BY <2>1 DEF Concatenates
      <3>2. \A s \in Seq(S) : Len(s) \in Nat
        OBVIOUS
      <3> HIDE DEF n
      <3>3. \A i \in 0..n : g[i] \in Seq(S)
        BY <3>1
      <3> QED
        BY <3>2, <3>3, Zenon
    <2>4. FlattenSeq(seqs) = g[n]
      BY <1>2, <2>1, FlattenIsThePrefix
    <2> HIDE DEF n
    <2> DEFINE off == [i \in 1..n |-> Len(g[i - 1])]
               Placed(i, m) ==
                 /\ off[i] + Len(seqs[i]) <= Len(g[m])
                 /\ \A k \in 1..Len(seqs[i]) : g[m][off[i] + k] = seqs[i][k]
               right == {m \in Nat : m <= n => \A i \in 1..m : Placed(i, m)}
    <2>5. \A i \in 1..n : off[i] \in Nat
      BY <1>0, <2>3
    <2> HIDE DEF Placed
    <2>6. 0 \in right
      OBVIOUS
    <2>7. ASSUME NEW m \in Nat, m \in right PROVE m + 1 \in right
      <3>1. SUFFICES ASSUME m + 1 <= n, NEW i \in 1..(m + 1)
                     PROVE  Placed(i, m + 1)
        OBVIOUS
      <3>2. PICK j \in 1..n : j = m + 1 /\ j - 1 = m
        <4>1. m + 1 \in 1..n /\ m + 1 - 1 = m
          BY <1>0, <3>1
        <4> QED
          BY <4>1
      <3>3. g[j] = g[j - 1] \o seqs[j]
        BY <2>2, Zenon
      <3>4. g[m] \in Seq(S) /\ seqs[j] \in Seq(S) /\ i \in 1..n
        BY <1>0, <2>3, <3>1
      <3>5. g[m + 1] = g[m] \o seqs[j]
        BY <3>2, <3>3, Zenon
      <3>6. /\ Len(g[m]) \in Nat /\ Len(seqs[j]) \in Nat
            /\ Len(g[m + 1]) = Len(g[m]) + Len(seqs[j])
            /\ \A k \in 1..Len(g[m]) : g[m + 1][k] = g[m][k]
            /\ \A k \in 1..Len(seqs[j]) : g[m + 1][Len(g[m]) + k] = seqs[j][k]
        <4>1. Joins(g[m] \o seqs[j], g[m], seqs[j])
          BY <3>4, ConcatJoins
        <4>2. Joins(g[m + 1], g[m], seqs[j])
          BY <3>5, <4>1, Zenon
        <4> QED
          BY <4>2, Zenon DEF Joins
      <3>7. off[i] \in Nat /\ Len(seqs[i]) \in Nat /\ off[j] = Len(g[m])
        BY <1>0, <2>5, <3>2, <3>4
      <3> HIDE DEF off
      <3>8. CASE i <= m
        <4>1. i \in 1..m /\ m <= n
          BY <3>1, <3>8, <1>0
        <4>2. Placed(i, m)
          BY <2>7, <4>1
        <4>3. /\ off[i] + Len(seqs[i]) <= Len(g[m])
              /\ \A k \in 1..Len(seqs[i]) : g[m][off[i] + k] = seqs[i][k]
          BY <4>2, Zenon DEF Placed
        <4>4. ASSUME NEW k \in 1..Len(seqs[i])
              PROVE  g[m + 1][off[i] + k] = seqs[i][k]
          <5>1. ASSUME NEW a \in Nat, NEW b \in Nat, NEW c \in Nat, NEW d \in 1..b,
                       a + b <= c
                PROVE  a + d \in 1..c
            BY <5>1
          <5>2. off[i] + k \in 1..Len(g[m])
            BY <3>6, <3>7, <4>3, <5>1, Zenon
          <5> QED
            BY <3>6, <4>3, <5>2, Zenon
        <4>5. /\ off[i] \in Nat /\ Len(seqs[i]) \in Nat /\ Len(g[m]) \in Nat
              /\ Len(seqs[j]) \in Nat /\ Len(g[m + 1]) = Len(g[m]) + Len(seqs[j])
              /\ off[i] + Len(seqs[i]) <= Len(g[m])
          BY <3>6, <3>7, <4>3, Zenon
        <4>6. ASSUME NEW a \in Nat, NEW b \in Nat, NEW c \in Nat, NEW d \in Nat,
                     a + b <= c
              PROVE  a + b <= c + d
          BY <4>6
        <4>7. off[i] + Len(seqs[i]) <= Len(g[m]) + Len(seqs[j])
          BY <4>5, <4>6, Zenon
        <4>8. off[i] + Len(seqs[i]) <= Len(g[m + 1])
          BY <4>5, <4>7, Zenon
        <4> QED
          BY <4>4, <4>8, Zenon DEF Placed
      <3>9. CASE i = m + 1
        <4>1. i = j
          BY <3>2, <3>9, Zenon
        <4>2. off[j] + Len(seqs[j]) <= Len(g[m + 1])
          <5>1. ASSUME NEW a \in Nat, NEW b \in Nat PROVE a + b <= a + b
            OBVIOUS
          <5> QED
            BY <3>6, <3>7, <5>1, Zenon
        <4>3. \A k \in 1..Len(seqs[j]) : g[m + 1][off[j] + k] = seqs[j][k]
          BY <3>6, <3>7, Zenon
        <4> QED
          BY <4>1, <4>2, <4>3, Zenon DEF Placed
      <3> QED
        BY <3>1, <3>8, <3>9
    <2>8. Nat \subseteq right
      <3> HIDE DEF right
      <3> QED
        BY <2>6, <2>7, SetInduction
    <2>9. \A m \in 0..n : \A i \in 1..m : Placed(i, m)
      BY <1>0, <2>8
    <2>10. ASSUME NEW i \in 1..n
           PROVE  /\ Placed(i, n)
                  /\ \A j \in 1..n : i < j => off[i] + Len(seqs[i]) <= off[j]
      <3>1. n \in 0..n
        BY <1>0
      <3>2. ASSUME NEW j \in 1..n, i < j
            PROVE  off[i] + Len(seqs[i]) <= off[j]
        <4>1. j - 1 \in 0..n /\ i \in 1..(j - 1) /\ off[j] = Len(g[j - 1])
          BY <1>0, <3>2
        <4> HIDE DEF off
        <4> QED
          BY <2>9, <4>1 DEF Placed
      <3> QED
        BY <2>9, <3>1, <3>2
    <2> HIDE DEF off
    <2>11. Offsets(off, seqs, g[n])
      BY <1>0, <2>5, <2>10 DEF Offsets, Placed
    <2> QED
      BY <2>4, <2>11
  <1> QED
    BY <1>0, <1>1, <1>2

\* A function on 1..n of sequences is a sequence of them.
LEMMA AnySequence ==
  ASSUME NEW n \in Nat, NEW seqs, seqs = [i \in 1..n |-> seqs[i]],
         \A i \in 1..n : seqs[i] \in Seq(ToSet(seqs[i]))
  PROVE  seqs \in Seq(Seq(UNION {ToSet(seqs[i]) : i \in 1..n}))
  <1> DEFINE S == UNION {ToSet(seqs[i]) : i \in 1..n}
  <1>1. ASSUME NEW i \in 1..n PROVE seqs[i] \in Seq(S)
    <2>1. ToSet(seqs[i]) \subseteq S
      OBVIOUS
    <2> HIDE DEF S
    <2> QED
      BY <2>1
  <1> HIDE DEF S
  <1>2. seqs \in [1..n -> Seq(S)]
    BY <1>1
  <1> QED
    BY <1>2 DEF S
=============================================================================
