---------------------------- MODULE AnswersProofs ----------------------------
(***************************************************************************)
(* What is right about the answers for every file, address and version.     *)
(***************************************************************************)
EXTENDS Answers, FiniteSetTheorems, SequenceTheorems, WellFoundedInduction, TLAPS

-----------------------------------------------------------------------------
(* Induction: over the numbers below a bound, with a set for the predicate *)

\* A set of numbers has a least one.
LEMMA LeastOf == ASSUME NEW S \in SUBSET Nat, S # {} PROVE \E m \in S : \A n \in S : m <= n
  <1>1. IsWellFoundedOn(OpToRel(<, Nat), Nat)
    BY NatLessThanWellFounded
  <1>2. PICK m \in S : \A n \in S : ~(<<n, m>> \in OpToRel(<, Nat))
    BY <1>1, WFMin
  <1>3. \A n \in S : ~(n < m)
    BY <1>2 DEF OpToRel
  <1>4. QED BY <1>3

LEMMA UpTo ==
    ASSUME NEW N \in Nat, NEW S, 0 \in S,
           \A n \in 0 .. N - 1 : n \in S => n + 1 \in S
    PROVE  \A n \in 0 .. N : n \in S
  <1> DEFINE Missing == {n \in 0 .. N : n \notin S}
  <1> SUFFICES ASSUME Missing # {} PROVE FALSE
    OBVIOUS
  <1>0. Missing \in SUBSET Nat
    OBVIOUS
  <1>1. PICK m \in Missing : \A n \in Missing : m <= n
    <2> HIDE DEF Missing
    <2>1. QED BY <1>0, LeastOf
  <1>2. m \in 0 .. N /\ m # 0 /\ m - 1 \notin Missing
    BY <1>1
  <1>3. m - 1 \in 0 .. N - 1 /\ m - 1 \in S
    BY <1>2
  <1>4. m \in S
    BY <1>3
  <1>5. QED BY <1>1, <1>4

\* A recursion over the numbers up to a bound has a solution.
Solves(f, m, b, g) == f[0] = b /\ \A n \in 1 .. m : f[n] = g[<<n, f[n - 1]>>]

LEMMA Iterates ==
    ASSUME NEW N \in Nat, NEW X, NEW b \in X, NEW g \in [(1 .. N) \X X -> X]
    PROVE  \E f \in [0 .. N -> X] : Solves(f, N, b, g)
  <1> DEFINE S == {m \in 0 .. N : \E f \in [0 .. m -> X] : Solves(f, m, b, g)}
  <1>1. 0 \in S
    <2> DEFINE h == [k \in 0 .. 0 |-> b]
    <2>1. h \in [0 .. 0 -> X] /\ Solves(h, 0, b, g) /\ 0 \in 0 .. N
      BY DEF Solves
    <2> HIDE DEF h
    <2>2. QED BY <2>1
  <1>2. ASSUME NEW m \in 0 .. N - 1, m \in S PROVE m + 1 \in S
    <2>1. PICK f \in [0 .. m -> X] : Solves(f, m, b, g)
      BY <1>2
    <2> DEFINE h == [k \in 0 .. m + 1 |-> IF k = m + 1 THEN g[<<m + 1, f[m]>>] ELSE f[k]]
    <2>2. f[m] \in X /\ <<m + 1, f[m]>> \in (1 .. N) \X X
      OBVIOUS
    <2>3. h \in [0 .. m + 1 -> X]
      BY <2>2
    <2>4. h[0] = b
      BY <2>1 DEF Solves
    <2>5. ASSUME NEW n \in 1 .. m + 1 PROVE h[n] = g[<<n, h[n - 1]>>]
      <3>1. CASE n = m + 1
        <4>1. h[m + 1] = g[<<m + 1, f[m]>>] /\ h[m] = f[m]
          OBVIOUS
        <4>2. n - 1 = m
          BY <3>1
        <4>3. QED BY <3>1, <4>1, <4>2
      <3>2. CASE n # m + 1
        <4>1. n \in 1 .. m /\ n - 1 \in 0 .. m
          BY <3>2
        <4>2. h[n] = f[n] /\ h[n - 1] = f[n - 1]
          BY <4>1
        <4>3. QED BY <2>1, <4>1, <4>2 DEF Solves
      <3>3. QED BY <3>1, <3>2
    <2>6. Solves(h, m + 1, b, g)
      BY <2>4, <2>5 DEF Solves
    <2>7. m + 1 \in 0 .. N
      OBVIOUS
    <2> HIDE DEF h
    <2>8. QED BY <2>3, <2>6, <2>7
  <1>3. N \in S
    <2> HIDE DEF S
    <2>1. \A n \in 0 .. N : n \in S
      BY <1>1, <1>2, UpTo
    <2>2. QED BY <2>1
  <1>4. QED BY <1>3

-----------------------------------------------------------------------------
(* Addresses *)

LEMMA PowerPositive == ASSUME NEW w \in Nat PROVE Power(w) \in Nat \ {0}
  <1> DEFINE P == Nat \ {0}
             D == 0 .. w
             p[n \in D] == IF n = 0 THEN 1 ELSE 2 * p[n - 1]
             g == [x \in (1 .. w) \X P |-> 2 * x[2]]
  <1>1. \E f : f = [n \in D |-> IF n = 0 THEN 1 ELSE 2 * f[n - 1]]
    <2>1. g \in [(1 .. w) \X P -> P]
      OBVIOUS
    <2>2. PICK f \in [0 .. w -> P] : Solves(f, w, 1, g)
      <3>1. 1 \in P
        OBVIOUS
      <3> HIDE DEF g, P
      <3>2. QED BY <2>1, <3>1, Iterates
    <2>3. f[0] = 1 /\ \A n \in 1 .. w : f[n] = 2 * f[n - 1]
      <3>1. \A n \in 1 .. w : f[n - 1] \in P
        OBVIOUS
      <3>2. \A n \in 1 .. w : g[<<n, f[n - 1]>>] = 2 * f[n - 1]
        BY <3>1
      <3> HIDE DEF g, P
      <3>3. QED BY <2>2, <3>2 DEF Solves
    <2>4. f = [n \in D |-> IF n = 0 THEN 1 ELSE 2 * f[n - 1]]
      BY <2>3
    <2>5. QED BY <2>4
  <1>2. p = [n \in D |-> IF n = 0 THEN 1 ELSE 2 * p[n - 1]]
    BY <1>1
  <1>3. Power(w) = p[w]
    BY DEF Power
  <1> DEFINE S == {n \in D : p[n] \in P}
  <1>4. 0 \in S /\ \A n \in 0 .. w - 1 : n \in S => n + 1 \in S
    <2> HIDE DEF p
    <2>1. p[0] = 1 /\ \A n \in 0 .. w - 1 : p[n + 1] = 2 * p[n]
      BY <1>2
    <2>2. QED BY <2>1
  <1> HIDE DEF S
  <1>5. w \in S
    BY <1>4, UpTo
  <1>6. QED BY <1>3, <1>5 DEF S

LEMMA Wraps == ASSUME NEW x \in Nat, NEW s \in Nat, x < s PROVE x % s = x
  OBVIOUS

-----------------------------------------------------------------------------
(* Sorting *)

\* Among finitely many ranges one starts last.
LEMMA StartsLast ==
    ASSUME NEW T, T # {}, NEW s \in Nat, \A r \in T : r.start \in 0 .. s - 1
    PROVE  \E m \in T : \A r \in T : r.start <= m.start
  <1> DEFINE Gaps == {s - r.start : r \in T}
  <1>1. Gaps \in SUBSET Nat /\ Gaps # {}
    OBVIOUS
  <1>2. PICK g \in Gaps : \A h \in Gaps : g <= h
    <2> HIDE DEF Gaps
    <2>1. QED BY <1>1, LeastOf
  <1>3. PICK m \in T : g = s - m.start
    BY <1>2
  <1>4. ASSUME NEW r \in T PROVE r.start <= m.start
    <2>1. s - m.start <= s - r.start
      BY <1>2, <1>3
    <2>2. QED BY <2>1
  <1>5. QED BY <1>4

\* t holds the n ranges of T, by their start.
Sorts(t, T, n) ==
    /\ t \in [1 .. n -> T]
    /\ \A i, j \in 1 .. n : i < j => t[i].start <= t[j].start
    /\ \A r \in T : \E i \in 1 .. n : t[i] = r

LEMMA SortedSorts ==
    ASSUME NEW R, IsFiniteSet(R), NEW s \in Nat, \A r \in R : r.start \in 0 .. s - 1
    PROVE  Cardinality(R) \in Nat /\ Sorts(Sorted(R), R, Cardinality(R))
  <1> DEFINE N == Cardinality(R)
             S == {n \in 0 .. N : \A T \in SUBSET R :
                      Cardinality(T) = n => \E t : Sorts(t, T, n)}
  <1>1. N \in Nat
    BY FS_CardinalityType
  <1>2. 0 \in S
    <2>1. ASSUME NEW T \in SUBSET R, Cardinality(T) = 0 PROVE \E t : Sorts(t, T, 0)
      <3>1. T = {}
        BY <2>1, FS_Subset, FS_EmptySet
      <3>2. Sorts(<<>>, T, 0)
        BY <3>1 DEF Sorts
      <3>3. QED BY <3>2
    <2>2. QED BY <1>1, <2>1
  <1>3. ASSUME NEW n \in 0 .. N - 1, n \in S PROVE n + 1 \in S
    <2>1. ASSUME NEW T \in SUBSET R, Cardinality(T) = n + 1 PROVE \E t : Sorts(t, T, n + 1)
      <3>1. IsFiniteSet(T) /\ T # {}
        BY <1>1, <2>1, FS_Subset, FS_EmptySet
      <3>2. PICK m \in T : \A r \in T : r.start <= m.start
        BY <3>1, StartsLast
      <3> DEFINE U == T \ {m}
      <3>3. U \in SUBSET R /\ Cardinality(U) = n
        <4>1. Cardinality(T \ {m}) = IF m \in T THEN Cardinality(T) - 1 ELSE Cardinality(T)
          BY <3>1, FS_RemoveElement
        <4>2. QED BY <1>1, <2>1, <3>2, <4>1
      <3>4. PICK u : Sorts(u, U, n)
        BY <1>3, <3>3
      <3> DEFINE t == [i \in 1 .. n + 1 |-> IF i = n + 1 THEN m ELSE u[i]]
      <3>5. \A i \in 1 .. n : u[i] \in U
        BY <3>4 DEF Sorts
      <3>6. \A i \in 1 .. n + 1 : i # n + 1 => i \in 1 .. n
        OBVIOUS
      <3>7. t \in [1 .. n + 1 -> T]
        BY <3>5, <3>6
      <3>8. ASSUME NEW i \in 1 .. n + 1, NEW j \in 1 .. n + 1, i < j
            PROVE  t[i].start <= t[j].start
        <4>1. i \in 1 .. n /\ t[i] = u[i] /\ u[i] \in T
          BY <3>5, <3>8
        <4>2. CASE j = n + 1
          BY <3>2, <4>1, <4>2
        <4>3. CASE j # n + 1
          BY <3>4, <3>6, <3>8, <4>1, <4>3 DEF Sorts
        <4>4. QED BY <4>2, <4>3
      <3>9. ASSUME NEW r \in T PROVE \E i \in 1 .. n + 1 : t[i] = r
        <4>1. CASE r = m
          <5>1. n + 1 \in 1 .. n + 1 /\ t[n + 1] = m
            OBVIOUS
          <5>2. QED BY <4>1, <5>1
        <4>2. CASE r # m
          <5>1. PICK i \in 1 .. n : u[i] = r
            BY <3>4, <4>2 DEF Sorts
          <5>2. i \in 1 .. n + 1 /\ t[i] = r
            BY <5>1
          <5>3. QED BY <5>2
        <4>3. QED BY <4>1, <4>2
      <3> HIDE DEF t
      <3>10. Sorts(t, T, n + 1)
        BY <3>7, <3>8, <3>9 DEF Sorts
      <3>11. QED BY <3>10
    <2>2. n + 1 \in 0 .. N
      BY <1>1
    <2>3. QED BY <2>1, <2>2
  <1>4. \E t : Sorts(t, R, N)
    <2> HIDE DEF S
    <2>1. N \in S
      BY <1>1, <1>2, <1>3, UpTo
    <2>2. QED BY <2>1 DEF S
  <1>5. \A t \in [1 .. N -> R] : DOMAIN t = 1 .. N
    OBVIOUS
  <1>6. PICK t \in [1 .. N -> R] :
            /\ \A i, j \in DOMAIN t : i < j => t[i].start <= t[j].start
            /\ \A r \in R : \E i \in DOMAIN t : t[i] = r
    BY <1>4, <1>5 DEF Sorts
  <1>7. /\ Sorted(R) \in [1 .. N -> R]
        /\ \A i, j \in DOMAIN Sorted(R) : i < j => Sorted(R)[i].start <= Sorted(R)[j].start
        /\ \A r \in R : \E i \in DOMAIN Sorted(R) : Sorted(R)[i] = r
    BY <1>6 DEF Sorted
  <1>8. QED BY <1>1, <1>5, <1>7 DEF Sorts

-----------------------------------------------------------------------------
(* Merging *)

RangeType == [start : Nat, end : Nat, cc : STRING]
Between(r, a) == r.start <= a /\ a <= r.end
Proper(r, s) == r \in RangeType /\ r.start <= r.end /\ r.end + 1 < s
\* No address has two countries.
Apart(R) == \A p, q \in R : \A a \in Nat : Between(p, a) /\ Between(q, a) => p.cc = q.cc

LEMMA SequenceOf == ASSUME NEW n \in Nat, NEW R, NEW t \in [1 .. n -> R] PROVE t \in Seq(R) /\ Len(t) = n
  OBVIOUS

LEMMA Lengthened ==
    ASSUME NEW S, NEW out \in Seq(S), NEW r \in S
    PROVE  /\ Append(out, r) \in Seq(S) /\ Len(out) \in Nat
           /\ Len(Append(out, r)) = Len(out) + 1
           /\ Append(out, r)[Len(out) + 1] = r
           /\ \A i \in 1 .. Len(out) : Append(out, r)[i] = out[i]
  BY LenProperties

\* The first n ranges of t are merged into out: disjoint ranges that ascend and
\* cover, country by country, the addresses that those cover.
MergedSoFar(out, t, n, s) ==
    /\ out \in Seq(RangeType)
    /\ \A i \in 1 .. Len(out) : Proper(out[i], s)
    /\ \A i, j \in 1 .. Len(out) : i < j => out[i].end < out[j].start
    /\ n = 0 => out = <<>>
    /\ n > 0 => out # <<>> /\ out[Len(out)].start <= t[n].start
    /\ \A i \in 1 .. Len(out) : \A a \in Nat : Between(out[i], a) =>
           \E k \in 1 .. n : Between(t[k], a) /\ t[k].cc = out[i].cc
    /\ \A k \in 1 .. n : \A a \in Nat : Between(t[k], a) =>
           \E i \in 1 .. Len(out) : Between(out[i], a) /\ out[i].cc = t[k].cc

LEMMA ExtendedRange ==
    ASSUME NEW typ, NEW s \in Nat, s = Space(typ), NEW last, Proper(last, s), NEW r, Proper(r, s),
           Absorbs(typ, last, r), last.start <= r.start
    PROVE  /\ Proper(Extended(last, r), s)
           /\ Extended(last, r).start = last.start /\ Extended(last, r).cc = last.cc
           /\ Extended(last, r).end >= last.end
           /\ r.cc = last.cc
           /\ \A a \in Nat : Between(Extended(last, r), a) <=> Between(last, a) \/ Between(r, a)
  <1>1. last.end \in Nat /\ last.start \in Nat /\ r.start \in Nat /\ r.end \in Nat
    BY DEF Proper, RangeType
  <1>2. r.start <= last.end + 1 /\ r.cc = last.cc
    BY <1>1, Wraps DEF Absorbs, Proper
  <1>3. /\ Extended(last, r).start = last.start /\ Extended(last, r).cc = last.cc
        /\ Extended(last, r).end = IF r.end > last.end THEN r.end ELSE last.end
        /\ Extended(last, r) \in RangeType
    BY <1>1 DEF Extended, Proper, RangeType
  <1>4. Proper(Extended(last, r), s)
    BY <1>1, <1>3 DEF Proper
  <1>5. QED BY <1>1, <1>2, <1>3, <1>4 DEF Between, Proper

LEMMA MergedType ==
    ASSUME NEW typ, NEW out \in Seq(RangeType), NEW r \in RangeType
    PROVE  Merged(typ, out, r) \in Seq(RangeType)
  <1>1. ASSUME out # <<>> PROVE [out EXCEPT ![Len(out)] = Extended(@, r)] \in Seq(RangeType)
    <2>1. Len(out) \in 1 .. Len(out) /\ out[Len(out)] \in RangeType
      BY <1>1, LenProperties, EmptySeq, ElementOfSeq
    <2>2. Extended(out[Len(out)], r) \in RangeType
      BY <2>1 DEF Extended, RangeType
    <2>3. QED BY <2>1, <2>2, ExceptSeq
  <1>2. QED BY <1>1, Lengthened DEF Merged

LEMMA MergeStep ==
    ASSUME NEW typ, NEW s \in Nat, s = Space(typ), NEW N \in Nat, NEW R, Apart(R),
           \A r \in R : Proper(r, s), NEW t, Sorts(t, R, N),
           NEW n \in 0 .. N - 1, NEW out, MergedSoFar(out, t, n, s)
    PROVE  MergedSoFar(Merged(typ, out, t[n + 1]), t, n + 1, s)
  <1> DEFINE r == t[n + 1]
             l == Len(out)
             last == out[l]
  <1>1. /\ r \in R /\ Proper(r, s) /\ r \in RangeType
        /\ \A k \in 1 .. n : k \in 1 .. N /\ t[k] \in R /\ Proper(t[k], s)
        /\ n > 0 => t[n].start <= r.start
    BY DEF Sorts, Proper
  <1>2. /\ out \in Seq(RangeType) /\ l \in Nat
        /\ \A i \in 1 .. l : Proper(out[i], s)
        /\ \A i, j \in 1 .. l : i < j => out[i].end < out[j].start
    BY LenProperties DEF MergedSoFar
  <1>3. ASSUME out # <<>> PROVE l \in 1 .. l /\ Proper(last, s) /\ last.start <= r.start
    <2>1. l \in 1 .. l /\ Proper(last, s)
      BY <1>2, <1>3, EmptySeq
    <2>2. n > 0 /\ last.start <= t[n].start
      BY <1>3 DEF MergedSoFar
    <2>3. last.start \in Nat /\ t[n].start \in Nat /\ r.start \in Nat /\ t[n].start <= r.start
      BY <1>1, <2>1, <2>2 DEF Proper, RangeType
    <2>4. QED BY <2>1, <2>2, <2>3
  <1>4. CASE out # <<>> /\ Absorbs(typ, last, r)
    <2> DEFINE e == Extended(last, r)
               new == [out EXCEPT ![l] = e]
    <2>1. /\ Proper(e, s) /\ e.start = last.start /\ e.cc = last.cc /\ r.cc = last.cc
          /\ e.end >= last.end
          /\ \A a \in Nat : Between(e, a) <=> Between(last, a) \/ Between(r, a)
      BY <1>1, <1>3, <1>4, ExtendedRange
    <2> HIDE DEF e
    <2>2. /\ new \in Seq(RangeType) /\ Len(new) = l
          /\ new[l] = e /\ \A i \in 1 .. l : i # l => new[i] = out[i]
      BY <1>2, <1>3, <1>4, <2>1, ExceptSeq DEF Proper
    <2>3. Merged(typ, out, r) = new
      BY <1>4 DEF Merged, e
    <2> HIDE DEF new
    <2>4. \A i \in 1 .. l : Proper(new[i], s)
      BY <1>2, <2>1, <2>2
    <2>5. ASSUME NEW i \in 1 .. l, NEW j \in 1 .. l, i < j PROVE new[i].end < new[j].start
      BY <1>2, <2>1, <2>2, <2>5
    <2>6. new # <<>> /\ new[Len(new)].start <= r.start
      BY <1>3, <1>4, <2>1, <2>2
    <2>7. ASSUME NEW i \in 1 .. l, NEW a \in Nat, Between(new[i], a)
          PROVE  \E k \in 1 .. n + 1 : Between(t[k], a) /\ t[k].cc = new[i].cc
      <3>1. CASE Between(out[i], a) /\ new[i].cc = out[i].cc
        <4>1. PICK k \in 1 .. n : Between(t[k], a) /\ t[k].cc = out[i].cc
          BY <3>1 DEF MergedSoFar
        <4>2. QED BY <3>1, <4>1
      <3>2. CASE i = l /\ Between(r, a)
        BY <2>1, <2>2, <3>2
      <3>3. QED BY <2>1, <2>2, <2>7, <3>1, <3>2
    <2>8. ASSUME NEW k \in 1 .. n + 1, NEW a \in Nat, Between(t[k], a)
          PROVE  \E i \in 1 .. l : Between(new[i], a) /\ new[i].cc = t[k].cc
      <3>1. CASE k = n + 1
        BY <1>3, <1>4, <2>1, <2>2, <2>8, <3>1
      <3>2. CASE k \in 1 .. n
        <4>1. PICK i \in 1 .. l : Between(out[i], a) /\ out[i].cc = t[k].cc
          BY <2>8, <3>2 DEF MergedSoFar
        <4>2. Between(new[i], a) /\ new[i].cc = t[k].cc
          BY <2>1, <2>2, <4>1
        <4>3. QED BY <4>2
      <3>3. QED BY <3>1, <3>2
    <2>9. QED BY <2>2, <2>3, <2>4, <2>5, <2>6, <2>7, <2>8 DEF MergedSoFar
  <1>5. CASE ~(out # <<>> /\ Absorbs(typ, last, r))
    <2> DEFINE new == Append(out, r)
    <2>1. /\ new \in Seq(RangeType) /\ Len(new) = l + 1 /\ new[l + 1] = r
          /\ \A i \in 1 .. l : new[i] = out[i]
      BY <1>1, <1>2, Lengthened
    <2>2. Merged(typ, out, r) = new
      BY <1>5 DEF Merged
    <2> HIDE DEF new
    <2>3. ASSUME out # <<>> PROVE last.end < r.start
      <3>1. /\ last.start \in Nat /\ last.end \in Nat /\ r.start \in Nat /\ r.end \in Nat
            /\ last.end + 1 < s /\ r.start <= r.end /\ last.start <= r.start
        BY <1>1, <1>3, <2>3 DEF Proper, RangeType
      <3>2. CASE r.cc = last.cc
        BY <1>5, <2>3, <3>1, <3>2, Wraps DEF Absorbs
      <3>3. CASE r.cc # last.cc
        <4>1. SUFFICES ASSUME Between(last, r.start) PROVE FALSE
          BY <3>1 DEF Between
        <4>2. PICK k \in 1 .. n : Between(t[k], r.start) /\ t[k].cc = last.cc
          BY <1>3, <2>3, <3>1, <4>1 DEF MergedSoFar
        <4>3. Between(r, r.start)
          BY <3>1 DEF Between
        <4>4. QED BY <1>1, <3>1, <3>3, <4>2, <4>3 DEF Apart
      <3>4. QED BY <3>2, <3>3
    <2>4. \A i \in 1 .. l + 1 : Proper(new[i], s)
      BY <1>1, <1>2, <2>1
    <2>5. ASSUME NEW i \in 1 .. l + 1, NEW j \in 1 .. l + 1, i < j PROVE new[i].end < new[j].start
      <3>1. i \in 1 .. l /\ new[i] = out[i]
        BY <1>2, <2>1, <2>5
      <3>2. CASE j \in 1 .. l
        BY <1>2, <2>1, <2>5, <3>1, <3>2
      <3>3. CASE j = l + 1
        <4>1. out # <<>>
          BY <1>2, <3>1, EmptySeq
        <4>2. CASE i = l
          BY <2>1, <2>3, <3>1, <3>3, <4>1, <4>2
        <4>3. CASE i < l
          <5>1. out[i].end < last.start /\ last.start <= r.start
            BY <1>2, <1>3, <3>1, <4>1, <4>3
          <5>2. Proper(out[i], s) /\ Proper(last, s) /\ Proper(r, s)
            BY <1>1, <1>2, <1>3, <3>1, <4>1
          <5>3. out[i].end \in Nat /\ last.start \in Nat /\ r.start \in Nat
            BY <5>2 DEF Proper, RangeType
          <5>4. QED BY <2>1, <3>1, <3>3, <5>1, <5>3
        <4>4. QED BY <1>2, <3>1, <4>2, <4>3
      <3>4. QED BY <1>2, <3>2, <3>3
    <2>6. new # <<>> /\ new[Len(new)].start <= r.start
      <3>1. r.start \in Nat
        BY <1>1 DEF RangeType
      <3>2. QED BY <1>2, <2>1, <3>1, EmptySeq
    <2>7. ASSUME NEW i \in 1 .. l + 1, NEW a \in Nat, Between(new[i], a)
          PROVE  \E k \in 1 .. n + 1 : Between(t[k], a) /\ t[k].cc = new[i].cc
      <3>1. CASE i = l + 1
        BY <2>1, <2>7, <3>1
      <3>2. CASE i \in 1 .. l
        <4>1. PICK k \in 1 .. n : Between(t[k], a) /\ t[k].cc = out[i].cc
          BY <2>1, <2>7, <3>2 DEF MergedSoFar
        <4>2. QED BY <2>1, <3>2, <4>1
      <3>3. i = l + 1 \/ i \in 1 .. l
        <4>1. l \in Nat
          BY <1>2
        <4> HIDE DEF l
        <4>2. QED BY <4>1
      <3>4. QED BY <3>1, <3>2, <3>3
    <2>8. ASSUME NEW k \in 1 .. n + 1, NEW a \in Nat, Between(t[k], a)
          PROVE  \E i \in 1 .. l + 1 : Between(new[i], a) /\ new[i].cc = t[k].cc
      <3>1. CASE k = n + 1
        BY <1>2, <2>1, <2>8, <3>1
      <3>2. CASE k \in 1 .. n
        <4>1. PICK i \in 1 .. l : Between(out[i], a) /\ out[i].cc = t[k].cc
          BY <2>8, <3>2 DEF MergedSoFar
        <4>2. i \in 1 .. l + 1 /\ new[i] = out[i]
          BY <1>2, <2>1
        <4>3. QED BY <4>1, <4>2
      <3>3. QED BY <3>1, <3>2
    <2>9. QED BY <2>1, <2>2, <2>4, <2>5, <2>6, <2>7, <2>8 DEF MergedSoFar
  <1>6. QED BY <1>4, <1>5

LEMMA MergeMerges ==
    ASSUME NEW typ, NEW s \in Nat, s = Space(typ), NEW N \in Nat, NEW R, Apart(R),
           \A r \in R : Proper(r, s), NEW t, Sorts(t, R, N)
    PROVE  MergedSoFar(Merge(typ, t), t, N, s)
  <1> DEFINE X == Seq(RangeType)
             D == 0 .. N
             g == [x \in (1 .. N) \X X |-> Merged(typ, x[2], t[x[1]])]
             out[n \in D] == IF n = 0 THEN <<>> ELSE Merged(typ, out[n - 1], t[n])
  <1>1. t \in [1 .. N -> R] /\ Len(t) = N
    BY SequenceOf DEF Sorts
  <1>2. \A n \in 1 .. N : t[n] \in RangeType
    BY <1>1 DEF Proper
  <1>3. \E f : f = [n \in D |-> IF n = 0 THEN <<>> ELSE Merged(typ, f[n - 1], t[n])]
    <2>1. g \in [(1 .. N) \X X -> X]
      BY <1>2, MergedType
    <2>2. <<>> \in X
      OBVIOUS
    <2>3. PICK f \in [0 .. N -> X] : Solves(f, N, <<>>, g)
      <3> HIDE DEF g, X
      <3>1. QED BY <2>1, <2>2, Iterates
    <2>4. f[0] = <<>> /\ \A n \in 1 .. N : f[n] = Merged(typ, f[n - 1], t[n])
      <3>1. \A n \in 1 .. N : f[n - 1] \in X
        OBVIOUS
      <3>2. \A n \in 1 .. N : g[<<n, f[n - 1]>>] = Merged(typ, f[n - 1], t[n])
        BY <3>1
      <3> HIDE DEF g, X
      <3>3. QED BY <2>3, <3>2 DEF Solves
    <2>5. f = [n \in D |-> IF n = 0 THEN <<>> ELSE Merged(typ, f[n - 1], t[n])]
      BY <2>4
    <2>6. QED BY <2>5
  <1>4. out = [n \in D |-> IF n = 0 THEN <<>> ELSE Merged(typ, out[n - 1], t[n])]
    BY <1>3
  <1>5. Merge(typ, t) = out[N]
    BY <1>1 DEF Merge
  <1> DEFINE S == {n \in D : MergedSoFar(out[n], t, n, s)}
  <1> HIDE DEF out
  <1>6. out[0] = <<>> /\ \A n \in 0 .. N - 1 : out[n + 1] = Merged(typ, out[n], t[n + 1])
    BY <1>4
  <1>7. 0 \in S
    <2>1. MergedSoFar(<<>>, t, 0, s)
      BY DEF MergedSoFar
    <2>2. QED BY <1>6, <2>1
  <1>8. ASSUME NEW n \in 0 .. N - 1, n \in S PROVE n + 1 \in S
    <2>1. MergedSoFar(Merged(typ, out[n], t[n + 1]), t, n + 1, s)
      BY <1>8, MergeStep
    <2>2. QED BY <1>6, <2>1
  <1>9. N \in S
    <2> HIDE DEF S
    <2>1. QED BY <1>7, <1>8, UpTo
  <1>10. QED BY <1>5, <1>9

-----------------------------------------------------------------------------
(* The codes of the countries *)

Knows(codes, cc) == \E k \in 1 .. Len(codes) : codes[k] = cc

LEMMA InternedKnows ==
    ASSUME NEW T, NEW codes \in Seq(T), NEW cc \in T
    PROVE  /\ Interned(codes, cc) \in Seq(T)
           /\ Knows(Interned(codes, cc), cc)
           /\ \A c : Knows(codes, c) => Knows(Interned(codes, cc), c)
  <1>1. DOMAIN codes = 1 .. Len(codes)
    BY LenProperties
  <1>2. CASE Knows(codes, cc)
    BY <1>1, <1>2 DEF Interned, Knows
  <1>3. CASE ~Knows(codes, cc)
    <2> DEFINE new == Append(codes, cc)
    <2>1. Interned(codes, cc) = new
      BY <1>1, <1>3 DEF Interned, Knows
    <2>2. /\ new \in Seq(T) /\ Len(codes) \in Nat /\ Len(new) = Len(codes) + 1
          /\ new[Len(codes) + 1] = cc /\ \A i \in 1 .. Len(codes) : new[i] = codes[i]
      BY Lengthened
    <2> HIDE DEF new
    <2>3. \A i \in 1 .. Len(codes) : i \in 1 .. Len(new)
      BY <2>2
    <2>4. Len(codes) + 1 \in 1 .. Len(new)
      BY <2>2
    <2>5. QED BY <2>1, <2>2, <2>3, <2>4 DEF Knows
  <1>4. QED BY <1>2, <1>3

LEMMA InternKnows ==
    ASSUME NEW T, NEW codes \in Seq(T), NEW t, Len(t) \in Nat, \A i \in 1 .. Len(t) : t[i].cc \in T
    PROVE  /\ Intern(codes, t) \in Seq(T)
           /\ \A c : Knows(codes, c) => Knows(Intern(codes, t), c)
           /\ \A i \in 1 .. Len(t) : Knows(Intern(codes, t), t[i].cc)
  <1> DEFINE X == Seq(T)
             N == Len(t)
             D == 0 .. N
             g == [x \in (1 .. N) \X X |-> Interned(x[2], t[x[1]].cc)]
             known[n \in D] == IF n = 0 THEN codes ELSE Interned(known[n - 1], t[n].cc)
  <1>1. N \in Nat
    OBVIOUS
  <1>2. \A n \in 1 .. N : t[n].cc \in T
    OBVIOUS
  <1>3. \E f : f = [n \in D |-> IF n = 0 THEN codes ELSE Interned(f[n - 1], t[n].cc)]
    <2>1. g \in [(1 .. N) \X X -> X]
      BY <1>2, InternedKnows
    <2>2. PICK f \in [0 .. N -> X] : Solves(f, N, codes, g)
      <3> HIDE DEF g, N
      <3>1. QED BY <1>1, <2>1, Iterates
    <2>3. f[0] = codes /\ \A n \in 1 .. N : f[n] = Interned(f[n - 1], t[n].cc)
      <3>1. \A n \in 1 .. N : f[n - 1] \in X
        BY <1>1
      <3>2. \A n \in 1 .. N : g[<<n, f[n - 1]>>] = Interned(f[n - 1], t[n].cc)
        BY <3>1
      <3> HIDE DEF g, X
      <3>3. QED BY <2>2, <3>2 DEF Solves
    <2>4. f = [n \in D |-> IF n = 0 THEN codes ELSE Interned(f[n - 1], t[n].cc)]
      BY <1>1, <2>3
    <2>5. QED BY <2>4
  <1>4. known = [n \in D |-> IF n = 0 THEN codes ELSE Interned(known[n - 1], t[n].cc)]
    BY <1>3
  <1>5. Intern(codes, t) = known[N]
    BY DEF Intern
  <1> DEFINE Done(k, n) == /\ k \in X
                           /\ \A c : Knows(codes, c) => Knows(k, c)
                           /\ \A i \in 1 .. n : Knows(k, t[i].cc)
             S == {n \in D : Done(known[n], n)}
  <1> HIDE DEF known
  <1>6. known[0] = codes /\ \A n \in 0 .. N - 1 : known[n + 1] = Interned(known[n], t[n + 1].cc)
    BY <1>1, <1>4
  <1>7. 0 \in S
    BY <1>1, <1>6
  <1>8. ASSUME NEW n \in 0 .. N - 1, n \in S PROVE n + 1 \in S
    <2>1. n + 1 \in 1 .. N /\ t[n + 1].cc \in T
      BY <1>1, <1>2
    <2>2. Done(known[n], n)
      BY <1>8
    <2>3. /\ Interned(known[n], t[n + 1].cc) \in X
          /\ Knows(Interned(known[n], t[n + 1].cc), t[n + 1].cc)
          /\ \A c : Knows(known[n], c) => Knows(Interned(known[n], t[n + 1].cc), c)
      BY <2>1, <2>2, InternedKnows
    <2>4. \A i \in 1 .. n + 1 : i \in 1 .. n \/ i = n + 1
      OBVIOUS
    <2>5. Done(Interned(known[n], t[n + 1].cc), n + 1)
      BY <2>2, <2>3, <2>4
    <2>6. QED BY <1>1, <1>6, <2>5
  <1>9. N \in S
    <2> HIDE DEF S, N
    <2>1. \A n \in 0 .. N : n \in S
      BY <1>1, <1>7, <1>8, UpTo
    <2>2. QED BY <1>1, <2>1
  <1>10. QED BY <1>5, <1>9

-----------------------------------------------------------------------------
(* The binary search *)

\* The ends of the ranges ascend.
Ascends(t) == \A i, j \in DOMAIN t : t[i].end \in Int /\ (i < j => t[i].end < t[j].end)

\* k is where the first of the ranges i + 1 .. j is that ends at or after a, or j.
FirstAt(t, a, i, j, k) ==
    /\ k \in i .. j
    /\ \A m \in i + 1 .. k : t[m].end < a
    /\ k < j => t[k + 1].end >= a

Halved(t, a, f, x) ==
    LET h == (x[1] + x[2]) \div 2
    IN  IF x[1] >= x[2] THEN x[1]
        ELSE IF t[h + 1].end >= a THEN f[<<x[1], h>>] ELSE f[<<h + 1, x[2]>>]

LEMMA Halves ==
    ASSUME NEW i \in Nat, NEW j \in Nat, i < j
    PROVE  (i + j) \div 2 \in i .. j - 1 /\ (i + j) \div 2 + 1 \in i + 1 .. j
  OBVIOUS

\* There is one such place.
LEMMA FirstExists ==
    ASSUME NEW n \in Nat, NEW t, DOMAIN t = 1 .. n, Ascends(t), NEW a \in Int,
           NEW i \in 0 .. n, NEW j \in i .. n
    PROVE  \E k \in i .. j : FirstAt(t, a, i, j, k)
  <1> DEFINE S == {k \in i .. j : k = j \/ t[k + 1].end >= a}
  <1>1. S \in SUBSET Nat /\ j \in S
    OBVIOUS
  <1>2. PICK k \in S : \A m \in S : k <= m
    <2> HIDE DEF S
    <2>1. QED BY <1>1, LeastOf
  <1>3. ASSUME NEW m \in i + 1 .. k PROVE t[m].end < a
    <2>1. m - 1 \in i .. j /\ ~(k <= m - 1) /\ m - 1 # j /\ m \in DOMAIN t /\ (m - 1) + 1 = m
      BY <1>2
    <2>2. m - 1 \notin S
      BY <1>2, <2>1
    <2>3. ~(t[(m - 1) + 1].end >= a)
      BY <2>1, <2>2
    <2>4. QED BY <2>1, <2>3 DEF Ascends
  <1>4. QED BY <1>2, <1>3 DEF FirstAt

LEMMA FirstUnique ==
    ASSUME NEW n \in Nat, NEW t, DOMAIN t = 1 .. n, Ascends(t), NEW a \in Int,
           NEW i \in 0 .. n, NEW j \in i .. n, NEW k, FirstAt(t, a, i, j, k),
           NEW m, FirstAt(t, a, i, j, m)
    PROVE  k = m
  <1>1. k \in i .. j /\ m \in i .. j
    BY DEF FirstAt
  <1>2. CASE k < m
    <2>1. k + 1 \in i + 1 .. m /\ k < j /\ k + 1 \in DOMAIN t
      BY <1>1, <1>2
    <2>2. t[k + 1].end < a /\ t[k + 1].end >= a /\ t[k + 1].end \in Int
      BY <2>1 DEF FirstAt, Ascends
    <2>3. QED BY <2>2
  <1>3. CASE m < k
    <2>1. m + 1 \in i + 1 .. k /\ m < j /\ m + 1 \in DOMAIN t
      BY <1>1, <1>3
    <2>2. t[m + 1].end < a /\ t[m + 1].end >= a /\ t[m + 1].end \in Int
      BY <2>1 DEF FirstAt, Ascends
    <2>3. QED BY <2>2
  <1>4. QED BY <1>1, <1>2, <1>3

\* What is found in the half that is searched is what is looked for.
LEMMA FirstOfHalf ==
    ASSUME NEW n \in Nat, NEW t, DOMAIN t = 1 .. n, Ascends(t), NEW a \in Int,
           NEW i \in 0 .. n, NEW j \in i .. n, i < j, NEW h \in i .. j - 1, NEW k,
           IF t[h + 1].end >= a THEN FirstAt(t, a, i, h, k) ELSE FirstAt(t, a, h + 1, j, k)
    PROVE  FirstAt(t, a, i, j, k)
  <1>0. h + 1 \in DOMAIN t /\ t[h + 1].end \in Int
    BY DEF Ascends
  <1>1. CASE t[h + 1].end >= a
    <2>1. FirstAt(t, a, i, h, k) /\ k \in i .. h
      BY <1>1 DEF FirstAt
    <2>2. CASE k = h
      BY <1>1, <2>1, <2>2 DEF FirstAt
    <2>3. CASE k # h
      BY <2>1, <2>3 DEF FirstAt
    <2>4. QED BY <2>2, <2>3
  <1>2. CASE ~(t[h + 1].end >= a)
    <2>1. FirstAt(t, a, h + 1, j, k) /\ k \in h + 1 .. j
      BY <1>2 DEF FirstAt
    <2>2. ASSUME NEW m \in i + 1 .. k PROVE t[m].end < a
      <3>1. CASE m \in h + 2 .. k
        BY <2>1, <3>1 DEF FirstAt
      <3>2. CASE m <= h + 1
        <4>1. m \in DOMAIN t /\ t[m].end \in Int /\ (m < h + 1 => t[m].end < t[h + 1].end)
          BY <1>0, <2>1, <3>2 DEF Ascends
        <4>2. QED BY <1>0, <1>2, <3>2, <4>1
      <3>3. QED BY <2>1, <3>1, <3>2
    <2>3. QED BY <2>1, <2>2 DEF FirstAt
  <1>3. QED BY <1>1, <1>2

LEMMA SearchFinds ==
    ASSUME NEW t, Len(t) \in Nat, DOMAIN t = 1 .. Len(t), Ascends(t), NEW a \in Int
    PROVE  Search(t, a) \in Int /\ FirstAt(t, a, 0, Len(t), Search(t, a) - 1)
  <1> DEFINE n == Len(t)
             D == (0 .. n) \X (0 .. n)
             Step(f, x) == LET i == x[1]
                               j == x[2]
                               h == (i + j) \div 2
                           IN  IF i >= j THEN i
                               ELSE IF t[h + 1].end >= a THEN f[<<i, h>>] ELSE f[<<h + 1, j>>]
             find[x \in D] == LET i == x[1]
                                  j == x[2]
                                  h == (i + j) \div 2
                              IN  IF i >= j THEN i
                                  ELSE IF t[h + 1].end >= a THEN find[<<i, h>>] ELSE find[<<h + 1, j>>]
             w == [x \in D |-> IF x[1] >= x[2] THEN x[1]
                               ELSE CHOOSE k \in x[1] .. x[2] : FirstAt(t, a, x[1], x[2], k)]
  <1>1. ASSUME NEW i \in 0 .. n, NEW j \in i .. n PROVE FirstAt(t, a, i, j, w[<<i, j>>])
    <2>1. CASE i = j
      <3>1. w[<<i, j>>] = i
        BY <2>1
      <3>2. QED BY <2>1, <3>1 DEF FirstAt
    <2>2. CASE i # j
      <3>1. w[<<i, j>>] = CHOOSE k \in i .. j : FirstAt(t, a, i, j, k)
        BY <2>2
      <3>2. \E k \in i .. j : FirstAt(t, a, i, j, k)
        BY FirstExists
      <3>3. QED BY <3>1, <3>2
    <2>3. QED BY <2>1, <2>2
  <1>2. ASSUME NEW x \in D PROVE w[x] = Step(w, x)
    <2>1. PICK i \in 0 .. n, j \in 0 .. n : x = <<i, j>>
      OBVIOUS
    <2>2. CASE i >= j
      BY <2>1, <2>2
    <2>3. CASE i < j
      <3> DEFINE h == (i + j) \div 2
      <3>1. h \in i .. j - 1 /\ h + 1 \in i + 1 .. j
        BY <2>3, Halves
      <3>2. Step(w, x) = IF t[h + 1].end >= a THEN w[<<i, h>>] ELSE w[<<h + 1, j>>]
        BY <2>1, <2>3
      <3> HIDE DEF h, w, Step
      <3>3. FirstAt(t, a, i, h, w[<<i, h>>]) /\ FirstAt(t, a, h + 1, j, w[<<h + 1, j>>])
        BY <1>1, <3>1
      <3>4. FirstAt(t, a, i, j, Step(w, x))
        <4>1. IF t[h + 1].end >= a THEN FirstAt(t, a, i, h, Step(w, x))
                                   ELSE FirstAt(t, a, h + 1, j, Step(w, x))
          BY <3>2, <3>3
        <4>2. j \in i .. n
          BY <2>3
        <4>3. QED BY <2>3, <3>1, <4>1, <4>2, FirstOfHalf
      <3>5. FirstAt(t, a, i, j, w[x])
        BY <1>1, <2>1, <2>3
      <3>6. QED BY <2>3, <3>4, <3>5, FirstUnique
    <2>4. QED BY <2>2, <2>3
  <1>3. find = [x \in D |-> Step(find, x)]
    <2>1. w = [x \in D |-> Step(w, x)]
      BY <1>2
    <2>2. \E f : f = [x \in D |-> Step(f, x)]
      BY <2>1
    <2>3. QED BY <2>2
  <1>4. Search(t, a) = find[<<0, n>>] + 1
    BY DEF Search
  <1> HIDE DEF find
  <1>0. ASSUME NEW i \in 0 .. n, NEW j \in 0 .. n
        PROVE  /\ i >= j => find[<<i, j>>] = i
               /\ i < j /\ t[(i + j) \div 2 + 1].end >= a =>
                    find[<<i, j>>] = find[<<i, (i + j) \div 2>>]
               /\ i < j /\ ~(t[(i + j) \div 2 + 1].end >= a) =>
                    find[<<i, j>>] = find[<<(i + j) \div 2 + 1, j>>]
    <2>1. <<i, j>> \in D
      OBVIOUS
    <2>2. find[<<i, j>>] = Step(find, <<i, j>>)
      <3> HIDE DEF Step, D
      <3>1. QED BY <1>3, <2>1
    <2>3. QED BY <2>2
  <1> DEFINE Right(i, j) == FirstAt(t, a, i, j, find[<<i, j>>])
             S == {d \in 0 .. n : \A i \in 0 .. n : \A j \in i .. n : j - i <= d => Right(i, j)}
  <1>5. 0 \in S
    <2>1. ASSUME NEW i \in 0 .. n, NEW j \in i .. n, j - i <= 0 PROVE Right(i, j)
      <3>1. i = j /\ i >= j
        BY <2>1
      <3>2. find[<<i, j>>] = i
        BY <1>0, <3>1
      <3>3. QED BY <3>1, <3>2 DEF FirstAt
    <2>2. QED BY <2>1
  <1>6. ASSUME NEW d \in 0 .. n - 1, d \in S PROVE d + 1 \in S
    <2>1. ASSUME NEW i \in 0 .. n, NEW j \in i .. n, j - i <= d + 1 PROVE Right(i, j)
      <3>1. CASE i = j
        <4>1. i >= j /\ j \in 0 .. n
          BY <3>1
        <4>2. find[<<i, j>>] = i
          BY <1>0, <4>1
        <4>3. QED BY <3>1, <4>2 DEF FirstAt
      <3>2. CASE i < j
        <4> DEFINE h == (i + j) \div 2
        <4>1. h \in i .. j - 1 /\ h + 1 \in i + 1 .. j
          BY <3>2, Halves
        <4>2. find[<<i, j>>] = IF t[h + 1].end >= a THEN find[<<i, h>>] ELSE find[<<h + 1, j>>]
          BY <1>0, <3>2
        <4> HIDE DEF h
        <4>3. h - i <= d /\ j - (h + 1) <= d /\ h \in i .. n /\ j \in h + 1 .. n
              /\ h + 1 \in 0 .. n /\ h \in 0 .. n
          BY <2>1, <4>1
        <4>4. Right(i, h) /\ Right(h + 1, j)
          BY <1>6, <4>3
        <4>5. IF t[h + 1].end >= a THEN FirstAt(t, a, i, h, find[<<i, j>>])
                                   ELSE FirstAt(t, a, h + 1, j, find[<<i, j>>])
          BY <4>2, <4>4
        <4>6. QED BY <3>2, <4>1, <4>5, FirstOfHalf
      <3>3. QED BY <3>1, <3>2
    <2>2. QED BY <2>1
  <1>7. n \in S
    <2> HIDE DEF S
    <2>1. \A d \in 0 .. n : d \in S
      BY <1>5, <1>6, UpTo
    <2>2. QED BY <2>1
  <1>8. FirstAt(t, a, 0, n, find[<<0, n>>])
    BY <1>7
  <1>9. find[<<0, n>>] \in Int
    BY <1>8 DEF FirstAt
  <1>10. QED BY <1>4, <1>8, <1>9

-----------------------------------------------------------------------------
(* The table *)

RangesOf(F, typ) == {RangeOf(rec) : rec \in {q \in F : Kept(q, typ)}}

LEMMA SpacePositive == ASSUME NEW typ \in Families PROVE Space(typ) \in Nat \ {0}
  BY GeoAssumption, PowerPositive DEF Space

LEMMA RangeOfKept ==
    ASSUME NEW typ \in Families, NEW rec \in RecordType, Kept(rec, typ), Fit(rec)
    PROVE  /\ Proper(RangeOf(rec), Space(typ)) /\ RangeOf(rec).cc = rec.cc
           /\ \A a \in Nat : Between(RangeOf(rec), a) <=> Covers(rec, typ, a)
  <1> DEFINE s == Space(typ)
  <1>1. s \in Nat /\ rec.start \in Nat /\ rec.value \in Nat \ {0} /\ rec.cc \in STRING /\ rec.typ = typ
    BY SpacePositive DEF RecordType, Kept
  <1>2. Count(rec) \in Nat \ {0}
    <2>1. CASE typ = "ipv6"
      <3>1. Width["ipv6"] - rec.value \in Nat
        BY <1>1, <2>1, GeoAssumption DEF Kept, Families
      <3>2. QED BY <1>1, <2>1, <3>1, PowerPositive DEF Count
    <2>2. CASE typ # "ipv6"
      BY <1>1, <2>2 DEF Count
    <2>3. QED BY <2>1, <2>2
  <1>3. rec.start + Count(rec) < s
    BY DEF Fit
  <1> HIDE DEF s
  <1>4. (rec.start + Count(rec) - 1) % s = rec.start + Count(rec) - 1
    <2>1. rec.start + Count(rec) - 1 \in Nat /\ rec.start + Count(rec) - 1 < s
      BY <1>1, <1>2, <1>3
    <2>2. QED BY <1>1, <2>1, Wraps
  <1>5. RangeOf(rec) = [start |-> rec.start, end |-> rec.start + Count(rec) - 1, cc |-> rec.cc]
    BY <1>1, <1>4 DEF RangeOf, s
  <1>6. Proper(RangeOf(rec), s) /\ RangeOf(rec).cc = rec.cc
    BY <1>1, <1>2, <1>3, <1>5 DEF Proper, RangeType
  <1>7. \A a \in Nat : Between(RangeOf(rec), a) <=> Covers(rec, typ, a)
    BY <1>1, <1>2, <1>5 DEF Between, Covers
  <1>8. QED BY <1>6, <1>7 DEF s

LEMMA SoundRanges ==
    ASSUME NEW typ \in Families, NEW F \in Files, Sound(F)
    PROVE  /\ IsFiniteSet(RangesOf(F, typ))
           /\ \A r \in RangesOf(F, typ) : Proper(r, Space(typ))
           /\ Apart(RangesOf(F, typ))
  <1> DEFINE K == {q \in F : Kept(q, typ)}
             R == RangesOf(F, typ)
  <1>1. IsFiniteSet(F) /\ F \subseteq RecordType
    BY AnswersAssumption
  <1>2. \A rec \in K : rec \in F /\ rec \in RecordType /\ Kept(rec, typ) /\ Fit(rec)
    BY <1>1 DEF Sound
  <1>3. IsFiniteSet(R)
    <2>1. IsFiniteSet(K)
      BY <1>1, FS_Subset
    <2> DEFINE f == [rec \in K |-> RangeOf(rec)]
    <2>2. f \in [K -> R] /\ \A r \in R : \E rec \in K : f[rec] = r
      BY DEF RangesOf
    <2>3. f \in Surjection(K, R)
      BY <2>2 DEF Surjection
    <2>4. QED BY <2>1, <2>3, FS_Surjection
  <1>4. ASSUME NEW r \in R PROVE \E rec \in K : r = RangeOf(rec) /\ Proper(r, Space(typ))
    BY <1>2, RangeOfKept DEF RangesOf
  <1>5. ASSUME NEW p \in R, NEW q \in R, NEW a \in Nat, Between(p, a), Between(q, a)
        PROVE  p.cc = q.cc
    <2>1. PICK u \in K : p = RangeOf(u)
      BY DEF RangesOf
    <2>2. PICK v \in K : q = RangeOf(v)
      BY DEF RangesOf
    <2>3. Covers(u, typ, a) /\ Covers(v, typ, a) /\ p.cc = u.cc /\ q.cc = v.cc
      BY <1>2, <1>5, <2>1, <2>2, RangeOfKept
    <2>4. a \in Addresses(typ)
      <3>1. a <= p.end /\ p.end + 1 < Space(typ) /\ p.end \in Nat
        BY <1>4, <1>5 DEF Between, Proper, RangeType
      <3>2. QED BY <3>1, SpacePositive DEF Addresses
    <2>5. Disjoint(u, v)
      BY <1>2 DEF Sound
    <2>6. QED BY <2>3, <2>4, <2>5 DEF Disjoint
  <1>6. QED BY <1>3, <1>4, <1>5 DEF Apart

\* The merged ranges of a family: disjoint, ascending, and with the records'
\* countries.
LEMMA RangesRight ==
    ASSUME NEW typ \in Families, NEW F \in Files, Sound(F)
    PROVE  LET M == Ranges(F, typ)
           IN  /\ M \in Seq(RangeType)
               /\ \A i \in 1 .. Len(M) : M[i].start <= M[i].end
               /\ \A i, j \in 1 .. Len(M) : i < j => M[i].end < M[j].start
               /\ \A i \in 1 .. Len(M) : \A a \in Nat : Between(M[i], a) =>
                      \E rec \in F : Covers(rec, typ, a) /\ rec.cc = M[i].cc
               /\ \A rec \in F : \A a \in Nat : Covers(rec, typ, a) =>
                      \E i \in 1 .. Len(M) : Between(M[i], a) /\ rec.cc = M[i].cc
  <1> DEFINE M == Ranges(F, typ)
             R == RangesOf(F, typ)
             N == Cardinality(R)
             t == Sorted(R)
             s == Space(typ)
  <1>1. s \in Nat /\ IsFiniteSet(R) /\ (\A r \in R : Proper(r, s)) /\ Apart(R)
    BY SpacePositive, SoundRanges
  <1>2. \A r \in R : r.start \in 0 .. s - 1
    BY <1>1 DEF Proper, RangeType
  <1>3. N \in Nat /\ Sorts(t, R, N)
    BY <1>1, <1>2, SortedSorts
  <1>4. M = Merge(typ, t)
    BY DEF Ranges, RangesOf
  <1> HIDE DEF M, N, t, R
  <1>5. MergedSoFar(M, t, N, s)
    BY <1>1, <1>3, <1>4, MergeMerges
  <1>6. \A k \in 1 .. N : t[k] \in R
    BY <1>3 DEF Sorts
  <1>7. \A rec \in F : Kept(rec, typ) => rec \in RecordType /\ Fit(rec) /\ RangeOf(rec) \in R
    BY AnswersAssumption DEF Sound, R, RangesOf
  <1>8. ASSUME NEW i \in 1 .. Len(M), NEW a \in Nat, Between(M[i], a)
        PROVE  \E rec \in F : Covers(rec, typ, a) /\ rec.cc = M[i].cc
    <2>1. PICK k \in 1 .. N : Between(t[k], a) /\ t[k].cc = M[i].cc
      BY <1>5, <1>8 DEF MergedSoFar
    <2>2. PICK rec \in F : Kept(rec, typ) /\ t[k] = RangeOf(rec)
      BY <1>6 DEF R, RangesOf
    <2>3. Covers(rec, typ, a) /\ rec.cc = t[k].cc
      BY <1>7, <2>1, <2>2, RangeOfKept
    <2>4. QED BY <2>1, <2>3
  <1>9. ASSUME NEW rec \in F, NEW a \in Nat, Covers(rec, typ, a)
        PROVE  \E i \in 1 .. Len(M) : Between(M[i], a) /\ rec.cc = M[i].cc
    <2>1. Kept(rec, typ)
      BY <1>9 DEF Covers
    <2>2. Between(RangeOf(rec), a) /\ RangeOf(rec).cc = rec.cc /\ RangeOf(rec) \in R
      BY <1>7, <1>9, <2>1, RangeOfKept
    <2>3. PICK k \in 1 .. N : t[k] = RangeOf(rec)
      BY <1>3, <2>2 DEF Sorts
    <2>4. QED BY <1>5, <2>2, <2>3 DEF MergedSoFar
  <1>10. QED BY <1>5, <1>8, <1>9 DEF MergedSoFar, Proper, M

\* Country answers of coded ranges as the ranges do.
LEMMA CountryFinds ==
    ASSUME NEW M \in Seq(RangeType), NEW codes, \A i \in 1 .. Len(M) : Knows(codes, M[i].cc),
           \A i \in 1 .. Len(M) : M[i].start <= M[i].end,
           \A i, j \in 1 .. Len(M) : i < j => M[i].end < M[j].start,
           DOMAIN codes = 1 .. Len(codes),
           NEW table, table.codes = codes, NEW typ,
           Coded(codes, M) = IF typ = "ipv4" THEN table.v4 ELSE table.v6,
           NEW a \in Nat
    PROVE  \/ \E i \in 1 .. Len(M) : Between(M[i], a) /\ Country(table, typ, a) = M[i].cc
           \/ /\ \A i \in 1 .. Len(M) : ~Between(M[i], a)
              /\ Country(table, typ, a) = NoCountry
  <1> DEFINE C == Coded(codes, M)
             n == Len(M)
             i == Search(C, a)
  <1>1. n \in Nat /\ DOMAIN M = 1 .. n /\ \A k \in 1 .. n : M[k].start \in Nat /\ M[k].end \in Nat
    <2>1. n \in Nat /\ DOMAIN M = 1 .. n
      BY LenProperties
    <2>2. \A k \in 1 .. n : M[k] \in RangeType
      BY ElementOfSeq
    <2>3. QED BY <2>1, <2>2 DEF RangeType
  <1>2. DOMAIN C = 1 .. n /\ Len(C) = n
    BY <1>1 DEF Coded
  <1>3. \A k \in 1 .. n : /\ C[k].start = M[k].start /\ C[k].end = M[k].end
                          /\ C[k].cc = (CHOOSE c \in DOMAIN codes : codes[c] = M[k].cc) - 1
    BY <1>1 DEF Coded
  <1>4. ASSUME NEW k \in 1 .. n PROVE codes[C[k].cc + 1] = M[k].cc
    <2> DEFINE c == CHOOSE c \in DOMAIN codes : codes[c] = M[k].cc
    <2>1. c \in DOMAIN codes /\ codes[c] = M[k].cc
      BY DEF Knows
    <2> HIDE DEF c
    <2>2. c \in Int /\ C[k].cc = c - 1
      BY <1>3, <2>1 DEF c
    <2>3. (c - 1) + 1 = c
      BY <2>2
    <2>4. QED BY <2>1, <2>2, <2>3
  <1>5. Country(table, typ, a) = IF i <= Len(C) /\ C[i].start <= a THEN codes[C[i].cc + 1] ELSE NoCountry
    BY DEF Country
  <1> HIDE DEF C
  <1>6. Ascends(C)
    <2>1. ASSUME NEW k \in 1 .. n, NEW m \in 1 .. n, k < m PROVE M[k].end < M[m].end
      BY <1>1, <2>1
    <2>2. \A k \in 1 .. n : C[k].end = M[k].end /\ M[k].end \in Int
      BY <1>1, <1>3
    <2> HIDE DEF n
    <2>3. QED BY <1>2, <2>1, <2>2 DEF Ascends
  <1>7. i \in Int /\ FirstAt(C, a, 0, n, i - 1)
    <2>1. Len(C) \in Nat /\ DOMAIN C = 1 .. Len(C) /\ a \in Int
      BY <1>1, <1>2
    <2>2. Search(C, a) \in Int /\ FirstAt(C, a, 0, Len(C), Search(C, a) - 1)
      BY <1>6, <2>1, SearchFinds
    <2>3. QED BY <1>2, <2>2
  <1> HIDE DEF i
  <1>8. i - 1 \in 0 .. n /\ i \in 1 .. n + 1
    BY <1>1, <1>7 DEF FirstAt
  <1>9. CASE i <= n /\ M[i].start <= a
    <2>1. i \in 1 .. n /\ i - 1 < n /\ (i - 1) + 1 = i
      BY <1>8, <1>9
    <2>2. C[i].end >= a
      BY <1>7, <2>1 DEF FirstAt
    <2>3. Between(M[i], a)
      BY <1>1, <1>3, <1>9, <2>1, <2>2 DEF Between
    <2>4. Country(table, typ, a) = M[i].cc
      BY <1>2, <1>3, <1>4, <1>5, <1>9, <2>1
    <2>5. QED BY <2>1, <2>3, <2>4
  <1>10. CASE ~(i <= n /\ M[i].start <= a)
    <2>1. Country(table, typ, a) = NoCountry
      BY <1>1, <1>2, <1>3, <1>5, <1>8, <1>10
    <2>2. ASSUME NEW k \in 1 .. n PROVE ~Between(M[k], a)
      <3>1. CASE k < i
        <4>1. k \in 0 + 1 .. i - 1
          BY <1>8, <3>1
        <4>2. C[k].end < a
          BY <1>7, <4>1 DEF FirstAt
        <4>3. C[k].end = M[k].end /\ M[k].end \in Nat
          BY <1>1, <1>3
        <4>4. M[k].end < a
          BY <4>2, <4>3
        <4>5. QED BY <4>3, <4>4 DEF Between
      <3>2. CASE k = i
        BY <1>10, <3>2 DEF Between
      <3>3. CASE k > i
        <4>1. i \in 1 .. n /\ M[i].end < M[k].start /\ M[i].start > a
          BY <1>1, <1>8, <1>10, <3>3
        <4>2. M[k].start > a
          BY <1>1, <4>1
        <4>3. QED BY <1>1, <4>2 DEF Between
      <3>4. QED BY <1>1, <1>8, <3>1, <3>2, <3>3
    <2>3. QED BY <2>1, <2>2
  <1>11. QED BY <1>9, <1>10

-----------------------------------------------------------------------------
(* Which of two versions is newer *)

\* A version: its dotted parts, whatever they are.
AllVersions == Seq(Nat \union {NotANumber})

\* Atoi stops at the first part that is no number.
LEMMA PartsCut ==
    ASSUME NEW v \in AllVersions
    PROVE  /\ parts(v) \in Seq(Nat) /\ Len(v) \in Nat /\ Len(parts(v)) \in 0 .. Len(v)
           /\ \A i \in 1 .. Len(parts(v)) : parts(v)[i] = v[i] /\ v[i] \in Nat
           /\ Len(parts(v)) < Len(v) => v[Len(parts(v)) + 1] = NotANumber
<1> DEFINE Bad == {i \in DOMAIN v : v[i] = NotANumber}
           first == CHOOSE i \in Bad : \A j \in Bad : i <= j
<1>0. v \in Seq(Nat \union {NotANumber})
  BY DEF AllVersions
<1>1. Len(v) \in Nat /\ DOMAIN v = 1 .. Len(v) /\ v = [i \in 1 .. Len(v) |-> v[i]]
      /\ \A i \in 1 .. Len(v) : v[i] \in Nat \union {NotANumber}
  BY <1>0, LenProperties, ElementOfSeq
<1>2. CASE Bad = {}
  <2>1. \A i \in 1 .. Len(v) : v[i] \in Nat
    BY <1>1, <1>2
  <2>2. v \in Seq(Nat)
    BY <1>1, <2>1, IsASeq
  <2>3. parts(v) = v
    BY <1>2 DEF parts
  <2>4. QED
    BY <1>1, <2>1, <2>2, <2>3
<1>3. CASE Bad # {}
  <2>1. \E i \in Bad : \A j \in Bad : i <= j
    <3>1. Bad \in SUBSET Nat
      BY <1>1
    <3> HIDE DEF Bad
    <3>2. QED
      BY <1>3, <3>1, LeastOf
  <2>2. first \in Bad /\ \A j \in Bad : first <= j
    BY <2>1
  <2> HIDE DEF first
  <2>3. first \in 1 .. Len(v) /\ v[first] = NotANumber /\ \A i \in 1 .. first - 1 : v[i] \in Nat
    BY <1>1, <2>2
  <2>4. parts(v) = SubSeq(v, 1, first - 1)
    BY <1>3 DEF parts, first
  <2> DEFINE p == [i \in 1 .. first - 1 |-> v[i]]
  <2>5. parts(v) = p
    BY <1>1, <2>3, <2>4
  <2>6. p \in [1 .. first - 1 -> Nat] /\ first - 1 \in Nat /\ first - 1 \in 0 .. Len(v)
    BY <1>1, <2>3
  <2>7. \A i \in 1 .. first - 1 : p[i] = v[i]
    OBVIOUS
  <2> HIDE DEF p
  <2>8. p \in Seq(Nat) /\ Len(p) = first - 1
    BY <2>6
  <2>9. QED
    BY <1>1, <2>3, <2>5, <2>6, <2>7, <2>8
<1>4. QED
  BY <1>2, <1>3

\* The number at a place, zero where there is none.
PartAt(p, i) == IF i <= Len(p) THEN p[i] ELSE 0

\* The longer version decides how far the code looks; further on there are zeros.
LEMMA NewerAt ==
    ASSUME NEW a \in AllVersions, NEW b \in AllVersions
    PROVE  VersionNewer(a, b) <=>
               \E i \in Nat \ {0} :
                   /\ PartAt(parts(a), i) > PartAt(parts(b), i)
                   /\ \A j \in 1 .. i - 1 : PartAt(parts(a), j) = PartAt(parts(b), j)
<1> DEFINE p == parts(a)
           q == parts(b)
           n == IF Len(p) > Len(q) THEN Len(p) ELSE Len(q)
<1>1. VersionNewer(a, b) <=> \E i \in 1 .. n : /\ PartAt(p, i) > PartAt(q, i)
                                               /\ \A j \in 1 .. i - 1 : PartAt(p, j) = PartAt(q, j)
  BY DEF VersionNewer, PartAt
<1>2. p \in Seq(Nat) /\ q \in Seq(Nat)
  BY PartsCut
<1> HIDE DEF p, q
<1>3. Len(p) \in Nat /\ Len(q) \in Nat
  BY <1>2, LenProperties
<1>4. ASSUME NEW i \in Nat \ {0}, PartAt(p, i) > PartAt(q, i) PROVE i \in 1 .. n
  BY <1>3, <1>4 DEF PartAt
<1>5. \A i \in 1 .. n : i \in Nat \ {0}
  BY <1>3
<1>6. QED
  BY <1>1, <1>4, <1>5 DEF p, q

LEMMA PartsAreNumbers ==
    ASSUME NEW v \in AllVersions, NEW i \in Nat \ {0} PROVE PartAt(parts(v), i) \in Nat
<1>1. parts(v) \in Seq(Nat)
  BY PartsCut
<1>2. QED
  BY <1>1, LenProperties, ElementOfSeq DEF PartAt

\* VersionNewer orders the versions whatever their lengths and whatever parts are
\* no numbers: no two are newer than each other, and a third lies on one side of
\* a newer and an older one, so that a daemon which updates as long as a newer
\* version is offered does not go round in circles (update.go:175-191).
THEOREM NewerIsAnOrder ==
    \A a, b \in AllVersions : VersionNewer(a, b) =>
        /\ ~VersionNewer(b, a)
        /\ \A c \in AllVersions : VersionNewer(a, c) \/ VersionNewer(c, b)
<1> SUFFICES ASSUME NEW a \in AllVersions, NEW b \in AllVersions, VersionNewer(a, b)
             PROVE  /\ ~VersionNewer(b, a)
                    /\ \A c \in AllVersions : VersionNewer(a, c) \/ VersionNewer(c, b)
  OBVIOUS
<1> DEFINE A(i) == PartAt(parts(a), i)
           B(i) == PartAt(parts(b), i)
<1>1. PICK i \in Nat \ {0} : A(i) > B(i) /\ \A j \in 1 .. i - 1 : A(j) = B(j)
  BY NewerAt
<1>2. \A j \in Nat \ {0} : A(j) \in Nat /\ B(j) \in Nat
  BY PartsAreNumbers
<1>3. ~VersionNewer(b, a)
  <2> SUFFICES ASSUME VersionNewer(b, a) PROVE FALSE
    OBVIOUS
  <2>1. PICK k \in Nat \ {0} : B(k) > A(k) /\ \A j \in 1 .. k - 1 : B(j) = A(j)
    BY NewerAt
  <2> HIDE DEF A, B
  <2>2. i < k => i \in 1 .. k - 1
    OBVIOUS
  <2>3. k < i => k \in 1 .. i - 1
    OBVIOUS
  <2>4. QED
    BY <1>1, <1>2, <2>1, <2>2, <2>3
<1>4. ASSUME NEW c \in AllVersions PROVE VersionNewer(a, c) \/ VersionNewer(c, b)
  <2> DEFINE K(k) == PartAt(parts(c), k)
             S == {k \in Nat \ {0} : A(k) # K(k) \/ K(k) # B(k)}
  <2>1. \A k \in Nat \ {0} : K(k) \in Nat
    BY PartsAreNumbers
  <2>2. VersionNewer(a, c) <=> \E k \in Nat \ {0} : A(k) > K(k) /\ \A j \in 1 .. k - 1 : A(j) = K(j)
    BY NewerAt
  <2>3. VersionNewer(c, b) <=> \E k \in Nat \ {0} : K(k) > B(k) /\ \A j \in 1 .. k - 1 : K(j) = B(j)
    BY NewerAt
  <2> HIDE DEF A, B, K
  <2>4. i \in S
    BY <1>1, <1>2
  <2>5. PICK m \in S : \A k \in S : m <= k
    BY <2>4, LeastOf
  <2>6. m \in Nat \ {0} /\ m <= i
    BY <2>4, <2>5
  <2>7. \A j \in 1 .. m - 1 : j \in Nat \ {0} /\ ~(m <= j)
    BY <2>6
  <2>8. \A j \in 1 .. m - 1 : A(j) = K(j) /\ K(j) = B(j)
    BY <2>5, <2>7
  <2>9. A(m) >= B(m)
    <3>1. CASE m = i
      BY <1>1, <1>2, <3>1
    <3>2. CASE m # i
      <4>1. m \in 1 .. i - 1
        BY <2>6, <3>2
      <4>2. QED
        BY <1>1, <1>2, <2>6, <4>1
    <3>3. QED
      BY <3>1, <3>2
  <2>10. A(m) > K(m) \/ K(m) > B(m)
    BY <1>2, <2>1, <2>5, <2>6, <2>9
  <2>11. QED
    BY <2>2, <2>3, <2>6, <2>8, <2>10
<1>5. QED
  BY <1>3, <1>4

\* A missing part counts as zero.
LEMMA ZeroAdds ==
    ASSUME NEW a \in AllVersions
    PROVE  /\ a \o <<0>> \in AllVersions
           /\ \A i \in Nat \ {0} : PartAt(parts(a \o <<0>>), i) = PartAt(parts(a), i)
<1> DEFINE P == Nat \union {NotANumber}
           w == a \o <<0>>
           l == Len(a)
           m == Len(parts(a))
           k == Len(parts(w))
<1>1. <<0>> \in Seq(P) /\ Len(<<0>>) = 1 /\ a \in Seq(P)
  BY DEF AllVersions
<1>2. /\ w \in AllVersions /\ l \in Nat /\ Len(w) = l + 1
      /\ w[l + 1] = 0 /\ \A i \in 1 .. l : w[i] = a[i]
  <2> HIDE DEF P
  <2>1. /\ w \in Seq(P) /\ Len(w) = l + 1
        /\ \A i \in 1 .. l + 1 : w[i] = IF i <= l THEN a[i] ELSE <<0>>[i - l]
    BY <1>1, ConcatProperties
  <2>2. l \in Nat
    BY <1>1, LenProperties
  <2>3. w[l + 1] = 0
    BY <2>1, <2>2
  <2>4. QED
    BY <2>1, <2>2, <2>3 DEF AllVersions, P
<1> HIDE DEF w
<1>3. /\ m \in 0 .. l /\ \A i \in 1 .. m : parts(a)[i] = a[i] /\ a[i] \in Nat
      /\ m < l => a[m + 1] = NotANumber
  BY PartsCut
<1>4. /\ k \in 0 .. l + 1 /\ \A i \in 1 .. k : parts(w)[i] = w[i] /\ w[i] \in Nat
      /\ k < l + 1 => w[k + 1] = NotANumber
  <2>1. w \in AllVersions
    BY <1>2
  <2>2. /\ k \in 0 .. Len(w) /\ \A i \in 1 .. k : parts(w)[i] = w[i] /\ w[i] \in Nat
        /\ k < Len(w) => w[k + 1] = NotANumber
    BY <2>1, PartsCut
  <2>3. QED
    BY <1>2, <2>2
<1> HIDE DEF l, m, k
<1>5. NotANumber \notin Nat
  BY DEF NotANumber
<1>6. k = IF m = l THEN l + 1 ELSE m
  <2>1. k >= m
    <3> SUFFICES ASSUME k < m PROVE FALSE
      BY <1>3, <1>4
    <3>1. k + 1 \in 1 .. m /\ k + 1 \in 1 .. l /\ k < l + 1
      BY <1>2, <1>3, <1>4
    <3>2. w[k + 1] = a[k + 1] /\ a[k + 1] \in Nat /\ w[k + 1] = NotANumber
      BY <1>2, <1>3, <1>4, <3>1
    <3>3. QED
      BY <1>5, <3>2
  <2>2. CASE m = l
    <3> SUFFICES ASSUME k = l PROVE FALSE
      BY <1>2, <1>4, <2>1, <2>2
    <3>1. w[l + 1] = NotANumber
      BY <1>2, <1>4
    <3>2. QED
      BY <1>2, <1>5, <3>1
  <2>3. CASE m # l
    <3> SUFFICES ASSUME k > m PROVE FALSE
      BY <1>2, <1>3, <1>4, <2>1, <2>3
    <3>1. m + 1 \in 1 .. k /\ m + 1 \in 1 .. l /\ m < l
      BY <1>2, <1>3, <1>4, <2>3
    <3>2. w[m + 1] \in Nat /\ w[m + 1] = a[m + 1] /\ a[m + 1] = NotANumber
      BY <1>2, <1>3, <1>4, <3>1
    <3>3. QED
      BY <1>5, <3>2
  <2>4. QED
    BY <2>2, <2>3
<1>7. ASSUME NEW i \in Nat \ {0} PROVE PartAt(parts(w), i) = PartAt(parts(a), i)
  <2>1. CASE i <= m
    <3>1. i \in 1 .. m /\ i \in 1 .. k /\ i \in 1 .. l
      BY <1>2, <1>3, <1>6, <2>1
    <3>2. parts(w)[i] = w[i] /\ w[i] = a[i] /\ parts(a)[i] = a[i]
      BY <1>2, <1>3, <1>4, <3>1
    <3>3. i <= Len(parts(w)) /\ i <= Len(parts(a))
      BY <3>1 DEF k, m
    <3>4. QED
      BY <3>2, <3>3 DEF PartAt
  <2>2. CASE i > m
    <3>1. PartAt(parts(a), i) = 0
      BY <1>2, <1>3, <2>2 DEF PartAt, m
    <3>2. PartAt(parts(w), i) = 0
      <4>1. CASE i > k
        BY <1>4, <1>2, <4>1 DEF PartAt, k
      <4>2. CASE i <= k
        <5>1. i = l + 1 /\ i \in 1 .. k
          BY <1>2, <1>3, <1>4, <1>6, <2>2, <4>2
        <5>2. parts(w)[i] = 0
          BY <1>2, <1>4, <5>1
        <5>3. QED
          BY <4>2, <5>2 DEF PartAt, k
      <4>3. QED
        BY <1>2, <1>4, <4>1, <4>2
    <3>3. QED
      BY <3>1, <3>2
  <2>3. QED
    BY <1>2, <1>3, <2>1, <2>2
<1>8. QED
  BY <1>2, <1>7 DEF w

LEMMA ZeroChangesNothing ==
    ASSUME NEW a \in AllVersions, NEW b \in AllVersions
    PROVE  VersionNewer(a \o <<0>>, b) <=> VersionNewer(a, b)
<1> DEFINE w == a \o <<0>>
<1>1. w \in AllVersions /\ \A i \in Nat \ {0} : PartAt(parts(w), i) = PartAt(parts(a), i)
  BY ZeroAdds
<1> HIDE DEF w
<1>2. \A i \in Nat \ {0} : \A j \in 1 .. i - 1 : j \in Nat \ {0}
  OBVIOUS
<1>3. VersionNewer(w, b) <=>
        \E i \in Nat \ {0} : /\ PartAt(parts(w), i) > PartAt(parts(b), i)
                             /\ \A j \in 1 .. i - 1 : PartAt(parts(w), j) = PartAt(parts(b), j)
  BY <1>1, NewerAt
<1>4. VersionNewer(a, b) <=>
        \E i \in Nat \ {0} : /\ PartAt(parts(a), i) > PartAt(parts(b), i)
                             /\ \A j \in 1 .. i - 1 : PartAt(parts(a), j) = PartAt(parts(b), j)
  BY NewerAt
<1>5. QED
  BY <1>1, <1>2, <1>3, <1>4 DEF w

-----------------------------------------------------------------------------
(* The answers *)

\* The country that a table built from sound files gives an address.
LEMMA TableRight ==
    ASSUME NEW F \in Files, Sound(F), NEW typ \in Families, NEW a \in Addresses(typ)
    PROVE  LET cc == Country(buildGeoIP(F), typ, a)
           IN  /\ {rec \in F : Covers(rec, typ, a)} = {} => cc = NoCountry
               /\ \A rec \in F : Covers(rec, typ, a) => cc = rec.cc
  <1> DEFINE v4 == Ranges(F, "ipv4")
             v6 == Ranges(F, "ipv6")
             known == Intern(<<>>, v4)
             codes == Intern(known, v6)
             M == Ranges(F, typ)
             T == buildGeoIP(F)
  <1>1. a \in Nat
    BY SpacePositive DEF Addresses
  <1>2. "ipv4" \in Families /\ "ipv6" \in Families /\ (typ = "ipv4" \/ typ = "ipv6")
    BY DEF Families
  <1>3. v4 \in Seq(RangeType) /\ v6 \in Seq(RangeType)
    BY <1>2, RangesRight
  <1>4. /\ T.codes = codes
        /\ Coded(codes, M) = IF typ = "ipv4" THEN T.v4 ELSE T.v6
    BY <1>2 DEF buildGeoIP
  <1> DEFINE X == STRING
  <1>5. ASSUME NEW t \in Seq(RangeType) PROVE Len(t) \in Nat /\ \A i \in 1 .. Len(t) : t[i].cc \in X
    <2>1. Len(t) \in Nat /\ \A i \in 1 .. Len(t) : t[i] \in RangeType
      BY LenProperties, ElementOfSeq
    <2>2. QED BY <2>1 DEF RangeType
  <1> HIDE DEF v4, v6, X
  <1>6. known \in Seq(X) /\ \A i \in 1 .. Len(v4) : Knows(known, v4[i].cc)
    <2>1. <<>> \in Seq(X)
      OBVIOUS
    <2>2. QED BY <1>3, <1>5, <2>1, InternKnows
  <1> HIDE DEF known
  <1>7. /\ codes \in Seq(X)
        /\ \A c : Knows(known, c) => Knows(codes, c)
        /\ \A i \in 1 .. Len(v6) : Knows(codes, v6[i].cc)
    BY <1>3, <1>5, <1>6, InternKnows
  <1> HIDE DEF codes
  <1>8. \A i \in 1 .. Len(M) : Knows(codes, M[i].cc)
    BY <1>2, <1>6, <1>7 DEF v4, v6
  <1>9. DOMAIN codes = 1 .. Len(codes)
    BY <1>7, LenProperties
  <1>10. /\ M \in Seq(RangeType)
         /\ \A i \in 1 .. Len(M) : M[i].start <= M[i].end
         /\ \A i, j \in 1 .. Len(M) : i < j => M[i].end < M[j].start
         /\ \A i \in 1 .. Len(M) : Between(M[i], a) =>
                \E rec \in F : Covers(rec, typ, a) /\ rec.cc = M[i].cc
         /\ \A rec \in F : Covers(rec, typ, a) =>
                \E i \in 1 .. Len(M) : Between(M[i], a) /\ rec.cc = M[i].cc
    BY <1>1, RangesRight
  <1> HIDE DEF M, T
  <1>11. \/ \E i \in 1 .. Len(M) : Between(M[i], a) /\ Country(T, typ, a) = M[i].cc
         \/ /\ \A i \in 1 .. Len(M) : ~Between(M[i], a)
            /\ Country(T, typ, a) = NoCountry
    BY <1>1, <1>4, <1>8, <1>9, <1>10, CountryFinds, SMTT(30)
  <1>12. \A p, q \in F : Covers(p, typ, a) /\ Covers(q, typ, a) => p.cc = q.cc
    BY DEF Sound, Disjoint
  <1>13. CASE \E i \in 1 .. Len(M) : Between(M[i], a) /\ Country(T, typ, a) = M[i].cc
    <2>1. PICK rec \in F : Covers(rec, typ, a) /\ Country(T, typ, a) = rec.cc
      BY <1>10, <1>13
    <2>2. QED BY <1>12, <2>1 DEF T
  <1>14. CASE /\ \A i \in 1 .. Len(M) : ~Between(M[i], a)
              /\ Country(T, typ, a) = NoCountry
    BY <1>10, <1>14 DEF T
  <1>15. QED BY <1>11, <1>13, <1>14

\* An answer is of the question asked.
AnswersInv ==
    /\ question \in Questions
    /\ answer # Unanswered =>
          \/ question.of = "files" /\ answer = [table |-> buildGeoIP(question.records)]
          \/ /\ question.of = "versions"
             /\ answer = [is |-> VersionNewer(question.newer, question.than)]

LEMMA AnswersStep == AnswersInv /\ [AnswersNext]_answersVars => AnswersInv'
  BY DEF AnswersInv, AnswersNext, Tabulate, Compare, answersVars

\* Country places every address as the records of the delegation files do, however
\* many there are, in what order and of whatever width, if no address is delegated
\* to two countries (gen-geodata main.go:218-376, geoip.go:98-123); and VersionNewer
\* orders all versions (update.go:175-204).
THEOREM AnswersSound == AnswersSpec => []AnswersRight
  <1>1. AnswersInit => AnswersInv
    BY DEF AnswersInit, AnswersInv
  <1>2. AnswersInv => AnswersRight
    <2> SUFFICES ASSUME AnswersInv PROVE LookupFaithful /\ VersionsOrdered
      BY DEF AnswersRight
    <2>1. ASSUME question.of = "files", answer # Unanswered PROVE LookupFaithful
      <3>1. question.records \in Files /\ Sound(question.records)
        BY <2>1 DEF AnswersInv, Questions
      <3>2. answer.table = buildGeoIP(question.records)
        BY <2>1 DEF AnswersInv
      <3>3. ASSUME NEW typ \in Families, NEW a \in Addresses(typ)
            PROVE  /\ {rec \in question.records : Covers(rec, typ, a)} = {} =>
                        Country(answer.table, typ, a) = NoCountry
                   /\ \A rec \in question.records : Covers(rec, typ, a) =>
                        Country(answer.table, typ, a) = rec.cc
        BY <3>1, <3>2, TableRight
      <3>4. QED BY <3>3 DEF LookupFaithful
    <2>2. ASSUME question.of = "versions", answer # Unanswered PROVE VersionsOrdered
      <3> DEFINE a == question.newer
                 b == question.than
      <3>1. a \in VersionTexts /\ b \in VersionTexts
        BY <2>2 DEF AnswersInv, Questions
      <3>2. VersionTexts \subseteq AllVersions
        BY AnswersAssumption DEF AllVersions
      <3>3. answer.is <=> VersionNewer(a, b)
        BY <2>2 DEF AnswersInv
      <3>4. QED
        BY <3>1, <3>2, <3>3, NewerIsAnOrder, ZeroChangesNothing DEF VersionsOrdered
    <2>3. QED BY <2>1, <2>2 DEF LookupFaithful, VersionsOrdered
  <1>3. QED BY <1>1, AnswersStep, <1>2, PTL DEF AnswersSpec
=============================================================================
