------------------------- MODULE SequenceInduction -------------------------
(***************************************************************************)
(* Induction for sets of numbers, and what FlattenSeq computes.            *)
(*                                                                         *)
(* The library's induction theorems take a predicate, which no prover here *)
(* instantiates.  Here induction is about the set of the numbers that have *)
(* a property: a first-order fact.                                         *)
(***************************************************************************)
EXTENDS Integers, SequencesExt, WellFoundedInduction, TLAPS

\* The order of the numbers is well founded.
LEMMA OrderWellFounded ==
  \E R : IsWellFoundedOn(R, Nat) /\ \A m, n \in Nat : m < n => <<m, n>> \in R
<1> DEFINE R == OpToRel(<, Nat)
<1>1. IsWellFoundedOn(R, Nat)
  BY NatLessThanWellFounded
<1>2. \A m, n \in Nat : m < n => <<m, n>> \in R
  BY DEF OpToRel
<1> QED BY <1>1, <1>2

\* A set of numbers that is not empty has a least one.
LEMMA LeastNumber ==
  ASSUME NEW T \in SUBSET Nat, T # {}
  PROVE  \E m \in T : \A n \in T : m <= n
<1>1. PICK R : IsWellFoundedOn(R, Nat) /\ \A m, n \in Nat : m < n => <<m, n>> \in R
  BY OrderWellFounded
<1>2. IsWellFoundedOn(R, Nat) /\ T \subseteq Nat
  BY <1>1
<1>3. \E m \in T : \A n \in T : ~ (<<n, m>> \in R)
  BY <1>2, WFMin, Zenon
<1>4. PICK m \in T : \A n \in T : ~ (<<n, m>> \in R)
  BY <1>3
<1>5. ASSUME NEW n \in T PROVE m <= n
  <2>1. m \in Nat /\ n \in Nat
    OBVIOUS
  <2>2. ~ (n < m)
    BY <1>1, <1>4, <2>1
  <2> QED BY <2>1, <2>2
<1> QED BY <1>5

\* A set that has 0, and with a number the next one, has all.
LEMMA SetInduction ==
  ASSUME NEW T, 0 \in T, \A n \in Nat : n \in T => n + 1 \in T
  PROVE  \A n \in Nat : n \in T
<1> SUFFICES ASSUME Nat \ T # {} PROVE FALSE
  OBVIOUS
<1>1. PICK m \in Nat \ T : \A n \in Nat \ T : m <= n
  BY LeastNumber
<1>2. m # 0 /\ m - 1 \in Nat /\ m - 1 \in T
  BY <1>1
<1> QED BY <1>1, <1>2

-----------------------------------------------------------------------------
\* g[k] is the concatenation of the first k sequences.
Concatenates(seqs, n, g) ==
  g = [i \in 1 .. n |-> IF i = 1 THEN seqs[i] ELSE g[i - 1] \o seqs[i]]

\* The recursion of FlattenSeq has a solution.
LEMMA PrefixesExist ==
  ASSUME NEW S, NEW seqs \in Seq(Seq(S))
  PROVE  \A n \in Nat : n <= Len(seqs) => \E g \in [1 .. n -> Seq(S)] : Concatenates(seqs, n, g)
<1> DEFINE T == {n \in Nat : n <= Len(seqs) =>
                               \E g \in [1 .. n -> Seq(S)] : Concatenates(seqs, n, g)}
<1>1. 0 \in T
  <2> DEFINE g == [i \in 1 .. 0 |-> seqs[i]]
  <2>1. g \in [1 .. 0 -> Seq(S)] /\ Concatenates(seqs, 0, g)
    BY DEF Concatenates
  <2> QED BY <2>1
<1>2. ASSUME NEW n \in Nat, n \in T PROVE n + 1 \in T
  <2> SUFFICES ASSUME n + 1 <= Len(seqs)
               PROVE  \E h \in [1 .. n + 1 -> Seq(S)] : Concatenates(seqs, n + 1, h)
    OBVIOUS
  <2>1. PICK g \in [1 .. n -> Seq(S)] : Concatenates(seqs, n, g)
    BY <1>2
  <2>2. \A i \in 1 .. n + 1 : seqs[i] \in Seq(S)
    OBVIOUS
  <2>3. \A i \in 1 .. n : g[i] = IF i = 1 THEN seqs[i] ELSE g[i - 1] \o seqs[i]
    BY <2>1 DEF Concatenates
  <2> DEFINE last == IF n + 1 = 1 THEN seqs[1] ELSE g[n] \o seqs[n + 1]
             h == [i \in 1 .. n + 1 |-> IF i = n + 1 THEN last ELSE g[i]]
  <2>4. last \in Seq(S)
    BY <2>2
  <2>5. h \in [1 .. n + 1 -> Seq(S)]
    BY <2>4
  <2>6. \A i \in 1 .. n + 1 : h[i] = IF i = 1 THEN seqs[i] ELSE h[i - 1] \o seqs[i]
    <3> SUFFICES ASSUME NEW i \in 1 .. n + 1
                 PROVE  h[i] = IF i = 1 THEN seqs[i] ELSE h[i - 1] \o seqs[i]
      OBVIOUS
    <3>1. CASE i = n + 1
      <4>1. h[i] = last
        BY <3>1
      <4>2. i # 1 => h[i - 1] = g[n]
        BY <3>1
      <4> QED BY <3>1, <4>1, <4>2
    <3>2. CASE i # n + 1
      <4>1. i \in 1 .. n /\ h[i] = g[i]
        BY <3>2
      <4>2. i # 1 => h[i - 1] = g[i - 1]
        BY <3>2
      <4> QED BY <2>3, <4>1, <4>2
    <3> QED BY <3>1, <3>2
  <2> HIDE DEF h
  <2>7. Concatenates(seqs, n + 1, h)
    BY <2>5, <2>6 DEF Concatenates
  <2> QED BY <2>5, <2>7
<1> HIDE DEF T
<1>3. \A n \in Nat : n \in T
  BY <1>1, <1>2, SetInduction
<1> QED BY <1>3 DEF T

\* FlattenSeq is the last of the prefixes.
LEMMA FlattenIsLastPrefix ==
  ASSUME NEW S, NEW seqs \in Seq(Seq(S)), seqs # <<>>
  PROVE  \E g \in [1 .. Len(seqs) -> Seq(S)] :
           /\ g[1] = seqs[1]
           /\ \A i \in 2 .. Len(seqs) : g[i] = g[i - 1] \o seqs[i]
           /\ FlattenSeq(seqs) = g[Len(seqs)]
<1> DEFINE g == CHOOSE f : Concatenates(seqs, Len(seqs), f)
<1>1. PICK n \in Nat \ {0} : n = Len(seqs)
  OBVIOUS
<1>2. \E f \in [1 .. n -> Seq(S)] : Concatenates(seqs, n, f)
  <2>1. n \in Nat /\ n <= Len(seqs)
    BY <1>1
  <2> QED BY <2>1, PrefixesExist
<1>3. Concatenates(seqs, n, g)
  BY <1>1, <1>2
<1>4. FlattenSeq(seqs) = g[n]
  BY <1>1 DEF FlattenSeq, Concatenates
<1> HIDE DEF g
<1>5. \A i \in 1 .. n : g[i] = IF i = 1 THEN seqs[i] ELSE g[i - 1] \o seqs[i]
  BY <1>3 DEF Concatenates
<1>6. \A i \in 1 .. n : seqs[i] \in Seq(S)
  BY <1>1
<1>7. \A i \in 1 .. n : g[i] \in Seq(S)
  <2> DEFINE T == {i \in Nat : i + 1 <= n => g[i + 1] \in Seq(S)}
  <2>1. 0 \in T
    <3>1. 1 \in 1 .. n
      OBVIOUS
    <3> QED BY <1>5, <1>6, <3>1
  <2>2. ASSUME NEW i \in Nat, i \in T PROVE i + 1 \in T
    <3> SUFFICES ASSUME i + 2 <= n PROVE g[i + 2] \in Seq(S)
      OBVIOUS
    <3>1. i + 2 \in 1 .. n /\ i + 2 # 1 /\ (i + 2) - 1 = i + 1 /\ i + 1 <= n
      OBVIOUS
    <3>2. g[i + 1] \in Seq(S)
      BY <2>2, <3>1
    <3>3. g[i + 2] = g[i + 1] \o seqs[i + 2]
      BY <1>5, <3>1
    <3> QED BY <1>6, <3>1, <3>2, <3>3
  <2> HIDE DEF T
  <2>3. \A i \in Nat : i \in T
    BY <2>1, <2>2, SetInduction
  <2>4. ASSUME NEW i \in 1 .. n PROVE g[i] \in Seq(S)
    <3>1. i - 1 \in Nat /\ (i - 1) + 1 = i /\ i <= n
      OBVIOUS
    <3>2. i - 1 \in T
      BY <2>3, <3>1
    <3> QED BY <3>1, <3>2 DEF T
  <2> QED BY <2>4
<1>8. g \in [1 .. n -> Seq(S)]
  BY <1>3, <1>7 DEF Concatenates
<1>9. g[1] = seqs[1] /\ \A i \in 2 .. n : g[i] = g[i - 1] \o seqs[i]
  <2>1. 1 \in 1 .. n /\ \A i \in 2 .. n : i \in 1 .. n /\ i # 1
    OBVIOUS
  <2> QED BY <1>5, <2>1
<1> QED BY <1>1, <1>4, <1>8, <1>9

\* The elements of a concatenation.
LEMMA Concatenation ==
  ASSUME NEW S, NEW s \in Seq(S), NEW t \in Seq(S)
  PROVE  /\ s \o t \in Seq(S)
         /\ Len(s \o t) = Len(s) + Len(t)
         /\ \A p \in 1 .. Len(s) : (s \o t)[p] = s[p]
         /\ \A p \in 1 .. Len(t) : (s \o t)[Len(s) + p] = t[p]
OBVIOUS

\* start[i] is where sequence i starts in the concatenation, less one.
Starts(seqs, start) ==
  /\ start \in [1 .. Len(seqs) + 1 -> Nat]
  /\ start[1] = 0
  /\ \A i \in 1 .. Len(seqs) : start[i + 1] = start[i] + Len(seqs[i])

\* A sequence does not start before an earlier one.
LEMMA StartsAscend ==
  ASSUME NEW S, NEW seqs \in Seq(Seq(S)), NEW start, Starts(seqs, start)
  PROVE  \A i, k \in 1 .. Len(seqs) + 1 : i <= k => start[i] <= start[k]
<1> DEFINE T == {d \in Nat : \A i \in 1 .. Len(seqs) + 1 :
                              i + d <= Len(seqs) + 1 => start[i] <= start[i + d]}
<1>1. PICK n \in Nat : n = Len(seqs)
  OBVIOUS
<1>2. \A i \in 1 .. n + 1 : start[i] \in Nat
  BY <1>1 DEF Starts
<1>3. 0 \in T
  BY <1>1, <1>2
<1>4. ASSUME NEW d \in Nat, d \in T PROVE d + 1 \in T
  <2> SUFFICES ASSUME NEW i \in 1 .. n + 1, i + (d + 1) <= n + 1
               PROVE  start[i] <= start[i + (d + 1)]
    BY <1>1
  <2>1. i + d \in 1 .. n /\ i + d + 1 = i + (d + 1) /\ i + (d + 1) \in 1 .. n + 1
    OBVIOUS
  <2>2. start[i] <= start[i + d]
    BY <1>1, <1>4
  <2>3. seqs[i + d] \in Seq(S)
    BY <1>1, <2>1
  <2>4. start[i + d + 1] = start[i + d] + Len(seqs[i + d]) /\ Len(seqs[i + d]) \in Nat
    BY <1>1, <2>1, <2>3 DEF Starts
  <2> QED BY <1>2, <2>1, <2>2, <2>4
<1> HIDE DEF T
<1>5. \A d \in Nat : d \in T
  BY <1>3, <1>4, SetInduction
<1>6. ASSUME NEW i \in 1 .. n + 1, NEW k \in 1 .. n + 1, i <= k PROVE start[i] <= start[k]
  <2>1. k - i \in T /\ i + (k - i) = k
    BY <1>5, <1>6
  <2> QED BY <1>1, <2>1 DEF T
<1> QED BY <1>1, <1>6

\* s holds the first k sequences, each at its start, and nothing else.
HoldsFirst(seqs, start, k, s) ==
  /\ \A i \in 1 .. k : \A j \in 1 .. Len(seqs[i]) :
       start[i] + j \in 1 .. Len(s) /\ s[start[i] + j] = seqs[i][j]
  /\ \A p \in 1 .. Len(s) : \E i \in 1 .. k : p - start[i] \in 1 .. Len(seqs[i])

LEMMA HoldsNext ==
  ASSUME NEW S, NEW seqs, NEW start, NEW k \in Nat, NEW s \in Seq(S), NEW t \in Seq(S),
         HoldsFirst(seqs, start, k, s), t = seqs[k + 1], start[k + 1] = Len(s)
  PROVE  HoldsFirst(seqs, start, k + 1, s \o t)
<1>1. /\ Len(s \o t) = Len(s) + Len(t)
      /\ \A p \in 1 .. Len(s) : (s \o t)[p] = s[p]
      /\ \A p \in 1 .. Len(t) : (s \o t)[Len(s) + p] = t[p]
  BY Concatenation
<1> DEFINE u == s \o t
<1>2. Len(s) \in Nat /\ Len(t) \in Nat
  OBVIOUS
<1> HIDE DEF u
<1>3. ASSUME NEW i \in 1 .. k + 1, NEW j \in 1 .. Len(seqs[i])
      PROVE  start[i] + j \in 1 .. Len(u) /\ u[start[i] + j] = seqs[i][j]
  <2>1. CASE i = k + 1
    <3>1. j \in 1 .. Len(t) /\ start[i] + j = Len(s) + j /\ seqs[i][j] = t[j]
      BY <2>1
    <3>2. Len(s) + j \in 1 .. Len(s) + Len(t)
      BY <1>2, <3>1
    <3> QED BY <1>1, <3>1, <3>2 DEF u
  <2>2. CASE i # k + 1
    <3>1. i \in 1 .. k
      BY <2>2
    <3>2. start[i] + j \in 1 .. Len(s) /\ s[start[i] + j] = seqs[i][j]
      BY <3>1 DEF HoldsFirst
    <3> QED BY <1>1, <1>2, <3>2 DEF u
  <2> QED BY <2>1, <2>2
<1>4. ASSUME NEW p \in 1 .. Len(u)
      PROVE  \E i \in 1 .. k + 1 : p - start[i] \in 1 .. Len(seqs[i])
  <2>1. CASE p <= Len(s)
    <3>1. p \in 1 .. Len(s)
      BY <1>2, <2>1
    <3>2. PICK i \in 1 .. k : p - start[i] \in 1 .. Len(seqs[i])
      BY <3>1 DEF HoldsFirst
    <3>3. i \in 1 .. k + 1
      OBVIOUS
    <3> QED BY <3>2, <3>3
  <2>2. CASE ~ (p <= Len(s))
    <3>1. p - Len(s) \in 1 .. Len(t)
      BY <1>1, <1>2, <2>2 DEF u
    <3>2. k + 1 \in 1 .. k + 1
      OBVIOUS
    <3> QED BY <3>1, <3>2
  <2> QED BY <2>1, <2>2
<1> QED BY <1>3, <1>4 DEF HoldsFirst, u

LEMMA Predecessor ==
  ASSUME NEW n \in Nat, NEW i \in 1 .. n, i # 1
  PROVE  i \in 2 .. n /\ i - 1 \in 1 .. n /\ (i - 1) + 1 = i
OBVIOUS

\* The concatenation holds every sequence, at its start, and nothing else.
LEMMA FlattenLayout ==
  ASSUME NEW S, NEW seqs \in Seq(Seq(S))
  PROVE  \E start : /\ Starts(seqs, start)
                    /\ FlattenSeq(seqs) \in Seq(S)
                    /\ Len(FlattenSeq(seqs)) = start[Len(seqs) + 1]
                    /\ HoldsFirst(seqs, start, Len(seqs), FlattenSeq(seqs))
<1>1. CASE seqs = <<>>
  <2> DEFINE start == [i \in 1 .. 1 |-> 0]
  <2>1. FlattenSeq(seqs) = <<>> /\ Len(seqs) = 0
    BY <1>1 DEF FlattenSeq
  <2>2. Starts(seqs, start) /\ start[1] = 0
    BY <2>1 DEF Starts
  <2> HIDE DEF start
  <2>3. HoldsFirst(seqs, start, Len(seqs), FlattenSeq(seqs))
    BY <2>1 DEF HoldsFirst
  <2>4. FlattenSeq(seqs) \in Seq(S) /\ Len(FlattenSeq(seqs)) = start[Len(seqs) + 1]
    BY <2>1, <2>2
  <2> QED BY <2>2, <2>3, <2>4, Zenon
<1>2. CASE seqs # <<>>
  <2>1. PICK n \in Nat \ {0} : n = Len(seqs)
    BY <1>2
  <2>2. PICK g \in [1 .. n -> Seq(S)] : /\ g[1] = seqs[1]
                                        /\ \A i \in 2 .. n : g[i] = g[i - 1] \o seqs[i]
                                        /\ FlattenSeq(seqs) = g[n]
    BY <1>2, <2>1, FlattenIsLastPrefix
  <2>3. \A i \in 1 .. n : seqs[i] \in Seq(S) /\ Len(seqs[i]) \in Nat
    BY <2>1
  <2>4. \A i \in 1 .. n : g[i] \in Seq(S) /\ Len(g[i]) \in Nat
    BY <2>2
  <2> DEFINE start == [i \in 1 .. n + 1 |-> IF i = 1 THEN 0 ELSE Len(g[i - 1])]
  <2>5. start[1] = 0 /\ \A i \in 1 .. n : start[i + 1] = Len(g[i])
    OBVIOUS
  <2>6. start \in [1 .. n + 1 -> Nat]
    BY <2>4
  <2> HIDE DEF start
  <2>7. ASSUME NEW i \in 1 .. n PROVE start[i + 1] = start[i] + Len(seqs[i])
    <3>1. CASE i = 1
      BY <2>2, <2>3, <2>5, <3>1
    <3>2. CASE i # 1
      <4>1. i \in 2 .. n /\ i - 1 \in 1 .. n /\ (i - 1) + 1 = i
        BY <3>2, Predecessor
      <4>2. g[i] = g[i - 1] \o seqs[i] /\ start[i] = Len(g[i - 1])
        BY <2>2, <2>5, <4>1
      <4>3. g[i - 1] \in Seq(S) /\ seqs[i] \in Seq(S)
        BY <2>3, <2>4, <4>1
      <4>4. Len(g[i - 1] \o seqs[i]) = Len(g[i - 1]) + Len(seqs[i])
        BY <4>3, Concatenation
      <4>5. start[i + 1] = Len(g[i - 1] \o seqs[i])
        BY <2>5, <4>2
      <4> QED BY <4>2, <4>4, <4>5
    <3> QED BY <3>1, <3>2
  <2>8. Starts(seqs, start)
    BY <2>1, <2>5, <2>6, <2>7 DEF Starts
  <2> DEFINE T == {m \in Nat : m + 1 <= n => HoldsFirst(seqs, start, m + 1, g[m + 1])}
  <2>9. 0 \in T
    <3>1. HoldsFirst(seqs, start, 0, <<>>)
      BY DEF HoldsFirst
    <3>2. seqs[1] \in Seq(S) /\ <<>> \in Seq(S) /\ Len(<<>>) = 0
      BY <2>3
    <3>3. HoldsFirst(seqs, start, 0 + 1, <<>> \o seqs[1])
      <4>1. 0 + 1 = 1 /\ start[0 + 1] = Len(<<>>)
        BY <2>5, <3>2
      <4>2. seqs[1] = seqs[0 + 1] /\ 0 \in Nat
        BY <4>1
      <4> QED BY <3>1, <3>2, <4>1, <4>2, HoldsNext, Zenon
    <3>4. <<>> \o seqs[1] = g[1]
      BY <2>2, <3>2
    <3> QED BY <3>3, <3>4
  <2>10. ASSUME NEW m \in Nat, m \in T PROVE m + 1 \in T
    <3> SUFFICES ASSUME m + 2 <= n PROVE HoldsFirst(seqs, start, m + 2, g[m + 2])
      OBVIOUS
    <3>1. m + 1 \in 1 .. n /\ m + 2 \in 2 .. n /\ (m + 2) - 1 = m + 1 /\ (m + 1) + 1 = m + 2
      OBVIOUS
    <3>2. HoldsFirst(seqs, start, m + 1, g[m + 1])
      BY <2>10, <3>1
    <3>3. g[m + 1] \in Seq(S) /\ seqs[m + 2] \in Seq(S)
      BY <2>3, <2>4, <3>1
    <3>4. g[m + 2] = g[m + 1] \o seqs[m + 2]
      BY <2>2, <3>1
    <3>5. start[m + 2] = Len(g[m + 1])
      BY <2>5, <3>1
    <3>6. HoldsFirst(seqs, start, (m + 1) + 1, g[m + 1] \o seqs[m + 2])
      BY <3>1, <3>2, <3>3, <3>5, HoldsNext
    <3> QED BY <3>1, <3>4, <3>6
  <2> HIDE DEF T
  <2>11. \A m \in Nat : m \in T
    BY <2>9, <2>10, SetInduction
  <2>12. HoldsFirst(seqs, start, n, g[n])
    <3>1. n - 1 \in T /\ (n - 1) + 1 = n
      BY <2>11
    <3> QED BY <3>1 DEF T
  <2>13. start[n + 1] = Len(g[n]) /\ g[n] \in Seq(S)
    BY <2>4, <2>5
  <2>14. /\ Starts(seqs, start)
         /\ FlattenSeq(seqs) \in Seq(S)
         /\ Len(FlattenSeq(seqs)) = start[Len(seqs) + 1]
         /\ HoldsFirst(seqs, start, Len(seqs), FlattenSeq(seqs))
    BY <2>1, <2>2, <2>8, <2>12, <2>13
  <2> QED BY <2>14, Zenon
<1> QED BY <1>1, <1>2
=============================================================================
