----------------------------- MODULE Induction ------------------------------
(***************************************************************************)
(* Induction over the natural numbers as facts about sets, which the       *)
(* provers can apply, and from it the existence of functions defined by    *)
(* recursion.  The other proof modules use them for what a loop computes.  *)
(***************************************************************************)
EXTENDS Naturals, Sequences, WellFoundedInduction, TLAPS

\* Every nonempty set of numbers has a least element.
LEMMA LeastElement ==
  ASSUME NEW S, S \subseteq Nat, S # {}
  PROVE  \E n \in S : \A m \in S : n <= m
<1> DEFINE R == OpToRel(<, Nat)
<1>1. IsWellFoundedOn(R, Nat) BY NatLessThanWellFounded
<1>2. \A m, n \in Nat : m < n => <<m, n>> \in R BY DEF OpToRel
<1> HIDE DEF R
<1>3. PICK n \in S : \A m \in S : ~(<<m, n>> \in R) BY <1>1, WFMin
<1>4. \A m \in S : ~(m < n) BY <1>2, <1>3
<1> QED BY <1>4

\* A set that holds 0 and the successor of each of its numbers holds all.
LEMMA NatInSet ==
  ASSUME NEW S, 0 \in S, \A n \in Nat : n \in S => n + 1 \in S
  PROVE  \A n \in Nat : n \in S
<1> DEFINE T == Nat \ S
<1> SUFFICES ASSUME T # {} PROVE FALSE OBVIOUS
<1>1. PICK n \in T : \A m \in T : n <= m BY LeastElement
<1>2. n # 0 /\ n - 1 \in Nat OBVIOUS
<1>3. n - 1 \notin T BY <1>1, <1>2
<1> QED BY <1>2, <1>3

\* A nonempty set of numbers with a bound has a greatest element.
LEMMA GreatestElement ==
  ASSUME NEW S, S \subseteq Nat, S # {}, NEW bound \in Nat, \A n \in S : n <= bound
  PROVE  \E n \in S : \A m \in S : m <= n
<1> DEFINE T == {n \in Nat : \A m \in S : m <= n}
<1>1. T # {} OBVIOUS
<1>2. PICK n \in T : \A m \in T : n <= m BY <1>1, LeastElement
<1>3. \A m \in S : m <= n BY <1>2
<1>4. ASSUME n \notin S PROVE FALSE
  <2>1. PICK m \in S : TRUE OBVIOUS
  <2>2. \A i \in S : i <= n - 1 BY <1>3, <1>4, <1>2
  <2>3. n - 1 \in Nat BY <2>1, <2>2
  <2>4. n - 1 \in T BY <2>2, <2>3
  <2> QED BY <1>2, <2>4
<1> QED BY <1>3, <1>4

----------------------------------------------------------------------------
(* Recursion.                                                              *)

\* The functions on 0 .. n that begin with `first` and go on with `step`.
Iterates(V, first, step, n) ==
  {g \in [0 .. n -> V] : g[0] = first /\ \A i \in 1 .. n : g[i] = step[i][g[i - 1]]}

LEMMA IteratesExists ==
  ASSUME NEW V, NEW first \in V, NEW step, NEW m \in Nat,
         \A n \in 1 .. m : step[n] \in [V -> V]
  PROVE  \A n \in 0 .. m : Iterates(V, first, step, n) # {}
<1> DEFINE S == {n \in Nat : n <= m => Iterates(V, first, step, n) # {}}
<1>1. 0 \in S
  <2>1. [i \in 0 .. 0 |-> first] \in Iterates(V, first, step, 0) BY DEF Iterates
  <2> QED BY <2>1
<1>2. ASSUME NEW n \in Nat, n \in S PROVE n + 1 \in S
  <2> SUFFICES ASSUME n + 1 <= m PROVE Iterates(V, first, step, n + 1) # {} OBVIOUS
  <2>1. PICK g \in Iterates(V, first, step, n) : TRUE BY <1>2
  <2> DEFINE h == [i \in 0 .. n + 1 |-> IF i = n + 1 THEN step[n + 1][g[n]] ELSE g[i]]
  <2>2. g[n] \in V BY <2>1 DEF Iterates
  <2>3. h \in [0 .. n + 1 -> V] BY <2>1, <2>2 DEF Iterates
  <2>4. h[0] = first BY <2>1 DEF Iterates
  <2>5. ASSUME NEW i \in 1 .. n + 1 PROVE h[i] = step[i][h[i - 1]]
    <3>1. CASE i = n + 1
      <4>1. h[n + 1] = step[n + 1][g[n]] /\ h[n] = g[n] OBVIOUS
      <4>2. i - 1 = n BY <3>1
      <4> HIDE DEF h
      <4> QED BY <4>1, <4>2, <3>1
    <3>2. CASE i # n + 1
      <4>1. i \in 1 .. n BY <3>2
      <4>2. g[i] = step[i][g[i - 1]] BY <4>1, <2>1 DEF Iterates
      <4>3. h[i] = g[i] /\ h[i - 1] = g[i - 1] BY <4>1
      <4> QED BY <4>2, <4>3
    <3> QED BY <3>1, <3>2
  <2> HIDE DEF h
  <2>6. h \in Iterates(V, first, step, n + 1) BY <2>3, <2>4, <2>5 DEF Iterates
  <2> QED BY <2>6
<1> HIDE DEF S
<1>3. \A n \in Nat : n \in S BY <1>1, <1>2, NatInSet
<1> QED BY <1>3 DEF S

LEMMA IteratesUnique ==
  ASSUME NEW V, NEW first, NEW step, NEW m \in Nat, NEW n \in Nat,
         NEW g \in Iterates(V, first, step, m), NEW h \in Iterates(V, first, step, n)
  PROVE  \A i \in Nat : i <= m /\ i <= n => g[i] = h[i]
<1> DEFINE S == {i \in Nat : i <= m /\ i <= n => g[i] = h[i]}
<1>1. 0 \in S BY DEF Iterates
<1>2. ASSUME NEW i \in Nat, i \in S PROVE i + 1 \in S
  <2> SUFFICES ASSUME i + 1 <= m, i + 1 <= n PROVE g[i + 1] = h[i + 1] OBVIOUS
  <2>1. g[i] = h[i] BY <1>2
  <2>2. /\ g[i + 1] = step[i + 1][g[(i + 1) - 1]]
        /\ h[i + 1] = step[i + 1][h[(i + 1) - 1]]
    BY DEF Iterates
  <2>3. (i + 1) - 1 = i OBVIOUS
  <2> QED BY <2>1, <2>2, <2>3
<1> HIDE DEF S
<1>3. \A i \in Nat : i \in S BY <1>1, <1>2, NatInSet
<1> QED BY <1>3 DEF S

\* A first value and m steps define a function on 0 .. m.
LEMMA BoundedRecursion ==
  ASSUME NEW V, NEW first \in V, NEW m \in Nat, NEW step,
         \A n \in 1 .. m : step[n] \in [V -> V]
  PROVE  \E f : f \in Iterates(V, first, step, m)
<1>1. Iterates(V, first, step, m) # {} BY IteratesExists
<1> QED BY <1>1

\* The same for a step for every number.
IteratesOnNat(V, first, step) ==
  {g \in [Nat -> V] : g[0] = first /\ \A i \in Nat \ {0} : g[i] = step[i][g[i - 1]]}

LEMMA Recursion ==
  ASSUME NEW V, NEW first \in V, NEW step, \A n \in Nat \ {0} : step[n] \in [V -> V]
  PROVE  \E f : f \in IteratesOnNat(V, first, step)
<1> DEFINE G(n) == CHOOSE g : g \in Iterates(V, first, step, n)
           f == [n \in Nat |-> G(n)[n]]
<1>1. ASSUME NEW n \in Nat PROVE G(n) \in Iterates(V, first, step, n)
  <2>1. Iterates(V, first, step, n) # {}
    <3>1. n \in 0 .. n /\ \A i \in 1 .. n : step[i] \in [V -> V] OBVIOUS
    <3> QED BY <3>1, IteratesExists
  <2> QED BY <2>1
<1> HIDE DEF G
<1>2. f \in [Nat -> V] BY <1>1 DEF Iterates
<1>3. f[0] = first BY <1>1 DEF Iterates
<1>4. ASSUME NEW n \in Nat \ {0} PROVE f[n] = step[n][f[n - 1]]
  <2>1. n - 1 \in Nat /\ n - 1 <= n OBVIOUS
  <2>2. G(n)[n] = step[n][G(n)[n - 1]] BY <1>1 DEF Iterates
  <2>3. G(n)[n - 1] = G(n - 1)[n - 1] BY <1>1, <2>1, IteratesUnique
  <2> QED BY <2>1, <2>2, <2>3
<1> HIDE DEF f
<1>5. f \in IteratesOnNat(V, first, step) BY <1>2, <1>3, <1>4 DEF IteratesOnNat
<1> QED BY <1>5

\* A function defined by recursion on the arguments of a smaller size.
LooksAtSmaller(S, V, size, step) ==
  \A s \in S : \A g, h \in [S -> V] :
    (\A t \in S : size[t] < size[s] => g[t] = h[t]) => step[s][g] = step[s][h]

FixedPoints(S, V, step) == {f \in [S -> V] : \A s \in S : f[s] = step[s][f]}

LEMMA SizeRecursion ==
  ASSUME NEW S, NEW V, NEW v \in V, NEW size \in [S -> Nat], NEW step \in [S -> [[S -> V] -> V]],
         LooksAtSmaller(S, V, size, step)
  PROVE  \E f : f \in FixedPoints(S, V, step)
<1> DEFINE F == [S -> V]
           first == [s \in S |-> v]
           again == [n \in Nat \ {0} |-> [g \in F |-> [s \in S |-> step[s][g]]]]
<1>1. first \in F OBVIOUS
<1>2. \A n \in Nat \ {0} : again[n] \in [F -> F] OBVIOUS
<1>3. \A n \in Nat \ {0}, g \in F, s \in S : again[n][g][s] = step[s][g] OBVIOUS
<1> HIDE DEF first, again, F
<1>4. PICK k : k \in IteratesOnNat(F, first, again) BY <1>1, <1>2, Recursion
<1>5. k \in [Nat -> F] /\ \A n \in Nat \ {0} : k[n] = again[n][k[n - 1]]
  BY <1>4 DEF IteratesOnNat
<1>6. \A n \in Nat, s \in S : k[n + 1][s] = step[s][k[n]]
  <2> TAKE n \in Nat, s \in S
  <2>1. n + 1 \in Nat \ {0} /\ (n + 1) - 1 = n /\ k[n] \in F BY <1>5
  <2>2. k[n + 1] = again[n + 1][k[n]] BY <1>5, <2>1
  <2> QED BY <1>3, <2>1, <2>2
<1> DEFINE Settled(n) == \A s \in S : size[s] < n => k[n + 1][s] = k[n][s]
           N == {n \in Nat : Settled(n)}
<1>7. \A n \in Nat : n \in N
  <2>1. 0 \in N OBVIOUS
  <2>2. ASSUME NEW n \in Nat, n \in N PROVE n + 1 \in N
    <3> SUFFICES ASSUME NEW s \in S, size[s] < n + 1 PROVE k[(n + 1) + 1][s] = k[n + 1][s]
      OBVIOUS
    <3>1. \A t \in S : size[t] < size[s] => k[n + 1][t] = k[n][t] BY <2>2
    <3>2. k[n] \in [S -> V] /\ k[n + 1] \in [S -> V] BY <1>5 DEF F
    <3>3. step[s][k[n + 1]] = step[s][k[n]] BY <3>1, <3>2 DEF LooksAtSmaller
    <3>4. k[(n + 1) + 1][s] = step[s][k[n + 1]] /\ k[n + 1][s] = step[s][k[n]] BY <1>6
    <3> QED BY <3>3, <3>4
  <2> HIDE DEF N
  <2> QED BY <2>1, <2>2, NatInSet
<1>8. \A s \in S, m \in Nat : k[size[s] + 1 + m][s] = k[size[s] + 1][s]
  <2> TAKE s \in S
  <2> DEFINE M == {m \in Nat : k[size[s] + 1 + m][s] = k[size[s] + 1][s]}
  <2>1. 0 \in M OBVIOUS
  <2>2. ASSUME NEW m \in Nat, m \in M PROVE m + 1 \in M
    <3>1. size[s] + 1 + m \in Nat /\ size[s] < size[s] + 1 + m OBVIOUS
    <3>2. k[(size[s] + 1 + m) + 1][s] = k[size[s] + 1 + m][s] BY <1>7, <3>1
    <3>3. (size[s] + 1 + m) + 1 = size[s] + 1 + (m + 1)
      <4>1. \A i \in Nat : (i + 1 + m) + 1 = i + 1 + (m + 1) OBVIOUS
      <4> QED BY <4>1
    <3> QED BY <2>2, <3>2, <3>3
  <2> HIDE DEF M
  <2>3. \A m \in Nat : m \in M BY <2>1, <2>2, NatInSet
  <2> QED BY <2>3 DEF M
<1> DEFINE f == [s \in S |-> k[size[s] + 1][s]]
<1>9. f \in [S -> V]
  <2>1. \A s \in S : k[size[s] + 1] \in [S -> V] BY <1>5 DEF F
  <2> QED BY <2>1
<1>10. ASSUME NEW s \in S PROVE f[s] = step[s][f]
  <2>1. f[s] = step[s][k[size[s]]] BY <1>6
  <2>2. \A t \in S : size[t] < size[s] => k[size[s]][t] = f[t]
    <3> SUFFICES ASSUME NEW t \in S, size[t] < size[s] PROVE k[size[s]][t] = k[size[t] + 1][t]
      OBVIOUS
    <3>1. PICK m \in Nat : size[s] = size[t] + 1 + m
      <4>1. size[s] - (size[t] + 1) \in Nat OBVIOUS
      <4> QED BY <4>1
    <3> QED BY <1>8, <3>1
  <2>3. k[size[s]] \in [S -> V] BY <1>5 DEF F
  <2> HIDE DEF f
  <2> QED BY <1>9, <2>1, <2>2, <2>3 DEF LooksAtSmaller
<1> HIDE DEF f
<1>11. f \in FixedPoints(S, V, step) BY <1>9, <1>10 DEF FixedPoints
<1> QED BY <1>11

----------------------------------------------------------------------------
(* Sequences, from their first elements on.                                *)

\* The sequence without its first k elements.
LEMMA Shortened ==
  ASSUME NEW C, NEW s \in Seq(C), NEW k \in 0 .. Len(s)
  PROVE  /\ SubSeq(s, k + 1, Len(s)) \in Seq(C)
         /\ Len(SubSeq(s, k + 1, Len(s))) = Len(s) - k
         /\ \A i \in 1 .. Len(s) - k : SubSeq(s, k + 1, Len(s))[i] = s[k + i]
<1>1. Len(s) \in Nat OBVIOUS
<1> QED BY <1>1

\* What holds of a sequence when it holds of every shorter one holds of all.
LEMMA ShorterInSet ==
  ASSUME NEW C, NEW S,
         \A s \in Seq(C) : (\A t \in Seq(C) : Len(t) < Len(s) => t \in S) => s \in S
  PROVE  \A s \in Seq(C) : s \in S
<1> DEFINE N == {n \in Nat : \A s \in Seq(C) : Len(s) < n => s \in S}
<1>1. 0 \in N
  <2>1. \A s \in Seq(C) : ~(Len(s) < 0) OBVIOUS
  <2> QED BY <2>1
<1>2. ASSUME NEW n \in Nat, n \in N PROVE n + 1 \in N
  <2> SUFFICES ASSUME NEW s \in Seq(C), Len(s) < n + 1 PROVE s \in S OBVIOUS
  <2>1. ASSUME NEW t \in Seq(C), Len(t) < Len(s) PROVE t \in S
    <3>1. Len(t) \in Nat /\ Len(s) \in Nat OBVIOUS
    <3>2. Len(t) < n BY <2>1, <3>1
    <3> QED BY <1>2, <3>2
  <2> QED BY <2>1
<1> HIDE DEF N
<1>3. \A n \in Nat : n \in N BY <1>1, <1>2, NatInSet
<1> SUFFICES ASSUME NEW s \in Seq(C) PROVE s \in S OBVIOUS
<1>4. Len(s) + 1 \in Nat /\ Len(s) < Len(s) + 1
  <2>1. Len(s) \in Nat OBVIOUS
  <2> QED BY <2>1
<1> QED BY <1>3, <1>4 DEF N

\* A function defined by recursion on the rest of a sequence after its first
\* and after its second element.
RecursiveOnSeq(C, V, first, step) ==
  {f \in [Seq(C) -> V] :
     /\ f[<<>>] = first
     /\ \A s \in Seq(C) \ {<<>>} :
          f[s] = step[s][f[SubSeq(s, 2, Len(s))]][f[SubSeq(s, 3, Len(s))]]}

LEMMA SequenceRecursion ==
  ASSUME NEW C, NEW V, NEW first \in V,
         NEW step \in [Seq(C) \ {<<>>} -> [V -> [V -> V]]]
  PROVE  \E f : f \in RecursiveOnSeq(C, V, first, step)
<1> DEFINE S == Seq(C)
           size == [s \in S |-> Len(s)]
           Value(g, s) == IF s = <<>> THEN first
                          ELSE step[s][g[SubSeq(s, 2, Len(s))]][g[SubSeq(s, 3, Len(s))]]
           again == [s \in S |-> [g \in [S -> V] |-> Value(g, s)]]
<1>1. size \in [S -> Nat] OBVIOUS
<1>2. ASSUME NEW s \in S, s # <<>>
      PROVE  /\ SubSeq(s, 2, Len(s)) \in S /\ Len(SubSeq(s, 2, Len(s))) < Len(s)
             /\ SubSeq(s, 3, Len(s)) \in S /\ Len(SubSeq(s, 3, Len(s))) < Len(s)
  <2>1. Len(s) \in Nat \ {0} BY <1>2
  <2> QED BY <2>1
<1>3. ASSUME NEW s \in S, NEW g \in [S -> V] PROVE Value(g, s) \in V
  <2>1. CASE s = <<>> BY <2>1
  <2>2. CASE s # <<>>
    <3>1. g[SubSeq(s, 2, Len(s))] \in V /\ g[SubSeq(s, 3, Len(s))] \in V BY <1>2, <2>2
    <3> HIDE DEF S
    <3>2. step[s] \in [V -> [V -> V]] BY <2>2 DEF S
    <3> QED BY <2>2, <3>1, <3>2
  <2> QED BY <2>1, <2>2
<1>4. ASSUME NEW s \in S, NEW g \in [S -> V], NEW h \in [S -> V],
             \A t \in S : size[t] < size[s] => g[t] = h[t]
      PROVE  Value(g, s) = Value(h, s)
  <2>1. CASE s = <<>> BY <2>1
  <2>2. CASE s # <<>>
    <3>1. /\ g[SubSeq(s, 2, Len(s))] = h[SubSeq(s, 2, Len(s))]
          /\ g[SubSeq(s, 3, Len(s))] = h[SubSeq(s, 3, Len(s))]
      BY <1>2, <1>4, <2>2
    <3> QED BY <2>2, <3>1
  <2> QED BY <2>1, <2>2
<1> HIDE DEF Value
<1>5. again \in [S -> [[S -> V] -> V]] BY <1>3
<1>6. LooksAtSmaller(S, V, size, again) BY <1>4 DEF LooksAtSmaller
<1>7. \A s \in S, g \in [S -> V] : again[s][g] = Value(g, s) OBVIOUS
<1> HIDE DEF again, size, S
<1>8. PICK f : f \in FixedPoints(S, V, again) BY <1>1, <1>5, <1>6, SizeRecursion
<1>9. f \in [S -> V] /\ \A s \in S : f[s] = Value(f, s) BY <1>7, <1>8 DEF FixedPoints
<1>10. <<>> \in S BY DEF S
<1>11. f[<<>>] = first BY <1>9, <1>10 DEF Value
<1>12. \A s \in S \ {<<>>} :
         f[s] = step[s][f[SubSeq(s, 2, Len(s))]][f[SubSeq(s, 3, Len(s))]]
  BY <1>9 DEF Value
<1>13. f \in RecursiveOnSeq(C, V, first, step) BY <1>9, <1>11, <1>12 DEF S, RecursiveOnSeq
<1> QED BY <1>13
=============================================================================
