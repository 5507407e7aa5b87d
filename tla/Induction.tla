----------------------------- MODULE Induction -----------------------------
(***************************************************************************)
(* Induction without operators as parameters: facts about sets of numbers, *)
(* finite sets, iterated functions and selections from a sequence, each    *)
(* drawn from a smallest counterexample.  The proofs about climbing a      *)
(* process tree, reading a file entry by entry and filtering rest on them. *)
(***************************************************************************)
EXTENDS Integers, Sequences, FiniteSets, Selection, FiniteSetTheorems,
        WellFoundedInduction, TLAPS

\* A nonempty set of naturals has a least member.
LEMMA Least ==
  ASSUME NEW S \in SUBSET Nat, S # {}
  PROVE  \E n \in S : \A m \in S : n <= m
<1> DEFINE R == OpToRel(<, Nat)
<1>1. IsWellFoundedOn(R, Nat)
  BY NatLessThanWellFounded
<1> HIDE DEF R
<1>2. \E n \in S : \A m \in S : ~ (<<m, n>> \in R)
  BY <1>1, WFMin
<1>3. \A m, n \in Nat : m < n => <<m, n>> \in R
  BY DEF R, OpToRel
<1>4. QED
  <2>1. PICK n \in S : \A m \in S : ~ (<<m, n>> \in R)
    BY <1>2
  <2>2. \A m \in S : ~(m < n)
    BY <1>3, <2>1
  <2>3. QED
    BY <2>2

\* A set of naturals that holds 0, and with n also n + 1, holds them all.
LEMMA AllNat ==
  ASSUME NEW S, 0 \in S, \A n \in Nat : n \in S => n + 1 \in S
  PROVE  Nat \subseteq S
<1> DEFINE Bad == {n \in Nat : n \notin S}
<1> SUFFICES ASSUME Bad # {}
             PROVE  FALSE
  OBVIOUS
<1>1. PICK n \in Bad : \A m \in Bad : n <= m
  BY Least
<1>2. n - 1 \in Nat /\ n - 1 \notin Bad
  BY <1>1
<1>3. n - 1 + 1 \in S
  BY <1>2
<1>4. QED
  BY <1>1, <1>3

\* The same for an interval.
LEMMA Upto ==
  ASSUME NEW k \in Nat, NEW n \in Nat, NEW S,
         k \in S, \A i \in k..n : i \in S /\ i < n => i + 1 \in S
  PROVE  k..n \subseteq S
<1> DEFINE G == {i \in Nat : k + i <= n => k + i \in S}
<1>1. 0 \in G
  OBVIOUS
<1>2. ASSUME NEW i \in Nat, i \in G
      PROVE  i + 1 \in G
  <2>1. CASE k + (i + 1) <= n
    <3>1. k + i \in k..n /\ k + i < n /\ k + i \in S
      BY <1>2, <2>1
    <3>2. (k + i) + 1 \in S
      BY <3>1
    <3>3. QED
      BY <3>2
  <2>2. QED
    BY <2>1
<1> HIDE DEF G
<1>3. Nat \subseteq G
  BY <1>1, <1>2, AllNat
<1>4. ASSUME NEW i \in k..n
      PROVE  i \in S
  <2>1. i - k \in Nat /\ k + (i - k) = i
    OBVIOUS
  <2>2. QED
    BY <1>3, <2>1 DEF G
<1>5. QED
  BY <1>4

\* A finite nonempty set has a member of the greatest key: the one with the
\* fewest above it.
LEMMA GreatestKey ==
  ASSUME NEW S, IsFiniteSet(S), S # {}, NEW key \in [S -> Int]
  PROVE  \E x \in S : \A y \in S : key[x] >= key[y]
<1> DEFINE above == [x \in S |-> {y \in S : key[y] > key[x]}]
           sizes == {Cardinality(above[x]) : x \in S}
<1>1. \A x \in S : IsFiniteSet(above[x])
  BY FS_Subset
<1>2. sizes \in SUBSET Nat /\ sizes # {}
  BY <1>1, FS_CardinalityType
<1>3. PICK x \in S : \A y \in S : Cardinality(above[x]) <= Cardinality(above[y])
  <2>1. PICK n \in sizes : \A m \in sizes : n <= m
    <3> HIDE DEF sizes
    <3> QED
      BY <1>2, Least
  <2>2. QED
    BY <2>1
<1>4. ASSUME NEW y \in S, key[y] > key[x]
      PROVE  FALSE
  <2>1. \A z \in S : key[z] > key[y] => key[z] > key[x]
    BY <1>4
  <2>2. y \in above[x] /\ y \notin above[y]
    BY <1>4
  <2>3. above[y] \subseteq above[x] /\ above[y] # above[x]
    BY <2>1, <2>2
  <2> HIDE DEF above
  <2>4. Cardinality(above[y]) \in Nat /\ Cardinality(above[x]) \in Nat
    BY <1>1, FS_CardinalityType
  <2>5. Cardinality(above[y]) <= Cardinality(above[x])
        /\ Cardinality(above[x]) # Cardinality(above[y])
    BY <1>1, <2>3, FS_Subset
  <2>6. QED
    BY <1>3, <2>4, <2>5
<1>5. QED
  BY <1>4

\* So a finite nonempty set of integers has a greatest and a least member.
LEMMA Greatest ==
  ASSUME NEW S \in SUBSET Int, IsFiniteSet(S), S # {}
  PROVE  \E x \in S : \A y \in S : x >= y
<1> DEFINE key == [x \in S |-> x]
<1>1. key \in [S -> Int]
  OBVIOUS
<1>2. \E x \in S : \A y \in S : key[x] >= key[y]
  <2> HIDE DEF key
  <2> QED
    BY <1>1, GreatestKey
<1>3. QED
  BY <1>2

LEMMA LeastOf ==
  ASSUME NEW S \in SUBSET Int, IsFiniteSet(S), S # {}
  PROVE  \E x \in S : \A y \in S : x <= y
<1> DEFINE key == [x \in S |-> 0 - x]
<1>1. key \in [S -> Int]
  OBVIOUS
<1>2. \E x \in S : \A y \in S : key[x] >= key[y]
  <2> HIDE DEF key
  <2> QED
    BY <1>1, GreatestKey
<1>3. QED
  BY <1>2

-----------------------------------------------------------------------------
\* The values of an iteration up to the n-th.
Iterates(X, x, step, n, g) ==
  /\ g \in [0..n -> X]
  /\ g[0] = x
  /\ \A i \in 0..n : i # 0 => g[i] = step[i][g[i - 1]]

\* Two iterations agree as far as both go.
LEMMA SameIterates ==
  ASSUME NEW X, NEW x \in X, NEW step \in [Nat -> [X -> X]],
         NEW n \in Nat, NEW m \in Nat, NEW g, NEW h,
         Iterates(X, x, step, n, g), Iterates(X, x, step, m, h),
         NEW i \in 0..n, i \in 0..m
  PROVE  g[i] = h[i]
<1> DEFINE Bad == {j \in Nat : j <= n /\ j <= m /\ g[j] # h[j]}
<1> SUFFICES ASSUME Bad # {}
             PROVE  FALSE
  OBVIOUS
<1>1. PICK j \in Bad : \A k \in Bad : j <= k
  BY Least
<1>2. j # 0
  BY <1>1 DEF Iterates
<1>3. j - 1 \in Nat /\ j - 1 \notin Bad
  BY <1>1, <1>2
<1>4. g[j - 1] = h[j - 1]
  BY <1>1, <1>3
<1>5. g[j] = step[j][g[j - 1]] /\ h[j] = step[j][h[j - 1]]
  BY <1>1, <1>2 DEF Iterates
<1>6. QED
  BY <1>1, <1>4, <1>5

\* An iteration goes on for as long as one likes.
LEMMA SomeIterates ==
  ASSUME NEW X, NEW x \in X, NEW step \in [Nat -> [X -> X]], NEW n \in Nat
  PROVE  \E g : Iterates(X, x, step, n, g)
<1> DEFINE Good == {k \in Nat : \E g : Iterates(X, x, step, k, g)}
<1>1. 0 \in Good
  <2> DEFINE g == [i \in 0..0 |-> x]
  <2>1. Iterates(X, x, step, 0, g)
    BY DEF Iterates
  <2>2. QED
    BY <2>1
<1>2. ASSUME NEW k \in Nat, k \in Good
      PROVE  k + 1 \in Good
  <2>1. PICK g : Iterates(X, x, step, k, g)
    BY <1>2
  <2> DEFINE h == [i \in 0..k + 1 |-> IF i = k + 1 THEN step[i][g[k]] ELSE g[i]]
  <2>2. g \in [0..k -> X] /\ g[0] = x /\ \A i \in 0..k : i # 0 => g[i] = step[i][g[i - 1]]
    BY <2>1 DEF Iterates
  <2>3. h \in [0..k + 1 -> X] /\ h[0] = x
    BY <2>2
  <2>4. ASSUME NEW i \in 0..k + 1, i # 0
        PROVE  h[i] = step[i][h[i - 1]]
    <3>1. h[i - 1] = g[i - 1]
      BY <2>4
    <3>2. CASE i = k + 1
      BY <3>1, <3>2
    <3>3. CASE i # k + 1
      BY <2>2, <2>4, <3>1, <3>3
    <3>4. QED
      BY <3>2, <3>3
  <2> HIDE DEF h
  <2>5. Iterates(X, x, step, k + 1, h)
    BY <2>3, <2>4 DEF Iterates
  <2>6. QED
    BY <2>5
<1> HIDE DEF Good
<1>3. Nat \subseteq Good
  BY <1>1, <1>2, AllNat
<1>4. QED
  BY <1>3 DEF Good

\* f[n] is what the first n steps make of x.
Iterated(X, x, step, f) ==
  /\ f \in [Nat -> X]
  /\ f[0] = x
  /\ \A n \in Nat : n # 0 => f[n] = step[n][f[n - 1]]

\* The function that a recursion over the naturals defines exists.
LEMMA Iteration ==
  ASSUME NEW X, NEW x \in X, NEW step \in [Nat -> [X -> X]]
  PROVE  \E f : Iterated(X, x, step, f)
<1> DEFINE G(n) == CHOOSE g : Iterates(X, x, step, n, g)
           f    == [n \in Nat |-> G(n)[n]]
<1>1. \A n \in Nat : Iterates(X, x, step, n, G(n))
  BY SomeIterates
<1> HIDE DEF G
<1>2. \A n \in Nat : f[n] = G(n)[n]
  OBVIOUS
<1>3. f \in [Nat -> X] /\ f[0] = x
  BY <1>1 DEF Iterates
<1>4. ASSUME NEW n \in Nat, n # 0
      PROVE  f[n] = step[n][f[n - 1]]
  <2>1. G(n)[n] = step[n][G(n)[n - 1]]
    BY <1>1, <1>4 DEF Iterates
  <2>2. n - 1 \in Nat /\ n - 1 \in 0..n /\ n - 1 \in 0..n - 1
    BY <1>4
  <2>3. G(n)[n - 1] = G(n - 1)[n - 1]
    BY <1>1, <2>2, SameIterates
  <2>4. QED
    BY <1>2, <2>1, <2>2, <2>3
<1> HIDE DEF f
<1>5. QED
  BY <1>3, <1>4 DEF Iterated
-----------------------------------------------------------------------------
\* What is selected from a sequence is a sequence of those of its elements that
\* are wanted, and of all of those.
LEMMA AmongIs ==
  ASSUME NEW T, NEW seq \in Seq(T), NEW wanted
  PROVE  /\ Among(seq, wanted) \in Seq({seq[n] : n \in 1..Len(seq)} \cap wanted)
         /\ \A n \in 1..Len(seq) : seq[n] \in wanted =>
              \E i \in 1..Len(Among(seq, wanted)) : Among(seq, wanted)[i] = seq[n]
<1> DEFINE N == Len(seq)
           X == Seq({seq[n] : n \in 1..N} \cap wanted)
           more(a, n) == IF seq[n] \in wanted THEN Append(a, seq[n]) ELSE a
           step == [n \in Nat |-> [a \in X |-> IF n \in 1..N THEN more(a, n) ELSE a]]
           Holds(a, n) == \A k \in 1..n : seq[k] \in wanted => \E i \in 1..Len(a) : a[i] = seq[k]
           Rec(f) == [n \in 0..N |-> IF n = 0 THEN <<>> ELSE more(f[n - 1], n)]
<1>1. N \in Nat
  OBVIOUS
<1>2. <<>> \in X
  OBVIOUS
<1>3. \A n \in 1..N, a \in X : more(a, n) \in X
  <2> SUFFICES ASSUME NEW n \in 1..N, NEW a \in X
               PROVE  more(a, n) \in X
    OBVIOUS
  <2>1. CASE seq[n] \in wanted
    <3>1. seq[n] \in {seq[k] : k \in 1..N} \cap wanted
      BY <2>1
    <3>2. QED
      BY <2>1, <3>1
  <2>2. QED
    BY <2>1
<1>4. \A n \in 0..N - 1, a \in X : Holds(a, n) => Holds(more(a, n + 1), n + 1)
  <2> SUFFICES ASSUME NEW n \in 0..N - 1, NEW a \in X, Holds(a, n)
               PROVE  Holds(more(a, n + 1), n + 1)
    OBVIOUS
  <2>1. \A k \in 1..n + 1 : k \in 1..n \/ k = n + 1
    OBVIOUS
  <2>2. CASE seq[n + 1] \in wanted
    <3>1. more(a, n + 1) = Append(a, seq[n + 1])
      BY <2>2
    <3>2. /\ Len(a) \in Nat /\ Len(Append(a, seq[n + 1])) = Len(a) + 1
          /\ Append(a, seq[n + 1])[Len(a) + 1] = seq[n + 1]
          /\ \A i \in 1..Len(a) : Append(a, seq[n + 1])[i] = a[i]
      OBVIOUS
    <3>3. QED
      BY <2>1, <3>1, <3>2
  <2>3. CASE seq[n + 1] \notin wanted
    BY <2>1, <2>3
  <2>4. QED
    BY <2>2, <2>3
<1> HIDE DEF X, Holds
<1>5. step \in [Nat -> [X -> X]]
  <2> HIDE DEF more
  <2> QED
    BY <1>3
<1>6. PICK f : Iterated(X, <<>>, step, f)
  <2> HIDE DEF step
  <2> QED
    BY <1>2, <1>5, Iteration
<1>7. f \in [Nat -> X] /\ f[0] = <<>> /\ \A n \in Nat : n # 0 => f[n] = step[n][f[n - 1]]
  BY <1>6 DEF Iterated
<1> DEFINE g == [n \in 0..N |-> f[n]]
<1>8. g = Rec(g)
  <2>1. ASSUME NEW n \in 0..N
        PROVE  f[n] = IF n = 0 THEN <<>> ELSE more(g[n - 1], n)
    <3>1. CASE n = 0
      BY <1>7, <3>1
    <3>2. CASE n # 0
      <4>1. n \in 1..N /\ n \in Nat /\ n - 1 \in Nat /\ n - 1 \in 0..N
        BY <1>1, <3>2
      <4>2. f[n - 1] \in X /\ g[n - 1] = f[n - 1] /\ f[n] = step[n][f[n - 1]]
        BY <1>7, <3>2, <4>1
      <4>3. step[n][f[n - 1]] = more(f[n - 1], n)
        <5> HIDE DEF more
        <5> QED
          BY <4>1, <4>2
      <4>4. QED
        BY <3>2, <4>2, <4>3
    <3>3. QED
      BY <3>1, <3>2
  <2> HIDE DEF more
  <2>2. QED
    BY <2>1
<1> DEFINE A == CHOOSE h : h = Rec(h)
<1>9. A = Rec(A)
  <2> HIDE DEF g, Rec
  <2> QED
    BY <1>8
<1>10. Among(seq, wanted) = A[N]
  BY DEF Among
<1> HIDE DEF A
<1>11. A[0] = <<>> /\ \A n \in 1..N : A[n] = more(A[n - 1], n)
  <2> HIDE DEF more
  <2> QED
    BY <1>1, <1>9
<1> DEFINE S == {n \in 0..N : A[n] \in X /\ Holds(A[n], n)}
<1>12. 0 \in S
  BY <1>1, <1>2, <1>11 DEF Holds
<1>13. ASSUME NEW n \in 0..N, n \in S, n < N
       PROVE  n + 1 \in S
  <2>1. n + 1 \in 1..N /\ n + 1 \in 0..N /\ n \in 0..N - 1 /\ (n + 1) - 1 = n
        /\ A[n] \in X /\ Holds(A[n], n)
    BY <1>1, <1>13
  <2> HIDE DEF more
  <2>2. A[n + 1] = more(A[n], n + 1)
    BY <1>11, <2>1
  <2>3. QED
    BY <1>3, <1>4, <2>1, <2>2
<1>14. 0..N \subseteq S
  <2> HIDE DEF S, N
  <2> QED
    BY <1>1, <1>12, <1>13, Upto
<1>15. N \in 0..N /\ N \in S
  BY <1>1, <1>14
<1>16. QED
  BY <1>10, <1>15 DEF X, Holds
=============================================================================
