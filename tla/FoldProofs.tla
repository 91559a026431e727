----------------------------- MODULE FoldProofs -----------------------------
(***************************************************************************)
(* Folds over sets and sequences are recursive functions on the subsets of *)
(* a finite set.  Every non-empty set of such subsets has a minimal        *)
(* element, so a fact is shown for all of the subsets by refuting a        *)
(* minimal counterexample.                                                 *)
(***************************************************************************)
EXTENDS Integers, FiniteSetsExt, FiniteSetTheorems, TLAPS

-----------------------------------------------------------------------------
(***************************************************************************)
(* Induction over the subsets of a finite set.                             *)
(***************************************************************************)
\* A non-empty set of subsets of a finite set has a minimal element.
LEMMA MinimalSubset ==
  ASSUME NEW S, IsFiniteSet(S), NEW B \in SUBSET (SUBSET S), B # {}
  PROVE  \E T \in B : \A U \in B : U \subseteq T => U = T
<1>1. B \subseteq FiniteSubsetsOf(S)
  BY FS_Subset DEF FiniteSubsetsOf
<1>2. \E T \in B : \A U \in B : ~(<<U, T>> \in StrictSubsetOrdering(S))
  BY <1>1, WFMin, FS_StrictSubsetOrderingWellFounded
<1> QED  BY <1>2 DEF StrictSubsetOrdering

\* A set of subsets that contains the empty set and is closed under the
\* addition of an element contains every subset.
LEMMA SubsetInduction ==
  ASSUME NEW S, IsFiniteSet(S), NEW G, {} \in G,
         \A T \in SUBSET S, x \in S : T \in G /\ x \notin T => T \cup {x} \in G
  PROVE  \A T \in SUBSET S : T \in G
<1> DEFINE B == {T \in SUBSET S : T \notin G}
<1>1. ASSUME B # {}  PROVE FALSE
  <2>1. B \in SUBSET (SUBSET S)  OBVIOUS
  <2>2. PICK T \in B : \A U \in B : U \subseteq T => U = T
    <3> HIDE DEF B
    <3> QED  BY <1>1, <2>1, MinimalSubset
  <2>3. PICK x \in T : TRUE  BY <2>2
  <2>4. T \ {x} \in G  BY <2>2, <2>3
  <2>5. T = (T \ {x}) \cup {x}  BY <2>3
  <2> QED  BY <2>2, <2>3, <2>4, <2>5
<1> QED  BY <1>1

\* A finite set of integers has a largest element.
LEMMA MaxIsElement ==
  ASSUME NEW S, IsFiniteSet(S), S \subseteq Int, S # {}
  PROVE  Max(S) \in S /\ \A y \in S : Max(S) >= y
<1>0. IsFiniteSet(S)  OBVIOUS
<1> DEFINE G == {T \in SUBSET S : T # {} => \E x \in T : \A y \in T : x >= y}
<1>1. {} \in G  OBVIOUS
<1>2. ASSUME NEW T \in SUBSET S, NEW x \in S, T \in G, x \notin T  PROVE T \cup {x} \in G
  <2>1. CASE T = {}  BY <2>1
  <2>2. CASE T # {}
    <3>1. PICK t \in T : \A y \in T : t >= y  BY <1>2, <2>2
    <3>2. CASE x >= t  BY <3>1, <3>2
    <3>3. CASE ~(x >= t)  BY <3>1, <3>3
    <3> QED  BY <3>2, <3>3
  <2> QED  BY <2>1, <2>2
<1>3. S \in G
  <2> HIDE DEF G
  <2> QED  BY ONLY <1>0, <1>1, <1>2, SubsetInduction
<1>4. \E x \in S : \A y \in S : x >= y  BY <1>3
<1> QED  BY <1>4 DEF Max

\* A finite set of integers has a smallest element.
LEMMA MinIsElement ==
  ASSUME NEW S, IsFiniteSet(S), S \subseteq Int, S # {}
  PROVE  Min(S) \in S /\ \A y \in S : Min(S) <= y
<1> DEFINE N == {0 - x : x \in S}
           f == [x \in S |-> 0 - x]
<1>1. f \in Surjection(S, N)  BY DEF Surjection
<1>2. IsFiniteSet(N) /\ N \subseteq Int /\ N # {}
  BY <1>1, FS_Surjection DEF ExistsSurjection
<1> HIDE DEF N
<1>3. PICK m \in N : \A y \in N : m >= y  BY <1>2, MaxIsElement
<1>4. PICK x \in S : m = 0 - x  BY <1>3 DEF N
<1>5. \A y \in S : x <= y
  <2> TAKE y \in S
  <2>1. 0 - y \in N  BY DEF N
  <2>2. m >= 0 - y /\ x \in Int /\ y \in Int  BY <1>3, <2>1
  <2> QED  BY <1>4, <2>2
<1> QED  BY <1>5 DEF Min

-----------------------------------------------------------------------------
(***************************************************************************)
(* Folds from the left, as functions on sets of indexes.                   *)
(***************************************************************************)
\* g folds the elements of s at the indexes in the subsets of S.
Folds(step, base, s, S, g) ==
  g = [T \in SUBSET S |->
         IF T = {} THEN base ELSE step[<<g[T \ {Max(T)}], s[Max(T)]>>]]

\* What the steps of a fold keep, the fold keeps.
LEMMA FoldStays ==
  ASSUME NEW S, IsFiniteSet(S), S \subseteq Int, NEW X, NEW g, g[{}] \in X,
         \A T \in SUBSET S : T # {} /\ g[T \ {Max(T)}] \in X => g[T] \in X
  PROVE  \A T \in SUBSET S : g[T] \in X
<1>0. IsFiniteSet(S)  OBVIOUS
<1> DEFINE B == {T \in SUBSET S : g[T] \notin X}
<1>1. ASSUME B # {}  PROVE FALSE
  <2>1. B \in SUBSET (SUBSET S)  OBVIOUS
  <2>2. PICK T \in B : \A U \in B : U \subseteq T => U = T
    <3> HIDE DEF B
    <3> QED  BY ONLY <1>0, <1>1, <2>1, MinimalSubset
  <2>3. T # {} /\ T \subseteq S /\ IsFiniteSet(T)  BY <2>2, FS_Subset
  <2>4. Max(T) \in T  BY <2>3, MaxIsElement
  <2>5. T \ {Max(T)} \notin B  BY <2>2, <2>4
  <2> QED  BY <2>2, <2>3, <2>5
<1> QED  BY <1>1

\* Folds of the same sequence agree where both are defined.
LEMMA FoldsAgree ==
  ASSUME NEW step, NEW base, NEW s, NEW S, IsFiniteSet(S), S \subseteq Int,
         NEW R \in SUBSET S, NEW g, Folds(step, base, s, S, g), NEW h, Folds(step, base, s, R, h)
  PROVE  g[R] = h[R]
<1> DEFINE d == [T \in SUBSET R |-> IF g[T] = h[T] THEN 0 ELSE 1]
           Z == {0}
<1>1. IsFiniteSet(R) /\ R \subseteq Int  BY FS_Subset
<1>2. d[{}] \in Z  BY DEF Folds
<1>3. ASSUME NEW T \in SUBSET R, T # {}, d[T \ {Max(T)}] \in Z  PROVE d[T] \in Z
  <2>1. T \ {Max(T)} \in SUBSET R  OBVIOUS
  <2>2. g[T \ {Max(T)}] = h[T \ {Max(T)}]  BY <1>3, <2>1
  <2>3. g[T] = step[<<g[T \ {Max(T)}], s[Max(T)]>>]  BY <1>3 DEF Folds
  <2>4. h[T] = step[<<h[T \ {Max(T)}], s[Max(T)]>>]  BY <1>3 DEF Folds
  <2> QED  BY <2>2, <2>3, <2>4
<1>4. \A T \in SUBSET R : d[T] \in Z
  <2> HIDE DEF d, Z
  <2> QED  BY ONLY <1>1, <1>2, <1>3, FoldStays
<1>5. R \in SUBSET R  OBVIOUS
<1>6. d[R] = 0  BY <1>4, <1>5
<1> QED  BY ONLY <1>5, <1>6

\* There is a fold.
LEMMA FoldExists ==
  ASSUME NEW step, NEW base, NEW s, NEW S, IsFiniteSet(S), S \subseteq Int
  PROVE  \E g : Folds(step, base, s, S, g)
<1>0. IsFiniteSet(S)  OBVIOUS
<1> DEFINE B == {T \in SUBSET S : ~\E g : Folds(step, base, s, T, g)}
<1>1. ASSUME B # {}  PROVE FALSE
  <2>1. B \in SUBSET (SUBSET S)  OBVIOUS
  <2>2. PICK T \in B : \A U \in B : U \subseteq T => U = T
    <3> HIDE DEF B
    <3> QED  BY ONLY <1>0, <1>1, <2>1, MinimalSubset
  <2> DEFINE G(U) == CHOOSE g : Folds(step, base, s, U, g)
  <2>3. ASSUME NEW U \in SUBSET T, U # T  PROVE Folds(step, base, s, U, G(U))
    <3>1. \E g : Folds(step, base, s, U, g)  BY <2>2, <2>3
    <3> QED  BY <3>1
  <2> HIDE DEF G
  <2> DEFINE N(U) == IF U = {} THEN base ELSE step[<<G(U \ {Max(U)})[U \ {Max(U)}], s[Max(U)]>>]
             h == [U \in SUBSET T |-> N(U)]
  <2>4. ASSUME NEW U \in SUBSET T, U # {}
        PROVE  /\ IsFiniteSet(U) /\ U \subseteq Int
               /\ U \ {Max(U)} \in SUBSET T /\ U \ {Max(U)} # T /\ U \ {Max(U)} \subseteq U
    <3>1. IsFiniteSet(U) /\ U \subseteq Int  BY FS_Subset
    <3>2. Max(U) \in U  BY <2>4, <3>1, MaxIsElement
    <3> QED  BY <3>1, <3>2
  <2>5. ASSUME NEW U \in SUBSET T, U # T  PROVE h[U] = G(U)[U]
    <3>1. Folds(step, base, s, U, G(U)) /\ U \in SUBSET U  BY <2>3, <2>5
    <3>2. CASE U = {}  BY <3>1, <3>2 DEF Folds
    <3>3. CASE U # {}
      <4> DEFINE V == U \ {Max(U)}
      <4>1. V \in SUBSET T /\ V # T /\ V \subseteq U /\ IsFiniteSet(U) /\ U \subseteq Int
        BY <2>4, <3>3
      <4>2. Folds(step, base, s, V, G(V))  BY <4>1, <2>3
      <4>3. G(U)[V] = G(V)[V]
        <5> DEFINE gU == G(U)
                   gV == G(V)
        <5>1. Folds(step, base, s, U, gU) /\ Folds(step, base, s, V, gV)  BY <3>1, <4>2
        <5>2. IsFiniteSet(U) /\ U \subseteq Int /\ V \in SUBSET U  BY <4>1
        <5> HIDE DEF V, gU, gV
        <5>3. gU[V] = gV[V]  BY ONLY <5>1, <5>2, FoldsAgree
        <5> QED  BY <5>3 DEF gU, gV
      <4>4. G(U)[U] = step[<<G(U)[V], s[Max(U)]>>]  BY <3>1, <3>3 DEF Folds
      <4> QED  BY <4>3, <4>4, <3>3
    <3> QED  BY <3>2, <3>3
  <2>6. ASSUME NEW U \in SUBSET T
        PROVE  N(U) = IF U = {} THEN base ELSE step[<<h[U \ {Max(U)}], s[Max(U)]>>]
    <3>1. CASE U = {}  BY <3>1
    <3>2. CASE U # {}
      <4>1. U \ {Max(U)} \in SUBSET T /\ U \ {Max(U)} # T  BY <2>4, <3>2
      <4> HIDE DEF h
      <4> QED  BY <4>1, <2>5, <3>2
    <3> QED  BY <3>1, <3>2
  <2>7. Folds(step, base, s, T, h)
    <3> HIDE DEF N
    <3>1. h = [U \in SUBSET T |-> N(U)]  OBVIOUS
    <3> HIDE DEF h
    <3> QED  BY <2>6, <3>1 DEF Folds
  <2> QED  BY <2>2, <2>7
<1> QED  BY <1>1

-----------------------------------------------------------------------------
\* A non-empty set of natural numbers has a smallest element.
LEMMA NatLeast ==
  ASSUME NEW T, T \subseteq Nat, T # {}
  PROVE  \E x \in T : \A y \in T : x <= y
<1>1. PICK n \in T : n \in Nat  OBVIOUS
<1> DEFINE U == {x \in T : x <= n}
<1>2. U \subseteq 0 .. n /\ n \in U /\ n \in Nat
  <2>1. \A x \in U : x \in 0 .. n  BY <1>1
  <2>2. n <= n  BY <1>1
  <2>3. n \in U  BY <1>1, <2>2
  <2>4. U \subseteq 0 .. n  BY <2>1
  <2> QED  BY <2>3, <2>4, <1>1
<1>3. IsFiniteSet(0 .. n)  BY <1>2, FS_Interval
<1>4. IsFiniteSet(U) /\ U \subseteq Int  BY <1>2, <1>3, FS_Subset
<1>5. Min(U) \in U /\ \A y \in U : Min(U) <= y
  <2> HIDE DEF U
  <2> QED  BY <1>2, <1>4, MinIsElement
<1>6. ASSUME NEW y \in T  PROVE Min(U) <= y
  <2>1. CASE y <= n  BY <2>1, <1>5
  <2>2. CASE ~(y <= n)  BY <2>2, <1>2, <1>5
  <2> QED  BY <2>1, <2>2
<1> QED  BY <1>5, <1>6

\* A set that contains zero and with a number its successor contains all
\* natural numbers.
LEMMA NatSetInduction ==
  ASSUME NEW G, 0 \in G, \A n \in Nat : n \in G => n + 1 \in G
  PROVE  Nat \subseteq G
<1> DEFINE B == {n \in Nat : n \notin G}
<1>1. ASSUME B # {}  PROVE FALSE
  <2>1. B \subseteq Nat  OBVIOUS
  <2>2. PICK n \in B : \A m \in B : n <= m
    <3> HIDE DEF B
    <3> QED  BY <1>1, <2>1, NatLeast
  <2>3. n # 0 /\ n - 1 \in Nat  BY <2>2
  <2>4. n - 1 \in G  BY <2>2, <2>3
  <2>5. (n - 1) + 1 = n  BY <2>2
  <2> QED  BY <2>2, <2>3, <2>4, <2>5
<1> QED  BY <1>1

\* A sequence of values of S, each from its index and the one before.
Recurs(S, base, step, N, f) ==
  /\ f \in [0 .. N -> S]
  /\ f[0] = base
  /\ \A i \in 1 .. N : f[i] = step[<<i, f[i - 1]>>]

\* Two of them agree where both are defined.
LEMMA RecursAgree ==
  ASSUME NEW S, NEW base, NEW step, NEW N \in Nat, NEW M \in Nat, NEW f, NEW g,
         Recurs(S, base, step, N, f), Recurs(S, base, step, M, g), NEW n \in Nat, n <= N, n <= M
  PROVE  f[n] = g[n]
<1> DEFINE G == {i \in Nat : i <= N /\ i <= M => f[i] = g[i]}
<1>1. 0 \in G  BY DEF Recurs
<1>2. ASSUME NEW i \in Nat, i \in G  PROVE i + 1 \in G
  <2>1. SUFFICES ASSUME i + 1 <= N, i + 1 <= M  PROVE f[i + 1] = g[i + 1]  OBVIOUS
  <2>2. f[i] = g[i]  BY <1>2, <2>1
  <2>3. i + 1 \in 1 .. N /\ i + 1 \in 1 .. M /\ (i + 1) - 1 = i  BY <2>1
  <2> QED  BY <2>2, <2>3 DEF Recurs
<1>3. Nat \subseteq G
  <2> HIDE DEF G
  <2> QED  BY <1>1, <1>2, NatSetInduction
<1> QED  BY <1>3

\* There is one of every length.
LEMMA RecursExists ==
  ASSUME NEW S, NEW base \in S, NEW step \in [Nat \X S -> S]
  PROVE  \A N \in Nat : \E f : Recurs(S, base, step, N, f)
<1> DEFINE G == {N \in Nat : \E f : Recurs(S, base, step, N, f)}
<1>1. 0 \in G
  <2> DEFINE f == [i \in 0 .. 0 |-> base]
  <2>1. Recurs(S, base, step, 0, f)  BY DEF Recurs
  <2> QED  BY <2>1
<1>2. ASSUME NEW N \in Nat, N \in G  PROVE N + 1 \in G
  <2>1. PICK f : Recurs(S, base, step, N, f)  BY <1>2
  <2> DEFINE next == step[<<N + 1, f[N]>>]
             g == [i \in 0 .. N + 1 |-> IF i <= N THEN f[i] ELSE next]
  <2>2. f \in [0 .. N -> S] /\ f[0] = base /\ \A i \in 1 .. N : f[i] = step[<<i, f[i - 1]>>]
    BY <2>1 DEF Recurs
  <2>3. next \in S
    <3>1. <<N + 1, f[N]>> \in Nat \X S  BY <2>2
    <3> QED  BY <3>1
  <2> HIDE DEF next
  <2>4. g \in [0 .. N + 1 -> S] /\ g[0] = base  BY <2>2, <2>3
  <2>5. ASSUME NEW i \in 1 .. N + 1  PROVE g[i] = step[<<i, g[i - 1]>>]
    <3>1. CASE i <= N
      <4>1. g[i] = f[i] /\ g[i - 1] = f[i - 1] /\ i \in 1 .. N  BY <3>1
      <4> QED  BY <4>1, <2>2
    <3>2. CASE i = N + 1
      <4>1. g[i] = next /\ g[i - 1] = f[N]  BY <3>2
      <4> QED  BY <4>1, <3>2 DEF next
    <3> QED  BY <3>1, <3>2
  <2>6. Recurs(S, base, step, N + 1, g)
    <3> HIDE DEF g
    <3> QED  BY <2>4, <2>5 DEF Recurs
  <2> QED  BY <2>6
<1>3. Nat \subseteq G
  <2> HIDE DEF G
  <2> QED  BY <1>1, <1>2, NatSetInduction
<1> QED  BY <1>3

\* The same for all natural numbers.
RecursAlways(S, base, step, f) ==
  /\ f \in [Nat -> S]
  /\ f[0] = base
  /\ \A n \in Nat : f[n + 1] = step[<<n + 1, f[n]>>]

\* A recursive definition on the natural numbers defines a function.
LEMMA RecursionExists ==
  ASSUME NEW S, NEW base \in S, NEW step \in [Nat \X S -> S]
  PROVE  \E f : RecursAlways(S, base, step, f)
<1> DEFINE F(N) == CHOOSE f : Recurs(S, base, step, N, f)
           h == [n \in Nat |-> F(n)[n]]
<1>1. ASSUME NEW N \in Nat  PROVE Recurs(S, base, step, N, F(N))
  BY RecursExists
<1> HIDE DEF F
<1>2. ASSUME NEW n \in Nat  PROVE F(n)[n] \in S  BY <1>1 DEF Recurs
<1>3. h \in [Nat -> S]  BY <1>2
<1>4. h[0] = base
  <2>1. Recurs(S, base, step, 0, F(0))  BY <1>1
  <2> QED  BY <2>1 DEF Recurs
<1>5. ASSUME NEW n \in Nat  PROVE h[n + 1] = step[<<n + 1, h[n]>>]
  <2>1. Recurs(S, base, step, n + 1, F(n + 1)) /\ Recurs(S, base, step, n, F(n))  BY <1>1
  <2>2. F(n + 1)[n] = F(n)[n]
    <3> DEFINE f == F(n + 1)
               g == F(n)
               M == n + 1
    <3>1. Recurs(S, base, step, M, f) /\ Recurs(S, base, step, n, g) /\ M \in Nat /\ n <= M  BY <2>1
    <3> HIDE DEF f, g, M
    <3>2. f[n] = g[n]  BY <3>1, RecursAgree
    <3> QED  BY <3>2 DEF f, g, M
  <2>3. n + 1 \in 1 .. n + 1 /\ (n + 1) - 1 = n  OBVIOUS
  <2>4. F(n + 1)[n + 1] = step[<<n + 1, F(n + 1)[n]>>]  BY <2>1, <2>3 DEF Recurs
  <2> QED  BY <2>2, <2>4
<1>6. RecursAlways(S, base, step, h)
  <2> HIDE DEF h
  <2> QED  BY <1>3, <1>4, <1>5 DEF RecursAlways
<1> QED  BY <1>6
=============================================================================
