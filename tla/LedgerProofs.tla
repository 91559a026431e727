---------------------------- MODULE LedgerProofs ----------------------------
(***************************************************************************)
(* Facts about the operators of Ledger: sums over finite sets, and what    *)
(* sets of outputs are worth to an address.  The balances in the storage   *)
(* are maintained by differences; these lemmas say why the differences of  *)
(* disjoint sets of outputs add up.                                        *)
(*                                                                         *)
(* Sums are folds, which are recursive functions (FoldProofs).             *)
(***************************************************************************)
EXTENDS Ledger, FoldProofs

-----------------------------------------------------------------------------
(***************************************************************************)
(* SumOver satisfies its recursive definition.                             *)
(***************************************************************************)
Chosen(T) == CHOOSE x \in T : TRUE

\* g sums f over the subsets of S.
SumsUp(f, S, g) ==
  g = [T \in SUBSET S |-> IF T = {} THEN 0 ELSE f[Chosen(T)] + g[T \ {Chosen(T)}]]

\* The fold behind SumOver.
LEMMA SumIsFold ==
  ASSUME NEW f, NEW S  PROVE SumOver(f, S) = (CHOOSE g : SumsUp(f, S, g))[S]
BY DEF SumOver, MapThenSumSet, MapThenFoldSet, SumsUp, Chosen

\* The fold takes an element of what is left.
LEMMA ChosenIsElement ==
  ASSUME NEW T, T # {}  PROVE Chosen(T) \in T
BY DEF Chosen

\* Two such functions agree where both are defined.
LEMMA SumsAgree ==
  ASSUME NEW f, NEW S, NEW R, IsFiniteSet(R), R \subseteq S,
         NEW g, SumsUp(f, S, g), NEW h, SumsUp(f, R, h)
  PROVE  g[R] = h[R]
<1> DEFINE B == {T \in SUBSET R : g[T] # h[T]}
<1>1. ASSUME B # {}  PROVE FALSE
  <2>1. B \in SUBSET (SUBSET R)  OBVIOUS
  <2>2. PICK T \in B : \A U \in B : U \subseteq T => U = T
    <3> HIDE DEF B
    <3> QED  BY <1>1, <2>1, MinimalSubset
  <2>3. T \in SUBSET S /\ T \in SUBSET R /\ g[T] # h[T]  OBVIOUS
  <2>4. CASE T = {}
    <3>1. g[T] = 0 /\ h[T] = 0  BY <2>3, <2>4 DEF SumsUp
    <3> QED  BY <2>3, <3>1
  <2>5. CASE T # {}
    <3> DEFINE U == T \ {Chosen(T)}
    <3>1. U \in SUBSET R /\ U \subseteq T /\ U # T  BY <2>5, ChosenIsElement
    <3>2. g[U] = h[U]  BY <2>2, <3>1
    <3>3. g[T] = f[Chosen(T)] + g[U] /\ h[T] = f[Chosen(T)] + h[U]
      BY <2>3, <2>5 DEF SumsUp
    <3> QED  BY <2>3, <3>2, <3>3
  <2> QED  BY <2>4, <2>5
<1> QED  BY <1>1

\* There is one for every finite set.
LEMMA SumExists ==
  ASSUME NEW f, NEW S, IsFiniteSet(S)  PROVE \E g : SumsUp(f, S, g)
<1> DEFINE B == {T \in SUBSET S : ~\E g : SumsUp(f, T, g)}
<1>1. ASSUME B # {}  PROVE FALSE
  <2>1. B \in SUBSET (SUBSET S)  OBVIOUS
  <2>2. PICK T \in B : \A U \in B : U \subseteq T => U = T
    <3> HIDE DEF B
    <3> QED  BY <1>1, <2>1, MinimalSubset
  <2> DEFINE G(U) == CHOOSE g : SumsUp(f, U, g)
  <2>3. ASSUME NEW U \in SUBSET T, U # T  PROVE SumsUp(f, U, G(U))
    <3>1. \E g : SumsUp(f, U, g)  BY <2>2, <2>3
    <3> QED  BY <3>1
  <2> HIDE DEF G
  <2> DEFINE N(U) == IF U = {} THEN 0
                     ELSE f[Chosen(U)] + G(U \ {Chosen(U)})[U \ {Chosen(U)}]
             h == [U \in SUBSET T |-> N(U)]
  <2>4. ASSUME NEW U \in SUBSET T, U # T  PROVE h[U] = G(U)[U]
    <3>1. SumsUp(f, U, G(U)) /\ U \in SUBSET U  BY <2>3, <2>4
    <3>2. CASE U = {}  BY <3>1, <3>2 DEF SumsUp
    <3>3. CASE U # {}
      <4> DEFINE V == U \ {Chosen(U)}
      <4>1. V \in SUBSET T /\ V # T /\ V \subseteq U  BY <3>3, ChosenIsElement
      <4>2. SumsUp(f, V, G(V))  BY <4>1, <2>3
      <4>3. IsFiniteSet(V)  BY <4>1, FS_Subset
      <4>4. G(U)[V] = G(V)[V]  BY <3>1, <4>1, <4>2, <4>3, SumsAgree
      <4>5. G(U)[U] = f[Chosen(U)] + G(U)[V]  BY <3>1, <3>3 DEF SumsUp
      <4> QED  BY <4>4, <4>5, <3>3
    <3> QED  BY <3>2, <3>3
  <2>5. ASSUME NEW U \in SUBSET T
        PROVE  N(U) = IF U = {} THEN 0 ELSE f[Chosen(U)] + h[U \ {Chosen(U)}]
    <3>1. CASE U = {}  BY <3>1
    <3>2. CASE U # {}
      <4>1. U \ {Chosen(U)} \in SUBSET T /\ U \ {Chosen(U)} # T  BY <3>2, ChosenIsElement
      <4> HIDE DEF h
      <4> QED  BY <4>1, <2>4, <3>2
    <3> QED  BY <3>1, <3>2
  <2>6. SumsUp(f, T, h)
    <3> HIDE DEF N
    <3>1. h = [U \in SUBSET T |-> N(U)]  OBVIOUS
    <3> HIDE DEF h
    <3> QED  BY <2>5, <3>1 DEF SumsUp
  <2> QED  BY <2>6
<1> QED  BY <1>1

\* The sum over no element.
LEMMA SumEmpty == ASSUME NEW f  PROVE SumOver(f, {}) = 0
<1> DEFINE g == CHOOSE h : SumsUp(f, {}, h)
<1>1. SumsUp(f, {}, g)
  BY SumExists, FS_EmptySet
<1>2. g[{}] = 0
  <2> HIDE DEF g
  <2> QED  BY <1>1 DEF SumsUp
<1> QED  BY <1>2, SumIsFold

\* The sum, one element taken out by the fold.
LEMMA SumChosen ==
  ASSUME NEW f, NEW S, IsFiniteSet(S), S # {}
  PROVE  SumOver(f, S) = f[Chosen(S)] + SumOver(f, S \ {Chosen(S)})
<1> DEFINE G(T) == CHOOSE h : SumsUp(f, T, h)
           R == S \ {Chosen(S)}
<1>1. R \subseteq S /\ IsFiniteSet(R)  BY FS_Subset
<1>2. SumsUp(f, S, G(S)) /\ SumsUp(f, R, G(R))  BY <1>1, SumExists
<1>3. SumOver(f, S) = G(S)[S] /\ SumOver(f, R) = G(R)[R]  BY SumIsFold
<1> HIDE DEF G
<1>4. G(S)[S] = f[Chosen(S)] + G(S)[R]  BY <1>2 DEF SumsUp
<1>5. G(S)[R] = G(R)[R]  BY <1>1, <1>2, SumsAgree
<1> QED  BY <1>3, <1>4, <1>5

-----------------------------------------------------------------------------
(***************************************************************************)
(* Sums of integers.                                                       *)
(***************************************************************************)
\* A sum is an integer, and its elements can be taken in any order.
LEMMA SumRemoveAny ==
  ASSUME NEW f, NEW S, IsFiniteSet(S), \A x \in S : f[x] \in Int
  PROVE  \A T \in SUBSET S :
           /\ SumOver(f, T) \in Int
           /\ \A x \in T : SumOver(f, T) = f[x] + SumOver(f, T \ {x})
<1> DEFINE Good(T) == /\ SumOver(f, T) \in Int
                      /\ \A x \in T : SumOver(f, T) = f[x] + SumOver(f, T \ {x})
           B == {T \in SUBSET S : ~Good(T)}
<1>1. ASSUME B # {}  PROVE FALSE
  <2>1. B \in SUBSET (SUBSET S)  OBVIOUS
  <2>2. PICK T \in B : \A U \in B : U \subseteq T => U = T
    <3> HIDE DEF B
    <3> QED  BY <1>1, <2>1, MinimalSubset
  <2>3. \A U \in SUBSET S : U \subseteq T /\ U # T => Good(U)  BY <2>2
  <2>4. ~Good(T) /\ T \in SUBSET S  OBVIOUS
  <2>5. CASE T = {}  BY <2>4, <2>5, SumEmpty
  <2>6. CASE T # {}
    <3> DEFINE c == Chosen(T)
    <3>1. c \in T  BY <2>6, ChosenIsElement
    <3>2. SumOver(f, T) = f[c] + SumOver(f, T \ {c})
      BY <2>4, <2>6, FS_Subset, SumChosen
    <3> HIDE DEF c
    <3>3. Good(T \ {c})  BY <2>3, <3>1
    <3>4. SumOver(f, T) \in Int  BY <3>1, <3>2, <3>3
    <3>5. ASSUME NEW x \in T  PROVE SumOver(f, T) = f[x] + SumOver(f, T \ {x})
      <4>1. CASE x = c  BY <4>1, <3>2
      <4>2. CASE x # c
        <5>1. Good(T \ {x}) /\ Good((T \ {c}) \ {x})  BY <2>3, <3>1
        <5>2. SumOver(f, T \ {c}) = f[x] + SumOver(f, (T \ {c}) \ {x})
          BY <3>3, <4>2
        <5>3. SumOver(f, T \ {x}) = f[c] + SumOver(f, (T \ {x}) \ {c})
          BY <5>1, <4>2, <3>1
        <5>4. (T \ {x}) \ {c} = (T \ {c}) \ {x}  OBVIOUS
        <5>5. f[x] \in Int /\ f[c] \in Int /\ SumOver(f, (T \ {c}) \ {x}) \in Int
          BY <5>1, <3>1
        <5> DEFINE s == SumOver(f, (T \ {c}) \ {x})
        <5>6. SumOver(f, T \ {c}) = f[x] + s /\ SumOver(f, T \ {x}) = f[c] + s
          BY <5>2, <5>3, <5>4
        <5>7. s \in Int  BY <5>5
        <5> HIDE DEF s
        <5>8. f[c] + (f[x] + s) = f[x] + (f[c] + s)  BY <5>5, <5>7
        <5> QED  BY <3>2, <5>6, <5>8
      <4> QED  BY <4>1, <4>2
    <3> QED  BY <2>4, <3>4, <3>5
  <2> QED  BY <2>5, <2>6
<1> QED  BY <1>1

\* Sums of integers are integers.
LEMMA SumType ==
  ASSUME NEW f, NEW S, IsFiniteSet(S), \A x \in S : f[x] \in Int
  PROVE  SumOver(f, S) \in Int
BY SumRemoveAny

\* The sum, any element taken out.
LEMMA SumRemove ==
  ASSUME NEW f, NEW S, IsFiniteSet(S), \A x \in S : f[x] \in Int, NEW x \in S
  PROVE  SumOver(f, S) = f[x] + SumOver(f, S \ {x})
BY SumRemoveAny

\* The sum with one element more.
LEMMA SumAdd ==
  ASSUME NEW f, NEW S, NEW x, IsFiniteSet(S), \A y \in S \cup {x} : f[y] \in Int, x \notin S
  PROVE  SumOver(f, S \cup {x}) = f[x] + SumOver(f, S)
<1>1. IsFiniteSet(S \cup {x}) /\ (S \cup {x}) \ {x} = S  BY FS_AddElement
<1> QED  BY <1>1, SumRemove

\* The sum only depends on the values of the function on the set.
LEMMA SumSame ==
  ASSUME NEW f, NEW g, NEW S, IsFiniteSet(S),
         \A x \in S : f[x] \in Int /\ g[x] = f[x]
  PROVE  SumOver(f, S) = SumOver(g, S)
<1> DEFINE G == {T \in SUBSET S : SumOver(f, T) = SumOver(g, T)}
<1>1. {} \in G  BY SumEmpty
<1>2. ASSUME NEW T \in SUBSET S, NEW x \in S, T \in G, x \notin T  PROVE T \cup {x} \in G
  <2>1. IsFiniteSet(T)  BY FS_Subset
  <2>2. SumOver(f, T \cup {x}) = f[x] + SumOver(f, T)  BY <2>1, <1>2, SumAdd
  <2>3. SumOver(g, T \cup {x}) = g[x] + SumOver(g, T)  BY <2>1, <1>2, SumAdd
  <2> QED  BY <1>2, <2>2, <2>3
<1>3. S \in G
  <2> HIDE DEF G
  <2> QED  BY <1>1, <1>2, SubsetInduction
<1> QED  BY <1>3

\* A sum of sums.
LEMMA SumPlus ==
  ASSUME NEW f, NEW g, NEW h, NEW S, IsFiniteSet(S),
         \A x \in S : f[x] \in Int /\ g[x] \in Int /\ h[x] = f[x] + g[x]
  PROVE  SumOver(h, S) = SumOver(f, S) + SumOver(g, S)
<1> DEFINE G == {T \in SUBSET S : SumOver(h, T) = SumOver(f, T) + SumOver(g, T)}
<1>1. {} \in G  BY SumEmpty
<1>2. ASSUME NEW T \in SUBSET S, NEW x \in S, T \in G, x \notin T  PROVE T \cup {x} \in G
  <2>1. IsFiniteSet(T) /\ (\A y \in T \cup {x} : f[y] \in Int /\ g[y] \in Int /\ h[y] \in Int)
    BY FS_Subset
  <2>2. SumOver(f, T) \in Int /\ SumOver(g, T) \in Int  BY <2>1, SumType
  <2>3. /\ SumOver(f, T \cup {x}) = f[x] + SumOver(f, T)
        /\ SumOver(g, T \cup {x}) = g[x] + SumOver(g, T)
        /\ SumOver(h, T \cup {x}) = h[x] + SumOver(h, T)
    BY <2>1, <1>2, SumAdd
  <2> QED  BY <1>2, <2>1, <2>2, <2>3
<1>3. S \in G
  <2> HIDE DEF G
  <2> QED  BY <1>1, <1>2, SubsetInduction
<1> QED  BY <1>3

\* The sum over two disjoint sets.
LEMMA SumDisjoint ==
  ASSUME NEW f, NEW S, NEW R, IsFiniteSet(S), IsFiniteSet(R), S \cap R = {},
         \A x \in S \cup R : f[x] \in Int
  PROVE  SumOver(f, S \cup R) = SumOver(f, S) + SumOver(f, R)
<1> DEFINE G == {T \in SUBSET R : SumOver(f, S \cup T) = SumOver(f, S) + SumOver(f, T)}
<1>0. SumOver(f, S) \in Int  BY SumType
<1>1. {} \in G
  <2>1. S \cup {} = S  OBVIOUS
  <2> QED  BY <1>0, <2>1, SumEmpty
<1>2. ASSUME NEW T \in SUBSET R, NEW x \in R, T \in G, x \notin T  PROVE T \cup {x} \in G
  <2>1. IsFiniteSet(T) /\ IsFiniteSet(S \cup T)  BY FS_Subset, FS_Union
  <2>2. x \notin S \cup T  BY <1>2
  <2>3. SumOver(f, T) \in Int /\ f[x] \in Int  BY <2>1, SumType
  <2>4. SumOver(f, T \cup {x}) = f[x] + SumOver(f, T)  BY <2>1, <1>2, SumAdd
  <2>5. SumOver(f, (S \cup T) \cup {x}) = f[x] + SumOver(f, S \cup T)
    BY <2>1, <2>2, SumAdd
  <2>6. (S \cup T) \cup {x} = S \cup (T \cup {x})  OBVIOUS
  <2>7. SumOver(f, S \cup T) = SumOver(f, S) + SumOver(f, T)  BY <1>2
  <2> DEFINE a == SumOver(f, S)
             b == SumOver(f, T)
  <2>8. f[x] + (a + b) = a + (f[x] + b)
    <3>1. a \in Int /\ b \in Int  BY <1>0, <2>3
    <3> HIDE DEF a, b
    <3> QED  BY <2>3, <3>1
  <2> QED  BY <2>4, <2>5, <2>6, <2>7, <2>8
<1>3. R \in G
  <2> HIDE DEF G
  <2> QED  BY <1>1, <1>2, SubsetInduction
<1> QED  BY <1>3

\* A sum of positive numbers is positive.
LEMMA SumPositive ==
  ASSUME NEW f, NEW S, IsFiniteSet(S), \A x \in S : f[x] \in Nat \ {0}
  PROVE  SumOver(f, S) \in Nat /\ (SumOver(f, S) = 0 => S = {})
<1> DEFINE G == {T \in SUBSET S : SumOver(f, T) \in Nat /\ (SumOver(f, T) = 0 => T = {})}
<1>1. {} \in G  BY SumEmpty
<1>2. ASSUME NEW T \in SUBSET S, NEW x \in S, T \in G, x \notin T  PROVE T \cup {x} \in G
  <2>1. IsFiniteSet(T) /\ \A y \in T \cup {x} : f[y] \in Int  BY FS_Subset
  <2>2. SumOver(f, T \cup {x}) = f[x] + SumOver(f, T)  BY <2>1, <1>2, SumAdd
  <2> QED  BY <1>2, <2>2
<1>3. S \in G
  <2> HIDE DEF G
  <2> QED  BY <1>1, <1>2, SubsetInduction
<1> QED  BY <1>3

\* A sum over a set is the sum of the sums over the parts into which a
\* function divides it.
LEMMA SumOfParts ==
  ASSUME NEW f, NEW S, IsFiniteSet(S), \A x \in S : f[x] \in Int,
         NEW A, IsFiniteSet(A), NEW part, \A x \in S : part[x] \in A,
         NEW h, \A a \in A : h[a] = SumOver(f, {x \in S : part[x] = a})
  PROVE  SumOver(h, A) = SumOver(f, S)
<1> DEFINE In(X) == {x \in S : part[x] \in X}
           At(a) == {x \in S : part[x] = a}
           G == {X \in SUBSET A : SumOver(h, X) = SumOver(f, In(X))}
<1>0. ASSUME NEW a \in A  PROVE IsFiniteSet(At(a)) /\ h[a] \in Int
  <2>1. At(a) \subseteq S  OBVIOUS
  <2>2. IsFiniteSet(At(a))  BY <2>1, FS_Subset
  <2>3. SumOver(f, At(a)) \in Int  BY <2>2, SumType
  <2> QED  BY <2>2, <2>3
<1>1. {} \in G
  <2>1. In({}) = {}  OBVIOUS
  <2> QED  BY <2>1, SumEmpty
<1>2. ASSUME NEW X \in SUBSET A, NEW a \in A, X \in G, a \notin X  PROVE X \cup {a} \in G
  <2>1. In(X \cup {a}) = In(X) \cup At(a) /\ In(X) \cap At(a) = {}  BY <1>2
  <2>2. IsFiniteSet(X) /\ IsFiniteSet(In(X)) /\ In(X) \subseteq S /\ At(a) \subseteq S
    BY FS_Subset
  <2>3. SumOver(f, In(X) \cup At(a)) = SumOver(f, In(X)) + SumOver(f, At(a))
    <3> HIDE DEF In, At
    <3> QED  BY <1>0, <2>1, <2>2, SumDisjoint
  <2>4. SumOver(h, X \cup {a}) = h[a] + SumOver(h, X)
    BY <1>0, <1>2, <2>2, SumAdd
  <2>5. SumOver(f, In(X)) \in Int /\ SumOver(f, At(a)) \in Int
    <3> HIDE DEF In, At
    <3> QED  BY <1>0, <2>2, SumType
  <2>6. SumOver(h, X) = SumOver(f, In(X)) /\ h[a] = SumOver(f, At(a))  BY <1>2
  <2>7. SumOver(h, X \cup {a}) = SumOver(f, In(X \cup {a}))
    <3> DEFINE p == SumOver(f, In(X))
               q == SumOver(f, At(a))
    <3>1. /\ SumOver(h, X \cup {a}) = q + p
          /\ SumOver(f, In(X \cup {a})) = p + q
          /\ p \in Int /\ q \in Int
      <4> HIDE DEF In, At
      <4> QED  BY <2>1, <2>3, <2>4, <2>5, <2>6
    <3> HIDE DEF p, q
    <3> QED  BY <3>1
  <2> QED  BY <2>7
<1>3. A \in G
  <2> HIDE DEF G
  <2> QED  BY <1>1, <1>2, SubsetInduction
<1>4. In(A) = S  OBVIOUS
<1> QED  BY <1>3, <1>4

-----------------------------------------------------------------------------
(***************************************************************************)
(* What sets of outputs are worth.                                         *)
(***************************************************************************)
BalanceType == [amount : Int, dust_allowance : Int, dust_outputs : Int]

\* The outputs of an address, its dust allowances and its dust outputs.
Mine(S, a) == {o \in S : Output[o].address = a}
Allowances(S, a) == {o \in Mine(S, a) : Output[o].allowance}
Dust(S, a) == {o \in Mine(S, a) : IsDust(o)}

\* Sets of outputs are finite.
LEMMA FiniteOutputs ==
  ASSUME NEW S \in SUBSET OutputIds
  PROVE  IsFiniteSet(S) /\ \A o \in S : AmountOf[o] \in Nat \ {0} /\ AmountOf[o] \in Int
BY LedgerAssumption, FS_Subset DEF AmountOf

\* The value of outputs is a natural number.
LEMMA TotalType ==
  ASSUME NEW S \in SUBSET OutputIds
  PROVE  Total(S) \in Nat /\ (Total(S) = 0 => S = {})
BY FiniteOutputs, SumPositive DEF Total

\* The value of disjoint sets adds up.
LEMMA TotalUnion ==
  ASSUME NEW S \in SUBSET OutputIds, NEW R \in SUBSET OutputIds, S \cap R = {}
  PROVE  Total(S \cup R) = Total(S) + Total(R)
<1>1. IsFiniteSet(S) /\ IsFiniteSet(R) /\ \A o \in S \cup R : AmountOf[o] \in Int
  BY FiniteOutputs
<1> QED  BY <1>1, SumDisjoint DEF Total

\* The value of outputs that are taken away.
LEMMA TotalDifference ==
  ASSUME NEW S \in SUBSET OutputIds, NEW R \in SUBSET S
  PROVE  Total(S \ R) = Total(S) - Total(R)
<1>1. S = (S \ R) \cup R /\ (S \ R) \cap R = {}  OBVIOUS
<1>2. Total(S) = Total(S \ R) + Total(R)  BY <1>1, TotalUnion
<1>3. Total(S \ R) \in Nat /\ Total(R) \in Nat  BY TotalType
<1> QED  BY <1>2, <1>3

\* The three numbers of a balance.
LEMMA BalanceParts ==
  ASSUME NEW S, NEW a
  PROVE  BalanceOf(S, a) = [amount |-> Total(Mine(S, a)),
                            dust_allowance |-> Total(Allowances(S, a)),
                            dust_outputs |-> Cardinality(Dust(S, a))]
BY DEF BalanceOf, Mine, Allowances, Dust

\* What outputs are worth to an address is a balance.
LEMMA BalanceOfType ==
  ASSUME NEW S \in SUBSET OutputIds, NEW a
  PROVE  /\ BalanceOf(S, a) \in [amount : Nat, dust_allowance : Nat, dust_outputs : Nat]
         /\ BalanceOf(S, a) \in BalanceType
<1>1. /\ Mine(S, a) \in SUBSET OutputIds /\ Allowances(S, a) \in SUBSET OutputIds
      /\ Dust(S, a) \in SUBSET OutputIds
  BY DEF Mine, Allowances, Dust
<1>2. Total(Mine(S, a)) \in Nat /\ Total(Allowances(S, a)) \in Nat  BY <1>1, TotalType
<1>3. Cardinality(Dust(S, a)) \in Nat  BY <1>1, FiniteOutputs, FS_CardinalityType
<1> QED  BY <1>2, <1>3, BalanceParts DEF BalanceType

\* The worth of two disjoint sets of outputs is the sum of their worths.
LEMMA BalanceOfUnion ==
  ASSUME NEW S \in SUBSET OutputIds, NEW R \in SUBSET OutputIds, S \cap R = {}, NEW a
  PROVE  BalanceOf(S \cup R, a) = Plus(BalanceOf(S, a), BalanceOf(R, a))
<1>1. /\ Mine(S \cup R, a) = Mine(S, a) \cup Mine(R, a) /\ Mine(S, a) \cap Mine(R, a) = {}
      /\ Mine(S, a) \in SUBSET OutputIds /\ Mine(R, a) \in SUBSET OutputIds
  BY DEF Mine
<1>2. /\ Allowances(S \cup R, a) = Allowances(S, a) \cup Allowances(R, a)
      /\ Allowances(S, a) \cap Allowances(R, a) = {}
      /\ Allowances(S, a) \in SUBSET OutputIds /\ Allowances(R, a) \in SUBSET OutputIds
  BY <1>1 DEF Allowances
<1>3. /\ Dust(S \cup R, a) = Dust(S, a) \cup Dust(R, a) /\ Dust(S, a) \cap Dust(R, a) = {}
      /\ Dust(S, a) \in SUBSET OutputIds /\ Dust(R, a) \in SUBSET OutputIds
  BY <1>1 DEF Dust
<1>4. Total(Mine(S \cup R, a)) = Total(Mine(S, a)) + Total(Mine(R, a))
  BY <1>1, TotalUnion
<1>5. Total(Allowances(S \cup R, a)) = Total(Allowances(S, a)) + Total(Allowances(R, a))
  BY <1>2, TotalUnion
<1>6. Cardinality(Dust(S \cup R, a)) = Cardinality(Dust(S, a)) + Cardinality(Dust(R, a))
  <2>1. IsFiniteSet(Dust(S, a)) /\ IsFiniteSet(Dust(R, a))  BY <1>3, FiniteOutputs
  <2>2. /\ Cardinality(Dust(S, a)) \in Nat /\ Cardinality(Dust(R, a)) \in Nat
        /\ Cardinality({}) = 0
    BY <2>1, FS_CardinalityType, FS_EmptySet
  <2>3. Cardinality(Dust(S, a) \cup Dust(R, a))
          = Cardinality(Dust(S, a)) + Cardinality(Dust(R, a)) - Cardinality({})
    BY <2>1, <1>3, FS_Union
  <2> DEFINE m == Cardinality(Dust(S, a))
             n == Cardinality(Dust(R, a))
  <2>4. Cardinality(Dust(S \cup R, a)) = m + n - 0 /\ m \in Nat /\ n \in Nat
    BY <1>3, <2>2, <2>3
  <2> HIDE DEF m, n
  <2>5. Cardinality(Dust(S \cup R, a)) = m + n  BY <2>4
  <2> QED  BY <2>5 DEF m, n
<1> QED  BY <1>4, <1>5, <1>6, BalanceParts DEF Plus

\* The algebra of balances.
LEMMA PlusType ==
  ASSUME NEW x \in BalanceType, NEW y \in BalanceType
  PROVE  Plus(x, y) \in BalanceType /\ Minus(x) \in BalanceType
BY DEF BalanceType, Plus, Minus

\* A difference that is added and taken away again leaves the balance.
LEMMA PlusMinus ==
  ASSUME NEW x \in BalanceType, NEW y \in BalanceType
  PROVE  x = Plus(Plus(x, y), Minus(y))
BY DEF BalanceType, Plus, Minus

\* Balances of outputs that are taken away.
LEMMA BalanceOfDifference ==
  ASSUME NEW S \in SUBSET OutputIds, NEW R \in SUBSET S, NEW a
  PROVE  BalanceOf(S \ R, a) = Plus(BalanceOf(S, a), Minus(BalanceOf(R, a)))
<1>1. S = (S \ R) \cup R /\ (S \ R) \cap R = {} /\ S \ R \in SUBSET OutputIds
      /\ R \in SUBSET OutputIds
  OBVIOUS
<1>2. BalanceOf(S, a) = Plus(BalanceOf(S \ R, a), BalanceOf(R, a))  BY <1>1, BalanceOfUnion
<1>3. BalanceOf(S \ R, a) \in BalanceType /\ BalanceOf(R, a) \in BalanceType
  BY <1>1, BalanceOfType
<1> QED  BY <1>2, <1>3, PlusMinus

\* An address whose outputs are worth nothing has no outputs, because every
\* output has an amount: a deleted balance loses no dust.
LEMMA NothingWorthNothing ==
  ASSUME NEW S \in SUBSET OutputIds, NEW a, BalanceOf(S, a).amount = 0
  PROVE  BalanceOf(S, a) = ZeroBalance
<1>1. Total(Mine(S, a)) = 0 /\ Mine(S, a) \in SUBSET OutputIds
  BY BalanceParts DEF Mine
<1>2. Mine(S, a) = {}  BY <1>1, TotalType
<1>3. Allowances(S, a) = {} /\ Dust(S, a) = {}  BY <1>2 DEF Allowances, Dust
<1>4. Total({}) = 0 /\ Cardinality({}) = 0  BY SumEmpty, FS_EmptySet DEF Total
<1> QED  BY <1>2, <1>3, <1>4, BalanceParts DEF ZeroBalance

\* The balances of all addresses add up to the total of the outputs.
LEMMA BalancesAddUp ==
  ASSUME NEW S \in SUBSET OutputIds
  PROVE  SumOver([a \in Addresses |-> BalanceOf(S, a).amount], Addresses) = Total(S)
<1> DEFINE h == [a \in Addresses |-> BalanceOf(S, a).amount]
           part == [o \in OutputIds |-> Output[o].address]
<1>1. IsFiniteSet(S) /\ \A o \in S : AmountOf[o] \in Int  BY FiniteOutputs
<1>2. IsFiniteSet(Addresses) /\ \A o \in S : part[o] \in Addresses  BY LedgerAssumption
<1>3. \A a \in Addresses : h[a] = SumOver(AmountOf, {o \in S : part[o] = a})
  <2> TAKE a \in Addresses
  <2>1. Mine(S, a) = {o \in S : part[o] = a}  BY DEF Mine
  <2>2. h[a] = Total(Mine(S, a))  BY BalanceParts
  <2> QED  BY <2>1, <2>2 DEF Total
<1> HIDE DEF h, part
<1>4. SumOver(h, Addresses) = SumOver(AmountOf, S)  BY <1>1, <1>2, <1>3, SumOfParts, SMTT(30)
<1> QED  BY <1>4 DEF Total, h

\* More dust allowance permits as many dust outputs.
LEMMA DustOutputsMaxMonotone ==
  ASSUME NEW x \in Int, NEW y \in Int, x <= y
  PROVE  /\ DustOutputsMax(x) \in Int /\ DustOutputsMax(y) \in Int
         /\ DustOutputsMax(x) <= DustOutputsMax(y)
<1>1. DustDivisor \in Nat \ {0} /\ DustMax \in Nat  BY LedgerAssumption
<1>2. x \div DustDivisor \in Int /\ y \div DustDivisor \in Int  BY <1>1
<1>3. x \div DustDivisor <= y \div DustDivisor  BY <1>1
<1> QED  BY <1>1, <1>2, <1>3 DEF DustOutputsMax

-----------------------------------------------------------------------------
(***************************************************************************)
(* Differences of balances.                                                *)
(***************************************************************************)
LEMMA DiffType ==
  ASSUME NEW C \in SUBSET OutputIds, NEW K \in SUBSET OutputIds, NEW a
  PROVE  DiffOf(C, K, a) \in BalanceType
BY BalanceOfType, PlusType DEF DiffOf

\* Differences add up in any grouping.
LEMMA PlusAssociative ==
  ASSUME NEW x \in BalanceType, NEW y \in BalanceType, NEW z \in BalanceType
  PROVE  Plus(Plus(x, y), z) = Plus(x, Plus(y, z))
BY DEF BalanceType, Plus

\* Differences add up in any order.
LEMMA PlusSwap ==
  ASSUME NEW u \in BalanceType, NEW v \in BalanceType, NEW x \in BalanceType,
         NEW y \in BalanceType
  PROVE  Plus(Plus(u, Minus(v)), Plus(x, Minus(y))) = Plus(Plus(u, x), Minus(Plus(v, y)))
BY DEF BalanceType, Plus, Minus

\* To apply the difference of a milestone to what the unspent outputs S are
\* worth yields what they are worth after the milestone.
LEMMA DiffApplied ==
  ASSUME NEW S \in SUBSET OutputIds, NEW C \in SUBSET OutputIds, S \cap C = {},
         NEW K \in SUBSET (S \cup C), NEW a
  PROVE  Plus(BalanceOf(S, a), DiffOf(C, K, a)) = BalanceOf((S \cup C) \ K, a)
<1>1. BalanceOf(S \cup C, a) = Plus(BalanceOf(S, a), BalanceOf(C, a))  BY BalanceOfUnion
<1>2. S \cup C \in SUBSET OutputIds /\ K \in SUBSET OutputIds  OBVIOUS
<1>3. BalanceOf((S \cup C) \ K, a) = Plus(BalanceOf(S \cup C, a), Minus(BalanceOf(K, a)))
  BY <1>2, BalanceOfDifference
<1>4. /\ BalanceOf(S, a) \in BalanceType /\ BalanceOf(C, a) \in BalanceType
      /\ Minus(BalanceOf(K, a)) \in BalanceType
  BY <1>2, BalanceOfType, PlusType
<1> QED  BY <1>1, <1>3, <1>4, PlusAssociative DEF DiffOf

\* The differences of transactions that create and consume different outputs
\* add up to the difference of all they create and consume.
LEMMA DiffMerged ==
  ASSUME NEW C \in SUBSET OutputIds, NEW D \in SUBSET OutputIds, C \cap D = {},
         NEW K \in SUBSET OutputIds, NEW L \in SUBSET OutputIds, K \cap L = {}, NEW a
  PROVE  Plus(DiffOf(C, K, a), DiffOf(D, L, a)) = DiffOf(C \cup D, K \cup L, a)
<1>1. /\ BalanceOf(C \cup D, a) = Plus(BalanceOf(C, a), BalanceOf(D, a))
      /\ BalanceOf(K \cup L, a) = Plus(BalanceOf(K, a), BalanceOf(L, a))
  BY BalanceOfUnion
<1>2. /\ BalanceOf(C, a) \in BalanceType /\ BalanceOf(D, a) \in BalanceType
      /\ BalanceOf(K, a) \in BalanceType /\ BalanceOf(L, a) \in BalanceType
  BY BalanceOfType
<1> QED  BY <1>1, <1>2, PlusSwap DEF DiffOf

\* The difference of nothing.
LEMMA NoDifference ==
  ASSUME NEW a  PROVE DiffOf({}, {}, a) = ZeroBalance
<1>1. BalanceOf({}, a) = ZeroBalance
  <2>1. Mine({}, a) = {} /\ Total({}) = 0  BY SumEmpty DEF Mine, Total
  <2>2. BalanceOf({}, a).amount = 0  BY <2>1, BalanceParts
  <2> QED  BY <2>2, NothingWorthNothing
<1> QED  BY <1>1 DEF DiffOf, Plus, Minus, ZeroBalance

\* An address that a difference does not take dust allowance from or give
\* dust to keeps to its limit.
LEMMA DustKept ==
  ASSUME NEW b \in BalanceType, NEW diff \in BalanceType, ~ExceedsDust(b),
         ~IsDustMutating(diff)
  PROVE  ~ExceedsDust(Plus(b, diff))
<1>1. /\ b.dust_allowance \in Int /\ Plus(b, diff).dust_allowance \in Int
      /\ b.dust_allowance <= Plus(b, diff).dust_allowance
      /\ b.dust_outputs \in Int /\ Plus(b, diff).dust_outputs \in Int
      /\ Plus(b, diff).dust_outputs <= b.dust_outputs
  BY DEF BalanceType, Plus, IsDustMutating
<1>2. DustOutputsMax(b.dust_allowance) \in Int
      /\ DustOutputsMax(Plus(b, diff).dust_allowance) \in Int
      /\ DustOutputsMax(b.dust_allowance) <= DustOutputsMax(Plus(b, diff).dust_allowance)
  BY <1>1, DustOutputsMaxMonotone
<1> QED  BY <1>1, <1>2 DEF ExceedsDust

-----------------------------------------------------------------------------
(***************************************************************************)
(* One milestone (apply_milestone).                                        *)
(***************************************************************************)
\* The table of balances is exact.
BalancesExact == balances = [a \in Addresses |-> BalanceOf(unspent, a)]

\* A batch that creates new outputs, consumes outputs that exist and carries
\* their difference leaves each output spent or unspent and every balance
\* what the unspent outputs of its address are worth.
THEOREM MilestoneKeepsBalances ==
  ASSUME NEW index, NEW created \in SUBSET OutputIds,
         NEW consumed \in SUBSET (unspent \cup created), NEW migration,
         unspent \in SUBSET OutputIds, created \cap outputs = {}, UtxoPartition, BalancesExact,
         ApplyMilestone(index, created, consumed, DiffsOf(created, consumed), migration)
  PROVE  /\ UtxoPartition'
         /\ BalancesExact'
         /\ \A a \in Addresses : balances'[a] = Plus(balances[a], DiffsOf(created, consumed)[a])
         /\ Total(unspent') = Total(unspent) + Total(created) - Total(consumed)
<1> DEFINE diffs == DiffsOf(created, consumed)
<1>1. /\ outputs' = outputs \cup created /\ unspent' = (unspent \cup created) \ consumed
      /\ spent' = spent \cup consumed /\ balances' = ApplyDiffs(diffs)
  BY DEF ApplyMilestone, UnspentAfter
<1>2. unspent \cap created = {} /\ unspent' \in SUBSET OutputIds
  BY <1>1 DEF UtxoPartition
<1>3. UtxoPartition'
  BY <1>1, <1>2 DEF UtxoPartition
<1>4. ASSUME NEW a \in Addresses
      PROVE  /\ Plus(balances[a], diffs[a]) = BalanceOf(unspent', a)
             /\ ApplyDiffs(diffs)[a] = BalanceOf(unspent', a)
  <2>1. balances[a] = BalanceOf(unspent, a) /\ diffs[a] = DiffOf(created, consumed, a)
    BY DEF DiffsOf, BalancesExact
  <2>2. Plus(balances[a], diffs[a]) = BalanceOf(unspent', a)
    BY <1>1, <1>2, <2>1, DiffApplied
  <2>3. ApplyDiffs(diffs)[a] = IF Plus(balances[a], diffs[a]).amount = 0 THEN ZeroBalance
                               ELSE Plus(balances[a], diffs[a])
    BY DEF ApplyDiffs
  <2>4. BalanceOf(unspent', a).amount = 0 => BalanceOf(unspent', a) = ZeroBalance
    BY <1>2, NothingWorthNothing
  <2> QED  BY <2>2, <2>3, <2>4
<1>5. ApplyDiffs(diffs) = [a \in Addresses |-> BalanceOf(unspent', a)]
  BY <1>4 DEF ApplyDiffs
<1> HIDE DEF diffs
<1>6. Total(unspent') = Total(unspent) + Total(created) - Total(consumed)
  <2>1. unspent \cup created \in SUBSET OutputIds /\ consumed \in SUBSET OutputIds  OBVIOUS
  <2>2. Total((unspent \cup created) \ consumed) = Total(unspent \cup created) - Total(consumed)
    BY <2>1, TotalDifference
  <2>3. Total(unspent \cup created) = Total(unspent) + Total(created)
    BY <1>2, TotalUnion
  <2>4. Total(unspent \cup created) - Total(consumed)
          = Total(unspent) + Total(created) - Total(consumed)
    <3>1. Total(unspent) \in Nat /\ Total(created) \in Nat /\ Total(consumed) \in Nat
      BY <2>1, TotalType
    <3> QED  BY <2>3, <3>1
  <2> QED  BY <1>1, <2>2, <2>4
<1> QED  BY <1>1, <1>3, <1>4, <1>5, <1>6 DEF BalancesExact, diffs
=============================================================================
