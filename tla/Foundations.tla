------------------------------- MODULE Foundations -------------------------------
(***************************************************************************)
(* What the proofs need of data: induction over the natural numbers, why a *)
(* recursively defined function is the function its equation says, and how *)
(* the elements of a finite set are ranked and added up.                   *)
(*                                                                         *)
(* In TLA+, f[x \in S] == e stands for CHOOSE f : f = [x \in S |-> e], which *)
(* tells something about f only once such a function is known to exist.    *)
(* The equations of this project recur to arguments of a smaller measure:  *)
(* a position further back, a position nearer to the end, a smaller set.   *)
(* The lemmas are stated with sets and functions, so that they can be      *)
(* cited for any of them.                                                  *)
(***************************************************************************)
EXTENDS Integers, FiniteSets, Functions, FiniteSetTheorems, WellFoundedInduction, TLAPS

\* A set of natural numbers has a least element: the induction the proofs use.
LEMMA LeastNat ==
    ASSUME NEW T \in SUBSET Nat, T # {}
    PROVE  \E n \in T : \A m \in T : n <= m
  <1>1. IsWellFoundedOn(OpToRel(<, Nat), Nat)
    BY NatLessThanWellFounded
  <1>2. PICK n \in T : \A m \in T : ~(<<m, n>> \in OpToRel(<, Nat))
    BY <1>1, WFMin
  <1>3. \A m \in T : ~(m < n)
    BY <1>2 DEF OpToRel
  <1> QED BY <1>3

\* A set that is closed under the successor and holds 0 is all of Nat.
LEMMA NatInSet ==
    ASSUME NEW P \in SUBSET Nat, 0 \in P, \A n \in P : n + 1 \in P
    PROVE  P = Nat
  <1> SUFFICES ASSUME Nat \ P # {}
               PROVE  FALSE
    OBVIOUS
  <1>1. PICK n \in Nat \ P : \A m \in Nat \ P : n <= m
    BY LeastNat
  <1>2. n - 1 \in Nat /\ n - 1 \notin Nat \ P
    BY <1>1
  <1> QED BY <1>1, <1>2

\* What holds at the end of an interval and is handed down holds all over it.
LEMMA CountDown ==
    ASSUME NEW n \in Nat, NEW P, n + 1 \in P, \A k \in 1..n : k + 1 \in P => k \in P
    PROVE  \A k \in 1..(n + 1) : k \in P
  <1> DEFINE Q == {m \in Nat : m <= n => n + 1 - m \in P}
  <1>1. 0 \in Q
    OBVIOUS
  <1>2. ASSUME NEW m \in Q
        PROVE  m + 1 \in Q
    <2> SUFFICES ASSUME m + 1 <= n
                 PROVE  n + 1 - (m + 1) \in P
      OBVIOUS
    <2>1. n + 1 - (m + 1) \in 1..n /\ (n + 1 - (m + 1)) + 1 = n + 1 - m /\ n + 1 - m \in P
      OBVIOUS
    <2> QED BY <2>1
  <1>3. Q = Nat
    <2> HIDE DEF Q
    <2>1. Q \in SUBSET Nat
      BY DEF Q
    <2> QED BY <1>1, <1>2, <2>1, NatInSet
  <1>4. ASSUME NEW k \in 1..(n + 1)
        PROVE  k \in P
    <2>1. n + 1 - k \in Nat /\ n + 1 - k <= n /\ n + 1 - (n + 1 - k) = k
      OBVIOUS
    <2>2. n + 1 - k \in Q
      <3> HIDE DEF Q
      <3> QED BY <1>3, <2>1
    <2> QED BY <2>1, <2>2
  <1> QED BY <1>4

-----------------------------------------------------------------------------
(* F[<<s, g>>] is the right-hand side of the equation at s, computed with  *)
(* g; it looks at g only at smaller arguments.                             *)

LooksBack(S, T, mu, F) ==
    \A s \in S : \A g, h \in [S -> T] :
        (\A t \in S : mu[t] < mu[s] => g[t] = h[t]) => F[<<s, g>>] = F[<<s, h>>]

\* g satisfies the equation at the arguments whose measure is below k.
SolvesBelow(S, mu, F, g, k) == \A s \in S : mu[s] < k => g[s] = F[<<s, g>>]

Solves(S, T, F, g) == g \in [S -> T] /\ \A s \in S : g[s] = F[<<s, g>>]

LEMMA PartialSolution ==
    ASSUME NEW S, NEW T, NEW mu \in [S -> Nat], NEW F \in [S \X [S -> T] -> T],
           LooksBack(S, T, mu, F), T # {}
    PROVE  \A k \in Nat : \E g \in [S -> T] : SolvesBelow(S, mu, F, g, k)
  <1> DEFINE P == {k \in Nat : \E g \in [S -> T] : SolvesBelow(S, mu, F, g, k)}
  <1>1. 0 \in P
    <2>1. PICK t \in T : TRUE
      OBVIOUS
    <2>2. [s \in S |-> t] \in [S -> T]
      OBVIOUS
    <2>3. SolvesBelow(S, mu, F, [s \in S |-> t], 0)
      BY DEF SolvesBelow
    <2> QED BY <2>2, <2>3
  <1>2. ASSUME NEW k \in P
        PROVE  k + 1 \in P
    <2>1. PICK g \in [S -> T] : SolvesBelow(S, mu, F, g, k)
      OBVIOUS
    <2> DEFINE h == [s \in S |-> IF mu[s] = k THEN F[<<s, g>>] ELSE g[s]]
    <2>2. h \in [S -> T]
      OBVIOUS
    <2>3. ASSUME NEW s \in S, mu[s] < k + 1
          PROVE  h[s] = F[<<s, h>>]
      <3>1. \A t \in S : mu[t] < mu[s] => g[t] = h[t]
        BY <2>3
      <3>2. F[<<s, g>>] = F[<<s, h>>]
        BY <2>2, <3>1 DEF LooksBack
      <3>3. h[s] = F[<<s, g>>]
        BY <2>1, <2>3 DEF SolvesBelow
      <3> QED BY <3>2, <3>3
    <2>4. SolvesBelow(S, mu, F, h, k + 1)
      BY <2>3 DEF SolvesBelow
    <2> HIDE DEF h
    <2> QED BY <2>2, <2>4
  <1>3. P = Nat
    <2> HIDE DEF P
    <2>1. P \in SUBSET Nat
      BY DEF P
    <2> QED BY <1>1, <1>2, <2>1, NatInSet
  <1> QED BY <1>3

Agreement(S, T, mu, F) ==
    \A k \in Nat, g, h \in [S -> T] :
        SolvesBelow(S, mu, F, g, k) /\ SolvesBelow(S, mu, F, h, k)
           => \A s \in S : mu[s] < k => g[s] = h[s]

LEMMA SolutionsAgree ==
    ASSUME NEW S, NEW T, NEW mu \in [S -> Nat], NEW F \in [S \X [S -> T] -> T],
           LooksBack(S, T, mu, F)
    PROVE  Agreement(S, T, mu, F)
  <1> SUFFICES ASSUME NEW k \in Nat,
                      NEW g \in [S -> T], SolvesBelow(S, mu, F, g, k),
                      NEW h \in [S -> T], SolvesBelow(S, mu, F, h, k)
               PROVE  \A s \in S : mu[s] < k => g[s] = h[s]
    BY DEF Agreement
  <1> DEFINE Bad == {s \in S : mu[s] < k /\ g[s] # h[s]}
             levels == {mu[s] : s \in Bad}
  <1> SUFFICES ASSUME Bad # {}
               PROVE  FALSE
    OBVIOUS
  <1>1. levels \in SUBSET Nat /\ levels # {}
    OBVIOUS
  <1>2. PICK n \in levels : \A m \in levels : n <= m
    BY <1>1, LeastNat
  <1>3. PICK s \in Bad : mu[s] = n
    BY <1>2
  <1>4. \A t \in S : mu[t] < mu[s] => g[t] = h[t]
    <2> SUFFICES ASSUME NEW t \in S, mu[t] < mu[s], g[t] # h[t]
                 PROVE  FALSE
      OBVIOUS
    <2>1. t \in Bad
      BY <1>3
    <2>2. mu[t] \in levels /\ mu[t] \in Nat /\ mu[s] \in Nat
      BY <2>1
    <2>3. n <= mu[t]
      BY <1>2, <2>2
    <2> QED BY <1>3, <2>2, <2>3
  <1>5. F[<<s, g>>] = F[<<s, h>>]
    BY <1>3, <1>4 DEF LooksBack
  <1> QED BY <1>3, <1>5 DEF SolvesBelow

\* The equation has a solution.
LEMMA SolutionExists ==
    ASSUME NEW S, NEW T, NEW mu \in [S -> Nat], NEW F \in [S \X [S -> T] -> T],
           LooksBack(S, T, mu, F), T # {}
    PROVE  \E g : Solves(S, T, F, g)
  <1>1. PICK upTo \in [Nat -> [S -> T]] : \A k \in Nat : SolvesBelow(S, mu, F, upTo[k], k)
    <2> DEFINE choice == [k \in Nat |-> CHOOSE g \in [S -> T] : SolvesBelow(S, mu, F, g, k)]
    <2>1. \A k \in Nat : choice[k] \in [S -> T] /\ SolvesBelow(S, mu, F, choice[k], k)
      BY PartialSolution
    <2> QED BY <2>1
  <1>2. Agreement(S, T, mu, F)
    BY SolutionsAgree
  <1> DEFINE whole == [s \in S |-> upTo[mu[s] + 1][s]]
  <1>3. whole \in [S -> T]
    OBVIOUS
  <1>4. ASSUME NEW s \in S
        PROVE  whole[s] = F[<<s, whole>>]
    <2>1. PICK k \in Nat : k = mu[s] + 1
      OBVIOUS
    <2>2. upTo[k] \in [S -> T] /\ SolvesBelow(S, mu, F, upTo[k], k) /\ mu[s] < k
      BY <1>1, <2>1
    <2>3. ASSUME NEW t \in S, mu[t] < mu[s]
          PROVE  whole[t] = upTo[k][t]
      <3>1. PICK j \in Nat : j = mu[t] + 1
        OBVIOUS
      <3>2. upTo[j] \in [S -> T] /\ SolvesBelow(S, mu, F, upTo[j], j) /\ mu[t] < j
        BY <1>1, <3>1
      <3>3. j \in Nat /\ k \in Nat /\ j < k
        BY <2>1, <2>3, <3>1
      <3>4. \A r \in S : mu[r] < j => mu[r] < k
        BY <3>3
      <3>5. SolvesBelow(S, mu, F, upTo[k], j)
        BY <2>2, <3>4 DEF SolvesBelow
      <3>6. \A r \in S : mu[r] < j => upTo[j][r] = upTo[k][r]
        BY <1>2, <2>2, <3>2, <3>5 DEF Agreement
      <3>7. upTo[j][t] = upTo[k][t]
        BY <3>2, <3>6
      <3> QED BY <3>1, <3>7
    <2>4. F[<<s, whole>>] = F[<<s, upTo[k]>>]
      BY <1>3, <2>2, <2>3 DEF LooksBack
    <2>5. upTo[k][s] = F[<<s, upTo[k]>>]
      BY <2>2 DEF SolvesBelow
    <2> QED BY <2>1, <2>4, <2>5
  <1> QED BY <1>3, <1>4 DEF Solves

-----------------------------------------------------------------------------
(* Finite sets.                                                            *)

LEMMA FiniteImage ==
    ASSUME NEW S, IsFiniteSet(S), NEW f, DOMAIN f = S
    PROVE  IsFiniteSet({f[x] : x \in S}) /\ Cardinality({f[x] : x \in S}) <= Cardinality(S)
  <1> DEFINE T == {f[x] : x \in S}
             onto == [x \in S |-> f[x]]
  <1>1. onto \in Surjection(S, T)
    BY DEF Surjection
  <1> HIDE DEF onto, T
  <1> QED BY <1>1, FS_Surjection DEF T

\* R is a strict total order of S.
StrictOrder(S, R) ==
    /\ \A s \in S : <<s, s>> \notin R
    /\ \A s, t, u \in S : <<s, t>> \in R /\ <<t, u>> \in R => <<s, u>> \in R
    /\ \A s, t \in S : s # t => <<s, t>> \in R \/ <<t, s>> \in R

RankOf(S, R) == [s \in S |-> Cardinality({t \in S : <<t, s>> \in R})]

\* The rank of an element is the number of those before it; ranks are unique
\* and without a gap.
LEMMA RankFacts ==
    ASSUME NEW S, IsFiniteSet(S), NEW R, StrictOrder(S, R)
    PROVE  /\ RankOf(S, R) \in Bijection(S, 0..(Cardinality(S) - 1))
           /\ \A s, t \in S : <<s, t>> \in R => RankOf(S, R)[s] < RankOf(S, R)[t]
  <1> DEFINE before(s) == {t \in S : <<t, s>> \in R}
             rank == RankOf(S, R)
             n == Cardinality(S)
  <1>1. n \in Nat
    BY FS_CardinalityType
  <1>2. ASSUME NEW s \in S
        PROVE  IsFiniteSet(before(s)) /\ rank[s] = Cardinality(before(s)) /\ rank[s] \in Nat
    <2>1. IsFiniteSet(before(s))
      BY FS_Subset
    <2>2. rank[s] = Cardinality(before(s))
      BY DEF RankOf
    <2> QED BY <2>1, <2>2, FS_CardinalityType
  <1>3. ASSUME NEW s \in S, NEW T \in SUBSET S, s \in T, before(s) \subseteq T
        PROVE  rank[s] < Cardinality(T) /\ Cardinality(T) \in Nat
    <2> DEFINE B == before(s)
    <2>1. IsFiniteSet(T) /\ Cardinality(T) \in Nat
      BY FS_Subset, FS_CardinalityType
    <2>2. s \notin B /\ B \subseteq T
      BY <1>3 DEF StrictOrder
    <2>3. rank[s] = Cardinality(B) /\ rank[s] \in Nat
      BY <1>2
    <2> HIDE DEF B
    <2>4. Cardinality(B) <= Cardinality(T) /\ (Cardinality(T) = Cardinality(B) => T = B)
      BY <2>1, <2>2, FS_Subset
    <2>5. T # B
      BY <1>3, <2>2
    <2> HIDE DEF rank
    <2> QED BY <2>1, <2>3, <2>4, <2>5
  <1>4. ASSUME NEW s \in S, NEW t \in S, <<s, t>> \in R
        PROVE  rank[s] < rank[t]
    <2>1. before(s) \subseteq before(t) /\ s \in before(t)
      BY <1>4 DEF StrictOrder
    <2>2. before(t) \in SUBSET S
      OBVIOUS
    <2>3. rank[s] < Cardinality(before(t))
      <3> HIDE DEF before, rank
      <3> QED BY <1>3, <2>1, <2>2
    <2> QED BY <1>2, <2>3
  <1>5. rank \in [S -> 0..(n - 1)]
    <2>1. \A s \in S : rank[s] < n
      BY <1>3
    <2>2. rank = [s \in S |-> rank[s]]
      BY DEF RankOf
    <2>3. ASSUME NEW s \in S
          PROVE  rank[s] \in 0..(n - 1)
      <3>1. rank[s] \in Nat /\ rank[s] < n
        BY <1>2, <2>1
      <3> HIDE DEF rank, n
      <3> QED BY <1>1, <3>1
    <2> HIDE DEF rank, n
    <2> QED BY <2>2, <2>3
  <1>6. \A s, t \in S : s # t => rank[s] # rank[t]
    <2> SUFFICES ASSUME NEW s \in S, NEW t \in S, s # t
                 PROVE  rank[s] # rank[t]
      OBVIOUS
    <2>1. <<s, t>> \in R \/ <<t, s>> \in R
      BY DEF StrictOrder
    <2>2. rank[s] \in Nat /\ rank[t] \in Nat
      BY <1>2
    <2>3. rank[s] < rank[t] \/ rank[t] < rank[s]
      BY <1>4, <2>1
    <2> HIDE DEF rank
    <2> QED BY <2>2, <2>3
  <1>7. rank \in Injection(S, 0..(n - 1))
    <2> HIDE DEF rank, n
    <2> QED BY <1>5, <1>6 DEF Injection, IsInjective
  <1>8. IsFiniteSet(0..(n - 1)) /\ Cardinality(0..(n - 1)) = n
    <2> HIDE DEF n
    <2>1. n - 1 \in Int
      BY <1>1
    <2>2. /\ IsFiniteSet(0..(n - 1))
          /\ Cardinality(0..(n - 1)) = IF 0 > n - 1 THEN 0 ELSE n - 1 - 0 + 1
      BY <2>1, FS_Interval
    <2> QED BY <1>1, <2>2
  <1>9. rank \in Surjection(S, 0..(n - 1))
    <2> HIDE DEF rank
    <2> QED BY <1>7, <1>8, FS_Injection
  <1> QED BY <1>4, <1>7, <1>9 DEF Bijection

-----------------------------------------------------------------------------
(* Sums.  The community modules add up in an order they choose.            *)

AddsUp(S, fun, sum) ==
    /\ sum \in [SUBSET S -> Nat]
    /\ SumFunctionOnSet(fun, S) = sum[S]
    /\ sum[{}] = 0
    /\ \A T \in SUBSET S : T # {} => \E x \in T : sum[T] = fun[x] + sum[T \ {x}]

LEMMA SumEquation ==
    ASSUME NEW S, IsFiniteSet(S), NEW fun, \A i \in S : fun[i] \in Nat
    PROVE  \E sum : AddsUp(S, fun, sum)
  <1> DEFINE D == SUBSET S
             size == [T \in D |-> Cardinality(T)]
             some(T) == CHOOSE x \in T : TRUE
             Rhs(T, g) == IF T = {} THEN 0 ELSE fun[some(T)] + g[T \ {some(T)}]
             F == [x \in D \X [D -> Nat] |-> Rhs(x[1], x[2])]
  <1>1. ASSUME NEW T \in D, T # {}
        PROVE  some(T) \in T /\ some(T) \in S /\ T \ {some(T)} \in D
    BY <1>1
  <1>2. ASSUME NEW T \in D
        PROVE  IsFiniteSet(T) /\ size[T] = Cardinality(T) /\ size[T] \in Nat
    BY FS_Subset, FS_CardinalityType
  <1>3. ASSUME NEW T \in D, T # {}
        PROVE  size[T \ {some(T)}] < size[T]
    <2> DEFINE x == some(T)
    <2>1. x \in T /\ T \ {x} \in D
      BY <1>1, <1>3
    <2> HIDE DEF x
    <2>2. Cardinality(T \ {x}) = Cardinality(T) - 1
      BY <1>2, <2>1, FS_RemoveElement
    <2>3. size[T \ {x}] = size[T] - 1 /\ size[T] \in Nat
      BY <1>2, <2>1, <2>2
    <2>4. size[T \ {x}] < size[T]
      <3> HIDE DEF size
      <3> QED BY <2>3
    <2> QED BY <2>4 DEF x
  <1>4. ASSUME NEW T \in D, NEW g \in [D -> Nat]
        PROVE  Rhs(T, g) \in Nat
    <2>1. CASE T = {}
      BY <2>1
    <2>2. CASE T # {}
      <3> DEFINE x == some(T)
      <3>1. x \in S /\ T \ {x} \in D
        BY <1>1, <2>2
      <3>2. Rhs(T, g) = fun[x] + g[T \ {x}]
        BY <2>2
      <3>3. fun[x] \in Nat /\ g[T \ {x}] \in Nat
        <4> HIDE DEF x, D
        <4> QED BY <3>1
      <3> HIDE DEF x, Rhs
      <3> QED BY <3>2, <3>3
    <2> QED BY <2>1, <2>2
  <1>5. size \in [D -> Nat] /\ Nat # {}
    <2> HIDE DEF D
    <2> QED BY <1>2
  <1>6. F \in [D \X [D -> Nat] -> Nat]
    <2> HIDE DEF Rhs, D
    <2> QED BY <1>4
  <1>7. LooksBack(D, Nat, size, F)
    <2> SUFFICES ASSUME NEW T \in D, NEW g \in [D -> Nat], NEW h \in [D -> Nat],
                        \A U \in D : size[U] < size[T] => g[U] = h[U]
                 PROVE  F[<<T, g>>] = F[<<T, h>>]
      <3> HIDE DEF F, D, size
      <3> QED BY DEF LooksBack
    <2>1. F[<<T, g>>] = Rhs(T, g) /\ F[<<T, h>>] = Rhs(T, h)
      <3> HIDE DEF Rhs, D
      <3> QED OBVIOUS
    <2>2. T # {} => g[T \ {some(T)}] = h[T \ {some(T)}]
      <3> SUFFICES ASSUME T # {}
                   PROVE  g[T \ {some(T)}] = h[T \ {some(T)}]
        OBVIOUS
      <3> DEFINE U == T \ {some(T)}
      <3>1. U \in D /\ size[U] < size[T]
        BY <1>1, <1>3
      <3> HIDE DEF U, size, D
      <3> QED BY <3>1 DEF U
    <2> QED BY <2>1, <2>2
  <1>8. PICK g : Solves(D, Nat, F, g)
    <2> HIDE DEF D, F, size
    <2> QED BY <1>5, <1>6, <1>7, SolutionExists
  <1>9. g = [T \in D |-> Rhs(T, g)]
    <2>1. g \in [D -> Nat] /\ \A T \in D : g[T] = F[<<T, g>>]
      <3> HIDE DEF D, F
      <3> QED BY <1>8 DEF Solves
    <2>2. \A T \in D : F[<<T, g>>] = Rhs(T, g)
      <3> HIDE DEF D, Rhs
      <3> QED BY <2>1
    <2> HIDE DEF D, Rhs, F
    <2> QED BY <2>1, <2>2
  <1> DEFINE iter == CHOOSE f : f = [T \in D |-> Rhs(T, f)]
  <1>10. iter = [T \in D |-> Rhs(T, iter)]
    BY <1>9
  <1>11. SumFunctionOnSet(fun, S) = iter[S]
    BY DEF SumFunctionOnSet, FoldFunctionOnSet, MapThenFoldSet
  <1> HIDE DEF iter
  <1>12. /\ iter[{}] = 0
         /\ \A T \in D : T # {} => iter[T] = fun[some(T)] + iter[T \ {some(T)}]
    <2>1. {} \in D
      OBVIOUS
    <2> HIDE DEF D
    <2> QED BY <1>10, <2>1
  <1> DEFINE P == {n \in Nat : \A T \in D : size[T] = n => iter[T] \in Nat}
  <1>13. 0 \in P
    <2> SUFFICES ASSUME NEW T \in D, size[T] = 0
                 PROVE  iter[T] \in Nat
      OBVIOUS
    <2>1. T = {}
      BY <1>2, FS_EmptySet
    <2> QED BY <1>12, <2>1
  <1>14. ASSUME NEW n \in P
         PROVE  n + 1 \in P
    <2> SUFFICES ASSUME NEW T \in D, size[T] = n + 1
                 PROVE  iter[T] \in Nat
      <3> HIDE DEF size, D
      <3> QED OBVIOUS
    <2>1. T # {}
      <3>1. {} \in D /\ Cardinality({}) = 0 /\ n + 1 # 0
        BY FS_EmptySet
      <3>2. size[{}] = 0
        BY <3>1
      <3> HIDE DEF size
      <3> QED BY <3>1, <3>2, Zenon
    <2> DEFINE x == some(T)
               U == T \ {x}
    <2>2. x \in T /\ x \in S /\ U \in D
      BY <1>1, <2>1
    <2>3. size[U] = n
      <3>1. Cardinality(U) = Cardinality(T) - 1
        <4> HIDE DEF x
        <4> QED BY <1>2, <2>2, FS_RemoveElement
      <3>2. size[U] = Cardinality(U) /\ size[T] = Cardinality(T) /\ n \in Nat
        BY <1>2, <2>2
      <3> HIDE DEF size, U
      <3> QED BY <3>1, <3>2
    <2>4. iter[U] \in Nat
      BY <2>2, <2>3
    <2>5. iter[T] = fun[x] + iter[U]
      BY <1>12, <2>1
    <2>6. fun[x] \in Nat
      <3> HIDE DEF x
      <3> QED BY <2>2
    <2> HIDE DEF x, U
    <2> QED BY <2>4, <2>5, <2>6
  <1>15. P = Nat
    <2> HIDE DEF P
    <2>1. P \in SUBSET Nat
      BY DEF P
    <2> QED BY <1>13, <1>14, <2>1, NatInSet
  <1>16. \A T \in D : iter[T] \in Nat
    <2> HIDE DEF size, D
    <2> QED BY <1>2, <1>15
  <1>17. iter \in [D -> Nat]
    <2>1. iter = [T \in D |-> iter[T]]
      <3> HIDE DEF Rhs, D
      <3> QED BY <1>10
    <2> HIDE DEF D
    <2> QED BY <1>16, <2>1
  <1>18. \A T \in D : T # {} => \E x \in T : iter[T] = fun[x] + iter[T \ {x}]
    BY <1>1, <1>12
  <1>19. iter[{}] = 0
    BY <1>12
  <1> HIDE DEF P, some, size, F, Rhs
  <1> QED BY <1>11, <1>17, <1>18, <1>19 DEF AddsUp

\* No element of the sum is above b, and only those of B are above zero.
LEMMA SumBound ==
    ASSUME NEW S, IsFiniteSet(S), NEW fun, NEW B \in SUBSET S, NEW b \in Nat,
           \A i \in S : fun[i] \in Nat /\ fun[i] <= b,
           \A i \in S \ B : fun[i] = 0
    PROVE  SumFunctionOnSet(fun, S) <= Cardinality(B) * b /\ SumFunctionOnSet(fun, S) \in Nat
  <1>1. PICK sum : AddsUp(S, fun, sum)
    <2>1. \A i \in S : fun[i] \in Nat
      OBVIOUS
    <2> QED BY <2>1, SumEquation
  <1> DEFINE count(T) == Cardinality(T \cap B)
             P == {n \in Nat : \A T \in SUBSET S : Cardinality(T) = n => sum[T] <= count(T) * b}
  <1>2. ASSUME NEW T \in SUBSET S
        PROVE  IsFiniteSet(T) /\ Cardinality(T) \in Nat /\ IsFiniteSet(T \cap B) /\ count(T) \in Nat
    <2>1. IsFiniteSet(T) /\ T \cap B \in SUBSET T
      BY FS_Subset
    <2> QED BY <2>1, FS_Subset, FS_CardinalityType
  <1>3. 0 \in P
    <2> SUFFICES ASSUME NEW T \in SUBSET S, Cardinality(T) = 0
                 PROVE  sum[T] <= count(T) * b
      OBVIOUS
    <2>1. T = {} /\ count({}) = 0
      BY <1>2, FS_EmptySet
    <2>2. 0 <= 0 * b
      OBVIOUS
    <2> QED BY <1>1, <2>1, <2>2 DEF AddsUp
  <1>4. ASSUME NEW n \in P
        PROVE  n + 1 \in P
    <2> SUFFICES ASSUME NEW T \in SUBSET S, Cardinality(T) = n + 1
                 PROVE  sum[T] <= count(T) * b
      OBVIOUS
    <2>1. T # {}
      <3>1. Cardinality({}) = 0 /\ n + 1 # 0
        BY FS_EmptySet
      <3> QED BY <3>1, Zenon
    <2>2. PICK x \in T : sum[T] = fun[x] + sum[T \ {x}]
      BY <1>1, <2>1 DEF AddsUp
    <2> DEFINE U == T \ {x}
    <2>3. Cardinality(U) = Cardinality(T) - 1
      BY <1>2, FS_RemoveElement
    <2>4. U \in SUBSET S /\ Cardinality(U) = n
      BY <2>3
    <2>5. sum[U] <= count(U) * b
      BY <2>4
    <2>6. /\ sum[U] \in Nat /\ fun[x] \in Nat /\ fun[x] <= b /\ sum[T] = fun[x] + sum[U]
          /\ count(U) \in Nat /\ count(T) \in Nat
      <3>1. fun[x] \in Nat /\ fun[x] <= b
        OBVIOUS
      <3>2. sum[U] \in Nat
        BY <1>1, <2>4 DEF AddsUp
      <3> QED BY <1>2, <2>2, <2>4, <3>1, <3>2
    <2>7. CASE x \in B
      <3>1. (T \cap B) \ {x} = U \cap B /\ x \in T \cap B
        BY <2>7
      <3>2. count(T) = count(U) + 1
        <4>1. Cardinality((T \cap B) \ {x}) = Cardinality(T \cap B) - 1
          BY <1>2, <3>1, FS_RemoveElement
        <4>2. count(U) = Cardinality((T \cap B) \ {x})
          BY <3>1
        <4> HIDE DEF U
        <4> QED BY <1>2, <2>6, <4>1, <4>2
      <3> HIDE DEF U, count
      <3>3. (count(U) + 1) * b = count(U) * b + b /\ count(U) * b \in Nat
        BY <2>6
      <3> QED BY <2>5, <2>6, <3>2, <3>3
    <2>8. CASE x \notin B
      <3>1. T \cap B = U \cap B /\ fun[x] = 0
        BY <2>8
      <3>2. count(T) = count(U)
        BY <3>1
      <3> HIDE DEF U, count
      <3> QED BY <2>5, <2>6, <3>1, <3>2
    <2> QED BY <2>7, <2>8
  <1>5. P = Nat
    <2> HIDE DEF P
    <2>1. P \in SUBSET Nat
      BY DEF P
    <2> QED BY <1>3, <1>4, <2>1, NatInSet
  <1>6. sum[S] <= count(S) * b
    BY <1>2, <1>5
  <1>7. S \cap B = B
    OBVIOUS
  <1>8. sum[S] \in Nat
    BY <1>1 DEF AddsUp
  <1> QED BY <1>1, <1>6, <1>7, <1>8 DEF AddsUp

LEMMA SumOfNone == SumFunction(<<>>) = 0
  <1>1. DOMAIN <<>> = {} /\ IsFiniteSet({})
    BY FS_EmptySet
  <1>2. PICK sum : AddsUp({}, <<>>, sum)
    BY <1>1, SumEquation
  <1> QED BY <1>1, <1>2 DEF SumFunction, AddsUp

LEMMA SumOfOne ==
    ASSUME NEW one, DOMAIN one = {1}, one[1] \in Nat
    PROVE  SumFunction(one) = one[1]
  <1>1. IsFiniteSet({1})
    BY FS_Singleton
  <1>2. PICK sum : AddsUp({1}, one, sum)
    BY <1>1, SumEquation
  <1>3. sum[{1}] = one[1] + sum[{}]
    <2>1. PICK x \in {1} : sum[{1}] = one[x] + sum[{1} \ {x}]
      BY <1>2 DEF AddsUp
    <2>2. {1} \ {x} = {} /\ x = 1
      OBVIOUS
    <2> QED BY <2>1, <2>2
  <1>4. one[1] + 0 = one[1]
    OBVIOUS
  <1> QED BY <1>2, <1>3, <1>4 DEF SumFunction, AddsUp
===================================================================================
