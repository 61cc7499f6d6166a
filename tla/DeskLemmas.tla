------------------------------ MODULE DeskLemmas -------------------------------
(***************************************************************************)
(* Facts that the proofs about the components share: about minima, maxima  *)
(* and newest elements, about recursion over naturals, and about sums over *)
(* finite sets.                                                            *)
(***************************************************************************)
EXTENDS Integers, FiniteSetsExt, FiniteSetTheorems, WellFoundedInduction, TLAPS

(* The smaller of two sizes, as the code's min(a, b) computes it.          *)
LEMMA MinOfTwo ==
  ASSUME NEW a \in Int, NEW b \in Int
  PROVE  Min({a, b}) = IF a <= b THEN a ELSE b
BY DEF Min

(* The larger of two amounts, as the code's max(a, b) computes it.         *)
LEMMA MaxOfTwo ==
  ASSUME NEW a \in Int, NEW b \in Int
  PROVE  Max({a, b}) = IF a >= b THEN a ELSE b
BY DEF Max

(* A set of integers has the minimum that is exhibited.                    *)
LEMMA MinIsLeast ==
  ASSUME NEW S \in SUBSET Int, NEW m \in S, \A x \in S : m <= x
  PROVE  Min(S) = m
<1>1. \E x \in S : \A y \in S : x <= y
  OBVIOUS
<1>2. Min(S) \in S /\ \A y \in S : Min(S) <= y
  BY <1>1, Zenon DEF Min
<1>3. Min(S) <= m /\ m <= Min(S) /\ Min(S) \in Int
  BY <1>2
<1>. QED
  BY <1>3

LEMMA LeastOfFour ==
  ASSUME NEW a \in Int, NEW b \in Int, NEW c \in Int, NEW d \in Int
  PROVE  \E m \in {a, b, c, d} : \A x \in {a, b, c, d} : m <= x
OBVIOUS

(* The smaller of two least elements is the least of both sets.            *)
LEMMA LeastOfUnion ==
  ASSUME NEW S \in SUBSET Int, NEW T \in SUBSET Int, NEW m \in S, NEW n \in T,
         \A x \in S : m <= x, \A x \in T : n <= x
  PROVE  /\ Min({m, n}) \in S \cup T
         /\ \A x \in S \cup T : Min({m, n}) <= x
<1>1. Min({m, n}) = IF m <= n THEN m ELSE n
  BY MinOfTwo
<1>. QED
  BY <1>1
-----------------------------------------------------------------------------
(* Every non-empty selection of S has a newest element in the order R, a   *)
(* set of pairs <<older, newer>>: an as-of read with ORDER BY and LIMIT 1  *)
(* finds a row.                                                            *)
HasNewest(S, R) ==
  \A T \in SUBSET S : T # {} => \E p \in T : \A q \in T : <<q, p>> \in R

(* Adding one row keeps it so, when R compares any two rows.               *)
LEMMA NewestOfMore ==
  ASSUME NEW U, NEW R, NEW S \in SUBSET U, NEW x \in U,
         \A a, b \in U : <<a, b>> \in R \/ <<b, a>> \in R,
         \A a, b, c \in U : <<a, b>> \in R /\ <<b, c>> \in R => <<a, c>> \in R,
         HasNewest(S, R)
  PROVE  HasNewest(S \cup {x}, R)
<1> SUFFICES ASSUME NEW T \in SUBSET (S \cup {x}), T # {}
             PROVE  \E p \in T : \A q \in T : <<q, p>> \in R
  BY DEF HasNewest
<1>1. <<x, x>> \in R
  OBVIOUS
<1>2. CASE T \ {x} = {}
  <2>1. T = {x}
    BY <1>2
  <2>. QED
    BY <1>1, <2>1
<1>3. CASE T \ {x} # {}
  <2>1. PICK p \in T \ {x} : \A q \in T \ {x} : <<q, p>> \in R
    BY <1>3 DEF HasNewest
  <2>2. CASE x \in T /\ <<p, x>> \in R
    <3>1. \A q \in T : <<q, x>> \in R
      BY <1>1, <2>1, <2>2
    <3>. QED
      BY <2>2, <3>1
  <2>3. CASE x \notin T \/ <<x, p>> \in R
    <3>1. \A q \in T : <<q, p>> \in R
      BY <2>1, <2>3
    <3>. QED
      BY <2>1, <3>1
  <2>. QED
    BY <2>2, <2>3
<1>. QED
  BY <1>2, <1>3
-----------------------------------------------------------------------------
(* Every non-empty set of naturals has a least element.                    *)
LEMMA LeastNatural ==
  ASSUME NEW S \in SUBSET Nat, S # {}
  PROVE  \E m \in S : \A n \in S : m <= n
<1>1. PICK m \in S : \A n \in S : <<n, m>> \notin OpToRel(<, Nat)
  BY NatLessThanWellFounded, WFMin
<1>2. \A n \in S : ~(n < m)
  BY <1>1 DEF OpToRel
<1>. QED
  BY <1>2

(* Induction over the naturals, for a set instead of a predicate.          *)
LEMMA NaturalsByInduction ==
  ASSUME NEW S, 0 \in S, \A n \in Nat : n \in S => n + 1 \in S
  PROVE  \A n \in Nat : n \in S
<1> SUFFICES ASSUME Nat \ S # {} PROVE FALSE
  OBVIOUS
<1>1. PICK m \in Nat \ S : \A n \in Nat \ S : m <= n
  BY LeastNatural
<1>2. m # 0 /\ m - 1 \in Nat
  BY <1>1
<1>3. m - 1 \in S
  BY <1>1, <1>2
<1>. QED
  BY <1>1, <1>2, <1>3

Recursion(f, n, base, step) ==
  f[0] = base /\ \A i \in 1 .. n : f[i] = step[<<i, f[i - 1]>>]

(* A recursive function over 0 .. n exists, and it stays in the set its    *)
(* step stays in.                                                          *)
LEMMA RecursionOverNaturals ==
  ASSUME NEW n \in Nat, NEW V, NEW base \in V, NEW step \in [(1 .. n) \X V -> V]
  PROVE  \E f \in [0 .. n -> V] : Recursion(f, n, base, step)
<1> DEFINE Good(k) == \E f \in [0 .. k -> V] :
                        f[0] = base /\ \A i \in 1 .. k : f[i] = step[<<i, f[i - 1]>>]
           S == {k \in Nat : k <= n => Good(k)}
<1>1. Good(0)
  <2>1. PICK f : f = [i \in 0 .. 0 |-> base]
    OBVIOUS
  <2>2. f \in [0 .. 0 -> V] /\ f[0] = base
    BY <2>1
  <2>3. 1 .. 0 = {}
    OBVIOUS
  <2>. QED
    BY <2>2, <2>3, Zenon
<1>2. ASSUME NEW k \in Nat, k \in S
      PROVE  k + 1 \in S
  <2> SUFFICES ASSUME k + 1 <= n PROVE Good(k + 1)
    OBVIOUS
  <2>1. PICK f \in [0 .. k -> V] : f[0] = base /\ \A i \in 1 .. k : f[i] = step[<<i, f[i - 1]>>]
    BY <1>2
  <2>2. PICK g : g = [i \in 0 .. k + 1 |-> IF i = k + 1 THEN step[<<k + 1, f[k]>>] ELSE f[i]]
    OBVIOUS
  <2>3. f[k] \in V /\ step[<<k + 1, f[k]>>] \in V
    OBVIOUS
  <2>4. g \in [0 .. k + 1 -> V]
    BY <2>2, <2>3
  <2>5. g[0] = base
    BY <2>1, <2>2
  <2>6. \A i \in 1 .. k : g[i] = f[i] /\ g[i - 1] = f[i - 1]
    BY <2>2
  <2>7. g[k + 1] = step[<<k + 1, g[k]>>]
    <3>1. g[k + 1] = step[<<k + 1, f[k]>>]
      BY <2>2
    <3>2. g[k] = f[k]
      BY <2>2
    <3>. QED
      BY <3>1, <3>2
  <2>8. ASSUME NEW i \in 1 .. k + 1 PROVE g[i] = step[<<i, g[i - 1]>>]
    <3>1. CASE i = k + 1
      <4>1. i - 1 = k
        BY <3>1
      <4>. QED BY <2>7, <3>1, <4>1
    <3>2. CASE i # k + 1
      BY <2>1, <2>6, <3>2
    <3>. QED BY <3>1, <3>2
  <2>. QED
    BY <2>4, <2>5, <2>8
<1>3. n \in S
  <2> HIDE DEF Good
  <2>1. 0 \in S
    BY <1>1
  <2>. HIDE DEF S
  <2>. QED
    BY <1>2, <2>1, NaturalsByInduction
<1>. QED
  BY <1>3 DEF Recursion
-----------------------------------------------------------------------------
(* The function MapThenSumSet sums with: the elements of S are taken one   *)
(* after the other and g gives the amount of each.                         *)
IsSum(iter, S, g) ==
  iter = [s \in SUBSET S |->
            IF s = {} THEN 0 ELSE g[CHOOSE x \in s : TRUE] + iter[s \ {CHOOSE x \in s : TRUE}]]

LEMMA SumExists ==
  ASSUME NEW S, IsFiniteSet(S), NEW g \in [S -> Int]
  PROVE  \E iter \in [SUBSET S -> Int] : IsSum(iter, S, g)
<1> DEFINE n == Cardinality(S)
           V == [SUBSET S -> Int]
           one(s) == CHOOSE x \in s : TRUE
           more(F) == [s \in SUBSET S |-> IF s = {} THEN 0 ELSE g[one(s)] + F[s \ {one(s)}]]
           step == [e \in (1 .. n) \X V |-> more(e[2])]
           base == [s \in SUBSET S |-> 0]
<1>1. n \in Nat
  BY FS_CardinalityType
<1>2. \A s \in SUBSET S : s # {} => one(s) \in s
  OBVIOUS
<1>3. base \in V
  OBVIOUS
<1>4. ASSUME NEW F \in V PROVE more(F) \in V
  <2>1. \A s \in SUBSET S : s # {} => g[one(s)] \in Int /\ F[s \ {one(s)}] \in Int
    BY <1>2
  <2>. QED
    BY <2>1
<1>5. step \in [(1 .. n) \X V -> V]
  <2>. HIDE DEF more, V
  <2>. QED
    BY <1>4
<1>6. PICK f \in [0 .. n -> V] : Recursion(f, n, base, step)
  <2>. HIDE DEF step, base, V, n, more
  <2>. QED
    BY <1>1, <1>3, <1>5, RecursionOverNaturals
<1>7. \A i \in 1 .. n : f[i] = more(f[i - 1])
  <2> SUFFICES ASSUME NEW i \in 1 .. n PROVE f[i] = more(f[i - 1])
    OBVIOUS
  <2>1. f[i - 1] \in V
    <3>. HIDE DEF V, n
    <3>. QED
      BY <1>1
  <2>2. step[<<i, f[i - 1]>>] = more(f[i - 1])
    <3>. HIDE DEF more, V
    <3>. QED
      BY <2>1
  <2>. QED
    BY <1>6, <2>2 DEF Recursion
<1>8. \A s \in SUBSET S : Cardinality(s) \in 0 .. n
  BY <1>1, FS_Subset, FS_CardinalityType
<1>9. PICK iter : iter = [s \in SUBSET S |-> f[Cardinality(s)][s]]
  OBVIOUS
<1>10. iter \in V
  BY <1>8, <1>9
<1>11. ASSUME NEW s \in SUBSET S
       PROVE  iter[s] = IF s = {} THEN 0 ELSE g[one(s)] + iter[s \ {one(s)}]
  <2>1. CASE s = {}
    BY <1>6, <1>9, <2>1, FS_EmptySet DEF Recursion
  <2>2. CASE s # {}
    <3>1. PICK x \in s : x = one(s)
      BY <1>2, <2>2
    <3>2. PICK c : c = Cardinality(s)
      OBVIOUS
    <3>3. c \in 1 .. n
      BY <1>8, <2>2, <3>2, FS_EmptySet, FS_Subset
    <3>4. Cardinality(s \ {x}) = c - 1
      BY <3>1, <3>2, FS_Subset, FS_RemoveElement
    <3>5. iter[s] = more(f[c - 1])[s]
      BY <1>7, <1>9, <3>2, <3>3
    <3>6. more(f[c - 1])[s] = g[x] + f[c - 1][s \ {x}]
      BY <2>2, <3>1
    <3>7. iter[s \ {x}] = f[c - 1][s \ {x}]
      BY <1>9, <3>4
    <3>. QED
      BY <2>2, <3>1, <3>5, <3>6, <3>7
  <2>. QED
    BY <2>1, <2>2
<1>12. iter = [s \in SUBSET S |-> IF s = {} THEN 0 ELSE g[one(s)] + iter[s \ {one(s)}]]
  <2>. HIDE DEF one
  <2>. QED
    BY <1>9, <1>11
<1>. QED
  BY <1>10, <1>12 DEF IsSum

SumOver(iter, S, g) ==
  /\ IsFiniteSet(S) /\ g \in [S -> Int] /\ iter \in [SUBSET S -> Int]
  /\ IsSum(iter, S, g)

LEMMA OneElementLess ==
  ASSUME NEW s, IsFiniteSet(s), NEW x \in s, NEW n \in Nat, Cardinality(s) = n + 1
  PROVE  Cardinality(s \ {x}) = n
<1>1. Cardinality(s \ {x}) = Cardinality(s) - 1
  BY FS_RemoveElement
<1>. QED
  BY <1>1

(* Two such functions agree on the sets both are defined on, ...           *)
LEMMA SumUnique ==
  ASSUME NEW S, NEW g, NEW iter, IsSum(iter, S, g),
         NEW T, NEW h, NEW jter, IsSum(jter, T, h),
         NEW U, IsFiniteSet(U), U \subseteq S, U \subseteq T, \A x \in U : g[x] = h[x]
  PROVE  iter[U] = jter[U]
<1> DEFINE Q == {n \in Nat : \A s \in SUBSET U : Cardinality(s) = n => iter[s] = jter[s]}
<1>0. \A s \in SUBSET U : IsFiniteSet(s) /\ Cardinality(s) \in Nat
  BY FS_Subset, FS_CardinalityType
<1>1. \A s \in SUBSET U : s = {} => iter[s] = 0 /\ jter[s] = 0
  BY DEF IsSum
<1>2. 0 \in Q
  BY <1>0, <1>1, FS_EmptySet
<1>3. ASSUME NEW n \in Nat, n \in Q
      PROVE  n + 1 \in Q
  <2> SUFFICES ASSUME NEW s \in SUBSET U, Cardinality(s) = n + 1
               PROVE  iter[s] = jter[s]
    OBVIOUS
  <2>1. s # {}
    BY FS_EmptySet
  <2>2. PICK x \in s : x = CHOOSE y \in s : TRUE
    BY <2>1
  <2>3. Cardinality(s \ {x}) = n
    BY <1>0, OneElementLess
  <2>4. iter[s \ {x}] = jter[s \ {x}]
    BY <1>3, <2>3
  <2>5. iter[s] = g[x] + iter[s \ {x}]
    BY <2>1, <2>2 DEF IsSum
  <2>6. jter[s] = h[x] + jter[s \ {x}]
    BY <2>1, <2>2 DEF IsSum
  <2>. QED
    BY <2>4, <2>5, <2>6
<1>4. \A n \in Nat : n \in Q
  <2>. HIDE DEF Q
  <2>. QED
    BY <1>2, <1>3, NaturalsByInduction
<1>. QED
  BY <1>0, <1>4

(* ... and the order in which the elements are taken does not matter.      *)
LEMMA SumInAnyOrder ==
  ASSUME NEW S, NEW g, NEW iter, SumOver(iter, S, g), NEW x \in S
  PROVE  iter[S] = g[x] + iter[S \ {x}]
<1> DEFINE Q == {n \in Nat : \A s \in SUBSET S : Cardinality(s) = n =>
                               \A y \in s : iter[s] = g[y] + iter[s \ {y}]}
<1>0. \A s \in SUBSET S : IsFiniteSet(s) /\ Cardinality(s) \in Nat
  BY FS_Subset, FS_CardinalityType DEF SumOver
<1>1. 0 \in Q
  BY <1>0, FS_EmptySet
<1>2. ASSUME NEW n \in Nat, n \in Q
      PROVE  n + 1 \in Q
  <2> SUFFICES ASSUME NEW s \in SUBSET S, Cardinality(s) = n + 1, NEW y \in s
               PROVE  iter[s] = g[y] + iter[s \ {y}]
    OBVIOUS
  <2>1. PICK c \in s : c = CHOOSE z \in s : TRUE
    OBVIOUS
  <2>2. iter[s] = g[c] + iter[s \ {c}]
    BY <2>1 DEF SumOver, IsSum
  <2>3. CASE y = c
    BY <2>2, <2>3
  <2>4. CASE y # c
    <3>1. Cardinality(s \ {c}) = n /\ Cardinality(s \ {y}) = n
        BY <1>0, OneElementLess
    <3>2. iter[s \ {c}] = g[y] + iter[(s \ {c}) \ {y}]
      BY <1>2, <2>4, <3>1
    <3>3. iter[s \ {y}] = g[c] + iter[(s \ {y}) \ {c}]
      BY <1>2, <2>4, <3>1
    <3>4. (s \ {c}) \ {y} = (s \ {y}) \ {c}
      OBVIOUS
    <3>5. PICK rest \in Int : rest = iter[(s \ {y}) \ {c}]
      BY DEF SumOver
    <3>6. iter[s] = g[c] + (g[y] + rest) /\ iter[s \ {y}] = g[c] + rest
      BY <2>2, <3>2, <3>3, <3>4, <3>5
    <3>7. g[y] \in Int /\ g[c] \in Int
      BY DEF SumOver
    <3>. QED
      BY <3>5, <3>6, <3>7
  <2>. QED
    BY <2>3, <2>4
<1>3. \A n \in Nat : n \in Q
  <2>. HIDE DEF Q
  <2>. QED
    BY <1>1, <1>2, NaturalsByInduction
<1>. QED
  BY <1>0, <1>3

(* The sum over a set with one more element.                               *)
LEMMA SumOfOneMore ==
  ASSUME NEW T, NEW g, NEW iter, SumOver(iter, T, g), NEW x \in T,
         NEW S, S = T \ {x}, NEW h, NEW jter, SumOver(jter, S, h), \A y \in S : g[y] = h[y]
  PROVE  iter[T] = g[x] + jter[S]
<1>1. iter[T] = g[x] + iter[S]
  BY SumInAnyOrder
<1>2. iter[S] = jter[S]
  BY FS_Subset, SumUnique DEF SumOver
<1>. QED
  BY <1>1, <1>2
-----------------------------------------------------------------------------
(* A property of subsets, given as the set Q of those that have it, that   *)
(* the empty set has and one more element keeps, holds of a finite set.    *)
LEMMA SubsetsByInduction ==
  ASSUME NEW S, IsFiniteSet(S), NEW Q, {} \in Q,
         \A U \in SUBSET S : \A x \in S \ U : U \in Q => U \cup {x} \in Q
  PROVE  S \in Q
<1> DEFINE N == {n \in Nat : \A U \in SUBSET S : Cardinality(U) = n => U \in Q}
<1>0. \A U \in SUBSET S : IsFiniteSet(U) /\ Cardinality(U) \in Nat
  BY FS_Subset, FS_CardinalityType
<1>1. 0 \in N
  BY <1>0, FS_EmptySet
<1>2. ASSUME NEW n \in Nat, n \in N
      PROVE  n + 1 \in N
  <2> SUFFICES ASSUME NEW U \in SUBSET S, Cardinality(U) = n + 1
               PROVE  U \in Q
    OBVIOUS
  <2>1. PICK x \in U : TRUE
    BY FS_EmptySet
  <2>2. Cardinality(U \ {x}) = n
    BY <1>0, OneElementLess
  <2>3. U \ {x} \in Q /\ (U \ {x}) \cup {x} = U
    BY <1>2, <2>2
  <2>. QED
    BY <2>3
<1>3. \A n \in Nat : n \in N
  <2>. HIDE DEF N
  <2>. QED
    BY <1>1, <1>2, NaturalsByInduction
<1>. QED
  BY <1>0, <1>3
-----------------------------------------------------------------------------
(* A sum over a finite set of indices, as a function of the set.           *)
LEMMA FoldIsSum ==
  ASSUME NEW S, IsFiniteSet(S), NEW fun, \A x \in S : fun[x] \in Int
  PROVE  \E iter \in [SUBSET S -> Int] :
           SumOver(iter, S, [x \in S |-> fun[x]]) /\ SumFunctionOnSet(fun, S) = iter[S]
<1> DEFINE g == [x \in S |-> fun[x]]
           Rec(iter) == iter = [s \in SUBSET S |->
                          IF s = {} THEN 0
                          ELSE fun[CHOOSE x \in s : TRUE] + iter[s \ {CHOOSE x \in s : TRUE}]]
           it == CHOOSE iter : Rec(iter)
<1>1. \A s \in SUBSET S : s # {} => (CHOOSE x \in s : TRUE) \in S
  OBVIOUS
<1>2. \A iter : IsSum(iter, S, g) <=> Rec(iter)
  BY <1>1 DEF IsSum
<1>3. SumFunctionOnSet(fun, S) = it[S]
  BY DEF SumFunctionOnSet, FoldFunctionOnSet, MapThenFoldSet
<1>4. g \in [S -> Int]
  OBVIOUS
<1>5. PICK iter \in [SUBSET S -> Int] : IsSum(iter, S, g)
  <2>. HIDE DEF g
  <2>. QED
    BY <1>4, SumExists
<1>6. Rec(it)
  <2>. HIDE DEF Rec, g
  <2>. QED
    BY <1>2, <1>5
<1>7. IsSum(it, S, g)
  <2>. HIDE DEF Rec, g, it
  <2>. QED
    BY <1>2, <1>6
<1>8. it[S] = iter[S]
  <2>. HIDE DEF g, it
  <2>. QED
    BY <1>5, <1>7, SumUnique
<1>. QED
  BY <1>3, <1>4, <1>5, <1>8 DEF SumOver

(* A sum of amounts is at least each of them.                              *)
LEMMA SumOfAmounts ==
  ASSUME NEW S, IsFiniteSet(S), NEW fun, \A x \in S : fun[x] \in Nat
  PROVE  /\ SumFunctionOnSet(fun, S) \in Nat
         /\ S = {} => SumFunctionOnSet(fun, S) = 0
         /\ \A x \in S : SumFunctionOnSet(fun, S) >= fun[x]
<1> DEFINE g == [x \in S |-> fun[x]]
<1>1. PICK iter \in [SUBSET S -> Int] : SumOver(iter, S, g) /\ SumFunctionOnSet(fun, S) = iter[S]
  <2>1. \A x \in S : fun[x] \in Int
    OBVIOUS
  <2>. QED
    BY <2>1, FoldIsSum
<1>2. iter[{}] = 0
  BY <1>1 DEF SumOver, IsSum
<1>3. \A x \in S : g[x] \in Nat /\ g[x] = fun[x]
  OBVIOUS
<1>. DEFINE Q == {U \in SUBSET S : iter[U] \in Nat}
<1>4. \A U \in SUBSET S : \A x \in S \ U : U \in Q => U \cup {x} \in Q
  <2>. SUFFICES ASSUME NEW U \in Q, NEW x \in S \ U
                PROVE  iter[U \cup {x}] \in Nat
    OBVIOUS
  <2>. DEFINE T == U \cup {x}
              h == [y \in T |-> g[y]]
              k == [y \in U |-> g[y]]
  <2>1. IsFiniteSet(T) /\ IsFiniteSet(U)
    BY FS_Subset
  <2>2. h \in [T -> Int] /\ k \in [U -> Int]
    BY <1>3
  <2>3. PICK i \in [SUBSET T -> Int] : IsSum(i, T, h)
    <3>. HIDE DEF T, h
    <3>. QED
      BY <2>1, <2>2, SumExists
  <2>4. SumOver(i, T, h)
    BY <2>1, <2>2, <2>3 DEF SumOver
  <2>5. \A y \in T : h[y] = g[y]
    OBVIOUS
  <2>6. IsSum(iter, S, g) /\ IsFiniteSet(T) /\ T \subseteq S /\ T \subseteq T /\ U \subseteq T
    BY <1>1, <2>1 DEF SumOver
  <2>7. i[T] = iter[T]
    <3>. HIDE DEF T, h, g
    <3>. QED
      BY <2>3, <2>5, <2>6, SumUnique
  <2>8. i[U] = iter[U]
    <3>. HIDE DEF T, h, g
    <3>1. \A y \in U : h[y] = g[y]
      BY <2>5, <2>6
    <3>. QED
      BY <2>1, <2>3, <2>6, <3>1, SumUnique
  <2>9. i[T] = h[x] + i[T \ {x}] /\ T \ {x} = U
    <3>1. x \in T /\ T \ {x} = U
      OBVIOUS
    <3>. HIDE DEF T, h
    <3>. QED
      BY <2>4, <3>1, SumInAnyOrder
  <2>10. h[x] \in Nat
    BY <1>3
  <2>. HIDE DEF T, h, g
  <2>11. iter[T] = h[x] + iter[U] /\ iter[U] \in Nat
    BY <2>7, <2>8, <2>9
  <2>12. iter[T] \in Nat
    BY <2>10, <2>11
  <2>. QED
    BY <2>12 DEF T
<1>5. \A U \in SUBSET S : iter[U] \in Nat
  <2>. SUFFICES ASSUME NEW V \in SUBSET S
                PROVE  V \in Q
    OBVIOUS
  <2>1. IsFiniteSet(V) /\ {} \in Q
    BY <1>2, FS_Subset
  <2>2. \A U \in SUBSET V : \A x \in V \ U : U \in Q => U \cup {x} \in Q
    BY <1>4
  <2>. HIDE DEF Q
  <2>. QED
    BY <2>1, <2>2, SubsetsByInduction
<1>6. \A x \in S : iter[S] = g[x] + iter[S \ {x}]
  <2>. HIDE DEF g
  <2>. QED
    BY <1>1, SumInAnyOrder
<1>7. ASSUME NEW x \in S
      PROVE  iter[S] >= fun[x]
  <2>1. iter[S \ {x}] \in Nat /\ iter[S] = g[x] + iter[S \ {x}] /\ g[x] \in Nat /\ g[x] = fun[x]
    BY <1>3, <1>5, <1>6
  <2>. HIDE DEF g
  <2>. QED
    BY <2>1
<1>. QED
  BY <1>1, <1>2, <1>5, <1>7

(* Finitely many integers have a greatest.                                  *)
LEMMA GreatestExists ==
  ASSUME NEW S \in SUBSET Int, IsFiniteSet(S), S # {}
  PROVE  \E p \in S : \A q \in S : q <= p
<1> DEFINE Q == {U \in SUBSET S : U # {} => \E p \in U : \A q \in U : q <= p}
<1>1. {} \in Q
  OBVIOUS
<1>2. \A U \in SUBSET S : \A x \in S \ U : U \in Q => U \cup {x} \in Q
  <2>. SUFFICES ASSUME NEW U \in Q, NEW x \in S
                PROVE  \E p \in U \cup {x} : \A q \in U \cup {x} : q <= p
    OBVIOUS
  <2>1. CASE U = {}
    BY <2>1
  <2>2. CASE U # {}
    <3>1. PICK p \in U : \A q \in U : q <= p
      BY <2>2
    <3>. QED
      BY <3>1
  <2>. QED
    BY <2>1, <2>2
<1>3. S \in Q
  <2>. HIDE DEF Q
  <2>. QED
    BY <1>1, <1>2, SubsetsByInduction
<1>. QED
  BY <1>3

LEMMA LeastExists ==
  ASSUME NEW S \in SUBSET Int, IsFiniteSet(S), S # {}
  PROVE  \E p \in S : \A q \in S : p <= q
<1> DEFINE Q == {U \in SUBSET S : U # {} => \E p \in U : \A q \in U : p <= q}
<1>1. {} \in Q
  OBVIOUS
<1>2. \A U \in SUBSET S : \A x \in S \ U : U \in Q => U \cup {x} \in Q
  <2>. SUFFICES ASSUME NEW U \in Q, NEW x \in S
                PROVE  \E p \in U \cup {x} : \A q \in U \cup {x} : p <= q
    OBVIOUS
  <2>1. CASE U = {}
    BY <2>1
  <2>2. CASE U # {}
    <3>1. PICK p \in U : \A q \in U : p <= q
      BY <2>2
    <3>. QED
      BY <3>1
  <2>. QED
    BY <2>1, <2>2
<1>3. S \in Q
  <2>. HIDE DEF Q
  <2>. QED
    BY <1>1, <1>2, SubsetsByInduction
<1>. QED
  BY <1>3

(* What an element adds to the sum of a part.                              *)
LEMMA PartialSum ==
  ASSUME NEW S, NEW H, NEW k, SumOver(k, S, H), NEW U \in SUBSET S, NEW x \in U
  PROVE  k[U] = H[x] + k[U \ {x}]
<1> DEFINE R == [y \in U |-> H[y]]
<1>1. IsFiniteSet(U) /\ R \in [U -> Int]
  BY FS_Subset DEF SumOver
<1>2. PICK m \in [SUBSET U -> Int] : IsSum(m, U, R)
  <2>. HIDE DEF R
  <2>. QED
    BY <1>1, SumExists
<1>3. SumOver(m, U, R)
  BY <1>1, <1>2 DEF SumOver
<1>4. \A y \in U : R[y] = H[y]
  OBVIOUS
<1>5. IsSum(k, S, H) /\ IsFiniteSet(U \ {x})
  BY <1>1, FS_Subset DEF SumOver
<1>. HIDE DEF R
<1>6. m[U] = k[U]
  BY <1>1, <1>2, <1>4, <1>5, SumUnique
<1>7. m[U \ {x}] = k[U \ {x}]
  <2>1. \A y \in U \ {x} : R[y] = H[y]
    BY <1>4
  <2>. QED
    BY <1>2, <1>5, <2>1, SumUnique
<1>8. m[U] = R[x] + m[U \ {x}]
  BY <1>3, SumInAnyOrder
<1>. QED
  BY <1>4, <1>6, <1>7, <1>8

(* Of fewer and smaller amounts the sum is no larger.                       *)
LEMMA SumsCompare ==
  ASSUME NEW S, IsFiniteSet(S), NEW T \in SUBSET S,
         NEW f, NEW g, \A x \in S : f[x] \in Nat /\ g[x] \in Nat /\ f[x] <= g[x]
  PROVE  /\ SumFunctionOnSet(f, T) \in Nat /\ SumFunctionOnSet(g, S) \in Nat
         /\ SumFunctionOnSet(f, T) <= SumFunctionOnSet(g, S)
<1> DEFINE F == [x \in T |-> f[x]]
           G == [x \in S |-> g[x]]
<1>0. IsFiniteSet(T)
  BY FS_Subset
<1>1. PICK i \in [SUBSET T -> Int] : SumOver(i, T, F) /\ SumFunctionOnSet(f, T) = i[T]
  <2>1. \A x \in T : f[x] \in Int
    OBVIOUS
  <2>. QED
    BY <1>0, <2>1, FoldIsSum
<1>2. PICK j \in [SUBSET S -> Int] : SumOver(j, S, G) /\ SumFunctionOnSet(g, S) = j[S]
  <2>1. \A x \in S : g[x] \in Int
    OBVIOUS
  <2>. QED
    BY <2>1, FoldIsSum
<1>3. SumFunctionOnSet(f, T) \in Nat /\ SumFunctionOnSet(g, S) \in Nat
  <2>1. (\A x \in T : f[x] \in Nat) /\ (\A x \in S : g[x] \in Nat)
    OBVIOUS
  <2>. QED
    BY <1>0, <2>1, SumOfAmounts
<1>. DEFINE Q == {U \in SUBSET S : i[U \cap T] <= j[U]}
<1>4. {} \in Q
  <2>1. i[{}] = 0 /\ j[{}] = 0 /\ {} \cap T = {}
    BY <1>1, <1>2 DEF SumOver, IsSum
  <2>. QED
    BY <2>1
<1>5. \A U \in SUBSET S : \A x \in S \ U : U \in Q => U \cup {x} \in Q
  <2>. SUFFICES ASSUME NEW U \in Q, NEW x \in S \ U
                PROVE  i[(U \cup {x}) \cap T] <= j[U \cup {x}]
    OBVIOUS
  <2>1. j[U \cup {x}] = G[x] + j[U]
    <3>1. (U \cup {x}) \ {x} = U /\ U \cup {x} \in SUBSET S /\ x \in U \cup {x}
      OBVIOUS
    <3>. HIDE DEF G, F, Q
    <3>. QED
      BY <1>2, <3>1, PartialSum
  <2>2. PICK a, b \in Int : a = i[U \cap T] /\ b = j[U] /\ a <= b
    BY <1>1, <1>2
  <2>3. G[x] = g[x] /\ g[x] \in Nat /\ f[x] \in Nat /\ f[x] <= g[x]
    OBVIOUS
  <2>4. CASE x \in T
    <3>1. i[(U \cup {x}) \cap T] = F[x] + i[U \cap T]
      <4>1. ((U \cup {x}) \cap T) \ {x} = U \cap T /\ (U \cup {x}) \cap T \in SUBSET T /\ x \in (U \cup {x}) \cap T
        BY <2>4
      <4>2. PICK V \in SUBSET T : V = (U \cup {x}) \cap T
        OBVIOUS
      <4>3. V \ {x} = U \cap T /\ x \in V
        BY <4>1, <4>2
      <4>4. SumOver(i, T, F)
        BY <1>1
      <4>. HIDE DEF G, F, Q
      <4>5. i[V] = F[x] + i[V \ {x}]
        BY <4>3, <4>4, PartialSum
      <4>. QED
        BY <4>2, <4>3, <4>5
    <3>2. F[x] = f[x]
      BY <2>4
    <3>. HIDE DEF F, G
    <3>. QED
      BY <2>1, <2>2, <2>3, <3>1, <3>2
  <2>5. CASE x \notin T
    <3>1. (U \cup {x}) \cap T = U \cap T
      BY <2>5
    <3>2. i[(U \cup {x}) \cap T] = a
      BY <2>2, <3>1
    <3>3. j[U \cup {x}] = g[x] + b
      BY <2>1, <2>2, <2>3
    <3>. QED
      BY <2>2, <2>3, <3>2, <3>3
  <2>. QED
    BY <2>4, <2>5
<1>6. S \in Q
  <2>. HIDE DEF Q
  <2>. QED
    BY <1>4, <1>5, SubsetsByInduction
<1>7. S \cap T = T
  OBVIOUS
<1>. QED
  BY <1>1, <1>2, <1>3, <1>6, <1>7

(* k is the sum of f over each part of S, one element after the other.      *)
SumSteps(k, S, f) ==
  /\ k \in [SUBSET S -> Int] /\ k[{}] = 0 /\ SumFunctionOnSet(f, S) = k[S]
  /\ \A U \in SUBSET S : \A x \in U : k[U] = f[x] + k[U \ {x}]

LEMMA SumByElements ==
  ASSUME NEW S, IsFiniteSet(S), NEW f, \A x \in S : f[x] \in Int
  PROVE  \E k : SumSteps(k, S, f)
<1> DEFINE F == [x \in S |-> f[x]]
<1>1. PICK k \in [SUBSET S -> Int] : SumOver(k, S, F) /\ SumFunctionOnSet(f, S) = k[S]
  BY FoldIsSum
<1>2. \A x \in S : F[x] = f[x]
  OBVIOUS
<1>. HIDE DEF F
<1>3. k[{}] = 0
  BY <1>1 DEF SumOver, IsSum
<1>4. ASSUME NEW U \in SUBSET S, NEW x \in U
      PROVE  k[U] = f[x] + k[U \ {x}]
  <2>1. SumOver(k, S, F) /\ U \in SUBSET S /\ x \in U
    BY <1>1
  <2>2. k[U] = F[x] + k[U \ {x}]
    BY ONLY <2>1, PartialSum
  <2>. QED
    BY <1>2, <2>2
<1>. QED
  BY <1>1, <1>3, <1>4 DEF SumSteps

(* The amounts of S sum up to n.                                           *)
SumsTo(H, S, n) == IsFiniteSet(S) /\ (\A x \in S : H[x] \in Int) /\ SumFunctionOnSet(H, S) = n

LEMMA OneMoreAmount ==
  ASSUME NEW H, NEW S, NEW n \in Int, SumsTo(H, S, n), NEW x, x \notin S, NEW m \in Int, H[x] = m,
         NEW T, T = S \cup {x}, NEW total, total = n + m
  PROVE  SumsTo(H, T, total)
<1>1. IsFiniteSet(T) /\ \A y \in T : H[y] \in Int
  BY FS_AddElement DEF SumsTo
<1>2. PICK k : SumSteps(k, T, H)
  BY <1>1, SumByElements
<1>3. PICK j : SumSteps(j, S, H)
  BY SumByElements DEF SumsTo
<1>4. k[T] = H[x] + k[S]
  <2>1. x \in T /\ T \ {x} = S /\ T \in SUBSET T
    OBVIOUS
  <2>2. k[T] = H[x] + k[T \ {x}]
    BY <1>2, <2>1 DEF SumSteps
  <2>. QED
    BY <2>1, <2>2
<1>5. k[S] = j[S]
  <2> DEFINE Q == {U \in SUBSET S : k[U] = j[U]}
  <2>1. {} \in Q
    BY <1>2, <1>3 DEF SumSteps
  <2>2. ASSUME NEW U \in SUBSET S, NEW y \in S \ U, U \in Q PROVE U \cup {y} \in Q
    <3>1. PICK V : V = U \cup {y}
      OBVIOUS
    <3>2. V \in SUBSET S /\ V \in SUBSET T /\ y \in V /\ V \ {y} = U
      BY <3>1
    <3>3. k[V] = H[y] + k[U] /\ j[V] = H[y] + j[U]
      BY <1>2, <1>3, <3>2 DEF SumSteps
    <3>. QED
      BY <2>2, <3>1, <3>2, <3>3
  <2>3. S \in Q
    <3>. HIDE DEF Q
    <3>. QED
      BY <2>1, <2>2, SubsetsByInduction DEF SumsTo
  <2>. QED
    BY <2>3
<1>6. SumFunctionOnSet(H, T) = m + n
  BY <1>2, <1>3, <1>4, <1>5 DEF SumSteps, SumsTo
<1>. QED
  BY <1>1, <1>6 DEF SumsTo

(* A sum of scores is at most a hundred times as many.                      *)
LEMMA SumOfManyScores ==
  ASSUME NEW S, IsFiniteSet(S), NEW f, \A x \in S : f[x] \in 0 .. 100
  PROVE  SumFunctionOnSet(f, S) \in Nat /\ SumFunctionOnSet(f, S) <= 100 * Cardinality(S)
<1>1. \A x \in S : f[x] \in Int /\ f[x] \in Nat
  OBVIOUS
<1>2. PICK k : SumSteps(k, S, f)
  BY <1>1, SumByElements
<1>3. SumFunctionOnSet(f, S) \in Nat
  BY <1>1, SumOfAmounts
<1>. DEFINE Q == {U \in SUBSET S : k[U] <= 100 * Cardinality(U)}
<1>4. {} \in Q
  BY <1>2, FS_EmptySet DEF SumSteps
<1>5. \A U \in SUBSET S : \A x \in S \ U : U \in Q => U \cup {x} \in Q
  <2>. SUFFICES ASSUME NEW U \in Q, NEW x \in S \ U
                PROVE  k[U \cup {x}] <= 100 * Cardinality(U \cup {x})
    OBVIOUS
  <2>0. U \in SUBSET S /\ k[U] <= 100 * Cardinality(U)
    OBVIOUS
  <2>. HIDE DEF Q
  <2>1. PICK V \in SUBSET S : V = U \cup {x} /\ V \ {x} = U /\ x \in V
    <3>1. U \cup {x} \in SUBSET S /\ (U \cup {x}) \ {x} = U
      BY <2>0
    <3>. QED
      BY <3>1
  <2>2. k[V] = f[x] + k[U]
    BY <1>2, <2>1 DEF SumSteps
  <2>3. PICK a \in Int : a = k[U]
    BY <1>2, <2>0 DEF SumSteps
  <2>4. PICK n \in Nat : n = Cardinality(U) /\ Cardinality(V) = n + 1
    <3>1. IsFiniteSet(U) /\ x \notin U
      BY <2>0, FS_Subset
    <3>. QED
      BY <2>1, <3>1, FS_AddElement, FS_CardinalityType
  <2>5. a <= 100 * n
    BY <2>0, <2>3, <2>4
  <2>6. f[x] \in Int /\ f[x] <= 100
    OBVIOUS
  <2>. QED
    BY <2>1, <2>2, <2>3, <2>4, <2>5, <2>6
<1>6. S \in Q
  <2>. HIDE DEF Q
  <2>. QED
    BY <1>4, <1>5, SubsetsByInduction
<1>. QED
  BY <1>2, <1>3, <1>6 DEF SumSteps

(* Sets with no element in common.                                         *)
LEMMA SetsApart ==
  ASSUME NEW A, NEW B, IsFiniteSet(A), IsFiniteSet(B), A \cap B = {}
  PROVE  /\ IsFiniteSet(A \cup B) /\ Cardinality(A) \in Nat /\ Cardinality(B) \in Nat
         /\ Cardinality(A \cup B) = Cardinality(A) + Cardinality(B)
<1>1. Cardinality(A \cap B) = 0
  BY FS_EmptySet
<1>2. Cardinality(A) \in Nat /\ Cardinality(B) \in Nat
  BY FS_CardinalityType
<1>3. /\ IsFiniteSet(A \cup B)
      /\ Cardinality(A \cup B) = Cardinality(A) + Cardinality(B) - Cardinality(A \cap B)
  BY FS_Union
<1>. QED
  BY <1>1, <1>2, <1>3

(* The parts of a set, one for each value of a field, have together its    *)
(* elements: the counts of a summary add up to its total.                  *)
LEMMA PartsAddUp ==
  ASSUME NEW D, IsFiniteSet(D), NEW K, IsFiniteSet(K), NEW is, \A i \in D : is[i] \in K,
         NEW counts, DOMAIN counts = K,
         \A p \in K : counts[p] = Cardinality({i \in D : is[i] = p})
  PROVE  SumFunction(counts) = Cardinality(D)
<1> DEFINE Those(U) == {i \in D : is[i] \in U}
           One(p) == {i \in D : is[i] = p}
<1>1. \A U : IsFiniteSet(Those(U)) /\ Cardinality(Those(U)) \in Nat
  BY FS_Subset, FS_CardinalityType
<1>2. \A p : IsFiniteSet(One(p)) /\ Cardinality(One(p)) \in Nat
  BY FS_Subset, FS_CardinalityType
<1>3. \A p \in K : counts[p] = Cardinality(One(p)) /\ counts[p] \in Int
  <2>1. \A p \in K : counts[p] = Cardinality(One(p))
    OBVIOUS
  <2>. HIDE DEF One
  <2>. QED
    BY <1>2, <2>1
<1>4. PICK k : SumSteps(k, K, counts)
  BY <1>3, SumByElements
<1>. DEFINE Q == {U \in SUBSET K : k[U] = Cardinality(Those(U))}
<1>5. {} \in Q
  <2>1. Those({}) = {}
    OBVIOUS
  <2>. QED
    BY <1>4, <2>1, FS_EmptySet DEF SumSteps
<1>6. ASSUME NEW U \in SUBSET K, NEW p \in K \ U, U \in Q
      PROVE  U \cup {p} \in Q
  <2>1. PICK V \in SUBSET K : V = U \cup {p}
    OBVIOUS
  <2>2. p \in V /\ V \ {p} = U
    BY <2>1
  <2>3. Those(V) = Those(U) \cup One(p) /\ Those(U) \cap One(p) = {}
    BY <2>1
  <2>4. k[V] = counts[p] + k[U] /\ k[U] = Cardinality(Those(U))
    BY <1>4, <1>6, <2>2 DEF SumSteps
  <2>. HIDE DEF Those, One
  <2>5. Cardinality(Those(V)) = Cardinality(Those(U)) + Cardinality(One(p))
    BY <1>1, <1>2, <2>3, SetsApart
  <2>6. k[V] = Cardinality(Those(V))
    BY <1>1, <1>2, <1>3, <2>4, <2>5
  <2>. QED
    BY <2>1, <2>6
<1>7. K \in Q
  <2>. HIDE DEF Q
  <2>. QED
    BY <1>5, <1>6, SubsetsByInduction
<1>8. Those(K) = D
  OBVIOUS
<1>. QED
  BY <1>4, <1>7, <1>8 DEF SumFunction, SumSteps

(* So finitely many rows that R compares have a newest.                    *)
LEMMA FiniteHasNewest ==
  ASSUME NEW S, IsFiniteSet(S), NEW R, \A a, b \in S : <<a, b>> \in R \/ <<b, a>> \in R,
         \A a, b, c \in S : <<a, b>> \in R /\ <<b, c>> \in R => <<a, c>> \in R
  PROVE  HasNewest(S, R)
<1> DEFINE Q == {U \in SUBSET S : HasNewest(U, R)}
<1>1. {} \in Q
  BY DEF HasNewest
<1>2. ASSUME NEW U \in SUBSET S, NEW x \in S \ U, U \in Q
      PROVE  U \cup {x} \in Q
  <2>1. HasNewest(U, R)
    BY <1>2
  <2>2. HasNewest(U \cup {x}, R)
    BY <2>1, NewestOfMore
  <2>. QED
    BY <2>2
<1>3. S \in Q
  <2>. HIDE DEF Q
  <2>. QED
    BY <1>1, <1>2, SubsetsByInduction
<1>. QED
  BY <1>3
=============================================================================
