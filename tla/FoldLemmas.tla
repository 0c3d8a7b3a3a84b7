----------------------------- MODULE FoldLemmas -----------------------------
(***************************************************************************)
(* Induction and recursion over finite sets, for the folds of the          *)
(* community modules.                                                      *)
(*                                                                         *)
(* A fold is the value at S of a function defined by recursion on the      *)
(* subsets of S.  To reason about it one needs that such a function        *)
(* exists, and induction.  Both are stated here with sets and functions    *)
(* where the library has operators, and proved from the library's theorem  *)
(* that a set of natural numbers has a least element.                      *)
(***************************************************************************)
EXTENDS Integers, Sequences, FiniteSets, FiniteSetsExt, Functions,
        FiniteSetTheorems, WellFoundedInduction, TLAPS

\* A set of natural numbers that is not empty has a least element.
LEMMA LeastNatural ==
    ASSUME NEW T \in SUBSET Nat, T # {}
    PROVE  \E x \in T : \A y \in T : x <= y
<1>1. IsWellFoundedOn(OpToRel(<, Nat), Nat)
  BY NatLessThanWellFounded
<1> DEFINE R == OpToRel(<, Nat)
<1> HIDE DEF R
<1>2. IsWellFoundedOn(R, Nat)
  BY <1>1 DEF R
<1>3. \E x \in T : \A y \in T : ~ (<<y, x>> \in R)
  BY <1>2, WFMin, Zenon
<1>4. ASSUME NEW x \in Nat, NEW y \in Nat, ~ (<<y, x>> \in R)
      PROVE  x <= y
  BY <1>4 DEF R, OpToRel
<1> QED BY <1>3, <1>4

\* One that is bounded has a greatest element.
LEMMA GreatestNatural ==
    ASSUME NEW T \in SUBSET Nat, T # {}, NEW b \in Nat, \A x \in T : x <= b
    PROVE  \E x \in T : \A y \in T : x >= y
<1> DEFINE U == {b - x : x \in T}
<1>1. U \in SUBSET Nat /\ U # {}
  <2>1. \A x \in T : b - x \in Nat
    OBVIOUS
  <2> QED BY <2>1
<1>2. PICK u \in U : \A v \in U : u <= v
  <2> HIDE DEF U
  <2> QED BY <1>1, LeastNatural
<1>3. PICK x \in T : u = b - x
  OBVIOUS
<1>4. ASSUME NEW y \in T PROVE x >= y
  <2>1. b - y \in U
    OBVIOUS
  <2>2. b - x <= b - y
    BY <1>2, <1>3, <2>1
  <2> QED BY <2>2
<1> QED BY <1>4

\* Induction over the natural numbers.
LEMMA NaturalSetInduction ==
    ASSUME NEW P \in SUBSET Nat, 0 \in P, \A n \in P : n + 1 \in P
    PROVE  P = Nat
<1> SUFFICES ASSUME Nat \ P # {} PROVE FALSE
  OBVIOUS
<1>1. PICK x \in Nat \ P : \A y \in Nat \ P : x <= y
  BY LeastNatural
<1> QED BY <1>1

\* Induction over the subsets of a finite set.
Inductive(P, S) ==
    /\ P \subseteq SUBSET S
    /\ {} \in P
    /\ \A s \in SUBSET S : s # {} /\ (\A x \in s : s \ {x} \in P) => s \in P

LEMMA SubsetInduction ==
    ASSUME NEW S, IsFiniteSet(S), NEW P, Inductive(P, S)
    PROVE  P = SUBSET S
<1> USE DEF Inductive
<1> DEFINE Good(n) == \A s \in SUBSET S : Cardinality(s) = n => s \in P
           N == {n \in Nat : Good(n)}
<1>1. ASSUME NEW s \in SUBSET S
      PROVE  /\ IsFiniteSet(s) /\ Cardinality(s) \in Nat
             /\ Cardinality(s) = 0 => s = {}
             /\ \A x \in s : Cardinality(s \ {x}) = Cardinality(s) - 1
  <2>1. IsFiniteSet(s)
    BY FS_Subset
  <2> QED BY <2>1, FS_CardinalityType, FS_EmptySet, FS_RemoveElement
<1>2. 0 \in N
  BY <1>1
<1>3. ASSUME NEW n \in N PROVE n + 1 \in N
  <2> SUFFICES ASSUME NEW s \in SUBSET S, Cardinality(s) = n + 1 PROVE s \in P
    OBVIOUS
  <2>1. \A x \in s : s \ {x} \in P
    <3> SUFFICES ASSUME NEW x \in s PROVE s \ {x} \in P
      OBVIOUS
    <3>1. Cardinality(s \ {x}) = n
      BY <1>1
    <3> QED BY <3>1
  <2>2. s # {}
    BY FS_EmptySet
  <2> QED BY <2>1, <2>2
<1> HIDE DEF N
<1>4. N = Nat
  <2>1. N \in SUBSET Nat
    BY DEF N
  <2> QED BY <1>2, <1>3, <2>1, NaturalSetInduction
<1> QED BY <1>1, <1>4 DEF N

\* Recursion over the subsets of a finite set: pick says which element is
\* taken out, step what is made of the result for the rest.
Picks(pick, S) == \A s \in SUBSET S : s # {} => pick[s] \in s
Steps(step, S, T) ==
    \A s \in SUBSET S, t \in T : s # {} => step[s][t] \in T
Recursion(iter, S, base, pick, step) ==
    \A s \in SUBSET S :
        iter[s] = IF s = {} THEN base ELSE step[s][iter[s \ {pick[s]}]]

LEMMA SubsetRecursion ==
    ASSUME NEW S, IsFiniteSet(S), NEW T, NEW base \in T,
           NEW pick, Picks(pick, S), NEW step, Steps(step, S, T)
    PROVE  \E iter \in [SUBSET S -> T] : Recursion(iter, S, base, pick, step)
<1> USE DEF Picks, Steps
<1> DEFINE Small(n) == {s \in SUBSET S : Cardinality(s) <= n}
           Defines(g, n) ==
              \A s \in Small(n) :
                 g[s] = IF s = {} THEN base ELSE step[s][g[s \ {pick[s]}]]
           N == {n \in Nat : \E g \in [Small(n) -> T] : Defines(g, n)}
<1>1. ASSUME NEW s \in SUBSET S
      PROVE  /\ IsFiniteSet(s) /\ Cardinality(s) \in Nat
             /\ Cardinality(s) = 0 <=> s = {}
             /\ Cardinality(s) <= Cardinality(S)
             /\ s # {} => /\ s \ {pick[s]} \in SUBSET S
                          /\ Cardinality(s \ {pick[s]}) = Cardinality(s) - 1
  <2>1. IsFiniteSet(s)
    BY FS_Subset
  <2> QED BY <2>1, FS_Subset, FS_CardinalityType, FS_EmptySet, FS_RemoveElement
<1>10. ASSUME NEW n \in Nat, NEW s \in SUBSET S
      PROVE  /\ {} \in Small(n)
             /\ s \in Small(n) => s \in Small(n + 1)
             /\ s \in Small(n + 1) /\ s # {} => s \ {pick[s]} \in Small(n)
             /\ s \in Small(0) => s = {}
             /\ s \in Small(Cardinality(S))
  <2>1. {} \in SUBSET S
    OBVIOUS
  <2>2. Cardinality({}) = 0
    BY FS_EmptySet
  <2>3. {} \in Small(n)
    BY <2>1, <2>2
  <2>4. /\ Cardinality(s) \in Nat
        /\ Cardinality(s) = 0 => s = {}
        /\ Cardinality(s) <= Cardinality(S)
        /\ s # {} => /\ s \ {pick[s]} \in SUBSET S
                     /\ Cardinality(s \ {pick[s]}) = Cardinality(s) - 1
    BY <1>1
  <2> QED BY <2>3, <2>4
<1>11. ASSUME NEW n \in Nat PROVE Small(n) \subseteq SUBSET S
  OBVIOUS
<1> HIDE DEF Small
<1>2. 0 \in N
  <2>1. \A s \in Small(0) : s = {}
    BY <1>10, <1>11
  <2> DEFINE g == [s \in Small(0) |-> base]
  <2>2. g \in [Small(0) -> T] /\ Defines(g, 0)
    BY <2>1
  <2> QED BY <2>2
<1>3. ASSUME NEW n \in N PROVE n + 1 \in N
  <2>0. n \in Nat /\ n + 1 \in Nat
    OBVIOUS
  <2>1. PICK g \in [Small(n) -> T] : Defines(g, n)
    OBVIOUS
  <2> DEFINE h == [s \in Small(n + 1) |->
                      IF s \in Small(n) THEN g[s] ELSE step[s][g[s \ {pick[s]}]]]
  <2>2. ASSUME NEW s \in Small(n + 1)
        PROVE  s \in SUBSET S /\ (s # {} => s \ {pick[s]} \in Small(n))
    BY <1>10, <1>11, <2>0
  <2>3. {} \in Small(n)
    BY <1>10, <2>0
  <2>4. h \in [Small(n + 1) -> T]
    <3> SUFFICES ASSUME NEW s \in Small(n + 1), s \notin Small(n)
                 PROVE  step[s][g[s \ {pick[s]}]] \in T
      OBVIOUS
    <3>1. s # {} /\ s \in SUBSET S /\ s \ {pick[s]} \in Small(n)
      BY <2>2, <2>3
    <3>2. g[s \ {pick[s]}] \in T
      BY <3>1
    <3> QED BY <3>1, <3>2
  <2>5. ASSUME NEW s \in Small(n + 1)
        PROVE  h[s] = IF s = {} THEN base ELSE step[s][h[s \ {pick[s]}]]
    <3>1. CASE s = {}
      BY <2>1, <2>3, <3>1
    <3>2. CASE s # {}
      <4>1. s \ {pick[s]} \in Small(n)
        BY <2>2, <3>2
      <4>2. s \ {pick[s]} \in Small(n + 1)
        BY <1>10, <1>11, <2>0, <4>1
      <4>3. h[s \ {pick[s]}] = g[s \ {pick[s]}]
        BY <4>1, <4>2
      <4>4. h[s] = step[s][g[s \ {pick[s]}]]
        BY <2>1, <3>2
      <4> QED BY <3>2, <4>3, <4>4
    <3> QED BY <3>1, <3>2
  <2> HIDE DEF h
  <2>6. Defines(h, n + 1)
    BY <2>5
  <2> QED BY <2>0, <2>4, <2>6
<1> HIDE DEF N, Defines
<1>4. N = Nat
  <2>1. N \in SUBSET Nat
    BY DEF N
  <2> QED BY <1>2, <1>3, <2>1, NaturalSetInduction
<1>5. Cardinality(S) \in Nat
  BY FS_CardinalityType
<1>6. Small(Cardinality(S)) = SUBSET S
  BY <1>10, <1>11, <1>5
<1>7. Cardinality(S) \in N
  BY <1>4, <1>5
<1>8. PICK g \in [Small(Cardinality(S)) -> T] : Defines(g, Cardinality(S))
  BY <1>7 DEF N
<1> QED BY <1>6, <1>8 DEF Defines, Recursion
-----------------------------------------------------------------------------
(***************************************************************************)
(* The sum of a function over a finite set.                                *)
(***************************************************************************)

\* The element the fold takes out of a set, and the function it defines.
AnyOf(s) == CHOOSE x \in s : TRUE
SumBelow(f, S) ==
    CHOOSE iter : iter = [s \in SUBSET S |->
                            IF s = {} THEN 0
                            ELSE LET x == CHOOSE x \in s : TRUE
                                 IN  f[x] + iter[s \ {x}]]

Sums(iter, f, S) ==
    /\ iter[{}] = 0
    /\ \A s \in SUBSET S :
          s # {} => iter[s] = f[AnyOf(s)] + iter[s \ {AnyOf(s)}]

LEMMA SumIsChosen ==
    ASSUME NEW f, NEW S, DOMAIN f = S
    PROVE  SumFunction(f) = SumBelow(f, S)[S]
  BY DEF SumFunction, SumFunctionOnSet, FoldFunctionOnSet, MapThenFoldSet, SumBelow

LEMMA SumRecursion ==
    ASSUME NEW S, IsFiniteSet(S), NEW f \in [S -> Int]
    PROVE  \E iter \in [SUBSET S -> Int] :
              SumFunction(f) = iter[S] /\ Sums(iter, f, S)
<1> DEFINE pick == [s \in SUBSET S |-> AnyOf(s)]
           step == [s \in SUBSET S |-> [t \in Int |-> f[pick[s]] + t]]
<1>1. ASSUME NEW s \in SUBSET S, s # {} PROVE AnyOf(s) \in s
  BY <1>1 DEF AnyOf
<1>2. \A s \in SUBSET S : s # {} => pick[s] \in s
  BY <1>1
<1>3. ASSUME NEW s \in SUBSET S, NEW t \in Int, s # {} PROVE step[s][t] \in Int
  <2>1. f[pick[s]] \in Int
    BY <1>2, <1>3
  <2> QED BY <2>1
<1>4. \E iter \in [SUBSET S -> Int] : Recursion(iter, S, 0, pick, step)
  <2>1. Picks(pick, S)
    BY <1>2 DEF Picks
  <2>2. Steps(step, S, Int)
    BY <1>3 DEF Steps
  <2>3. 0 \in Int
    OBVIOUS
  <2> HIDE DEF pick, step
  <2> QED BY <2>1, <2>2, <2>3, SubsetRecursion, Zenon
<1>5. PICK iter \in [SUBSET S -> Int] : Recursion(iter, S, 0, pick, step)
  BY <1>4
<1>6. iter[{}] = 0
  BY <1>5 DEF Recursion
<1>7. ASSUME NEW s \in SUBSET S, s # {}
      PROVE  iter[s] = f[AnyOf(s)] + iter[s \ {AnyOf(s)}]
  <2>1. iter[s \ {pick[s]}] \in Int
    OBVIOUS
  <2> QED BY <1>5, <1>7, <2>1 DEF Recursion
<1> DEFINE B(it) == [s \in SUBSET S |->
                        IF s = {} THEN 0
                        ELSE LET x == CHOOSE x \in s : TRUE
                             IN  f[x] + it[s \ {x}]]
<1>8. iter = B(iter)
  BY <1>6, <1>7 DEF AnyOf
<1> DEFINE chosen == SumBelow(f, S)
<1>9. chosen = B(chosen)
  BY <1>8 DEF SumBelow
<1> HIDE DEF chosen
<1>10. ASSUME NEW s \in SUBSET S
       PROVE  chosen[s] = IF s = {} THEN 0 ELSE f[AnyOf(s)] + chosen[s \ {AnyOf(s)}]
  BY <1>9 DEF AnyOf
<1> HIDE DEF B
<1> DEFINE P == {s \in SUBSET S : chosen[s] = iter[s]}
<1>11. P = SUBSET S
  <2>1. {} \in P
    BY <1>6, <1>10
  <2>2. ASSUME NEW s \in SUBSET S, s # {}, \A x \in s : s \ {x} \in P
        PROVE  s \in P
    BY <1>1, <1>7, <1>10, <2>2
  <2>3. P \subseteq SUBSET S
    OBVIOUS
  <2> HIDE DEF P
  <2>4. Inductive(P, S)
    BY <2>1, <2>2, <2>3 DEF Inductive
  <2> QED BY <2>4, SubsetInduction
<1>12. SumFunction(f) = iter[S]
  <2>1. S \in P
    BY <1>11
  <2> QED BY <2>1, SumIsChosen DEF chosen
<1> QED BY <1>6, <1>7, <1>12 DEF Sums
\* A change at one place changes the sum by the difference.
LEMMA SumUpdate ==
    ASSUME NEW S, IsFiniteSet(S), NEW f \in [S -> Int], NEW g \in [S -> Int],
           NEW k \in S, \A x \in S \ {k} : g[x] = f[x]
    PROVE  SumFunction(g) = SumFunction(f) - f[k] + g[k]
<1>1. PICK a \in [SUBSET S -> Int] : SumFunction(f) = a[S] /\ Sums(a, f, S)
  BY SumRecursion
<1>2. PICK b \in [SUBSET S -> Int] : SumFunction(g) = b[S] /\ Sums(b, g, S)
  BY SumRecursion
<1> DEFINE P == {s \in SUBSET S : b[s] = a[s] + IF k \in s THEN g[k] - f[k] ELSE 0}
<1>3. {} \in P
  BY <1>1, <1>2 DEF Sums
<1>4. ASSUME NEW s \in SUBSET S, s # {}, \A x \in s : s \ {x} \in P
      PROVE  s \in P
  <2> DEFINE x == AnyOf(s)
             t == s \ {x}
  <2>1. x \in s
    BY <1>4 DEF AnyOf
  <2>2. a[s] = f[x] + a[t] /\ b[s] = g[x] + b[t]
    BY <1>1, <1>2, <1>4 DEF Sums
  <2>3. t \in SUBSET S /\ b[t] = a[t] + IF k \in t THEN g[k] - f[k] ELSE 0
    BY <1>4, <2>1
  <2>4. /\ a[s] \in Int /\ a[t] \in Int /\ b[s] \in Int /\ b[t] \in Int
        /\ f[x] \in Int /\ g[x] \in Int /\ f[k] \in Int /\ g[k] \in Int
    BY <2>1, <2>3
  <2>5. CASE x = k
    BY <2>1, <2>2, <2>3, <2>4, <2>5
  <2>6. CASE x # k
    <3>1. g[x] = f[x] /\ (k \in s <=> k \in t)
      BY <2>1, <2>6
    <3> HIDE DEF x, t
    <3>2. b[s] = a[s] + IF k \in s THEN g[k] - f[k] ELSE 0
      BY <2>2, <2>3, <2>4, <3>1
    <3> QED BY <3>2
  <2> QED BY <2>5, <2>6
<1>5. Inductive(P, S)
  <2>1. P \subseteq SUBSET S
    OBVIOUS
  <2> HIDE DEF P
  <2> QED BY <1>3, <1>4, <2>1 DEF Inductive
<1>6. P = SUBSET S
  <2> HIDE DEF P
  <2> QED BY <1>5, SubsetInduction
<1>7. S \in P
  BY <1>6
<1>8. a[S] \in Int /\ b[S] \in Int /\ f[k] \in Int /\ g[k] \in Int
  OBVIOUS
<1> QED BY <1>1, <1>2, <1>7, <1>8

\* A sum of natural numbers is one, not less than any summand, and 0 when all
\* summands are.
LEMMA SumBounds ==
    ASSUME NEW S, IsFiniteSet(S), NEW f \in [S -> Nat]
    PROVE  /\ SumFunction(f) \in Nat
           /\ \A x \in S : f[x] <= SumFunction(f)
           /\ (\A x \in S : f[x] = 0) => SumFunction(f) = 0
<1>1. f \in [S -> Int]
  OBVIOUS
<1>2. PICK a \in [SUBSET S -> Int] : SumFunction(f) = a[S] /\ Sums(a, f, S)
  BY <1>1, SumRecursion
<1> DEFINE P == {s \in SUBSET S : /\ a[s] >= 0
                                  /\ \A x \in s : f[x] <= a[s]
                                  /\ (\A x \in S : f[x] = 0) => a[s] = 0}
<1>3. {} \in P
  BY <1>2 DEF Sums
<1>4. ASSUME NEW s \in SUBSET S, s # {}, \A x \in s : s \ {x} \in P
      PROVE  s \in P
  <2> DEFINE x == AnyOf(s)
             t == s \ {x}
  <2>1. x \in s
    BY <1>4 DEF AnyOf
  <2>2. a[s] = f[x] + a[t]
    BY <1>2, <1>4 DEF Sums
  <2>3. t \in P /\ a[t] \in Int /\ a[s] \in Int /\ f[x] \in Nat
    BY <1>4, <2>1
  <2>4. a[t] >= 0 /\ ((\A y \in S : f[y] = 0) => a[t] = 0)
    BY <2>3
  <2>5. a[s] >= 0 /\ ((\A y \in S : f[y] = 0) => a[s] = 0)
    BY <2>1, <2>2, <2>3, <2>4
  <2>6. ASSUME NEW y \in s PROVE f[y] <= a[s]
    <3>1. CASE y = x
      BY <2>2, <2>3, <2>4, <3>1
    <3>2. CASE y # x
      <4>1. f[y] <= a[t] /\ f[y] \in Nat
        BY <2>3, <3>2
      <4> HIDE DEF x, t
      <4> QED BY <2>2, <2>3, <4>1
    <3> QED BY <3>1, <3>2
  <2> QED BY <2>5, <2>6
<1>5. Inductive(P, S)
  <2>1. P \subseteq SUBSET S
    OBVIOUS
  <2> HIDE DEF P
  <2> QED BY <1>3, <1>4, <2>1 DEF Inductive
<1>6. P = SUBSET S
  <2> HIDE DEF P
  <2> QED BY <1>5, SubsetInduction
<1>7. S \in P
  BY <1>6
<1> QED BY <1>2, <1>7
-----------------------------------------------------------------------------
(***************************************************************************)
(* The left fold of a sequence.  It is the value at the whole domain of a  *)
(* function on sets of indices that takes out the greatest index; along    *)
(* the sets 1..n that function is the result after n elements.             *)
(***************************************************************************)
LEMMA MaxOf ==
    ASSUME NEW b \in Nat, NEW s \in SUBSET (1..b), s # {}
    PROVE  Max(s) \in s /\ \A y \in s : Max(s) >= y
<1>1. \E x \in s : \A y \in s : x >= y
  <2>1. s \in SUBSET Nat /\ \A x \in s : x <= b
    OBVIOUS
  <2> QED BY <2>1, GreatestNatural
<1> QED BY <1>1 DEF Max

\* iter is the function of the fold, as long as its values are in T.
FoldsLeft(iter, w, T, base, op) ==
    \A s \in SUBSET DOMAIN w :
        /\ s = {} => iter[s] = base
        /\ s # {} /\ iter[s \ {Max(s)}] \in T =>
              iter[s] = op[iter[s \ {Max(s)}]][w[Max(s)]]

\* rounds[n] is the result for the first n elements.
Rounds(rounds, w, base, op) ==
    /\ rounds[0] = base
    /\ \A n \in 1..Len(w) : rounds[n] = op[rounds[n - 1]][w[n]]

\* Every function of the fold ends with the last round.
EndsWith(rounds, w, T, base, op) ==
    \A iter : FoldsLeft(iter, w, T, base, op) => iter[DOMAIN w] = rounds[Len(w)]

\* There is a function of the fold, and all of them are the rounds.
LEMMA FoldLeftRounds ==
    ASSUME NEW E, NEW w \in Seq(E), NEW T, NEW base \in T,
           NEW op \in [T -> [E -> T]]
    PROVE  /\ \E iter \in [SUBSET DOMAIN w -> T] : FoldsLeft(iter, w, T, base, op)
           /\ \E rounds \in [0..Len(w) -> T] :
                 Rounds(rounds, w, base, op) /\ EndsWith(rounds, w, T, base, op)
<1> DEFINE D == 1..Len(w)
           pick == [s \in SUBSET D |-> Max(s)]
           step == [s \in SUBSET D |-> [t \in T |-> op[t][w[pick[s]]]]]
<1>1. Len(w) \in Nat
  OBVIOUS
<1>2. D = DOMAIN w /\ IsFiniteSet(D)
  BY <1>1, FS_Interval
<1>3. \A i \in D : w[i] \in E
  OBVIOUS
<1>4. ASSUME NEW s \in SUBSET D, s # {}
      PROVE  pick[s] \in s /\ pick[s] = Max(s) /\ Max(s) \in D
  <2>1. Max(s) \in s
    BY <1>1, <1>4, MaxOf
  <2>2. pick[s] = Max(s)
    OBVIOUS
  <2> HIDE DEF pick
  <2> QED BY <2>1, <2>2
<1>5. \E iter \in [SUBSET D -> T] : Recursion(iter, D, base, pick, step)
  <2>1. Picks(pick, D)
    BY <1>4 DEF Picks
  <2>2. Steps(step, D, T)
    <3>1. ASSUME NEW s \in SUBSET D, NEW t \in T, s # {}
          PROVE  step[s][t] \in T
      <4>1. w[pick[s]] \in E
        <5> HIDE DEF pick, D
        <5> QED BY <1>3, <1>4, <3>1
      <4>2. step[s][t] = op[t][w[pick[s]]]
        OBVIOUS
      <4> HIDE DEF pick, step
      <4> QED BY <4>1, <4>2
    <3> QED BY <3>1 DEF Steps
  <2> HIDE DEF D, pick, step
  <2> QED BY <1>2, <2>1, <2>2, SubsetRecursion, Zenon
<1>6. PICK it \in [SUBSET D -> T] : Recursion(it, D, base, pick, step)
  BY <1>5
<1>7. ASSUME NEW s \in SUBSET D
      PROVE  /\ s = {} => it[s] = base
             /\ s # {} => it[s] = op[it[s \ {Max(s)}]][w[Max(s)]]
  <2>1. s = {} => it[s] = base
    BY <1>6 DEF Recursion
  <2>2. ASSUME s # {} PROVE it[s] = op[it[s \ {Max(s)}]][w[Max(s)]]
    <3>1. it[s] = step[s][it[s \ {pick[s]}]]
      BY <1>6, <2>2 DEF Recursion
    <3>2. it[s \ {pick[s]}] \in T
      OBVIOUS
    <3>3. step[s][it[s \ {pick[s]}]] = op[it[s \ {pick[s]}]][w[pick[s]]]
      BY <3>2
    <3> QED BY <1>4, <2>2, <3>1, <3>3
  <2> QED BY <2>1, <2>2
<1> HIDE DEF pick, step
<1>8. FoldsLeft(it, w, T, base, op)
  BY <1>2, <1>7 DEF FoldsLeft
<1>9. ASSUME NEW iter, FoldsLeft(iter, w, T, base, op)
      PROVE  iter[D] = it[D]
  <2> DEFINE P == {s \in SUBSET D : iter[s] = it[s]}
  <2>1. P \subseteq SUBSET D
    OBVIOUS
  <2>2. {} \in P
    BY <1>2, <1>7, <1>9 DEF FoldsLeft
  <2>3. ASSUME NEW s \in SUBSET D, s # {}, \A x \in s : s \ {x} \in P
        PROVE  s \in P
    <3>1. Max(s) \in s
      BY <1>4, <2>3
    <3>2. iter[s \ {Max(s)}] = it[s \ {Max(s)}] /\ it[s \ {Max(s)}] \in T
      BY <2>3, <3>1
    <3>3. iter[s] = op[iter[s \ {Max(s)}]][w[Max(s)]]
      BY <1>2, <1>9, <2>3, <3>2 DEF FoldsLeft
    <3> QED BY <1>7, <2>3, <3>2, <3>3
  <2> HIDE DEF P
  <2>4. Inductive(P, D)
    BY <2>1, <2>2, <2>3 DEF Inductive
  <2>5. P = SUBSET D
    BY <1>2, <2>4, SubsetInduction
  <2> QED BY <2>5 DEF P
<1> DEFINE rounds == [n \in 0..Len(w) |-> it[1..n]]
<1>10. ASSUME NEW n \in 0..Len(w) PROVE 1..n \in SUBSET D
  <2>1. \A i \in 1..n : i \in D
    BY <1>1
  <2> QED BY <2>1
<1>11. rounds \in [0..Len(w) -> T]
  <2>1. \A n \in 0..Len(w) : it[1..n] \in T
    <3> HIDE DEF D
    <3> QED BY <1>10
  <2> QED BY <2>1
<1>12. rounds[0] = base
  <2>1. 1..0 = {} /\ 0 \in 0..Len(w)
    BY <1>1
  <2>2. it[{}] = base
    BY <1>7
  <2> QED BY <2>1, <2>2
<1>13. ASSUME NEW n \in 1..Len(w) PROVE rounds[n] = op[rounds[n - 1]][w[n]]
  <2>1. n \in Nat /\ n \in 0..Len(w) /\ n - 1 \in 0..Len(w) /\ n \in 1..n
    <3> HIDE DEF rounds
    <3> QED BY <1>1
  <2>2. 1..n \in SUBSET D /\ 1..n # {}
    <3>1. 1..n # {}
      BY <2>1
    <3> QED BY <1>10, <2>1, <3>1
  <2>3. Max(1..n) = n
    <3>1. Max(1..n) \in 1..n /\ \A y \in 1..n : Max(1..n) >= y
      BY <2>1, <2>2, MaxOf
    <3> QED BY <2>1, <3>1
  <2>4. (1..n) \ {n} = 1..(n - 1)
    BY <2>1
  <2>5. it[1..n] = op[it[1..(n - 1)]][w[n]]
    BY <1>7, <2>2, <2>3, <2>4
  <2> QED BY <2>1, <2>5
<1>14. rounds[Len(w)] = it[D]
  BY <1>1
<1> HIDE DEF rounds
<1>15. Rounds(rounds, w, base, op) /\ EndsWith(rounds, w, T, base, op)
  BY <1>2, <1>9, <1>12, <1>13, <1>14 DEF Rounds, EndsWith
<1> HIDE DEF D
<1> QED BY <1>2, <1>8, <1>11, <1>15
=============================================================================
